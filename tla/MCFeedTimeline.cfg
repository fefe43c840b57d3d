SPECIFICATION Spec
CONSTANTS
    Users = {u1, u2}
    MaxContents = 2
    NoURL = NoURL
SYMMETRY Symmetry
INVARIANTS
    TypeOK
    NothingMissed
    PrivacyKept
    UserContentPaired
