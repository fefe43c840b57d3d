SPECIFICATION Spec
CONSTANTS
    Users = {u1, u2}
    Calls = {c1, c2, c3}
SYMMETRY Symmetry
INVARIANTS
    Consent
    MutualUnlessBroken
PROPERTIES
    AcceptedStays
