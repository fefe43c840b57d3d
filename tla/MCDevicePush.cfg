SPECIFICATION DevicesSpec
CONSTANTS
    Users = {u1, u2}
    Tokens = {t1, t2}
    Pushes = {p1, p2}
    NoUser = NoUser
SYMMETRY Symmetry
INVARIANTS
    RowsFollowRegistrations
    OnlyBadMessagesMute
    RefusedGoQuiet
PROPERTIES
    StraysAreRaces
