SPECIFICATION Spec
CONSTANTS
    Calls = {a, b, c}
    Ids = {1, 2}
    Handles = {h, g}
    Passwords = {p, q}
    Email = email
    Fields = {email, phone}
    Values = {v}
    None = None
INVARIANTS
    SignedInAsAsked
    LostOnlyByRace
CHECK_DEADLOCK FALSE
