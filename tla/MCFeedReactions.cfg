SPECIFICATION ReactionsSpec
CONSTANTS
    Calls = {a, b, c, d}
    Reactors = {u}
    Contents = {x, y}
    Types = {like, love}
    NoType = NoType
INVARIANTS
    DoubledOnlyByRace
    ReactionSurvives
SYMMETRY Symmetry
CHECK_DEADLOCK FALSE
