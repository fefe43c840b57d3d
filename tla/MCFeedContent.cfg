SPECIFICATION FairSpec
CONSTANTS
    Contents = {note, story}
    Stories = {story}
    Plain = {note}
    Calls = {call}
    Rounds = {round1, round2}
    MaxFaults = 2
INVARIANTS
    Whole
    OrphansBlamed
    FileGoesFirst
PROPERTIES
    StoriesGo
CHECK_DEADLOCK FALSE
