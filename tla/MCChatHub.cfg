SPECIFICATION Spec
CONSTANTS
    Streams = {s1, s2, s3}
    Calls = {call}
    Conversations = {c1, c2}
    NoID = NoID
    Inputs = {c1, c2, NoID}
    Nil = Nil
    MaxMessages = 3
    MaxBroadcasts = 2
    MaxGone = 2
SYMMETRY Symmetry
INVARIANTS
    TypeOK
    MissesBounded
    NoGhosts
    ConversationsApart
    HeardIsSaved
CHECK_DEADLOCK FALSE
