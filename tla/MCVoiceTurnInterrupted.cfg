SPECIFICATION Spec
CONSTANTS
    Turns = {t1}
    Streamed = {t1}
    Sessions = {s1}
    NoSession = NoSession
    Recent = 2
    Memory = 2
    Cap = 1
    MaxDeltas = 1
    Free = Free
    NoFile = NoFile
CHECK_DEADLOCK FALSE
INVARIANT InterruptedRepliesAreNotAdded
