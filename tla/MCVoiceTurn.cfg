SPECIFICATION FairSpec
CONSTANTS
    Turns = {t1, t2}
    Streamed = {t1}
    Sessions = {s1}
    NoSession = NoSession
    Recent = 2
    Memory = 1
    Cap = 1
    MaxDeltas = 2
    Free = Free
    NoFile = NoFile
CHECK_DEADLOCK FALSE
INVARIANTS TypeOK SpokenInOrder LeasesExact WindowIsRight
PROPERTIES TurnsEnd StreamsEnd SavesAppend
