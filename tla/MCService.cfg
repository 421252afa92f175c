SPECIFICATION FairSpec
CONSTANTS
    Users = {u1, u2}
    Warm = warm
    Main = main
    Clickers = {c1}
    Updaters = {h1, h2}
    Procs = {p1, p2}
    MaxCrashes = 1
    MaxCalls = 2
    Settings = {s1, s2}
    Default = s1
    Nobody = Nobody
    NoProc = NoProc
INVARIANTS WorkersAccounted StatusIsTrue
PROPERTIES ComesBack
CHECK_DEADLOCK FALSE
