SPECIFICATION FairSpec
CONSTANTS
    Proxies = {r1}
    Voices = {v1}
    Operators = {}
    Configurers = {}
    Idler = idler
    Procs = {p1, p2}
    NoOne = NoOne
    NoProc = NoProc
PROPERTIES EnsureReadyReturns IdleServerUnloaded
