SPECIFICATION Spec
CONSTANTS
    Proxies = {}
    Voices = {v1}
    Operators = {}
    Configurers = {c1, c2}
    Idler = idler
    Procs = {p1, p2}
    NoOne = NoOne
    NoProc = NoProc
INVARIANT SwitchStopsServer
