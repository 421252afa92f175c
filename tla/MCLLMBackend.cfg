SPECIFICATION Spec
CONSTANTS
    Proxies = {r1}
    Voices = {v1}
    Operators = {o1}
    Configurers = {c1}
    Idler = idler
    Procs = {p1, p2}
    NoOne = NoOne
    NoProc = NoProc
SYMMETRY ServerSymmetry
INVARIANTS TypeOK LeaseCountExact NoUnloadUnderLease NoStrayServer OneServer SwitchStopsServer
