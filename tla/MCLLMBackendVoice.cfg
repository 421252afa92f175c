SPECIFICATION Spec
CONSTANTS
    Proxies = {}
    Voices = {v1}
    Operators = {}
    Configurers = {}
    Idler = idler
    Procs = {p1, p2}
    NoOne = NoOne
    NoProc = NoProc
PROPERTY VoiceTurnKeepsServer
