SPECIFICATION FairSpec
CONSTANTS
    Hearers = {h1}
    Speakers = {s1}
    Main = main
    Idler = idler
    TTSBackend = "piper_plus"
    TTSFallback = "supertonic"
    NoOne = NoOne
INVARIANTS TypeOK NothingFreedInUse OneChild LoadedCanExpire
PROPERTIES RequestsEnd IdleUnloaded
