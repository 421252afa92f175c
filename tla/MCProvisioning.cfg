SPECIFICATION FairSpec
CONSTANTS
    Boot = boot
    Requests = {r1}
    Specs <- MCSpecs
    MaxKills = 1
    MaxClicks = 1
    Nobody = Nobody
INVARIANTS FlagsAreRight InstalledIsWhole
PROPERTIES ReadyStays GateOpens
