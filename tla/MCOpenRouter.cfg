SPECIFICATION FairSpec
CONSTANTS
    Turns = {t1}
    Chats = {c1}
    Admin = admin
    Nobody = Nobody
    Keys = {"k1"}
    NoKey = NoKey
    Names <- MCNames
    Free = "free"
    Primary = "a"
    Configured <- MCConfigured
    Attempts = 3
    Priced = {"p"}
    Context <- MCContext
    Unfit <- MCUnfit
    Listings <- MCListings
    Histories <- MCHistories
INVARIANTS TypeOK RetriesAreSafe OnlyPermitted ChainIsRight
PROPERTIES HistoryCounts TurnsAnswered
