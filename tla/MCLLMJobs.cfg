SPECIFICATION FairSpec
CONSTANTS
    Ids = {j1, j2, j3}
    Clients = {c1, c2}
    MaxJobs = 2
    Cancellable = {j1, j2, j3}
    NoJob = NoJob
    NoOne = NoOne
INVARIANTS TypeOK NoJobLost StageIsLeased AtMostMaxJobs
PROPERTIES ImplementsJobService JobsEnd
