SPECIFICATION FairSpec
CONSTANTS
    Ids = {j1, j2, j3, j4}
    Cancellable = {j1, j2, j3, j4}
    Clients = {c1}
    MaxJobs = 2
    NoJob = NoJob
    NoOne = NoOne
PROPERTY SubmissionAnswered
