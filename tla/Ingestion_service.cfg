\* One request with one file, one worker, one reviewer, one fault.
SPECIFICATION FairSpec
CONSTANTS
    j1 = j1
    p1 = p1
    w1 = w1
    r1 = r1
    NoTask = NoTask
    Jobs <- OneJob
    FileHash <- SameContent
    Requests <- OneRequest
    Files <- OneFile
    ValidFiles <- OneJob
    Workers <- OneWorker
    MaxRetries = 1
    MaxFaults = 1
    Tiers <- AutoOrReview
    CallbackJobs <- NoCallbacks
    Configured <- NoStages
    Followed <- Indexing
    Reviewers <- OneReviewer
CHECK_DEADLOCK FALSE
INVARIANTS
    WorkIsBacked
    UnreviewedIsNotLeftCompleted
PROPERTIES
    AcceptedJobsSettle
