\* One job, one worker, no fault, one retry.
SPECIFICATION Spec
CONSTANTS
    j1 = j1
    w1 = w1
    w2 = w2
    NoTask = NoTask
    Jobs <- OneJob
    Workers <- OneWorker
    MaxRetries = 1
    MaxFaults = 0
    Tiers <- AutoOrReview
    FileHash <- OwnHash
    CallbackJobs <- OneJob
    Configured <- AllOptional
    Followed <- AllStages
CHECK_DEADLOCK FALSE
INVARIANTS
    ReviewHeldOutOfSearch
