\* One job, two workers, two faults: every overlap of two runs of a job.
SPECIFICATION FairSpec
CONSTANTS
    j1 = j1
    w1 = w1
    w2 = w2
    NoTask = NoTask
    Jobs <- OneJob
    Workers <- TwoWorkers
    MaxRetries = 1
    MaxFaults = 2
    Tiers <- AutoOrReview
    FileHash <- OwnHash
    CallbackJobs <- NoCallbacks
    Configured <- NoStages
    Followed <- NoStages
CHECK_DEADLOCK FALSE
INVARIANTS
    TypeOK
    NoStrandedJob
    SingleCustody
    ReviewIsNotLeftCompleted
    OutcomeRecorded
PROPERTIES
    FollowsLifecycle
    EveryJobSettles
