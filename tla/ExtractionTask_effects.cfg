\* One job, two workers, one fault: every outcome of every external effect.
SPECIFICATION Spec
CONSTANTS
    j1 = j1
    w1 = w1
    w2 = w2
    NoTask = NoTask
    Jobs <- OneJob
    Workers <- TwoWorkers
    MaxRetries = 1
    MaxFaults = 1
    Tiers <- AutoOrReview
    FileHash <- OwnHash
    CallbackJobs <- OneJob
    Configured <- AllOptional
    Followed <- AllStages
CHECK_DEADLOCK FALSE
SYMMETRY Alike
INVARIANTS
    TraceIsHonest
