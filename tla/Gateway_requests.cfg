\* Up to three submissions with a read, four reads by two callers of two paths, a
\* preflight with a submission, and two polls over one thread; one call per caller,
\* path and minute, two minutes.
SPECIFICATION GatewayFairSpec
CONSTANTS
    e1 = e1
    a1 = a1
    a2 = a2
    a3 = a3
    b1 = b1
    c1 = c1
    c2 = c2
    d1 = d1
    p = p
    q = q
    r = r
    s = s
    look = look
    again = again
    odd = odd
    blank = blank
    pre = pre
    tool = tool
    h1 = h1
    h2 = h2
    bad = bad
    Jobs <- AllJobs
    Requests <- AllRequests
    Files <- UploadedFiles
    ValidFiles <- PdfFiles
    FileHash <- Content
    Earlier <- EarlierJobs
    Polls <- TwoPolls
    Threads = 1
    Reads <- SomeReads
    Preflights <- TwoPreflights
    Target <- Asked
    Malformed = bad
    Caller <- Callers
    Limit <- OnePerMinute
    Traffic <- SubmissionsOrPolls
    MaxWindows = 1
CHECK_DEADLOCK FALSE
INVARIANTS
    SubmissionsHold
    RefusedLeaveNothing
    VerdictIsEarned
PROPERTIES
    LimitsArePerUser
    EveryCallIsAnswered
