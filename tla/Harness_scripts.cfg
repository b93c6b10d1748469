\* Two documents, slices of two, a ladder of two candidates, two fields.
SPECIFICATION Spec
CONSTANTS
    default = default
    base = base
    small = small
    other = other
    word = word
    near = near
    NoValue = NoValue
    Suffix <- Directory
    Concurrency = 2
    Iterations = 2
    Warmup = 3
    Latencies <- Seconds
    DefaultModel = default
    Baseline = base
    Candidates <- Ladder
    Tolerance = 75
    Fields <- TwoFields
    Words <- TwoWords
    Ratio <- Similar
CHECK_DEADLOCK FALSE
INVARIANTS
    ReportIsTrue
    RunsAreSeparate
    WinnerIsEarned
