\* A job that two runs may be about, and an older batch of two jobs; two reviewers;
\* pages of two, of which the second begins between the two of the batch.
SPECIFICATION Spec
CONSTANTS
    j1 = j1
    j2 = j2
    j3 = j3
    a1 = a1
    a2 = a2
    r1 = r1
    r2 = r2
    Jobs <- AllJobs
    Created <- OlderPair
    RunJobs <- OneRunJob
    Runs <- TwoRuns
    Reviewers <- TwoReviewers
    Tiers <- AutoOrReview
    Limits <- Two
CHECK_DEADLOCK FALSE
SYMMETRY Alike
INVARIANTS
    DecisionsAreWhole
    SettledRowsAreWhole
    ScanSeesTheQueue
PROPERTIES
    ResultsOutliveStaleReads
