\* The instance of Rows_statements; its batches are all the sets of jobs.
SPECIFICATION Spec
CONSTANTS
    j1 = j1
    j2 = j2
    j3 = j3
    a1 = a1
    a2 = a2
    r1 = r1
    r2 = r2
    Jobs <- AllJobs
    Created <- OlderPair
    RunJobs <- OneRunJob
    Runs <- TwoRuns
    Reviewers <- TwoReviewers
    Tiers <- AutoOrReview
    Limits <- Two
CHECK_DEADLOCK FALSE
SYMMETRY Alike
INVARIANTS
    BatchStatusAsDocumented
