\* Documents of 0 to 4, 10, 11, 283 and 284 pages; answers of up to three
\* pieces for a single page.  A run ends.
CONSTANTS
    Docs <- MCDocs
    LoneReplies <- MCLoneReplies
    Replies <- MCReplies
SPECIFICATION Spec
CHECK_DEADLOCK FALSE
INVARIANTS
    EachPageOnce
    FailureStaysOnItsPage
    ScansAreDescribed
    AnswersAreReadWhole
    SidecarAlwaysBuilds
