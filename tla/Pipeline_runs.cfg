\* One document, every stage failing or not.
SPECIFICATION Spec
CONSTANTS
    a = a
    b = b
    c = c
    NaN = NaN
    NoValue = NoValue
    Garbled = Garbled
    Grain = 1
    Words <- ThreeWords
    Reported <- Telling
    Fallible <- Everything
CHECK_DEADLOCK FALSE
INVARIANTS
    TypeOK
    PublishedIsSupported
    AutoIsCorroborated
    WorkIsShared
    TraceAccountsForRun
    MetricTellsOutcome
