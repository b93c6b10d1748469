\* Two calls of any clients at once over one connection, two attempts to a model
\* and three of a webhook, any answers.
SPECIFICATION FairSpec
CONSTANTS
    c1 = c1
    c2 = c2
    Calls <- TwoCalls
    Mixes <- Pairs
    OllamaAttempts = 2
    WebhookAttempts = 3
    PoolSize = 1
CHECK_DEADLOCK FALSE
INVARIANTS
    RetriesFollowPolicy
    MetricsAccount
PROPERTIES
    DeliversAtLeastOnce
    EveryCallEnds
