\* Two owners, a worker and lease-free writers on one session.
SPECIFICATION FairSpec
CONSTANTS
    Handles = {h1, h2}
    Workers = {w1}
    NoOne = NoOne
    Orphan = Orphan
    MaxSeq = 2
    MaxTurn = 1
    SessionTtl = 1
    WorkerTtl = 1
    RetryBase = 1
    RetryMax = 2
    MaxRetries = 1
    MaxCancels = 1
INVARIANTS  PromptOwnerKeepsAuthority
PROPERTIES  JobsSettle
