SPECIFICATION Spec
CONSTANTS
    Handles = {h1}
    Workers = {w1}
    NoOne = NoOne
    Orphan = Orphan
    MaxSeq = 4
    MaxTurn = 1
    SessionTtl = 1
    WorkerTtl = 1
    RetryBase = 1
    RetryMax = 2
    MaxRetries = 0
    MaxCancels = 0
INVARIANTS  HistoryCovered
PROPERTIES AppendOnReplayedHistory
