\* One entry, two workers, one distillation, every user call and maintenance.
SPECIFICATION Spec
CONSTANTS
    Keys = {k1}
    Workers = {w1, w2}
    NoOne = NoOne
    Orphan = Orphan
    MaxSeq = 1
    MaxVersion = 4
    Keep = 2
    MaxAge = 2
    Grace = 2
    WorkerTtl = 1
    Backoff = 1
    MaxRetries = 2
SYMMETRY Symmetric
INVARIANTS AppliedOnce
PROPERTIES VersionsAreSound RetentionIsKept
