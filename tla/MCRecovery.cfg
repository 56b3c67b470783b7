\* Two processes, two turns, batches of two, a fault anywhere.
SPECIFICATION Spec
CONSTANTS
    Procs = {p1, p2}
    NoOne = NoOne
    Orphan = Orphan
    MaxTurns = 2
    MaxCalls = 2
    MaxBatch = 2
    MaxFaults = 1
    AskCalls = {1}
    Denials = {"denied"}
SYMMETRY Symmetry
INVARIANTS  HistoryIsTrue UsableIsSynced
PROPERTIES ResultIsFinal
