\* Two faults in a row: the process that recovers a turn fails as well.
SPECIFICATION FairSpec
CONSTANTS
    Procs = {p1, p2}
    NoOne = NoOne
    Orphan = Orphan
    MaxTurns = 1
    MaxCalls = 1
    MaxBatch = 1
    MaxFaults = 2
    AskCalls = {1}
    Denials = {"denied"}
PROPERTIES TurnCloses
