SPECIFICATION Spec
CONSTANTS
    Tools = {"write", "fetch"}
    Ghosts = {"ghost"}
    Asks = {"fetch"}
    Interruptible = {"fetch"}
    SourceIds = {"a", "b"}
    Pieces = {"x"}
    OutputSizes = {2, 3}
    InitialHistories <- MCHistories
    RoundLimits = {0, 1}
    MaxMessages = 4
    MaxToolCallsPerRound = 2
    MaxToolOutput = 2
    MaxTotalToolOutput = 3
    MaxTotalToolArguments = 3
    MaxModelOutput = 1
    MaxTotalModelOutput = 2
    MaxInvocationEvents = 19
    MaxInvocationBytes = 40
    MaxTurns = 2
    MaxFaults = 1
CHECK_DEADLOCK FALSE
INVARIANTS BudgetHolds 
PROPERTIES ConsumerIsTold TurnsEnd
