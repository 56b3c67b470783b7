SPECIFICATION Spec
CONSTANTS
    j1 = j1
    j2 = j2
    Jobs <- MCJobs
    Requests <- MCRequests
    QueueSize = 1
    Cap = 1
    Leaves = {"cancel", "wait", "drop"}
    MaxFaults = 1
    Blank = " "
    MarkerPairs <- MCPairs
    ToolOpen <- MCToolOpen
    ToolClose <- MCToolClose
    Valid <- MCValid
    Special = {}
    EosText <- MCEos
    MaxPrefixSpace = 4
    MaxCloseSpace = 1
    MaxCalls = 2
    Symbols = {"a", " ", "<", "/", "t", "c", "e"}
    Vocabulary <- MCVocabulary
    MaxTokens = 3
    Seeds <- MCSeeds
    Budgets = {1, 2, 9}
CHECK_DEADLOCK FALSE
INVARIANTS ReadersSeeTheReply 
PROPERTIES EndIsAnnounced RequestsAreServed
