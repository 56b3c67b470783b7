SPECIFICATION FairSpec
CONSTANTS
    Prompts <- Turns
    Images = {"img"}
    Placeholder = "pad"
    Tokens = {"a", "eos"}
    Eos = "eos"
    Closes <- CloseEncodings
    MaxTokens = 3
    Depth = 2
    Budgets = {2, 3}
    Chunk = 2
    MaxEntries = 2
    MaxTotal = 7
    MinCacheable = 1
    Hybrids = {TRUE, FALSE}
    Windows = {0, 2}
    Slack = 1
    Faults = {"invalid", "salvage", "bare", "mtp", "host", "emit", "draw", "verdict", "encode", "cancel"}
    MaxFaults = 1
    MaxCalls = 2
INVARIANTS  RepliesAreTrue 
PROPERTIES CallsEnd
