\* Three files, two at a time, one of them without a published digest; two
\* mutations and a save of one file; a shell with two background processes.
SPECIFICATION HostSpec
CONSTANTS
    Files = {f1, f2, f3}
    Checked = {f1, f2}
    Size = 2
    Slots = 2
    Retries = 1
    Overlap = FALSE
    MaxFaults = 2
    Mutators = {m1, m2}
    Target = Target
    MaxRacers = 3
    MaxKids = 2
    MaxToolFaults = 1
    Symbols = {"a", "?", "*"}
    MaxText = 3
CHECK_DEADLOCK FALSE
INVARIANTS FilesAreVerified  MutationsAreSafe ShellIsContained ToolTextIsExact
PROPERTIES ErrorsDrain HubCompletes ToolsEnd
