\* Every operation ends, and what is old in quarantine is collected.
SPECIFICATION FairSpec
CONSTANTS
    Hub = {h1}
    Local = {}
    Procs = {p1, p2}
    Sessions = {x1}
    Entries = {e1, e2}
    NoOne = NoOne
    Ops = {"download", "remove", "bind", "gc"}
    Faults = {"crash"}
    MaxOps = 3
    MaxFaults = 1
CHECK_DEADLOCK FALSE
PROPERTY StoreSettles
