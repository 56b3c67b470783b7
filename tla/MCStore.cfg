\* Every operation but collection, and one fault of any kind.
SPECIFICATION Spec
CONSTANTS
    Hub = {h1}
    Local = {l1}
    Procs = {p1, p2}
    Sessions = {x1}
    Entries = {e1, e2, e3}
    NoOne = NoOne
    Ops = {"download", "copy", "move", "link", "remove", "bind", "load", "delete"}
    Faults = {"drift", "rot", "edit", "crash", "power"}
    MaxOps = 3
    MaxFaults = 1
SYMMETRY Symmetry
CHECK_DEADLOCK FALSE
PROPERTIES KeepsPromise  TransfersAreKept
