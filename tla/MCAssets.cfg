\* Two storers of one content race a collector, crashes and power failures.
SPECIFICATION Spec
CONSTANTS
    Digests = {d1}
    Temps = {t1, t2}
    Sessions = {s1}
    Storers = {p1, p2}
    Collectors = {c1}
    NoOne = NoOne
    Grace = 1
    TempMin = 1
    MaxLate = 1
    MaxEntries = 3
SYMMETRY Symmetric
INVARIANTS AssetsAreKept
