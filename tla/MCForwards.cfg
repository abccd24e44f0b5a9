CONSTANTS
    s1 = s1
    None = None
    Other = Other
    Tuis = {t1, t2}
    Ids = {i1, i2}
    Pids = {p1, p2}
    Specs = {s1}
    Shows <- MCShows
    MaxOthers = 1
SPECIFICATION Spec
INVARIANTS ForwardsTypeOK RunningIsListed StoppedIsDead
SYMMETRY Interchangeable
