CONSTANTS
    s1 = s1
    None = None
    Other = Other
    Tuis = {t1}
    Ids = {i1, i2}
    Pids = {p1, p2}
    Specs = {s1}
    Shows <- MCShows
    MaxOthers = 0
SPECIFICATION Spec
INVARIANT StopsTheChosen
