CONSTANTS
    h1 = h1
    h2 = h2
    name = name
    corp = corp
    east = east
    west = west
    home = home
    moved = moved
    None = None
    Hosts = {h1, h2}
    NameOf <- MCNames
    Creds = {corp}
    Sites = {east, west}
    Calls = {p1, p2}
    Screens = {screen}
    Paths = {home, moved}
    DefaultPath = home
    Initial <- MCInitial
    SiteArgs = {west}
    MaxCalls = 1
    MaxPopups = 1
    MaxBoth = 1
SPECIFICATION Spec
PROPERTY BlankKeepsSecret
CHECK_DEADLOCK FALSE
