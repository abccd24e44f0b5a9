CONSTANTS
    None = None
    Names = {1, 2, 3, 4}
    SiteNames <- MCSiteNames
    Lower <- MCLower
    Folded <- MCFolded
    Alphabet <- MCAlphabet
    Tags = {"tag"}
    Texts = {"text"}
    Score <- MCScore
    Starts <- MCStarts
    Others <- MCOthers
    Imports <- MCImports
    Entered <- MCEntered
    SiteLists <- MCSiteLists
    Asked <- MCAsked
    Sorts = {"frecency"}
    FirstNew = 4
    MaxId = 6
    MaxChanges = 2
    MaxUses = 1
SPECIFICATION Spec
INVARIANTS AppTypeOK ListIsWhole
PROPERTIES ActsOnTheChosen
CHECK_DEADLOCK FALSE
