CONSTANTS
    right = right
    wrong = wrong
    NoSecret = NoSecret
    None = None
    Procs = {p1, p2}
    Hosts <- MCHosts
    Keys = {k1}
    Files <- MCFiles
    Sealed <- MCSealed
    Long <- MCLong
    Values = {right, wrong}
    Right <- MCRight
    Worlds <- MCWorlds
    Tries = 2
SPECIFICATION Spec
INVARIANTS ConnectTypeOK KeptIsProved AnswersMatch RefusedOnce SecretIsUsable
SYMMETRY Interchangeable
