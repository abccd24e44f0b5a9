CONSTANTS
    Names = {a}
    LocalDir = here
    RemoteDirs = {root}
    Home = root
    Root = root
    ConnectMayFail = TRUE
    MaxCommands = 4
SPECIFICATION ServiceSpec
INVARIANTS NothingForgotten AnsweredOnce
PROPERTIES ServedInOrder
CHECK_DEADLOCK FALSE
