CONSTANTS
    Names = {a}
    LocalDir = here
    RemoteDirs = {root}
    Home = root
    Root = root
    Foreign = {f1}
    Linkable <- ServerPaths
    RenameReplaces = TRUE
    Direct = TRUE
    MaxEntries = 1
    ConnectMayFail = TRUE
    BatchMayFail = TRUE
    MaxCommands = 2
SPECIFICATION FairWorkerSpec
INVARIANTS WorkerTypeOK
PROPERTIES ImplementsService DrivesInstall DoneIsTrue CloseEndsWorker
CHECK_DEADLOCK FALSE
