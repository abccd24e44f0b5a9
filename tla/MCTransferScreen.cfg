CONSTANTS
    Names = {file, folder}
    LocalDir = here
    RemoteDirs = {root}
    Home = root
    Root = root
    ConnectMayFail = TRUE
    MaxCommands = 3
    Folders = {folder}
    Symlinks = {}
SPECIFICATION Spec
INVARIANTS ScreenTypeOK OneTransferAtATime SummaryTrue WaitsForAnAnswer
CHECK_DEADLOCK FALSE
