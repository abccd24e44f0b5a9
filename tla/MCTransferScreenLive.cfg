CONSTANTS
    Names = {folder, link}
    LocalDir = here
    RemoteDirs = {root, home}
    Home = home
    Root = root
    ConnectMayFail = FALSE
    MaxCommands = 2
    Folders = {folder}
    Symlinks = {link}
SPECIFICATION FairSpec
PROPERTY EscEndsItem
CHECK_DEADLOCK FALSE
