SPECIFICATION Spec
CONSTANTS
    None = None
    WordOf <- MCWordOf
    OptionOf <- MCOptionOf
    DestOf <- MCDestOf
    ListOf <- MCListOf
    PortTexts <- MCPortTexts
    AbsoluteOf <- MCAbsoluteOf
    ProxyOf <- MCProxyOf
    Controls <- MCControls
    LocalUser = "me"
    Numbers <- MCPortTexts
    BadNames = {"xx"}
    Control = "ESC"
    KeyFiles <- MCKeyFiles
    Dirs <- MCDirs
    StartDir = "/ssh"
    PiecesOf <- MCPiecesOf
    LowerOf <- MCLowerOf
    Unprintable <- MCControls
    IPv4 = {"100.1", "100.2", "100.3", "100.4"}
    Lines <- MCLines
    FormWords = 3
    Givens <- MCGivens
    Flags <- MCFlags
    NewForm <- MCNewForm
    Sites <- MCSites
    Tunnels <- MCTunnels
    Opened <- MCOpened
    Keys <- MCKeys
    MaxEdits = 2
    Files <- MCFiles
    Configs <- MCConfigs
    Tailnets <- MCTailnets
INVARIANTS EntryTypeOK FormKeeps MeaningKept ImportIsWhole
CHECK_DEADLOCK FALSE
