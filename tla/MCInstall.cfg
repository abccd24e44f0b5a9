CONSTANTS
    LocalPaths = {l1, l2}
    RemotePaths = {r1, r2}
    Foreign = {f1}
    Linkable = {l1, r1}
    RenameReplaces = TRUE
    Direct = TRUE
SPECIFICATION Spec
INVARIANTS TypeOK ReportTrue NothingThrownAway
PROPERTIES ReplacesOnlyLatecomers WholeOrUntouched
