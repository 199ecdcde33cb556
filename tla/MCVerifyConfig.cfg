\* Every entry of a head, a source and a tail; limits of four files and three deep; one edit.
SPECIFICATION Spec
CONSTANTS
    DirOrder <- MCDirs
    NameOrder <- MCNames
    Hidden = {"hid"}
    Home = "home"
    Config = {"free", "gone", "hypr"}
    Links <- MCLinks
    Absent = {"gone"}
    Leaving <- MCLeaving
    VarNames = {"$d"}
    Entry = "hypr"
    Conf = "conf"
    Lua = "lua"
    Disks <- MCDisks
    Edits <- MCEdits
    MaxEdits = 1
    MaxFiles = 4
    MaxDepth = 3
    MaxReads = 60
INVARIANTS
    NothingLeavesTheCopy
    FaithfulCopy
    RefusedForAReason
CHECK_DEADLOCK FALSE
