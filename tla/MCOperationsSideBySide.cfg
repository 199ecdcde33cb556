\* Two commands waiting for the lock while others run.
SPECIFICATION Spec
CONSTANTS
    d1 = d1
    d2 = d2
    a = a
    b = b
    c = c
    Proc = {p1, p2}
    SideBySide = TRUE
    Dest = {d1, d2}
    Profile = {a, b, c}
    Declared <- Shared
    Sources <- WithSource
    Directories = {}
    MaxOps = 3
    MaxStops = 1
    MaxTampers = 1
INVARIANTS
    OwnsNothingElse
PROPERTIES
    JournalNeverBuried
    HistoryIsKept
CHECK_DEADLOCK FALSE
