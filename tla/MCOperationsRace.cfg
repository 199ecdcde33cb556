\* Two commands waiting for the lock while others run.
SPECIFICATION Spec
CONSTANTS
    d1 = d1
    d2 = d2
    a = a
    b = b
    c = c
    Proc = {p1, p2}
    SideBySide = TRUE
    Dest = {d1, d2}
    Profile = {a, b}
    Declared <- Shared
    Sources <- Shared
    Directories = {}
    MaxOps = 4
    MaxStops = 0
    MaxTampers = 0
PROPERTIES
    RollbackReapplies
CHECK_DEADLOCK FALSE
