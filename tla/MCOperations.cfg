\* One command at a time: four operations, two deaths, two changes by the user.
SPECIFICATION Spec
CONSTANTS
    d1 = d1
    d2 = d2
    a = a
    b = b
    c = c
    Proc = {p1}
    SideBySide = FALSE
    Dest = {d1, d2}
    Profile = {a, b}
    Declared <- Shared
    Sources <- Shared
    Directories = {}
    MaxOps = 4
    MaxStops = 2
    MaxTampers = 2
INVARIANTS
    CurrentIsComplete
PROPERTIES
    JournalSettled
CHECK_DEADLOCK FALSE
