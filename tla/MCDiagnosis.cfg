\* One command at a time with a directory to adopt: four operations, two deaths, two changes by the user or by rescue.sh.
SPECIFICATION DiagnosisSpec
CONSTANTS
    d1 = d1
    d2 = d2
    a = a
    b = b
    c = c
    Proc = {p1}
    SideBySide = FALSE
    Dest = {d1, d2}
    Profile = {a, b}
    Declared <- Unadopted
    Sources <- OnlyTheFirst
    Directories = {d2}
    MaxOps = 4
    MaxStops = 2
    MaxTampers = 2
INVARIANTS
    CurrentIsTrue
    OwnWorkIsOwned
    DoctorIsQuiet
    ReportsForetellSwitch
    RescueIsAnswered
PROPERTIES
    DisplacesOnlyItsOwn
    AloneAsPromised
CHECK_DEADLOCK FALSE
