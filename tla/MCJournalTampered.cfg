\* Three destinations, two deaths, two changes by other programs at any moment
\* but one: between a look at a live path and the rename that relies on it.
SPECIFICATION Spec
CONSTANTS
    N = 3
    Kinds <- RecoverableKinds
    MaxStops = 2
    MaxTampers = 2
    Races = FALSE
INVARIANTS
    AllOrNothing
    NothingLost
    JournalInv
    OneEmptyAtMost
    RetiresLast
PROPERTIES
    CrossedStays
CHECK_DEADLOCK FALSE
