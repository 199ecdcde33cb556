\* Three destinations, three deaths, nobody else at the live paths.
SPECIFICATION Spec
CONSTANTS
    N = 3
    Kinds <- RecoverableKinds
    MaxStops = 3
    MaxTampers = 0
    Races = TRUE
INVARIANTS
    TypeOK
    RefusesOnlyOutsiders
    FailsOnlyOnOutsiders
PROPERTIES
    ImplementsAtomicSwitch
CHECK_DEADLOCK FALSE
