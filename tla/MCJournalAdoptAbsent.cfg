\* One adopt, one death: of a directory, or of a path where nothing is.
SPECIFICATION Spec
CONSTANTS
    N = 1
    Kinds <- AdoptsOfBoth
    MaxStops = 1
    MaxTampers = 0
    Races = TRUE
INVARIANTS
    RefusesOnlyOutsiders
CHECK_DEADLOCK FALSE
