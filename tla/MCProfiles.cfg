\* Two directories with a file and a subdirectory's file; three commands, two changes by others, one death.
SPECIFICATION Spec
CONSTANTS
    foot = foot
    hypr = hypr
    Dir = {foot, hypr}
    Order <- Names
    In <- Groups
    Text = {"x", "y"}
    Volatile = {"sub"}
    MaxCommands = 3
    MaxEdits = 2
    MaxStops = 1
INVARIANTS
    DeclaredIsCopied
    DriftIsOthers
PROPERTIES
    CopyIsOneMoment
SYMMETRY Symmetry
CHECK_DEADLOCK FALSE
