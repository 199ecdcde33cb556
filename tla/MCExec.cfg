\* A call with stdin, a query and the two that reach the session; up to one unit more than the cap per stream.
SPECIFICATION Spec
CONSTANTS
    Calls = {"sh -n", "hyprctl", "uwsm stop"}
    Input = 2
    PipeSize = 1
    Cap = 1
    Limit = 1
    Grace = 1
    MaxWritten = 2
INVARIANTS
    AnswerIsHonest
    TimeoutKillsItsOwn
PROPERTIES
    RunReturns
CHECK_DEADLOCK FALSE
