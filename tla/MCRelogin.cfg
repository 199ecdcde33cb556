\* Two ricepilots, a destination both link and one that the first retires; one change by others or failed read.
SPECIFICATION Spec
CONSTANTS
    p1 = p1
    p2 = p2
    d1 = d1
    d2 = d2
    Proc = {p1, p2}
    Dest = {d1, d2}
    Source = {"new"}
    Want <- LinkAndRetire
    Environment <- BothTerminals
    MaxFiles = 2
    MaxChanges = 1
INVARIANTS
    StopsOnWhatWasTrue
    SettledWhenStopping
PROPERTIES
    OthersHoldOlderFiles
    OnlyTheQuestionWaits
CHECK_DEADLOCK FALSE
