\* One adopt with one file and the attic of a rescue, two deaths, two changes by others.
SPECIFICATION Spec
CONSTANTS
    e1 = e1
    e2 = e2
    Entry = {e1, e2}
    Kind <- AdoptAndRescue
    File = {"f"}
    MaxChanges = 2
    MaxStops = 2
PROPERTIES
    TakesOnlyWhatIsHeld
    WayBackIsKept
    TakesOnlyWhatWasShown
    PointedAtStays
    RemovalEnds
CHECK_DEADLOCK FALSE
