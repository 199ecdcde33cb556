--------------------------------- MODULE MCGc ---------------------------------
EXTENDS Gc

CONSTANTS e1, e2

\* The attic of an adopt and the attic of a rescue.
AdoptAndRescue == [e \in {e1, e2} |-> IF e = e1 THEN "adopt" ELSE "rescue"]
=============================================================================
