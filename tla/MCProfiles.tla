----------------------------- MODULE MCProfiles -----------------------------
EXTENDS Profiles, TLC

\* A file beside a subdirectory with another, which a walk lists later.
Names == <<"a", "sub">>
Groups == [n \in {"a", "sub"} |-> IF n = "a" THEN "top" ELSE "below"]

CONSTANTS foot, hypr
Symmetry == Permutations({foot, hypr})

=============================================================================
