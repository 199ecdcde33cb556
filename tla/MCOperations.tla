---------------------------- MODULE MCOperations ----------------------------
EXTENDS Operations

CONSTANTS d1, d2, a, b, c

\* Two profiles that share d1: a switch between them re-points it, and
\* creates or retires d2.  A third declares d2 and has no source for it, until
\* an adopt that its manifest refuses has left its copy there.
Shared == [p \in Profile |-> CASE p = a -> {d1, d2}
                              [] p = b -> {d1}
                              [] p = c -> {d2}]
WithSource == [p \in Profile |-> CASE p = a -> {d1, d2}
                                  [] p = b -> {d1}
                                  [] p = c -> {}]

\* The same two where d2 is the user's directory until it is adopted: into a,
\* which does not declare it yet, or into b, which declares it already but
\* has no source for it.
Unadopted == [p \in {a, b} |-> IF p = a THEN {d1} ELSE {d1, d2}]
OnlyTheFirst == [p \in {a, b} |-> {d1}]

=============================================================================
