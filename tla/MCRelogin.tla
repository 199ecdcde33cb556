------------------------------ MODULE MCRelogin ------------------------------
EXTENDS Relogin

CONSTANTS p1, p2, d1, d2

\* Both link the first destination to the same place; one retires the second.
LinkAndRetire == [p \in {p1, p2} |-> [d \in {d1, d2} |->
                    IF p = p1 /\ d = d2 THEN "nothing" ELSE "new"]]

\* A terminal emulator in the session.
InSession == [runtime |-> "usable", wayland |-> "plain name", bus |-> TRUE,
              remote |-> FALSE, multiplexer |-> FALSE, tty |-> 34817]

\* A virtual console, with the session's variables.
Console == [InSession EXCEPT !.tty = 1026]

BothTerminals == {InSession, Console}
=============================================================================
