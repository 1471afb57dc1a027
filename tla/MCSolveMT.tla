----------------------------- MODULE MCSolveMT -----------------------------
(* A small factor for the run of SolveMT.                                  *)
EXTENDS SolveMTInv

Indexed(s) == [J \in 0 .. Len(s) - 1 |-> s[J + 1]]
Transposed(map) == [K \in Front |-> [J \in Front |-> map[J][K]]]

\* Fronts 0 and 1 below 2, and 2 and 3 below 4; all columns of front 3 were
\* postponed.  Not every thread has a path through every front.
ForkPar    == Indexed(<<2, 2, 4, 4, -1>>)
ForkBnd    == Indexed(<<{2, 4}, {2, 4}, {4}, {}, {}>>)
ForkRoot   == <<4>>
ForkEmpty  == {3}
ForkOwners == Indexed(<<0, 1, 2, 1, 0>>)

\* Two threads send to front 4 (forward) and to front 0 (backward) at the
\* same time; one thread sends to the other fronts.
ForkUpper  == [J \in Front |-> [K \in Front |-> IF K = 4 THEN (J + 1) % 3 ELSE 2]]
ForkLower  == Transposed(ForkUpper)
=============================================================================
