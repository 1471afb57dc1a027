---------------------------- MODULE MCListSetup ----------------------------
(* A forest of three trees for the run of ListSetup.                       *)
EXTENDS ListSetup, Sequences

Indexed(s) == [I \in 0 .. Len(s) - 1 |-> s[I + 1]]

\* Fronts 0 to 5 below 6, 6 and 7 below 8; 9 below 10; 11 alone.  Front 6
\* receives from one thread twice, front 8 gathers fronts that were linked
\* to 6 before, 4 updates only its grandparent.  The owners of the roots 10 and
\* 8 carry their marks from the loop over the fronts; root 11 comes first and
\* clears the one of 10.
ForestPar    == Indexed(<<6, 6, 6, 6, 6, 6, 8, 8, -1, 10, -1, -1>>)
ForestBnd    == Indexed(<<{6, 8}, {6, 8}, {6, 8}, {6, 8}, {8}, {6, 8}, {8}, {8}, {}, {10}, {}, {}>>)
ForestOwners == Indexed(<<0, 1, 1, 2, 2, 2, 0, 2, 0, 2, 2, 2>>)
ForestRoots  == <<11, 10, 8>>
=============================================================================
