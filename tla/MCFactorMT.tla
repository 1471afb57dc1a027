----------------------------- MODULE MCFactorMT -----------------------------
(* Small front trees for the runs of FactorMT.                             *)
EXTENDS FactorMTInv

Indexed(s) == [J \in 0 .. Len(s) - 1 |-> s[J + 1]]

\* The roots in the order of their sib links.
OneRoot     == <<4>>
ForestRoots == <<3, 1>>

\* One root, three threads: 0 and 1 below 3, 2 and 3 below 4.  Front 3
\* receives from one other thread, front 4 from two, at the same time.
ThreePar    == Indexed(<<3, 3, 4, 4, -1>>)
ThreeBnd    == Indexed(<<{3, 4}, {3, 4}, {4}, {4}, {}>>)
ThreeOwners == Indexed(<<0, 1, 2, 0, 1>>)

\* A chain below a fork, two threads: 0 below 2, 1 and 2 below 3, 3 below 4;
\* front 0 does not update front 2, and each thread passes through fronts
\* of the other.
TwoPar    == Indexed(<<2, 3, 3, 4, -1>>)
TwoBnd    == Indexed(<<{3, 4}, {3}, {3, 4}, {4}, {}>>)
TwoOwners == Indexed(<<0, 1, 1, 0, 1>>)

\* Two roots, every thread with a tree of its own: each root has the owner
\* of its child.
ForestPar    == Indexed(<<1, -1, 3, -1>>)
ForestBnd    == Indexed(<<{1}, {}, {3}, {}>>)
ForestOwners == Indexed(<<0, 0, 1, 1>>)

\* A chain of three fronts and one of two.  Front 0 sends no aggregate to its
\* parent, only postponed data; the two roots have different owners, and
\* neither owns the child of its root.
TreesPar    == Indexed(<<1, 2, -1, 4, -1>>)
TreesBnd    == Indexed(<<{2}, {2}, {}, {4}, {}>>)
TreesOwners == Indexed(<<1, 0, 1, 1, 0>>)
TreesRoots  == <<4, 2>>
=============================================================================
