-------------------------- MODULE TriangularSolve --------------------------
(***************************************************************************)
(* What FrontMtx_solve and FrontMtx_MT_solve promise, whoever computes it  *)
(* and in whatever order: (L + I) D (I + U) X = B is solved front by       *)
(* front.  A front is solved forward once, from the forward solutions of   *)
(* all the fronts below that reach it, then by its diagonal block, but not *)
(* before every front above has used its forward solution, then backward   *)
(* from the solutions of all the fronts it reaches; and it is released     *)
(* only when no front below can still read it.                             *)
(*                                                                         *)
(* bnd[J] is here the set of fronts K with a block U(J,K).                 *)
(***************************************************************************)
EXTENDS FrontTree

CONSTANT empty   \* the fronts all of whose columns were postponed: nJ = 0

VARIABLES mtx,  \* mtx[J]: the stage of the solution of front J ("rhs" the right
                \* hand side, "y" solved forward, "z" by the diagonal, "x"
                \* backward) and the solutions that stage was computed from
          sol   \* sol[J]: what was stored in the solution matrix

tvars == <<mtx, sol>>

NoMtx     == [stage |-> "none", upd |-> {}]
Nonempty  == Front \ empty
At(J, st) == mtx[J].stage = st

\* The contributions of the fronts in S, each at stage st.
From(S, st) == {<<I, st>> : I \in S}

TInit ==
  /\ mtx = [J \in Front |-> IF J \in empty THEN NoMtx ELSE [stage |-> "rhs", upd |-> {}]]
  /\ sol = [J \in Front |-> NoMtx]

Step(J, from, to, contributions) ==
  /\ At(J, from)
  /\ mtx' = [mtx EXCEPT ![J] = [stage |-> to, upd |-> contributions]]
  /\ UNCHANGED sol

SolveForward(J) ==
  /\ \A I \in Updaters(J) : At(I, "y")
  /\ Step(J, "rhs", "y", From(Updaters(J), "y"))

SolveDiagonal(J) ==
  /\ \A K \in bnd[J] : ~At(K, "rhs")
  /\ Step(J, "y", "z", {})

SolveBackward(J) ==
  /\ \A K \in bnd[J] : At(K, "x")
  /\ Step(J, "z", "x", From(bnd[J], "x"))

StoreSolution(J) ==
  /\ At(J, "x")
  /\ \A I \in Updaters(J) : At(I, "x") \/ At(I, "released")
  /\ mtx' = [mtx EXCEPT ![J].stage = "released"]
  /\ sol' = [sol EXCEPT ![J] = mtx[J]]

TNext ==
  \E J \in Nonempty :
    SolveForward(J) \/ SolveDiagonal(J) \/ SolveBackward(J) \/ StoreSolution(J)

TSpec == TInit /\ [][TNext]_tvars
=============================================================================
