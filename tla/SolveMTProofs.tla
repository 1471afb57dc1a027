--------------------------- MODULE SolveMTProofs ---------------------------
(***************************************************************************)
(* The threads of SolveMT, for every tree, every map of fronts and blocks  *)
(* and any number of threads: the barriers keep them together and a reader *)
(* sees finished solutions (ReadInv), the dequeue of a thread never lacks  *)
(* room and no thread leaves a loop with work to do (DequeInv), and what a *)
(* thread has in hand is its own (HandInv).                                *)
(***************************************************************************)
EXTENDS SolveMTInv, WellFoundedInduction, FiniteSetTheorems, TLAPS

\* The three kinds of steps that stay in a loop.
StepWithin(t, labels) ==
  /\ pc[t] \in labels
  /\ pc' = [pc EXCEPT ![t] = pc'[t]]
  /\ pc'[t] \in labels
  /\ UNCHANGED <<phase, isDone>>

StoreLabels == {"copy", "done"}

Boundary(t) == Exhausted(t) \/ DiagonalEnd(t) \/ ToDiagonal(t) \/ ToBackward(t) \/ ToStore(t)

\* A step of a worker stays in its loop, or ends it, or enters the next one.
LEMMA StepShapes ==
  ASSUME BarrierInv, NEW t \in Thread, Worker(t)
  PROVE  \/ StepWithin(t, SolveLabels)
         \/ StepWithin(t, DiagonalLabels)
         \/ StepWithin(t, StoreLabels)
         \/ Boundary(t)
<1> pc \in [Thread -> Labels]  BY DEF BarrierInv
<1> USE DEF Goto, pathVars, gatherVars, shared, StepWithin
<1>1. CASE Pop(t)  BY <1>1 DEF Pop, SolveLabels
<1>2. CASE ReturnForward(t)  BY <1>2 DEF ReturnForward, SolveLabels
<1>3. CASE ReturnBackward(t)  BY <1>3 DEF ReturnBackward, SolveLabels
<1>4. CASE ReturnActive(t)  BY <1>4 DEF ReturnActive, SolveLabels
<1>5. CASE VisitEmpty(t)  BY <1>5 DEF VisitEmpty, SolveLabels
<1>6. CASE PassThrough(t)  BY <1>6 DEF PassThrough, SolveLabels
<1>7. CASE VisitFront(t)  BY <1>7 DEF VisitFront, AfterUpdates, SolveLabels, VisitLabels
<1>8. CASE UpdateReady(t)  BY <1>8 DEF UpdateReady, SolveLabels, VisitLabels
<1>9. CASE UpdateWaits(t)  BY <1>9 DEF UpdateWaits, AfterUpdates, SolveLabels, VisitLabels
<1>10. CASE Apply(t)  BY <1>10 DEF Apply, AfterUpdates, SolveLabels, VisitLabels
<1>11. CASE Link(t)  BY <1>11 DEF Link, SolveLabels, VisitLabels
<1>12. CASE Store(t)  BY <1>12 DEF Store, SolveLabels, VisitLabels
<1>13. CASE Decrement(t)  BY <1>13 DEF Decrement, SolveLabels, VisitLabels
<1>14. CASE Poll(t)  BY <1>14 DEF Poll, AfterAggregates, SolveLabels, VisitLabels
<1>15. CASE Load(t)  BY <1>15 DEF Load, SolveLabels, VisitLabels
<1>16. CASE Assemble(t)  BY <1>16 DEF Assemble, AfterAggregates, SolveLabels, VisitLabels
<1>17. CASE Count(t)  BY <1>17 DEF Count, SolveLabels, VisitLabels
<1>18. CASE Publish(t)  BY <1>18 DEF Publish, SolveLabels, VisitLabels
<1>19. CASE Signal(t)  BY <1>19 DEF Signal, SolveLabels, VisitLabels
<1>20. CASE DiagonalSolve(t)  BY <1>20 DEF DiagonalSolve, DiagonalLabels, MoveLabels
<1>21. CASE DiagonalMove(t)  BY <1>21 DEF DiagonalMove, DiagonalLabels, MoveLabels
<1>22. CASE DiagonalSignal(t)  BY <1>22 DEF DiagonalSignal, DiagonalLabels, MoveLabels
<1>23. CASE DiagonalReset(t)  BY <1>23 DEF DiagonalReset, DiagonalLabels, MoveLabels
<1>24. CASE Copy(t)  BY <1>24 DEF Copy, StoreLabels
<1>25. CASE CopyEnd(t)  BY <1>25 DEF CopyEnd, StoreLabels
<1> QED
  BY <1>1, <1>2, <1>3, <1>4, <1>5, <1>6, <1>7, <1>8, <1>9, <1>10, <1>11, <1>12, <1>13,
     <1>14, <1>15, <1>16, <1>17, <1>18, <1>19, <1>20, <1>21, <1>22, <1>23, <1>24, <1>25
     DEF Worker, Boundary

-----------------------------------------------------------------------------
(* The barriers                                                            *)

\* The threads start in the forward loop and no barrier was reached.
LEMMA BarrierInit == Init => BarrierInv
<1> SUFFICES ASSUME Init PROVE BarrierInv
  OBVIOUS
<1> USE DEF Init
<1>1. pc \in [Thread -> Labels]
  BY DEF Labels
<1>2. phase \in [Thread -> Phase]
  BY DEF Phase
<1>3. isDone \in [Loop -> [Thread -> BOOLEAN]]
  BY DEF Loop
<1>4. LabelsFit
  BY DEF LabelsFit, Solve, SolveLabels
<1>5. BarriersHold
  BY DEF BarriersHold, Loop, Later
<1> QED  BY <1>1, <1>2, <1>3, <1>4, <1>5 DEF BarrierInv

\* What the phase of a thread says about its label, and the other way round.
LEMMA LabelPhase ==
  ASSUME BarrierInv, NEW t \in Thread
  PROVE  /\ pc[t] \in Labels
         /\ phase[t] \in Phase
         /\ pc[t] \in SolveLabels => phase[t] \in Solve
         /\ pc[t] \in DiagonalLabels => phase[t] = "diagonal"
         /\ pc[t] \in StoreLabels => phase[t] = "store"
         /\ phase[t] = "store" => pc[t] \in StoreLabels
<1>1. pc[t] \in Labels /\ phase[t] \in Phase
  BY DEF BarrierInv
<1>2. /\ phase[t] \in Solve => pc[t] \in SolveLabels \cup {"barrier"}
      /\ phase[t] = "diagonal" => pc[t] \in DiagonalLabels \cup {"barrier"}
      /\ phase[t] = "store" => pc[t] \in {"copy", "done"}
  BY DEF BarrierInv, LabelsFit
<1> QED
  BY <1>1, <1>2
     DEF Phase, Solve, SolveLabels, VisitLabels, DiagonalLabels, MoveLabels, StoreLabels

\* A step inside a loop leaves the barriers alone.
LEMMA BarrierWithin ==
  ASSUME BarrierInv, NEW t \in Thread,
         NEW labels \in {SolveLabels, DiagonalLabels, StoreLabels}, StepWithin(t, labels)
  PROVE  BarrierInv'
<1>1. pc' = [pc EXCEPT ![t] = pc'[t]] /\ pc[t] \in labels /\ pc'[t] \in labels
      /\ phase' = phase /\ isDone' = isDone
  BY DEF StepWithin
<1>2. labels \subseteq Labels /\ "barrier" \notin labels
  BY DEF SolveLabels, VisitLabels, DiagonalLabels, MoveLabels, StoreLabels, Labels
<1>3. pc \in [Thread -> Labels] /\ phase \in [Thread -> Phase]
      /\ isDone \in [Loop -> [Thread -> BOOLEAN]]
  BY DEF BarrierInv
<1>4. (pc \in [Thread -> Labels] /\ phase \in [Thread -> Phase]
       /\ isDone \in [Loop -> [Thread -> BOOLEAN]])'
  BY <1>1, <1>2, <1>3
<1>5. \A u \in Thread : u # t => pc'[u] = pc[u]
  BY <1>1, <1>3
<1>6. LabelsFit'
  <2> SUFFICES ASSUME NEW u \in Thread
      PROVE /\ phase[u] \in Solve => pc'[u] \in SolveLabels \cup {"barrier"}
            /\ phase[u] = "diagonal" => pc'[u] \in DiagonalLabels \cup {"barrier"}
            /\ phase[u] = "store" => pc'[u] \in {"copy", "done"}
    BY <1>1 DEF LabelsFit
  <2>1. CASE u # t
    BY <2>1, <1>5 DEF BarrierInv, LabelsFit
  <2>2. CASE u = t
    <3>1. CASE labels = SolveLabels
      BY <3>1, <2>2, <1>1, LabelPhase DEF Solve
    <3>2. CASE labels = DiagonalLabels
      BY <3>2, <2>2, <1>1, LabelPhase DEF Solve
    <3>3. CASE labels = StoreLabels
      BY <3>3, <2>2, <1>1, LabelPhase DEF Solve, StoreLabels
    <3> QED  BY <3>1, <3>2, <3>3
  <2> QED  BY <2>1, <2>2
<1>7. BarriersHold'
  <2> SUFFICES ASSUME NEW p \in Loop, NEW u \in Thread
      PROVE /\ isDone[p][u] => phase[u] \in Later(p) \/ (phase[u] = p /\ pc'[u] = "barrier")
            /\ phase[u] \in Later(p) => AllDone(p)
    BY <1>1 DEF BarriersHold, AllDone
  <2>1. /\ isDone[p][u] => phase[u] \in Later(p) \/ (phase[u] = p /\ pc[u] = "barrier")
        /\ phase[u] \in Later(p) => AllDone(p)
    BY DEF BarrierInv, BarriersHold
  <2>2. pc[u] = "barrier" => pc'[u] = "barrier"
    BY <1>1, <1>2, <1>5
  <2> QED  BY <2>1, <2>2
<1> QED  BY <1>4, <1>6, <1>7 DEF BarrierInv

\* The end of a loop.
LEMMA BarrierReached ==
  ASSUME BarrierInv, NEW t \in Thread, Exhausted(t) \/ DiagonalEnd(t)
  PROVE  BarrierInv'
<1> DEFINE q == phase[t]
<1>1. /\ q \in Loop /\ pc[t] # "barrier"
      /\ isDone' = [isDone EXCEPT ![q][t] = TRUE]
      /\ pc' = [pc EXCEPT ![t] = "barrier"]
      /\ phase' = phase
  <2>1. CASE Exhausted(t)
    <3>1. pc[t] \in SolveLabels
      BY <2>1 DEF Exhausted, SolveLabels
    <3> QED  BY <2>1, <3>1, LabelPhase DEF Exhausted, Goto, Solve, Loop
  <2>2. CASE DiagonalEnd(t)
    <3>1. pc[t] \in DiagonalLabels
      BY <2>2 DEF DiagonalEnd, DiagonalLabels
    <3> QED  BY <2>2, <3>1, LabelPhase DEF DiagonalEnd, Goto, Loop
  <2> QED  BY <2>1, <2>2
<1> HIDE DEF q
<1>2. pc \in [Thread -> Labels] /\ phase \in [Thread -> Phase]
      /\ isDone \in [Loop -> [Thread -> BOOLEAN]]
  BY DEF BarrierInv
<1>3. (pc \in [Thread -> Labels] /\ phase \in [Thread -> Phase]
       /\ isDone \in [Loop -> [Thread -> BOOLEAN]])'
  <2>1. pc' \in [Thread -> Labels]
    BY <1>1, <1>2 DEF Labels
  <2>2. isDone' \in [Loop -> [Thread -> BOOLEAN]]
    BY <1>1, <1>2
  <2> QED  BY <2>1, <2>2, <1>1, <1>2
<1>4. /\ \A u \in Thread : pc'[u] = IF u = t THEN "barrier" ELSE pc[u]
      /\ \A p \in Loop : \A u \in Thread :
           isDone'[p][u] = (isDone[p][u] \/ (p = q /\ u = t))
  BY <1>1, <1>2
<1>5. LabelsFit'
  <2>1. \A u \in Thread :
          /\ phase[u] \in Solve => pc'[u] \in SolveLabels \cup {"barrier"}
          /\ phase[u] = "diagonal" => pc'[u] \in DiagonalLabels \cup {"barrier"}
          /\ phase[u] = "store" => pc'[u] \in {"copy", "done"}
    <3> TAKE u \in Thread
    <3>1. phase[t] # "store"
      BY <1>1 DEF Loop, q
    <3>2. CASE u = t  BY <3>1, <3>2, <1>4
    <3>3. CASE u # t  BY <3>3, <1>4 DEF BarrierInv, LabelsFit
    <3> QED  BY <3>2, <3>3
  <2> QED  BY <2>1, <1>1 DEF LabelsFit
<1>6. BarriersHold'
  <2> SUFFICES ASSUME NEW p \in Loop, NEW u \in Thread
      PROVE /\ isDone'[p][u] => phase[u] \in Later(p) \/ (phase[u] = p /\ pc'[u] = "barrier")
            /\ phase[u] \in Later(p) => AllDone(p)'
    BY <1>1 DEF BarriersHold
  <2>1. /\ isDone[p][u] => phase[u] \in Later(p) \/ (phase[u] = p /\ pc[u] = "barrier")
        /\ phase[u] \in Later(p) => AllDone(p)
    BY DEF BarrierInv, BarriersHold
  <2>2. AllDone(p) => AllDone(p)'
    BY <1>4 DEF AllDone
  <2>3. pc[u] = "barrier" => pc'[u] = "barrier"
    BY <1>4
  <2>4. isDone'[p][u] => isDone[p][u] \/ (phase[u] = p /\ pc'[u] = "barrier")
    BY <1>4 DEF q
  <2> QED  BY <2>1, <2>2, <2>3, <2>4
<1> QED  BY <1>3, <1>5, <1>6 DEF BarrierInv

\* The way into phase r, past the barrier of loop p.
Enters(t, p, r, label) ==
  /\ phase[t] = p /\ pc[t] = "barrier" /\ AllDone(p)
  /\ phase' = [phase EXCEPT ![t] = r]
  /\ pc' = [pc EXCEPT ![t] = label]
  /\ isDone' = isDone

\* A thread enters the next loop when every thread has reached the barrier.
LEMMA BarrierPassed ==
  ASSUME BarrierInv, NEW t \in Thread,
         \/ Enters(t, "forward", "diagonal", "diagonal")
         \/ Enters(t, "diagonal", "backward", "pop")
         \/ Enters(t, "backward", "store", "copy")
  PROVE  BarrierInv'
<1>1. PICK p \in Loop, r \in Phase, label \in Labels :
        /\ <<p, r, label>> \in {<<"forward", "diagonal", "diagonal">>,
              <<"diagonal", "backward", "pop">>, <<"backward", "store", "copy">>}
        /\ Enters(t, p, r, label)
  BY DEF Loop, Phase, Labels
<1>2. pc \in [Thread -> Labels] /\ phase \in [Thread -> Phase]
      /\ isDone \in [Loop -> [Thread -> BOOLEAN]]
  BY DEF BarrierInv
<1>3. /\ phase[t] = p /\ pc[t] = "barrier" /\ AllDone(p)
      /\ phase' = [phase EXCEPT ![t] = r]
      /\ pc' = [pc EXCEPT ![t] = label]
      /\ isDone' = isDone
  BY <1>1 DEF Enters
<1>4. (pc \in [Thread -> Labels] /\ phase \in [Thread -> Phase]
       /\ isDone \in [Loop -> [Thread -> BOOLEAN]])'
  BY <1>1, <1>2, <1>3
<1>5. \A u \in Thread : /\ pc'[u] = IF u = t THEN label ELSE pc[u]
                        /\ phase'[u] = IF u = t THEN r ELSE phase[u]
  BY <1>2, <1>3
<1>6. LabelsFit'
  <2>1. \A u \in Thread :
          /\ phase'[u] \in Solve => pc'[u] \in SolveLabels \cup {"barrier"}
          /\ phase'[u] = "diagonal" => pc'[u] \in DiagonalLabels \cup {"barrier"}
          /\ phase'[u] = "store" => pc'[u] \in {"copy", "done"}
    <3> TAKE u \in Thread
    <3>1. CASE u = t
      BY <3>1, <1>1, <1>5 DEF Solve, SolveLabels, DiagonalLabels
    <3>2. CASE u # t
      BY <3>2, <1>5 DEF BarrierInv, LabelsFit
    <3> QED  BY <3>1, <3>2
  <2> QED  BY <2>1 DEF LabelsFit
<1>7. BarriersHold'
  <2> SUFFICES ASSUME NEW l \in Loop, NEW u \in Thread
      PROVE /\ isDone[l][u] => phase'[u] \in Later(l) \/ (phase'[u] = l /\ pc'[u] = "barrier")
            /\ phase'[u] \in Later(l) => AllDone(l)
    BY <1>3 DEF BarriersHold, AllDone
  <2>1. /\ isDone[l][u] => phase[u] \in Later(l) \/ (phase[u] = l /\ pc[u] = "barrier")
        /\ phase[u] \in Later(l) => AllDone(l)
    BY DEF BarrierInv, BarriersHold
  <2>2. CASE u # t
    BY <2>1, <2>2, <1>5
  <2>3. CASE u = t
    <3>1. phase'[t] = r /\ phase[t] = p
      BY <1>3, <1>5
    <3>2. r \in Later(l) => p \in Later(l) \/ l = p
      BY <1>1 DEF Later, Loop
    <3>3. p \in Later(l) \/ l = p => r \in Later(l)
      BY <1>1 DEF Later, Loop
    <3> QED  BY <2>1, <2>3, <3>1, <3>2, <3>3, <1>3
  <2> QED  BY <2>2, <2>3
<1> QED  BY <1>4, <1>6, <1>7 DEF BarrierInv

\* What is known of the barriers is inductive.
LEMMA BarrierNext == BarrierInv /\ [Next]_vars => BarrierInv'
<1> SUFFICES ASSUME BarrierInv, [Next]_vars PROVE BarrierInv'
  OBVIOUS
<1>1. ASSUME NEW t \in Thread, Worker(t) PROVE BarrierInv'
  <2>1. CASE \E labels \in {SolveLabels, DiagonalLabels, StoreLabels} : StepWithin(t, labels)
    BY <2>1, BarrierWithin
  <2>2. CASE Exhausted(t) \/ DiagonalEnd(t)
    BY <2>2, BarrierReached
  <2>3. CASE ToDiagonal(t) \/ ToBackward(t) \/ ToStore(t)
    BY <2>3, BarrierPassed
       DEF Enters, ToDiagonal, ToBackward, ToStore, Goto, shared
  <2> QED  BY <1>1, <2>1, <2>2, <2>3, StepShapes DEF Boundary
<1>2. CASE UNCHANGED <<pc, phase, isDone>>
  BY <1>2 DEF BarrierInv, LabelsFit, BarriersHold, AllDone
<1> QED
  BY <1>1, <1>2 DEF Next, Join, Returned, vars, shared

\* BarriersHold: no two threads are ever separated by two of the spin barriers.
THEOREM BarriersCorrect == Spec => []BarriersHold
<1>1. BarrierInv => BarriersHold
  BY DEF BarrierInv
<1> QED  BY BarrierInit, BarrierNext, <1>1, PTL DEF Spec

\* Two threads in the same loop, or one ahead of the other by a barrier.
LEMMA Overlap ==
  ASSUME BarrierInv, NEW t \in Thread, NEW u \in Thread
  PROVE
    /\ pc[t] \in SolveLabels /\ phase[t] = "forward" =>
         phase[u] = "forward" /\ ~AllDone("diagonal")
    /\ pc[t] \in DiagonalLabels =>
         /\ ~isDone["diagonal"][t] /\ ~AllDone("diagonal")
         /\ pc[u] \notin SolveLabels /\ phase[t] = "diagonal"
    /\ pc[t] \in SolveLabels /\ phase[t] # "forward" =>
         /\ AllDone("diagonal") /\ phase[t] = "backward"
         /\ phase[u] \notin {"forward", "store"}
    /\ pc[t] \in StoreLabels =>
         AllDone("diagonal") /\ pc[u] \notin SolveLabels /\ phase[t] = "store"
<1>1. /\ pc[t] \in Labels /\ phase[t] \in Phase
      /\ pc[t] \in SolveLabels => phase[t] \in Solve
      /\ pc[t] \in DiagonalLabels => phase[t] = "diagonal"
      /\ pc[t] \in StoreLabels => phase[t] = "store"
  BY LabelPhase
<1>2. /\ pc[u] \in Labels /\ phase[u] \in Phase
      /\ pc[u] \in SolveLabels => phase[u] \in Solve
      /\ pc[u] \in DiagonalLabels => phase[u] = "diagonal"
      /\ pc[u] \in StoreLabels => phase[u] = "store"
  BY LabelPhase
<1>3. "barrier" \notin SolveLabels /\ "barrier" \notin DiagonalLabels
  BY DEF SolveLabels, VisitLabels, DiagonalLabels, MoveLabels
<1>4. \A p \in Loop : \A v \in Thread :
        /\ isDone[p][v] => phase[v] \in Later(p) \/ (phase[v] = p /\ pc[v] = "barrier")
        /\ phase[v] \in Later(p) => isDone[p][t] /\ isDone[p][u]
  BY DEF BarrierInv, BarriersHold, AllDone
<1>5. \A v \in Thread : phase[v] \in Later("diagonal") => AllDone("diagonal")
  BY DEF BarrierInv, BarriersHold, Loop
<1>6. AllDone("diagonal") => isDone["diagonal"][t]
  BY DEF AllDone
<1>7. /\ {"forward", "diagonal", "backward"} = Loop
      /\ Later("forward") = {"diagonal", "backward", "store"}
      /\ Later("diagonal") = {"backward", "store"}
      /\ Later("backward") = {"store"}
  BY DEF Loop, Later
<1>8. ASSUME pc[t] \in SolveLabels, phase[t] = "forward"
      PROVE  phase[u] = "forward" /\ ~AllDone("diagonal")
  <2>1. ~isDone["forward"][t] /\ ~isDone["diagonal"][t]
    BY <1>8, <1>3, <1>4, <1>7
  <2> QED  BY <2>1, <1>2, <1>4, <1>6, <1>7 DEF Phase
<1>9. ASSUME pc[t] \in DiagonalLabels
      PROVE  /\ ~isDone["diagonal"][t] /\ ~AllDone("diagonal")
             /\ pc[u] \notin SolveLabels /\ phase[t] = "diagonal"
  <2>1. phase[t] = "diagonal" /\ pc[t] # "barrier"
    BY <1>9, <1>1, <1>3
  <2>2. ~isDone["diagonal"][t]
    BY <2>1, <1>4, <1>7
  <2>3. phase[u] \notin {"backward", "store"}
    BY <2>2, <1>4, <1>7
  <2>4. isDone["forward"][u]
    BY <2>1, <1>4, <1>7
  <2>5. phase[u] = "forward" => pc[u] = "barrier"
    BY <2>4, <1>4, <1>7
  <2> QED  BY <2>1, <2>2, <2>3, <2>5, <1>2, <1>3, <1>6 DEF Solve
<1>10. ASSUME pc[t] \in SolveLabels, phase[t] # "forward"
       PROVE  /\ AllDone("diagonal") /\ phase[t] = "backward"
              /\ phase[u] \notin {"forward", "store"}
  <2>1. phase[t] = "backward" /\ pc[t] # "barrier"
    BY <1>10, <1>1, <1>3 DEF Solve
  <2>2. AllDone("diagonal") /\ isDone["forward"][u] /\ isDone["diagonal"][u]
    BY <2>1, <1>4, <1>5, <1>7
  <2>3. phase[u] # "forward"
    BY <2>2, <1>4, <1>7
  <2>4. ~isDone["backward"][t]
    BY <2>1, <1>4, <1>7
  <2>5. phase[u] # "store"
    BY <2>4, <1>4, <1>7
  <2> QED  BY <2>1, <2>2, <2>3, <2>5
<1>11. ASSUME pc[t] \in StoreLabels
       PROVE  AllDone("diagonal") /\ pc[u] \notin SolveLabels /\ phase[t] = "store"
  <2>1. phase[t] = "store"
    BY <1>11, <1>1
  <2>2. AllDone("diagonal") /\ isDone["forward"][u] /\ isDone["backward"][u]
    BY <2>1, <1>4, <1>5, <1>7
  <2>3. phase[u] \in Solve => pc[u] = "barrier"
    BY <2>2, <1>4, <1>7 DEF Solve
  <2> QED  BY <2>1, <2>2, <2>3, <1>2, <1>3
<1> QED  BY <1>8, <1>9, <1>10, <1>11

-----------------------------------------------------------------------------
(* What a thread works on                                                  *)

\* The sources of a front are fronts with rows.
LEMMA SourcesFit ==
  \A s \in Solve : \A t \in Thread : \A J \in Front : OwnSources(s, t, J) \subseteq Nonempty
BY TreeAssumption, SolveAssumption DEF OwnSources, Sources, Updaters, Nonempty

\* The least front of a set is one of the set.
LEMMA LeastIn ==
  ASSUME NEW S \in SUBSET Front, S # {}
  PROVE  Least(S) \in S
<1> DEFINE less == {p \in Nat \X Nat : p[1] < p[2]}
<1>1. S \subseteq Nat
  BY TreeAssumption DEF Front
<1>2. less = OpToRel(<, Nat)
  BY Zenon DEF OpToRel
<1>3. IsWellFoundedOn(less, Nat)
  BY <1>2, NatLessThanWellFounded
<1>4. \E J \in S : \A K \in S : <<K, J>> \notin less
  BY <1>1, <1>3, WFMin
<1>5. \A J \in Nat : \A K \in Nat : <<K, J>> \notin less => J <= K
  OBVIOUS
<1> HIDE DEF less
<1>6. \E J \in S : \A K \in S : J <= K
  BY <1>1, <1>4, <1>5
<1> QED  BY <1>6 DEF Least

\* Which actions change a variable.
LEMMA WhoChanges ==
  ASSUME NEW t \in Thread, Worker(t)
  PROVE
    /\ cur' = cur \/ Pop(t) \/ DiagonalSolve(t)
    /\ src' = src \/ UpdateReady(t)
    /\ \/ todo' = todo \/ VisitFront(t) \/ UpdateReady(t) \/ UpdateWaits(t)
       \/ ToDiagonal(t) \/ DiagonalSolve(t) \/ ToStore(t) \/ Copy(t)
    /\ heads' = heads \/ VisitFront(t) \/ UpdateWaits(t) \/ ToBackward(t)
    /\ \/ pAgg' = pAgg \/ VisitFront(t) \/ Apply(t) \/ Decrement(t)
       \/ Assemble(t) \/ Publish(t) \/ DiagonalMove(t)
    /\ pMtx' = pMtx \/ Publish(t) \/ DiagonalSolve(t) \/ DiagonalMove(t) \/ Copy(t)
    /\ \/ frontIsDone' = frontIsDone \/ VisitEmpty(t) \/ Signal(t)
       \/ DiagonalSignal(t) \/ DiagonalReset(t)
<1> USE DEF Worker, pathVars, gatherVars, shared, Pop, Exhausted, ReturnForward,
    ReturnBackward, ReturnActive, VisitEmpty, PassThrough, VisitFront, UpdateReady,
    UpdateWaits, Apply, Link, Store, Decrement, Poll, Load, Assemble, Count, Publish,
    Signal, ToDiagonal, DiagonalSolve, DiagonalMove, DiagonalSignal, DiagonalReset,
    DiagonalEnd, ToBackward, ToStore, Copy, CopyEnd
<1>1. cur' = cur \/ Pop(t) \/ DiagonalSolve(t)
  OBVIOUS
<1>2. src' = src \/ UpdateReady(t)
  OBVIOUS
<1>3. \/ todo' = todo \/ VisitFront(t) \/ UpdateReady(t) \/ UpdateWaits(t)
      \/ ToDiagonal(t) \/ DiagonalSolve(t) \/ ToStore(t) \/ Copy(t)
  OBVIOUS
<1>4. heads' = heads \/ VisitFront(t) \/ UpdateWaits(t) \/ ToBackward(t)
  OBVIOUS
<1>5. \/ pAgg' = pAgg \/ VisitFront(t) \/ Apply(t) \/ Decrement(t)
      \/ Assemble(t) \/ Publish(t) \/ DiagonalMove(t)
  OBVIOUS
<1>6. pMtx' = pMtx \/ Publish(t) \/ DiagonalSolve(t) \/ DiagonalMove(t) \/ Copy(t)
  OBVIOUS
<1>7. \/ frontIsDone' = frontIsDone \/ VisitEmpty(t) \/ Signal(t)
      \/ DiagonalSignal(t) \/ DiagonalReset(t)
  OBVIOUS
<1> QED  BY <1>1, <1>2, <1>3, <1>4, <1>5, <1>6, <1>7

WorkTypes ==
  /\ DOMAIN cur = Thread /\ DOMAIN src = Thread
  /\ todo \in [Thread -> SUBSET Front]
  /\ heads \in [Thread -> [Front -> SUBSET Nonempty]]

\* The work lists keep their types.
LEMMA WorkTypesStep ==
  ASSUME BarrierInv, WorkFits, NEW t \in Thread, Worker(t)
  PROVE  WorkTypes'
<1> USE WhoChanges
<1>0. /\ DOMAIN cur = Thread /\ DOMAIN src = Thread
      /\ todo \in [Thread -> SUBSET Front]
      /\ heads \in [Thread -> [Front -> SUBSET Nonempty]]
      /\ WorkOf(t)
  BY DEF WorkFits
<1>1. DOMAIN cur' = Thread
  BY <1>0 DEF Pop, DiagonalSolve
<1>2. DOMAIN src' = Thread
  BY <1>0 DEF UpdateReady
<1>3. todo' \in [Thread -> SUBSET Front]
  <2>1. CASE todo' = todo  BY <2>1, <1>0
  <2>2. CASE VisitFront(t)
    <3>1. heads[t][cur[t]] \in SUBSET Front
      BY <2>2, <1>0 DEF VisitFront, Nonempty
    <3> QED  BY <3>1, <2>2, <1>0 DEF VisitFront, Waiting
  <2>3. CASE UpdateReady(t)  BY <2>3, <1>0 DEF UpdateReady
  <2>4. CASE UpdateWaits(t)  BY <2>4, <1>0 DEF UpdateWaits
  <2>5. CASE ToDiagonal(t)  BY <2>5, <1>0 DEF ToDiagonal, OwnedFronts
  <2>6. CASE DiagonalSolve(t)  BY <2>6, <1>0 DEF DiagonalSolve
  <2>7. CASE ToStore(t)  BY <2>7, <1>0 DEF ToStore, OwnedFronts
  <2>8. CASE Copy(t)  BY <2>8, <1>0 DEF Copy
  <2> QED  BY <2>1, <2>2, <2>3, <2>4, <2>5, <2>6, <2>7, <2>8
<1>4. heads' \in [Thread -> [Front -> SUBSET Nonempty]]
  <2>1. CASE heads' = heads  BY <2>1, <1>0
  <2>2. CASE VisitFront(t)  BY <2>2, <1>0 DEF VisitFront
  <2>3. CASE UpdateWaits(t)
    <3>1. PICK I \in todo[t] :
            heads' = [heads EXCEPT ![t][cur[t]] = @ \cup {I}]
      BY <2>3 DEF UpdateWaits
    <3>2. pc[t] = "update"
      BY <2>3 DEF UpdateWaits
    <3>3. I \in Nonempty /\ cur[t] \in Front
      BY <3>1, <3>2, <1>0 DEF WorkOf, VisitLabels, Nonempty
    <3> QED  BY <3>1, <3>3, <1>0
  <2>4. CASE ToBackward(t)
    <3>1. [J \in Front |-> OwnSources("backward", t, J)] \in [Front -> SUBSET Nonempty]
      BY SourcesFit DEF Solve
    <3> QED  BY <2>4, <3>1, <1>0 DEF ToBackward
  <2> QED  BY <2>1, <2>2, <2>3, <2>4
<1> QED  BY <1>1, <1>2, <1>3, <1>4 DEF WorkTypes

\* The other threads keep everything the invariant says of them.
SameThread(u) ==
  /\ pc'[u] = pc[u] /\ phase'[u] = phase[u] /\ cur'[u] = cur[u]
  /\ todo'[u] = todo[u] /\ src'[u] = src[u]

\* A step of one thread leaves the work of the others alone.
LEMMA OthersKeep ==
  ASSUME BarrierInv, WorkFits, NEW t \in Thread, Worker(t), NEW u \in Thread, u # t
  PROVE  SameThread(u)
<1> USE WhoChanges
<1>0. /\ DOMAIN cur = Thread /\ DOMAIN src = Thread
      /\ todo \in [Thread -> SUBSET Front]
      /\ pc \in [Thread -> Labels] /\ phase \in [Thread -> Phase]
  BY DEF WorkFits, BarrierInv
<1>1. pc'[u] = pc[u] /\ phase'[u] = phase[u]
  BY <1>0, StepShapes DEF StepWithin, Boundary, Goto, Exhausted, DiagonalEnd,
       ToDiagonal, ToBackward, ToStore
<1>2. cur'[u] = cur[u]
  BY <1>0 DEF Pop, DiagonalSolve
<1>3. src'[u] = src[u]
  BY <1>0 DEF UpdateReady
<1>4. todo'[u] = todo[u]
  BY <1>0 DEF VisitFront, UpdateReady, UpdateWaits, ToDiagonal, DiagonalSolve, ToStore, Copy
<1> QED  BY <1>1, <1>2, <1>3, <1>4 DEF SameThread

\* The labels of a thread after its step.
LEMMA WorkOfStep ==
  ASSUME BarrierInv, WorkFits, NEW t \in Thread, Worker(t)
  PROVE  WorkOf(t)'
<1>0. /\ DOMAIN cur = Thread /\ DOMAIN src = Thread
      /\ todo \in [Thread -> SUBSET Front]
      /\ heads \in [Thread -> [Front -> SUBSET Nonempty]]
      /\ pc \in [Thread -> Labels] /\ phase \in [Thread -> Phase]
  BY DEF WorkFits, BarrierInv
<1>1. WorkOf(t)
  BY DEF WorkFits
<1>2. /\ pc[t] \in SolveLabels => phase[t] \in Solve
      /\ pc[t] \in DiagonalLabels => phase[t] = "diagonal"
      /\ pc[t] \in StoreLabels => phase[t] = "store"
  BY LabelPhase
<1>3. ASSUME pc'[t] \notin VisitLabels \cup MoveLabels,
             phase'[t] # "diagonal" \/ (phase'[t] = phase[t] /\ todo'[t] = todo[t])
      PROVE  WorkOf(t)'
  BY <1>3, <1>1 DEF WorkOf, VisitLabels, OwnedFronts
<1>4. ASSUME pc'[t] \in VisitLabels \cup {"return"}, pc[t] \in VisitLabels,
             cur'[t] = cur[t], phase'[t] = phase[t],
             pc'[t] \in {"update", "apply"} => todo'[t] \subseteq Nonempty,
             pc'[t] = "apply" => src'[t] \in Nonempty
      PROVE  WorkOf(t)'
  <2>1. phase[t] # "diagonal"
    BY <1>4, <1>2 DEF SolveLabels, Solve
  <2> QED  BY <1>4, <1>1, <2>1 DEF WorkOf, MoveLabels, VisitLabels
<1> USE <1>0 DEF Goto, pathVars, gatherVars, shared
<1>11. CASE Pop(t)
  BY <1>11, <1>3 DEF Pop, VisitLabels, MoveLabels
<1>12. CASE Exhausted(t)
  BY <1>12, <1>3 DEF Exhausted, VisitLabels, MoveLabels
<1>13. CASE ReturnForward(t) \/ ReturnBackward(t) \/ ReturnActive(t)
  BY <1>13, <1>3 DEF ReturnForward, ReturnBackward, ReturnActive, VisitLabels, MoveLabels
<1>14. CASE VisitEmpty(t) \/ PassThrough(t)
  BY <1>14, <1>3 DEF VisitEmpty, PassThrough, VisitLabels, MoveLabels
<1>15. CASE Link(t) \/ Store(t) \/ Decrement(t)
  BY <1>15, <1>4 DEF Link, Store, Decrement, VisitLabels
<1>16. CASE Poll(t)
  BY <1>16, <1>4 DEF Poll, AfterAggregates, VisitLabels
<1>17. CASE Load(t)
  BY <1>17, <1>4 DEF Load, VisitLabels
<1>18. CASE Assemble(t)
  BY <1>18, <1>4 DEF Assemble, AfterAggregates, VisitLabels
<1>19. CASE Count(t)
  BY <1>19, <1>4 DEF Count, VisitLabels
<1>20. CASE Publish(t) \/ Signal(t)
  BY <1>20, <1>4 DEF Publish, Signal, VisitLabels
<1>21. CASE VisitFront(t)
  <2>1. /\ pc[t] = "visit" /\ cur[t] \in Nonempty
        /\ cur'[t] = cur[t] /\ phase'[t] = phase[t]
        /\ todo'[t] = heads[t][cur[t]]
        /\ pc'[t] \in {"update", "poll1", "link", "return"}
    BY <1>21 DEF VisitFront, Waiting, AfterUpdates
  <2>2. todo'[t] \subseteq Nonempty
    BY <2>1 DEF Nonempty
  <2>3. phase[t] # "diagonal"
    BY <2>1, <1>2 DEF SolveLabels, Solve
  <2> QED  BY <2>1, <2>2, <2>3 DEF WorkOf, MoveLabels
<1>22. CASE UpdateReady(t)
  <2>1. PICK I \in todo[t] : /\ src' = [src EXCEPT ![t] = I]
                             /\ todo' = [todo EXCEPT ![t] = @ \ {I}]
    BY <1>22 DEF UpdateReady
  <2>2. /\ pc[t] = "update" /\ pc'[t] = "apply"
        /\ cur'[t] = cur[t] /\ phase'[t] = phase[t]
    BY <1>22 DEF UpdateReady
  <2>3. todo[t] \subseteq Nonempty
    BY <2>2, <1>1 DEF WorkOf
  <2>4. todo'[t] \subseteq Nonempty /\ src'[t] \in Nonempty
    BY <2>1, <2>3
  <2> QED  BY <2>2, <2>4, <1>4 DEF VisitLabels
<1>23. CASE UpdateWaits(t)
  <2>1. PICK I \in todo[t] : todo' = [todo EXCEPT ![t] = @ \ {I}]
    BY <1>23 DEF UpdateWaits
  <2>2. /\ pc[t] = "update" /\ pc'[t] \in {"update", "poll1", "link", "return"}
        /\ cur'[t] = cur[t] /\ phase'[t] = phase[t]
    BY <1>23 DEF UpdateWaits, AfterUpdates
  <2>3. todo[t] \subseteq Nonempty
    BY <2>2, <1>1 DEF WorkOf
  <2>4. todo'[t] \subseteq Nonempty
    BY <2>1, <2>3
  <2> QED  BY <2>2, <2>4, <1>4 DEF VisitLabels
<1>24. CASE Apply(t)
  <2>1. /\ pc[t] = "apply" /\ pc'[t] \in {"update", "poll1", "link", "return"}
        /\ cur'[t] = cur[t] /\ phase'[t] = phase[t] /\ todo'[t] = todo[t]
    BY <1>24 DEF Apply, AfterUpdates
  <2>2. todo[t] \subseteq Nonempty
    BY <2>1, <1>1 DEF WorkOf
  <2> QED  BY <2>1, <2>2, <1>4 DEF VisitLabels
<1>25. CASE ToDiagonal(t)
  BY <1>25 DEF ToDiagonal, WorkOf, VisitLabels, MoveLabels, OwnedFronts
<1>26. CASE DiagonalSolve(t)
  <2>1. /\ pc[t] = "diagonal" /\ todo[t] # {}
        /\ cur'[t] = Least(todo[t]) /\ todo'[t] = todo[t] \ {Least(todo[t])}
        /\ pc'[t] \in MoveLabels
    BY <1>26 DEF DiagonalSolve, MoveLabels
  <2>2. todo[t] \subseteq OwnedFronts(t)
    BY <2>1, <1>1, <1>2 DEF WorkOf, DiagonalLabels
  <2>3. cur'[t] \in OwnedFronts(t) /\ todo'[t] \subseteq OwnedFronts(t)
    BY <2>1, <2>2, LeastIn
  <2> QED  BY <2>1, <2>3 DEF WorkOf, MoveLabels, VisitLabels, OwnedFronts
<1>27. CASE DiagonalMove(t) \/ DiagonalSignal(t)
  BY <1>27, <1>1 DEF DiagonalMove, DiagonalSignal, WorkOf, MoveLabels, VisitLabels, OwnedFronts
<1>28. CASE DiagonalReset(t) \/ DiagonalEnd(t)
  BY <1>28, <1>3 DEF DiagonalReset, DiagonalEnd, VisitLabels, MoveLabels
<1>29. CASE ToBackward(t) \/ ToStore(t)
  BY <1>29, <1>3 DEF ToBackward, ToStore, VisitLabels, MoveLabels
<1>30. CASE Copy(t)
  <2>1. pc'[t] = "copy" /\ phase'[t] = "store"
    BY <1>30, <1>2 DEF Copy, StoreLabels
  <2> QED  BY <2>1, <1>3 DEF VisitLabels, MoveLabels
<1>31. CASE CopyEnd(t)
  BY <1>31, <1>3 DEF CopyEnd, VisitLabels, MoveLabels
<1> QED
  BY <1>11, <1>12, <1>13, <1>14, <1>15, <1>16, <1>17, <1>18, <1>19, <1>20, <1>21, <1>22,
     <1>23, <1>24, <1>25, <1>26, <1>27, <1>28, <1>29, <1>30, <1>31 DEF Worker

\* The work of every thread fits where it is after a step.
LEMMA WorkStep ==
  ASSUME BarrierInv, WorkFits, NEW t \in Thread, Worker(t)
  PROVE  WorkFits'
<1>1. \A u \in Thread : u # t => WorkOf(u)'
  BY OthersKeep DEF WorkFits, WorkOf, SameThread, OwnedFronts
<1> QED  BY <1>1, WorkTypesStep, WorkOfStep DEF WorkFits, WorkTypes

-----------------------------------------------------------------------------
(* The matrices keep their two fields                                      *)

\* A matrix that is given a stage has that stage.
LEMMA StageSet ==
  ASSUME NEW r, NEW v, DOMAIN r = MatrixFields
  PROVE  /\ [r EXCEPT !.stage = v].stage = v
         /\ DOMAIN [r EXCEPT !.stage = v] = MatrixFields
BY Zenon DEF MatrixFields

\* The named matrices have the fields of a matrix.
LEMMA FieldsOfConstants ==
  /\ DOMAIN NoMtx = MatrixFields /\ DOMAIN ZeroMtx = MatrixFields
  /\ DOMAIN [stage |-> "z", upd |-> {}] = MatrixFields
  /\ DOMAIN RhsMtx = MatrixFields
BY DEF NoMtx, ZeroMtx, RhsMtx, MatrixFields

\* Every thread has a function of matrices; so does the program.
Matrices(f) == DOMAIN f = Front /\ \A J \in Front : DOMAIN f[J] = MatrixFields

\* Functions of matrices stay so when one matrix is replaced,
LEMMA MatricesSet ==
  ASSUME NEW f, Matrices(f), NEW J, NEW m, J \in Front => DOMAIN m = MatrixFields
  PROVE  Matrices([f EXCEPT ![J] = m])
BY DEF Matrices

\* is given contributions,
LEMMA MatricesUpd ==
  ASSUME NEW f, Matrices(f), NEW J, NEW v
  PROVE  Matrices([f EXCEPT ![J].upd = v])
<1>1. DOMAIN [f EXCEPT ![J].upd = v] = Front
  BY DEF Matrices
<1>2. ASSUME NEW K \in Front
      PROVE  DOMAIN [f EXCEPT ![J].upd = v][K] = DOMAIN f[K]
  BY Zenon DEF Matrices
<1> QED  BY <1>1, <1>2 DEF Matrices

\* or is given a stage.
LEMMA MatricesStage ==
  ASSUME NEW f, Matrices(f), NEW J, NEW v
  PROVE  Matrices([f EXCEPT ![J].stage = v])
<1>1. DOMAIN [f EXCEPT ![J].stage = v] = Front
  BY DEF Matrices
<1>2. ASSUME NEW K \in Front
      PROVE  DOMAIN [f EXCEPT ![J].stage = v][K] = DOMAIN f[K]
  BY Zenon DEF Matrices
<1> QED  BY <1>1, <1>2 DEF Matrices

\* The matrices of the program and of the threads stay matrices.
LEMMA MatricesStep ==
  ASSUME BarrierInv, WorkFits, MatricesFit, NEW t \in Thread, Worker(t)
  PROVE  MatricesFit'
<1>0. /\ Matrices(pMtx) /\ DOMAIN pAgg = Thread
      /\ \A u \in Thread : Matrices(pAgg[u])
      /\ frontIsDone \in [Front -> BOOLEAN]
  BY DEF MatricesFit, Matrices
<1>1. pc[t] \in VisitLabels \cup MoveLabels => cur[t] \in Front
  BY DEF WorkFits, WorkOf, Nonempty, OwnedFronts
<1>2. Matrices(pMtx')
  <2>1. CASE pMtx' = pMtx  BY <2>1, <1>0
  <2>2. CASE Publish(t)
    <3>1. cur[t] \in Front
      BY <2>2, <1>1 DEF Publish, VisitLabels
    <3>2. DOMAIN pAgg[t][cur[t]] = MatrixFields
      BY <3>1, <1>0 DEF Matrices
    <3> DEFINE v == IF phase[t] = "forward" THEN "y" ELSE "x"
               m == [pAgg[t][cur[t]] EXCEPT !.stage = v]
    <3>3. pMtx' = [pMtx EXCEPT ![cur[t]] = m]
      BY <2>2, Zenon DEF Publish
    <3>4. DOMAIN m = MatrixFields
      BY <3>2, StageSet, Zenon
    <3> HIDE DEF m
    <3> QED  BY <3>3, <3>4, <1>0, MatricesSet, Zenon
  <2>3. CASE DiagonalSolve(t)
    <3> DEFINE J == Least(todo[t])
               m == [stage |-> "z", upd |-> {}]
    <3>1. pMtx' = pMtx \/ pMtx' = [pMtx EXCEPT ![J] = m]
      BY <2>3, Zenon DEF DiagonalSolve
    <3>2. DOMAIN m = MatrixFields
      BY FieldsOfConstants
    <3> HIDE DEF m
    <3> QED  BY <3>1, <3>2, <1>0, MatricesSet
  <2>4. CASE DiagonalMove(t)
    BY <2>4, <1>0, FieldsOfConstants, MatricesSet DEF DiagonalMove
  <2>5. CASE Copy(t)
    BY <2>5, <1>0, MatricesStage, Zenon DEF Copy
  <2> QED  BY <2>1, <2>2, <2>3, <2>4, <2>5, WhoChanges
<1>3. ASSUME NEW g, Matrices(g), pAgg' = [pAgg EXCEPT ![t] = g]
      PROVE  DOMAIN pAgg' = Thread /\ \A u \in Thread : Matrices(pAgg'[u])
  BY <1>3, <1>0
<1>4. DOMAIN pAgg' = Thread /\ \A u \in Thread : Matrices(pAgg'[u])
  <2>1. CASE pAgg' = pAgg  BY <2>1, <1>0
  <2>2. CASE VisitFront(t)
    <3> DEFINE J == cur[t]
               m == IF pAgg[t][J] = NoMtx /\ Waiting(t) # {} THEN ZeroMtx ELSE pAgg[t][J]
    <3>1. pAgg' = [pAgg EXCEPT ![t] = [pAgg[t] EXCEPT ![J] = m]]
      BY <2>2 DEF VisitFront
    <3>2. J \in Front => DOMAIN m = MatrixFields
      BY <1>0, FieldsOfConstants DEF Matrices
    <3> HIDE DEF m
    <3>3. Matrices([pAgg[t] EXCEPT ![J] = m])
      BY <1>0, <3>2, MatricesSet
    <3> QED  BY <3>1, <3>3, <1>3
  <2>3. CASE Apply(t)
    <3>1. CASE pMtx[src[t]] = NoMtx
      BY <2>3, <3>1, <1>0 DEF Apply
    <3>2. CASE pMtx[src[t]] # NoMtx
      <4> DEFINE v == pAgg[t][cur[t]].upd \cup {<<src[t], pMtx[src[t]].stage>>}
      <4>1. pAgg' = [pAgg EXCEPT ![t] = [pAgg[t] EXCEPT ![cur[t]].upd = v]]
        BY <2>3, <3>2, Zenon DEF Apply
      <4> HIDE DEF v
      <4> QED  BY <4>1, <1>0, <1>3, MatricesUpd, Zenon
    <3> QED  BY <3>1, <3>2
  <2>4. CASE Assemble(t)
    <3> DEFINE v == pAgg[t][cur[t]].upd \cup UNION {c.cols : c \in reg[t]}
    <3>1. pAgg' = [pAgg EXCEPT ![t] = [pAgg[t] EXCEPT ![cur[t]].upd = v]]
      BY <2>4, Zenon DEF Assemble
    <3> HIDE DEF v
    <3> QED  BY <3>1, <1>0, <1>3, MatricesUpd, Zenon
  <2>5. CASE Decrement(t) \/ Publish(t)
    <3>1. pAgg' = [pAgg EXCEPT ![t] = [pAgg[t] EXCEPT ![cur[t]] = NoMtx]]
      BY <2>5 DEF Decrement, Publish
    <3>2. Matrices([pAgg[t] EXCEPT ![cur[t]] = NoMtx])
      BY <1>0, FieldsOfConstants, MatricesSet
    <3> QED  BY <3>1, <3>2, <1>3
  <2>6. CASE DiagonalMove(t)
    <3>1. pAgg' = [pAgg EXCEPT ![t] = [pAgg[t] EXCEPT ![cur[t]] = pMtx[cur[t]]]]
      BY <2>6 DEF DiagonalMove
    <3>2. cur[t] \in Front => DOMAIN pMtx[cur[t]] = MatrixFields
      BY <1>0 DEF Matrices
    <3>3. Matrices([pAgg[t] EXCEPT ![cur[t]] = pMtx[cur[t]]])
      BY <1>0, <3>2, MatricesSet
    <3> QED  BY <3>1, <3>3, <1>3
  <2> QED  BY <2>1, <2>2, <2>3, <2>4, <2>5, <2>6, WhoChanges
<1>5. frontIsDone' \in [Front -> BOOLEAN]
  <2>1. CASE VisitEmpty(t)
    BY <2>1, <1>0, SolveAssumption DEF VisitEmpty
  <2> QED
    BY <2>1, <1>0, WhoChanges DEF Signal, DiagonalSignal, DiagonalReset
<1> QED  BY <1>2, <1>4, <1>5 DEF MatricesFit, Matrices

-----------------------------------------------------------------------------
(* What is published is finished                                           *)

Finished == SignalsFinished /\ DoneIsFinished /\ ReadersSeeFinished

\* A solve is running whose finished matrices have stage s.
InSolve(s) ==
  \/ s = "y" /\ ~AllDone("diagonal") /\ \A u \in Thread : phase[u] = "forward"
  \/ s = "x" /\ AllDone("diagonal") /\ \A u \in Thread : phase[u] \notin {"forward", "store"}

FinishedAs(s) ==
  /\ \A J \in Nonempty : frontIsDone[J] => pMtx[J].stage = s
  /\ \A u \in Thread : pc[u] = "signal" => pMtx[cur[u]].stage = s
  /\ \A u \in Thread : pc[u] = "apply" => pMtx[src[u]].stage = s

\* There is a thread.
LEMMA ThreadExists == \E t \in Thread : TRUE
BY TreeAssumption DEF Thread

\* There are finitely many threads.
LEMMA ThreadsFinite == IsFiniteSet(Thread)
<1>1. 0 \in Int /\ nthread - 1 \in Int
  BY TreeAssumption
<1>2. IsFiniteSet(0 .. nthread - 1)
  BY <1>1, FS_Interval
<1> QED  BY <1>2 DEF Thread

\* A front with rows is owned by a thread.
LEMMA OwnersFit == \A J \in Nonempty : J \in Front /\ owners[J] \in Thread
BY TreeAssumption DEF Nonempty

FinishedOne == \A s : InSolve(s) => (Finished <=> FinishedAs(s))

\* In a loop, Finished speaks of the solution of that loop only.
LEMMA FinishedMeans == BarrierInv => FinishedOne
<1> SUFFICES ASSUME BarrierInv, NEW s, InSolve(s) PROVE Finished <=> FinishedAs(s)
  BY DEF FinishedOne
<1>1. ASSUME NEW u \in Thread, pc[u] \in {"signal", "apply"}
      PROVE  SolutionOf(u) = s
  <2>1. pc[u] \in SolveLabels
    BY <1>1 DEF SolveLabels, VisitLabels
  <2> QED  BY <2>1, LabelPhase DEF InSolve, SolutionOf, Solve
<1>2. \A J \in Nonempty : DoneMeans(J) <=> pMtx[J].stage = s
  BY ThreadExists, OwnersFit DEF InSolve, DoneMeans
<1>3. SignalsFinished <=> \A u \in Thread : pc[u] = "signal" => pMtx[cur[u]].stage = s
  BY <1>1 DEF SignalsFinished
<1>4. ReadersSeeFinished <=> \A u \in Thread : pc[u] = "apply" => pMtx[src[u]].stage = s
  BY <1>1 DEF ReadersSeeFinished, SolutionOf
<1> QED  BY <1>2, <1>3, <1>4 DEF Finished, DoneIsFinished, FinishedAs

\* The steps of the forward and of the backward loop keep Finished,
LEMMA FinishedInSolve ==
  ASSUME BarrierInv, BarrierInv', WorkFits, MatricesFit, Finished,
         NEW t \in Thread, Worker(t), pc[t] \in SolveLabels
  PROVE  Finished'
<1>1. PICK s : s = SolutionOf(t)
  OBVIOUS
<1>2. /\ phase' = phase
      /\ isDone'["diagonal"] = isDone["diagonal"]
  <2>1. pc[t] \notin DiagonalLabels /\ pc[t] \notin StoreLabels /\ pc[t] # "barrier"
        /\ phase[t] \in Solve
    BY LabelPhase DEF SolveLabels, VisitLabels, DiagonalLabels, MoveLabels, StoreLabels
  <2>2. isDone \in [Loop -> [Thread -> BOOLEAN]]
    BY DEF BarrierInv
  <2> QED
    BY <2>1, <2>2, StepShapes
       DEF StepWithin, Boundary, Exhausted, DiagonalEnd, ToDiagonal, ToBackward, ToStore,
           Solve, Loop, DiagonalLabels
<1>3. InSolve(s)
  BY <1>1, Overlap DEF InSolve, SolutionOf
<1>4. InSolve(s)'
  BY <1>2, <1>3 DEF InSolve, AllDone
<1>5. FinishedAs(s)
  BY <1>3, FinishedMeans DEF FinishedOne
<1>6. \A u \in Thread : u # t => SameThread(u)
  BY OthersKeep
<1>7. /\ pc \in [Thread -> Labels] /\ Matrices(pMtx)
      /\ frontIsDone \in [Front -> BOOLEAN] /\ DOMAIN src = Thread
  BY DEF BarrierInv, MatricesFit, WorkFits, Matrices
<1>8. ASSUME \A J \in Nonempty : frontIsDone'[J] => frontIsDone[J],
             pMtx' = pMtx, pc'[t] \notin {"signal", "apply"}
      PROVE  FinishedAs(s)'
  BY <1>5, <1>6, <1>8 DEF FinishedAs, SameThread
<1>9. FinishedAs(s)'
  <2>1. CASE Publish(t)
    <3> DEFINE J == cur[t]
               v == IF phase[t] = "forward" THEN "y" ELSE "x"
               m == [pAgg[t][J] EXCEPT !.stage = v]
    <3>1. J \in Front
      BY <2>1 DEF Publish, WorkFits, WorkOf, VisitLabels, Nonempty
    <3>2. pMtx' = [pMtx EXCEPT ![J] = m]
      BY <2>1, Zenon DEF Publish
    <3>3. DOMAIN pAgg[t][J] = MatrixFields
      BY <3>1 DEF MatricesFit
    <3>4. v = s
      BY <1>1 DEF SolutionOf
    <3> HIDE DEF v
    <3>5. m.stage = v
      BY <3>3, StageSet, Zenon
    <3>6. cur' = cur /\ pc'[t] = "signal" /\ frontIsDone' = frontIsDone
      BY <2>1, <1>7 DEF Publish, Goto
    <3> HIDE DEF m
    <3>7. pMtx'[J].stage = s /\ \A K \in Front : K # J => pMtx'[K] = pMtx[K]
      BY <3>1, <3>2, <3>4, <3>5, <1>7 DEF Matrices
    <3>8. \A u \in Thread : /\ pc[u] = "signal" => cur[u] \in Front
                            /\ pc[u] = "apply" => src[u] \in Front
      BY DEF WorkFits, WorkOf, VisitLabels, Nonempty
    <3> QED  BY <3>6, <3>7, <3>8, <1>5, <1>6, OwnersFit DEF FinishedAs, SameThread
  <2>2. CASE Signal(t)
    <3>1. /\ pc[t] = "signal" /\ pc'[t] = "return" /\ pMtx' = pMtx
          /\ frontIsDone' = [frontIsDone EXCEPT ![cur[t]] = TRUE]
      BY <2>2, <1>7 DEF Signal, Goto
    <3> QED  BY <3>1, <1>5, <1>6, <1>7, OwnersFit DEF FinishedAs, SameThread
  <2>3. CASE VisitEmpty(t)
    <3>1. /\ pc'[t] = "return" /\ pMtx' = pMtx /\ cur[t] \in empty
          /\ frontIsDone' = [frontIsDone EXCEPT ![cur[t]] = @ \/ Owned(t)]
      BY <2>3, <1>7 DEF VisitEmpty, Goto
    <3> QED  BY <3>1, <1>7, <1>8 DEF Nonempty
  <2>4. CASE UpdateReady(t)
    <3>1. PICK I \in todo[t] : frontIsDone[I] /\ src' = [src EXCEPT ![t] = I]
      BY <2>4 DEF UpdateReady
    <3>2. /\ pc[t] = "update" /\ pc'[t] = "apply" /\ pMtx' = pMtx
          /\ frontIsDone' = frontIsDone /\ src'[t] = I
      BY <2>4, <3>1, <1>7 DEF UpdateReady, Goto, shared
    <3>3. I \in Nonempty
      BY <3>1, <3>2 DEF WorkFits, WorkOf
    <3> QED  BY <3>1, <3>2, <3>3, <1>5, <1>6 DEF FinishedAs, SameThread
  <2>5. CASE ~(Publish(t) \/ Signal(t) \/ VisitEmpty(t) \/ UpdateReady(t))
    <3>1. pMtx' = pMtx /\ frontIsDone' = frontIsDone
      BY <2>5, WhoChanges
         DEF DiagonalSolve, DiagonalMove, DiagonalSignal, DiagonalReset, Copy,
             SolveLabels, VisitLabels
    <3>2. pc'[t] \notin {"signal", "apply"}
      BY <2>5, <1>7 DEF Worker, Goto, Pop, Exhausted, ReturnForward, ReturnBackward,
         ReturnActive, PassThrough, VisitFront, UpdateWaits, Apply, AfterUpdates, Link,
         Store, Decrement, Poll, Load, Assemble, AfterAggregates, Count, ToDiagonal,
         DiagonalSolve, DiagonalMove, DiagonalSignal, DiagonalReset, DiagonalEnd,
         ToBackward, ToStore, Copy, CopyEnd
    <3> QED  BY <3>1, <3>2, <1>8
  <2> QED  BY <2>1, <2>2, <2>3, <2>4, <2>5
<1>10. (BarrierInv => FinishedOne)'
  BY FinishedMeans, PTL
<1> QED  BY <1>4, <1>9, <1>10 DEF FinishedOne

\* the steps of the diagonal loop do,
LEMMA FinishedInDiagonal ==
  ASSUME BarrierInv, BarrierInv', WorkFits, MatricesFit, Finished,
         NEW t \in Thread, Worker(t), pc[t] \in DiagonalLabels
  PROVE  Finished'
<1>0. /\ pc \in [Thread -> Labels] /\ phase \in [Thread -> Phase]
      /\ isDone \in [Loop -> [Thread -> BOOLEAN]]
      /\ frontIsDone \in [Front -> BOOLEAN]
      /\ todo \in [Thread -> SUBSET Front] /\ DOMAIN cur = Thread
  BY DEF BarrierInv, MatricesFit, WorkFits
<1>1. /\ ~isDone["diagonal"][t] /\ ~AllDone("diagonal") /\ phase[t] = "diagonal"
      /\ \A u \in Thread : pc[u] \notin SolveLabels
  BY Overlap
<1>2. \/ DiagonalSolve(t) \/ DiagonalMove(t) \/ DiagonalSignal(t)
      \/ DiagonalReset(t) \/ DiagonalEnd(t)
  BY StepShapes, <1>1, LabelPhase DEF DiagonalLabels, MoveLabels, Worker, Pop, Exhausted,
     ReturnForward, ReturnBackward, ReturnActive, VisitEmpty, PassThrough, VisitFront,
     UpdateReady, UpdateWaits, Apply, Link, Store, Decrement, Poll, Load, Assemble, Count,
     Publish, Signal, ToDiagonal, ToBackward, ToStore, Copy, CopyEnd
<1>3. \A u \in Thread : u # t => SameThread(u)
  BY OthersKeep
<1>4. phase' = phase
  BY <1>2 DEF DiagonalSolve, DiagonalMove, DiagonalSignal, DiagonalReset, DiagonalEnd
<1>5. \A u \in Thread : pc'[u] \notin {"signal", "apply"}
  <2>1. pc'[t] \notin {"signal", "apply"}
    BY <1>0, <1>2 DEF DiagonalSolve, DiagonalMove, DiagonalSignal, DiagonalReset,
       DiagonalEnd, Goto
  <2> QED  BY <2>1, <1>1, <1>3 DEF SameThread, SolveLabels, VisitLabels
<1>6. SignalsFinished' /\ ReadersSeeFinished'
  BY <1>5 DEF SignalsFinished, ReadersSeeFinished
\* What the invariant says of a front that is marked.
<1>7. ASSUME NEW J \in Nonempty, frontIsDone[J], phase[owners[J]] # "forward"
      PROVE  /\ ~isDone["diagonal"][owners[J]]
             /\ \/ J \in todo[owners[J]]
                \/ pc[owners[J]] \in MoveLabels /\ cur[owners[J]] = J
  BY <1>1, <1>7 DEF Finished, DoneIsFinished, DoneMeans
<1>8. ASSUME ~DiagonalEnd(t)
      PROVE  isDone' = isDone
  BY <1>2, <1>8 DEF DiagonalSolve, DiagonalMove, DiagonalSignal, DiagonalReset
\* The marks of the other threads' fronts are not touched.
<1>9. ASSUME NEW J \in Nonempty, owners[J] # t
      PROVE  frontIsDone'[J] = frontIsDone[J]
  <2>1. pc[t] \in MoveLabels => cur[t] # J
    BY <1>9 DEF WorkFits, WorkOf, OwnedFronts
  <2> QED
    BY <2>1, <1>0, <1>2, OwnersFit DEF DiagonalSolve, DiagonalMove, DiagonalSignal, DiagonalReset,
       DiagonalEnd, MoveLabels
<1>10. ASSUME NEW J \in Nonempty, frontIsDone'[J], owners[J] = t, ~DiagonalEnd(t)
       PROVE  J \in todo'[t] \/ (pc'[t] \in MoveLabels /\ cur'[t] = J)
  <2>1. frontIsDone[J] => J \in todo[t] \/ (pc[t] \in MoveLabels /\ cur[t] = J)
    BY <1>1, <1>7, <1>10
  <2>2. J \in Front
    BY OwnersFit
  <2>3. CASE DiagonalSolve(t)
    <3>1. /\ pc[t] = "diagonal" /\ frontIsDone' = frontIsDone /\ pc'[t] \in MoveLabels
          /\ cur'[t] = Least(todo[t]) /\ todo'[t] = todo[t] \ {Least(todo[t])}
      BY <2>3, <1>0 DEF DiagonalSolve, Goto, MoveLabels
    <3> QED  BY <3>1, <2>1, <1>10 DEF MoveLabels
  <2>4. CASE DiagonalMove(t)
    <3>1. /\ pc[t] = "diagonalMove" /\ frontIsDone' = frontIsDone /\ pc'[t] \in MoveLabels
          /\ cur' = cur /\ todo' = todo
      BY <2>4, <1>0 DEF DiagonalMove, Goto, MoveLabels, gatherVars
    <3> QED  BY <3>1, <2>1, <1>10
  <2>5. CASE DiagonalSignal(t)
    <3>1. /\ frontIsDone' = [frontIsDone EXCEPT ![cur[t]] = TRUE] /\ pc'[t] \in MoveLabels
          /\ cur' = cur /\ todo' = todo
      BY <2>5, <1>0 DEF DiagonalSignal, Goto, MoveLabels, gatherVars
    <3>2. frontIsDone'[J] => frontIsDone[J] \/ J = cur[t]
      BY <3>1, <2>2, <1>0
    <3> QED  BY <3>1, <3>2, <2>1, <1>10
  <2>6. CASE DiagonalReset(t)
    <3>1. /\ frontIsDone' = [frontIsDone EXCEPT ![cur[t]] = FALSE]
          /\ cur' = cur /\ todo' = todo
      BY <2>6 DEF DiagonalReset, gatherVars
    <3>2. frontIsDone'[J] => frontIsDone[J] /\ J # cur[t]
      BY <3>1, <2>2, <1>0
    <3> QED  BY <3>1, <3>2, <2>1, <1>10
  <2> QED  BY <1>2, <1>10, <2>3, <2>4, <2>5, <2>6
<1>11. ASSUME NEW J \in Nonempty, frontIsDone'[J]
       PROVE  DoneMeans(J)'
  <2>1. owners[J] \in Thread
    BY OwnersFit
  <2>2. ~ \A u \in Thread : phase'[u] = "forward"
    BY <1>1, <1>4
  <2>3. CASE ~DiagonalEnd(t)
    <3>1. isDone' = isDone /\ ~AllDone("diagonal")'
      BY <1>1, <1>8, <2>3 DEF AllDone
    <3>2. CASE owners[J] = t
      BY <3>1, <3>2, <2>2, <2>3, <1>1, <1>10, <1>11 DEF DoneMeans
    <3>3. CASE owners[J] # t
      <4>1. frontIsDone[J] /\ SameThread(owners[J])
        BY <3>3, <2>1, <1>3, <1>9, <1>11
      <4> QED  BY <4>1, <3>1, <2>2, <1>4, <1>7 DEF DoneMeans, SameThread
    <3> QED  BY <3>2, <3>3
  <2>4. CASE DiagonalEnd(t)
    <3>1. /\ pc[t] = "diagonal" /\ todo[t] = {} /\ frontIsDone' = frontIsDone
          /\ isDone' = [isDone EXCEPT !["diagonal"][t] = TRUE]
      BY <2>4 DEF DiagonalEnd
    <3>2. owners[J] # t
      BY <3>1, <1>1, <1>7, <1>11 DEF MoveLabels
    <3>3. SameThread(owners[J])
      BY <3>2, <2>1, <1>3
    <3>4. isDone'["diagonal"][owners[J]] = isDone["diagonal"][owners[J]]
      BY <3>1, <3>2, <2>1, <1>0 DEF Loop
    <3>5. isDone["diagonal"][owners[J]] => phase[owners[J]] # "forward"
      BY <2>1 DEF BarrierInv, BarriersHold, Loop, Later
    <3>6. ~isDone["diagonal"][owners[J]]
      BY <3>1, <3>5, <1>7, <1>11
    <3>7. ~AllDone("diagonal")'
      BY <3>4, <3>6, <2>1 DEF AllDone
    <3> QED
      BY <3>1, <3>3, <3>4, <3>6, <3>7, <2>2, <1>4, <1>7, <1>11 DEF DoneMeans, SameThread
  <2> QED  BY <2>3, <2>4
<1> QED  BY <1>6, <1>11 DEF Finished, DoneIsFinished

\* and the steps between the loops and of the copy do.
LEMMA FinishedElsewhere ==
  ASSUME BarrierInv, BarrierInv', WorkFits, MatricesFit, Finished,
         NEW t \in Thread, Worker(t), pc[t] \in StoreLabels \cup {"barrier"}
  PROVE  Finished'
<1>0. /\ pc \in [Thread -> Labels] /\ phase \in [Thread -> Phase]
      /\ todo \in [Thread -> SUBSET Front]
  BY DEF BarrierInv, WorkFits
<1>1. Copy(t) \/ CopyEnd(t) \/ ToDiagonal(t) \/ ToBackward(t) \/ ToStore(t)
  BY DEF StoreLabels, Worker, Pop, Exhausted, ReturnForward, ReturnBackward, ReturnActive,
     VisitEmpty, PassThrough, VisitFront, UpdateReady, UpdateWaits, Apply, Link, Store,
     Decrement, Poll, Load, Assemble, Count, Publish, Signal, DiagonalSolve, DiagonalMove,
     DiagonalSignal, DiagonalReset, DiagonalEnd
<1>2. \A u \in Thread : u # t => SameThread(u)
  BY OthersKeep
<1>3. /\ frontIsDone' = frontIsDone /\ isDone' = isDone
      /\ pc'[t] \notin {"signal", "apply"}
  BY <1>0, <1>1 DEF Copy, CopyEnd, ToDiagonal, ToBackward, ToStore, Goto, shared
<1>4. AllDone("diagonal")' <=> AllDone("diagonal")
  BY <1>3 DEF AllDone
<1>5. \A J \in Nonempty : frontIsDone[J] => DoneMeans(J)
  BY DEF Finished, DoneIsFinished
<1>6. CASE Copy(t) \/ CopyEnd(t)
  <2>1. /\ AllDone("diagonal") /\ phase[t] = "store"
        /\ \A u \in Thread : pc[u] \notin SolveLabels
    BY <1>6, Overlap DEF Copy, CopyEnd, StoreLabels
  <2>2. phase' = phase
    BY <1>6 DEF Copy, CopyEnd
  <2>3. \A u \in Thread : pc'[u] \notin {"signal", "apply"}
    BY <2>1, <1>2, <1>3 DEF SameThread, SolveLabels, VisitLabels
  <2>4. SignalsFinished' /\ ReadersSeeFinished'
    BY <2>3 DEF SignalsFinished, ReadersSeeFinished
  <2>5. DoneIsFinished'
    BY <2>1, <2>2, <1>4 DEF DoneIsFinished, DoneMeans
  <2> QED  BY <2>4, <2>5 DEF Finished
<1>7. CASE ToDiagonal(t) \/ ToBackward(t) \/ ToStore(t)
  <2>1. pMtx' = pMtx
    BY <1>7 DEF ToDiagonal, ToBackward, ToStore, shared
  <2>2. SignalsFinished' /\ ReadersSeeFinished'
    BY <2>1, <1>2, <1>3
       DEF Finished, SignalsFinished, ReadersSeeFinished, SameThread, SolutionOf
  <2>3. CASE ToDiagonal(t)
    <3>1. /\ phase[t] = "forward" /\ phase'[t] = "diagonal" /\ todo'[t] = OwnedFronts(t)
      BY <2>3, <1>0 DEF ToDiagonal
    <3>2. ~isDone["diagonal"][t]
      BY <3>1 DEF BarrierInv, BarriersHold, Loop, Later
    <3>3. ~AllDone("diagonal")
      BY <3>2 DEF AllDone
    <3>4. ASSUME NEW J \in Nonempty, frontIsDone[J] PROVE DoneMeans(J)'
      <4>1. J \in Front /\ owners[J] \in Thread
        BY OwnersFit
      <4>2. ~ \A u \in Thread : phase'[u] = "forward"
        BY <3>1
      <4>3. CASE owners[J] = t
        BY <4>1, <4>2, <4>3, <3>1, <3>2, <3>3, <1>3, <1>4 DEF DoneMeans, OwnedFronts
      <4>4. CASE owners[J] # t
        <5>1. SameThread(owners[J])
          BY <4>1, <4>4, <1>2
        <5> QED
          BY <5>1, <4>2, <3>3, <3>4, <1>3, <1>4, <1>5 DEF DoneMeans, SameThread
      <4> QED  BY <4>3, <4>4
    <3> QED  BY <3>4, <2>2, <1>3 DEF Finished, DoneIsFinished
  <2>4. CASE ToBackward(t) \/ ToStore(t)
    <3>1. /\ phase'[t] # "forward" /\ phase[t] # "store"
          /\ AllDone("diagonal")
      <4>1. CASE ToBackward(t)  BY <4>1, <1>0 DEF ToBackward
      <4>2. CASE ToStore(t)
        <5>1. phase[t] = "backward" /\ phase'[t] = "store"
          BY <4>2, <1>0 DEF ToStore
        <5>2. AllDone("diagonal")
          BY <5>1 DEF BarrierInv, BarriersHold, Loop, Later
        <5> QED  BY <5>1, <5>2
      <4> QED  BY <2>4, <4>1, <4>2
    <3>2. (\A u \in Thread : phase'[u] # "store") => \A u \in Thread : phase[u] # "store"
      BY <3>1, <1>2 DEF SameThread
    <3>3. \A J \in Nonempty : DoneMeans(J) => DoneMeans(J)'
      BY <3>1, <3>2, <2>1, <1>4 DEF DoneMeans
    <3> QED  BY <3>3, <2>2, <1>3, <1>5 DEF Finished, DoneIsFinished
  <2> QED  BY <1>7, <2>3, <2>4
<1> QED  BY <1>1, <1>6, <1>7

-----------------------------------------------------------------------------
(* The invariant and the theorem                                           *)

\* ReadInv holds initially,
LEMMA ReadInit == Init => ReadInv
<1> SUFFICES ASSUME Init PROVE ReadInv
  OBVIOUS
<1>1. BarrierInv
  BY BarrierInit
<1>2. WorkFits
  <2>1. DOMAIN cur = Thread /\ DOMAIN src = Thread /\ todo \in [Thread -> SUBSET Front]
    BY DEF Init
  <2>2. heads \in [Thread -> [Front -> SUBSET Nonempty]]
    BY SourcesFit DEF Init, Solve
  <2>3. \A t \in Thread : WorkOf(t)
    BY DEF Init, WorkOf, VisitLabels, MoveLabels
  <2> QED  BY <2>1, <2>2, <2>3 DEF WorkFits
<1>3. MatricesFit
  BY FieldsOfConstants DEF Init, MatricesFit
<1>4. SignalsFinished /\ ReadersSeeFinished
  BY DEF Init, SignalsFinished, ReadersSeeFinished
<1>5. DoneIsFinished
  BY DEF Init, DoneIsFinished, Nonempty
<1> QED  BY <1>1, <1>2, <1>3, <1>4, <1>5 DEF ReadInv, PublishInv

\* and every step keeps it.
LEMMA ReadNext == ReadInv /\ [Next]_vars => ReadInv'
<1> SUFFICES ASSUME ReadInv, [Next]_vars PROVE ReadInv'
  OBVIOUS
<1>1. BarrierInv /\ WorkFits /\ MatricesFit /\ Finished
  BY DEF ReadInv, PublishInv, Finished
<1>2. BarrierInv'
  BY <1>1, BarrierNext
<1>3. ASSUME NEW t \in Thread, Worker(t) PROVE PublishInv'
  <2>1. WorkFits' /\ MatricesFit'
    BY <1>1, <1>3, WorkStep, MatricesStep
  <2>2. pc[t] \in SolveLabels \cup DiagonalLabels \cup StoreLabels \cup {"barrier"}
    BY <1>1, LabelPhase
       DEF Labels, SolveLabels, VisitLabels, DiagonalLabels, MoveLabels, StoreLabels
  <2>3. Finished'
    BY <1>1, <1>2, <1>3, <2>2, FinishedInSolve, FinishedInDiagonal, FinishedElsewhere
  <2> QED  BY <2>1, <2>3 DEF PublishInv, Finished
<1>4. ASSUME UNCHANGED <<pc, phase, cur, gatherVars, pAgg, shared>> PROVE PublishInv'
  <2> USE <1>1, <1>4 DEF gatherVars, shared
  <2>1. WorkFits'
    BY DEF WorkFits, WorkOf, OwnedFronts
  <2>2. MatricesFit'
    BY DEF MatricesFit
  <2>3. SignalsFinished' /\ ReadersSeeFinished'
    BY DEF Finished, SignalsFinished, ReadersSeeFinished, SolutionOf
  <2>4. DoneIsFinished'
    BY DEF Finished, DoneIsFinished, DoneMeans, AllDone
  <2> QED  BY <2>1, <2>2, <2>3, <2>4 DEF PublishInv
<1>5. (\E t \in Thread : Worker(t)) \/ UNCHANGED <<pc, phase, cur, gatherVars, pAgg, shared>>
  BY DEF Next, Join, Returned, vars, gatherVars, shared
<1>6. PublishInv'
  BY <1>3, <1>4, <1>5
<1> QED  BY <1>2, <1>6 DEF ReadInv

\* ReadersSeeFinished: a thread that has seen frontIsDone[I] = 'Y' reads the
\* finished solution of front I of the solve it is in.
THEOREM ReadersCorrect == Spec => []ReadersSeeFinished
<1>1. ReadInv => ReadersSeeFinished
  BY DEF ReadInv, PublishInv
<1> QED  BY ReadInit, ReadNext, <1>1, PTL DEF Spec

-----------------------------------------------------------------------------
(* The tree                                                                *)

\* A set of numbers has a smallest one.
LEMMA SmallestOf ==
  ASSUME NEW T \in SUBSET Nat, T # {}
  PROVE  \E m \in T : \A k \in T : m <= k
<1>1. PICK m \in T : \A k \in T : <<k, m>> \notin OpToRel(<, Nat)
  BY WFMin, NatLessThanWellFounded, Zenon
<1>2. \A k \in T : ~(k < m)
  BY <1>1, Zenon DEF OpToRel
<1> QED
  BY <1>2

\* The fronts are finitely many numbers and a parent is a greater one.
LEMMA TreeTypes ==
  /\ Front \in SUBSET Nat /\ IsFiniteSet(Front)
  /\ par \in [Front -> Front \cup {-1}]
  /\ -1 \notin Front
  /\ \A J \in Front : par[J] = -1 \/ par[J] > J
<1>1. nfront \in Nat
  BY TreeAssumption
<1>2. IsFiniteSet(0 .. nfront - 1)
  BY <1>1, FS_Interval
<1> QED  BY <1>1, <1>2, TreeAssumption DEF Front

\* The ancestors are closed under parents, and they are the least such set.
LEMMA AncestorFacts ==
  ASSUME NEW J \in Front
  PROVE  /\ Ancestors[J] \in SUBSET Front
         /\ par[J] # -1 => par[J] \in Ancestors[J]
         /\ par[J] = -1 => Ancestors[J] = {}
         /\ \A M \in Ancestors[J] : par[M] # -1 => par[M] \in Ancestors[J]
         /\ \A S \in SUBSET Front :
              /\ par[J] # -1 => par[J] \in S
              /\ \A M \in S : par[M] # -1 => par[M] \in S
              => Ancestors[J] \subseteq S
<1>1. par \in [Front -> Front \cup {-1}]
  BY TreeAssumption
<1>2. CASE par[J] = -1
  BY <1>2 DEF Ancestors
<1>3. CASE par[J] # -1
  <2>1. Ancestors[J] = {K \in Front : \A S \in SUBSET Front :
                          (par[J] \in S /\ \A M \in S : par[M] # -1 => par[M] \in S)
                            => K \in S}
    BY <1>3 DEF Ancestors
  <2>2. par[J] \in Ancestors[J]
    BY <1>1, <1>3, <2>1
  <2>3. \A M \in Ancestors[J] : par[M] # -1 => par[M] \in Ancestors[J]
    BY <1>1, <2>1
  <2> QED  BY <2>1, <2>2, <2>3, <1>3
<1> QED  BY <1>2, <1>3

\* An ancestor has a child on the way down.
LEMMA ChildBelow ==
  ASSUME NEW J \in Front, NEW M \in Ancestors[J]
  PROVE  \E C \in Children(M) : C = J \/ C \in Ancestors[J]
<1> DEFINE S == {K \in Ancestors[J] : \E C \in Children(K) : C = J \/ C \in Ancestors[J]}
<1>1. S \in SUBSET Front
  BY AncestorFacts
<1>2. par[J] # -1 => par[J] \in S
  BY AncestorFacts DEF Children
<1>3. \A K \in S : par[K] # -1 => par[K] \in S
  BY AncestorFacts DEF Children
<1> HIDE DEF S
<1>4. Ancestors[J] \subseteq S
  BY <1>1, <1>2, <1>3, AncestorFacts
<1> QED  BY <1>4 DEF S

\* The ancestors of an ancestor, and of the parent.
LEMMA AncestorsClimb ==
  ASSUME NEW J \in Front
  PROVE  /\ \A K \in Ancestors[J] : Ancestors[K] \subseteq Ancestors[J]
         /\ \A K \in Ancestors[J] : J < K
         /\ par[J] # -1 => Ancestors[J] = {par[J]} \cup Ancestors[par[J]]
<1>1. ASSUME NEW K \in Ancestors[J] PROVE Ancestors[K] \subseteq Ancestors[J]
  <2>1. K \in Front /\ Ancestors[J] \in SUBSET Front
    BY AncestorFacts
  <2>2. \A M \in Ancestors[J] : par[M] # -1 => par[M] \in Ancestors[J]
    BY AncestorFacts
  <2> QED  BY <2>1, <2>2, AncestorFacts
<1>2. \A K \in Ancestors[J] : J < K
  <2> DEFINE S == {K \in Front : J < K}
  <2>1. S \in SUBSET Front /\ (par[J] # -1 => par[J] \in S)
    BY TreeTypes
  <2>2. \A M \in S : par[M] # -1 => par[M] \in S
    <3> SUFFICES ASSUME NEW M \in S, par[M] # -1 PROVE par[M] \in S
      OBVIOUS
    <3>1. par[M] \in Front /\ par[M] > M /\ M > J /\ par[M] \in Nat /\ M \in Nat /\ J \in Nat
      BY TreeTypes
    <3> QED  BY <3>1
  <2>3. \A K \in S : J < K
    OBVIOUS
  <2> HIDE DEF S
  <2>4. Ancestors[J] \subseteq S
    BY <2>1, <2>2, AncestorFacts
  <2> QED  BY <2>3, <2>4
<1>3. ASSUME par[J] # -1 PROVE Ancestors[J] = {par[J]} \cup Ancestors[par[J]]
  <2> DEFINE S == {par[J]} \cup Ancestors[par[J]]
  <2>1. par[J] \in Front /\ par[J] \in Ancestors[J]
    BY <1>3, TreeTypes, AncestorFacts
  <2>2. S \in SUBSET Front /\ par[J] \in S
    BY <2>1, AncestorFacts
  <2>3. \A M \in S : par[M] # -1 => par[M] \in S
    BY <2>1, AncestorFacts
  <2> HIDE DEF S
  <2>4. Ancestors[J] \subseteq S
    BY <2>2, <2>3, AncestorFacts
  <2>5. S \subseteq Ancestors[J]
    BY <1>1, <2>1 DEF S
  <2> QED  BY <2>4, <2>5 DEF S
<1> QED  BY <1>1, <1>2, <1>3

\* The way from a front to its root is a chain.
LEMMA Comparable ==
  ASSUME NEW J \in Front,
         NEW K \in {J} \cup Ancestors[J], NEW M \in {J} \cup Ancestors[J]
  PROVE  K = M \/ K \in Ancestors[M] \/ M \in Ancestors[K]
<1> DEFINE W == {J} \cup Ancestors[J]
           Near(A, B) == A = B \/ A \in Ancestors[B] \/ B \in Ancestors[A]
           S == {A \in Ancestors[J] : \A B \in W : Near(A, B)}
<1>1. S \in SUBSET Front /\ Ancestors[J] \in SUBSET Front
  BY AncestorFacts
<1>2. ASSUME par[J] # -1 PROVE par[J] \in S
  <2>1. par[J] \in Ancestors[J] /\ Ancestors[J] = {par[J]} \cup Ancestors[par[J]]
    BY <1>2, AncestorFacts, AncestorsClimb
  <2> QED  BY <2>1
<1>3. ASSUME NEW A \in S, par[A] # -1 PROVE par[A] \in S
  <2>1. A \in Front /\ A \in Ancestors[J]
    BY <1>1
  <2>2. par[A] \in Ancestors[J]
    BY <1>3, <2>1, AncestorFacts
  <2>3. par[A] \in Ancestors[A] /\ Ancestors[A] = {par[A]} \cup Ancestors[par[A]]
    BY <1>3, <2>1, AncestorFacts, AncestorsClimb
  <2>4. ASSUME NEW B \in W PROVE Near(par[A], B)
    <3>1. B \in Front
      BY <1>1
    <3>2. Near(A, B)
      OBVIOUS
    <3>3. CASE A = B
      BY <3>3, <2>3
    <3>4. CASE A \in Ancestors[B]
      BY <3>1, <3>4, <1>3, AncestorFacts
    <3>5. CASE B \in Ancestors[A]
      BY <3>5, <2>3
    <3> QED  BY <3>2, <3>3, <3>4, <3>5
  <2> QED  BY <2>2, <2>4
<1>4. Ancestors[J] \subseteq S
  <2> HIDE DEF S
  <2> QED  BY <1>1, <1>2, <1>3, AncestorFacts
<1>5. CASE K \in Ancestors[J]
  BY <1>4, <1>5
<1>6. CASE M \in Ancestors[J]
  BY <1>4, <1>6
<1>7. CASE K = J /\ M = J
  BY <1>7
<1> QED  BY <1>5, <1>6, <1>7

-----------------------------------------------------------------------------
(* The paths of a thread                                                   *)

\* A path is a set of fronts above its start, closed under parents.
LEMMA PathFacts ==
  ASSUME NEW s \in Solve, NEW t \in Thread
  PROVE  /\ OnPath[s][t] \in SUBSET Front /\ IsFiniteSet(OnPath[s][t])
         /\ StartOfPath(s, t) \in SUBSET OnPath[s][t]
         /\ \A J \in OnPath[s][t] : J \in StartOfPath(s, t)
              \/ \E I \in StartOfPath(s, t) : J \in Ancestors[I]
         /\ \A J \in OnPath[s][t] : par[J] # -1 => par[J] \in OnPath[s][t]
         /\ Capacity[s][t] \in Nat
<1> DEFINE T == StartOfPath(s, t)
<1>1. OnPath[s][t] = T \cup UNION {Ancestors[M] : M \in T}
  BY DEF OnPath
<1>2. T \in SUBSET Front
  BY DEF StartOfPath
<1>3. Capacity[s][t] = Cardinality({J \in T : \A I \in T : J \notin Ancestors[I]})
  BY DEF Capacity
<1> HIDE DEF T
<1>4. OnPath[s][t] \in SUBSET Front
  <2>1. \A M \in T : Ancestors[M] \in SUBSET Front
    BY <1>2, AncestorFacts
  <2> QED  BY <1>1, <1>2, <2>1
<1>5. \A J \in OnPath[s][t] : par[J] # -1 => par[J] \in OnPath[s][t]
  BY <1>1, <1>2, AncestorFacts
<1>6. {J \in T : \A I \in T : J \notin Ancestors[I]} \in SUBSET Front
  BY <1>2
<1> QED
  BY <1>1, <1>2, <1>3, <1>4, <1>5, <1>6, TreeTypes, FS_Subset, FS_CardinalityType DEF T

\* There is room for fronts none of which is above another.
Apart(D) == \A J \in D : \A K \in D : K \notin Ancestors[J]

\* Fronts none of which is above another have room in the dequeue.
LEMMA ApartFits ==
  ASSUME NEW s \in Solve, NEW t \in Thread, NEW D \in SUBSET OnPath[s][t], Apart(D)
  PROVE  IsFiniteSet(D) /\ Cardinality(D) \in Nat /\ Cardinality(D) <= Capacity[s][t]
<1> DEFINE T == StartOfPath(s, t)
           Tops == {J \in T : \A I \in T : J \notin Ancestors[I]}
           under(J, c) == c = J \/ J \in Ancestors[c]
<1>1. T \in SUBSET Front /\ OnPath[s][t] \in SUBSET Front
  BY PathFacts
<1>2. Capacity[s][t] = Cardinality(Tops)
  BY DEF Capacity
<1>3. IsFiniteSet(Tops) /\ IsFiniteSet(D)
  BY <1>1, TreeTypes, FS_Subset, PathFacts
<1>4. ASSUME NEW J \in D PROVE \E c \in Tops : under(J, c)
  <2> DEFINE L == {c \in T : under(J, c)}
  <2>1. L # {} /\ L \in SUBSET Nat /\ L \in SUBSET Front
    BY <1>1, PathFacts, TreeTypes
  <2>2. PICK m \in L : \A k \in L : m <= k
    BY <2>1, SmallestOf
  <2>3. ASSUME NEW I \in T, m \in Ancestors[I] PROVE FALSE
    <3>1. I < m /\ Ancestors[m] \subseteq Ancestors[I]
      BY <1>1, <2>3, AncestorsClimb
    <3>2. I \in L
      BY <3>1, <2>3
    <3> QED  BY <3>1, <3>2, <2>1, <2>2
  <2> QED  BY <2>3
<1> DEFINE f == [J \in D |-> CHOOSE c \in Tops : under(J, c)]
<1>5. \A J \in D : f[J] \in Tops /\ under(J, f[J])
  BY <1>4
<1>6. f \in [D -> Tops]
  BY <1>5
<1> HIDE DEF f
<1>7. ASSUME NEW J \in D, NEW K \in D, f[J] = f[K] PROVE J = K
  <2>1. f[J] \in Front /\ J \in {f[J]} \cup Ancestors[f[J]] /\ K \in {f[J]} \cup Ancestors[f[J]]
    BY <1>1, <1>5, <1>7
  <2>2. J = K \/ J \in Ancestors[K] \/ K \in Ancestors[J]
    BY <2>1, Comparable
  <2> QED  BY <2>2 DEF Apart
<1>8. f \in Injection(D, Tops)
  BY <1>6, <1>7 DEF Injection, IsInjective
<1> HIDE DEF Tops
<1>9. Cardinality(D) <= Cardinality(Tops)
  BY <1>3, <1>8, FS_Injection
<1> QED  BY <1>2, <1>3, <1>9, FS_CardinalityType

\* The fronts a dequeue is loaded with are apart.
LEMMA LeavesApart ==
  ASSUME NEW t \in Thread
  PROVE  /\ Leaves(t) \in SUBSET OnPath["forward"][t] /\ Apart(Leaves(t))
         /\ ActiveRoots(t) \in SUBSET OnPath["backward"][t] /\ Apart(ActiveRoots(t))
<1>1. /\ OnPath["forward"][t] \in SUBSET Front
      /\ \A J \in OnPath["forward"][t] : par[J] # -1 => par[J] \in OnPath["forward"][t]
  BY PathFacts DEF Solve
<1>2. ASSUME NEW J \in Leaves(t), NEW K \in Leaves(t), K \in Ancestors[J] PROVE FALSE
  <2>1. J \in Front /\ J \in OnPath["forward"][t]
    BY <1>1 DEF Leaves
  <2>2. Ancestors[J] \subseteq OnPath["forward"][t]
    BY <1>1, <2>1, AncestorFacts
  <2>3. PICK C \in Children(K) : C = J \/ C \in Ancestors[J]
    BY <1>2, <2>1, ChildBelow
  <2> QED  BY <2>1, <2>2, <2>3 DEF Leaves
<1>3. ASSUME NEW J \in ActiveRoots(t), NEW K \in ActiveRoots(t), K \in Ancestors[J]
      PROVE  FALSE
  <2>1. J \in Front /\ par[J] = -1
    BY DEF ActiveRoots, Roots
  <2> QED  BY <1>3, <2>1, AncestorFacts
<1> QED  BY <1>2, <1>3 DEF Leaves, ActiveRoots, Apart

-----------------------------------------------------------------------------
(* Sequences of fronts                                                     *)

\* A sequence that lists a set once.
Lists(d, S) ==
  /\ d \in Seq(Front) /\ Len(d) = Cardinality(S)
  /\ \A i, j \in 1 .. Len(d) : d[i] = d[j] => i = j
  /\ \A J \in Front : (\E i \in 1 .. Len(d) : d[i] = J) <=> J \in S

\* A sequence as long as a set that repeats nothing lists the set.
LEMMA InjectionLists ==
  ASSUME NEW S \in SUBSET Front, NEW d \in [1 .. Cardinality(S) -> S],
         \A i, j \in 1 .. Cardinality(S) : d[i] = d[j] => i = j
  PROVE  Lists(d, S)
<1> DEFINE n == Cardinality(S)
<1>1. IsFiniteSet(S) /\ n \in Nat
  BY TreeTypes, FS_Subset, FS_CardinalityType
<1>2. IsFiniteSet(1 .. n) /\ Cardinality(1 .. n) = n
  BY <1>1, FS_Interval
<1>3. d \in Injection(1 .. n, S)
  BY DEF Injection, IsInjective
<1>4. d \in Surjection(1 .. n, S)
  BY <1>1, <1>2, <1>3, FS_Injection
<1>5. \A J \in S : \E i \in 1 .. n : d[i] = J
  BY <1>4 DEF Surjection
<1> HIDE DEF n
<1>6. d \in Seq(Front) /\ Len(d) = n
  <2>1. d \in [1 .. n -> Front]
    BY DEF n
  <2> QED  BY <1>1, <2>1
<1>7. \A i \in 1 .. n : d[i] \in S
  BY DEF n
<1> QED  BY <1>5, <1>6, <1>7 DEF Lists, n

\* What the set-up of a solve puts into a dequeue.
LEMMA LoadedLists ==
  ASSUME NEW S \in SUBSET Front, NEW rank, \A K \in S : rank[K] \in Int,
         NEW room \in Nat, Cardinality(S) <= room, NEW d \in Loaded(S, rank, room)
  PROVE  Lists(d, S)
<1> DEFINE n == Cardinality(S)
<1>1. n \in Nat
  BY TreeTypes, FS_Subset, FS_CardinalityType
<1>2. /\ d \in [1 .. n -> S]
      /\ \A i \in 1 .. n : {K \in S : rank[K] < rank[d[i]]} = {d[j] : j \in 1 .. i - 1}
  <2>1. ~(room < n)
    BY <1>1
  <2> QED  BY <2>1 DEF Loaded
<1> HIDE DEF n
<1>3. ASSUME NEW i \in 1 .. n, NEW j \in 1 .. n, i < j PROVE d[i] # d[j]
  <2>1. i \in 1 .. j - 1
    BY <1>1, <1>3
  <2>2. d[i] \in {d[k] : k \in 1 .. j - 1}
    BY <2>1
  <2>3. rank[d[i]] < rank[d[j]]
    BY <1>2, <2>2
  <2>4. d[i] \in S /\ rank[d[i]] \in Int
    BY <1>2
  <2> QED  BY <2>3, <2>4
<1>4. \A i, j \in 1 .. n : d[i] = d[j] => i = j
  <2> SUFFICES ASSUME NEW i \in 1 .. n, NEW j \in 1 .. n, i # j PROVE d[i] # d[j]
    OBVIOUS
  <2>1. i < j \/ j < i
    BY <1>1
  <2> QED  BY <2>1, <1>3
<1> QED  BY <1>2, <1>4, InjectionLists DEF n

\* The sequences of the library list the set.
LEMMA SetToSeqsLists ==
  ASSUME NEW S \in SUBSET Front, NEW d \in Seqs!SetToSeqs(S)
  PROVE  Lists(d, S)
<1>1. /\ d \in [1 .. Cardinality(S) -> S]
      /\ \A i, j \in 1 .. Cardinality(S) : d[i] = d[j] => i = j
  <2>1. Cardinality(S) = Seqs!Cardinality(S)
    BY Zenon DEF Cardinality, Seqs!Cardinality
  <2> QED  BY <2>1 DEF Seqs!SetToSeqs
<1> QED  BY <1>1, InjectionLists

\* What the dequeue is loaded with lists the leaves, the active roots.
LEMMA DequesLoaded ==
  ASSUME NEW t \in Thread
  PROVE  /\ \A d \in LoadedLeaves(t) : Lists(d, Leaves(t))
         /\ \A d \in LoadedRoots(t) : Lists(d, ActiveRoots(t))
         /\ Cardinality(Leaves(t)) <= Capacity["forward"][t]
         /\ Cardinality(ActiveRoots(t)) <= Capacity["backward"][t]
<1>1. "forward" \in Solve /\ "backward" \in Solve
  BY DEF Solve
<1>2. /\ Leaves(t) \in SUBSET Front /\ ActiveRoots(t) \in SUBSET Front
      /\ Capacity["forward"][t] \in Nat /\ Capacity["backward"][t] \in Nat
  BY <1>1, LeavesApart, PathFacts
<1>3. /\ Cardinality(Leaves(t)) <= Capacity["forward"][t]
      /\ Cardinality(ActiveRoots(t)) <= Capacity["backward"][t]
  BY <1>1, LeavesApart, ApartFits
<1>4. \A K \in Leaves(t) : [J \in Front |-> J][K] \in Int
  <2>1. Front \in SUBSET Nat
    BY TreeTypes
  <2>2. Leaves(t) \in SUBSET Front
    BY <1>2
  <2> SUFFICES ASSUME NEW K \in Leaves(t) PROVE [J \in Front |-> J][K] \in Int
    OBVIOUS
  <2>3. K \in Front /\ K \in Int
    <3>1. K \in Front
      BY <2>2
    <3>2. K \in Nat
      BY <2>1, <3>1
    <3> QED  BY <3>1, <3>2
  <2>4. [J \in Front |-> J][K] = K
    BY <2>3
  <2> QED  BY <2>3, <2>4
<1>5. \A K \in ActiveRoots(t) : PlaceOfRoot[K] \in Int
  <2> SUFFICES ASSUME NEW K \in ActiveRoots(t) PROVE PlaceOfRoot[K] \in Int
    OBVIOUS
  <2>1. K \in Roots
    BY DEF ActiveRoots
  <2>2. \E i \in 1 .. Cardinality(Roots) : rootseq[i] = K
    BY <2>1, TreeAssumption
  <2>3. PlaceOfRoot[K] \in 1 .. Cardinality(Roots)
    BY <2>1, <2>2 DEF PlaceOfRoot
  <2> QED  BY <2>3
<1>6. \A d \in LoadedLeaves(t) : Lists(d, Leaves(t))
  BY <1>2, <1>3, <1>4, LoadedLists DEF LoadedLeaves
<1>7. \A d \in LoadedRoots(t) : Lists(d, ActiveRoots(t))
  BY <1>2, <1>3, <1>5, LoadedLists DEF LoadedRoots
<1> QED  BY <1>3, <1>6, <1>7

-----------------------------------------------------------------------------
(* Which actions change the other variables                                *)

\* Which actions change the variables of a path.
LEMMA WhoElse ==
  ASSUME NEW t \in Thread, Worker(t)
  PROVE
    /\ \/ status' = status \/ VisitEmpty(t) \/ PassThrough(t) \/ Decrement(t)
       \/ Signal(t) \/ ToBackward(t)
    /\ \/ deq' = deq \/ Pop(t) \/ ReturnForward(t) \/ ReturnBackward(t)
       \/ ReturnActive(t) \/ ToBackward(t)
    /\ nactiveChild' = nactiveChild \/ ReturnForward(t)
    /\ phase' = phase \/ ToDiagonal(t) \/ ToBackward(t) \/ ToStore(t)
    /\ \/ UNCHANGED listVars \/ Link(t) \/ Store(t) \/ Decrement(t)
       \/ Load(t) \/ Assemble(t)
    /\ sol' = sol \/ Copy(t)
    /\ joined' = joined
<1> USE DEF Worker, pathVars, gatherVars, shared, Pop, Exhausted, ReturnForward,
    ReturnBackward, ReturnActive, VisitEmpty, PassThrough, VisitFront, UpdateReady,
    UpdateWaits, Apply, Link, Store, Decrement, Poll, Load, Assemble, Count, Publish,
    Signal, ToDiagonal, DiagonalSolve, DiagonalMove, DiagonalSignal, DiagonalReset,
    DiagonalEnd, ToBackward, ToStore, Copy, CopyEnd
<1>1. \/ status' = status \/ VisitEmpty(t) \/ PassThrough(t) \/ Decrement(t)
      \/ Signal(t) \/ ToBackward(t)
  OBVIOUS
<1>2. \/ deq' = deq \/ Pop(t) \/ ReturnForward(t) \/ ReturnBackward(t)
      \/ ReturnActive(t) \/ ToBackward(t)
  OBVIOUS
<1>3. nactiveChild' = nactiveChild \/ ReturnForward(t)
  OBVIOUS
<1>4. phase' = phase \/ ToDiagonal(t) \/ ToBackward(t) \/ ToStore(t)
  OBVIOUS
<1>5. \/ UNCHANGED listVars \/ Link(t) \/ Store(t) \/ Decrement(t)
      \/ Load(t) \/ Assemble(t)
  OBVIOUS
<1>6. sol' = sol \/ Copy(t)
  OBVIOUS
<1>7. joined' = joined
  OBVIOUS
<1> QED  BY <1>1, <1>2, <1>3, <1>4, <1>5, <1>6, <1>7

\* The types of the variables a thread's path is described by, without the
\* dequeue.
ThreadTypes ==
  /\ cur \in [Thread -> Front]
  /\ src \in [Thread -> Front]
  /\ status \in [Thread -> [Front -> {"W", "F"}]]
  /\ nactiveChild \in [Thread -> [Front -> Int]]

\* Everything a step needs to know about types.
Typed == ReadInv /\ PathTypes

\* Typed, in the parts the proofs below cite.
LEMMA TypedFacts ==
  ASSUME Typed
  PROVE  /\ pc \in [Thread -> Labels] /\ phase \in [Thread -> Phase]
         /\ cur \in [Thread -> Front] /\ src \in [Thread -> Front]
         /\ todo \in [Thread -> SUBSET Front]
         /\ heads \in [Thread -> [Front -> SUBSET Nonempty]]
         /\ status \in [Thread -> [Front -> {"W", "F"}]]
         /\ nactiveChild \in [Thread -> [Front -> Int]]
         /\ deq \in [Thread -> Seq(Front)]
         /\ DOMAIN pMtx = Front /\ DOMAIN pAgg = Thread
         /\ frontIsDone \in [Front -> BOOLEAN]
         /\ \A t \in Thread : DOMAIN pAgg[t] = Front
         /\ BarrierInv /\ WorkFits /\ MatricesFit
  BY DEF Typed, ReadInv, PathTypes, BarrierInv, PublishInv, WorkFits, MatricesFit

\* The variables of the paths keep their types.
LEMMA ThreadTypesStep ==
  ASSUME Typed, NEW t \in Thread, Worker(t)
  PROVE  ThreadTypes'
<1>0. /\ cur \in [Thread -> Front] /\ src \in [Thread -> Front]
      /\ todo \in [Thread -> SUBSET Front] /\ deq \in [Thread -> Seq(Front)]
      /\ status \in [Thread -> [Front -> {"W", "F"}]]
      /\ nactiveChild \in [Thread -> [Front -> Int]]
  BY TypedFacts
<1>1. cur' \in [Thread -> Front]
  <2>1. CASE Pop(t)
    <3>1. Head(deq[t]) \in Front
      BY <1>0, <2>1 DEF Pop
    <3> QED  BY <1>0, <2>1, <3>1 DEF Pop
  <2>2. CASE DiagonalSolve(t)
    <3>1. Least(todo[t]) \in Front
      BY <1>0, <2>2, LeastIn DEF DiagonalSolve
    <3> QED  BY <1>0, <2>2, <3>1 DEF DiagonalSolve
  <2> QED  BY <1>0, <2>1, <2>2, WhoChanges
<1>2. src' \in [Thread -> Front]
  <2>1. CASE UpdateReady(t)
    <3>1. PICK I \in todo[t] : src' = [src EXCEPT ![t] = I]
      BY <2>1 DEF UpdateReady
    <3>2. I \in Front
      BY <1>0
    <3> QED  BY <1>0, <3>1, <3>2
  <2> QED  BY <1>0, <2>1, WhoChanges
<1>3. status' \in [Thread -> [Front -> {"W", "F"}]]
  <2>1. CASE VisitEmpty(t) \/ PassThrough(t) \/ Decrement(t) \/ Signal(t)
    <3>1. status' = [status EXCEPT ![t][cur[t]] = "F"]
      BY <2>1 DEF VisitEmpty, PassThrough, Decrement, Signal
    <3> QED  BY <1>0, <3>1
  <2>2. CASE ToBackward(t)
    <3>1. status' = [status EXCEPT ![t] =
                       [J \in Front |-> IF J \in OnPath["backward"][t] THEN "W" ELSE "F"]]
      BY <2>2 DEF ToBackward
    <3> QED  BY <1>0, <3>1
  <2> QED  BY <1>0, <2>1, <2>2, WhoElse
<1>4. nactiveChild' \in [Thread -> [Front -> Int]]
  <2>1. CASE ReturnForward(t)
    <3>1. \/ nactiveChild' = nactiveChild
          \/ nactiveChild' = [nactiveChild EXCEPT ![t][par[cur[t]]] =
                                nactiveChild[t][par[cur[t]]] - 1]
             /\ par[cur[t]] # -1
      BY <2>1 DEF ReturnForward
    <3>2. CASE par[cur[t]] # -1
      <4>1. cur[t] \in Front
        BY <1>0
      <4>2. par[cur[t]] \in Front
        BY <4>1, <3>2, TreeTypes
      <4>3. nactiveChild[t][par[cur[t]]] - 1 \in Int
        BY <1>0, <4>2
      <4> DEFINE K == par[cur[t]]
                 n == nactiveChild[t][K] - 1
      <4>4. n \in Int /\ K \in Front
        BY <4>2, <4>3
      <4>5. nactiveChild' = nactiveChild \/ nactiveChild' = [nactiveChild EXCEPT ![t][K] = n]
        BY <3>1
      <4> HIDE DEF K, n
      <4>6. [nactiveChild EXCEPT ![t][K] = n] \in [Thread -> [Front -> Int]]
        BY <1>0, <4>4, Zenon
      <4> QED  BY <1>0, <4>5, <4>6
    <3> QED  BY <1>0, <3>1, <3>2
  <2> QED  BY <1>0, <2>1, WhoElse
<1> QED  BY <1>1, <1>2, <1>3, <1>4 DEF ThreadTypes

\* What a thread does is its own business.
SamePath(u) ==
  /\ status'[u] = status[u] /\ nactiveChild'[u] = nactiveChild[u] /\ deq'[u] = deq[u]
  /\ heads'[u] = heads[u] /\ pAgg'[u] = pAgg[u]

\* A step of one thread leaves the paths of the others alone.
LEMMA OthersPaths ==
  ASSUME Typed, NEW t \in Thread, Worker(t), NEW u \in Thread, u # t
  PROVE  SamePath(u) /\ SameThread(u)
<1>0. /\ deq \in [Thread -> Seq(Front)]
      /\ status \in [Thread -> [Front -> {"W", "F"}]]
      /\ nactiveChild \in [Thread -> [Front -> Int]]
      /\ heads \in [Thread -> [Front -> SUBSET Nonempty]]
      /\ DOMAIN pAgg = Thread
  BY TypedFacts
<1>1. status'[u] = status[u]
  <2>1. CASE VisitEmpty(t) \/ PassThrough(t) \/ Decrement(t) \/ Signal(t)
    <3>1. status' = [status EXCEPT ![t][cur[t]] = "F"]
      BY <2>1 DEF VisitEmpty, PassThrough, Decrement, Signal
    <3> QED  BY <1>0, <3>1
  <2>2. CASE ToBackward(t)
    BY <1>0, <2>2 DEF ToBackward
  <2> QED  BY <1>0, <2>1, <2>2, WhoElse
<1>2. nactiveChild'[u] = nactiveChild[u]
  <2>1. nactiveChild' = nactiveChild \/ \E K, n : nactiveChild' = [nactiveChild EXCEPT ![t][K] = n]
    <3>1. CASE ReturnForward(t)
      <4> DEFINE K == par[cur[t]]
                 n == nactiveChild[t][K] - 1
      <4>1. nactiveChild' = nactiveChild \/ nactiveChild' = [nactiveChild EXCEPT ![t][K] = n]
        BY <3>1 DEF ReturnForward
      <4> HIDE DEF K, n
      <4> QED  BY <4>1
    <3> QED  BY <3>1, WhoElse
  <2> QED  BY <1>0, <2>1
<1>3. deq'[u] = deq[u]
  <2>1. deq' = deq \/ \E d : deq' = [deq EXCEPT ![t] = d]
    <3>1. CASE Pop(t)
      BY <3>1 DEF Pop
    <3>2. CASE ReturnForward(t)
      BY <3>2 DEF ReturnForward, Push
    <3>3. CASE ReturnBackward(t)
      BY <3>3 DEF ReturnBackward, Push
    <3>4. CASE ReturnActive(t)
      BY <3>4 DEF ReturnActive
    <3>5. CASE ToBackward(t)
      BY <3>5 DEF ToBackward
    <3> QED  BY <3>1, <3>2, <3>3, <3>4, <3>5, WhoElse
  <2> QED  BY <1>0, <2>1
<1>4. heads'[u] = heads[u]
  BY <1>0, WhoChanges DEF VisitFront, UpdateWaits, ToBackward
<1>5. pAgg'[u] = pAgg[u]
  BY <1>0, WhoChanges DEF VisitFront, Apply, Decrement, Assemble, Publish, DiagonalMove
<1>6. SameThread(u)
  BY OthersKeep, TypedFacts
<1> QED  BY <1>1, <1>2, <1>3, <1>4, <1>5, <1>6 DEF SamePath

-----------------------------------------------------------------------------
(* The dequeue                                                             *)

\* A front put at the tail of a dequeue,
LEMMA AtTail ==
  ASSUME NEW s \in Seq(Front), NEW K \in Front
  PROVE  /\ Append(s, K) \in Seq(Front) /\ Len(Append(s, K)) = Len(s) + 1
         /\ \A i \in 1 .. Len(s) + 1 :
              Append(s, K)[i] = IF i = Len(s) + 1 THEN K ELSE s[i]
<1> QED  OBVIOUS

\* fronts put at its head,
LEMMA AtHead ==
  ASSUME NEW s \in Seq(Front), NEW q \in Seq(Front)
  PROVE  /\ q \o s \in Seq(Front) /\ Len(q \o s) = Len(q) + Len(s)
         /\ \A i \in 1 .. Len(q) + Len(s) :
              (q \o s)[i] = IF i <= Len(q) THEN q[i] ELSE s[i - Len(q)]
<1> QED  OBVIOUS

\* and the head removed.
LEMMA FromHead ==
  ASSUME NEW s \in Seq(Front), s # << >>
  PROVE  /\ Head(s) = s[1] /\ Head(s) \in Front /\ Len(s) \in Nat \ {0}
         /\ Tail(s) \in Seq(Front) /\ Len(Tail(s)) = Len(s) - 1
         /\ \A i \in 1 .. Len(s) - 1 : Tail(s)[i] = s[i + 1]
<1> QED  OBVIOUS

\* The fronts of a dequeue, and how many there are.
Members(d) == {J \in Front : \E i \in 1 .. Len(d) : d[i] = J}

\* A dequeue that repeats nothing holds as many fronts as it is long.
LEMMA MembersCount ==
  ASSUME NEW d \in Seq(Front), \A i, j \in 1 .. Len(d) : d[i] = d[j] => i = j
  PROVE  IsFiniteSet(Members(d)) /\ Cardinality(Members(d)) = Len(d)
<1>1. IsFiniteSet(1 .. Len(d)) /\ Cardinality(1 .. Len(d)) = Len(d) /\ Len(d) \in Nat
  <2>1. Len(d) \in Nat
    OBVIOUS
  <2> HIDE DEF Members
  <2>2. IsFiniteSet(1 .. Len(d)) /\ Cardinality(1 .. Len(d)) = IF 1 > Len(d) THEN 0 ELSE Len(d) - 1 + 1
    BY <2>1, FS_Interval
  <2> QED  BY <2>1, <2>2
<1>2. IsFiniteSet(Members(d))
  <2>1. Members(d) \in SUBSET Front
    BY DEF Members
  <2> QED  BY <2>1, TreeTypes, FS_Subset
<1>3. d \in [1 .. Len(d) -> Members(d)]
  BY DEF Members
<1>4. d \in Injection(1 .. Len(d), Members(d))
  BY <1>3 DEF Injection, IsInjective
<1>5. d \in Surjection(1 .. Len(d), Members(d))
  BY <1>3 DEF Surjection, Members
<1> QED  BY <1>1, <1>2, <1>4, <1>5, FS_Injection

\* A sequence put in front of a dequeue that shares no front with it.
LEMMA Joined ==
  ASSUME NEW d \in Seq(Front), \A i, j \in 1 .. Len(d) : d[i] = d[j] => i = j,
         NEW S \in SUBSET Front, NEW q, Lists(q, S), S \cap Members(d) = {}
  PROVE  /\ q \o d \in Seq(Front) /\ Len(q \o d) = Cardinality(S) + Len(d)
         /\ Cardinality(S) \in Nat /\ Len(q) = Cardinality(S)
         /\ \A i, j \in 1 .. Len(q \o d) : (q \o d)[i] = (q \o d)[j] => i = j
         /\ Members(q \o d) = S \cup Members(d)
         /\ Cardinality(S \cup Members(d)) = Cardinality(S) + Len(d)
<1>1. /\ q \in Seq(Front) /\ Len(q) = Cardinality(S) /\ Len(q) \in Nat /\ Len(d) \in Nat
      /\ \A i, j \in 1 .. Len(q) : q[i] = q[j] => i = j
      /\ \A J \in Front : (\E i \in 1 .. Len(q) : q[i] = J) <=> J \in S
  BY DEF Lists
<1>2. /\ q \o d \in Seq(Front) /\ Len(q \o d) = Len(q) + Len(d)
      /\ \A i \in 1 .. Len(q) + Len(d) :
           (q \o d)[i] = IF i <= Len(q) THEN q[i] ELSE d[i - Len(q)]
  BY <1>1, AtHead
<1> DEFINE e == q \o d
           m == Len(q)
           n == Len(d)
<1> HIDE DEF e
<1>3. \A i \in 1 .. n : d[i] \in Front /\ d[i] \in Members(d)
  BY DEF Members
<1>4. \A i \in 1 .. m : q[i] \in Front /\ q[i] \in S
  BY <1>1
<1>5. \A i \in 1 .. m + n : e[i] = IF i <= m THEN q[i] ELSE d[i - m]
  BY <1>2 DEF e
<1>6. ASSUME NEW i \in 1 .. m + n, NEW j \in 1 .. m + n, e[i] = e[j] PROVE i = j
  <2>1. CASE i <= m /\ j <= m
    <3>1. i \in 1 .. m /\ j \in 1 .. m
      BY <1>1, <2>1
    <3> QED  BY <3>1, <2>1, <1>1, <1>5, <1>6
  <2>2. CASE ~(i <= m) /\ ~(j <= m)
    <3>1. i - m \in 1 .. n /\ j - m \in 1 .. n
      BY <1>1, <2>2
    <3>2. d[i - m] = d[j - m]
      BY <2>2, <1>5, <1>6
    <3>3. i - m = j - m
      BY <3>1, <3>2
    <3> QED  BY <3>3, <1>1
  <2>3. CASE i <= m /\ ~(j <= m)
    <3>1. i \in 1 .. m /\ j - m \in 1 .. n
      BY <1>1, <2>3
    <3> QED  BY <3>1, <2>3, <1>3, <1>4, <1>5, <1>6
  <2>4. CASE ~(i <= m) /\ j <= m
    <3>1. i - m \in 1 .. n /\ j \in 1 .. m
      BY <1>1, <2>4
    <3> QED  BY <3>1, <2>4, <1>3, <1>4, <1>5, <1>6
  <2> QED  BY <2>1, <2>2, <2>3, <2>4
<1>7. \A J \in Front : (\E i \in 1 .. m + n : e[i] = J) <=> J \in S \cup Members(d)
  <2> TAKE J \in Front
  <2>1. ASSUME NEW i \in 1 .. m + n, e[i] = J PROVE J \in S \cup Members(d)
    <3>1. CASE i <= m
      <4>1. i \in 1 .. m
        BY <1>1, <3>1
      <4> QED  BY <4>1, <3>1, <2>1, <1>4, <1>5
    <3>2. CASE ~(i <= m)
      <4>1. i - m \in 1 .. n
        BY <1>1, <3>2
      <4> QED  BY <4>1, <3>2, <2>1, <1>3, <1>5
    <3> QED  BY <3>1, <3>2
  <2>2. ASSUME J \in S PROVE \E i \in 1 .. m + n : e[i] = J
    <3>1. PICK i \in 1 .. m : q[i] = J
      BY <2>2, <1>1
    <3>2. i \in 1 .. m + n /\ i <= m
      BY <1>1
    <3> QED  BY <3>1, <3>2, <1>5
  <2>3. ASSUME J \in Members(d) PROVE \E i \in 1 .. m + n : e[i] = J
    <3>1. PICK i \in 1 .. n : d[i] = J
      BY <2>3 DEF Members
    <3>2. i + m \in 1 .. m + n /\ ~(i + m <= m) /\ (i + m) - m = i
      BY <1>1
    <3> QED  BY <3>1, <3>2, <1>5
  <2> QED  BY <2>1, <2>2, <2>3
<1>8. /\ IsFiniteSet(S) /\ IsFiniteSet(Members(d)) /\ Cardinality(Members(d)) = n
      /\ Cardinality(S) \in Nat
  BY TreeTypes, FS_Subset, FS_CardinalityType, MembersCount
<1>9. Cardinality(S \cup Members(d)) = Cardinality(S) + n
  <2>1. Cardinality(S \cup Members(d)) =
          Cardinality(S) + Cardinality(Members(d)) - Cardinality(S \cap Members(d))
    BY <1>8, FS_Union
  <2>2. Cardinality(S \cap Members(d)) = 0
    BY FS_EmptySet
  <2> QED  BY <1>8, <2>1, <2>2
<1>10. Members(e) = S \cup Members(d)
  <2>1. Len(e) = m + n
    BY <1>2 DEF e
  <2>2. S \cup Members(d) \subseteq Front
    BY DEF Members
  <2> QED  BY <1>7, <2>1, <2>2 DEF Members
<1> QED  BY <1>1, <1>2, <1>6, <1>8, <1>9, <1>10 DEF e

\* What a front has to wait for are finitely many fronts.
LEMMA PendingFinite ==
  ASSUME NEW t \in Thread, NEW J \in Front
  PROVE  /\ Before(t, J) \in SUBSET Front /\ Pending(t, J) \in SUBSET Before(t, J)
         /\ IsFiniteSet(Pending(t, J)) /\ Cardinality(Pending(t, J)) \in Nat
<1>1. Before(t, J) \in SUBSET Front
  BY DEF Before, Children
<1>2. Pending(t, J) \in SUBSET Before(t, J)
  BY DEF Pending
<1> QED  BY <1>1, <1>2, TreeTypes, FS_Subset, FS_CardinalityType

\* The steps of a visit change at most the status of the front visited.
LEMMA VisitSteps ==
  ASSUME Typed, NEW t \in Thread, Worker(t), pc[t] \in SolveLabels \ {"pop", "return"}
  PROVE  /\ CheckedOut(t) /\ CheckedOut(t)' /\ phase' = phase /\ phase[t] \in Solve
         /\ pc'[t] \in SolveLabels
         /\ cur' = cur /\ deq' = deq /\ nactiveChild' = nactiveChild
         /\ \A J \in Front \ {cur[t]} : status'[t][J] = status[t][J]
         /\ status'[t][cur[t]] \in {status[t][cur[t]], "F"}
<1>0. /\ pc \in [Thread -> Labels] /\ cur \in [Thread -> Front]
      /\ status \in [Thread -> [Front -> {"W", "F"}]]
  BY TypedFacts
<1>1. /\ pc[t] \notin {"pop", "return", "barrier", "diagonal", "copy", "done"} \cup MoveLabels
      /\ phase[t] \in Solve
  BY LabelPhase, TypedFacts DEF SolveLabels, VisitLabels, MoveLabels
<1>2. \/ VisitEmpty(t) \/ PassThrough(t) \/ VisitFront(t) \/ UpdateReady(t)
      \/ UpdateWaits(t) \/ Apply(t) \/ Link(t) \/ Store(t) \/ Decrement(t) \/ Poll(t)
      \/ Load(t) \/ Assemble(t) \/ Count(t) \/ Publish(t) \/ Signal(t)
  BY <1>1 DEF Worker, MoveLabels, Pop, Exhausted, ReturnForward, ReturnBackward,
     ReturnActive, ToDiagonal, DiagonalSolve, DiagonalMove, DiagonalSignal, DiagonalReset,
     DiagonalEnd, ToBackward, ToStore, Copy, CopyEnd
<1>3. pc'[t] \in (VisitLabels \cup {"return"})
  BY <1>0, <1>2 DEF Goto, AfterUpdates, AfterAggregates, VisitLabels, VisitEmpty,
     PassThrough, VisitFront, UpdateReady, UpdateWaits, Apply, Link, Store, Decrement, Poll,
     Load, Assemble, Count, Publish, Signal
<1>4. /\ phase' = phase /\ cur' = cur /\ deq' = deq /\ nactiveChild' = nactiveChild
  BY <1>2 DEF VisitEmpty, PassThrough, VisitFront, UpdateReady, UpdateWaits, Apply, Link,
     Store, Decrement, Poll, Load, Assemble, Count, Publish, Signal, pathVars
<1>5. status' = status \/ status' = [status EXCEPT ![t][cur[t]] = "F"]
  BY <1>2 DEF VisitEmpty, PassThrough, VisitFront, UpdateReady, UpdateWaits, Apply, Link,
     Store, Decrement, Poll, Load, Assemble, Count, Publish, Signal, pathVars
<1>6. /\ \A J \in Front \ {cur[t]} : status'[t][J] = status[t][J]
      /\ status'[t][cur[t]] \in {status[t][cur[t]], "F"}
  <2>1. CASE status' = status
    BY <2>1
  <2>2. CASE status' = [status EXCEPT ![t][cur[t]] = "F"]
    BY <2>2, <1>0
  <2> QED  BY <2>1, <2>2, <1>5
<1> QED  BY <1>1, <1>3, <1>4, <1>6 DEF CheckedOut, SolveLabels, VisitLabels

\* The dequeue while a front is visited,
LEMMA DequeVisit ==
  ASSUME Typed, DequeInv, NEW t \in Thread, Worker(t),
         pc[t] \in SolveLabels \ {"pop", "return"}
  PROVE  DequeOf(t)' /\ deq'[t] \in Seq(Front)
<1>1. /\ CheckedOut(t) /\ CheckedOut(t)' /\ phase' = phase /\ phase[t] \in Solve
      /\ pc'[t] \in SolveLabels
      /\ cur' = cur /\ deq' = deq /\ nactiveChild' = nactiveChild
      /\ \A J \in Front \ {cur[t]} : status'[t][J] = status[t][J]
      /\ status'[t][cur[t]] \in {status[t][cur[t]], "F"}
  BY VisitSteps
<1>2. DequeOf(t) /\ deq[t] \in Seq(Front) /\ cur[t] \in Front
  BY TypedFacts DEF DequeInv
<1>3. Room(t)' /\ NoneTwice(t)'
  BY <1>1, <1>2 DEF DequeOf, Room, NoneTwice
<1>4. ASSUME NEW J \in Front PROVE InTurn(t, J)'
  <2>1. InDeq(t, J)' = InDeq(t, J) /\ \A K : Taken(t, K)' = Taken(t, K)
    BY <1>1 DEF InDeq, Taken
  <2>2. \A K \in Front : K = cur[t] <=> Taken(t, K)
    BY <1>1 DEF Taken
  <2>3. Before(t, J)' = Before(t, J) /\ Before(t, J) \in SUBSET Front
    BY <1>1, PendingFinite DEF Before
  <2>4. Pending(t, J)' = Pending(t, J)
    BY <1>1, <2>1, <2>2, <2>3 DEF Pending
  <2>5. InTurn(t, J)
    BY <1>1, <1>2 DEF DequeOf
  <2>6. status[t][J] \in {"W", "F"} /\ status'[t][J] \in {"W", "F"}
    <3>1. \A K \in Front : status[t][K] \in {"W", "F"}
      BY TypedFacts
    <3>2. status'[t][J] = status[t][J] \/ status'[t][J] \in {status[t][J], "F"}
      BY <1>1
    <3> QED  BY <3>1, <3>2
  <2>7. CASE J = cur[t]
    BY <1>1, <2>1, <2>2, <2>4, <2>5, <2>6, <2>7 DEF InTurn
  <2>8. CASE J # cur[t]
    BY <1>1, <2>1, <2>2, <2>4, <2>5, <2>6, <2>8 DEF InTurn
  <2> QED  BY <2>7, <2>8
<1>5. ~LoopDone(t)'
  BY <1>1 DEF LoopDone, SolveLabels, VisitLabels
<1> QED  BY <1>1, <1>2, <1>3, <1>4, <1>5 DEF DequeOf

\* when a front is taken,
LEMMA DequePop ==
  ASSUME Typed, DequeInv, NEW t \in Thread, Pop(t)
  PROVE  DequeOf(t)' /\ deq'[t] \in Seq(Front)
<1> DEFINE d == deq[t]
<1>1. d \in Seq(Front) /\ d # << >>
  BY TypedFacts DEF Pop
<1>2. /\ d[1] \in Front /\ Len(d) \in Nat \ {0}
      /\ Tail(d) \in Seq(Front) /\ Len(Tail(d)) = Len(d) - 1
      /\ \A i \in 1 .. Len(d) - 1 : Tail(d)[i] = d[i + 1]
      /\ Head(d) = d[1]
  BY <1>1, FromHead
<1>3. /\ deq'[t] = Tail(d) /\ cur'[t] = d[1] /\ pc[t] = "pop" /\ pc'[t] = "visit"
      /\ status' = status /\ nactiveChild' = nactiveChild /\ phase' = phase
  BY <1>2, TypedFacts DEF Pop, Goto
<1>4. ~CheckedOut(t) /\ CheckedOut(t)' /\ phase[t] \in Solve
  BY <1>3, TypedFacts, LabelPhase DEF CheckedOut, SolveLabels
<1>5. \A J : Taken(t, J)' <=> J = d[1]
  BY <1>3, <1>4 DEF Taken
<1>6. \A J : ~Taken(t, J)
  BY <1>4 DEF Taken
<1>7. InDeq(t, d[1])
  BY <1>2 DEF InDeq
<1>8. /\ Room(t) /\ \A J \in Front : InTurn(t, J)
      /\ \A i, j \in 1 .. Len(d) : d[i] = d[j] => i = j
  BY <1>4 DEF DequeInv, DequeOf, NoneTwice
<1>9. \A J \in Front : InDeq(t, J)' <=> InDeq(t, J) /\ J # d[1]
  <2> SUFFICES ASSUME NEW J \in Front PROVE InDeq(t, J)' <=> InDeq(t, J) /\ J # d[1]
    OBVIOUS
  <2>1. InDeq(t, J)' <=> \E i \in 1 .. Len(d) - 1 : d[i + 1] = J
    BY <1>2, <1>3 DEF InDeq
  <2>2. InDeq(t, J) <=> \E i \in 1 .. Len(d) : d[i] = J
    BY DEF InDeq
  <2> HIDE DEF d
  <2>3. ASSUME NEW i \in 1 .. Len(d) - 1, d[i + 1] = J
        PROVE  (\E k \in 1 .. Len(d) : d[k] = J) /\ J # d[1]
    <3>1. i + 1 \in 1 .. Len(d) /\ 1 \in 1 .. Len(d) /\ i + 1 # 1
      BY <1>2
    <3> QED  BY <1>8, <2>3, <3>1
  <2>4. ASSUME NEW k \in 1 .. Len(d), d[k] = J, J # d[1]
        PROVE  \E i \in 1 .. Len(d) - 1 : d[i + 1] = J
    <3>1. k - 1 \in 1 .. Len(d) - 1 /\ (k - 1) + 1 = k
      BY <1>2, <2>4
    <3> QED  BY <2>4, <3>1
  <2> QED  BY <2>1, <2>2, <2>3, <2>4
<1>10. status[t][d[1]] = "W" /\ d[1] \in OnPath[phase[t]][t] /\ Pending(t, d[1]) = {}
  BY <1>2, <1>7, <1>8 DEF InTurn
<1>11. (NoneTwice(t) /\ Room(t))'
  <2>1. NoneTwice(t)'
    <3> HIDE DEF d
    <3>1. ASSUME NEW i \in 1 .. Len(d) - 1, NEW j \in 1 .. Len(d) - 1,
                 Tail(d)[i] = Tail(d)[j]
          PROVE  i = j
      <4>1. i + 1 \in 1 .. Len(d) /\ j + 1 \in 1 .. Len(d)
        BY <1>2
      <4>2. d[i + 1] = d[j + 1]
        BY <1>2, <3>1
      <4>3. i + 1 = j + 1
        BY <1>8, <4>1, <4>2
      <4> QED  BY <4>3
    <3> QED  BY <3>1, <1>2, <1>3 DEF NoneTwice
  <2>2. Room(t)'
    <3>1. Len(d) <= Capacity[phase[t]][t] /\ Capacity[phase[t]][t] \in Nat
      BY <1>2, <1>4, <1>8, PathFacts DEF Room
    <3> QED  BY <1>2, <1>3, <1>4, <3>1 DEF Room
  <2> QED  BY <2>1, <2>2
<1> HIDE DEF d
<1>12. \A J \in Front : Pending(t, J)' = Pending(t, J)
  BY <1>3, <1>5, <1>6, <1>10 DEF Pending, Before
<1>13. ASSUME NEW J \in Front PROVE InTurn(t, J)'
  BY <1>3, <1>5, <1>6, <1>8, <1>9, <1>10, <1>12 DEF InTurn
<1>14. ~LoopDone(t)'
  BY <1>3, <1>4 DEF LoopDone
<1> QED  BY <1>2, <1>3, <1>11, <1>13, <1>14 DEF DequeOf

\* When the dequeue is empty, all fronts are finished: one that is not waits
\* for another one, and there is a last one of these.
LEMMA EmptyIsDone ==
  ASSUME Typed, DequeInv, NEW t \in Thread, pc[t] = "pop", deq[t] = << >>
  PROVE  \A J \in Front : status[t][J] = "F"
<1>1. phase[t] \in Solve
  BY TypedFacts, LabelPhase DEF SolveLabels
<1>2. \A J \in Front : ~Taken(t, J) /\ ~InDeq(t, J) /\ InTurn(t, J)
  BY <1>1 DEF DequeInv, DequeOf, Taken, InDeq, CheckedOut
<1> DEFINE T == {J \in Front : status[t][J] = "W"}
<1>3. SUFFICES ASSUME T # {} PROVE FALSE
  BY TypedFacts
<1>4. T \in SUBSET Nat /\ T \in SUBSET Front /\ Front \in SUBSET Nat
  BY TreeTypes
<1>5. \A J \in T : \E I \in Before(t, J) : I \in T
  BY <1>2, PendingFinite DEF InTurn, Pending
<1>6. CASE phase[t] = "forward"
  <2>1. PICK m \in T : \A k \in T : m <= k
    BY <1>3, <1>4, SmallestOf
  <2>2. PICK I \in Children(m) : I \in T
    BY <1>5, <1>6 DEF Before
  <2>3. I < m
    BY <2>2, TreeTypes DEF Children
  <2> QED  BY <1>4, <2>1, <2>2, <2>3
<1>7. CASE phase[t] # "forward"
  <2> DEFINE U == {nfront - J : J \in T}
  <2>1. nfront \in Nat /\ \A J \in T : nfront - J \in Nat /\ J \in Nat
    BY <1>4, TreeAssumption DEF Front
  <2>2. U # {} /\ U \in SUBSET Nat
    BY <1>3, <2>1
  <2>3. PICK m \in U : \A k \in U : m <= k
    BY <2>2, SmallestOf
  <2>4. PICK J \in T : m = nfront - J
    OBVIOUS
  <2>5. par[J] \in T
    BY <1>5, <1>7 DEF Before
  <2>6. par[J] > J
    BY <1>4, <2>5, TreeTypes
  <2>7. nfront - J <= nfront - par[J]
    BY <2>3, <2>4, <2>5
  <2>8. J \in Nat /\ par[J] \in Nat
    BY <1>4, <2>5
  <2> HIDE DEF T
  <2> QED  BY <2>1, <2>6, <2>7, <2>8
<1> QED  BY <1>6, <1>7

\* and when nothing is left.
LEMMA DequeExhausted ==
  ASSUME Typed, DequeInv, NEW t \in Thread, Exhausted(t)
  PROVE  DequeOf(t)' /\ deq'[t] \in Seq(Front)
<1>1. /\ pc[t] = "pop" /\ pc'[t] = "barrier" /\ deq[t] = << >> /\ deq' = deq
      /\ status' = status /\ nactiveChild' = nactiveChild /\ cur' = cur /\ phase' = phase
      /\ deq[t] \in Seq(Front)
  BY TypedFacts DEF Exhausted, Goto, pathVars
<1>2. ~CheckedOut(t) /\ ~CheckedOut(t)' /\ phase[t] \in Solve
  BY <1>1, TypedFacts, LabelPhase DEF CheckedOut, SolveLabels
<1>3. \A J \in Front : ~Taken(t, J) /\ ~Taken(t, J)' /\ ~InDeq(t, J)
  BY <1>1, <1>2 DEF Taken, InDeq
<1>4. \A J \in Front : InDeq(t, J)' = InDeq(t, J) /\ Pending(t, J)' = Pending(t, J)
  <2>1. \A J \in Front : Before(t, J)' = Before(t, J) /\ Before(t, J) \in SUBSET Front
    BY <1>1, PendingFinite DEF Before
  <2> QED  BY <1>1, <1>3, <2>1 DEF InDeq, Pending
<1>5. \A J \in Front : InTurn(t, J)
  BY <1>2 DEF DequeInv, DequeOf
<1>6. \A J \in Front : status[t][J] = "F"
  BY <1>1, EmptyIsDone
<1>7. \A J \in Front : InTurn(t, J)'
  BY <1>1, <1>3, <1>4, <1>5, <1>6 DEF InTurn
<1>8. Room(t)' /\ NoneTwice(t)'
  BY <1>1, <1>2 DEF DequeInv, DequeOf, Room, NoneTwice
<1> QED  BY <1>1, <1>6, <1>7, <1>8 DEF DequeOf

\* A front that is returned unfinished is put at the tail.
LEMMA DequeActive ==
  ASSUME Typed, DequeInv, NEW t \in Thread, ReturnActive(t)
  PROVE  DequeOf(t)' /\ deq'[t] \in Seq(Front)
<1> DEFINE d == deq[t]
           J0 == cur[t]
<1>1. d \in Seq(Front) /\ Len(d) \in Nat /\ J0 \in Front
  BY TypedFacts
<1>2. /\ pc[t] = "return" /\ CheckedOut(t) /\ phase[t] \in Solve /\ phase' = phase
      /\ status[t][J0] = "W" /\ pc'[t] = "pop" /\ ~CheckedOut(t)'
      /\ status' = status /\ nactiveChild' = nactiveChild /\ cur' = cur
  BY TypedFacts, LabelPhase DEF ReturnActive, CheckedOut, SolveLabels, Goto
<1>3. /\ Room(t) /\ \A J \in Front : InTurn(t, J)
      /\ \A i, j \in 1 .. Len(d) : d[i] = d[j] => i = j
  BY <1>2 DEF DequeInv, DequeOf, NoneTwice
<1>4. deq'[t] = Append(d, J0)
  <2>1. Len(d) < Capacity[phase[t]][t]
    BY <1>1, <1>2, <1>3, PathFacts DEF Room
  <2> QED  BY <2>1, TypedFacts DEF ReturnActive
<1>5. /\ Append(d, J0) \in Seq(Front) /\ Len(Append(d, J0)) = Len(d) + 1
      /\ \A i \in 1 .. Len(d) + 1 : Append(d, J0)[i] = IF i = Len(d) + 1 THEN J0 ELSE d[i]
  BY <1>1, AtTail
<1>6. \A J : (Taken(t, J) <=> J = J0) /\ ~Taken(t, J)'
  BY <1>2 DEF Taken
<1>7. ~InDeq(t, J0)
  BY <1>1, <1>3, <1>6 DEF InTurn
<1>8. ASSUME NEW J \in Front PROVE InDeq(t, J)' <=> InDeq(t, J) \/ J = J0
  <2> HIDE DEF d, J0
  <2>1. InDeq(t, J)' <=> \E i \in 1 .. Len(d) + 1 : Append(d, J0)[i] = J
    BY <1>4, <1>5 DEF InDeq
  <2>2. InDeq(t, J) <=> \E i \in 1 .. Len(d) : d[i] = J
    BY DEF InDeq, d
  <2>3. ASSUME NEW i \in 1 .. Len(d) + 1, Append(d, J0)[i] = J
        PROVE  J = J0 \/ \E k \in 1 .. Len(d) : d[k] = J
    <3>1. i = Len(d) + 1 \/ i \in 1 .. Len(d)
      BY <1>1
    <3> QED  BY <1>5, <2>3, <3>1
  <2>4. ASSUME NEW k \in 1 .. Len(d), d[k] = J
        PROVE  \E i \in 1 .. Len(d) + 1 : Append(d, J0)[i] = J
    <3>1. k \in 1 .. Len(d) + 1 /\ k # Len(d) + 1
      BY <1>1
    <3> QED  BY <1>5, <2>4, <3>1
  <2>5. Append(d, J0)[Len(d) + 1] = J0 /\ Len(d) + 1 \in 1 .. Len(d) + 1
    BY <1>1, <1>5
  <2> QED  BY <2>1, <2>2, <2>3, <2>4, <2>5
<1>9. \A J \in Front : Pending(t, J)' = Pending(t, J)
  <2>1. \A J \in Front : Before(t, J)' = Before(t, J)
    BY <1>2 DEF Before
  <2> QED  BY <1>2, <1>6, <2>1 DEF Pending
<1>10. ASSUME NEW J \in Front PROVE InTurn(t, J)'
  <2>1. InTurn(t, J) /\ InTurn(t, J0)
    BY <1>1, <1>3
  <2> HIDE DEF d, J0
  <2>2. CASE J = J0
    BY <2>1, <2>2, <1>2, <1>6, <1>8, <1>9 DEF InTurn
  <2>3. CASE J # J0
    BY <2>1, <2>3, <1>2, <1>6, <1>8, <1>9 DEF InTurn
  <2> QED  BY <2>2, <2>3
<1>11. NoneTwice(t)'
  <2> SUFFICES ASSUME NEW i \in 1 .. Len(d) + 1, NEW j \in 1 .. Len(d) + 1,
                      Append(d, J0)[i] = Append(d, J0)[j]
               PROVE  i = j
    BY <1>4, <1>5 DEF NoneTwice
  <2>1. \A k \in 1 .. Len(d) : d[k] # J0
    BY <1>7 DEF InDeq
  <2>2. /\ i = Len(d) + 1 \/ i \in 1 .. Len(d)
        /\ j = Len(d) + 1 \/ j \in 1 .. Len(d)
    BY <1>1
  <2> HIDE DEF d, J0
  <2>3. CASE i = Len(d) + 1 /\ j \in 1 .. Len(d)
    BY <1>1, <1>5, <2>1, <2>3
  <2>4. CASE j = Len(d) + 1 /\ i \in 1 .. Len(d)
    BY <1>1, <1>5, <2>1, <2>4
  <2>5. CASE i \in 1 .. Len(d) /\ j \in 1 .. Len(d)
    BY <1>1, <1>3, <1>5, <2>5
  <2> QED  BY <2>2, <2>3, <2>4, <2>5
<1>12. Room(t)'
  <2>1. Len(d) + 1 <= Capacity[phase[t]][t]
    BY <1>2, <1>3 DEF Room
  <2> QED  BY <1>1, <1>2, <1>4, <1>5, <2>1, PathFacts DEF Room
<1>13. ~LoopDone(t)'
  BY <1>2 DEF LoopDone
<1> QED  BY <1>4, <1>5, <1>10, <1>11, <1>12, <1>13 DEF DequeOf

\* What fits is loaded whole.
LEMMA FittingFits ==
  ASSUME NEW q \in Seq(Front), NEW room \in Int, Len(q) <= room
  PROVE  Fitting(q, room) = q
  BY DEF Fitting

\* A sequence of one front lists it.
LEMMA OneLists ==
  ASSUME NEW K \in Front
  PROVE  Lists(<<K>>, {K})
<1>1. Cardinality({K}) = 1
  BY FS_Singleton
<1>2. <<K>> \in Seq(Front) /\ Len(<<K>>) = 1 /\ <<K>>[1] = K
  OBVIOUS
<1>3. \A i \in 1 .. 1 : i = 1
  OBVIOUS
<1> QED  BY <1>1, <1>2, <1>3 DEF Lists

\* Forward, the parent follows the last of its children.
LEMMA DequeForward ==
  ASSUME Typed, DequeInv, NEW t \in Thread, ReturnForward(t)
  PROVE  DequeOf(t)' /\ deq'[t] \in Seq(Front)
<1>0. PICK J0 \in Front : J0 = cur[t]
  BY TypedFacts
<1> DEFINE d == deq[t]
           K0 == par[J0]
           n0 == nactiveChild[t][K0] - 1
           last == K0 # -1 /\ nactiveChild[t][K0] = 1
<1>1. /\ d \in Seq(Front) /\ Len(d) \in Nat /\ J0 \in Front /\ (K0 # -1 => K0 \in Front)
      /\ nactiveChild \in [Thread -> [Front -> Int]]
  <2>1. d \in Seq(Front) /\ J0 \in Front /\ nactiveChild \in [Thread -> [Front -> Int]]
    BY TypedFacts
  <2>2. K0 # -1 => K0 \in Front
    BY <2>1, TreeTypes
  <2> QED  BY <2>1, <2>2
<1>2. /\ pc[t] = "return" /\ CheckedOut(t) /\ phase[t] = "forward" /\ phase' = phase
      /\ status[t][J0] = "F" /\ pc'[t] = "pop" /\ ~CheckedOut(t)'
      /\ status' = status /\ cur' = cur /\ "forward" \in Solve
  BY <1>0, TypedFacts DEF ReturnForward, CheckedOut, Goto, Solve
<1> HIDE DEF d, K0, n0, last
<1>3. /\ Room(t) /\ \A J \in Front : InTurn(t, J)
      /\ \A i, j \in 1 .. Len(d) : d[i] = d[j] => i = j
  BY <1>2 DEF DequeInv, DequeOf, NoneTwice, d, Solve
<1>4. Len(d) + 1 <= Capacity["forward"][t] /\ Capacity["forward"][t] \in Nat
  BY <1>2, <1>3, <1>1, PathFacts DEF Room, d
<1>5. \A J : (Taken(t, J) <=> J = J0) /\ ~Taken(t, J)'
  BY <1>0, <1>2 DEF Taken
<1>6. J0 \in OnPath["forward"][t]
  BY <1>1, <1>2, <1>3, <1>5 DEF InTurn
<1>7. \A M \in Front : Before(t, M)' = Before(t, M) /\ (J0 \in Before(t, M) <=> M = K0)
  BY <1>1, <1>2, <1>6 DEF Before, Children, K0
<1>8. \A M \in Front : J0 \in Pending(t, M) <=> M = K0
  BY <1>5, <1>7 DEF Pending
<1>9. \A M \in Front : Pending(t, M)' = Pending(t, M) \ {J0}
  BY <1>2, <1>5, <1>7 DEF Pending
<1>10. \A M \in Front : nactiveChild'[t][M] = nactiveChild[t][M] - (IF M = K0 THEN 1 ELSE 0)
  <2>1. CASE K0 = -1
    <3>1. nactiveChild' = nactiveChild /\ \A M \in Front : M # K0
      BY <1>0, <2>1, TreeTypes DEF ReturnForward, K0
    <3> QED  BY <3>1, <1>1
  <2>2. CASE K0 # -1
    <3>1. nactiveChild' = [nactiveChild EXCEPT ![t][K0] = n0]
      BY <1>0, <2>2 DEF ReturnForward, K0, n0
    <3>2. K0 \in Front /\ n0 = nactiveChild[t][K0] - 1
      BY <2>2, <1>1 DEF n0
    <3>3. \A M \in Front : nactiveChild'[t][M] = IF M = K0 THEN n0 ELSE nactiveChild[t][M]
      BY <3>1, <3>2, <1>1
    <3> QED  BY <3>2, <3>3, <1>1
  <2> QED  BY <2>1, <2>2
<1>11. \A M \in Front : nactiveChild'[t][M] = Cardinality(Pending(t, M)')
  <2> SUFFICES ASSUME NEW M \in Front
               PROVE  nactiveChild'[t][M] = Cardinality(Pending(t, M) \ {J0})
    BY <1>9
  <2>1. nactiveChild[t][M] = Cardinality(Pending(t, M))
    BY <1>2, <1>3 DEF InTurn
  <2>2. IsFiniteSet(Pending(t, M)) /\ Cardinality(Pending(t, M)) \in Nat
    BY PendingFinite
  <2>3. CASE M = K0
    <3>1. J0 \in Pending(t, M)
      BY <2>3, <1>8
    <3>2. Cardinality(Pending(t, M) \ {J0}) = Cardinality(Pending(t, M)) - 1
      BY <2>2, <3>1, FS_RemoveElement
    <3> QED  BY <2>1, <2>3, <3>2, <1>10
  <2>4. CASE M # K0
    <3>1. Pending(t, M) \ {J0} = Pending(t, M)
      BY <2>4, <1>8
    <3> QED  BY <2>1, <2>2, <2>4, <3>1, <1>10
  <2> QED  BY <2>3, <2>4
<1>12. ~last => deq'[t] = d
  BY <1>0, <1>1 DEF ReturnForward, last, d, K0
<1>13. last => deq'[t] = <<K0>> \o d
  <2> SUFFICES ASSUME last PROVE deq'[t] = <<K0>> \o d
    OBVIOUS
  <2>1. deq' = [deq EXCEPT ![t] = Fitting(<<K0>>, Capacity[phase[t]][t] - Len(d)) \o d]
    BY <1>0 DEF ReturnForward, Push, last, d, K0
  <2>2. deq'[t] = Fitting(<<K0>>, Capacity["forward"][t] - Len(d)) \o d
    BY <2>1, <1>2, TypedFacts
  <2>3. K0 \in Front
    BY <1>1 DEF last
  <2>4. <<K0>> \in Seq(Front) /\ Len(<<K0>>) = 1
    BY <2>3
  <2>5. Capacity["forward"][t] - Len(d) \in Int /\ 1 <= Capacity["forward"][t] - Len(d)
    BY <1>1, <1>4
  <2>6. Fitting(<<K0>>, Capacity["forward"][t] - Len(d)) = <<K0>>
    BY <2>4, <2>5, FittingFits
  <2> QED  BY <2>2, <2>6
<1>14. ASSUME last
       PROVE  /\ K0 \in Front /\ K0 \in OnPath["forward"][t] /\ ~InDeq(t, K0)
              /\ status[t][K0] = "W" /\ K0 # J0 /\ Pending(t, K0)' = {}
  <2>1. K0 \in Front /\ K0 \in OnPath["forward"][t]
    BY <1>1, <1>2, <1>6, <1>14, PathFacts DEF last, K0
  <2>2. J0 \in Pending(t, K0) /\ InTurn(t, K0)
    BY <1>3, <1>8, <2>1
  <2>3. status[t][K0] = "W" /\ ~InDeq(t, K0)
    BY <2>1, <2>2, <1>2 DEF InTurn
  <2>4. Pending(t, K0)' = {}
    <3>1. nactiveChild'[t][K0] = 0
      BY <1>10, <1>14, <2>1 DEF last
    <3>2. Cardinality(Pending(t, K0)') = 0
      BY <3>1, <1>11, <2>1
    <3>3. IsFiniteSet(Pending(t, K0) \ {J0})
      BY <2>1, PendingFinite, FS_Subset
    <3>4. IsFiniteSet(Pending(t, K0)')
      BY <2>1, <1>9, <3>3
    <3> QED  BY <3>2, <3>4, FS_EmptySet
  <2>5. K0 # J0
    BY <2>3, <1>2
  <2> QED  BY <2>1, <2>3, <2>4, <2>5
<1>15. ~last => K0 = -1 \/ Pending(t, K0)' # {}
  <2> SUFFICES ASSUME K0 # -1, nactiveChild[t][K0] # 1, Pending(t, K0)' = {} PROVE FALSE
    BY DEF last
  <2>1. K0 \in Front
    BY <1>1
  <2>2. nactiveChild'[t][K0] = 0
    <3>1. nactiveChild'[t][K0] = Cardinality(Pending(t, K0)')
      BY <2>1, <1>11
    <3>2. Cardinality({}) = 0
      BY FS_EmptySet
    <3> QED  BY <3>1, <3>2
  <2>3. nactiveChild[t][K0] \in Int
    BY <2>1, <1>1
  <2> QED  BY <2>1, <2>2, <2>3, <1>10
<1>16. /\ deq'[t] \in Seq(Front)
       /\ Len(deq'[t]) = Len(d) + (IF last THEN 1 ELSE 0)
       /\ \A i, j \in 1 .. Len(deq'[t]) : deq'[t][i] = deq'[t][j] => i = j
       /\ \A J \in Front : InDeq(t, J)' <=> InDeq(t, J) \/ (last /\ J = K0)
  <2>0. \A J \in Front : InDeq(t, J) <=> J \in Members(d)
    BY DEF InDeq, Members, d
  <2>1. CASE ~last
    <3>1. deq'[t] = deq[t] /\ d = deq[t]
      BY <2>1, <1>12 DEF d
    <3>2. \A J \in Front : InDeq(t, J)' <=> InDeq(t, J)
      BY <3>1 DEF InDeq
    <3> QED  BY <3>1, <3>2, <2>1, <1>1, <1>3
  <2>2. CASE last
    <3>1. K0 \in Front /\ K0 \notin Members(d) /\ deq'[t] = <<K0>> \o d
      BY <2>2, <2>0, <1>13, <1>14
    <3>2. Lists(<<K0>>, {K0}) /\ Cardinality({K0}) = 1
      BY <3>1, OneLists, FS_Singleton
    <3>3. /\ <<K0>> \o d \in Seq(Front) /\ Len(<<K0>> \o d) = 1 + Len(d)
          /\ \A i, j \in 1 .. Len(<<K0>> \o d) : (<<K0>> \o d)[i] = (<<K0>> \o d)[j] => i = j
          /\ Members(<<K0>> \o d) = {K0} \cup Members(d)
      <4>1. {K0} \in SUBSET Front /\ {K0} \cap Members(d) = {}
        BY <3>1
      <4>2. /\ Len(<<K0>> \o d) = Cardinality({K0}) + Len(d)
            /\ <<K0>> \o d \in Seq(Front)
            /\ \A i, j \in 1 .. Len(<<K0>> \o d) :
                 (<<K0>> \o d)[i] = (<<K0>> \o d)[j] => i = j
            /\ Members(<<K0>> \o d) = {K0} \cup Members(d)
        BY <3>2, <4>1, <1>1, <1>3, Joined
      <4> QED  BY <3>2, <4>2
    <3>4. \A J \in Front : InDeq(t, J)' <=> J \in Members(<<K0>> \o d)
      BY <3>1 DEF InDeq, Members
    <3>5. \A J \in Front : InDeq(t, J)' <=> InDeq(t, J) \/ J = K0
      BY <2>0, <3>3, <3>4
    <3> QED  BY <1>1, <2>2, <3>1, <3>3, <3>5
  <2> QED  BY <2>1, <2>2
<1>17. ASSUME NEW J \in Front PROVE InTurn(t, J)'
  <2>1. InTurn(t, J) /\ InTurn(t, J0)
    BY <1>1, <1>3
  <2>2. nactiveChild'[t][J] = Cardinality(Pending(t, J)') /\ phase'[t] = "forward"
    BY <1>2, <1>11
  <2>3. CASE J = J0
    <3>1. Pending(t, J) = {} /\ J # K0
      BY <2>1, <2>3, <1>5, <1>8 DEF InTurn
    <3> QED  BY <2>1, <2>2, <2>3, <3>1, <1>2, <1>5, <1>9, <1>14, <1>16 DEF InTurn
  <2>4. CASE J # J0 /\ J # K0
    <3>1. Pending(t, J)' = Pending(t, J)
      BY <2>4, <1>8, <1>9
    <3> QED  BY <2>1, <2>2, <2>4, <3>1, <1>2, <1>5, <1>14, <1>16 DEF InTurn
  <2>5. CASE J = K0
    <3>1. J0 \in Pending(t, J) /\ J \in OnPath["forward"][t]
      <4>1. \A M \in OnPath["forward"][t] : par[M] # -1 => par[M] \in OnPath["forward"][t]
        BY <1>2, PathFacts
      <4> QED  BY <4>1, <2>5, <1>6, <1>8, TreeTypes DEF K0
    <3>2. status[t][J] = "W" /\ ~InDeq(t, J) /\ ~Taken(t, J)
      BY <2>1, <3>1, <1>2 DEF InTurn
    <3>3. K0 # -1
      BY <2>5, TreeTypes
    <3>4. last => InDeq(t, J)' /\ Pending(t, J)' = {}
      BY <2>5, <1>14, <1>16
    <3>5. ~last => ~InDeq(t, J)' /\ Pending(t, J)' # {}
      BY <2>5, <3>2, <3>3, <1>15, <1>16
    <3> QED  BY <2>2, <3>1, <3>2, <3>4, <3>5, <1>2, <1>5 DEF InTurn
  <2> QED  BY <2>3, <2>4, <2>5
<1>18. Room(t)' /\ NoneTwice(t)'
  <2>1. Len(deq'[t]) <= Len(d) + 1 /\ Len(deq'[t]) \in Nat
    BY <1>1, <1>16
  <2> QED  BY <2>1, <1>1, <1>2, <1>4, <1>16 DEF Room, NoneTwice
<1>19. ~LoopDone(t)'
  BY <1>2 DEF LoopDone, Solve
<1> QED  BY <1>16, <1>17, <1>18, <1>19 DEF DequeOf

-----------------------------------------------------------------------------
(* Backward                                                                *)

\* Above a front that has its turn in the backward solve, all is done.
LEMMA DoneAbove ==
  ASSUME Typed, DequeInv, NEW t \in Thread, phase[t] = "backward",
         NEW J \in Front, InDeq(t, J) \/ Taken(t, J)
  PROVE  \A K \in Ancestors[J] : status[t][K] = "F" /\ ~Taken(t, K)
<1> DEFINE S == {K \in Ancestors[J] : status[t][K] = "F" /\ ~Taken(t, K)}
<1>0. \A K \in Front : /\ Before(t, K) = {par[K]} \cap Front
                       /\ status[t][K] \in {"W", "F"} /\ InTurn(t, K)
  BY TypedFacts DEF Before, DequeInv, DequeOf, Solve
<1>1. Ancestors[J] \in SUBSET Front /\ S \in SUBSET Front
  BY AncestorFacts
<1>2. ASSUME NEW M \in Front, par[M] # -1, Pending(t, M) = {}
      PROVE  status[t][par[M]] = "F" /\ ~Taken(t, par[M])
  <2>1. par[M] \in Front /\ par[M] \in Before(t, M)
    BY <1>0, <1>2, TreeTypes
  <2> QED  BY <2>1, <1>0, <1>2 DEF Pending
<1>3. J \in OnPath["backward"][t] /\ Pending(t, J) = {}
  BY <1>0 DEF InTurn
<1>4. \A K \in Ancestors[J] : K \in OnPath["backward"][t]
  <2>1. \A M \in OnPath["backward"][t] : par[M] # -1 => par[M] \in OnPath["backward"][t]
    BY PathFacts DEF Solve
  <2>2. OnPath["backward"][t] \in SUBSET Front
    BY PathFacts DEF Solve
  <2> QED  BY <1>3, <2>1, <2>2, AncestorFacts
<1>5. par[J] # -1 => par[J] \in S
  BY <1>2, <1>3, AncestorFacts
<1>6. ASSUME NEW M \in S, par[M] # -1 PROVE par[M] \in S
  <2>1. M \in Front /\ M \in Ancestors[J] /\ status[t][M] = "F"
    BY <1>1
  <2>2. Pending(t, M) = {}
    BY <2>1, <1>0, <1>4 DEF InTurn
  <2> QED  BY <2>1, <2>2, <1>2, <1>6, AncestorFacts
<1>7. Ancestors[J] \subseteq S
  <2> HIDE DEF S
  <2> QED  BY <1>1, <1>5, <1>6, AncestorFacts
<1> QED  BY <1>7

\* There is room for all waiting children: none of them and of the fronts in
\* the dequeue is above another.
LEMMA DequeBackward ==
  ASSUME Typed, DequeInv, NEW t \in Thread, ReturnBackward(t)
  PROVE  DequeOf(t)' /\ deq'[t] \in Seq(Front)
<1> DEFINE d == deq[t]
           J0 == cur[t]
           S == {I \in Children(J0) : status[t][I] = "W"}
<1>1. d \in Seq(Front) /\ Len(d) \in Nat /\ J0 \in Front
  BY TypedFacts
<1>2. /\ pc[t] = "return" /\ CheckedOut(t) /\ phase[t] = "backward" /\ phase' = phase
      /\ status[t][J0] = "F" /\ pc'[t] = "pop" /\ ~CheckedOut(t)'
      /\ status' = status /\ cur' = cur /\ "backward" \in Solve
  BY TypedFacts DEF ReturnBackward, CheckedOut, Goto, Solve
<1>3. /\ Room(t) /\ \A J \in Front : InTurn(t, J)
      /\ \A i, j \in 1 .. Len(d) : d[i] = d[j] => i = j
  BY <1>2 DEF DequeInv, DequeOf, NoneTwice
<1>4. \A J : (Taken(t, J) <=> J = J0) /\ ~Taken(t, J)'
  BY <1>2 DEF Taken
<1>5. \A J \in Front : InDeq(t, J) <=> J \in Members(d)
  BY DEF InDeq, Members
<1>6. S \in SUBSET Front /\ \A I \in S : par[I] = J0
  BY DEF Children
<1>7. \A M \in Front : /\ Before(t, M)' = Before(t, M)
                       /\ J0 \in Pending(t, M) <=> par[M] = J0
                       /\ par[M] = J0 => Pending(t, M) = {J0}
                       /\ Pending(t, M)' = Pending(t, M) \ {J0}
  <2>1. \A M \in Front : /\ Before(t, M)' = Before(t, M)
                         /\ Before(t, M) = {par[M]} \cap Front
    BY <1>2 DEF Before
  <2> HIDE DEF J0
  <2> QED  BY <2>1, <1>1, <1>2, <1>4 DEF Pending
<1>8. S \cap Members(d) = {}
  <2> SUFFICES ASSUME NEW I \in S, I \in Members(d) PROVE FALSE
    OBVIOUS
  <2>1. I \in Front /\ InDeq(t, I) /\ Pending(t, I) = {J0}
    BY <1>5, <1>6, <1>7
  <2> QED  BY <2>1, <1>3 DEF InTurn
<1>9. S \cup Members(d) \in SUBSET OnPath["backward"][t]
  <2>1. \A I \in S : I \in OnPath["backward"][t]
    BY <1>2, <1>3, <1>6 DEF InTurn
  <2>2. \A I \in Members(d) : I \in OnPath["backward"][t]
    BY <1>2, <1>3, <1>5 DEF InTurn, Members
  <2> QED  BY <2>1, <2>2
<1>10. Apart(S \cup Members(d))
  <2> SUFFICES ASSUME NEW I \in S \cup Members(d), NEW K \in S \cup Members(d),
                      K \in Ancestors[I]
               PROVE  FALSE
    BY DEF Apart
  <2>1. I \in Front /\ K \in Front
    BY <1>6 DEF Members
  <2>2. status[t][K] = "W"
    BY <2>1, <1>3, <1>5 DEF InTurn
  <2>3. CASE I \in Members(d)
    BY <2>1, <2>2, <2>3, <1>2, <1>5, DoneAbove
  <2>4. CASE I \in S
    <3>1. Ancestors[I] = {J0} \cup Ancestors[J0]
      BY <2>1, <2>4, <1>1, <1>6, TreeTypes, AncestorsClimb
    <3>2. \A M \in Ancestors[J0] : status[t][M] = "F"
      BY <1>1, <1>2, <1>4, DoneAbove
    <3> QED  BY <2>2, <3>1, <3>2, <1>2
  <2> QED  BY <2>3, <2>4
<1>11. PICK q \in Seqs!SetToSeqs(S) : Push(t, q)
  BY DEF ReturnBackward
<1>12. Lists(q, S)
  <2> HIDE DEF S
  <2> QED  BY <1>6, SetToSeqsLists
<1> HIDE DEF S, d, J0
<1>13. /\ q \o d \in Seq(Front) /\ Len(q \o d) = Cardinality(S) + Len(d)
       /\ Cardinality(S) \in Nat /\ Len(q) = Cardinality(S)
       /\ \A i, j \in 1 .. Len(q \o d) : (q \o d)[i] = (q \o d)[j] => i = j
       /\ Members(q \o d) = S \cup Members(d)
       /\ Cardinality(S \cup Members(d)) = Cardinality(S) + Len(d)
  BY <1>1, <1>3, <1>6, <1>8, <1>12, Joined
<1>14. /\ Cardinality(S) + Len(d) <= Capacity["backward"][t]
       /\ Capacity["backward"][t] \in Nat
  BY <1>2, <1>9, <1>10, <1>13, ApartFits, PathFacts
<1>15. deq'[t] = q \o d
  <2>1. deq'[t] = Fitting(q, Capacity["backward"][t] - Len(d)) \o d
    BY <1>2, <1>11, TypedFacts DEF Push, d
  <2>2. Fitting(q, Capacity["backward"][t] - Len(d)) = q
    BY <1>1, <1>12, <1>13, <1>14, FittingFits DEF Lists
  <2> QED  BY <2>1, <2>2
<1>16. \A J \in Front : InDeq(t, J)' <=> InDeq(t, J) \/ J \in S
  <2>1. \A J \in Front : InDeq(t, J)' <=> J \in Members(q \o d)
    BY <1>15 DEF InDeq, Members
  <2> QED  BY <2>1, <1>5, <1>13
<1>17. ASSUME NEW J \in Front PROVE InTurn(t, J)'
  <2>1. InTurn(t, J)
    BY <1>3
  <2>2. phase'[t] = "backward" /\ status[t][J] \in {"W", "F"} /\ status' = status
    BY <1>2, TypedFacts
  <2>3. CASE par[J] = J0
    <3>1. Pending(t, J) = {J0} /\ Pending(t, J)' = {}
      BY <2>3, <1>7
    <3>2. J \in S <=> status[t][J] = "W"
      BY <2>3 DEF S, Children
    <3>3. ~InDeq(t, J)
      BY <2>1, <3>1 DEF InTurn
    <3> QED  BY <2>1, <2>2, <3>1, <3>2, <3>3, <1>2, <1>4, <1>9, <1>16 DEF InTurn
  <2>4. CASE par[J] # J0
    <3>1. Pending(t, J)' = Pending(t, J) /\ J \notin S
      BY <2>4, <1>6, <1>7
    <3>2. J = J0 => status[t][J] = "F" /\ Pending(t, J) = {}
      BY <2>1, <1>2, <1>4 DEF J0, InTurn
    <3> QED  BY <2>1, <2>2, <3>1, <3>2, <1>2, <1>4, <1>16 DEF InTurn
  <2> QED  BY <2>3, <2>4
<1>18. Room(t)' /\ NoneTwice(t)'
  BY <1>1, <1>2, <1>13, <1>14, <1>15 DEF Room, NoneTwice
<1>19. ~LoopDone(t)'
  BY <1>2 DEF LoopDone
<1> QED  BY <1>13, <1>15, <1>17, <1>18, <1>19 DEF DequeOf

\* A thread that begins a solve with the fronts nothing lies before in its
\* dequeue.
LEMMA DequeBegins ==
  ASSUME NEW t \in Thread, NEW s \in Solve, phase[t] = s, ~CheckedOut(t), pc[t] # "barrier",
         \A J \in Front : status[t][J] = IF J \in OnPath[s][t] THEN "W" ELSE "F",
         s = "forward" => \A J \in Front : nactiveChild[t][J] = ChildrenOnPath(t, J),
         s = "forward" => deq[t] \in LoadedLeaves(t),
         s = "backward" => deq[t] \in LoadedRoots(t)
  PROVE  DequeOf(t) /\ deq[t] \in Seq(Front)
<1> DEFINE S == IF s = "forward" THEN Leaves(t) ELSE ActiveRoots(t)
<1>1. s \in {"forward", "backward"}
  BY DEF Solve
<1>2. Lists(deq[t], S) /\ Cardinality(S) <= Capacity[s][t]
  BY <1>1, DequesLoaded
<1>3. \A J \in Front : ~Taken(t, J)
  BY DEF Taken
<1>4. \A J \in Front : InDeq(t, J) <=> J \in S
  BY <1>2 DEF Lists, InDeq
<1>5. \A J \in Front : Pending(t, J) = {I \in Before(t, J) : I \in OnPath[s][t]}
  <2>1. \A J \in Front : Before(t, J) \in SUBSET Front
    BY PendingFinite
  <2> QED  BY <1>3, <2>1 DEF Pending
<1>6. \A J \in Front : J \in S <=> J \in OnPath[s][t] /\ Pending(t, J) = {}
  <2> SUFFICES ASSUME NEW J \in Front
               PROVE  J \in S <=> J \in OnPath[s][t] /\ Pending(t, J) = {}
    OBVIOUS
  <2>1. CASE s = "forward"
    <3>1. Pending(t, J) = Children(J) \cap OnPath["forward"][t]
      BY <2>1, <1>5 DEF Before
    <3> QED  BY <2>1, <3>1 DEF Leaves
  <2>2. CASE s = "backward"
    <3>1. Pending(t, J) = {par[J]} \cap Front \cap OnPath["backward"][t]
      BY <2>2, <1>5 DEF Before
    <3>2. OnPath["backward"][t] \in SUBSET Front
          /\ \A K \in OnPath["backward"][t] : par[K] # -1 => par[K] \in OnPath["backward"][t]
      BY PathFacts DEF Solve
    <3>3. J \in S <=> par[J] = -1 /\ J \in OnPath["backward"][t]
      BY <2>2 DEF ActiveRoots, Roots
    <3> HIDE DEF S
    <3> QED  BY <2>2, <3>1, <3>2, <3>3, TreeTypes
  <2> QED  BY <1>1, <2>1, <2>2
<1>7. s = "forward" => \A J \in Front : nactiveChild[t][J] = Cardinality(Pending(t, J))
  <2> SUFFICES ASSUME s = "forward", NEW J \in Front
               PROVE  nactiveChild[t][J] = Cardinality(Pending(t, J))
    OBVIOUS
  <2>1. Pending(t, J) = Children(J) \cap OnPath["forward"][t]
    BY <1>5 DEF Before
  <2> QED  BY <2>1 DEF ChildrenOnPath
<1> HIDE DEF S
<1>8. \A J \in Front : InTurn(t, J)
  BY <1>3, <1>4, <1>6, <1>7 DEF InTurn
<1>9. Room(t) /\ NoneTwice(t)
  BY <1>2 DEF Room, NoneTwice, Lists
<1>10. ~LoopDone(t)
  BY DEF LoopDone
<1> QED  BY <1>2, <1>8, <1>9, <1>10 DEF DequeOf, Lists

\* The backward loop begins with the active roots.
LEMMA DequeToBackward ==
  ASSUME Typed, NEW t \in Thread, ToBackward(t)
  PROVE  DequeOf(t)' /\ deq'[t] \in Seq(Front)
<1>1. /\ phase'[t] = "backward" /\ pc'[t] = "pop"
      /\ deq'[t] \in LoadedRoots(t)
      /\ \A J \in Front : status'[t][J] = IF J \in OnPath["backward"][t] THEN "W" ELSE "F"
  <2>1. PICK roots \in LoadedRoots(t) : deq' = [deq EXCEPT ![t] = roots]
    BY DEF ToBackward
  <2>2. deq'[t] = roots
    BY <2>1, TypedFacts
  <2> QED  BY <2>2, TypedFacts DEF ToBackward, Goto
<1>2. ~CheckedOut(t)'
  BY <1>1 DEF CheckedOut
<1>3. ASSUME NEW s \in Solve, s = "backward"
      PROVE  (/\ phase[t] = s /\ ~CheckedOut(t) /\ pc[t] # "barrier"
              /\ \A J \in Front : status[t][J] = IF J \in OnPath[s][t] THEN "W" ELSE "F"
              /\ s = "forward" => \A J \in Front : nactiveChild[t][J] = ChildrenOnPath(t, J)
              /\ s = "forward" => deq[t] \in LoadedLeaves(t)
              /\ s = "backward" => deq[t] \in LoadedRoots(t)
              => DequeOf(t) /\ deq[t] \in Seq(Front))'
  BY DequeBegins, PTL
<1> QED  BY <1>1, <1>2, <1>3 DEF Solve

\* The forward loop begins with the leaves.
LEMMA DequeInit ==
  ASSUME Init
  PROVE  PathTypes /\ DequeInv
<1>1. ASSUME NEW t \in Thread PROVE DequeOf(t) /\ deq[t] \in Seq(Front)
  <2>1. /\ phase[t] = "forward" /\ pc[t] = "pop"
        /\ deq[t] \in LoadedLeaves(t)
        /\ \A J \in Front : status[t][J] = IF J \in OnPath["forward"][t] THEN "W" ELSE "F"
        /\ \A J \in Front : nactiveChild[t][J] = ChildrenOnPath(t, J)
    BY DEF Init
  <2>2. ~CheckedOut(t)
    BY <2>1 DEF CheckedOut
  <2> QED  BY <2>1, <2>2, DequeBegins DEF Solve
<1>2. 0 \in Front
  BY TreeAssumption DEF Front
<1>3. cur \in [Thread -> Front] /\ src \in [Thread -> Front]
      /\ status \in [Thread -> [Front -> {"W", "F"}]]
  BY <1>2 DEF Init
<1>4. nactiveChild \in [Thread -> [Front -> Int]]
  <2>1. \A t \in Thread : \A K \in Front : ChildrenOnPath(t, K) \in Int
    <3> SUFFICES ASSUME NEW t \in Thread, NEW K \in Front PROVE ChildrenOnPath(t, K) \in Int
      OBVIOUS
    <3>1. Children(K) \cap OnPath["forward"][t] \in SUBSET Front
      BY DEF Children
    <3>2. IsFiniteSet(Children(K) \cap OnPath["forward"][t])
      BY <3>1, TreeTypes, FS_Subset
    <3>3. Cardinality(Children(K) \cap OnPath["forward"][t]) \in Nat
      BY <3>2, FS_CardinalityType
    <3> QED  BY <3>3 DEF ChildrenOnPath
  <2> QED  BY <2>1 DEF Init
<1>5. deq \in [Thread -> Seq(Front)]
  <2>1. DOMAIN deq = Thread
    BY DEF Init
  <2>2. deq = [t \in Thread |-> deq[t]]
    BY DEF Init
  <2> QED  BY <1>1, <2>2
<1> QED  BY <1>1, <1>3, <1>4, <1>5 DEF PathTypes, DequeInv

\* The steps outside the loops of the solves.
LEMMA DequeElsewhere ==
  ASSUME Typed, DequeInv, NEW t \in Thread, Worker(t), ~ToBackward(t),
         pc[t] \notin SolveLabels
  PROVE  DequeOf(t)' /\ deq'[t] \in Seq(Front)
<1>1. \/ ToDiagonal(t) \/ ToStore(t) \/ DiagonalSolve(t) \/ DiagonalMove(t)
      \/ DiagonalSignal(t) \/ DiagonalReset(t) \/ DiagonalEnd(t) \/ Copy(t) \/ CopyEnd(t)
  BY DEF Worker, SolveLabels, VisitLabels, Pop, Exhausted, ReturnForward, ReturnBackward,
     ReturnActive, VisitEmpty, PassThrough, VisitFront, UpdateReady, UpdateWaits, Apply, Link,
     Store, Decrement, Poll, Load, Assemble, Count, Publish, Signal
<1>2. status' = status /\ deq' = deq
  BY <1>1 DEF ToDiagonal, ToStore, DiagonalSolve, DiagonalMove, DiagonalSignal,
     DiagonalReset, DiagonalEnd, Copy, CopyEnd, pathVars
<1>3. LoopDone(t) /\ phase'[t] \notin Solve
  <2>1. CASE ToDiagonal(t) \/ ToStore(t)
    BY <2>1, TypedFacts DEF ToDiagonal, ToStore, LoopDone, Solve
  <2>2. CASE Copy(t) \/ CopyEnd(t)
    BY <2>2, LabelPhase, TypedFacts DEF Copy, CopyEnd, StoreLabels, LoopDone, Solve
  <2>3. CASE DiagonalSolve(t) \/ DiagonalMove(t) \/ DiagonalSignal(t) \/ DiagonalReset(t)
             \/ DiagonalEnd(t)
    <3>1. pc[t] \in DiagonalLabels /\ phase' = phase
      BY <2>3 DEF DiagonalSolve, DiagonalMove, DiagonalSignal, DiagonalReset, DiagonalEnd,
         DiagonalLabels, MoveLabels
    <3> QED  BY <3>1, LabelPhase, TypedFacts DEF LoopDone, Solve
  <2> QED  BY <1>1, <2>1, <2>2, <2>3
<1>4. DequeOf(t) /\ deq[t] \in Seq(Front)
  BY TypedFacts DEF DequeInv
<1> QED  BY <1>2, <1>3, <1>4 DEF DequeOf

\* DequeOf speaks of the variables of one thread.
LEMMA DequeSame ==
  ASSUME NEW u \in Thread, DequeOf(u),
         pc'[u] = pc[u] /\ phase'[u] = phase[u] /\ cur'[u] = cur[u],
         status'[u] = status[u] /\ nactiveChild'[u] = nactiveChild[u] /\ deq'[u] = deq[u]
  PROVE  DequeOf(u)'
<1>2. /\ CheckedOut(u)' <=> CheckedOut(u)
      /\ \A J : Taken(u, J)' <=> Taken(u, J)
      /\ \A J : InDeq(u, J)' <=> InDeq(u, J)
      /\ \A J : Before(u, J)' = Before(u, J)
  BY DEF CheckedOut, Taken, InDeq, Before
<1>3. \A J : Pending(u, J)' = Pending(u, J)
  BY <1>2 DEF Pending
<1>4. \A J \in Front : InTurn(u, J) => InTurn(u, J)'
  BY <1>2, <1>3 DEF InTurn
<1>5. (Room(u) => Room(u)') /\ (NoneTwice(u) => NoneTwice(u)') /\ (LoopDone(u)' <=> LoopDone(u))
  BY <1>2 DEF Room, NoneTwice, LoopDone
<1> QED  BY <1>4, <1>5 DEF DequeOf

\* Every step keeps the dequeues of all threads.
LEMMA DequeStep ==
  ASSUME Typed, DequeInv, NEW t \in Thread, Worker(t)
  PROVE  PathTypes' /\ DequeInv'
<1>1. DequeOf(t)' /\ deq'[t] \in Seq(Front)
  <2>1. CASE pc[t] \in SolveLabels \ {"pop", "return"}
    BY <2>1, DequeVisit
  <2>2. CASE pc[t] = "pop"
    <3>1. Pop(t) \/ Exhausted(t)
      BY <2>2 DEF Worker, ReturnForward, ReturnBackward, ReturnActive, VisitEmpty,
         PassThrough, VisitFront, UpdateReady, UpdateWaits, Apply, Link, Store, Decrement,
         Poll, Load, Assemble, Count, Publish, Signal, ToDiagonal, DiagonalSolve,
         DiagonalMove, DiagonalSignal, DiagonalReset, DiagonalEnd, ToBackward, ToStore,
         Copy, CopyEnd
    <3> QED  BY <3>1, DequePop, DequeExhausted
  <2>3. CASE pc[t] = "return"
    <3>1. ReturnForward(t) \/ ReturnBackward(t) \/ ReturnActive(t)
      BY <2>3 DEF Worker, Pop, Exhausted, VisitEmpty,
         PassThrough, VisitFront, UpdateReady, UpdateWaits, Apply, Link, Store, Decrement,
         Poll, Load, Assemble, Count, Publish, Signal, ToDiagonal, DiagonalSolve,
         DiagonalMove, DiagonalSignal, DiagonalReset, DiagonalEnd, ToBackward, ToStore,
         Copy, CopyEnd
    <3> QED  BY <3>1, DequeForward, DequeBackward, DequeActive
  <2>4. CASE pc[t] \notin SolveLabels
    BY <2>4, DequeElsewhere, DequeToBackward
  <2> QED  BY <2>1, <2>2, <2>3, <2>4
<1>2. ASSUME NEW u \in Thread, u # t PROVE DequeOf(u)' /\ deq'[u] \in Seq(Front)
  <2>1. SamePath(u) /\ SameThread(u)
    BY <1>2, OthersPaths
  <2>6. DequeOf(u) /\ deq[u] \in Seq(Front)
    BY TypedFacts DEF DequeInv
  <2> QED  BY <2>1, <2>6, DequeSame DEF SamePath, SameThread
<1>3. ThreadTypes'
  BY ThreadTypesStep
<1>4. deq' \in [Thread -> Seq(Front)]
  <2>1. DOMAIN deq' = Thread /\ deq' = [u \in Thread |-> deq'[u]]
    <3>1. deq \in [Thread -> Seq(Front)]
      BY TypedFacts
    <3>2. deq' = deq \/ \E d : deq' = [deq EXCEPT ![t] = d]
      <4>1. CASE Pop(t)
        BY <4>1 DEF Pop
      <4>2. CASE ReturnForward(t)
        BY <4>2 DEF ReturnForward, Push
      <4>3. CASE ReturnBackward(t)
        BY <4>3 DEF ReturnBackward, Push
      <4>4. CASE ReturnActive(t)
        BY <4>4 DEF ReturnActive
      <4>5. CASE ToBackward(t)
        BY <4>5 DEF ToBackward
      <4> QED  BY <4>1, <4>2, <4>3, <4>4, <4>5, WhoElse
    <3> QED  BY <3>1, <3>2
  <2>2. \A u \in Thread : deq'[u] \in Seq(Front)
    BY <1>1, <1>2
  <2> QED  BY <2>1, <2>2
<1>5. DequeInv'
  BY <1>1, <1>2 DEF DequeInv
<1> QED  BY <1>3, <1>4, <1>5 DEF ThreadTypes, PathTypes

\* PathInv holds initially,
LEMMA PathInit == Init => PathInv
  BY ReadInit, DequeInit DEF PathInv

\* and every step keeps it.
LEMMA PathNext == PathInv /\ [Next]_vars => PathInv'
<1> SUFFICES ASSUME PathInv, [Next]_vars PROVE PathInv'
  OBVIOUS
<1>1. ReadInv'
  BY ReadNext DEF PathInv
<1>2. ASSUME NEW t \in Thread, Worker(t) PROVE (PathTypes /\ DequeInv)'
  BY <1>2, DequeStep DEF PathInv, Typed
<1>3. CASE UNCHANGED <<pc, phase, cur, src, status, nactiveChild, deq>>
  <2>1. PathTypes'
    BY <1>3 DEF PathInv, PathTypes
  <2>2. DequeInv'
    <3> SUFFICES ASSUME NEW u \in Thread PROVE DequeOf(u)'
      BY DEF DequeInv
    <3>1. DequeOf(u)
      BY DEF PathInv, DequeInv
    <3> QED  BY <1>3, <3>1, DequeSame
  <2> QED  BY <1>1, <2>1, <2>2 DEF PathInv
<1>4. \/ \E t \in Thread : Worker(t)
      \/ UNCHANGED <<pc, phase, cur, src, status, nactiveChild, deq>>
  BY DEF Next, Join, Returned, vars, pathVars, gatherVars
<1> QED  BY <1>1, <1>2, <1>3, <1>4 DEF PathInv

\* NoFrontIsDropped: neither loop ever meets a full dequeue, and every front
\* of a thread's paths that is not finished is in its dequeue, is being
\* visited, or waits for another one of the thread's fronts.
THEOREM PathsCorrect == Spec => []NoFrontIsDropped
<1>1. PathInv => NoFrontIsDropped
  <2> SUFFICES ASSUME PathInv, NEW t \in Thread, phase[t] \in Solve
      PROVE /\ Len(deq[t]) + (IF CheckedOut(t) THEN 1 ELSE 0) <= Capacity[phase[t]][t]
            /\ \A J \in Front : status[t][J] = "W" =>
                 \/ \E i \in 1 .. Len(deq[t]) : deq[t][i] = J
                 \/ CheckedOut(t) /\ cur[t] = J
                 \/ \E I \in Before(t, J) : status[t][I] = "W" \/ (CheckedOut(t) /\ cur[t] = I)
    BY DEF NoFrontIsDropped
  <2>1. Room(t) /\ \A J \in Front : InTurn(t, J)
    BY DEF PathInv, DequeInv, DequeOf
  <2>2. \A J \in Front : status[t][J] = "W" => InDeq(t, J) \/ Taken(t, J) \/ Pending(t, J) # {}
    BY <2>1 DEF InTurn
  <2>3. \A J \in Front : status[t][J] = "W" =>
          InDeq(t, J) \/ Taken(t, J) \/ \E I \in Before(t, J) : status[t][I] = "W" \/ Taken(t, I)
    BY <2>2 DEF Pending
  <2> QED  BY <2>1, <2>3 DEF Room, InDeq, Taken
<1> QED  BY PathInit, PathNext, <1>1, PTL DEF Spec

-----------------------------------------------------------------------------
(* What a thread has in hand                                               *)

\* A step of a loop outside the gathering of contributions leaves them alone.
LEMMA InHandStep ==
  ASSUME Typed, NEW t \in Thread, Worker(t), NEW J \in Front
  PROVE  InHand(t, J)' = IF ToBackward(t) THEN OwnSources("backward", t, J)
                         ELSE IF Apply(t) /\ cur[t] = J THEN heads[t][J] \cup todo[t]
                         ELSE InHand(t, J)
<1>0. /\ pc \in [Thread -> Labels] /\ cur \in [Thread -> Front] /\ src \in [Thread -> Front]
      /\ todo \in [Thread -> SUBSET Front] /\ heads \in [Thread -> [Front -> SUBSET Nonempty]]
  BY TypedFacts
<1>1. CASE ToBackward(t)
  <2>1. heads'[t][J] = OwnSources("backward", t, J) /\ pc'[t] = "pop"
    BY <1>0, <1>1 DEF ToBackward, Goto
  <2> QED  BY <1>1, <2>1 DEF InHand, Gathering
<1>2. CASE VisitFront(t)
  <2>1. /\ heads' = [heads EXCEPT ![t][cur[t]] = {}] /\ todo' = [todo EXCEPT ![t] = heads[t][cur[t]]]
        /\ cur' = cur /\ pc[t] = "visit"
        /\ pc'[t] = "update" \/ (heads[t][cur[t]] = {} /\ pc'[t] \notin {"update", "apply"})
        /\ pc'[t] # "apply"
    BY <1>0, <1>2 DEF VisitFront, Waiting, Goto, AfterUpdates
  <2>2. cur[t] \in Front
    BY <1>0
  <2>3. \A K \in Front : heads'[t][K] = IF K = cur[t] THEN {} ELSE heads[t][K]
    BY <1>0, <2>1, <2>2
  <2>4. todo'[t] = heads[t][cur[t]]
    BY <1>0, <2>1
  <2>5. ~Apply(t) /\ ~ToBackward(t)
    BY <2>1 DEF Apply, ToBackward
  <2> QED  BY <2>1, <2>3, <2>4, <2>5 DEF InHand, Gathering
<1>3. CASE UpdateReady(t)
  <2>1. PICK I \in todo[t] : src' = [src EXCEPT ![t] = I] /\ todo' = [todo EXCEPT ![t] = @ \ {I}]
    BY <1>3 DEF UpdateReady
  <2>2. /\ heads' = heads /\ cur' = cur /\ pc[t] = "update" /\ pc'[t] = "apply"
        /\ src'[t] = I /\ todo'[t] = todo[t] \ {I}
    BY <1>0, <1>3, <2>1 DEF UpdateReady, Goto
  <2>3. ~Apply(t) /\ ~ToBackward(t)
    BY <2>2 DEF Apply, ToBackward
  <2>4. todo[t] = todo'[t] \cup {I}
    BY <2>2
  <2> QED  BY <2>2, <2>3, <2>4 DEF InHand, Gathering
<1>4. CASE UpdateWaits(t)
  <2>1. PICK I \in todo[t] : /\ heads' = [heads EXCEPT ![t][cur[t]] = @ \cup {I}]
                             /\ todo' = [todo EXCEPT ![t] = @ \ {I}]
    BY <1>4 DEF UpdateWaits
  <2>2. /\ cur' = cur /\ pc[t] = "update" /\ todo'[t] = todo[t] \ {I} /\ pc'[t] # "apply"
        /\ pc'[t] = "update" \/ (todo'[t] = {} /\ pc'[t] # "update")
    BY <1>0, <1>4, <2>1 DEF UpdateWaits, Goto, AfterUpdates
  <2>3. \A K \in Front : heads'[t][K] = IF K = cur[t] THEN heads[t][K] \cup {I} ELSE heads[t][K]
    BY <1>0, <2>1
  <2>4. ~Apply(t) /\ ~ToBackward(t)
    BY <2>2 DEF Apply, ToBackward
  <2>5. todo[t] = todo'[t] \cup {I}
    BY <2>2
  <2> QED  BY <2>2, <2>3, <2>4, <2>5 DEF InHand, Gathering
<1>5. CASE Apply(t)
  <2>1. /\ heads' = heads /\ todo' = todo /\ cur' = cur /\ pc[t] = "apply"
        /\ pc'[t] = "update" \/ (todo[t] = {} /\ pc'[t] \notin {"update", "apply"})
        /\ pc'[t] # "apply"
    BY <1>0, <1>5 DEF Apply, Goto, AfterUpdates, gatherVars
  <2>2. ~ToBackward(t)
    BY <2>1 DEF ToBackward
  <2> QED  BY <1>5, <2>1, <2>2 DEF InHand, Gathering
<1>6. CASE ~(ToBackward(t) \/ VisitFront(t) \/ UpdateReady(t) \/ UpdateWaits(t) \/ Apply(t))
  <2>1. heads' = heads
    BY <1>6, WhoChanges
  <2>2. pc[t] \notin {"update", "apply"} /\ pc'[t] \notin {"update", "apply"}
    BY <1>0, <1>6 DEF Worker, Goto, AfterAggregates, Pop, Exhausted, ReturnForward,
       ReturnBackward, ReturnActive, VisitEmpty, PassThrough, Link, Store, Decrement, Poll, Load,
       Assemble, Count, Publish, Signal, ToDiagonal, DiagonalSolve, DiagonalMove,
       DiagonalSignal, DiagonalReset, DiagonalEnd, ToStore, Copy, CopyEnd
  <2> QED  BY <1>6, <2>1, <2>2 DEF InHand, Gathering
<1> QED  BY <1>1, <1>2, <1>3, <1>4, <1>5, <1>6

\* A step of one thread leaves what the others have in hand alone.
LEMMA InHandOther ==
  ASSUME Typed, NEW t \in Thread, Worker(t), NEW u \in Thread, u # t
  PROVE  \A J : InHand(u, J)' = InHand(u, J)
  BY OthersPaths DEF SamePath, SameThread, InHand, Gathering

\* Where a step of a visit leads, and what it leaves alone.
LEMMA VisitGoes ==
  ASSUME Typed, NEW t \in Thread, Worker(t), pc'[t] \in VisitLabels
  PROVE  /\ pc[t] \in VisitLabels \cup {"visit"} /\ (pc[t] = "visit" => VisitFront(t))
         /\ cur' = cur /\ phase' = phase /\ status' = status /\ deq' = deq
         /\ pc'[t] \in OwnedLabels /\ pc[t] \notin OwnedLabels => Owned(t)
         /\ pc'[t] \in SendLabels /\ pc[t] \notin SendLabels =>
              /\ pc[t] \in {"visit", "update", "apply"} /\ pc'[t] = "link"
              /\ ~Owned(t) /\ heads'[t][cur[t]] = {}
         /\ pc'[t] \in {"update", "apply"} => pc[t] \in {"visit", "update", "apply"}
         /\ VisitFront(t) => Waiting(t) # {} \/ Owned(t)
<1> pc \in [Thread -> Labels] /\ heads \in [Thread -> [Front -> SUBSET Nonempty]]
    /\ cur \in [Thread -> Front]
  BY TypedFacts
<1> USE DEF Goto, pathVars, OwnedLabels, CountedLabels, SolvedLabels, SendLabels
<1>1. CASE VisitFront(t)
  <2>1. /\ pc[t] = "visit" /\ pc'[t] \in {"update", "poll1", "link"}
        /\ pc'[t] = "poll1" => Owned(t)
        /\ pc'[t] # "link"
        /\ Waiting(t) # {} \/ Owned(t)
    BY <1>1 DEF VisitFront, AfterUpdates
  <2> QED  BY <1>1, <2>1 DEF VisitFront
<1>2. CASE UpdateReady(t)
  BY <1>2 DEF UpdateReady, VisitLabels, VisitFront
<1>3. CASE UpdateWaits(t)
  <2>1. /\ pc[t] = "update" /\ pc'[t] \in {"update", "poll1", "link", "return"}
        /\ pc'[t] = "poll1" => Owned(t)
        /\ pc'[t] = "link" => ~Owned(t) /\ heads'[t][cur[t]] = {}
    BY <1>3 DEF UpdateWaits, AfterUpdates
  <2> QED  BY <1>3, <2>1 DEF UpdateWaits, VisitLabels, VisitFront
<1>4. CASE Apply(t)
  <2>1. /\ pc[t] = "apply" /\ pc'[t] \in {"update", "poll1", "link", "return"}
        /\ pc'[t] = "poll1" => Owned(t)
        /\ pc'[t] = "link" => ~Owned(t) /\ heads'[t][cur[t]] = {}
    BY <1>4 DEF Apply, AfterUpdates, Waiting, gatherVars
  <2> QED  BY <1>4, <2>1 DEF Apply, VisitLabels, VisitFront
<1>5. CASE Link(t) \/ Store(t)
  BY <1>5 DEF Link, Store, VisitLabels, VisitFront
<1>6. CASE Poll(t) \/ Load(t) \/ Assemble(t) \/ Count(t)
  BY <1>6 DEF Poll, Load, Assemble, Count, AfterAggregates, VisitLabels, VisitFront
<1>7. CASE Publish(t)
  BY <1>7 DEF Publish, VisitLabels, VisitFront
<1>8. ~(Decrement(t) \/ Signal(t))
  BY DEF Decrement, Signal, VisitLabels
<1>9. CASE ~(VisitFront(t) \/ UpdateReady(t) \/ UpdateWaits(t) \/ Apply(t) \/ Link(t)
             \/ Store(t) \/ Poll(t) \/ Load(t) \/ Assemble(t) \/ Count(t) \/ Publish(t))
  BY <1>8, <1>9 DEF Worker, Pop, Exhausted, ReturnForward, VisitLabels,
       ReturnBackward, ReturnActive, VisitEmpty, PassThrough, ToDiagonal, DiagonalSolve,
       DiagonalMove, DiagonalSignal, DiagonalReset, DiagonalEnd, ToBackward, ToStore, Copy,
       CopyEnd
<1> QED  BY <1>1, <1>2, <1>3, <1>4, <1>5, <1>6, <1>7, <1>9

\* What is known of the front a thread visits.
LEMMA VisitOfStep ==
  ASSUME Typed, DequeInv, NEW t \in Thread, HandOf(t), Worker(t)
  PROVE  VisitOf(t)'
<1>0. pc \in [Thread -> Labels] /\ cur \in [Thread -> Front] /\ phase \in [Thread -> Phase]
  BY TypedFacts
<1>1. CASE pc'[t] \in VisitLabels
  <2>1. /\ pc[t] \in VisitLabels \cup {"visit"} /\ (pc[t] = "visit" => VisitFront(t))
        /\ cur' = cur /\ phase' = phase /\ status' = status
        /\ pc'[t] \in OwnedLabels /\ pc[t] \notin OwnedLabels => Owned(t)
        /\ pc'[t] \in SendLabels /\ pc[t] \notin SendLabels => ~Owned(t)
        /\ VisitFront(t) => Waiting(t) # {} \/ Owned(t)
    BY <1>1, VisitGoes
  <2>2. Owned(t)' <=> Owned(t)
    BY <2>1 DEF Owned
  <2>3. pc[t] \in VisitLabels \/ ~Owned(t)' => t \in Senders(phase[t], cur[t]) \/ Owned(t)
    <3>1. ASSUME VisitFront(t), ~Owned(t) PROVE t \in Senders(phase[t], cur[t])
      <4>1. heads[t][cur[t]] # {} /\ cur[t] \in Front
        BY <1>0, <2>1, <3>1 DEF Waiting
      <4>2. phase[t] \in Solve
        BY <3>1, TypedFacts, LabelPhase DEF VisitFront, SolveLabels
      <4>3. heads[t][cur[t]] \subseteq OwnSources(phase[t], t, cur[t])
        BY <1>0, <4>2 DEF HandOf, InHandOnce, InHand
      <4> QED  BY <4>1, <4>3, <3>1 DEF OwnSources, Senders, Owned
    <3> QED  BY <2>1, <2>2, <3>1 DEF HandOf, VisitOf
  <2>4. \/ pc[t] \in VisitLabels
        \/ pc[t] = "visit" /\ "visit" \notin OwnedLabels \cup SendLabels
    BY <2>1 DEF OwnedLabels, CountedLabels, SolvedLabels, SendLabels
  <2> QED  BY <1>1, <2>1, <2>2, <2>3, <2>4 DEF HandOf, VisitOf
<1>2. CASE pc'[t] \notin VisitLabels
  <2>1. pc'[t] \notin OwnedLabels /\ pc'[t] \notin SendLabels
    BY <1>2 DEF VisitLabels, OwnedLabels, CountedLabels, SolvedLabels, SendLabels
  <2>2. ASSUME pc'[t] = "visit" PROVE status'[t][cur'[t]] = "W"
    <3>1. Pop(t)
      BY <1>0, <2>2 DEF Worker, Goto, AfterUpdates, AfterAggregates, Exhausted, ReturnForward,
       ReturnBackward, ReturnActive, VisitEmpty, PassThrough, VisitFront, UpdateReady,
       UpdateWaits, Apply, Link, Store, Decrement, Poll, Load,
       Assemble, Count, Publish, Signal, ToDiagonal, DiagonalSolve, DiagonalMove,
       DiagonalSignal, DiagonalReset, DiagonalEnd, ToBackward, ToStore, Copy, CopyEnd
    <3>2. deq[t] \in Seq(Front) /\ deq[t] # << >> /\ cur'[t] = Head(deq[t]) /\ status' = status
      BY <3>1, TypedFacts DEF Pop
    <3>3. InDeq(t, Head(deq[t])) /\ Head(deq[t]) \in Front
      <4>1. Head(deq[t]) = deq[t][1] /\ 1 \in 1 .. Len(deq[t]) /\ Head(deq[t]) \in Front
        BY <3>2, FromHead
      <4> QED  BY <4>1 DEF InDeq
    <3>4. phase[t] \in Solve
      BY <3>1, TypedFacts, LabelPhase DEF Pop, SolveLabels
    <3> QED  BY <3>2, <3>3, <3>4 DEF DequeInv, DequeOf, InTurn
  <2> QED  BY <1>2, <2>1, <2>2 DEF VisitOf
<1> QED  BY <1>1, <1>2

\* What a thread has in hand it has once.
LEMMA InHandOnceStep ==
  ASSUME Typed, NEW t \in Thread, HandOf(t), Worker(t)
  PROVE  InHandOnce(t)'
<1>0. /\ pc \in [Thread -> Labels] /\ cur \in [Thread -> Front] /\ src \in [Thread -> Front]
      /\ todo \in [Thread -> SUBSET Front] /\ heads \in [Thread -> [Front -> SUBSET Nonempty]]
      /\ phase \in [Thread -> Phase]
  BY TypedFacts
<1>1. ASSUME phase'[t] \in Solve, NEW J \in Front
      PROVE  InHand(t, J)' \subseteq OwnSources(phase'[t], t, J)
  <2>1. CASE ToBackward(t)
    <3>1. phase'[t] = "backward"
      BY <1>0, <2>1 DEF ToBackward
    <3> QED  BY <2>1, <3>1, InHandStep
  <2>2. CASE ~ToBackward(t)
    <3>1. phase'[t] = phase[t]
      <4>1. ~ToDiagonal(t) /\ ~ToStore(t)
        BY <1>0, <1>1 DEF ToDiagonal, ToStore, Solve
      <4> QED  BY <2>2, <4>1, WhoElse
    <3>2. InHand(t, J) \subseteq OwnSources(phase[t], t, J)
      BY <1>1, <3>1 DEF HandOf, InHandOnce
    <3>3. Apply(t) /\ cur[t] = J => heads[t][J] \cup todo[t] \subseteq InHand(t, J)
      BY DEF Apply, InHand, Gathering
    <3> QED  BY <2>2, <3>1, <3>2, <3>3, InHandStep
  <2> QED  BY <2>1, <2>2
<1>2. ASSUME pc'[t] \in {"update", "apply"}
      PROVE  /\ todo'[t] \cap heads'[t][cur'[t]] = {}
             /\ pc'[t] = "apply" => src'[t] \notin todo'[t] \cup heads'[t][cur'[t]]
  <2>1. /\ pc[t] \in {"visit", "update", "apply"} /\ (pc[t] = "visit" => VisitFront(t))
        /\ cur' = cur /\ cur[t] \in Front
    BY <1>0, <1>2, VisitGoes DEF VisitLabels
  <2>2. CASE VisitFront(t)
    <3>1. heads'[t][cur[t]] = {} /\ pc'[t] # "apply"
      BY <1>0, <2>1, <2>2 DEF VisitFront, Goto, AfterUpdates
    <3> QED  BY <2>1, <3>1
  <2>3. CASE pc[t] = "update" /\ UpdateReady(t)
    <3>1. PICK I \in todo[t] : src' = [src EXCEPT ![t] = I] /\ todo' = [todo EXCEPT ![t] = @ \ {I}]
      BY <2>3 DEF UpdateReady
    <3>2. heads' = heads /\ src'[t] = I /\ todo'[t] = todo[t] \ {I}
      BY <1>0, <2>3, <3>1 DEF UpdateReady
    <3> QED  BY <2>1, <2>3, <3>1, <3>2 DEF HandOf, InHandOnce
  <2>4. CASE pc[t] = "update" /\ UpdateWaits(t)
    <3>1. PICK I \in todo[t] : /\ heads' = [heads EXCEPT ![t][cur[t]] = @ \cup {I}]
                               /\ todo' = [todo EXCEPT ![t] = @ \ {I}]
      BY <2>4 DEF UpdateWaits
    <3>2. /\ heads'[t][cur[t]] = heads[t][cur[t]] \cup {I} /\ todo'[t] = todo[t] \ {I}
          /\ pc'[t] # "apply"
      BY <1>0, <2>1, <2>4, <3>1 DEF UpdateWaits, Goto, AfterUpdates
    <3> QED  BY <2>1, <2>4, <3>1, <3>2 DEF HandOf, InHandOnce
  <2>5. CASE pc[t] = "apply" /\ Apply(t)
    <3>1. heads' = heads /\ todo' = todo /\ pc'[t] # "apply"
      BY <1>0, <2>5 DEF Apply, Goto, AfterUpdates, gatherVars
    <3> QED  BY <2>1, <2>5, <3>1 DEF HandOf, InHandOnce
  <2> QED
    BY <2>1, <2>2, <2>3, <2>4, <2>5 DEF Worker, Pop, Exhausted, ReturnForward,
       ReturnBackward, ReturnActive, VisitEmpty, PassThrough, UpdateReady,
       UpdateWaits, Apply, Link, Store, Decrement, Poll, Load,
       Assemble, Count, Publish, Signal, ToDiagonal, DiagonalSolve, DiagonalMove,
       DiagonalSignal, DiagonalReset, DiagonalEnd, ToBackward, ToStore, Copy, CopyEnd
<1> QED  BY <1>1, <1>2 DEF InHandOnce

\* What is left to do in the diagonal loop and in the copy.
LEMMA LeftOfStep ==
  ASSUME Typed, NEW t \in Thread, HandOf(t), Worker(t)
  PROVE  LeftOf(t)'
<1>0. /\ pc \in [Thread -> Labels] /\ todo \in [Thread -> SUBSET Front]
      /\ phase \in [Thread -> Phase]
  BY TypedFacts
<1>1. ASSUME phase'[t] = "diagonal", pc'[t] = "barrier" PROVE todo'[t] = {}
  <2>1. Exhausted(t) \/ DiagonalEnd(t)
    BY <1>0, <1>1 DEF Worker, Goto, AfterUpdates, AfterAggregates, Pop, ReturnForward,
       ReturnBackward, ReturnActive, VisitEmpty, PassThrough, VisitFront, UpdateReady,
       UpdateWaits, Apply, Link, Store, Decrement, Poll, Load,
       Assemble, Count, Publish, Signal, ToDiagonal, DiagonalSolve, DiagonalMove,
       DiagonalSignal, DiagonalReset, ToBackward, ToStore, Copy, CopyEnd
  <2>2. ~Exhausted(t)
    <3>1. Exhausted(t) => phase[t] \in Solve /\ phase' = phase
      BY LabelPhase, TypedFacts DEF Exhausted, SolveLabels
    <3> QED  BY <3>1, <1>1 DEF Solve
  <2> QED  BY <2>1, <2>2 DEF DiagonalEnd, gatherVars
<1>2. ASSUME phase'[t] = "store" PROVE todo'[t] \subseteq OwnedFronts(t)
  <2>1. CASE ToStore(t)
    BY <1>0, <2>1 DEF ToStore, OwnedFronts
  <2>2. CASE ~ToStore(t)
    <3>1. phase[t] = "store"
      BY <1>0, <1>2, <2>2, WhoElse DEF ToDiagonal, ToBackward
    <3>2. Copy(t) \/ CopyEnd(t)
      BY <3>1, StepShapes, TypedFacts, LabelPhase DEF StoreLabels, Worker, Pop, Exhausted, ReturnForward,
       ReturnBackward, ReturnActive, VisitEmpty, PassThrough, VisitFront, UpdateReady,
       UpdateWaits, Apply, Link, Store, Decrement, Poll, Load,
       Assemble, Count, Publish, Signal, ToDiagonal, DiagonalSolve, DiagonalMove,
       DiagonalSignal, DiagonalReset, DiagonalEnd, ToBackward, ToStore
    <3>3. todo'[t] \subseteq todo[t]
      BY <1>0, <3>2 DEF Copy, CopyEnd, gatherVars
    <3> QED  BY <3>1, <3>3 DEF HandOf, LeftOf
  <2> QED  BY <2>1, <2>2
<1>3. ASSUME pc'[t] \in MoveLabels PROVE cur'[t] \notin todo'[t]
  <2>1. CASE DiagonalSolve(t)
    BY <1>0, <2>1, TypedFacts DEF DiagonalSolve
  <2>2. CASE ~DiagonalSolve(t)
    <3>1. DiagonalMove(t) \/ DiagonalSignal(t)
      BY <1>0, <1>3, <2>2 DEF Worker, MoveLabels, Goto, AfterUpdates, AfterAggregates, Pop,
       Exhausted, ReturnForward, ReturnBackward, ReturnActive, VisitEmpty, PassThrough,
       VisitFront, UpdateReady, UpdateWaits, Apply, Link, Store, Decrement, Poll, Load,
       Assemble, Count, Publish, Signal, ToDiagonal,
       DiagonalReset, DiagonalEnd, ToBackward, ToStore, Copy, CopyEnd
    <3>2. pc[t] \in MoveLabels /\ cur' = cur /\ todo' = todo
      BY <3>1 DEF DiagonalMove, DiagonalSignal, MoveLabels, gatherVars
    <3> QED  BY <3>2 DEF HandOf, LeftOf
  <2> QED  BY <2>1, <2>2
<1>4. OwnedFronts(t)' = OwnedFronts(t)
  BY DEF OwnedFronts
<1> QED  BY <1>1, <1>2, <1>3, <1>4 DEF LeftOf

\* HandOf speaks of the variables of one thread.
LEMMA HandSame ==
  ASSUME NEW u \in Thread, HandOf(u),
         pc'[u] = pc[u] /\ phase'[u] = phase[u] /\ cur'[u] = cur[u],
         status'[u] = status[u] /\ heads'[u] = heads[u] /\ todo'[u] = todo[u]
         /\ src'[u] = src[u]
  PROVE  HandOf(u)'
<1>1. (VisitOf(u) => VisitOf(u)') /\ (LeftOf(u) => LeftOf(u)')
  BY DEF VisitOf, LeftOf, Owned, OwnedFronts
<1>2. InHandOnce(u) => InHandOnce(u)'
  <2>1. \A J : InHand(u, J)' = InHand(u, J)
    BY DEF InHand, Gathering
  <2> QED  BY <2>1 DEF InHandOnce
<1> QED  BY <1>1, <1>2 DEF HandOf

\* HandInv is inductive,
LEMMA HandStep ==
  ASSUME Typed, DequeInv, HandInv, NEW t \in Thread, Worker(t)
  PROVE  HandInv'
<1>1. HandOf(t)'
  BY VisitOfStep, InHandOnceStep, LeftOfStep DEF HandInv, HandOf
<1>2. ASSUME NEW u \in Thread, u # t PROVE HandOf(u)'
  BY <1>2, OthersPaths, HandSame DEF HandInv, SamePath, SameThread
<1> QED  BY <1>1, <1>2 DEF HandInv

\* and holds initially.
LEMMA HandInit == Init => HandInv
<1> SUFFICES ASSUME Init, NEW t \in Thread PROVE HandOf(t)
  BY DEF HandInv
<1>1. VisitOf(t) /\ LeftOf(t)
  BY DEF Init, VisitOf, LeftOf, VisitLabels, MoveLabels, OwnedLabels, CountedLabels, SolvedLabels, SendLabels
<1>2. InHandOnce(t)
  BY DEF Init, InHandOnce, InHand, Gathering
<1> QED  BY <1>1, <1>2 DEF HandOf
=============================================================================
