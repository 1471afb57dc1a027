------------------------------ MODULE SolveMT ------------------------------
(***************************************************************************)
(* The multithreaded solve of SPOOLES: FrontMtx_MT_solve (MT/src/solveMT.c)*)
(* starts nthread copies of FrontMtx_workerSolve and joins them.  A worker *)
(* climbs the tree with FrontMtx_forwardVisit, solves its diagonal blocks, *)
(* descends with FrontMtx_backwardVisit (FrontMtx/src/solveUtil.c) and     *)
(* copies its part of the solution; between these phases all workers spin  *)
(* on a vector of chars until every entry is 'Y'.  A front's solution is   *)
(* published with two plain stores, p_mtx[J] = BJ and frontIsDone[J] =     *)
(* 'Y'; sums for a front of another thread travel through a SubMtxList,    *)
(* which is a ChvList of another element type.                             *)
(*                                                                         *)
(* A matrix is the stage it has reached and the contributions it has       *)
(* gathered, each with the stage its source had when it was read.  One     *)
(* step is at most one access to data that another thread writes.          *)
(***************************************************************************)
EXTENDS SolveTree

Seqs == INSTANCE SequencesExt

VARIABLES
  \* private to each worker
  pc,            \* pc[t]: where thread t is
  phase,         \* phase[t]: "forward", "diagonal", "backward" or "store"
  cur,           \* cur[t]: the front J it visits
  status,        \* status[t][J]: "W" to be visited, "F" finished
  nactiveChild,  \* nactiveChild[t][K]: children of K its paths still pass
  heads,         \* heads[t][J]: the fronts whose contribution J still waits for
  todo,          \* todo[t]: what is left of the loop it is in
  src,           \* src[t]: the front I whose solution it is about to read
  deq,           \* deq[t]: the dequeue
  pAgg,          \* pAgg[t][J]: p_agg[J], the matrix it works on, or NoMtx
  \* shared
  pMtx,          \* pMtx[J]: p_mtx[J], the published matrix, or NoMtx
  frontIsDone,   \* frontIsDone[J] = 'Y'
  isDone,        \* isDone[p][t]: entry t of lowerIsDone, diagIsDone, upperIsDone
  forwHeads, forwCounts, forwLock,  \* forwAggList
  backHeads, backCounts, backLock,  \* backAggList
  reg, creg,     \* what a thread has loaded from a list
  sol,           \* sol[J]: the part of solmtx front J was copied to
  joined         \* the main thread has joined the workers

forwVars  == <<forwHeads, forwCounts, forwLock>>
backVars  == <<backHeads, backCounts, backLock>>
listVars  == <<forwVars, backVars, reg, creg>>
pathVars  == <<status, nactiveChild, deq>>
gatherVars == <<heads, todo, src>>
shared    == <<pMtx, frontIsDone, isDone>>
vars == <<pc, phase, cur, pathVars, gatherVars, pAgg, shared, listVars, sol, joined>>

NoMtx   == [stage |-> "none", upd |-> {}]
ZeroMtx == [stage |-> "zero", upd |-> {}]
RhsMtx  == [stage |-> "rhs", upd |-> {}]

Stage == {"none", "zero", "rhs", "y", "z", "x", "released"}
Mtx   == {NoMtx} \cup [stage : Stage \ {"none"}, upd : SUBSET (Front \X Stage)]

\* What travels in a list: the sum a thread has gathered for a front.
Aggregate == [from : Thread, cols : SUBSET (Front \X Stage)]

forw == INSTANCE ChvList WITH
          List <- Front, Chv <- Aggregate, flags <- SolveFlags("forward"),
          heads <- forwHeads, counts <- forwCounts, lock <- forwLock

back == INSTANCE ChvList WITH
          List <- Front, Chv <- Aggregate, flags <- SolveFlags("backward"),
          heads <- backHeads, counts <- backCounts, lock <- backLock

Init ==
  /\ pc = [t \in Thread |-> "pop"]
  /\ phase = [t \in Thread |-> "forward"]
  /\ cur = [t \in Thread |-> 0]
  /\ status = [t \in Thread |-> [J \in Front |-> IF J \in OnPath["forward"][t] THEN "W" ELSE "F"]]
  /\ nactiveChild = [t \in Thread |-> [K \in Front |-> ChildrenOnPath(t, K)]]
  /\ heads = [t \in Thread |-> [J \in Front |-> OwnSources("forward", t, J)]]
  /\ todo = [t \in Thread |-> {}]
  /\ src = [t \in Thread |-> 0]
  /\ deq \in [Thread -> UNION {LoadedLeaves(t) : t \in Thread}]
  /\ \A t \in Thread : deq[t] \in LoadedLeaves(t)
  /\ pAgg = [t \in Thread |-> [J \in Front |->
               IF owners[J] = t /\ J \in Nonempty THEN RhsMtx ELSE NoMtx]]
  /\ pMtx = [J \in Front |-> NoMtx]
  /\ frontIsDone = [J \in Front |-> FALSE]
  /\ isDone = [p \in {"forward", "diagonal", "backward"} |-> [t \in Thread |-> FALSE]]
  /\ forw!ListInit([J \in Front |-> SenderCount("forward", J)])
  /\ back!ListInit([J \in Front |-> SenderCount("backward", J)])
  /\ reg = [t \in Thread |-> {}]
  /\ creg = [t \in Thread |-> 0]
  /\ sol = [J \in Front |-> NoMtx]
  /\ joined = FALSE

Goto(t, label) == pc' = [pc EXCEPT ![t] = label]

Least(S) == CHOOSE J \in S : \A K \in S : J <= K

-----------------------------------------------------------------------------
(* FrontMtx_workerSolve, the loops of the forward and the backward solve   *)

Pop(t) ==
  /\ pc[t] = "pop"
  /\ deq[t] # << >>
  /\ cur' = [cur EXCEPT ![t] = Head(deq[t])]
  /\ deq' = [deq EXCEPT ![t] = Tail(@)]
  /\ Goto(t, "visit")
  /\ UNCHANGED <<phase, status, nactiveChild, gatherVars, pAgg, shared, listVars, sol, joined>>

\* The loop ends: lowerIsDone[myid] or upperIsDone[myid] becomes 'Y'.
Exhausted(t) ==
  /\ pc[t] = "pop"
  /\ deq[t] = << >>
  /\ isDone' = [isDone EXCEPT ![phase[t]][t] = TRUE]
  /\ Goto(t, "barrier")
  /\ UNCHANGED <<phase, cur, pathVars, gatherVars, pAgg, pMtx, frontIsDone, listVars, sol, joined>>

\* Insertions at the head; a front that does not fit is silently dropped.
Push(t, q) ==
  deq' = [deq EXCEPT ![t] = Fitting(q, Capacity[phase[t]][t] - Len(@)) \o @]

\* Forward: the parent follows when this was its last child on the paths.
ReturnForward(t) ==
  LET K == par[cur[t]]
  IN  /\ pc[t] = "return"
      /\ phase[t] = "forward"
      /\ status[t][cur[t]] = "F"
      /\ IF K = -1
         THEN UNCHANGED <<nactiveChild, deq>>
         ELSE /\ nactiveChild' = [nactiveChild EXCEPT ![t][K] = @ - 1]
              /\ IF nactiveChild[t][K] = 1 THEN Push(t, <<K>>) ELSE UNCHANGED deq
      /\ Goto(t, "pop")
      /\ UNCHANGED <<phase, cur, status, gatherVars, pAgg, shared, listVars, sol, joined>>

\* (mutation: every child is put into the dequeue)
ReturnBackwardAll(t) ==
  /\ pc[t] = "return"
  /\ phase[t] = "backward"
  /\ status[t][cur[t]] = "F"
  /\ \E q \in Seqs!SetToSeqs(Children(cur[t])) : Push(t, q)
  /\ Goto(t, "pop")
  /\ UNCHANGED <<phase, cur, status, nactiveChild, gatherVars, pAgg, shared, listVars, sol, joined>>

\* Backward: the waiting children follow, in the order of the sib links.
ReturnBackward(t) ==
  /\ pc[t] = "return"
  /\ phase[t] = "backward"
  /\ status[t][cur[t]] = "F"
  /\ \E q \in Seqs!SetToSeqs({I \in Children(cur[t]) : status[t][I] = "W"}) : Push(t, q)
  /\ Goto(t, "pop")
  /\ UNCHANGED <<phase, cur, status, nactiveChild, gatherVars, pAgg, shared, listVars, sol, joined>>

\* The front is not finished: poll it again later.
ReturnActive(t) ==
  /\ pc[t] = "return"
  /\ status[t][cur[t]] = "W"
  /\ deq' = [deq EXCEPT ![t] =
               IF Len(@) < Capacity[phase[t]][t] THEN Append(@, cur[t]) ELSE @]
  /\ Goto(t, "pop")
  /\ UNCHANGED <<phase, cur, status, nactiveChild, gatherVars, pAgg, shared, listVars, sol, joined>>

-----------------------------------------------------------------------------
(* FrontMtx_forwardVisit and FrontMtx_backwardVisit: the contributions of  *)
(* the thread's own blocks                                                 *)

Owned(t) == owners[cur[t]] = t
Waiting(t) == heads[t][cur[t]]

VisitEmpty(t) ==
  LET J == cur[t]
  IN  /\ pc[t] = "visit"
      /\ J \in empty
      /\ frontIsDone' = [frontIsDone EXCEPT ![J] = @ \/ Owned(t)]
      /\ status' = [status EXCEPT ![t][J] = "F"]
      /\ Goto(t, "return")
      /\ UNCHANGED <<phase, cur, nactiveChild, deq, gatherVars, pAgg, pMtx, isDone, listVars, sol, joined>>

\* A front of another thread that needs nothing from this one.
PassThrough(t) ==
  LET J == cur[t]
  IN  /\ pc[t] = "visit"
      /\ J \in Nonempty
      /\ Waiting(t) = {} /\ ~Owned(t)
      /\ status' = [status EXCEPT ![t][J] = "F"]
      /\ Goto(t, "return")
      /\ UNCHANGED <<phase, cur, nactiveChild, deq, gatherVars, pAgg, shared, listVars, sol, joined>>

\* Where the visit goes when the loop over the contributions has ended and
\* left the fronts in rest for the next visit.
AfterUpdates(t, rest) ==
  IF Owned(t) THEN "poll1" ELSE IF rest = {} THEN "link" ELSE "return"

\* (mutation: no aggregate is created)
VisitFrontUnset(t) ==
  LET J == cur[t]
  IN  /\ pc[t] = "visit"
      /\ J \in Nonempty
      /\ Waiting(t) # {} \/ Owned(t)
      /\ todo' = [todo EXCEPT ![t] = Waiting(t)]
      /\ heads' = [heads EXCEPT ![t][J] = {}]
      /\ Goto(t, IF Waiting(t) = {} THEN AfterUpdates(t, {}) ELSE "update")
      /\ UNCHANGED <<phase, cur, pathVars, src, pAgg, shared, listVars, sol, joined>>

\* initBJ when there is no aggregate yet; the loop takes the whole list.
VisitFront(t) ==
  LET J == cur[t]
  IN  /\ pc[t] = "visit"
      /\ J \in Nonempty
      /\ Waiting(t) # {} \/ Owned(t)
      /\ todo' = [todo EXCEPT ![t] = Waiting(t)]
      /\ heads' = [heads EXCEPT ![t][J] = {}]
      /\ pAgg' = [pAgg EXCEPT ![t][J] = IF @ = NoMtx /\ Waiting(t) # {} THEN ZeroMtx ELSE @]
      /\ Goto(t, IF Waiting(t) = {} THEN AfterUpdates(t, {}) ELSE "update")
      /\ UNCHANGED <<phase, cur, pathVars, src, shared, listVars, sol, joined>>

\* if ( frontIsDone[I] == 'Y' )
UpdateReady(t) ==
  /\ pc[t] = "update"
  /\ \E I \in todo[t] :
       /\ frontIsDone[I]
       /\ src' = [src EXCEPT ![t] = I]
       /\ todo' = [todo EXCEPT ![t] = @ \ {I}]
  /\ Goto(t, "apply")
  /\ UNCHANGED <<phase, cur, pathVars, heads, pAgg, shared, listVars, sol, joined>>

\* Not yet available: back to the list.
UpdateWaits(t) ==
  /\ pc[t] = "update"
  /\ \E I \in todo[t] :
       /\ ~frontIsDone[I]
       /\ heads' = [heads EXCEPT ![t][cur[t]] = @ \cup {I}]
       /\ todo' = [todo EXCEPT ![t] = @ \ {I}]
  /\ Goto(t, IF todo'[t] = {} THEN AfterUpdates(t, heads'[t][cur[t]]) ELSE "update")
  /\ UNCHANGED <<phase, cur, pathVars, src, pAgg, shared, listVars, sol, joined>>

\* if ( (YI = p_mtx[I]) != NULL ), and the product with the block.
Apply(t) ==
  LET I == src[t]
      J == cur[t]
  IN  /\ pc[t] = "apply"
      /\ pAgg' = IF pMtx[I] = NoMtx THEN pAgg
                 ELSE [pAgg EXCEPT ![t][J].upd = @ \cup {<<I, pMtx[I].stage>>}]
      /\ Goto(t, IF todo[t] = {} THEN AfterUpdates(t, Waiting(t)) ELSE "update")
      /\ UNCHANGED <<phase, cur, pathVars, gatherVars, shared, listVars, sol, joined>>

-----------------------------------------------------------------------------
(* The aggregate list of the phase                                         *)

OnList(t, forwardStep, backwardStep) ==
  \/ phase[t] = "forward" /\ forwardStep /\ UNCHANGED backVars
  \/ phase[t] = "backward" /\ backwardStep /\ UNCHANGED forwVars

IsListNonempty(t) ==
  IF phase[t] = "forward" THEN forw!IsListNonempty(cur[t]) ELSE back!IsListNonempty(cur[t])

IsCountZero(t) ==
  IF phase[t] = "forward" THEN forw!IsCountZero(cur[t]) ELSE back!IsCountZero(cur[t])

Link(t) ==
  /\ pc[t] = "link"
  /\ OnList(t, forw!AddLink(t, cur[t]), back!AddLink(t, cur[t]))
  /\ Goto(t, "store")
  /\ UNCHANGED <<phase, cur, pathVars, gatherVars, pAgg, shared, sol, joined>>

Store(t) ==
  LET J == cur[t]
      BJ == [from |-> t, cols |-> pAgg[t][J].upd]
  IN  /\ pc[t] = "store"
      /\ OnList(t, forw!AddStore(t, BJ, J), back!AddStore(t, BJ, J))
      /\ Goto(t, "decrement")
      /\ UNCHANGED <<phase, cur, pathVars, gatherVars, pAgg, shared, sol, joined>>

Decrement(t) ==
  LET J == cur[t]
  IN  /\ pc[t] = "decrement"
      /\ OnList(t, forw!AddDecrement(t, J), back!AddDecrement(t, J))
      /\ pAgg' = [pAgg EXCEPT ![t][J] = NoMtx]
      /\ status' = [status EXCEPT ![t][J] = "F"]
      /\ Goto(t, "return")
      /\ UNCHANGED <<phase, cur, nactiveChild, deq, gatherVars, shared, sol, joined>>

\* The owner assembles what has come, reads the count, and if it is zero
\* looks a second time; then the front is solved unless its own
\* contributions are missing.
AfterAggregates(t) == IF Waiting(t) = {} THEN "solve" ELSE "return"

Poll(t) ==
  /\ pc[t] \in {"poll1", "poll2"}
  /\ Goto(t, IF IsListNonempty(t)
             THEN (IF pc[t] = "poll1" THEN "load1" ELSE "load2")
             ELSE (IF pc[t] = "poll1" THEN "count" ELSE AfterAggregates(t)))
  /\ UNCHANGED <<phase, cur, pathVars, gatherVars, pAgg, shared, listVars, sol, joined>>

Load(t) ==
  /\ pc[t] \in {"load1", "load2"}
  /\ OnList(t, forw!GetLoad(t, cur[t]), back!GetLoad(t, cur[t]))
  /\ Goto(t, IF pc[t] = "load1" THEN "clear1" ELSE "clear2")
  /\ UNCHANGED <<phase, cur, pathVars, gatherVars, pAgg, shared, sol, joined>>

Assemble(t) ==
  LET J == cur[t]
  IN  /\ pc[t] \in {"clear1", "clear2"}
      /\ OnList(t, forw!GetClear(t, J), back!GetClear(t, J))
      /\ pAgg' = [pAgg EXCEPT ![t][J].upd = @ \cup UNION {c.cols : c \in reg[t]}]
      /\ Goto(t, IF pc[t] = "clear1" THEN "count" ELSE AfterAggregates(t))
      /\ UNCHANGED <<phase, cur, pathVars, gatherVars, shared, sol, joined>>

\* (mutation: no second look at the list after the count)
CountOnce(t) ==
  /\ pc[t] = "count"
  /\ Goto(t, IF IsCountZero(t) THEN AfterAggregates(t) ELSE "return")
  /\ UNCHANGED <<phase, cur, pathVars, gatherVars, pAgg, shared, listVars, sol, joined>>

Count(t) ==
  /\ pc[t] = "count"
  /\ Goto(t, IF IsCountZero(t) THEN "poll2" ELSE "return")
  /\ UNCHANGED <<phase, cur, pathVars, gatherVars, pAgg, shared, listVars, sol, joined>>

-----------------------------------------------------------------------------
(* The interior solve of an owned front, and its publication               *)

\* p_agg[J] = NULL, p_mtx[J] = BJ
Publish(t) ==
  LET J == cur[t]
  IN  /\ pc[t] = "solve"
      /\ pMtx' = [pMtx EXCEPT ![J] =
           [pAgg[t][J] EXCEPT !.stage = IF phase[t] = "forward" THEN "y" ELSE "x"]]
      /\ pAgg' = [pAgg EXCEPT ![t][J] = NoMtx]
      /\ Goto(t, "signal")
      /\ UNCHANGED <<phase, cur, pathVars, gatherVars, frontIsDone, isDone, listVars, sol, joined>>

\* frontIsDone[J] = 'Y'
Signal(t) ==
  LET J == cur[t]
  IN  /\ pc[t] = "signal"
      /\ frontIsDone' = [frontIsDone EXCEPT ![J] = TRUE]
      /\ status' = [status EXCEPT ![t][J] = "F"]
      /\ Goto(t, "return")
      /\ UNCHANGED <<phase, cur, nactiveChild, deq, gatherVars, pAgg, pMtx, isDone, listVars, sol, joined>>

-----------------------------------------------------------------------------
(* The barriers, the diagonal solve and the copy of the solution           *)

OwnedFronts(t) == {J \in Front : owners[J] = t}

\* The vector is read entry by entry until all are 'Y'; entries never change
\* back, so the last pass has seen them all.
AllDone(p) == \A u \in Thread : isDone[p][u]

\* (mutation: the thread does not wait)
ToDiagonalAtOnce(t) ==
  /\ pc[t] = "barrier" /\ phase[t] = "forward"
  /\ phase' = [phase EXCEPT ![t] = "diagonal"]
  /\ todo' = [todo EXCEPT ![t] = OwnedFronts(t)]
  /\ Goto(t, "diagonal")
  /\ UNCHANGED <<cur, pathVars, heads, src, pAgg, shared, listVars, sol, joined>>

ToDiagonal(t) ==
  /\ pc[t] = "barrier" /\ phase[t] = "forward"
  /\ AllDone("forward")
  /\ phase' = [phase EXCEPT ![t] = "diagonal"]
  /\ todo' = [todo EXCEPT ![t] = OwnedFronts(t)]
  /\ Goto(t, "diagonal")
  /\ UNCHANGED <<cur, pathVars, heads, src, pAgg, shared, listVars, sol, joined>>

\* FrontMtx_diagonalVisit: the matrix is solved in place,
DiagonalSolve(t) ==
  LET J == Least(todo[t])
  IN  /\ pc[t] = "diagonal"
      /\ todo[t] # {}
      /\ cur' = [cur EXCEPT ![t] = J]
      /\ todo' = [todo EXCEPT ![t] = @ \ {J}]
      /\ IF pMtx[J] = NoMtx
         THEN UNCHANGED pMtx /\ Goto(t, "diagonalSignal")
         ELSE pMtx' = [pMtx EXCEPT ![J] = [stage |-> "z", upd |-> {}]] /\ Goto(t, "diagonalMove")
      /\ UNCHANGED <<phase, pathVars, heads, src, pAgg, frontIsDone, isDone, listVars, sol, joined>>

\* withdrawn,
DiagonalMove(t) ==
  LET J == cur[t]
  IN  /\ pc[t] = "diagonalMove"
      /\ pAgg' = [pAgg EXCEPT ![t][J] = pMtx[J]]
      /\ pMtx' = [pMtx EXCEPT ![J] = NoMtx]
      /\ Goto(t, "diagonalSignal")
      /\ UNCHANGED <<phase, cur, pathVars, gatherVars, frontIsDone, isDone, listVars, sol, joined>>

\* and signalled.
DiagonalSignal(t) ==
  /\ pc[t] = "diagonalSignal"
  /\ frontIsDone' = [frontIsDone EXCEPT ![cur[t]] = TRUE]
  /\ Goto(t, "diagonalReset")
  /\ UNCHANGED <<phase, cur, pathVars, gatherVars, pAgg, pMtx, isDone, listVars, sol, joined>>

\* (mutation: frontIsDone stays 'Y')
DiagonalNoReset(t) ==
  /\ pc[t] = "diagonalReset"
  /\ Goto(t, "diagonal")
  /\ UNCHANGED <<phase, cur, pathVars, gatherVars, pAgg, shared, listVars, sol, joined>>

\* frontIsDone[J] = 'N', to be ready for the backward solve
DiagonalReset(t) ==
  /\ pc[t] = "diagonalReset"
  /\ frontIsDone' = [frontIsDone EXCEPT ![cur[t]] = FALSE]
  /\ Goto(t, "diagonal")
  /\ UNCHANGED <<phase, cur, pathVars, gatherVars, pAgg, pMtx, isDone, listVars, sol, joined>>

DiagonalEnd(t) ==
  /\ pc[t] = "diagonal"
  /\ todo[t] = {}
  /\ isDone' = [isDone EXCEPT !["diagonal"][t] = TRUE]
  /\ Goto(t, "barrier")
  /\ UNCHANGED <<phase, cur, pathVars, gatherVars, pAgg, pMtx, frontIsDone, listVars, sol, joined>>

\* The set-up of the backward solve.
ToBackward(t) ==
  /\ pc[t] = "barrier" /\ phase[t] = "diagonal"
  /\ AllDone("diagonal")
  /\ phase' = [phase EXCEPT ![t] = "backward"]
  /\ heads' = [heads EXCEPT ![t] = [J \in Front |-> OwnSources("backward", t, J)]]
  /\ status' = [status EXCEPT ![t] =
                  [J \in Front |-> IF J \in OnPath["backward"][t] THEN "W" ELSE "F"]]
  /\ \E roots \in LoadedRoots(t) : deq' = [deq EXCEPT ![t] = roots]
  /\ Goto(t, "pop")
  /\ UNCHANGED <<cur, nactiveChild, todo, src, pAgg, shared, listVars, sol, joined>>

ToStore(t) ==
  /\ pc[t] = "barrier" /\ phase[t] = "backward"
  /\ AllDone("backward")
  /\ phase' = [phase EXCEPT ![t] = "store"]
  /\ todo' = [todo EXCEPT ![t] = OwnedFronts(t) \cap Nonempty]
  /\ Goto(t, "copy")
  /\ UNCHANGED <<cur, pathVars, heads, src, pAgg, shared, listVars, sol, joined>>

\* FrontMtx_storeSolution; the matrix is released (a missing one is fatal).
Copy(t) ==
  LET J == Least(todo[t])
  IN  /\ pc[t] = "copy"
      /\ todo[t] # {}
      /\ pMtx[J] # NoMtx
      /\ sol' = [sol EXCEPT ![J] = pMtx[J]]
      /\ pMtx' = [pMtx EXCEPT ![J].stage = "released"]
      /\ todo' = [todo EXCEPT ![t] = @ \ {J}]
      /\ UNCHANGED <<pc, phase, cur, pathVars, heads, src, pAgg, frontIsDone, isDone, listVars, joined>>

CopyEnd(t) ==
  /\ pc[t] = "copy"
  /\ todo[t] = {}
  /\ Goto(t, "done")
  /\ UNCHANGED <<phase, cur, pathVars, gatherVars, pAgg, shared, listVars, sol, joined>>

\* The main thread joins the workers and frees the shared data.
Join ==
  /\ ~joined
  /\ \A t \in Thread : pc[t] = "done"
  /\ joined' = TRUE
  /\ UNCHANGED <<pc, phase, cur, pathVars, gatherVars, pAgg, shared, listVars, sol>>

Returned == joined /\ UNCHANGED vars

Worker(t) ==
  \/ Pop(t) \/ Exhausted(t) \/ ReturnForward(t) \/ ReturnBackward(t) \/ ReturnActive(t)
  \/ VisitEmpty(t) \/ PassThrough(t) \/ VisitFront(t)
  \/ UpdateReady(t) \/ UpdateWaits(t) \/ Apply(t)
  \/ Link(t) \/ Store(t) \/ Decrement(t)
  \/ Poll(t) \/ Load(t) \/ Assemble(t) \/ Count(t)
  \/ Publish(t) \/ Signal(t)
  \/ ToDiagonal(t) \/ DiagonalSolve(t) \/ DiagonalMove(t) \/ DiagonalSignal(t)
  \/ DiagonalReset(t) \/ DiagonalEnd(t)
  \/ ToBackward(t) \/ ToStore(t) \/ Copy(t) \/ CopyEnd(t)

Next == (\E t \in Thread : Worker(t)) \/ Join \/ Returned

Spec == Init /\ [][Next]_vars

\* Every thread is an operating system thread, scheduled again and again.
FairSpec == Spec /\ (\A t \in Thread : WF_vars(Worker(t))) /\ WF_vars(Join)

-----------------------------------------------------------------------------
(* Properties                                                              *)

Labels ==
  {"pop", "visit", "return", "update", "apply", "link", "store", "decrement",
   "poll1", "load1", "clear1", "count", "poll2", "load2", "clear2", "solve", "signal",
   "barrier", "diagonal", "diagonalMove", "diagonalSignal", "diagonalReset", "copy", "done"}

WorkerTypeOK ==
  /\ pc \in [Thread -> Labels]
  /\ phase \in [Thread -> {"forward", "diagonal", "backward", "store"}]
  /\ cur \in [Thread -> Front]
  /\ status \in [Thread -> [Front -> {"W", "F"}]]
  /\ nactiveChild \in [Thread -> [Front -> Int]]
  /\ heads \in [Thread -> [Front -> SUBSET Front]]
  /\ todo \in [Thread -> SUBSET Front]
  /\ src \in [Thread -> Front]
  /\ deq \in [Thread -> Seq(Front)]
  /\ pAgg \in [Thread -> [Front -> Mtx]]

SharedTypeOK ==
  /\ pMtx \in [Front -> Mtx]
  /\ frontIsDone \in [Front -> BOOLEAN]
  /\ isDone \in [{"forward", "diagonal", "backward"} -> [Thread -> BOOLEAN]]
  /\ sol \in [Front -> Mtx]
  /\ joined \in BOOLEAN

\* Every variable has the type its declaration in the code gives it, and a
\* contribution is only added to a matrix that exists.
TypeOK == WorkerTypeOK /\ SharedTypeOK /\ forw!ListTypeOK /\ back!ListTypeOK

\* Whenever a thread has decided to read the solution of a front, that is the
\* finished one of its phase: the plain chars of frontIsDone and of the three
\* barriers keep the readers apart from the owner that solves it in place,
\* withdraws or releases it.
ReadersSeeFinished ==
  \A t \in Thread : pc[t] = "apply" =>
    pMtx[src[t]].stage = IF phase[t] = "forward" THEN "y" ELSE "x"

\* Where the contribution of front I to front J is in solve s.
Gathering(t, J) == cur[t] = J /\ pc[t] \in {"update", "apply"}
Receiving(t, J) == cur[t] = J /\ pc[t] \in {"clear1", "clear2"}
HandedOver(t, J) == cur[t] = J /\ pc[t] = "decrement"
Brings(cols, I) == \E c \in cols : c[1] = I

InList(s) == IF s = "forward" THEN forwHeads ELSE backHeads

Holders(s, I, J) ==
  LET u == BlockOwner(s, J, I)
      q == owners[J]
  IN  {<<"waits", t>> : t \in {w \in {u} :
           \/ I \in heads[w][J]
           \/ Gathering(w, J) /\ (I \in todo[w] \/ (pc[w] = "apply" /\ src[w] = I))}}
      \cup {<<"sum", t>> : t \in {w \in {u, q} : Brings(pAgg[w][J].upd, I) /\ ~HandedOver(w, J)}}
      \cup {<<"list", c.from>> : c \in {d \in InList(s)[J] : Brings(d.cols, I) /\ ~Receiving(q, J)}}
      \cup {<<"loaded", c.from>> : c \in {d \in reg[q] : Brings(d.cols, I) /\ Receiving(q, J)}}
      \cup (IF Brings(pMtx[J].upd, I) THEN {<<"published", q>>} ELSE {})

\* While a solve runs, the contribution of every block is in exactly one
\* place: it waits, is part of one sum, travels, or is in the published
\* solution.  None is lost and none is added twice.
ContributionInOnePlace ==
  \A s \in Solve : \A J \in Front : \A I \in Sources(s, J) :
    phase[owners[J]] = s /\ phase[BlockOwner(s, J, I)] = s
      => Cardinality(Holders(s, I, J)) = 1

\* The counts of both lists are the numbers of threads still to send; most
\* are decremented without the mutex, and the flags of the backward list
\* still hold those of the forward list.
AggCountsAreExact ==
  \A J \in Front :
    /\ forwCounts[J] = Cardinality({t \in Senders("forward", J) :
                         phase[t] = "forward" /\ status[t][J] = "W"})
    /\ backCounts[J] = Cardinality({t \in Senders("backward", J) :
                         \/ phase[t] \in {"forward", "diagonal"}
                         \/ phase[t] = "backward" /\ status[t][J] = "W"})

CheckedOut(t) == pc[t] \notin {"pop", "barrier"}

\* What still has to be finished before front J can be in the dequeue.
Before(t, J) ==
  IF phase[t] = "forward" THEN Children(J) \cap OnPath["forward"][t]
  ELSE {par[J]} \cap Front

\* No insertion meets a full dequeue, in either direction, and a front still
\* to be visited is in the dequeue, is being visited, or waits for another.
NoFrontIsDropped ==
  \A t \in Thread : phase[t] \in Solve =>
    /\ Len(deq[t]) + (IF CheckedOut(t) THEN 1 ELSE 0) <= Capacity[phase[t]][t]
    /\ \A J \in Front : status[t][J] = "W" =>
         \/ \E i \in 1 .. Len(deq[t]) : deq[t][i] = J
         \/ CheckedOut(t) /\ cur[t] = J
         \/ \E I \in Before(t, J) : status[t][I] = "W" \/ (CheckedOut(t) /\ cur[t] = I)

\* Every worker leaves its loops and the three spin barriers, and the call
\* returns.
Termination == <>joined

\* The threads together do what the abstract solve does.
Abstract ==
  INSTANCE TriangularSolve WITH
    mtx <- [J \in Front |-> IF pMtx[J] # NoMtx THEN pMtx[J]
                            ELSE [stage |-> pAgg[owners[J]][J].stage, upd |-> {}]]

RefinesTriangularSolve == Abstract!TSpec
=============================================================================
