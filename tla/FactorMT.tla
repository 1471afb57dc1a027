------------------------------ MODULE FactorMT ------------------------------
(***************************************************************************)
(* The multithreaded factorization of SPOOLES: FrontMtx_MT_factorPencil    *)
(* (MT/src/factorMT.c) starts nthread copies of FrontMtx_workerFactor and  *)
(* joins them.  A worker climbs the active paths of the front tree through *)
(* its dequeue, visits a front with FrontMtx_factorVisit                   *)
(* (FrontMtx/src/factorUtil.c) and exchanges chevrons with the others      *)
(* through two ChvList objects: aggregates of its updates to fronts it     *)
(* does not own, and the columns a front could not eliminate, which are    *)
(* postponed to its parent.                                                *)
(*                                                                         *)
(* Numbers are abstracted to where they come from.  A front or chevron     *)
(* holds the fronts whose updates it has gathered (upd) and the fronts     *)
(* some of whose columns were postponed into it (late); factoring a front  *)
(* leaves an arbitrary part of its columns when pivoting is on, and        *)
(* succeeds or finds the front singular when it is off.                    *)
(*                                                                         *)
(* One step is at most one access to data that another thread writes.      *)
(***************************************************************************)
EXTENDS FrontTree, Sequences

CONSTANTS Pivoting,  \* FRONTMTX_IS_PIVOTING
          lookahead  \* the argument of that name, 0 in CalculiX

ASSUME OptionAssumption == Pivoting \in BOOLEAN /\ lookahead \in Nat

VARIABLES
  \* private to each worker
  pc,            \* pc[t]: where thread t is
  cur,           \* cur[t]: the front J it visits
  ahead,         \* ahead[t]: what is left of lookahead in this visit
  status,        \* status[t][J]: "W" waiting, "A" active, "F" finished, "E" error
  nactiveChild,  \* nactiveChild[t][K]: children of K its paths still pass
  updates,       \* updates[t][J]: heads[J], own fronts yet to update J
  deq,           \* deq[t]: the dequeue
  fronts,        \* fronts[t][J]: the working chevron of J, or NoFront
  \* shared
  aggHeads, aggCounts, aggLock,     \* the list object of the aggregates
  postHeads, postCounts, postLock,  \* the list object of the postponed data
  reg, creg,     \* what a thread has loaded from a list
  stored,        \* the factor matrix: what J was factored from, or NotStored
  perror,        \* *perror: a singular front, -1 if none
  joined,        \* the main thread has joined the workers
  rootchv        \* what it then returns: the data postponed by the roots

listvars == <<aggHeads, aggCounts, aggLock, postHeads, postCounts, postLock, reg, creg>>
treevars == <<status, nactiveChild, updates, deq, fronts>>
mainvars == <<joined, rootchv>>
vars == <<pc, cur, ahead, treevars, listvars, stored, perror, mainvars>>

NoFront   == [upd |-> {-1}, late |-> {}]
NewFront  == [upd |-> {}, late |-> {}]
NotStored == [upd |-> {}, late |-> {}, left |-> {-1}]

\* An aggregate comes from a thread, postponed data from a front.
Chevron == [from : Front \cup Thread, cols : SUBSET Front]

agg == INSTANCE ChvList WITH
         List <- Front, Chv <- Chevron, flags <- AggFlags,
         heads <- aggHeads, counts <- aggCounts, lock <- aggLock

post == INSTANCE ChvList WITH
          List <- PostList, Chv <- Chevron, flags <- PostFlags,
          heads <- postHeads, counts <- postCounts, lock <- postLock

aggVars  == <<aggHeads, aggCounts, aggLock>>
postVars == <<postHeads, postCounts, postLock>>

Columns(chevrons) == UNION {c.cols : c \in chevrons}

Init ==
  /\ pc = [t \in Thread |-> "pop"]
  /\ cur = [t \in Thread |-> 0]
  /\ ahead = [t \in Thread |-> 0]
  /\ status = [t \in Thread |->
                 [J \in Front |-> IF J \in Active[t] THEN "W" ELSE "F"]]
  /\ nactiveChild = [t \in Thread |-> [K \in Front |-> NactiveChild(t, K)]]
  /\ updates = [t \in Thread |-> [K \in Front |-> OwnUpdaters(t, K)]]
  /\ deq \in [Thread -> UNION {LoadedDequeues(t) : t \in Thread}]
  /\ \A t \in Thread : deq[t] \in LoadedDequeues(t)
  /\ fronts = [t \in Thread |-> [J \in Front |-> NoFront]]
  /\ agg!ListInit([K \in Front |-> AggCount(K)])
  /\ post!ListInit([L \in PostList |-> PostCount(L)])
  /\ reg = [t \in Thread |-> {}]
  /\ creg = [t \in Thread |-> 0]
  /\ stored = [J \in Front |-> NotStored]
  /\ perror = -1
  /\ joined = FALSE
  /\ rootchv = {}

-----------------------------------------------------------------------------
(* The dequeue: an insertion into a full one is silently dropped, because  *)
(* the worker ignores the return value.                                    *)

InsertAtHead(t, J) ==
  deq' = [deq EXCEPT ![t] = IF Len(@) < Npath(t) THEN <<J>> \o @ ELSE @]

InsertAtTail(t, J) ==
  deq' = [deq EXCEPT ![t] = IF Len(@) < Npath(t) THEN Append(@, J) ELSE @]

Goto(t, label) == pc' = [pc EXCEPT ![t] = label]

-----------------------------------------------------------------------------
(* FrontMtx_workerFactor, the loop                                         *)

\* while ( (J = Ideq_removeFromHead(deq)) != -1 )
Pop(t) ==
  /\ pc[t] = "pop"
  /\ deq[t] # << >>
  /\ cur' = [cur EXCEPT ![t] = Head(deq[t])]
  /\ deq' = [deq EXCEPT ![t] = Tail(@)]
  /\ ahead' = [ahead EXCEPT ![t] = lookahead]
  /\ Goto(t, "visit")
  /\ UNCHANGED <<status, nactiveChild, updates, fronts, listvars, stored, perror, mainvars>>

Exhausted(t) ==
  /\ pc[t] = "pop"
  /\ deq[t] = << >>
  /\ Goto(t, "done")
  /\ UNCHANGED <<cur, ahead, treevars, listvars, stored, perror, mainvars>>

\* The visit has returned with an error.
ReturnError(t) ==
  /\ pc[t] = "return"
  /\ status[t][cur[t]] = "E"
  /\ perror' = cur[t]
  /\ Goto(t, "done")
  /\ UNCHANGED <<cur, ahead, treevars, listvars, stored, mainvars>>

\* The front is finished: its parent follows when it was the last child.
ReturnFinished(t) ==
  LET K == par[cur[t]]
  IN  /\ pc[t] = "return"
      /\ status[t][cur[t]] = "F"
      /\ IF K = -1
         THEN UNCHANGED <<nactiveChild, deq>>
         ELSE /\ nactiveChild' = [nactiveChild EXCEPT ![t][K] = @ - 1]
              /\ IF nactiveChild[t][K] = 1
                 THEN InsertAtHead(t, K)
                 ELSE UNCHANGED deq
      /\ Goto(t, "checkError")
      /\ UNCHANGED <<cur, ahead, status, updates, fronts, listvars, stored, perror, mainvars>>

\* (mutation: an unfinished front is not put back)
ReturnActiveForgotten(t) ==
  /\ pc[t] = "return"
  /\ status[t][cur[t]] \in {"W", "A"}
  /\ Goto(t, "checkError")
  /\ UNCHANGED <<cur, ahead, treevars, listvars, stored, perror, mainvars>>

\* The front still waits for other threads: poll it again later.
ReturnActive(t) ==
  /\ pc[t] = "return"
  /\ status[t][cur[t]] \in {"W", "A"}
  /\ InsertAtTail(t, cur[t])
  /\ Goto(t, "checkError")
  /\ UNCHANGED <<cur, ahead, status, nactiveChild, updates, fronts, listvars, stored, perror, mainvars>>

\* (mutation: the worker does not look at *perror)
CheckErrorNever(t) ==
  /\ pc[t] = "checkError"
  /\ Goto(t, "pop")
  /\ UNCHANGED <<cur, ahead, treevars, listvars, stored, perror, mainvars>>

CheckError(t) ==
  /\ pc[t] = "checkError"
  /\ Goto(t, IF perror >= 0 THEN "done" ELSE "pop")
  /\ UNCHANGED <<cur, ahead, treevars, listvars, stored, perror, mainvars>>

-----------------------------------------------------------------------------
(* FrontMtx_factorVisit: the updates from the thread's own fronts          *)

VisitFinished(t) ==
  /\ pc[t] = "visit"
  /\ status[t][cur[t]] = "F"
  /\ Goto(t, "return")
  /\ UNCHANGED <<cur, ahead, treevars, listvars, stored, perror, mainvars>>

\* (mutation: the front is not set up)
UpdateOnly(t, J) ==
  LET now == {I \in updates[t][J] : status[t][I] = "F"}
  IN  /\ updates' = [updates EXCEPT ![t][J] = @ \ now]
      /\ fronts' = [fronts EXCEPT ![t][J].upd = @ \cup now]

\* FrontMtx_setupFront when there is no working chevron yet, then
\* FrontMtx_update with the fronts that are finished.
SetupAndUpdate(t, J) ==
  LET now  == {I \in updates[t][J] : status[t][I] = "F"}
      work == IF fronts[t][J] = NoFront THEN NewFront ELSE fronts[t][J]
  IN  /\ updates' = [updates EXCEPT ![t][J] = @ \ now]
      /\ fronts' = [fronts EXCEPT ![t][J] = [work EXCEPT !.upd = @ \cup now]]

\* (mutation: no early return for a finished front)
VisitOwnedAgain(t) ==
  LET J == cur[t]
  IN  /\ pc[t] = "visit"
      /\ owners[J] = t
      /\ SetupAndUpdate(t, J)
      /\ status' = [status EXCEPT ![t][J] = "A"]
      /\ Goto(t, "poll1")
      /\ UNCHANGED <<cur, ahead, nactiveChild, deq, listvars, stored, perror, mainvars>>

VisitOwned(t) ==
  LET J == cur[t]
  IN  /\ pc[t] = "visit"
      /\ status[t][J] # "F"
      /\ owners[J] = t
      /\ SetupAndUpdate(t, J)
      /\ status' = [status EXCEPT ![t][J] = IF fronts[t][J] = NoFront THEN "A" ELSE @]
      /\ Goto(t, "poll1")
      /\ UNCHANGED <<cur, ahead, nactiveChild, deq, listvars, stored, perror, mainvars>>

\* The front belongs to another thread: gather the updates to send it.
VisitUnowned(t) ==
  LET J == cur[t]
  IN  /\ pc[t] = "visit"
      /\ status[t][J] # "F"
      /\ owners[J] # t
      /\ updates[t][J] # {}
      /\ SetupAndUpdate(t, J)
      /\ status' = [status EXCEPT ![t][J] = IF fronts[t][J] = NoFront THEN "A" ELSE @]
      /\ Goto(t, IF updates'[t][J] = {} THEN "aggLink" ELSE "endVisit")
      /\ UNCHANGED <<cur, ahead, nactiveChild, deq, listvars, stored, perror, mainvars>>

\* Nothing (more) to do for a front of another thread.
PassThrough(t) ==
  LET J == cur[t]
  IN  /\ pc[t] = "visit"
      /\ status[t][J] # "F"
      /\ owners[J] # t
      /\ updates[t][J] = {}
      /\ status' = [status EXCEPT ![t][J] = "F"]
      /\ Goto(t, "endVisit")
      /\ UNCHANGED <<cur, ahead, nactiveChild, updates, deq, fronts, listvars, stored, perror, mainvars>>

\* The recursive call at the end: it visits J again, not its parent.
EndVisit(t) ==
  LET again == ahead[t] > 0 /\ par[cur[t]] # -1
  IN  /\ pc[t] = "endVisit"
      /\ ahead' = [ahead EXCEPT ![t] = IF again THEN @ - 1 ELSE @]
      /\ Goto(t, IF again THEN "visit" ELSE "return")
      /\ UNCHANGED <<cur, treevars, listvars, stored, perror, mainvars>>

-----------------------------------------------------------------------------
(* Sending an aggregate to the owner of the front                          *)

AggLink(t) ==
  /\ pc[t] = "aggLink"
  /\ agg!AddLink(t, cur[t])
  /\ Goto(t, "aggStore")
  /\ UNCHANGED <<cur, ahead, treevars, postVars, stored, perror, mainvars>>

AggStore(t) ==
  LET J == cur[t]
  IN  /\ pc[t] = "aggStore"
      /\ agg!AddStore(t, [from |-> t, cols |-> fronts[t][J].upd], J)
      /\ Goto(t, "aggDecrement")
      /\ UNCHANGED <<cur, ahead, treevars, postVars, stored, perror, mainvars>>

AggDecrement(t) ==
  LET J == cur[t]
  IN  /\ pc[t] = "aggDecrement"
      /\ agg!AddDecrement(t, J)
      /\ status' = [status EXCEPT ![t][J] = "F"]
      /\ Goto(t, "endVisit")
      /\ UNCHANGED <<cur, ahead, nactiveChild, updates, deq, fronts, postVars, stored, perror, mainvars>>

-----------------------------------------------------------------------------
(* Gathering the aggregates of the other threads: the owner assembles what *)
(* has come, reads the count, and if it is zero looks a second time.       *)

AllUpdatesDone(t) == updates[t][cur[t]] = {}

AfterAggregates(t) ==
  IF ~AllUpdatesDone(t) THEN "endVisit"
  ELSE IF Pivoting THEN "postPoll" ELSE "factor"

AggPoll(t) ==
  /\ pc[t] \in {"poll1", "poll2"}
  /\ Goto(t, IF agg!IsListNonempty(cur[t])
             THEN (IF pc[t] = "poll1" THEN "load1" ELSE "load2")
             ELSE (IF pc[t] = "poll1" THEN "aggCount" ELSE AfterAggregates(t)))
  /\ UNCHANGED <<cur, ahead, treevars, listvars, stored, perror, mainvars>>

AggLoad(t) ==
  /\ pc[t] \in {"load1", "load2"}
  /\ agg!GetLoad(t, cur[t])
  /\ Goto(t, IF pc[t] = "load1" THEN "clear1" ELSE "clear2")
  /\ UNCHANGED <<cur, ahead, treevars, postVars, stored, perror, mainvars>>

\* assembleAggregates: the chevrons are added to the front and released.
AggAssemble(t) ==
  LET J == cur[t]
  IN  /\ pc[t] \in {"clear1", "clear2"}
      /\ agg!GetClear(t, J)
      /\ fronts' = [fronts EXCEPT ![t][J].upd = @ \cup Columns(reg[t])]
      /\ Goto(t, IF pc[t] = "clear1" THEN "aggCount" ELSE AfterAggregates(t))
      /\ UNCHANGED <<cur, ahead, status, nactiveChild, updates, deq, postVars, stored, perror, mainvars>>

\* (mutation: no second look at the list after the count)
AggCountOnce(t) ==
  /\ pc[t] = "aggCount"
  /\ Goto(t, IF agg!IsCountZero(cur[t]) THEN AfterAggregates(t) ELSE "endVisit")
  /\ UNCHANGED <<cur, ahead, treevars, listvars, stored, perror, mainvars>>

AggCountRead(t) ==
  /\ pc[t] = "aggCount"
  /\ Goto(t, IF agg!IsCountZero(cur[t]) THEN "poll2" ELSE "endVisit")
  /\ UNCHANGED <<cur, ahead, treevars, listvars, stored, perror, mainvars>>

-----------------------------------------------------------------------------
(* Postponed data, the numerical factorization, and storing the result     *)

\* assemblePostponedData: wait until every child has reported.
PostPoll(t) ==
  LET J == cur[t]
  IN  /\ pc[t] = "postPoll"
      /\ Goto(t, IF ~post!IsCountZero(J) THEN "endVisit"
                 ELSE IF post!IsListNonempty(J) THEN "postLoad" ELSE "factor")
      /\ UNCHANGED <<cur, ahead, treevars, listvars, stored, perror, mainvars>>

PostLoad(t) ==
  /\ pc[t] = "postLoad"
  /\ post!GetLoad(t, cur[t])
  /\ Goto(t, "postClear")
  /\ UNCHANGED <<cur, ahead, treevars, aggVars, stored, perror, mainvars>>

PostAssemble(t) ==
  LET J == cur[t]
  IN  /\ pc[t] = "postClear"
      /\ post!GetClear(t, J)
      /\ fronts' = [fronts EXCEPT ![t][J].late = @ \cup Columns(reg[t])]
      /\ Goto(t, "factor")
      /\ UNCHANGED <<cur, ahead, status, nactiveChild, updates, deq, aggVars, stored, perror, mainvars>>

\* With pivoting any part of the columns may be left over.
FactorPivoting(t) ==
  LET J == cur[t]
      front == fronts[t][J]
  IN  /\ pc[t] = "factor"
      /\ Pivoting
      /\ \E left \in SUBSET (front.late \cup {J}) :
           /\ stored' = [stored EXCEPT
                ![J] = [upd |-> front.upd, late |-> front.late, left |-> left]]
           /\ Goto(t, IF left = {} THEN "postNothing" ELSE "postLink")
      /\ UNCHANGED <<cur, ahead, treevars, listvars, perror, mainvars>>

FactorNoPivoting(t) ==
  LET J == cur[t]
  IN  /\ pc[t] = "factor"
      /\ ~Pivoting
      /\ stored' = [stored EXCEPT
           ![J] = [upd |-> fronts[t][J].upd, late |-> fronts[t][J].late, left |-> {}]]
      /\ fronts' = [fronts EXCEPT ![t][J] = NoFront]
      /\ status' = [status EXCEPT ![t][J] = "F"]
      /\ Goto(t, "endVisit")
      /\ UNCHANGED <<cur, ahead, nactiveChild, updates, deq, listvars, perror, mainvars>>

\* Without pivoting a front may be singular: it is released, not stored.
FactorSingular(t) ==
  LET J == cur[t]
  IN  /\ pc[t] = "factor"
      /\ ~Pivoting
      /\ fronts' = [fronts EXCEPT ![t][J] = NoFront]
      /\ status' = [status EXCEPT ![t][J] = "E"]
      /\ Goto(t, "endVisit")
      /\ UNCHANGED <<cur, ahead, nactiveChild, updates, deq, listvars, stored, perror, mainvars>>

\* storePostponedData: report to the parent, or to list nfront for a root.
PostLink(t) ==
  /\ pc[t] = "postLink"
  /\ post!AddLink(t, PostTarget(cur[t]))
  /\ Goto(t, "postStore")
  /\ UNCHANGED <<cur, ahead, treevars, aggVars, stored, perror, mainvars>>

PostStore(t) ==
  LET J == cur[t]
  IN  /\ pc[t] = "postStore"
      /\ post!AddStore(t, [from |-> J, cols |-> stored[J].left], PostTarget(J))
      /\ Goto(t, "postDecrement")
      /\ UNCHANGED <<cur, ahead, treevars, aggVars, stored, perror, mainvars>>

\* (mutation: a front with nothing to postpone does not report)
PostNothingSkipped(t) ==
  /\ pc[t] = "postNothing"
  /\ fronts' = [fronts EXCEPT ![t][cur[t]] = NoFront]
  /\ status' = [status EXCEPT ![t][cur[t]] = "F"]
  /\ Goto(t, "endVisit")
  /\ UNCHANGED <<cur, ahead, nactiveChild, updates, deq, listvars, stored, perror, mainvars>>

PostNothing(t) ==
  /\ pc[t] = "postNothing"
  /\ post!AddNothing(t, PostTarget(cur[t]))
  /\ Goto(t, "postDecrement")
  /\ UNCHANGED <<cur, ahead, treevars, aggVars, stored, perror, mainvars>>

PostDecrement(t) ==
  LET J == cur[t]
  IN  /\ pc[t] = "postDecrement"
      /\ post!AddDecrement(t, PostTarget(J))
      /\ fronts' = [fronts EXCEPT ![t][J] = NoFront]
      /\ status' = [status EXCEPT ![t][J] = "F"]
      /\ Goto(t, "endVisit")
      /\ UNCHANGED <<cur, ahead, nactiveChild, updates, deq, aggVars, stored, perror, mainvars>>

-----------------------------------------------------------------------------
(* The main thread                                                         *)

Join ==
  /\ ~joined
  /\ \A t \in Thread : pc[t] = "done"
  /\ joined' = TRUE
  /\ rootchv' = IF Pivoting THEN postHeads[nfront] ELSE {}
  /\ UNCHANGED <<pc, cur, ahead, treevars, listvars, stored, perror>>

\* The call has returned; nothing runs any more.
Returned == joined /\ UNCHANGED vars

Worker(t) ==
  \/ Pop(t) \/ Exhausted(t)
  \/ ReturnError(t) \/ ReturnFinished(t) \/ ReturnActive(t) \/ CheckError(t)
  \/ VisitFinished(t) \/ VisitOwned(t) \/ VisitUnowned(t) \/ PassThrough(t) \/ EndVisit(t)
  \/ AggLink(t) \/ AggStore(t) \/ AggDecrement(t)
  \/ AggPoll(t) \/ AggLoad(t) \/ AggAssemble(t) \/ AggCountRead(t)
  \/ PostPoll(t) \/ PostLoad(t) \/ PostAssemble(t)
  \/ FactorPivoting(t) \/ FactorNoPivoting(t) \/ FactorSingular(t)
  \/ PostLink(t) \/ PostStore(t) \/ PostNothing(t) \/ PostDecrement(t)

Next == (\E t \in Thread : Worker(t)) \/ Join \/ Returned

Spec == Init /\ [][Next]_vars

\* Every thread is an operating system thread, scheduled again and again.
FairSpec == Spec /\ (\A t \in Thread : WF_vars(Worker(t))) /\ WF_vars(Join)

-----------------------------------------------------------------------------
(* Properties                                                              *)

Labels ==
  {"pop", "visit", "endVisit", "return", "checkError", "done",
   "aggLink", "aggStore", "aggDecrement",
   "poll1", "load1", "clear1", "aggCount", "poll2", "load2", "clear2",
   "postPoll", "postLoad", "postClear", "factor",
   "postLink", "postStore", "postNothing", "postDecrement"}

WorkerTypeOK ==
  /\ pc \in [Thread -> Labels]
  /\ cur \in [Thread -> Front]
  /\ ahead \in [Thread -> Nat]
  /\ status \in [Thread -> [Front -> {"W", "A", "F", "E"}]]
  /\ nactiveChild \in [Thread -> [Front -> Int]]
  /\ updates \in [Thread -> [Front -> SUBSET Front]]
  /\ deq \in [Thread -> Seq(Front)]

FrontTypeOK ==
  /\ fronts \in [Thread -> [Front -> [upd : SUBSET (Front \cup {-1}), late : SUBSET Front]]]
  /\ stored \in [Front -> [upd : SUBSET Front, late : SUBSET Front,
                          left : SUBSET (Front \cup {-1})]]

MainTypeOK ==
  /\ perror \in Front \cup {-1}
  /\ joined \in BOOLEAN
  /\ rootchv \in SUBSET Chevron

\* Every variable has the type its declaration in the code gives it; what is
\* stored was gathered in a chevron that had been set up.
TypeOK ==
  WorkerTypeOK /\ FrontTypeOK /\ agg!ListTypeOK /\ post!ListTypeOK /\ MainTypeOK

\* Where the update of front I to front J is now.  A chevron that its
\* receiver has loaded but not yet cleared from the list is in reg only, and
\* one that was stored in the list is no longer the sender's.
Receiving(t, J) == pc[t] \in {"clear1", "clear2"} /\ cur[t] = J
HandedOver(t, J) == status[t][J] = "F" \/ (pc[t] = "aggDecrement" /\ cur[t] = J)

Holders(I, J) ==
  {<<"updates", t>> : t \in {u \in Thread : I \in updates[u][J]}}
  \cup {<<"front", t>> : t \in {u \in Thread :
            I \in fronts[u][J].upd /\ (owners[J] = u \/ ~HandedOver(u, J))
            /\ stored[J] = NotStored}}
  \cup {<<"list", c.from>> : c \in {d \in aggHeads[J] :
            I \in d.cols /\ ~Receiving(owners[J], J)}}
  \cup {<<"loaded", c.from>> : c \in {d \in reg[owners[J]] :
            I \in d.cols /\ Receiving(owners[J], J)}}
  \cup (IF stored[J] # NotStored /\ I \in stored[J].upd THEN {<<"stored", -1>>} ELSE {})

\* Every update is in exactly one place until the front is found singular:
\* no race of the unlocked list accesses loses one or assembles it twice.
UpdateInOnePlace ==
  \A J \in Front : status[owners[J]][J] # "E" =>
    \A I \in Updaters(J) : Cardinality(Holders(I, J)) = 1

\* The count of an aggregate list is the number of threads that have not yet
\* added to it: once the owner reads zero, every aggregate is in the list.
AggCountsAreExact ==
  \A J \in Front :
    aggCounts[J] = Cardinality({t \in AggSenders(J) : status[t][J] # "F"})

\* The count of a list of postponed data is the number of children, or of
\* roots, that have not yet reported to it.
PostCountsAreExact ==
  Pivoting => \A L \in PostList :
    postCounts[L] = Cardinality({J \in PostSources(L) : status[owners[J]][J] # "F"})

CheckedOut(t) == pc[t] \notin {"pop", "checkError", "done"}

\* No insertion meets a full dequeue, and a front a thread still has to deal
\* with is in its dequeue, being visited, or waits for an active child.
NoFrontIsDropped ==
  \A t \in Thread :
    /\ Len(deq[t]) + (IF CheckedOut(t) THEN 1 ELSE 0) <= Npath(t)
    /\ \A J \in Front : status[t][J] \in {"W", "A"} =>
         \/ \E i \in 1 .. Len(deq[t]) : deq[t][i] = J
         \/ CheckedOut(t) /\ cur[t] = J
         \/ \E I \in Children(J) : \/ status[t][I] \in {"W", "A", "E"}
                                   \/ CheckedOut(t) /\ cur[t] = I

\* When the call returns without an error every front was factored with all
\* its updates and everything its children postponed.
NoErrorMeansComplete ==
  joined /\ perror = -1 =>
    \A J \in Front :
      /\ stored[J] # NotStored
      /\ stored[J].upd = Updaters(J)
      /\ Pivoting => stored[J].late = UNION {stored[I].left : I \in Children(J)}

\* The chevrons returned to the caller hold every column that a root could
\* not eliminate.
RootDataReturned ==
  joined /\ Pivoting => Columns(rootchv) = UNION {stored[R].left : R \in Roots}

\* Once stored, the entries of a front never change.
StoredOnce ==
  [][\A J \in Front : stored[J] # NotStored => stored'[J] = stored[J]]_vars

\* Every worker comes to an end, whatever the others are waiting for, and
\* the call returns.
Termination == <>joined

\* The threads together do what the abstract factorization does.
Abstract ==
  INSTANCE Multifrontal WITH
    failed <- {J \in Front : status[owners[J]][J] = "E"},
    outcome <- IF ~joined THEN "running"
               ELSE IF perror >= 0 THEN "singular" ELSE "factored"

RefinesMultifrontal == Abstract!MSpec
=============================================================================
