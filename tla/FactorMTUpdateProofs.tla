------------------------ MODULE FactorMTUpdateProofs -----------------------
(***************************************************************************)
(* The way of an update, for every front tree, every map of fronts to      *)
(* threads and any number of threads: a front is stored once, the dequeue  *)
(* of a thread never lacks room and no thread leaves its loop with work to *)
(* do, every update is in one place until it is assembled into the front   *)
(* that is stored, and so is every column that was not eliminated.         *)
(* From all the invariants together follows what the caller may rely on:   *)
(* without an error the factor is complete, the columns the roots could    *)
(* not eliminate are returned, and the workers implement Multifrontal.     *)
(*                                                                         *)
(* First what is stored (StoreInv), then the paths and the dequeue of one  *)
(* thread (DequeInv), then what the threads hand to one another            *)
(* (UpdateInv) and the postponed columns. A step is split by what it does  *)
(* to one variable: the lemmas named after variables (UpdatesStep,         *)
(* StoredStep, HeadsStep, UpdStep) say that for all actions together, and  *)
(* the invariants cite them.                                               *)
(*                                                                         *)
(* The theorems on what the caller may rely on hold under Sound: the list  *)
(* of the roots takes its mutex when several threads own roots, and no     *)
(* front is visited again after it was found singular. Without the one     *)
(* RootDataReturned is false, without the other NoErrorMeansComplete.      *)
(***************************************************************************)
EXTENDS FactorMTProofs, WellFoundedInduction

-----------------------------------------------------------------------------
(* What is stored                                                          *)

\* Only the owner of a front stores it, and only before it has finished it.
LEMMA StoreStep ==
  ASSUME TypeOK, StoreInv, NEW t \in Thread, Worker(t), NEW J \in Front
  PROVE  \/ stored'[J] = stored[J]
         \/ /\ FactorPivoting(t) \/ FactorNoPivoting(t)
            /\ J = cur[t] /\ owners[J] = t
            /\ stored[J] = NotStored
<1>1. /\ stored \in [Front -> [upd : SUBSET Front, late : SUBSET Front,
                              left : SUBSET (Front \cup {-1})]]
      /\ cur[t] \in Front
  BY DEF TypeOK, FrontTypeOK, WorkerTypeOK
<1>2. CASE FactorPivoting(t) \/ FactorNoPivoting(t)
  <2>1. PICK new : stored' = [stored EXCEPT ![cur[t]] = new]
    BY <1>2 DEF FactorPivoting, FactorNoPivoting
  <2>2. J # cur[t] => stored'[J] = stored[J]
    BY <1>1, <2>1
  <2>3. pc[t] = "factor"
    BY <1>2 DEF FactorPivoting, FactorNoPivoting
  <2>4. owners[cur[t]] = t /\ status[t][cur[t]] # "F"
    BY <2>3 DEF StoreInv, VisitsOwnFront, ReportsOnce, OwnedLabels
  <2>5. stored[cur[t]] = NotStored
    BY <1>1, <2>3, <2>4 DEF StoreInv, StoredIsFinished, ReportLabels
  <2> QED  BY <1>2, <2>2, <2>4, <2>5
<1> QED  BY <1>2, WhoChanges

\* A stored front is finished, or its owner is about to report it.
LEMMA StoredIsFinishedStep ==
  ASSUME TypeOK, StoreInv, NEW t \in Thread, Worker(t)
  PROVE  StoredIsFinished'
<1> SUFFICES ASSUME NEW J \in Front, stored'[J] # NotStored
             PROVE  \/ status'[owners[J]][J] = "F"
                    \/ pc'[owners[J]] \in ReportLabels /\ cur'[owners[J]] = J
  BY DEF StoredIsFinished
<1>1. /\ pc \in [Thread -> Labels]
      /\ status \in [Thread -> [Front -> {"W", "A", "F", "E"}]]
      /\ owners[J] \in Thread
  BY TreeAssumption DEF TypeOK, WorkerTypeOK
<1>2. CASE stored'[J] # stored[J]
  <2>1. (FactorPivoting(t) \/ FactorNoPivoting(t)) /\ J = cur[t] /\ owners[J] = t
    BY <1>2, StoreStep
  <2>2. CASE FactorPivoting(t)
    <3>1. cur' = cur /\ pc'[t] \in {"postNothing", "postLink"}
      BY <1>1, <2>2 DEF FactorPivoting, Goto
    <3> QED  BY <2>1, <3>1 DEF ReportLabels
  <2>3. CASE FactorNoPivoting(t)
    BY <1>1, <2>1, <2>3 DEF FactorNoPivoting
  <2> QED  BY <2>1, <2>2, <2>3
<1>3. CASE stored'[J] = stored[J]
  <2>1. \/ status[owners[J]][J] = "F"
        \/ pc[owners[J]] \in ReportLabels /\ cur[owners[J]] = J
    BY <1>3 DEF StoreInv, StoredIsFinished
  <2>2. CASE owners[J] # t
    BY <1>1, <2>1, <2>2, Others
  <2>3. CASE owners[J] = t /\ status[t][J] = "F"
    <3>1. ~(FactorSingular(t) /\ J = cur[t])
      BY <2>3 DEF FactorSingular, StoreInv, ReportsOnce, OwnedLabels
    <3> QED  BY <2>3, <3>1, StaysFinished
  <2>4. CASE owners[J] = t /\ pc[t] \in ReportLabels /\ cur[t] = J
    <3>1. PostLink(t) \/ PostStore(t) \/ PostNothing(t) \/ PostDecrement(t)
      BY <2>4 DEF ReportLabels, Worker,
        Pop, Exhausted, ReturnError, ReturnFinished, ReturnActive, CheckError,
        VisitFinished, VisitOwned, VisitUnowned, PassThrough, EndVisit, AggLink, AggStore,
        AggDecrement, AggPoll, AggLoad, AggAssemble, AggCountRead, PostPoll, PostLoad,
        PostAssemble, FactorPivoting, FactorNoPivoting, FactorSingular
    <3>2. PostLink(t) \/ PostStore(t) \/ PostNothing(t) =>
            cur' = cur /\ pc'[t] \in {"postStore", "postDecrement"}
      BY <1>1 DEF PostLink, PostStore, PostNothing, Goto
    <3>3. PostDecrement(t) => status'[t][J] = "F"
      BY <1>1, <2>4 DEF PostDecrement
    <3> QED  BY <2>4, <3>1, <3>2, <3>3 DEF ReportLabels
  <2> QED  BY <2>1, <2>2, <2>3, <2>4
<1> QED  BY <1>2, <1>3

\* StoreInv holds in the initial states
LEMMA StoreInit == Init => StoreInv
<1> SUFFICES ASSUME Init PROVE StoreInv
  OBVIOUS
<1>1. VisitsOwnFront /\ ReportsOnce
  BY PostInit DEF PostCountInv
<1>2. StoredIsFinished
  BY DEF Init, StoredIsFinished
<1> QED  BY <1>1, <1>2 DEF StoreInv

\* and is kept by every step.
LEMMA StoreNext == TypeOK /\ StoreInv /\ [Next]_vars => StoreInv'
<1> SUFFICES ASSUME TypeOK, StoreInv, [Next]_vars PROVE StoreInv'
  OBVIOUS
<1>1. ASSUME NEW t \in Thread, Worker(t) PROVE StoreInv'
  BY <1>1, OwnFrontStep, ReportsOnceStep, StoredIsFinishedStep DEF StoreInv
<1>2. CASE UNCHANGED <<pc, cur, status, stored>>
  BY <1>2 DEF StoreInv, VisitsOwnFront, ReportsOnce, StoredIsFinished
<1>3. Join \/ UNCHANGED vars => UNCHANGED <<pc, cur, status, stored>>
  BY DEF Join, vars, treevars
<1> QED  BY <1>1, <1>2, <1>3 DEF Next, Returned

\* No step changes the entries of a front that are already in the factor
\* matrix: a front is not factored a second time.
THEOREM StoredOnceCorrect == Spec => StoredOnce
<1> DEFINE Keeps == \A J \in Front : stored[J] # NotStored => stored'[J] = stored[J]
<1>1. TypeOK /\ StoreInv /\ [Next]_vars => [Keeps]_vars
  <2> SUFFICES ASSUME TypeOK, StoreInv, Next PROVE Keeps \/ UNCHANGED vars
    OBVIOUS
  <2>1. ASSUME NEW t \in Thread, Worker(t) PROVE Keeps
    BY <2>1, StoreStep
  <2>2. CASE Join
    BY <2>2 DEF Join
  <2> QED  BY <2>1, <2>2 DEF Next, Returned
<1>2. Spec => []TypeOK
  BY TypeCorrect
<1> QED  BY <1>1, <1>2, StoreInit, StoreNext, PTL DEF Spec, StoredOnce

-----------------------------------------------------------------------------
(* The paths of a thread                                                   *)

\* A set of numbers has a smallest one.
LEMMA SmallestOf ==
  ASSUME NEW T \in SUBSET Nat, T # {}
  PROVE  \E m \in T : \A k \in T : m <= k
<1>1. PICK m \in T : \A k \in T : <<k, m>> \notin OpToRel(<, Nat)
  BY WFMin, NatLessThanWellFounded, Zenon
<1>2. \A k \in T : ~(k < m)
  BY <1>1, Zenon DEF OpToRel
<1> QED
  BY <1>2

\* The ancestors are closed under parents, and there is no other.
LEMMA AncestorFacts ==
  ASSUME NEW J \in Front
  PROVE  /\ Ancestors[J] \in SUBSET Front
         /\ par[J] # -1 => par[J] \in Ancestors[J]
         /\ \A M \in Ancestors[J] : par[M] # -1 => par[M] \in Ancestors[J]
         /\ \A M \in Ancestors[J] : \E C \in Children(M) : C = J \/ C \in Ancestors[J]
<1> DEFINE Closed(S) == par[J] \in S /\ \A M \in S : par[M] # -1 => par[M] \in S
<1>1. par \in [Front -> Front \cup {-1}]
  BY TreeAssumption
<1>2. CASE par[J] = -1
  BY <1>2 DEF Ancestors
<1>3. CASE par[J] # -1
  <2>1. Ancestors[J] = {K \in Front : \A S \in SUBSET Front : Closed(S) => K \in S}
    BY <1>3 DEF Ancestors
  <2>2. par[J] \in Ancestors[J]
    BY <1>1, <1>3, <2>1
  <2>3. \A M \in Ancestors[J] : par[M] # -1 => par[M] \in Ancestors[J]
    BY <1>1, <2>1
  <2>4. \A M \in Ancestors[J] : \E C \in Children(M) : C = J \/ C \in Ancestors[J]
    <3> DEFINE S == {M \in Ancestors[J] : \E C \in Children(M) : C = J \/ C \in Ancestors[J]}
    <3>1. S \in SUBSET Front
      BY <2>1
    <3>2. par[J] \in S
      BY <1>1, <1>3, <2>2 DEF Children
    <3>3. \A M \in S : par[M] # -1 => par[M] \in S
      BY <1>1, <2>1, <2>3 DEF Children
    <3> HIDE DEF S
    <3>4. \A M \in Ancestors[J] : M \in S
      BY <2>1, <3>1, <3>2, <3>3
    <3> QED  BY <3>4 DEF S
  <2> QED  BY <2>1, <2>2, <2>3, <2>4
<1> QED  BY <1>2, <1>3

\* The paths of a thread lead up to the roots.
LEMMA PathsClimb ==
  ASSUME NEW t \in Thread, NEW J \in Active[t], par[J] # -1
  PROVE  par[J] \in Active[t]
<1>1. Active[t] = Needed(t) \cup UNION {Ancestors[M] : M \in Needed(t)}
  BY DEF Active
<1>2. Needed(t) \in SUBSET Front
  BY DEF Needed
<1>3. CASE J \in Needed(t)
  BY <1>1, <1>2, <1>3, AncestorFacts
<1>4. ASSUME NEW M \in Needed(t), J \in Ancestors[M] PROVE par[J] \in Active[t]
  BY <1>1, <1>2, <1>4, AncestorFacts
<1> QED  BY <1>1, <1>3, <1>4

\* There are no more leaves than paths.
LEMMA LeavesFit ==
  ASSUME NEW t \in Thread
  PROVE  /\ ActiveLeaves(t) \in SUBSET Front /\ IsFiniteSet(ActiveLeaves(t))
         /\ Cardinality(ActiveLeaves(t)) \in Nat
         /\ Cardinality(ActiveLeaves(t)) <= Npath(t)
<1> DEFINE Tops == {J \in Needed(t) : \A I \in Needed(t) : J \notin Ancestors[I]}
<1>1. Active[t] = Needed(t) \cup UNION {Ancestors[M] : M \in Needed(t)}
  BY DEF Active
<1>2. Needed(t) \in SUBSET Front /\ Active[t] \in SUBSET Front
  BY TreeTypes DEF Needed
<1>3. ASSUME NEW J \in ActiveLeaves(t), NEW I \in Needed(t), J \in Ancestors[I]
      PROVE  FALSE
  <2>1. PICK C \in Children(J) : C = I \/ C \in Ancestors[I]
    BY <1>2, <1>3, AncestorFacts
  <2>2. C \in Active[t]
    BY <1>1, <2>1
  <2> QED  BY <2>1, <2>2 DEF ActiveLeaves
<1>4. ActiveLeaves(t) \in SUBSET Tops
  BY <1>1, <1>3 DEF ActiveLeaves
<1>5. IsFiniteSet(Tops)
  BY <1>2, FrontFinite, FS_Subset
<1>6. Npath(t) = Cardinality(Tops)
  BY DEF Npath
<1> HIDE DEF Tops
<1> QED  BY <1>2, <1>4, <1>5, <1>6, FS_Subset, FS_CardinalityType DEF ActiveLeaves

\* The dequeue a thread begins with holds every leaf once.
LEMMA LeavesLoaded ==
  ASSUME NEW t \in Thread, NEW d \in LoadedDequeues(t)
  PROVE  /\ d \in Seq(Front) /\ Len(d) <= Npath(t)
         /\ \A i, j \in 1 .. Len(d) : d[i] = d[j] => i = j
         /\ \A J \in Front : (\E i \in 1 .. Len(d) : d[i] = J) <=> J \in ActiveLeaves(t)
<1> DEFINE leaves == ActiveLeaves(t)
           n == Cardinality(leaves)
<1>1. /\ leaves \in SUBSET Front /\ IsFiniteSet(leaves) /\ n \in Nat /\ n <= Npath(t)
      /\ Npath(t) \in Nat
  BY LeavesFit, TreeTypes
<1>2. /\ d \in [1 .. n -> leaves]
      /\ \A i \in 1 .. n : {K \in leaves : K < d[i]} = {d[j] : j \in 1 .. i - 1}
  <2>1. ~(Npath(t) < n)
    BY <1>1
  <2> QED  BY <2>1 DEF LoadedDequeues
<1> HIDE DEF leaves, n
<1>3. d \in Seq(Front) /\ Len(d) = n
  <2>1. d \in [1 .. n -> Front]
    BY <1>1, <1>2
  <2> QED  BY <1>1, <2>1
<1>4. \A i, j \in 1 .. n : i < j => d[i] < d[j]
  <2> SUFFICES ASSUME NEW i \in 1 .. n, NEW j \in 1 .. n, i < j PROVE d[i] < d[j]
    OBVIOUS
  <2>1. i \in 1 .. j - 1
    BY <1>1
  <2>2. d[i] \in {d[k] : k \in 1 .. j - 1}
    BY <2>1
  <2> QED  BY <1>2, <2>2
<1>5. \A i, j \in 1 .. n : d[i] = d[j] => i = j
  <2> SUFFICES ASSUME NEW i \in 1 .. n, NEW j \in 1 .. n, d[i] = d[j], i # j PROVE FALSE
    OBVIOUS
  <2>1. d[i] \in Int /\ d[j] \in Int
    <3>1. Front \subseteq Int
      BY TreeAssumption DEF Front
    <3>2. d[i] \in leaves /\ d[j] \in leaves
      BY <1>2
    <3> QED  BY <1>1, <3>1, <3>2
  <2>2. i < j \/ j < i
    BY <1>1
  <2> QED  BY <1>4, <2>1, <2>2
<1>6. \A J \in leaves : \E i \in 1 .. n : d[i] = J
  <2>1. IsFiniteSet(1 .. n) /\ Cardinality(1 .. n) = n
    BY <1>1, FS_Interval
  <2>2. d \in Injection(1 .. n, leaves)
    BY <1>2, <1>5 DEF Injection, IsInjective
  <2>3. n = Cardinality(leaves)
    BY DEF n
  <2>4. d \in Surjection(1 .. n, leaves)
    BY <1>1, <2>1, <2>2, <2>3, FS_Injection
  <2> QED  BY <2>4 DEF Surjection
<1>7. \A J \in Front : (\E i \in 1 .. n : d[i] = J) <=> J \in leaves
  BY <1>2, <1>6
<1> QED  BY <1>1, <1>3, <1>5, <1>7 DEF leaves

-----------------------------------------------------------------------------
(* The dequeue                                                             *)

\* A front put at the head of a dequeue, and one put at the tail.
LEMMA AtHead ==
  ASSUME NEW s \in Seq(Front), NEW K \in Front
  PROVE  /\ <<K>> \o s \in Seq(Front) /\ Len(<<K>> \o s) = Len(s) + 1
         /\ \A i \in 1 .. Len(s) + 1 : (<<K>> \o s)[i] = IF i = 1 THEN K ELSE s[i - 1]
<1> QED  OBVIOUS

\* What is in a dequeue after an insertion at the tail,
LEMMA AtTail ==
  ASSUME NEW s \in Seq(Front), NEW K \in Front
  PROVE  /\ Append(s, K) \in Seq(Front) /\ Len(Append(s, K)) = Len(s) + 1
         /\ \A i \in 1 .. Len(s) + 1 :
              Append(s, K)[i] = IF i = Len(s) + 1 THEN K ELSE s[i]
<1> QED  OBVIOUS

\* and after the head has been removed.
LEMMA FromHead ==
  ASSUME NEW s \in Seq(Front), s # << >>
  PROVE  /\ Head(s) = s[1] /\ Head(s) \in Front /\ Len(s) \in Nat \ {0}
         /\ Tail(s) \in Seq(Front) /\ Len(Tail(s)) = Len(s) - 1
         /\ \A i \in 1 .. Len(s) - 1 : Tail(s)[i] = s[i + 1]
<1> QED  OBVIOUS

\* The invariant of the dequeues holds when the workers start.
LEMMA DequeInit == Init => DequeInv
<1> SUFFICES ASSUME Init PROVE DequeInv
  OBVIOUS
<1>1. \A t \in Thread : deq[t] \in LoadedDequeues(t) /\ ~CheckedOut(t) /\ pc[t] = "pop"
  BY DEF Init, CheckedOut
<1>2. ASSUME NEW t \in Thread
      PROVE  /\ Len(deq[t]) \in Nat /\ Len(deq[t]) <= Npath(t) /\ Npath(t) \in Nat
             /\ \A i, j \in 1 .. Len(deq[t]) : deq[t][i] = deq[t][j] => i = j
             /\ \A J \in Front : InDeq(t, J) <=> J \in ActiveLeaves(t)
  BY <1>1, LeavesLoaded, TreeTypes DEF InDeq
<1>3. Room /\ NoneTwice
  <2>1. ASSUME NEW t \in Thread
        PROVE  Len(deq[t]) + (IF CheckedOut(t) THEN 1 ELSE 0) <= Npath(t)
    <3>1. ~CheckedOut(t)
      BY <1>1
    <3> QED  BY <1>2, <3>1
  <2>2. NoneTwice
    BY <1>2 DEF NoneTwice
  <2> QED  BY <2>1, <2>2 DEF Room
<1>4. ASSUME NEW t \in Thread, NEW J \in Front
      PROVE  Pending(t, J) = Children(J) \cap Active[t]
  BY <1>1 DEF Init, Pending, Taken, Children
<1>5. ASSUME NEW t \in Thread, NEW J \in Front
      PROVE  /\ status[t][J] = IF J \in Active[t] THEN "W" ELSE "F"
             /\ nactiveChild[t][J] = Cardinality(Pending(t, J))
             /\ ~Taken(t, J)
             /\ InDeq(t, J) <=> J \in Active[t] /\ Pending(t, J) = {}
  BY <1>1, <1>2, <1>4 DEF Init, NactiveChild, Taken, ActiveLeaves
<1>6. InTurn
  BY <1>5 DEF InTurn
<1>7. LeavesDone
  BY <1>1 DEF LeavesDone
<1> QED  BY <1>3, <1>6, <1>7 DEF DequeInv

\* What a thread does to its own dequeue is its own business.
LEMMA DequeOthers ==
  ASSUME TypeOK, NEW t \in Thread, Worker(t), NEW u \in Thread \ {t}
  PROVE  /\ deq'[u] = deq[u] /\ nactiveChild'[u] = nactiveChild[u]
         /\ CheckedOut(u)' <=> CheckedOut(u)
         /\ \A J \in Front : /\ InDeq(u, J)' <=> InDeq(u, J)
                             /\ Taken(u, J)' <=> Taken(u, J)
                             /\ Pending(u, J)' = Pending(u, J)
<1>1. deq'[u] = deq[u]
  <2>1. deq \in [Thread -> Seq(Front)]
    BY DEF TypeOK, WorkerTypeOK
  <2>2. deq' = deq \/ \E d : deq' = [deq EXCEPT ![t] = d]
    <3>1. CASE Pop(t)
      BY <3>1 DEF Pop
    <3>2. CASE ReturnFinished(t)
      BY <3>2 DEF ReturnFinished, InsertAtHead
    <3>3. CASE ReturnActive(t)
      BY <3>3 DEF ReturnActive, InsertAtTail
    <3> QED  BY <3>1, <3>2, <3>3, WhoChanges
  <2> QED  BY <2>1, <2>2
<1>2. nactiveChild'[u] = nactiveChild[u]
  <2>1. nactiveChild \in [Thread -> [Front -> Int]]
    BY DEF TypeOK, WorkerTypeOK
  <2>2. nactiveChild' = nactiveChild \/ \E K, n : nactiveChild' = [nactiveChild EXCEPT ![t][K] = n]
    BY WhoChanges DEF ReturnFinished
  <2> QED  BY <2>1, <2>2
<1>3. pc'[u] = pc[u] /\ cur'[u] = cur[u] /\ status'[u] = status[u]
  BY Others
<1>4. CheckedOut(u)' <=> CheckedOut(u)
  BY <1>3 DEF CheckedOut
<1>5. \A J \in Front : InDeq(u, J)' <=> InDeq(u, J)
  BY <1>1 DEF InDeq
<1>6. \A J : Taken(u, J)' <=> Taken(u, J)
  BY <1>3, <1>4 DEF Taken
<1>7. \A J \in Front : Pending(u, J)' = Pending(u, J)
  BY <1>3, <1>6 DEF Pending
<1> QED  BY <1>1, <1>2, <1>4, <1>5, <1>6, <1>7

\* Once a front is reported singular, *perror stays set.
LEMMA PerrorStays ==
  ASSUME TypeOK, NEW t \in Thread, Worker(t), perror # -1
  PROVE  perror' # -1
<1>1. cur[t] # -1
  BY DEF TypeOK, WorkerTypeOK, Front
<1> QED  BY <1>1, WhoChanges DEF ReturnError

\* The steps of a visit, but not the ones before and after it, change at
\* most the status of the front visited.
LEMMA VisitSteps ==
  ASSUME TypeOK, NEW t \in Thread, Worker(t),
         ~Pop(t), ~Exhausted(t), ~ReturnError(t), ~ReturnFinished(t), ~ReturnActive(t),
         ~CheckError(t)
  PROVE  /\ CheckedOut(t) /\ CheckedOut(t)' /\ pc'[t] # "done"
         /\ cur' = cur /\ deq' = deq /\ nactiveChild' = nactiveChild /\ perror' = perror
         /\ \A J \in Front \ {cur[t]} : status'[t][J] = status[t][J]
<1>1. pc \in [Thread -> Labels]
  BY DEF TypeOK, WorkerTypeOK
<1>2. CheckedOut(t)
  BY DEF CheckedOut, Worker, VisitFinished, VisitOwned, VisitUnowned, PassThrough, EndVisit,
    AggLink, AggStore, AggDecrement, AggPoll, AggLoad, AggAssemble, AggCountRead, PostPoll,
    PostLoad, PostAssemble, FactorPivoting, FactorNoPivoting, FactorSingular, PostLink,
    PostStore, PostNothing, PostDecrement
<1>3. pc'[t] \notin {"pop", "checkError", "done"}
  BY <1>1 DEF Worker, Goto, AfterAggregates, VisitFinished, VisitOwned, VisitUnowned,
    PassThrough, EndVisit, AggLink, AggStore, AggDecrement, AggPoll, AggLoad, AggAssemble,
    AggCountRead, PostPoll, PostLoad, PostAssemble, FactorPivoting, FactorNoPivoting,
    FactorSingular, PostLink, PostStore, PostNothing, PostDecrement
<1>4. cur' = cur /\ deq' = deq /\ nactiveChild' = nactiveChild /\ perror' = perror
  BY WhoChanges
<1> QED  BY <1>2, <1>3, <1>4, StatusStep DEF CheckedOut

\* The parts of InTurn that speak of one front.
InTurnOf(t, J) ==
  /\ status[t][J] # "F" => J \in Active[t]
  /\ InDeq(t, J) => status[t][J] \in {"W", "A"} /\ ~Taken(t, J)
  /\ InDeq(t, J) \/ Taken(t, J) => J \in Active[t] /\ Pending(t, J) = {}
  /\ J \in Active[t] /\ Pending(t, J) # {} => status[t][J] = "W"
  /\ status[t][J] \in {"W", "A"} => InDeq(t, J) \/ Taken(t, J) \/ Pending(t, J) # {}
  /\ status[t][J] = "E" => Taken(t, J) \/ (pc[t] = "done" /\ perror # -1)
  /\ nactiveChild[t][J] = Cardinality(Pending(t, J))

\* InTurn, front by front.
LEMMA InTurnParts == InTurn <=> \A t \in Thread, J \in Front : InTurnOf(t, J)
  BY DEF InTurn, InTurnOf

\* The children a thread waits for are finitely many.
LEMMA PendingFinite ==
  ASSUME NEW t \in Thread, NEW K \in Front
  PROVE  /\ Pending(t, K) \in SUBSET Front /\ IsFiniteSet(Pending(t, K))
         /\ Cardinality(Pending(t, K)) \in Nat
<1>1. Pending(t, K) \in SUBSET Front
  BY DEF Pending, Children
<1> QED  BY <1>1, FrontFinite, FS_Subset

\* One front after a step of the thread, in terms of what the step leaves.
LEMMA VisitKeeps ==
  ASSUME TypeOK, TypeOK', DequeInv, NEW t \in Thread, Worker(t),
         ~Pop(t), ~Exhausted(t), ~ReturnError(t), ~ReturnFinished(t), ~ReturnActive(t),
         ~CheckError(t), NEW J \in Front
  PROVE  InTurnOf(t, J)'
<1>1. /\ CheckedOut(t) /\ CheckedOut(t)' /\ pc'[t] # "done" /\ pc[t] # "done"
      /\ cur' = cur /\ deq' = deq /\ nactiveChild' = nactiveChild
      /\ \A K \in Front \ {cur[t]} : status'[t][K] = status[t][K]
  BY VisitSteps DEF CheckedOut
<1>2. InDeq(t, J)' = InDeq(t, J) /\ \A K : Taken(t, K)' = Taken(t, K)
  BY <1>1 DEF InDeq, Taken
<1>3. \A K \in Front : K = cur[t] <=> Taken(t, K)
  BY <1>1 DEF Taken
<1>4. Pending(t, J)' = Pending(t, J)
  BY <1>1, <1>2, <1>3 DEF Pending, Children
<1>5. InTurnOf(t, J)
  BY InTurnParts DEF DequeInv
<1>6. status[t][J] \in {"W", "A", "F", "E"} /\ status'[t][J] \in {"W", "A", "F", "E"}
  BY DEF TypeOK, WorkerTypeOK
<1>7. CASE J = cur[t]
  BY <1>1, <1>2, <1>3, <1>4, <1>5, <1>6, <1>7 DEF InTurnOf
<1>8. CASE J # cur[t]
  BY <1>1, <1>2, <1>3, <1>4, <1>5, <1>6, <1>8 DEF InTurnOf
<1> QED  BY <1>7, <1>8

\* Taking a front from the head keeps the invariant of the dequeues.
LEMMA PopKeeps ==
  ASSUME TypeOK, DequeInv, NEW t \in Thread, Pop(t)
  PROVE  /\ \A J \in Front : InTurnOf(t, J)'
         /\ Len(deq'[t]) + 1 = Len(deq[t]) /\ Len(deq'[t]) \in Nat /\ ~CheckedOut(t)
         /\ \A i, j \in 1 .. Len(deq'[t]) : deq'[t][i] = deq'[t][j] => i = j
<1> DEFINE d == deq[t]
<1>1. d \in Seq(Front) /\ d # << >>
  BY DEF TypeOK, WorkerTypeOK, Pop
<1>2. /\ d[1] \in Front /\ Len(d) \in Nat \ {0}
      /\ Tail(d) \in Seq(Front) /\ Len(Tail(d)) = Len(d) - 1
      /\ \A i \in 1 .. Len(d) - 1 : Tail(d)[i] = d[i + 1]
      /\ Head(d) = d[1]
  BY <1>1, FromHead
<1>3. /\ deq'[t] = Tail(d) /\ cur'[t] = d[1] /\ pc[t] = "pop" /\ pc'[t] = "visit"
      /\ status' = status /\ nactiveChild' = nactiveChild
  BY <1>2 DEF Pop, Goto, TypeOK, WorkerTypeOK
<1>4. ~CheckedOut(t) /\ CheckedOut(t)'
  BY <1>3 DEF CheckedOut
<1>5. \A J : Taken(t, J)' <=> J = d[1]
  BY <1>3, <1>4 DEF Taken
<1>6. \A J : ~Taken(t, J)
  BY <1>4 DEF Taken
<1>7. InDeq(t, d[1])
  BY <1>2 DEF InDeq
<1>8. \A i, j \in 1 .. Len(d) : d[i] = d[j] => i = j
  BY DEF DequeInv, NoneTwice
<1>9. \A J \in Front : InDeq(t, J)' <=> InDeq(t, J) /\ J # d[1]
  <2> SUFFICES ASSUME NEW J \in Front PROVE InDeq(t, J)' <=> InDeq(t, J) /\ J # d[1]
    OBVIOUS
  <2>1. InDeq(t, J)' <=> \E i \in 1 .. Len(d) - 1 : d[i + 1] = J
    BY <1>2, <1>3 DEF InDeq
  <2>2. InDeq(t, J) <=> \E i \in 1 .. Len(d) : d[i] = J
    BY DEF InDeq
  <2> HIDE DEF d
  <2>3. ASSUME NEW i \in 1 .. Len(d) - 1, d[i + 1] = J
        PROVE  (\E k \in 1 .. Len(d) : d[k] = J) /\ J # d[1]
    <3>1. i + 1 \in 1 .. Len(d) /\ 1 \in 1 .. Len(d) /\ i + 1 # 1
      BY <1>2
    <3> QED  BY <1>8, <2>3, <3>1
  <2>4. ASSUME NEW k \in 1 .. Len(d), d[k] = J, J # d[1]
        PROVE  \E i \in 1 .. Len(d) - 1 : d[i + 1] = J
    <3>1. k - 1 \in 1 .. Len(d) - 1 /\ (k - 1) + 1 = k
      BY <1>2, <2>4
    <3> QED  BY <2>4, <3>1
  <2> QED  BY <2>1, <2>2, <2>3, <2>4
<1>10. \A J \in Front : InTurnOf(t, J)
  BY InTurnParts DEF DequeInv
<1>11. status[t][d[1]] \in {"W", "A"} /\ d[1] \in Active[t] /\ Pending(t, d[1]) = {}
  BY <1>2, <1>7, <1>10 DEF InTurnOf
<1> HIDE DEF d
<1>12. \A J \in Front : Pending(t, J)' = Pending(t, J)
  BY <1>3, <1>5, <1>6, <1>11 DEF Pending
<1>13. ASSUME NEW J \in Front PROVE InTurnOf(t, J)'
  <2>1. InTurnOf(t, J)
    BY <1>10
  <2> QED  BY <2>1, <1>3, <1>5, <1>6, <1>9, <1>11, <1>12 DEF InTurnOf
<1>14. \A i, j \in 1 .. Len(deq'[t]) : deq'[t][i] = deq'[t][j] => i = j
  <2> SUFFICES ASSUME NEW i \in 1 .. Len(d) - 1, NEW j \in 1 .. Len(d) - 1, d[i + 1] = d[j + 1]
               PROVE  i = j
    BY <1>2, <1>3
  <2>1. i + 1 \in 1 .. Len(d) /\ j + 1 \in 1 .. Len(d)
    BY <1>2
  <2> QED  BY <1>8, <2>1
<1> QED  BY <1>2, <1>3, <1>4, <1>13, <1>14 DEF d

\* So does finding the dequeue empty,
LEMMA ExhaustedKeeps ==
  ASSUME TypeOK, DequeInv, NEW t \in Thread, Exhausted(t)
  PROVE  /\ \A J \in Front : InTurnOf(t, J)'
         /\ \A J \in Front : status[t][J] = "F"
         /\ ~CheckedOut(t) /\ ~CheckedOut(t)' /\ deq' = deq /\ status' = status
<1>1. /\ pc[t] = "pop" /\ pc'[t] = "done" /\ deq[t] = << >> /\ deq' = deq
      /\ status' = status /\ nactiveChild' = nactiveChild /\ cur' = cur
  BY DEF Exhausted, Goto, TypeOK, WorkerTypeOK, treevars
<1>2. ~CheckedOut(t) /\ ~CheckedOut(t)'
  BY <1>1 DEF CheckedOut
<1>3. \A J \in Front : ~Taken(t, J) /\ ~Taken(t, J)' /\ ~InDeq(t, J)
  BY <1>1, <1>2 DEF Taken, InDeq
<1>4. \A J \in Front : InDeq(t, J)' = InDeq(t, J) /\ Pending(t, J)' = Pending(t, J)
  BY <1>1, <1>3 DEF InDeq, Pending, Children
<1>5. \A J \in Front : InTurnOf(t, J)
  BY InTurnParts DEF DequeInv
<1>6. \A J \in Front : status[t][J] \in {"W", "A", "F", "E"}
  BY DEF TypeOK, WorkerTypeOK
<1>7. \A J \in Front : status[t][J] = "F"
  <2> DEFINE T == {J \in Front : status[t][J] # "F"}
  <2>1. SUFFICES ASSUME T # {} PROVE FALSE
    OBVIOUS
  <2>2. T \in SUBSET Nat
    BY DEF Front
  <2>3. PICK m \in T : \A k \in T : m <= k
    BY <2>1, <2>2, SmallestOf
  <2>4. Pending(t, m) # {}
    BY <1>1, <1>3, <1>5, <1>6 DEF InTurnOf
  <2>5. PICK I \in Children(m) : status[t][I] # "F"
    BY <1>3, <2>4 DEF Pending, Children
  <2>6. I \in T /\ I < m
    BY <2>5, TreeAssumption DEF Children, Front
  <2> QED  BY <2>2, <2>3, <2>6
<1>8. \A J \in Front : InTurnOf(t, J)'
  BY <1>1, <1>3, <1>4, <1>5, <1>7 DEF InTurnOf
<1> QED  BY <1>1, <1>2, <1>7, <1>8

\* and returning from a visit with a singular front.
LEMMA ReturnErrorKeeps ==
  ASSUME TypeOK, DequeInv, NEW t \in Thread, ReturnError(t)
  PROVE  /\ \A J \in Front : InTurnOf(t, J)'
         /\ CheckedOut(t) /\ ~CheckedOut(t)' /\ deq' = deq /\ perror' # -1
<1>1. /\ pc[t] = "return" /\ pc'[t] = "done" /\ deq' = deq /\ perror' = cur[t]
      /\ status' = status /\ nactiveChild' = nactiveChild /\ cur' = cur
      /\ status[t][cur[t]] = "E" /\ cur[t] \in Front /\ cur[t] # -1
  BY DEF ReturnError, Goto, TypeOK, WorkerTypeOK, treevars, Front
<1>2. CheckedOut(t) /\ ~CheckedOut(t)'
  BY <1>1 DEF CheckedOut
<1>3. \A J \in Front : (Taken(t, J) <=> J = cur[t]) /\ ~Taken(t, J)'
  BY <1>1, <1>2 DEF Taken
<1>4. \A J \in Front : InDeq(t, J)' = InDeq(t, J) /\ Pending(t, J)' = Pending(t, J)
  BY <1>1, <1>3 DEF InDeq, Pending, Children
<1>5. \A J \in Front : InTurnOf(t, J)
  BY InTurnParts DEF DequeInv
<1>6. \A J \in Front : InTurnOf(t, J)'
  BY <1>1, <1>3, <1>4, <1>5 DEF InTurnOf
<1> QED  BY <1>1, <1>2, <1>6

\* The front goes to the end of the dequeue.
LEMMA ReturnActiveKeeps ==
  ASSUME TypeOK, DequeInv, NEW t \in Thread, ReturnActive(t)
  PROVE  /\ \A J \in Front : InTurnOf(t, J)'
         /\ CheckedOut(t) /\ ~CheckedOut(t)'
         /\ Len(deq'[t]) = Len(deq[t]) + 1 /\ Len(deq[t]) \in Nat
         /\ \A i, j \in 1 .. Len(deq'[t]) : deq'[t][i] = deq'[t][j] => i = j
<1> DEFINE d == deq[t]
           J0 == cur[t]
<1>1. /\ pc[t] = "return" /\ pc'[t] = "checkError"
      /\ status' = status /\ nactiveChild' = nactiveChild /\ cur' = cur
      /\ status[t][J0] \in {"W", "A"} /\ J0 \in Front
      /\ d \in Seq(Front) /\ Len(d) \in Nat
      /\ deq'[t] = IF Len(d) < Npath(t) THEN Append(d, J0) ELSE d
  BY DEF ReturnActive, InsertAtTail, Goto, TypeOK, WorkerTypeOK
<1>2. CheckedOut(t) /\ ~CheckedOut(t)'
  BY <1>1 DEF CheckedOut
<1>3. Len(d) < Npath(t)
  <2>1. Len(d) + (IF CheckedOut(t) THEN 1 ELSE 0) <= Npath(t)
    BY DEF DequeInv, Room
  <2> QED  BY <1>1, <1>2, <2>1, TreeTypes
<1>4. \A J \in Front : (Taken(t, J) <=> J = J0) /\ ~Taken(t, J)'
  BY <1>1, <1>2 DEF Taken
<1>5. deq'[t] = Append(d, J0)
  BY <1>1, <1>3
<1>6. /\ Len(deq'[t]) = Len(d) + 1
      /\ \A i \in 1 .. Len(d) + 1 : deq'[t][i] = IF i = Len(d) + 1 THEN J0 ELSE d[i]
  BY <1>1, <1>5, AtTail
<1>7. \A J \in Front : Pending(t, J)' = Pending(t, J)
  BY <1>1, <1>4 DEF Pending, Children
<1>8. \A J \in Front : InTurnOf(t, J)
  BY InTurnParts DEF DequeInv
<1>9. ~InDeq(t, J0)
  BY <1>1, <1>4, <1>8 DEF InTurnOf
<1>10. \A i, j \in 1 .. Len(d) : d[i] = d[j] => i = j
  BY DEF DequeInv, NoneTwice
<1>11. \A i \in 1 .. Len(d) : d[i] # J0
  BY <1>9 DEF InDeq
<1> HIDE DEF d
<1>12. \A J \in Front : InDeq(t, J)' <=> InDeq(t, J) \/ J = J0
  <2> SUFFICES ASSUME NEW J \in Front PROVE InDeq(t, J)' <=> InDeq(t, J) \/ J = J0
    OBVIOUS
  <2>1. InDeq(t, J)' <=> \E i \in 1 .. Len(d) + 1 : deq'[t][i] = J
    BY <1>6 DEF InDeq
  <2>2. InDeq(t, J) <=> \E i \in 1 .. Len(d) : d[i] = J
    BY DEF InDeq, d
  <2>3. Len(d) + 1 \in 1 .. Len(d) + 1 /\ deq'[t][Len(d) + 1] = J0
    BY <1>1, <1>6
  <2>4. \A i \in 1 .. Len(d) : i \in 1 .. Len(d) + 1 /\ deq'[t][i] = d[i]
    BY <1>1, <1>6
  <2>5. \A i \in 1 .. Len(d) + 1 : i \in 1 .. Len(d) \/ i = Len(d) + 1
    BY <1>1
  <2> QED  BY <2>1, <2>2, <2>3, <2>4, <2>5
<1>13. ASSUME NEW J \in Front PROVE InTurnOf(t, J)'
  <2>1. InTurnOf(t, J)
    BY <1>8
  <2>2. CASE J = J0
    BY <2>1, <2>2, <1>1, <1>4, <1>7, <1>12 DEF InTurnOf
  <2>3. CASE J # J0
    BY <2>1, <2>3, <1>1, <1>4, <1>7, <1>12 DEF InTurnOf
  <2> QED  BY <2>2, <2>3
<1>14. \A i, j \in 1 .. Len(d) + 1 : deq'[t][i] = deq'[t][j] => i = j
  BY <1>1, <1>6, <1>10, <1>11
<1> QED  BY <1>1, <1>2, <1>6, <1>13, <1>14 DEF d

\* The parent, when this was its last child, goes to the head of the dequeue.
LEMMA ReturnFinishedKeeps ==
  ASSUME TypeOK, DequeInv, NEW t \in Thread, ReturnFinished(t)
  PROVE  /\ \A J \in Front : InTurnOf(t, J)'
         /\ CheckedOut(t) /\ ~CheckedOut(t)'
         /\ Len(deq'[t]) \in Nat /\ Len(deq[t]) \in Nat /\ Len(deq'[t]) <= Len(deq[t]) + 1
         /\ \A i, j \in 1 .. Len(deq'[t]) : deq'[t][i] = deq'[t][j] => i = j
<1>0. PICK J0 \in Front : J0 = cur[t]
  BY DEF TypeOK, WorkerTypeOK
<1> DEFINE d == deq[t]
           K == par[J0]
<1>1. /\ cur[t] = J0 /\ cur'[t] = J0 /\ pc[t] = "return" /\ pc'[t] = "checkError"
      /\ status' = status /\ cur' = cur
      /\ status[t][J0] = "F" /\ J0 \in Front
      /\ d \in Seq(Front) /\ Len(d) \in Nat
      /\ K = -1 => deq'[t] = d /\ nactiveChild' = nactiveChild
  BY <1>0 DEF ReturnFinished, Goto, TypeOK, WorkerTypeOK
<1>2. CheckedOut(t) /\ ~CheckedOut(t)'
  BY <1>1 DEF CheckedOut
<1>3. \A J \in Front : (Taken(t, J) <=> J = J0) /\ ~Taken(t, J)'
  BY <1>1, <1>2 DEF Taken
<1>4. \A J \in Front : InTurnOf(t, J)
  BY InTurnParts DEF DequeInv
<1>5. \A i, j \in 1 .. Len(d) : d[i] = d[j] => i = j
  BY DEF DequeInv, NoneTwice
<1>6. \A J \in Front : Pending(t, J)' = Pending(t, J) \ {J0}
  BY <1>1, <1>3 DEF Pending, Children
<1>7. J0 \in Active[t] /\ ~InDeq(t, J0)
  BY <1>1, <1>3, <1>4 DEF InTurnOf
<1>8. \A J \in Front : J # K => J0 \notin Pending(t, J)
  BY DEF Pending, Children
<1>9. CASE K = -1
  <2>1. deq'[t] = deq[t] /\ nactiveChild' = nactiveChild
    BY <1>1, <1>9
  <2>2. \A J \in Front : InDeq(t, J)' <=> InDeq(t, J)
    BY <2>1 DEF InDeq
  <2>3. \A J \in Front : Pending(t, J)' = Pending(t, J)
    BY <1>6, <1>8, <1>9 DEF Front
  <2>4. ASSUME NEW J \in Front PROVE InTurnOf(t, J)'
    <3>1. InTurnOf(t, J)
      BY <1>4
    <3> QED  BY <3>1, <1>1, <1>3, <1>7, <2>1, <2>2, <2>3 DEF InTurnOf
  <2> QED  BY <1>1, <1>2, <1>5, <2>1, <2>4
<1>10. CASE K # -1
  <2>1. K \in Front /\ K # J0 /\ K \in Active[t] /\ J0 \in Children(K)
    <3>1. K \in Front /\ K > J0
      BY <1>10, TreeAssumption
    <3>2. K \in Active[t]
      BY <1>7, <1>10, PathsClimb
    <3>3. K # J0
      BY <3>1 DEF Front
    <3> QED  BY <3>1, <3>2, <3>3 DEF Children
  <2>2. J0 \in Pending(t, K)
    BY <1>1, <1>3, <1>7, <2>1 DEF Pending
  <2>3. status[t][K] = "W" /\ nactiveChild[t][K] = Cardinality(Pending(t, K)) /\ ~InDeq(t, K)
    BY <1>4, <2>1, <2>2 DEF InTurnOf
  <2>4. /\ \A J \in Front : nactiveChild'[t][J] = IF J = K THEN nactiveChild[t][J] - 1
                                                  ELSE nactiveChild[t][J]
        /\ deq'[t] = IF nactiveChild[t][K] = 1 /\ Len(d) < Npath(t) THEN <<K>> \o d ELSE d
    <3>1. /\ nactiveChild' = [nactiveChild EXCEPT ![t][K] = @ - 1]
          /\ nactiveChild[t][K] = 1 => InsertAtHead(t, K)
          /\ nactiveChild[t][K] # 1 => deq' = deq
      BY <1>1, <1>10 DEF ReturnFinished
    <3>2. nactiveChild \in [Thread -> [Front -> Int]] /\ deq \in [Thread -> Seq(Front)]
      BY DEF TypeOK, WorkerTypeOK
    <3>3. \A J \in Front : nactiveChild'[t][J] = IF J = K THEN nactiveChild[t][J] - 1
                                                  ELSE nactiveChild[t][J]
      BY <2>1, <3>1, <3>2
    <3>4. InsertAtHead(t, K) => deq'[t] = IF Len(d) < Npath(t) THEN <<K>> \o d ELSE d
      BY <3>2 DEF InsertAtHead
    <3> QED  BY <3>1, <3>3, <3>4
  <2>5. Len(d) < Npath(t)
    <3>1. Len(d) + (IF CheckedOut(t) THEN 1 ELSE 0) <= Npath(t)
      BY DEF DequeInv, Room
    <3> QED  BY <1>1, <1>2, <3>1, TreeTypes
  <2>6. /\ IsFiniteSet(Pending(t, K)) /\ Cardinality(Pending(t, K)) \in Nat
        /\ Cardinality(Pending(t, K)') = Cardinality(Pending(t, K)) - 1
        /\ IsFiniteSet(Pending(t, K)')
    <3>1. Pending(t, K)' = Pending(t, K) \ {J0}
      BY <1>6, <2>1
    <3>2. IsFiniteSet(Pending(t, K)) /\ Cardinality(Pending(t, K)) \in Nat
      BY <2>1, PendingFinite
    <3>3. /\ IsFiniteSet(Pending(t, K) \ {J0})
          /\ Cardinality(Pending(t, K) \ {J0}) = Cardinality(Pending(t, K)) - 1
      BY <2>2, <3>2, FS_RemoveElement
    <3> QED  BY <3>1, <3>2, <3>3
  <2>7. Pending(t, K)' = {} <=> nactiveChild[t][K] = 1
    BY <2>3, <2>6, FS_EmptySet
  <2>8. \A J \in Front : J # K => Pending(t, J)' = Pending(t, J)
    BY <1>6, <1>8
  <2>9. CASE nactiveChild[t][K] = 1
    <3>1. deq'[t] = <<K>> \o d
      BY <2>4, <2>5, <2>9
    <3>2. /\ Len(deq'[t]) = Len(d) + 1
          /\ \A i \in 1 .. Len(d) + 1 : deq'[t][i] = IF i = 1 THEN K ELSE d[i - 1]
      BY <1>1, <2>1, <3>1, AtHead
    <3>3. \A i \in 1 .. Len(d) : d[i] # K
      BY <2>3 DEF InDeq
    <3> HIDE DEF d
    <3>4. \A J \in Front : InDeq(t, J)' <=> InDeq(t, J) \/ J = K
      <4> SUFFICES ASSUME NEW J \in Front PROVE InDeq(t, J)' <=> InDeq(t, J) \/ J = K
        OBVIOUS
      <4>1. InDeq(t, J)' <=> \E i \in 1 .. Len(d) + 1 : deq'[t][i] = J
        BY <3>2 DEF InDeq
      <4>2. InDeq(t, J) <=> \E i \in 1 .. Len(d) : d[i] = J
        BY DEF InDeq, d
      <4>3. 1 \in 1 .. Len(d) + 1 /\ deq'[t][1] = K
        BY <1>1, <3>2
      <4>4. \A i \in 1 .. Len(d) : i + 1 \in 1 .. Len(d) + 1 /\ deq'[t][i + 1] = d[i]
        <5> SUFFICES ASSUME NEW i \in 1 .. Len(d)
                     PROVE  i + 1 \in 1 .. Len(d) + 1 /\ deq'[t][i + 1] = d[i]
          OBVIOUS
        <5>1. i + 1 \in 1 .. Len(d) + 1 /\ i + 1 # 1 /\ (i + 1) - 1 = i
          BY <1>1
        <5> QED  BY <3>2, <5>1
      <4>5. \A i \in 1 .. Len(d) + 1 :
              i = 1 \/ (i - 1 \in 1 .. Len(d) /\ deq'[t][i] = d[i - 1])
        BY <1>1, <3>2
      <4>6. ASSUME NEW i \in 1 .. Len(d) + 1, deq'[t][i] = J
            PROVE  InDeq(t, J) \/ J = K
        BY <4>2, <4>3, <4>5, <4>6
      <4>7. InDeq(t, J) => InDeq(t, J)'
        BY <4>1, <4>2, <4>4
      <4>8. J = K => InDeq(t, J)'
        BY <4>1, <4>3
      <4> QED  BY <4>1, <4>6, <4>7, <4>8
    <3>5. ASSUME NEW J \in Front PROVE InTurnOf(t, J)'
      <4>1. InTurnOf(t, J)
        BY <1>4
      <4>2. CASE J = K
        <5>1. nactiveChild'[t][J] = Cardinality(Pending(t, J)')
          BY <2>3, <2>4, <2>6, <4>2
        <5> QED  BY <4>1, <4>2, <5>1, <1>1, <1>3, <2>1, <2>3, <2>7, <2>9, <3>4 DEF InTurnOf
      <4>3. CASE J # K
        BY <4>1, <4>3, <1>1, <1>3, <1>7, <2>4, <2>8, <3>4 DEF InTurnOf
      <4> QED  BY <4>2, <4>3
    <3>6. \A i, j \in 1 .. Len(d) + 1 : deq'[t][i] = deq'[t][j] => i = j
      <4> SUFFICES ASSUME NEW i \in 1 .. Len(d) + 1, NEW j \in 1 .. Len(d) + 1,
                          deq'[t][i] = deq'[t][j]
                   PROVE  i = j
        OBVIOUS
      <4>1. /\ i # 1 => i - 1 \in 1 .. Len(d)
            /\ j # 1 => j - 1 \in 1 .. Len(d)
        BY <1>1
      <4>2. i = 1 <=> j = 1
        BY <3>2, <3>3, <4>1
      <4>3. CASE i # 1 /\ j # 1
        <5>1. i - 1 = j - 1
          BY <1>5, <3>2, <4>1, <4>3 DEF d
        <5> QED  BY <1>1, <5>1
      <4> QED  BY <4>2, <4>3
    <3> QED  BY <1>1, <1>2, <3>2, <3>5, <3>6 DEF d
  <2>10. CASE nactiveChild[t][K] # 1
    <3>1. deq'[t] = deq[t]
      BY <2>4, <2>10
    <3>2. \A J \in Front : InDeq(t, J)' <=> InDeq(t, J)
      BY <3>1 DEF InDeq
    <3>3. ASSUME NEW J \in Front PROVE InTurnOf(t, J)'
      <4>1. InTurnOf(t, J)
        BY <1>4
      <4>2. CASE J = K
        <5>1. nactiveChild'[t][J] = Cardinality(Pending(t, J)')
          BY <2>3, <2>4, <2>6, <4>2
        <5> QED  BY <4>1, <4>2, <5>1, <1>1, <1>3, <2>1, <2>3, <2>7, <2>10, <3>2 DEF InTurnOf
      <4>3. CASE J # K
        BY <4>1, <4>3, <1>1, <1>3, <1>7, <2>4, <2>8, <3>2 DEF InTurnOf
      <4> QED  BY <4>2, <4>3
    <3> QED  BY <1>1, <1>2, <1>5, <3>1, <3>3
  <2> QED  BY <2>9, <2>10
<1> QED  BY <1>9, <1>10

\* Leaving the loop because of *perror keeps it.
LEMMA CheckErrorKeeps ==
  ASSUME TypeOK, DequeInv, NEW t \in Thread, CheckError(t)
  PROVE  /\ \A J \in Front : InTurnOf(t, J)'
         /\ ~CheckedOut(t) /\ ~CheckedOut(t)' /\ deq' = deq /\ perror' = perror
         /\ pc'[t] = "done" => perror # -1
<1>1. /\ pc[t] = "checkError" /\ pc'[t] = IF perror >= 0 THEN "done" ELSE "pop"
      /\ deq' = deq /\ perror' = perror
      /\ status' = status /\ nactiveChild' = nactiveChild /\ cur' = cur
  BY DEF CheckError, Goto, TypeOK, WorkerTypeOK, treevars
<1>2. ~CheckedOut(t) /\ ~CheckedOut(t)'
  BY <1>1 DEF CheckedOut
<1>3. \A J \in Front : ~Taken(t, J) /\ ~Taken(t, J)'
  BY <1>2 DEF Taken
<1>4. \A J \in Front : InDeq(t, J)' = InDeq(t, J) /\ Pending(t, J)' = Pending(t, J)
  BY <1>1, <1>3 DEF InDeq, Pending, Children
<1>5. \A J \in Front : InTurnOf(t, J)
  BY InTurnParts DEF DequeInv
<1>6. \A J \in Front : InTurnOf(t, J)'
  BY <1>1, <1>3, <1>4, <1>5 DEF InTurnOf
<1>7. pc'[t] = "done" => perror # -1
  BY <1>1
<1> QED  BY <1>1, <1>2, <1>6, <1>7

\* So every step of a worker keeps it,
LEMMA DequeWorker ==
  ASSUME TypeOK, TypeOK', DequeInv, NEW t \in Thread, Worker(t)
  PROVE  DequeInv'
<1> DEFINE Visits == /\ ~Pop(t) /\ ~Exhausted(t) /\ ~ReturnError(t)
                     /\ ~ReturnFinished(t) /\ ~ReturnActive(t) /\ ~CheckError(t)
           Mine == /\ \A J \in Front : InTurnOf(t, J)'
                   /\ \A i, j \in 1 .. Len(deq'[t]) : deq'[t][i] = deq'[t][j] => i = j
                   /\ Len(deq'[t]) + (IF CheckedOut(t)' THEN 1 ELSE 0) <= Npath(t)
                   /\ pc'[t] = "done" =>
                        perror' # -1 \/ \A J \in Front : status'[t][J] = "F"
<1>1. /\ Len(deq[t]) + (IF CheckedOut(t) THEN 1 ELSE 0) <= Npath(t)
      /\ \A i, j \in 1 .. Len(deq[t]) : deq[t][i] = deq[t][j] => i = j
      /\ pc[t] = "done" => perror # -1 \/ \A J \in Front : status[t][J] = "F"
      /\ Npath(t) \in Nat /\ Len(deq[t]) \in Nat
  <2>1. Len(deq[t]) + (IF CheckedOut(t) THEN 1 ELSE 0) <= Npath(t)
    BY DEF DequeInv, Room
  <2>2. \A i, j \in 1 .. Len(deq[t]) : deq[t][i] = deq[t][j] => i = j
    BY DEF DequeInv, NoneTwice
  <2>3. pc[t] = "done" => perror # -1 \/ \A J \in Front : status[t][J] = "F"
    BY DEF DequeInv, LeavesDone
  <2>4. Npath(t) \in Nat /\ Len(deq[t]) \in Nat
    BY TreeTypes DEF TypeOK, WorkerTypeOK
  <2> QED  BY <2>1, <2>2, <2>3, <2>4
<1>2. Mine
  <2>1. CASE Visits
    BY <1>1, <2>1, VisitSteps, VisitKeeps
  <2>2. CASE Pop(t)
    <3>1. CheckedOut(t)' /\ pc'[t] # "done"
      BY <2>2 DEF Pop, Goto, CheckedOut, TypeOK, WorkerTypeOK
    <3>2. /\ \A J \in Front : InTurnOf(t, J)'
          /\ Len(deq'[t]) + 1 = Len(deq[t]) /\ Len(deq'[t]) \in Nat /\ ~CheckedOut(t)
          /\ \A i, j \in 1 .. Len(deq'[t]) : deq'[t][i] = deq'[t][j] => i = j
      BY <2>2, PopKeeps
    <3> QED  BY <1>1, <3>1, <3>2
  <2>3. CASE Exhausted(t)
    BY <1>1, <2>3, ExhaustedKeeps
  <2>4. CASE ReturnError(t)
    <3>1. /\ \A J \in Front : InTurnOf(t, J)'
          /\ CheckedOut(t) /\ ~CheckedOut(t)' /\ deq' = deq /\ perror' # -1
      BY <2>4, ReturnErrorKeeps
    <3> QED  BY <1>1, <3>1
  <2>5. CASE ReturnFinished(t)
    <3>1. pc'[t] # "done"
      BY <2>5 DEF ReturnFinished, Goto, TypeOK, WorkerTypeOK
    <3>2. /\ \A J \in Front : InTurnOf(t, J)'
          /\ CheckedOut(t) /\ ~CheckedOut(t)'
          /\ Len(deq'[t]) \in Nat /\ Len(deq'[t]) <= Len(deq[t]) + 1
          /\ \A i, j \in 1 .. Len(deq'[t]) : deq'[t][i] = deq'[t][j] => i = j
      BY <2>5, ReturnFinishedKeeps
    <3> QED  BY <1>1, <3>1, <3>2
  <2>6. CASE ReturnActive(t)
    <3>1. pc'[t] # "done"
      BY <2>6 DEF ReturnActive, Goto, TypeOK, WorkerTypeOK
    <3>2. /\ \A J \in Front : InTurnOf(t, J)'
          /\ CheckedOut(t) /\ ~CheckedOut(t)'
          /\ Len(deq'[t]) = Len(deq[t]) + 1
          /\ \A i, j \in 1 .. Len(deq'[t]) : deq'[t][i] = deq'[t][j] => i = j
      BY <2>6, ReturnActiveKeeps
    <3> QED  BY <1>1, <3>1, <3>2
  <2>7. CASE CheckError(t)
    BY <1>1, <2>7, CheckErrorKeeps
  <2> QED  BY <2>1, <2>2, <2>3, <2>4, <2>5, <2>6, <2>7
<1> HIDE DEF Mine
<1>3. ASSUME NEW u \in Thread \ {t}
      PROVE  /\ deq'[u] = deq[u] /\ nactiveChild'[u] = nactiveChild[u]
             /\ CheckedOut(u)' <=> CheckedOut(u)
             /\ \A J \in Front : /\ InDeq(u, J)' <=> InDeq(u, J)
                                 /\ Taken(u, J)' <=> Taken(u, J)
                                 /\ Pending(u, J)' = Pending(u, J)
             /\ pc'[u] = pc[u] /\ status'[u] = status[u]
  BY DequeOthers, Others
<1>4. Room'
  <2>1. \A u \in Thread \ {t} : Len(deq'[u]) + (IF CheckedOut(u)' THEN 1 ELSE 0) <= Npath(u)
    BY <1>3 DEF DequeInv, Room
  <2> QED  BY <1>2, <2>1 DEF Room, Mine
<1>5. NoneTwice'
  <2>1. \A u \in Thread \ {t} : \A i, j \in 1 .. Len(deq'[u]) : deq'[u][i] = deq'[u][j] => i = j
    BY <1>3 DEF DequeInv, NoneTwice
  <2> QED  BY <1>2, <2>1 DEF NoneTwice, Mine
<1>6. InTurn'
  <2>1. ASSUME NEW u \in Thread \ {t}, NEW J \in Front PROVE InTurnOf(u, J)'
    <3>1. InTurnOf(u, J)
      BY InTurnParts DEF DequeInv
    <3>2. perror # -1 => perror' # -1
      BY PerrorStays
    <3> QED  BY <1>3, <3>1, <3>2 DEF InTurnOf
  <2>2. \A u \in Thread, J \in Front : InTurnOf(u, J)'
    BY <1>2, <2>1 DEF Mine
  <2> QED  BY <2>2 DEF InTurn, InTurnOf
<1>7. LeavesDone'
  <2>1. perror # -1 => perror' # -1
    BY PerrorStays
  <2>2. ASSUME NEW u \in Thread \ {t}, pc'[u] = "done"
        PROVE  perror' # -1 \/ \A J \in Front : status'[u][J] = "F"
    BY <1>3, <2>1, <2>2 DEF DequeInv, LeavesDone
  <2> QED  BY <1>2, <2>2 DEF LeavesDone, Mine
<1> QED  BY <1>4, <1>5, <1>6, <1>7 DEF DequeInv

\* and every step of the program.
LEMMA DequeNext ==
  ASSUME TypeOK, TypeOK', DequeInv, [Next]_vars
  PROVE  DequeInv'
<1>1. ASSUME NEW t \in Thread, Worker(t) PROVE DequeInv'
  BY <1>1, DequeWorker
<1>2. CASE pc' = pc /\ cur' = cur /\ status' = status /\ deq' = deq
             /\ nactiveChild' = nactiveChild /\ perror' = perror
  <2>1. \A t \in Thread : CheckedOut(t)' = CheckedOut(t)
    BY <1>2 DEF CheckedOut
  <2>2. Room' /\ NoneTwice' /\ LeavesDone'
    BY <1>2, <2>1 DEF DequeInv, Room, NoneTwice, LeavesDone
  <2>3. \A t \in Thread, J \in Front : InDeq(t, J)' = InDeq(t, J) /\ Taken(t, J)' = Taken(t, J)
    BY <1>2, <2>1 DEF InDeq, Taken
  <2>4. \A t \in Thread, J \in Front : Pending(t, J)' = Pending(t, J)
    BY <1>2, <2>3 DEF Pending, Children
  <2>5. InTurn'
    BY <1>2, <2>3, <2>4 DEF DequeInv, InTurn
  <2> QED  BY <2>2, <2>5 DEF DequeInv
<1>3. CASE Join \/ Returned \/ UNCHANGED vars
  BY <1>2, <1>3 DEF Join, Returned, vars, treevars
<1> QED  BY <1>1, <1>3 DEF Next

\* Every visit frees the place its front or its parent is put into, no front
\* is in a dequeue twice, and a front is visited when its active children are
\* done.
THEOREM DequeCorrect == Spec => [](TypeOK /\ DequeInv)
<1>1. TypeOK /\ DequeInv /\ [Next]_vars /\ TypeOK' => DequeInv'
  BY DequeNext
<1> QED  BY <1>1, DequeInit, TypeCorrect, PTL DEF Spec

\* The insertions into a dequeue, whose result the code ignores, never meet a
\* full one, and a front a thread still has to deal with is in its dequeue,
\* being visited, or waits for an active child.
THEOREM NoFrontIsDroppedCorrect == Spec => []NoFrontIsDropped
<1>1. TypeOK /\ DequeInv => NoFrontIsDropped
  <2> SUFFICES ASSUME TypeOK, DequeInv, NEW t \in Thread
               PROVE  /\ Len(deq[t]) + (IF CheckedOut(t) THEN 1 ELSE 0) <= Npath(t)
                      /\ \A J \in Front : status[t][J] \in {"W", "A"} =>
                           \/ \E i \in 1 .. Len(deq[t]) : deq[t][i] = J
                           \/ CheckedOut(t) /\ cur[t] = J
                           \/ \E I \in Children(J) : \/ status[t][I] \in {"W", "A", "E"}
                                                     \/ CheckedOut(t) /\ cur[t] = I
    BY DEF NoFrontIsDropped
  <2>1. Len(deq[t]) + (IF CheckedOut(t) THEN 1 ELSE 0) <= Npath(t)
    BY DEF DequeInv, Room
  <2>2. ASSUME NEW J \in Front, status[t][J] \in {"W", "A"}
        PROVE  \/ \E i \in 1 .. Len(deq[t]) : deq[t][i] = J
               \/ CheckedOut(t) /\ cur[t] = J
               \/ \E I \in Children(J) : \/ status[t][I] \in {"W", "A", "E"}
                                         \/ CheckedOut(t) /\ cur[t] = I
    <3>1. InDeq(t, J) \/ Taken(t, J) \/ Pending(t, J) # {}
      BY <2>2 DEF DequeInv, InTurn
    <3>2. \A I \in Children(J) : status[t][I] \in {"W", "A", "F", "E"}
      BY DEF TypeOK, WorkerTypeOK, Children
    <3> QED  BY <3>1, <3>2 DEF InDeq, Taken, Pending
  <2> QED  BY <2>1, <2>2
<1> QED  BY <1>1, DequeCorrect, PTL

-----------------------------------------------------------------------------
(* Facts about one step                                                    *)

\* What the invariants of this section rest on.
Basis == TypeInv /\ AggCountInv /\ StoreInv

\* Basis, in the parts the proofs below cite.
LEMMA BasisTypes ==
  ASSUME Basis
  PROVE  /\ TypeOK /\ VisitsOwnFront /\ SendsOnce /\ AggExclusive /\ AggCountsAreExact
         /\ ReportsOnce /\ StoredIsFinished
         /\ pc \in [Thread -> Labels] /\ cur \in [Thread -> Front]
         /\ ahead \in [Thread -> Nat]
         /\ status \in [Thread -> [Front -> {"W", "A", "F", "E"}]]
         /\ updates \in [Thread -> [Front -> SUBSET Front]]
         /\ fronts \in [Thread -> [Front -> [upd : SUBSET (Front \cup {-1}),
                                             late : SUBSET Front]]]
         /\ aggHeads \in [Front -> SUBSET Chevron] /\ reg \in [Thread -> SUBSET Chevron]
         /\ aggLock \in Thread \cup {-1} /\ aggCounts \in [Front -> Int]
         /\ owners \in [Front -> Thread] /\ -1 \notin Front /\ -1 \notin Thread
<1>1. /\ TypeOK /\ VisitsOwnFront /\ SendsOnce /\ AggExclusive /\ AggCountsAreExact
      /\ ReportsOnce /\ StoredIsFinished
  BY DEF Basis, TypeInv, AggCountInv, StoreInv
<1>2. WorkerTypeOK /\ FrontTypeOK /\ agg!ListTypeOK
  BY <1>1 DEF TypeOK
<1>3. /\ aggHeads \in [Front -> SUBSET Chevron] /\ reg \in [Thread -> SUBSET Chevron]
      /\ aggLock \in Thread \cup {-1} /\ aggCounts \in [Front -> Int]
  BY <1>2 DEF agg!ListTypeOK, agg!NoOne
<1>4. owners \in [Front -> Thread] /\ -1 \notin Front /\ -1 \notin Thread
  BY TreeAssumption DEF Front, Thread
<1> QED  BY <1>1, <1>2, <1>3, <1>4 DEF WorkerTypeOK, FrontTypeOK

\* From which labels, and by which actions, a worker reaches a label.
LEMMA WhereFromMore ==
  ASSUME Basis, NEW t \in Thread, Worker(t)
  PROVE
    /\ pc'[t] \in GatheredLabels =>
         \/ pc[t] \in GatheredLabels
         \/ AggPoll(t) /\ pc[t] = "poll2" /\ updates[t][cur[t]] = {} /\ aggHeads[cur[t]] = {}
         \/ AggAssemble(t) /\ pc[t] = "clear2" /\ updates[t][cur[t]] = {}
    /\ pc'[t] \in CountedLabels =>
         \/ pc[t] \in CountedLabels
         \/ AggCountRead(t) /\ aggCounts[cur[t]] = 0
    /\ pc'[t] \in {"clear1", "clear2"} => AggLoad(t)
    /\ pc'[t] \in {"load1", "load2"} => AggPoll(t) /\ aggHeads[cur[t]] # {}
    /\ pc'[t] \in ReportLabels => FactorPivoting(t) \/ pc[t] \in ReportLabels
<1>1. pc \in [Thread -> Labels]
  BY BasisTypes
<1> USE <1>1 DEF Worker, Goto,
    Pop, Exhausted, ReturnError, ReturnFinished, ReturnActive, CheckError,
    VisitFinished, VisitOwned, VisitUnowned, PassThrough, EndVisit, AggLink,
    AggStore, AggDecrement, AggPoll, AggLoad, AggAssemble, AggCountRead,
    PostPoll, PostLoad, PostAssemble, FactorPivoting, FactorNoPivoting,
    FactorSingular, PostLink, PostStore, PostNothing, PostDecrement
<1>2. ASSUME pc'[t] \in GatheredLabels
      PROVE  \/ pc[t] \in GatheredLabels
             \/ AggPoll(t) /\ pc[t] = "poll2" /\ updates[t][cur[t]] = {} /\ aggHeads[cur[t]] = {}
             \/ AggAssemble(t) /\ pc[t] = "clear2" /\ updates[t][cur[t]] = {}
  BY <1>2 DEF GatheredLabels, ReportLabels, AfterAggregates, AllUpdatesDone, agg!IsListNonempty
<1>3. ASSUME pc'[t] \in CountedLabels
      PROVE  pc[t] \in CountedLabels \/ (AggCountRead(t) /\ aggCounts[cur[t]] = 0)
  BY <1>3 DEF CountedLabels, AfterAggregates, agg!IsCountZero
<1>4. pc'[t] \in {"clear1", "clear2"} => AggLoad(t)
  BY DEF AfterAggregates
<1>5. pc'[t] \in {"load1", "load2"} => AggPoll(t) /\ aggHeads[cur[t]] # {}
  BY DEF AfterAggregates, agg!IsListNonempty
<1>6. pc'[t] \in ReportLabels => FactorPivoting(t) \/ pc[t] \in ReportLabels
  BY DEF ReportLabels, AfterAggregates
<1> QED  BY <1>2, <1>3, <1>4, <1>5, <1>6

\* What a step of one worker leaves alone in another.
LEMMA OthersMore ==
  ASSUME Basis, NEW t \in Thread, Worker(t), NEW u \in Thread \ {t}
  PROVE  /\ ahead'[u] = ahead[u] /\ fronts'[u] = fronts[u] /\ reg'[u] = reg[u]
         /\ aggLock = u => aggLock' = u
<1> USE BasisTypes
<1>1. ahead'[u] = ahead[u]
  BY WhoChanges DEF Pop, EndVisit
<1>2. fronts'[u] = fronts[u]
  <2>1. fronts' = fronts \/ \E J, new : fronts' = [fronts EXCEPT ![t][J] = new]
    BY ChevronType DEF Basis
  <2> QED  BY <2>1
<1>3. reg'[u] = reg[u]
  BY WhoChanges DEF AggLink, AggStore, AggLoad, AggAssemble, PostLink, PostStore, PostLoad,
    PostAssemble, agg!AddLink, agg!AddStore, agg!GetLoad, agg!GetClear, post!AddLink,
    post!AddStore, post!GetLoad, post!GetClear
<1>4. ASSUME aggLock = u PROVE aggLock' = u
  <2>1. CASE AggLink(t) \/ AggLoad(t)
    BY <1>4, <2>1 DEF AggLink, AggLoad, agg!AddLink, agg!GetLoad, agg!Acquire, agg!NoOne
  <2>2. CASE AggDecrement(t) \/ AggAssemble(t)
    BY <1>4, <2>2 DEF AggDecrement, AggAssemble, agg!AddDecrement, agg!GetClear, agg!Release
  <2> QED  BY <1>4, <2>1, <2>2, WhoChanges
<1> QED  BY <1>1, <1>2, <1>3, <1>4

\* Updates are only ever made, and only with fronts that are finished.
LEMMA UpdatesStep ==
  ASSUME Basis, NEW t \in Thread, Worker(t), NEW u \in Thread, NEW J \in Front
  PROVE  /\ updates'[u][J] \subseteq updates[u][J]
         /\ \A I \in updates[u][J] \ updates'[u][J] : u = t /\ status[u][I] = "F"
<1> USE BasisTypes
<1>1. CASE u # t
  BY <1>1, Others
<1>2. CASE u = t /\ (VisitOwned(t) \/ VisitUnowned(t))
  <2> DEFINE now == {I \in updates[t][cur[t]] : status[t][I] = "F"}
  <2>1. updates' = [updates EXCEPT ![t][cur[t]] = @ \ now]
    BY <1>2 DEF VisitOwned, VisitUnowned, SetupAndUpdate
  <2> QED  BY <1>2, <2>1
<1>3. CASE u = t /\ updates' = updates
  BY <1>3
<1> QED  BY <1>1, <1>2, <1>3, WhoChanges

\* A front is stored for good, and by its owner.
LEMMA StoredStep ==
  ASSUME Basis, NEW t \in Thread, Worker(t), NEW J \in Front
  PROVE  /\ stored[J] # NotStored => stored'[J] = stored[J]
         /\ stored'[J] # NotStored /\ stored[J] = NotStored =>
              /\ FactorPivoting(t) \/ FactorNoPivoting(t)
              /\ J = cur[t] /\ owners[J] = t /\ pc[t] = "factor"
              /\ stored'[J].upd = fronts[t][J].upd
         /\ (FactorPivoting(t) \/ FactorNoPivoting(t)) /\ J = cur[t] =>
              stored'[J] # NotStored
<1> USE BasisTypes
<1>1. StoreInv /\ TypeOK
  BY DEF Basis
<1>2. CASE FactorPivoting(t) /\ J = cur[t]
  <2>1. PICK left \in SUBSET (fronts[t][J].late \cup {J}) :
          stored' = [stored EXCEPT
            ![J] = [upd |-> fronts[t][J].upd, late |-> fronts[t][J].late, left |-> left]]
    BY <1>2 DEF FactorPivoting
  <2>2. stored \in [Front -> [upd : SUBSET Front, late : SUBSET Front,
                              left : SUBSET (Front \cup {-1})]]
    BY <1>1 DEF TypeOK, FrontTypeOK
  <2>3. stored'[J] = [upd |-> fronts[t][J].upd, late |-> fronts[t][J].late, left |-> left]
    BY <2>1, <2>2
  <2>4. left \in SUBSET Front
    <3>1. fronts[t][J] \in [upd : SUBSET (Front \cup {-1}), late : SUBSET Front]
      OBVIOUS
    <3> QED  BY <3>1
  <2>5. stored'[J].left = left /\ stored'[J].upd = fronts[t][J].upd
    BY <2>3
  <2>6. stored'[J] # NotStored
    <3>1. NotStored.left = {-1}
      BY DEF NotStored
    <3>2. -1 \notin left
      BY <2>4
    <3> QED  BY <2>5, <3>1, <3>2, Zenon
  <2> QED  BY <1>1, <1>2, <2>5, <2>6, StoreStep DEF FactorPivoting
<1>3. CASE FactorNoPivoting(t) /\ J = cur[t]
  <2>2. stored \in [Front -> [upd : SUBSET Front, late : SUBSET Front,
                              left : SUBSET (Front \cup {-1})]]
    BY <1>1 DEF TypeOK, FrontTypeOK
  <2>3. stored'[J] = [upd |-> fronts[t][J].upd, late |-> fronts[t][J].late, left |-> {}]
    BY <1>3, <2>2 DEF FactorNoPivoting
  <2>5. stored'[J].left = {} /\ stored'[J].upd = fronts[t][J].upd
    BY <2>3
  <2>6. stored'[J] # NotStored
    <3>1. NotStored.left = {-1}
      BY DEF NotStored
    <3>2. {} # {-1}
      OBVIOUS
    <3> QED  BY <2>5, <3>1, <3>2, Zenon
  <2> QED  BY <1>1, <1>3, <2>5, <2>6, StoreStep DEF FactorNoPivoting
<1>4. CASE ~((FactorPivoting(t) \/ FactorNoPivoting(t)) /\ J = cur[t])
  BY <1>1, <1>4, StoreStep
<1> QED  BY <1>2, <1>3, <1>4

\* A sender hands its aggregate over when it stores it in the list.
LEMMA HandedOverStep ==
  ASSUME Basis, NEW t \in Thread, Worker(t), NEW J \in Front, NEW u \in AggSenders(J)
  PROVE  /\ HandedOver(u, J)' <=> HandedOver(u, J) \/ (AggStore(t) /\ u = t /\ J = cur[t])
         /\ status[u][J] = "F" => status'[u][J] = "F"
<1> USE BasisTypes
<1>1. u \in Thread /\ owners[J] # u
  BY SenderFacts
<1>2. CASE u # t
  <2>1. pc'[u] = pc[u] /\ cur'[u] = cur[u] /\ status'[u] = status[u]
    BY <1>1, <1>2, Others
  <2> QED  BY <1>2, <2>1, Zenon DEF HandedOver
<1>3. CASE u = t
  <2>1. /\ status[t][J] = "F" => status'[t][J] = "F"
        /\ status[t][J] # "F" => status'[t][J] # "F" \/ (AggDecrement(t) /\ J = cur[t])
    BY <1>3, SenderStatus
  <2>2. pc'[t] = "aggDecrement" => AggStore(t)
    BY WhereFrom
  <2>3. AggStore(t) => cur' = cur /\ pc'[t] = "aggDecrement"
    BY DEF AggStore, Goto
  <2>4. AggDecrement(t) => status' = [status EXCEPT ![t][cur[t]] = "F"]
    BY DEF AggDecrement
  <2>5. pc[t] = "aggDecrement" => AggDecrement(t)
    BY DEF Worker,
      Pop, Exhausted, ReturnError, ReturnFinished, ReturnActive, CheckError,
      VisitFinished, VisitOwned, VisitUnowned, PassThrough, EndVisit, AggLink,
      AggStore, AggPoll, AggLoad, AggAssemble, AggCountRead,
      PostPoll, PostLoad, PostAssemble, FactorPivoting, FactorNoPivoting,
      FactorSingular, PostLink, PostStore, PostNothing, PostDecrement
  <2>6. AggDecrement(t) => pc[t] = "aggDecrement"
    BY DEF AggDecrement
  <2>7. ASSUME HandedOver(t, J) PROVE HandedOver(t, J)'
    <3>1. CASE status[t][J] = "F"
      BY <2>1, <3>1 DEF HandedOver
    <3>2. CASE pc[t] = "aggDecrement" /\ cur[t] = J
      BY <2>4, <2>5, <3>2 DEF HandedOver
    <3> QED  BY <2>7, <3>1, <3>2 DEF HandedOver
  <2>8. AggStore(t) /\ J = cur[t] => HandedOver(t, J)'
    BY <2>3 DEF HandedOver
  <2>9. HandedOver(t, J)' => HandedOver(t, J) \/ (AggStore(t) /\ J = cur[t])
    BY <2>1, <2>2, <2>3, <2>6 DEF HandedOver
  <2> QED  BY <1>3, <2>1, <2>7, <2>8, <2>9
<1> QED  BY <1>2, <1>3

-----------------------------------------------------------------------------
(* Who visits what, and what is finished                                   *)

\* A front found singular is not visited again.
LEMMA SingularStep ==
  ASSUME Basis, NoRevisit, SingularIsLast, NEW t \in Thread, Worker(t)
  PROVE  SingularIsLast'
<1>1. /\ pc \in [Thread -> Labels] /\ cur \in [Thread -> Front]
      /\ ahead \in [Thread -> Nat] /\ status \in [Thread -> [Front -> {"W", "A", "F", "E"}]]
      /\ TypeOK /\ VisitsOwnFront
  BY BasisTypes
<1>2. ASSUME lookahead = 0, NEW u \in Thread PROVE ahead'[u] = 0
  <2>0. ahead[u] = 0
    BY <1>2 DEF SingularIsLast
  <2>1. CASE u # t
    BY <2>0, <2>1, OthersMore
  <2>2. CASE u = t /\ Pop(t)
    BY <1>1, <1>2, <2>2 DEF Pop
  <2>3. CASE u = t /\ EndVisit(t)
    BY <1>1, <2>0, <2>3 DEF EndVisit
  <2> QED  BY <2>0, <2>1, <2>2, <2>3, WhoChanges
<1>3. ASSUME NEW u \in Thread, NEW J \in Front, status'[u][J] = "E"
      PROVE  /\ ~Pivoting /\ owners[J] = u /\ cur'[u] = J
             /\ pc'[u] \in {"endVisit", "return", "done"}
  <2>1. CASE u # t
    <3>1. pc'[u] = pc[u] /\ cur'[u] = cur[u] /\ status'[u] = status[u]
      BY <1>1, <2>1, Others
    <3>2. status[u][J] = "E"
      BY <1>3, <3>1
    <3> QED  BY <3>1, <3>2 DEF SingularIsLast
  <2>2. CASE u = t /\ status[t][J] = "E"
    <3>1. ~Pivoting /\ owners[J] = t /\ cur[t] = J /\ pc[t] \in {"endVisit", "return", "done"}
      BY <2>2 DEF SingularIsLast
    <3>2. ahead[t] = 0
      BY <3>1 DEF NoRevisit, SingularIsLast
    <3>3. EndVisit(t) \/ ReturnError(t) \/ ReturnFinished(t) \/ ReturnActive(t)
      BY <3>1 DEF Worker,
        Pop, Exhausted, ReturnError, ReturnFinished, ReturnActive, CheckError,
        VisitFinished, VisitOwned, VisitUnowned, PassThrough, EndVisit, AggLink,
        AggStore, AggDecrement, AggPoll, AggLoad, AggAssemble, AggCountRead,
        PostPoll, PostLoad, PostAssemble, FactorPivoting, FactorNoPivoting,
        FactorSingular, PostLink, PostStore, PostNothing, PostDecrement
    <3>4. ~ReturnFinished(t) /\ ~ReturnActive(t)
      BY <2>2, <3>1 DEF ReturnFinished, ReturnActive
    <3>5. CASE EndVisit(t)
      BY <1>1, <2>2, <3>1, <3>2, <3>5 DEF EndVisit, Goto
    <3>6. CASE ReturnError(t)
      BY <1>1, <2>2, <3>1, <3>6 DEF ReturnError, Goto
    <3> QED  BY <3>3, <3>4, <3>5, <3>6
  <2>3. CASE u = t /\ status[t][J] # "E"
    <3>1. FactorSingular(t) /\ J = cur[t]
      BY <1>1, <1>3, <2>3, WhoChanges DEF VisitOwned, VisitUnowned, PassThrough,
        AggDecrement, FactorNoPivoting, FactorSingular, PostDecrement
    <3>2. pc'[t] = "endVisit" /\ cur' = cur /\ ~Pivoting /\ pc[t] = "factor"
      BY <1>1, <3>1 DEF FactorSingular, Goto
    <3> QED  BY <1>1, <2>3, <3>1, <3>2 DEF VisitsOwnFront, OwnedLabels
  <2> QED  BY <2>1, <2>2, <2>3
<1> QED  BY <1>2, <1>3 DEF SingularIsLast

\* A thread is done with a front only after its own updates to it.
LEMMA OwnUpdatesStep ==
  ASSUME Basis, OwnUpdatesMade, NEW t \in Thread, Worker(t)
  PROVE  OwnUpdatesMade'
<1>1. /\ pc \in [Thread -> Labels] /\ cur \in [Thread -> Front]
      /\ updates \in [Thread -> [Front -> SUBSET Front]]
      /\ status \in [Thread -> [Front -> {"W", "A", "F", "E"}]] /\ TypeOK
  BY BasisTypes
<1> SUFFICES ASSUME NEW u \in Thread, NEW J \in Front,
                    \/ status'[u][J] = "F"
                    \/ pc'[u] \in SendLabels \cup GatheredLabels /\ cur'[u] = J
             PROVE  updates'[u][J] = {}
  BY DEF OwnUpdatesMade
<1>2. updates'[u][J] \subseteq updates[u][J]
  BY UpdatesStep
<1>3. CASE u # t
  <2>1. pc'[u] = pc[u] /\ cur'[u] = cur[u] /\ status'[u] = status[u]
    BY <1>1, <1>3, Others
  <2> QED  BY <1>2, <2>1 DEF OwnUpdatesMade
<1>4. CASE u = t /\ status'[t][J] = "F"
  <2>1. CASE status[t][J] = "F"
    BY <1>2, <1>4, <2>1 DEF OwnUpdatesMade
  <2>2. CASE status[t][J] # "F"
    <3>1. J = cur[t] /\ (PassThrough(t) \/ AggDecrement(t) \/ FactorNoPivoting(t)
                           \/ PostDecrement(t))
      BY <1>1, <1>4, <2>2, StatusStep
    <3>2. updates[t][J] = {}
      BY <3>1 DEF PassThrough, AggDecrement, FactorNoPivoting, PostDecrement, OwnUpdatesMade,
        SendLabels, GatheredLabels, ReportLabels
    <3> QED  BY <1>2, <1>4, <3>2
  <2> QED  BY <2>1, <2>2
<1>5. CASE u = t /\ pc'[t] \in SendLabels /\ cur'[t] = J
  <2>1. CASE VisitUnowned(t)
    <3>1. cur' = cur /\ (updates'[t][cur[t]] # {} => pc'[t] = "endVisit")
      BY <1>1, <2>1 DEF VisitUnowned, Goto
    <3> QED  BY <1>5, <3>1 DEF SendLabels
  <2>2. CASE AggLink(t) \/ AggStore(t)
    <3>1. cur' = cur /\ pc[t] \in SendLabels
      BY <2>2 DEF AggLink, AggStore, SendLabels
    <3> QED  BY <1>2, <1>5, <3>1 DEF OwnUpdatesMade
  <2> QED  BY <1>1, <1>5, <2>1, <2>2, WhereFrom
<1>6. CASE u = t /\ pc'[t] \in GatheredLabels /\ cur'[t] = J
  <2>1. pc[t] \in GatheredLabels \/ updates[t][cur[t]] = {}
    BY <1>6, WhereFromMore
  <2>2. updates[t][cur[t]] = {}
    BY <1>1, <2>1 DEF OwnUpdatesMade
  <2>3. ~Pop(t)
    BY <1>1, <1>6 DEF Pop, Goto, GatheredLabels, ReportLabels
  <2>4. cur' = cur
    BY <2>3, WhoChanges
  <2> QED  BY <1>2, <1>6, <2>2, <2>4
<1> QED  BY <1>3, <1>4, <1>5, <1>6

\* A front is stored before it is finished and before it updates another.
LEMMA StoredBeforeStep ==
  ASSUME Basis, StoredBefore, NEW t \in Thread, Worker(t)
  PROVE  StoredBefore'
<1>1. /\ pc \in [Thread -> Labels] /\ cur \in [Thread -> Front]
      /\ owners \in [Front -> Thread] /\ TypeOK /\ VisitsOwnFront /\ SendsOnce
  BY BasisTypes
<1>2. ASSUME NEW J \in Front,
             \/ status'[owners[J]][J] = "F"
             \/ pc'[owners[J]] \in ReportLabels /\ cur'[owners[J]] = J
      PROVE  stored'[J] # NotStored
  <2>1. CASE stored[J] # NotStored
    BY <2>1, StoredStep
  <2>2. CASE stored[J] = NotStored
    <3>1. /\ status[owners[J]][J] # "F"
          /\ ~(pc[owners[J]] \in ReportLabels /\ cur[owners[J]] = J)
      BY <2>2 DEF StoredBefore
    <3>2. owners[J] = t
      BY <1>1, <1>2, <3>1, Others
    <3>3. CASE status'[t][J] = "F"
      <4>1. J = cur[t] /\ (PassThrough(t) \/ AggDecrement(t) \/ FactorNoPivoting(t)
                             \/ PostDecrement(t))
        BY <1>1, <3>1, <3>2, <3>3, StatusStep
      <4>2. ~PassThrough(t)
        BY <3>2, <4>1 DEF PassThrough
      <4>3. ~AggDecrement(t)
        BY <3>2, <4>1, <1>1, SenderFacts DEF AggDecrement, SendsOnce, SendLabels
      <4>4. ~PostDecrement(t)
        BY <3>1, <3>2, <4>1 DEF PostDecrement, ReportLabels
      <4> QED  BY <4>1, <4>2, <4>3, <4>4, StoredStep
    <3>4. CASE pc'[t] \in ReportLabels /\ cur'[t] = J
      <4>1. ~Pop(t)
        BY <1>1, <3>4 DEF Pop, Goto, ReportLabels
      <4>2. cur' = cur
        BY <4>1, WhoChanges
      <4>3. FactorPivoting(t)
        BY <3>1, <3>2, <3>4, <4>2, WhereFromMore
      <4> QED  BY <3>4, <4>2, <4>3, StoredStep
    <3> QED  BY <1>2, <3>2, <3>3, <3>4
  <2> QED  BY <2>1, <2>2
<1>3. ASSUME NEW J \in Front, NEW I \in Updaters(J), I \notin updates'[owners[I]][J]
      PROVE  stored'[I] # NotStored
  <2>1. I \in Front /\ owners[I] \in Thread
    BY <1>1 DEF Updaters
  <2>2. CASE I \notin updates[owners[I]][J]
    <3>1. stored[I] # NotStored
      BY <2>2 DEF StoredBefore
    <3> QED  BY <2>1, <3>1, StoredStep
  <2>3. CASE I \in updates[owners[I]][J]
    <3>1. status[owners[I]][I] = "F"
      BY <1>3, <2>1, <2>3, UpdatesStep
    <3>2. stored[I] # NotStored
      BY <2>1, <3>1 DEF StoredBefore
    <3> QED  BY <2>1, <3>2, StoredStep
  <2> QED  BY <2>2, <2>3
<1> QED  BY <1>2, <1>3 DEF StoredBefore

\* Two threads are never in the middle of changing the same list.
LEMMA ListAlone ==
  ASSUME Basis, Listed, TakeExclusive, NEW t \in Thread, NEW u \in Thread \ {t},
         cur[t] = cur[u],
         pc[t] \in {"aggStore", "clear1", "clear2"}, pc[u] \in {"aggStore", "clear1", "clear2"}
  PROVE  FALSE
<1>1. /\ cur \in [Thread -> Front] /\ VisitsOwnFront /\ SendsOnce /\ AggExclusive
      /\ owners \in [Front -> Thread] /\ AggFlags[cur[t]] \in {"Y", "N"}
  BY BasisTypes DEF AggFlags
<1> DEFINE J == cur[t]
<1>2. \A v \in {t, u} : /\ pc[v] = "aggStore" => v \in AggSenders(J) /\ status[v][J] # "F"
                        /\ pc[v] \in {"clear1", "clear2"} => owners[J] = v
  BY <1>1 DEF SendsOnce, SendLabels, VisitsOwnFront, OwnedLabels
<1>3. CASE pc[t] = "aggStore" /\ pc[u] = "aggStore"
  BY <1>1, <1>2, <1>3, OneSender DEF AggExclusive
<1>4. ASSUME NEW v \in {t, u}, NEW w \in {t, u}, v # w,
             pc[v] = "aggStore", pc[w] \in {"clear1", "clear2"}
      PROVE  FALSE
  <2>1. v \in AggSenders(J) /\ status[v][J] # "F" /\ cur[v] = J /\ cur[w] = J
    BY <1>2, <1>4
  <2>2. CASE AggFlags[J] = "Y"
    <3>1. aggLock = w
      BY <1>4, <2>1, <2>2 DEF TakeExclusive
    <3>2. aggLock = v
      BY <1>1, <1>4, <2>1, <2>2 DEF AggExclusive
    <3> QED  BY <1>4, <3>1, <3>2
  <2>3. CASE AggFlags[J] # "Y"
    <3>1. PICK c \in aggHeads[J] : TRUE
      BY <1>4, <2>1 DEF Listed
    <3>2. c.from \in AggSenders(J) /\ HandedOver(c.from, J)
      BY <1>1 DEF Listed
    <3>3. c.from = v
      BY <1>1, <2>1, <2>3, <3>2, OneSender
    <3> QED  BY <1>4, <2>1, <3>2, <3>3 DEF HandedOver
  <2> QED  BY <2>2, <2>3
<1>5. CASE pc[t] # "aggStore" /\ pc[u] # "aggStore"
  BY <1>2, <1>5
<1> QED  BY <1>3, <1>4, <1>5

-----------------------------------------------------------------------------
(* The lists of aggregates                                                 *)

\* How a step changes a list: a sender adds its aggregate, the owner takes
\* all there is.
LEMMA HeadsStep ==
  ASSUME Basis, OwnUpdatesMade, Listed, Gathered, NEW t \in Thread, Worker(t), NEW J \in Front
  PROVE  \/ aggHeads'[J] = aggHeads[J] /\ ~(AggStore(t) /\ J = cur[t])
         \/ /\ AggStore(t) /\ J = cur[t]
            /\ aggHeads'[J] = aggHeads[J] \cup {[from |-> t, cols |-> OwnUpdaters(t, J)]}
            /\ t \in AggSenders(J) /\ status[t][J] # "F" /\ pc[t] = "aggStore"
         \/ /\ AggAssemble(t) /\ J = cur[t] /\ owners[J] = t
            /\ aggHeads'[J] = {} /\ reg[t] = aggHeads[J]
            /\ pc[t] \in {"clear1", "clear2"}
<1>1. /\ cur \in [Thread -> Front] /\ VisitsOwnFront /\ SendsOnce
      /\ aggHeads \in [Front -> SUBSET Chevron] /\ TypeInv
      /\ fronts \in [Thread -> [Front -> [upd : SUBSET (Front \cup {-1}), late : SUBSET Front]]]
      /\ -1 \notin Front
  BY BasisTypes DEF Basis
<1>2. CASE AggStore(t) /\ J = cur[t]
  <2>1. pc[t] = "aggStore" /\ t \in AggSenders(J) /\ status[t][J] # "F"
    BY <1>1, <1>2 DEF AggStore, SendsOnce, SendLabels
  <2>2. fronts[t][J].upd \in SUBSET Front
    BY <1>1, <1>2, <2>1 DEF TypeInv, SetUp, Working
  <2>3. updates[t][J] = {} /\ owners[J] # t
    BY <1>2, <2>1, SenderFacts DEF OwnUpdatesMade, SendLabels
  <2>4. fronts[t][J].upd \ {-1} = OwnUpdaters(t, J) \ updates[t][J]
    BY <2>3 DEF Gathered
  <2>5. fronts[t][J].upd = OwnUpdaters(t, J)
    BY <1>1, <2>2, <2>3, <2>4
  <2>6. reg[t] = aggHeads[J]
    BY <1>2, <2>1 DEF Listed
  <2> QED  BY <1>1, <1>2, <2>1, <2>5, <2>6 DEF AggStore, agg!AddStore
<1>3. CASE AggAssemble(t) /\ J = cur[t]
  <2>1. pc[t] \in {"clear1", "clear2"} /\ owners[J] = t
    BY <1>1, <1>3 DEF AggAssemble, VisitsOwnFront, OwnedLabels
  <2>2. reg[t] = aggHeads[J]
    BY <1>3, <2>1 DEF Listed
  <2> QED  BY <1>1, <1>3, <2>1, <2>2 DEF AggAssemble, agg!GetClear
<1>4. CASE ~((AggStore(t) \/ AggAssemble(t)) /\ J = cur[t])
  BY <1>1, <1>4, WhoChanges DEF AggStore, AggAssemble, agg!AddStore, agg!GetClear
<1> QED  BY <1>2, <1>3, <1>4

\* A list of aggregates holds what its senders gathered.
LEMMA ListedStep ==
  ASSUME Basis, OwnUpdatesMade, Listed, Gathered, TakeExclusive, NEW t \in Thread, Worker(t)
  PROVE  Listed'
<1>1. /\ pc \in [Thread -> Labels] /\ cur \in [Thread -> Front] /\ TypeOK /\ VisitsOwnFront
      /\ reg \in [Thread -> SUBSET Chevron]
  BY BasisTypes
<1>2. ASSUME NEW J \in Front, NEW c \in aggHeads'[J]
      PROVE  /\ c.from \in AggSenders(J) /\ c.cols = OwnUpdaters(c.from, J)
             /\ HandedOver(c.from, J)'
  <2>1. CASE c \in aggHeads[J]
    <3>1. c.from \in AggSenders(J) /\ c.cols = OwnUpdaters(c.from, J) /\ HandedOver(c.from, J)
      BY <2>1 DEF Listed
    <3> QED  BY <3>1, HandedOverStep
  <2>2. CASE c \notin aggHeads[J]
    <3>1. /\ AggStore(t) /\ J = cur[t] /\ t \in AggSenders(J)
          /\ c = [from |-> t, cols |-> OwnUpdaters(t, J)]
      BY <1>2, <2>2, HeadsStep
    <3>2. HandedOver(t, J)'
      BY <3>1, HandedOverStep
    <3> QED  BY <3>1, <3>2
  <2> QED  BY <2>1, <2>2
<1>3. ASSUME NEW u \in Thread \ {t}, pc[u] \in {"aggStore", "clear1", "clear2"}
      PROVE  aggHeads'[cur[u]] = aggHeads[cur[u]]
  <2>1. cur[u] \in Front
    BY <1>1
  <2>2. \/ aggHeads'[cur[u]] = aggHeads[cur[u]]
        \/ cur[u] = cur[t] /\ pc[t] \in {"aggStore", "clear1", "clear2"}
    BY <2>1, HeadsStep
  <2> QED  BY <1>3, <2>2, ListAlone
<1>4. ASSUME NEW u \in Thread
      PROVE  /\ pc'[u] = "aggStore" => reg'[u] = aggHeads'[cur'[u]]
             /\ pc'[u] \in {"clear1", "clear2"} =>
                  reg'[u] = aggHeads'[cur'[u]] /\ reg'[u] # {}
             /\ pc'[u] \in {"load1", "load2"} => aggHeads'[cur'[u]] # {}
  <2>1. CASE u # t
    <3>1. pc'[u] = pc[u] /\ cur'[u] = cur[u] /\ reg'[u] = reg[u]
      BY <1>1, <2>1, Others, OthersMore
    <3>2. /\ pc[u] = "aggStore" => reg[u] = aggHeads[cur[u]]
          /\ pc[u] \in {"clear1", "clear2"} => reg[u] = aggHeads[cur[u]] /\ reg[u] # {}
          /\ pc[u] \in {"load1", "load2"} => aggHeads[cur[u]] # {}
      BY DEF Listed
    <3>3. ASSUME pc[u] \in {"load1", "load2"} PROVE aggHeads'[cur[u]] # {}
      <4>1. owners[cur[u]] = u /\ cur[u] \in Front
        BY <1>1, <3>3 DEF VisitsOwnFront, OwnedLabels
      <4> QED  BY <2>1, <3>2, <3>3, <4>1, HeadsStep
    <3> QED  BY <1>3, <2>1, <3>1, <3>2, <3>3
  <2>2. CASE u = t
    <3>1. CASE pc'[t] = "aggStore"
      <4>1. AggLink(t)
        BY <3>1, WhereFrom, <1>1
      <4> QED  BY <1>1, <2>2, <3>1, <4>1 DEF AggLink, agg!AddLink
    <3>2. CASE pc'[t] \in {"clear1", "clear2"}
      <4>1. AggLoad(t)
        BY <3>2, WhereFromMore
      <4> QED  BY <1>1, <2>2, <3>2, <4>1 DEF AggLoad, agg!GetLoad
    <3>3. CASE pc'[t] \in {"load1", "load2"}
      <4>1. AggPoll(t) /\ aggHeads[cur[t]] # {}
        BY <3>3, WhereFromMore
      <4>2. aggHeads' = aggHeads /\ cur' = cur
        BY <4>1 DEF AggPoll, listvars
      <4> QED  BY <2>2, <3>3, <4>1, <4>2
    <3> QED  BY <2>2, <3>1, <3>2, <3>3
  <2> QED  BY <2>1, <2>2
<1> QED  BY <1>2, <1>4 DEF Listed

\* The owner takes a list with its mutex, or when nobody adds to it any more.
LEMMA TakeExclusiveStep ==
  ASSUME Basis, TakeExclusive, NEW t \in Thread, Worker(t)
  PROVE  TakeExclusive'
<1>1. /\ cur \in [Thread -> Front] /\ TypeOK /\ AggCountsAreExact
  BY BasisTypes
<1> SUFFICES ASSUME NEW u \in Thread, pc'[u] \in {"clear1", "clear2"},
                    AggFlags[cur'[u]] = "Y",
                    NEW v \in AggSenders(cur'[u]), status'[v][cur'[u]] # "F"
             PROVE  aggLock' = u
  BY DEF TakeExclusive
<1>2. cur' \in [Thread -> Front]
  BY <1>1, WhoChanges, TypeNext DEF TypeInv, TypeOK, WorkerTypeOK, Next, Basis
<1>3. cur'[u] \in Front
  BY <1>2
<1>4. status[v][cur'[u]] # "F"
  BY <1>3, HandedOverStep
<1>5. CASE u # t
  <2>1. pc'[u] = pc[u] /\ cur'[u] = cur[u]
    BY <1>1, <1>5, Others
  <2>2. aggLock = u
    BY <1>4, <2>1 DEF TakeExclusive
  <2> QED  BY <1>5, <2>2, OthersMore
<1>6. CASE u = t
  <2>1. AggLoad(t) /\ cur' = cur
    BY <1>6, WhereFromMore DEF AggLoad
  <2>2. aggCounts[cur[t]] # 0
    <3> DEFINE Due == {w \in AggSenders(cur[t]) : status[w][cur[t]] # "F"}
    <3>1. aggCounts[cur[t]] = Cardinality(Due)
      BY <1>1 DEF AggCountsAreExact
    <3>2. v \in Due
      BY <1>4, <1>6, <2>1
    <3>3. Due \in SUBSET Thread
      BY <1>1, SenderFacts
    <3>4. IsFiniteSet(Due)
      BY <3>3, FrontFinite, FS_Subset
    <3> HIDE DEF Due
    <3> QED  BY <3>1, <3>2, <3>4, FS_EmptySet
  <2> QED  BY <1>6, <2>1, <2>2 DEF AggLoad, agg!GetLoad, agg!Acquire
<1> QED  BY <1>5, <1>6

\* A front found singular stays so.
LEMMA StaysSingular ==
  ASSUME Basis, SingularIsLast, NEW t \in Thread, Worker(t), NEW J \in Front,
         status[owners[J]][J] = "E"
  PROVE  status'[owners[J]][J] = "E"
<1>1. /\ cur \in [Thread -> Front] /\ status \in [Thread -> [Front -> {"W", "A", "F", "E"}]]
      /\ TypeOK /\ owners \in [Front -> Thread]
  BY BasisTypes
<1>2. CASE owners[J] # t
  BY <1>1, <1>2, Others
<1>3. CASE owners[J] = t
  <2>1. pc[t] \in {"endVisit", "return", "done"}
    BY <1>3 DEF SingularIsLast
  <2>2. status' = status
    BY <2>1, WhoChanges DEF VisitOwned, VisitUnowned, PassThrough, AggDecrement,
      FactorNoPivoting, FactorSingular, PostDecrement
  <2> QED  BY <2>2
<1> QED  BY <1>2, <1>3

-----------------------------------------------------------------------------
(* What a working chevron has gathered                                     *)

\* What a step does to the updates gathered in a working chevron.
LEMMA UpdStep ==
  ASSUME Basis, NEW t \in Thread, Worker(t), NEW J \in Front
  PROVE  \/ /\ fronts'[t][J].upd \ {-1} =
                 (fronts[t][J].upd \ {-1}) \cup (updates[t][J] \ updates'[t][J])
            /\ ~(AggAssemble(t) /\ J = cur[t])
         \/ /\ AggAssemble(t) /\ J = cur[t] /\ updates'[t][J] = updates[t][J]
            /\ fronts'[t][J].upd \ {-1} = (fronts[t][J].upd \ {-1}) \cup (Columns(reg[t]) \ {-1})
         \/ /\ J = cur[t]
            /\ FactorNoPivoting(t) \/ FactorSingular(t) \/ PostDecrement(t)
<1>1. /\ fronts \in [Thread -> [Front -> [upd : SUBSET (Front \cup {-1}), late : SUBSET Front]]]
      /\ updates \in [Thread -> [Front -> SUBSET Front]]
      /\ cur \in [Thread -> Front] /\ -1 \notin Front
  BY BasisTypes
<1>2. CASE J # cur[t]
  <2>1. fronts'[t][J] = fronts[t][J]
    <3>1. fronts' = fronts \/ \E new : fronts' = [fronts EXCEPT ![t][cur[t]] = new]
      BY ChevronType DEF Basis
    <3> QED  BY <1>1, <1>2, <3>1
  <2>2. updates'[t][J] = updates[t][J]
    <3>1. updates' = updates \/ \E new : updates' = [updates EXCEPT ![t][cur[t]] = new]
      BY WhoChanges DEF VisitOwned, VisitUnowned, SetupAndUpdate
    <3> QED  BY <1>1, <1>2, <3>1
  <2> QED  BY <1>2, <2>1, <2>2
<1>3. CASE J = cur[t] /\ (VisitOwned(t) \/ VisitUnowned(t))
  <2> DEFINE now  == {I \in updates[t][J] : status[t][I] = "F"}
             work == IF fronts[t][J] = NoFront THEN NewFront ELSE fronts[t][J]
  <2>1. /\ updates' = [updates EXCEPT ![t][J] = @ \ now]
        /\ fronts' = [fronts EXCEPT ![t][J] = [work EXCEPT !.upd = @ \cup now]]
        /\ pc[t] = "visit"
    BY <1>3 DEF VisitOwned, VisitUnowned, SetupAndUpdate
  <2>2. work \in [upd : SUBSET (Front \cup {-1}), late : SUBSET Front]
    BY <1>1 DEF NewFront
  <2>3. work.upd \ {-1} = fronts[t][J].upd \ {-1}
    BY DEF NewFront, NoFront
  <2>4. fronts'[t][J].upd = work.upd \cup now
    BY <1>1, <2>1, <2>2
  <2>5. updates[t][J] \ updates'[t][J] = now
    BY <1>1, <2>1
  <2>6. -1 \notin now
    BY <1>1
  <2>7. ~AggAssemble(t)
    BY <2>1 DEF AggAssemble
  <2> HIDE DEF now, work
  <2> QED  BY <2>3, <2>4, <2>5, <2>6, <2>7
<1>4. CASE J = cur[t] /\ AggAssemble(t)
  <2>1. fronts'[t][J].upd = fronts[t][J].upd \cup Columns(reg[t])
    BY <1>1, <1>4 DEF AggAssemble
  <2>2. updates' = updates
    BY <1>4 DEF AggAssemble
  <2> QED  BY <1>4, <2>1, <2>2
<1>5. CASE J = cur[t] /\ PostAssemble(t)
  <2>1. fronts'[t][J].upd = fronts[t][J].upd /\ updates' = updates /\ ~AggAssemble(t)
    BY <1>1, <1>5 DEF PostAssemble, AggAssemble
  <2> QED  BY <2>1
<1>6. CASE J = cur[t] /\ ~AggAssemble(t) /\ fronts' = fronts /\ updates' = updates
  BY <1>6
<1> QED  BY <1>2, <1>3, <1>4, <1>5, <1>6, WhoChanges

\* Which aggregates have been assembled after a step.
LEMMA ArrivedStep ==
  ASSUME Basis, OwnUpdatesMade, Listed, Gathered, NEW t \in Thread, Worker(t), NEW J \in Front
  PROVE  /\ ~(AggAssemble(t) /\ J = cur[t]) => Arrived(J)' = Arrived(J)
         /\ AggAssemble(t) /\ J = cur[t] =>
              Arrived(J)' = Arrived(J) \cup {c.from : c \in aggHeads[J]}
<1>1. \A u \in AggSenders(J) :
        HandedOver(u, J)' <=> HandedOver(u, J) \/ (AggStore(t) /\ u = t /\ J = cur[t])
  BY HandedOverStep
<1>2. \A c \in aggHeads[J] : c.from \in AggSenders(J) /\ HandedOver(c.from, J)
  BY DEF Listed
<1>3. ASSUME aggHeads'[J] = aggHeads[J], ~(AggStore(t) /\ J = cur[t])
      PROVE  Arrived(J)' = Arrived(J)
  BY <1>1, <1>3 DEF Arrived
<1>4. ASSUME AggStore(t), J = cur[t],
             aggHeads'[J] = aggHeads[J] \cup {[from |-> t, cols |-> OwnUpdaters(t, J)]},
             t \in AggSenders(J), status[t][J] # "F", pc[t] = "aggStore"
      PROVE  Arrived(J)' = Arrived(J)
  <2>1. ~HandedOver(t, J)
    BY <1>4 DEF HandedOver
  <2>2. ASSUME NEW u \in AggSenders(J)
        PROVE  u \in Arrived(J)' <=> u \in Arrived(J)
    <3>1. CASE u = t
      <4> DEFINE new == [from |-> t, cols |-> OwnUpdaters(t, J)]
      <4>0. new \in aggHeads'[J] /\ new.from = t
        BY <1>4
      <4>1. ~(\A c \in aggHeads'[J] : c.from # t)
        BY <4>0
      <4> QED  BY <2>1, <3>1, <4>1 DEF Arrived
    <3>2. CASE u # t
      <4>1. (\A c \in aggHeads'[J] : c.from # u) <=> (\A c \in aggHeads[J] : c.from # u)
        BY <1>4, <3>2
      <4> QED  BY <1>1, <3>2, <4>1 DEF Arrived
    <3> QED  BY <3>1, <3>2
  <2> QED  BY <2>2 DEF Arrived
<1>5. ASSUME AggAssemble(t), J = cur[t], aggHeads'[J] = {}
      PROVE  Arrived(J)' = Arrived(J) \cup {c.from : c \in aggHeads[J]}
  <2>1. ~AggStore(t)
    BY <1>5 DEF AggAssemble, AggStore
  <2>2. Arrived(J)' = {u \in AggSenders(J) : HandedOver(u, J)}
    BY <1>1, <1>5, <2>1 DEF Arrived
  <2> QED  BY <1>2, <2>2 DEF Arrived
<1>6. AggAssemble(t) => ~AggStore(t)
  BY DEF AggAssemble, AggStore
<1>7. AggAssemble(t) /\ J = cur[t] => aggHeads'[J] = {}
  BY BasisTypes DEF AggAssemble, agg!GetClear
<1> QED  BY <1>3, <1>4, <1>5, <1>6, <1>7, HeadsStep

\* A working chevron holds the updates made to it and the aggregates
\* assembled.
LEMMA GatheredStep ==
  ASSUME Basis, SingularIsLast, OwnUpdatesMade, StoredBefore, Listed, Gathered,
         NEW t \in Thread, Worker(t)
  PROVE  Gathered'
<1>1. /\ owners \in [Front -> Thread] /\ TypeOK /\ VisitsOwnFront /\ SendsOnce
      /\ status \in [Thread -> [Front -> {"W", "A", "F", "E"}]]
      /\ updates \in [Thread -> [Front -> SUBSET Front]] /\ -1 \notin Front
      /\ cur \in [Thread -> Front]
  BY BasisTypes
<1>2. ASSUME NEW u \in Thread, NEW J \in Front
      PROVE  /\ updates'[u][J] \subseteq updates[u][J]
             /\ updates[u][J] \subseteq OwnUpdaters(u, J) /\ -1 \notin OwnUpdaters(u, J)
  BY <1>1, UpdatesStep, TreeTypes DEF SendsOnce
<1>3. ASSUME NEW J \in Front, NEW u \in Thread, owners[J] # u
      PROVE  fronts'[u][J].upd \ {-1} = OwnUpdaters(u, J) \ updates'[u][J]
  <2>1. fronts[u][J].upd \ {-1} = OwnUpdaters(u, J) \ updates[u][J]
    BY <1>3 DEF Gathered
  <2>2. CASE u # t
    <3>1. fronts'[u] = fronts[u] /\ updates'[u] = updates[u]
      BY <1>1, <2>2, Others, OthersMore
    <3> QED  BY <2>1, <3>1
  <2>3. CASE u = t
    <3>1. AggAssemble(t) \/ FactorNoPivoting(t) \/ FactorSingular(t) \/ PostDecrement(t)
            => owners[cur[t]] = t
      BY <1>1 DEF AggAssemble, FactorNoPivoting, FactorSingular, PostDecrement,
        VisitsOwnFront, OwnedLabels
    <3>2. fronts'[t][J].upd \ {-1} =
            (fronts[t][J].upd \ {-1}) \cup (updates[t][J] \ updates'[t][J])
      BY <1>3, <2>3, <3>1, UpdStep
    <3> QED  BY <1>2, <2>1, <2>3, <3>2
  <2> QED  BY <2>2, <2>3
<1>4. ASSUME NEW J \in Front, stored'[J] = NotStored, status'[owners[J]][J] # "E"
      PROVE  fronts'[owners[J]][J].upd \ {-1} =
               (OwnUpdaters(owners[J], J) \ updates'[owners[J]][J])
                 \cup UNION {OwnUpdaters(u, J) : u \in Arrived(J)'}
  <2> DEFINE o == owners[J]
             A == UNION {OwnUpdaters(u, J) : u \in Arrived(J)}
             B == UNION {OwnUpdaters(u, J) : u \in Arrived(J)'}
  <2>1. o \in Thread
    BY <1>1
  <2>2. stored[J] = NotStored /\ status[o][J] # "E"
    BY <1>4, StoredStep, StaysSingular
  <2>3. fronts[o][J].upd \ {-1} = (OwnUpdaters(o, J) \ updates[o][J]) \cup A
    BY <2>1, <2>2 DEF Gathered
  <2>4. ~(AggAssemble(t) /\ J = cur[t]) => B = A
    BY ArrivedStep
  <2>5. CASE o # t
    <3>1. ~(AggAssemble(t) /\ J = cur[t])
      BY <1>1, <2>5 DEF AggAssemble, VisitsOwnFront, OwnedLabels
    <3>2. fronts'[o] = fronts[o] /\ updates'[o] = updates[o]
      BY <1>1, <2>1, <2>5, Others, OthersMore
    <3> QED  BY <2>3, <2>4, <3>1, <3>2
  <2>6. CASE o = t
    <3>1. ~((FactorNoPivoting(t) \/ FactorSingular(t) \/ PostDecrement(t)) /\ J = cur[t])
      <4>1. ~(FactorNoPivoting(t) /\ J = cur[t])
        BY <1>4, StoredStep
      <4>2. ~(FactorSingular(t) /\ J = cur[t])
        BY <1>1, <1>4, <2>6 DEF FactorSingular
      <4>3. ~(PostDecrement(t) /\ J = cur[t])
        BY <2>2, <2>6 DEF PostDecrement, StoredBefore, ReportLabels
      <4> QED  BY <4>1, <4>2, <4>3
    <3>2. CASE AggAssemble(t) /\ J = cur[t]
      <4>1. reg[t] = aggHeads[J]
        BY <3>2 DEF AggAssemble, Listed
      <4>2. Columns(reg[t]) = UNION {OwnUpdaters(c.from, J) : c \in aggHeads[J]}
        BY <4>1 DEF Columns, Listed
      <4>3. Arrived(J)' = Arrived(J) \cup {c.from : c \in aggHeads[J]}
        BY <3>2, ArrivedStep
      <4>4. B = A \cup Columns(reg[t])
        BY <4>2, <4>3
      <4>5. \A c \in aggHeads[J] : c.from \in Thread
        BY SenderFacts DEF Listed
      <4>6. -1 \notin Columns(reg[t])
        BY <1>2, <4>2, <4>5
      <4>7. ~(FactorNoPivoting(t) \/ FactorSingular(t) \/ PostDecrement(t))
        BY <3>1, <3>2
      <4>8. /\ updates'[t][J] = updates[t][J]
            /\ fronts'[t][J].upd \ {-1} = (fronts[t][J].upd \ {-1}) \cup (Columns(reg[t]) \ {-1})
        BY <3>2, <4>7, UpdStep
      <4> HIDE DEF A, B
      <4> QED  BY <2>3, <2>6, <4>4, <4>6, <4>8 DEF B
    <3>3. CASE ~(AggAssemble(t) /\ J = cur[t])
      <4>1. fronts'[t][J].upd \ {-1} =
              (fronts[t][J].upd \ {-1}) \cup (updates[t][J] \ updates'[t][J])
        BY <3>1, <3>3, UpdStep
      <4> HIDE DEF A, B
      <4> QED  BY <1>2, <2>1, <2>3, <2>4, <2>6, <3>3, <4>1 DEF B
    <3> QED  BY <3>2, <3>3
  <2> QED  BY <2>5, <2>6
<1> QED  BY <1>3, <1>4 DEF Gathered

\* After a count of 0 nothing more is sent, and after a further look at the
\* list nothing is left in it.
LEMMA NothingToComeStep ==
  ASSUME Basis, SingularIsLast, OwnUpdatesMade, Listed, Gathered, NothingToCome,
         NEW t \in Thread, Worker(t)
  PROVE  NothingToCome'
<1>1. /\ owners \in [Front -> Thread] /\ TypeOK /\ VisitsOwnFront /\ AggCountsAreExact
      /\ pc \in [Thread -> Labels]
      /\ cur \in [Thread -> Front] /\ -1 \notin Front /\ TypeInv
      /\ updates \in [Thread -> [Front -> SUBSET Front]]
  BY BasisTypes DEF Basis
<1>2. ASSUME NEW J \in Front, AllSent(J) PROVE AllSent(J)'
  BY <1>2, HandedOverStep DEF AllSent
<1>3. ASSUME NEW J \in Front, AllSent(J), aggHeads[J] = {} PROVE aggHeads'[J] = {}
  BY <1>3, HeadsStep DEF AllSent
<1>4. ASSUME NEW u \in Thread, pc'[u] \in CountedLabels \cup GatheredLabels
      PROVE  cur'[u] = cur[u]
  <2>1. ~Pop(u)
    BY <1>1, <1>4 DEF Pop, Goto, CountedLabels, GatheredLabels, ReportLabels
  <2>2. CASE u # t
    BY <1>1, <2>2, Others
  <2>3. CASE u = t
    BY <2>1, <2>3, WhoChanges
  <2> QED  BY <2>2, <2>3
<1>5. ASSUME NEW u \in Thread, pc'[u] \in CountedLabels \cup GatheredLabels
      PROVE  AllSent(cur[u])
  <2>1. CASE pc[u] \in CountedLabels \cup GatheredLabels
    BY <2>1 DEF NothingToCome
  <2>2. CASE pc[u] \notin CountedLabels \cup GatheredLabels
    <3>1. u = t
      BY <1>1, <1>5, <2>2, Others
    <3>2. AggCountRead(t) /\ aggCounts[cur[t]] = 0
      BY <1>5, <2>2, <3>1, WhereFromMore DEF CountedLabels
    <3> DEFINE Due == {w \in AggSenders(cur[t]) : status[w][cur[t]] # "F"}
    <3>3. Cardinality(Due) = 0
      BY <1>1, <3>2 DEF AggCountsAreExact
    <3>4. IsFiniteSet(Due)
      <4>1. Due \in SUBSET Thread
        BY <1>1, SenderFacts
      <4> QED  BY <4>1, FrontFinite, FS_Subset
    <3>5. Due = {}
      BY <3>3, <3>4, FS_EmptySet
    <3> QED  BY <3>1, <3>5 DEF AllSent
  <2> QED  BY <2>1, <2>2
<1>6. ASSUME NEW u \in Thread, pc'[u] \in GatheredLabels
      PROVE  aggHeads'[cur[u]] = {}
  <2>1. AllSent(cur[u]) /\ cur[u] \in Front
    BY <1>1, <1>5, <1>6
  <2>2. CASE pc[u] \in GatheredLabels
    <3>1. aggHeads[cur[u]] = {}
      BY <2>2 DEF NothingToCome
    <3> QED  BY <1>3, <2>1, <3>1
  <2>3. CASE pc[u] \notin GatheredLabels
    <3>1. u = t
      BY <1>1, <1>6, <2>3, Others
    <3>2. CASE aggHeads[cur[t]] = {}
      BY <1>3, <2>1, <3>1, <3>2
    <3>3. CASE AggAssemble(t)
      BY <2>1, <3>1, <3>3, BasisTypes DEF AggAssemble, agg!GetClear
    <3> QED  BY <1>6, <2>3, <3>1, <3>2, <3>3, WhereFromMore
  <2> QED  BY <2>2, <2>3
<1>7. ASSUME NEW J \in Front, stored'[J] # NotStored
      PROVE  /\ AllSent(J) /\ aggHeads[J] = {} /\ updates[owners[J]][J] = {}
             /\ stored'[J].upd = Updaters(J)
  <2>1. CASE stored[J] # NotStored
    <3>1. stored'[J] = stored[J]
      BY <2>1, StoredStep
    <3> QED  BY <2>1, <3>1 DEF NothingToCome
  <2>2. CASE stored[J] = NotStored
    <3>1. /\ J = cur[t] /\ owners[J] = t /\ pc[t] = "factor"
          /\ stored'[J].upd = fronts[t][J].upd
      BY <1>7, <2>2, StoredStep
    <3>2. AllSent(J) /\ aggHeads[J] = {} /\ updates[t][J] = {}
      BY <3>1 DEF NothingToCome, OwnUpdatesMade, GatheredLabels
    <3>3. status[t][J] # "E"
      BY <3>1 DEF SingularIsLast
    <3>4. fronts[t][J].upd \ {-1} =
            (OwnUpdaters(t, J) \ updates[t][J]) \cup UNION {OwnUpdaters(u, J) : u \in Arrived(J)}
      BY <2>2, <3>1, <3>3 DEF Gathered
    <3>5. Arrived(J) = AggSenders(J)
      BY <3>2 DEF Arrived, AllSent, HandedOver
    <3>6. fronts[t][J].upd \in SUBSET Front
      BY <1>1, <3>1 DEF TypeInv, SetUp, Working
    <3>7. fronts[t][J].upd = OwnUpdaters(t, J) \cup UNION {OwnUpdaters(u, J) : u \in AggSenders(J)}
      BY <1>1, <3>2, <3>4, <3>5, <3>6
    <3>8. ASSUME NEW I \in Updaters(J)
          PROVE  I \in OwnUpdaters(t, J) \/ \E u \in AggSenders(J) : I \in OwnUpdaters(u, J)
      BY <3>1 DEF OwnUpdaters, AggSenders
    <3>9. \A u \in Thread : OwnUpdaters(u, J) \subseteq Updaters(J)
      BY DEF OwnUpdaters
    <3>10. AggSenders(J) \subseteq Thread
      BY SenderFacts
    <3>11. fronts[t][J].upd = Updaters(J)
      BY <3>7, <3>8, <3>9, <3>10
    <3> QED  BY <3>1, <3>2, <3>11
  <2> QED  BY <2>1, <2>2
<1>8. ASSUME NEW J \in Front, stored'[J] # NotStored
      PROVE  /\ AllSent(J)' /\ aggHeads'[J] = {} /\ updates'[owners[J]][J] = {}
             /\ stored'[J].upd = Updaters(J)
  <2>1. updates'[owners[J]][J] \subseteq updates[owners[J]][J]
    BY <1>1, UpdatesStep
  <2> QED  BY <1>2, <1>3, <1>7, <1>8, <2>1
<1>9. ASSUME NEW u \in Thread, pc'[u] \in CountedLabels \cup GatheredLabels
      PROVE  \A v \in AggSenders(cur'[u]) : status'[v][cur'[u]] = "F"
  <2>1. PICK J \in Front : J = cur[u]
    BY <1>1
  <2>2. AllSent(J)' /\ cur'[u] = J
    BY <1>2, <1>4, <1>5, <1>9, <2>1
  <2> QED  BY <2>2 DEF AllSent
<1>10. \A u \in Thread : pc'[u] \in GatheredLabels => aggHeads'[cur'[u]] = {}
  BY <1>4, <1>6
<1> QED  BY <1>8, <1>9, <1>10 DEF NothingToCome, AllSent

-----------------------------------------------------------------------------
(* Every update in one place                                               *)

\* Basis holds in the initial states
LEMMA BasisInit == Init => Basis
  BY TypeInit, AggInit, StoreInit DEF Basis

\* and is kept by every step.
LEMMA BasisNext == Basis /\ [Next]_vars => Basis'
  BY TypeNext, AggNext, StoreNext DEF Basis, TypeInv

\* UpdateInv holds in the initial states
LEMMA UpdateInit == Init => UpdateInv
<1> SUFFICES ASSUME Init PROVE UpdateInv
  OBVIOUS
<1>1. /\ \A t \in Thread : pc[t] = "pop" /\ ahead[t] = 0
      /\ \A t \in Thread, J \in Front :
           /\ status[t][J] = IF J \in Active[t] THEN "W" ELSE "F"
           /\ updates[t][J] = OwnUpdaters(t, J)
           /\ fronts[t][J] = NoFront
      /\ \A J \in Front : stored[J] = NotStored /\ aggHeads[J] = {}
  BY DEF Init, agg!ListInit
<1>2. owners \in [Front -> Thread] /\ -1 \notin Front
  BY TreeAssumption DEF Front
<1>3. \A J \in Front : status[owners[J]][J] = "W"
  BY <1>1, <1>2, SenderFacts
<1>4. SingularIsLast
  BY <1>1 DEF SingularIsLast
<1>5. OwnUpdatesMade
  <2>1. ASSUME NEW t \in Thread, NEW J \in Front, J \notin Active[t] PROVE updates[t][J] = {}
    <3>1. J \notin Needed(t)
      BY <2>1 DEF Active
    <3> QED  BY <1>1, <3>1 DEF Needed
  <2>2. \A t \in Thread : pc[t] \notin SendLabels \cup GatheredLabels
    BY <1>1 DEF SendLabels, GatheredLabels, ReportLabels
  <2>3. ASSUME NEW t \in Thread, NEW J \in Front, status[t][J] = "F" PROVE J \notin Active[t]
    BY <1>1, <2>3
  <2> QED  BY <2>1, <2>2, <2>3 DEF OwnUpdatesMade
<1>6. StoredBefore
  <2>1. \A J \in Front : ~(pc[owners[J]] \in ReportLabels)
    BY <1>1, <1>2 DEF ReportLabels
  <2>2. \A J \in Front : \A I \in Updaters(J) : I \in updates[owners[I]][J]
    BY <1>1, <1>2 DEF Updaters, OwnUpdaters
  <2> QED  BY <1>3, <2>1, <2>2 DEF StoredBefore
<1>7. Listed
  BY <1>1 DEF Listed
<1>8. TakeExclusive
  BY <1>1 DEF TakeExclusive
<1>9. Gathered
  <2>1. \A t \in Thread, J \in Front : fronts[t][J].upd \ {-1} = {}
    BY <1>1 DEF NoFront
  <2>2. ASSUME NEW J \in Front PROVE Arrived(J) = {}
    <3>1. ASSUME NEW u \in AggSenders(J) PROVE ~HandedOver(u, J)
      <4>1. u \in Thread /\ J \in Active[u]
        BY SenderFacts
      <4> QED  BY <1>1, <4>1 DEF HandedOver
    <3> QED  BY <3>1 DEF Arrived
  <2> QED  BY <1>1, <2>1, <2>2 DEF Gathered
<1>10. NothingToCome
  BY <1>1 DEF NothingToCome, CountedLabels, GatheredLabels, ReportLabels
<1> QED  BY <1>4, <1>5, <1>6, <1>7, <1>8, <1>9, <1>10 DEF UpdateInv

\* and is kept by every step.
LEMMA UpdateNext == NoRevisit /\ Basis /\ UpdateInv /\ [Next]_vars => UpdateInv'
<1> SUFFICES ASSUME NoRevisit, Basis, UpdateInv, [Next]_vars PROVE UpdateInv'
  OBVIOUS
<1>1. ASSUME NEW t \in Thread, Worker(t) PROVE UpdateInv'
  BY <1>1, SingularStep, OwnUpdatesStep, StoredBeforeStep, ListedStep, TakeExclusiveStep,
     GatheredStep, NothingToComeStep DEF UpdateInv
<1>2. CASE UNCHANGED <<pc, cur, ahead, status, updates, fronts, aggHeads, aggLock, reg, stored>>
  <2>1. \A u \in Thread, J \in Front : HandedOver(u, J)' = HandedOver(u, J)
    BY <1>2 DEF HandedOver
  <2>2. \A J \in Front : Arrived(J)' = Arrived(J) /\ AllSent(J)' = AllSent(J)
    BY <1>2, <2>1, SenderFacts DEF Arrived, AllSent
  <2>3. SingularIsLast' /\ OwnUpdatesMade' /\ StoredBefore' /\ TakeExclusive'
    BY <1>2 DEF UpdateInv, SingularIsLast, OwnUpdatesMade, StoredBefore, TakeExclusive
  <2>4. Listed'
    BY <1>2, <2>1, SenderFacts DEF UpdateInv, Listed
  <2>5. Gathered'
    BY <1>2, <2>2 DEF UpdateInv, Gathered
  <2>6. NothingToCome'
    BY <1>2, <2>2, BasisTypes DEF UpdateInv, NothingToCome
  <2> QED  BY <2>3, <2>4, <2>5, <2>6 DEF UpdateInv
<1>3. Join \/ UNCHANGED vars =>
        UNCHANGED <<pc, cur, ahead, status, updates, fronts, aggHeads, aggLock, reg, stored>>
  BY DEF Join, vars, treevars, listvars
<1> QED  BY <1>1, <1>2, <1>3 DEF Next, Returned

\* UpdateInv is an invariant.
LEMMA UpdateCorrect == NoRevisit => (Spec => [](Basis /\ UpdateInv))
<1> SUFFICES ASSUME NoRevisit PROVE Spec => [](Basis /\ UpdateInv)
  OBVIOUS
<1>1. Init => Basis /\ UpdateInv
  BY BasisInit, UpdateInit
<1>2. Basis /\ UpdateInv /\ [Next]_vars => Basis' /\ UpdateInv'
  BY BasisNext, UpdateNext
<1> QED  BY <1>1, <1>2, PTL DEF Spec

\* The five places, one for each stage of the way.
LEMMA OnePlace ==
  ASSUME Basis, UpdateInv, NEW J \in Front, status[owners[J]][J] # "E", NEW I \in Updaters(J)
  PROVE  \E x : Holders(I, J) = {x}
<1>1. /\ owners \in [Front -> Thread] /\ SendsOnce /\ VisitsOwnFront /\ -1 \notin Front
      /\ I \in Front
  BY BasisTypes DEF Updaters
<1> DEFINE o == owners[J]
           s == owners[I]
<1>2. o \in Thread /\ s \in Thread /\ I \in OwnUpdaters(s, J)
  BY <1>1 DEF OwnUpdaters
<1>3. \A u \in Thread : I \in OwnUpdaters(u, J) => u = s
  BY DEF OwnUpdaters
<1>4. \A u \in Thread : updates[u][J] \subseteq OwnUpdaters(u, J)
  BY <1>1 DEF SendsOnce
<1>5. s # o => s \in AggSenders(J)
  BY DEF AggSenders
<1>6. \A u \in AggSenders(J) : u \in Thread /\ u # o
  BY SenderFacts
<1>7. \A u \in Thread : HandedOver(u, J) => updates[u][J] = {}
  BY DEF HandedOver, UpdateInv, OwnUpdatesMade, SendLabels
<1>8. \A c \in aggHeads[J] :
        c.from \in AggSenders(J) /\ c.cols = OwnUpdaters(c.from, J) /\ HandedOver(c.from, J)
  BY DEF UpdateInv, Listed
<1>9. Receiving(o, J) => reg[o] = aggHeads[J] /\ reg[o] # {}
  BY <1>2 DEF Receiving, UpdateInv, Listed
<1>10. \A u \in Thread : u # o => (I \in fronts[u][J].upd <=> I \in OwnUpdaters(u, J) \ updates[u][J])
  BY <1>1 DEF UpdateInv, Gathered
<1>11. stored[J] = NotStored =>
         (I \in fronts[o][J].upd <=>
            \/ I \in OwnUpdaters(o, J) \ updates[o][J]
            \/ \E u \in Arrived(J) : I \in OwnUpdaters(u, J))
  <2> SUFFICES ASSUME stored[J] = NotStored
               PROVE  I \in fronts[o][J].upd <=>
                         \/ I \in OwnUpdaters(o, J) \ updates[o][J]
                         \/ \E u \in Arrived(J) : I \in OwnUpdaters(u, J)
    OBVIOUS
  <2>1. fronts[o][J].upd \ {-1} =
          (OwnUpdaters(o, J) \ updates[o][J]) \cup UNION {OwnUpdaters(u, J) : u \in Arrived(J)}
    BY <1>2 DEF UpdateInv, Gathered
  <2> QED  BY <1>1, <2>1
<1>12. Arrived(J) \subseteq AggSenders(J)
  BY DEF Arrived
<1>13. stored[J] # NotStored =>
         AllSent(J) /\ aggHeads[J] = {} /\ updates[o][J] = {} /\ stored[J].upd = Updaters(J)
  BY DEF UpdateInv, NothingToCome
<1> DEFINE Upd   == {u \in Thread : I \in updates[u][J]}
           Frt   == {u \in Thread : I \in fronts[u][J].upd /\ (o = u \/ ~HandedOver(u, J))
                                      /\ stored[J] = NotStored}
           Lst   == {d \in aggHeads[J] : I \in d.cols /\ ~Receiving(o, J)}
           Ldd   == {d \in reg[o] : I \in d.cols /\ Receiving(o, J)}
           Std   == stored[J] # NotStored /\ I \in stored[J].upd
<1>14. Holders(I, J) = {<<"updates", t>> : t \in Upd} \cup {<<"front", t>> : t \in Frt}
                         \cup {<<"list", c.from>> : c \in Lst} \cup {<<"loaded", c.from>> : c \in Ldd}
                         \cup (IF Std THEN {<<"stored", -1>>} ELSE {})
  BY DEF Holders
<1>15. Upd \subseteq {s}
  BY <1>3, <1>4
<1>16. \A c \in Lst \cup Ldd : c \in aggHeads[J] /\ c.from = s
  BY <1>3, <1>6, <1>8, <1>9
<1>17. CASE stored[J] # NotStored
  <2>1. Frt = {} /\ Std
    BY <1>13, <1>17
  <2>2. Lst = {} /\ Ldd = {}
    BY <1>13, <1>16, <1>17
  <2>3. Upd = {}
    <3>1. CASE s = o
      BY <1>13, <1>15, <1>17, <3>1
    <3>2. CASE s # o
      BY <1>5, <1>7, <1>13, <1>15, <1>17, <3>2 DEF AllSent, HandedOver
    <3> QED  BY <3>1, <3>2
  <2> HIDE DEF Upd, Frt, Lst, Ldd, Std
  <2>4. Holders(I, J) = {<<"stored", -1>>}
    BY <1>14, <2>1, <2>2, <2>3
  <2> QED  BY <2>4
<1>18. CASE stored[J] = NotStored /\ I \in updates[s][J]
  <2>1. ~HandedOver(s, J)
    BY <1>2, <1>7, <1>18
  <2>2. Upd = {s} /\ ~Std
    BY <1>2, <1>15, <1>18
  <2>3. Lst = {} /\ Ldd = {}
    BY <1>8, <1>16, <2>1
  <2>4. Frt = {}
    <3>1. ASSUME NEW u \in Thread, I \in fronts[u][J].upd PROVE FALSE
      <4>1. I \notin OwnUpdaters(u, J) \ updates[u][J]
        BY <1>3, <1>18
      <4>2. u = o
        BY <1>10, <3>1, <4>1
      <4>3. PICK w \in Arrived(J) : I \in OwnUpdaters(w, J)
        BY <1>11, <1>18, <3>1, <4>1, <4>2
      <4>4. w = s /\ HandedOver(w, J)
        BY <1>3, <1>6, <1>12, <4>3 DEF Arrived
      <4> QED  BY <2>1, <4>4
    <3> QED  BY <3>1
  <2> HIDE DEF Upd, Frt, Lst, Ldd, Std
  <2>5. Holders(I, J) = {<<"updates", s>>}
    BY <1>14, <2>2, <2>3, <2>4
  <2> QED  BY <2>5
<1>19. CASE stored[J] = NotStored /\ I \notin updates[s][J] /\ s = o
  <2>1. Upd = {} /\ ~Std
    BY <1>15, <1>19
  <2>2. Lst = {} /\ Ldd = {}
    BY <1>6, <1>8, <1>16, <1>19
  <2>3. Frt = {o}
    <3>1. I \in fronts[o][J].upd
      BY <1>2, <1>11, <1>19
    <3>2. \A u \in Thread : u # o => I \notin fronts[u][J].upd
      BY <1>3, <1>10, <1>19
    <3> QED  BY <1>2, <1>19, <3>1, <3>2
  <2> HIDE DEF Upd, Frt, Lst, Ldd, Std
  <2>4. Holders(I, J) = {<<"front", o>>}
    BY <1>14, <2>1, <2>2, <2>3
  <2> QED  BY <2>4
<1>20. CASE stored[J] = NotStored /\ I \notin updates[s][J] /\ s # o
  <2>1. Upd = {} /\ ~Std /\ s \in AggSenders(J)
    BY <1>5, <1>15, <1>20
  <2>2. I \in fronts[s][J].upd /\ \A u \in Thread : u # o /\ u # s => I \notin fronts[u][J].upd
    BY <1>2, <1>3, <1>10, <1>20
  <2>3. I \in fronts[o][J].upd <=> s \in Arrived(J)
    BY <1>2, <1>3, <1>6, <1>11, <1>12, <1>20
  <2>4. CASE ~HandedOver(s, J)
    <3>1. Lst = {} /\ Ldd = {} /\ s \notin Arrived(J)
      BY <1>8, <1>16, <2>4 DEF Arrived
    <3>2. Frt = {s}
      BY <1>2, <1>20, <2>2, <2>3, <2>4, <3>1
    <3> HIDE DEF Upd, Frt, Lst, Ldd, Std
    <3>3. Holders(I, J) = {<<"front", s>>}
      BY <1>14, <2>1, <3>1, <3>2
    <3> QED  BY <3>3
  <2>5. ASSUME HandedOver(s, J), NEW c \in aggHeads[J], c.from = s
        PROVE  \E x : Holders(I, J) = {x}
    <3>1. s \notin Arrived(J) /\ I \in c.cols
      BY <1>2, <1>8, <2>5 DEF Arrived
    <3>2. Frt = {}
      BY <1>20, <2>2, <2>3, <2>5, <3>1
    <3>3. CASE Receiving(o, J)
      <4>1. Lst = {} /\ c \in Ldd /\ \A d \in Ldd : d.from = s
        BY <1>9, <1>16, <3>1, <3>3, <2>5
      <4> HIDE DEF Upd, Frt, Lst, Ldd, Std
      <4>2. {<<"loaded", d.from>> : d \in Ldd} = {<<"loaded", s>>}
        BY <4>1
      <4>3. Holders(I, J) = {<<"loaded", s>>}
        BY <1>14, <2>1, <3>2, <4>1, <4>2
      <4> QED  BY <4>3
    <3>4. CASE ~Receiving(o, J)
      <4>1. Ldd = {} /\ c \in Lst /\ \A d \in Lst : d.from = s
        BY <1>16, <3>1, <3>4, <2>5
      <4> HIDE DEF Upd, Frt, Lst, Ldd, Std
      <4>2. {<<"list", d.from>> : d \in Lst} = {<<"list", s>>}
        BY <4>1
      <4>3. Holders(I, J) = {<<"list", s>>}
        BY <1>14, <2>1, <3>2, <4>1, <4>2
      <4> QED  BY <4>3
    <3> QED  BY <3>3, <3>4
  <2>6. CASE HandedOver(s, J) /\ \A c \in aggHeads[J] : c.from # s
    <3>1. Lst = {} /\ Ldd = {}
      BY <1>16, <2>6
    <3>2. s \in Arrived(J)
      BY <2>1, <2>6 DEF Arrived
    <3>3. Frt = {o}
      BY <1>2, <1>20, <2>2, <2>3, <2>6, <3>2
    <3> HIDE DEF Upd, Frt, Lst, Ldd, Std
    <3>4. Holders(I, J) = {<<"front", o>>}
      BY <1>14, <2>1, <3>1, <3>3
    <3> QED  BY <3>4
  <2> QED  BY <2>4, <2>5, <2>6
<1> QED  BY <1>17, <1>18, <1>19, <1>20

\* An update is still to be made, in the chevron of its source, in an
\* aggregate on its way, or assembled, and never in two of these: no list
\* operation loses or repeats one, with the mutex or without.
THEOREM UpdateInOnePlaceCorrect == NoRevisit => (Spec => []UpdateInOnePlace)
<1> SUFFICES ASSUME NoRevisit PROVE Spec => []UpdateInOnePlace
  OBVIOUS
<1>1. Basis /\ UpdateInv => UpdateInOnePlace
  <2> SUFFICES ASSUME Basis, UpdateInv, NEW J \in Front, status[owners[J]][J] # "E",
                      NEW I \in Updaters(J)
               PROVE  Cardinality(Holders(I, J)) = 1
    BY DEF UpdateInOnePlace
  <2>1. PICK x : Holders(I, J) = {x}
    BY OnePlace
  <2> QED  BY <2>1, FS_Singleton
<1> QED  BY <1>1, UpdateCorrect, PTL

-----------------------------------------------------------------------------
(* The lists of postponed columns                                          *)

\* What the invariants of this section rest on.
PostBasis == Basis /\ UpdateInv /\ PostCountInv

\* PostBasis, in the parts the proofs below cite.
LEMMA PostTypes ==
  ASSUME PostBasis
  PROVE  /\ PostExclusive /\ PostCountsAreExact
         /\ postHeads \in [PostList -> SUBSET Chevron]
         /\ postCounts \in [PostList -> Int]
         /\ stored \in [Front -> [upd : SUBSET Front, late : SUBSET Front,
                                  left : SUBSET (Front \cup {-1})]]
         /\ nfront \notin Front /\ nfront \in PostList
         /\ \A J \in Front : J \in PostList
         /\ \A J \in Front : Children(J) \subseteq Front /\ Children(J) = PostSources(J)
<1>1. TypeOK /\ PostExclusive /\ PostCountsAreExact
  BY DEF PostBasis, PostCountInv, Basis, TypeInv
<1>2. postHeads \in [PostList -> SUBSET Chevron] /\ postCounts \in [PostList -> Int]
  BY <1>1 DEF TypeOK, post!ListTypeOK
<1>3. nfront \notin Front
  BY TreeAssumption DEF Front
<1>4. \A J \in Front : Children(J) \subseteq Front /\ Children(J) = PostSources(J)
  BY <1>3 DEF Children, PostSources
<1> QED  BY <1>1, <1>2, <1>3, <1>4 DEF PostList, TypeOK, FrontTypeOK

\* A worker that has left its loop takes no step.
LEMMA DoneIsDone ==
  ASSUME NEW t \in Thread, pc[t] = "done"
  PROVE  ~Worker(t)
  BY DEF Worker,
    Pop, Exhausted, ReturnError, ReturnFinished, ReturnActive, CheckError,
    VisitFinished, VisitOwned, VisitUnowned, PassThrough, EndVisit, AggLink,
    AggStore, AggDecrement, AggPoll, AggLoad, AggAssemble, AggCountRead,
    PostPoll, PostLoad, PostAssemble, FactorPivoting, FactorNoPivoting,
    FactorSingular, PostLink, PostStore, PostNothing, PostDecrement

\* The labels an owner reaches after it read that all its children have reported.
AfterCount == {"postLoad", "postClear", "factor"} \cup ReportLabels

\* From where an owner reaches the labels after the count of its children.
LEMMA WhereFromPost ==
  ASSUME Basis, Pivoting, NEW t \in Thread, Worker(t)
  PROVE
    /\ pc'[t] \in AfterCount =>
         cur' = cur /\ (pc[t] \in AfterCount \/ (PostPoll(t) /\ postCounts[cur[t]] = 0))
    /\ pc'[t] = "postClear" => PostLoad(t)
    /\ pc'[t] = "postNothing" => FactorPivoting(t)
    /\ pc'[t] = "factor" =>
         \/ PostPoll(t) /\ pc[t] = "postPoll" /\ postHeads[cur[t]] = {}
         \/ PostAssemble(t) /\ pc[t] = "postClear"
<1>1. pc \in [Thread -> Labels]
  BY BasisTypes
<1> USE <1>1 DEF Worker, Goto,
    Pop, Exhausted, ReturnError, ReturnFinished, ReturnActive, CheckError,
    VisitFinished, VisitOwned, VisitUnowned, PassThrough, EndVisit, AggLink,
    AggStore, AggDecrement, AggPoll, AggLoad, AggAssemble, AggCountRead,
    PostPoll, PostLoad, PostAssemble, FactorPivoting, FactorNoPivoting,
    FactorSingular, PostLink, PostStore, PostNothing, PostDecrement, AfterAggregates
<1>2. pc'[t] \in AfterCount =>
        cur' = cur /\ (pc[t] \in AfterCount \/ (PostPoll(t) /\ postCounts[cur[t]] = 0))
  BY DEF AfterCount, ReportLabels, post!IsCountZero
<1>3. pc'[t] = "postClear" => PostLoad(t)
  OBVIOUS
<1>4. pc'[t] = "postNothing" => FactorPivoting(t)
  OBVIOUS
<1>5. pc'[t] = "factor" =>
        \/ PostPoll(t) /\ pc[t] = "postPoll" /\ postHeads[cur[t]] = {}
        \/ PostAssemble(t) /\ pc[t] = "postClear"
  BY DEF post!IsListNonempty
<1> QED  BY <1>2, <1>3, <1>4, <1>5

\* A front reports once, and is then finished.
LEMMA ReportedStep ==
  ASSUME Basis, Pivoting, NEW t \in Thread, Worker(t), NEW I \in Front
  PROVE  /\ Reported(I)' <=> Reported(I) \/ ((PostStore(t) \/ PostNothing(t)) /\ I = cur[t])
         /\ status[owners[I]][I] = "F" => status'[owners[I]][I] = "F"
<1>1. /\ pc \in [Thread -> Labels] /\ cur \in [Thread -> Front] /\ TypeOK /\ VisitsOwnFront
      /\ status \in [Thread -> [Front -> {"W", "A", "F", "E"}]] /\ SendsOnce
      /\ owners[I] \in Thread
  BY BasisTypes
<1>2. PostStore(t) \/ PostNothing(t) =>
        owners[cur[t]] = t /\ pc'[t] = "postDecrement" /\ cur' = cur
  BY <1>1 DEF PostStore, PostNothing, VisitsOwnFront, OwnedLabels, Goto
<1>3. CASE owners[I] # t
  <2>1. /\ pc'[owners[I]] = pc[owners[I]] /\ cur'[owners[I]] = cur[owners[I]]
        /\ status'[owners[I]] = status[owners[I]]
    BY <1>1, <1>3, Others
  <2>2. ~((PostStore(t) \/ PostNothing(t)) /\ I = cur[t])
    BY <1>2, <1>3
  <2> QED  BY <2>1, <2>2 DEF Reported
<1>4. CASE owners[I] = t
  <2>1. status[t][I] = "F" => status'[t][I] = "F"
    BY <1>1, StaysFinished DEF FactorSingular
  <2>2. ASSUME status'[t][I] = "F", status[t][I] # "F" PROVE PostDecrement(t) /\ I = cur[t]
    <3>1. I = cur[t] /\ (PassThrough(t) \/ AggDecrement(t) \/ FactorNoPivoting(t)
                           \/ PostDecrement(t))
      BY <1>1, <2>2, StatusStep
    <3>2. ~PassThrough(t)
      BY <1>4, <3>1 DEF PassThrough
    <3>3. ~AggDecrement(t)
      BY <1>1, <1>4, <3>1, SenderFacts DEF AggDecrement, SendsOnce, SendLabels
    <3>4. ~FactorNoPivoting(t)
      BY DEF FactorNoPivoting
    <3> QED  BY <3>1, <3>2, <3>3, <3>4
  <2>3. PostDecrement(t) => pc[t] = "postDecrement" /\ status'[t][cur[t]] = "F"
    BY <1>1 DEF PostDecrement
  <2>4. pc[t] = "postDecrement" => PostDecrement(t)
    BY DEF Worker,
      Pop, Exhausted, ReturnError, ReturnFinished, ReturnActive, CheckError,
      VisitFinished, VisitOwned, VisitUnowned, PassThrough, EndVisit, AggLink,
      AggStore, AggDecrement, AggPoll, AggLoad, AggAssemble, AggCountRead,
      PostPoll, PostLoad, PostAssemble, FactorPivoting, FactorNoPivoting,
      FactorSingular, PostLink, PostStore, PostNothing
  <2>5. pc'[t] = "postDecrement" => PostStore(t) \/ PostNothing(t)
    BY <1>1, WhereFrom
  <2> QED  BY <1>2, <1>4, <2>1, <2>2, <2>3, <2>4, <2>5 DEF Reported
<1> QED  BY <1>3, <1>4

\* A front that has reported to its parent is stored.
LEMMA ReportedStored ==
  ASSUME PostBasis, NEW I \in Front, Reported(I)
  PROVE  stored[I] # NotStored
  BY DEF Reported, PostBasis, UpdateInv, StoredBefore, ReportLabels

\* Two threads are never in the middle of changing the same list.
LEMMA PostAlone ==
  ASSUME PostBasis, RootsLocked, Pivoting, PostListed, NEW t \in Thread, NEW u \in Thread \ {t},
         NEW L \in PostList,
         (pc[t] = "postStore" /\ PostTarget(cur[t]) = L) \/ (pc[t] = "postClear" /\ cur[t] = L),
         (pc[u] = "postStore" /\ PostTarget(cur[u]) = L) \/ (pc[u] = "postClear" /\ cur[u] = L)
  PROVE  FALSE
<1>1. /\ cur \in [Thread -> Front] /\ VisitsOwnFront /\ ReportsOnce /\ PostExclusive
      /\ nfront \notin Front /\ PostFlags[L] \in {"Y", "N"}
      /\ \A J \in Front : Children(J) = PostSources(J)
  BY BasisTypes, PostTypes DEF PostBasis, PostFlags
<1>2. \A v \in {t, u} : cur[v] \in Front /\ owners[cur[v]] = v
  BY <1>1 DEF VisitsOwnFront, OwnedLabels
<1>3. \A v \in {t, u} : pc[v] = "postStore" =>
        cur[v] \in PostSources(L) /\ status[v][cur[v]] # "F"
  BY <1>1, <1>2, ReporterFacts DEF ReportsOnce, OwnedLabels
<1>4. CASE pc[t] = "postStore" /\ pc[u] = "postStore"
  <2>1. PostTarget(cur[t]) = L /\ PostTarget(cur[u]) = L
    BY <1>4
  <2>2. CASE PostFlags[L] = "Y"
    BY <1>1, <1>4, <2>1, <2>2 DEF PostExclusive
  <2>3. CASE PostFlags[L] # "Y"
    BY <1>2, <1>3, <1>4, <2>3, OneReporter
  <2> QED  BY <2>2, <2>3
<1>5. ASSUME NEW v \in {t, u}, NEW w \in {t, u}, pc[v] = "postStore", pc[w] = "postClear"
      PROVE  FALSE
  <2>1. cur[w] = L
    BY <1>5
  <2>2. AllReported(L)
    BY <1>5, <2>1 DEF PostListed
  <2>3. cur[v] \in Children(L)
    BY <1>1, <1>2, <1>3, <1>5, <2>1
  <2> QED  BY <1>2, <1>3, <1>5, <2>2, <2>3 DEF AllReported
<1>6. CASE pc[t] = "postClear" /\ pc[u] = "postClear"
  BY <1>2, <1>6
<1> QED  BY <1>4, <1>5, <1>6

\* How a step changes a list of postponed data.
LEMMA PostHeadsStep ==
  ASSUME PostBasis, Pivoting, PostListed, NEW t \in Thread, Worker(t), NEW L \in PostList
  PROVE  \/ postHeads'[L] = postHeads[L] /\ ~(PostStore(t) /\ PostTarget(cur[t]) = L)
         \/ /\ PostStore(t) /\ PostTarget(cur[t]) = L /\ pc[t] = "postStore"
            /\ postHeads'[L] = postHeads[L] \cup {[from |-> cur[t], cols |-> stored[cur[t]].left]}
         \/ /\ PostAssemble(t) /\ cur[t] = L /\ pc[t] = "postClear"
            /\ postHeads'[L] = {} /\ reg[t] = postHeads[L]
<1>1. postHeads \in [PostList -> SUBSET Chevron] /\ \A J \in Front : J \in PostList
  BY PostTypes
<1>2. cur[t] \in Front
  BY BasisTypes DEF PostBasis
<1>3. CASE PostStore(t) /\ PostTarget(cur[t]) = L
  <2>1. pc[t] = "postStore"
    BY <1>3 DEF PostStore
  <2>2. reg[t] = postHeads[L]
    BY <1>3, <2>1 DEF PostListed
  <2>3. postHeads' = [postHeads EXCEPT
          ![L] = reg[t] \cup {[from |-> cur[t], cols |-> stored[cur[t]].left]}]
    BY <1>3 DEF PostStore, post!AddStore
  <2> QED  BY <1>1, <1>3, <2>1, <2>2, <2>3
<1>4. CASE PostAssemble(t) /\ cur[t] = L
  <2>1. pc[t] = "postClear" /\ postHeads' = [postHeads EXCEPT ![L] = {}]
    BY <1>4 DEF PostAssemble, post!GetClear
  <2>2. reg[t] = postHeads[L]
    BY <1>4, <2>1 DEF PostListed
  <2> QED  BY <1>1, <1>4, <2>1, <2>2
<1>5. CASE ~(PostStore(t) /\ PostTarget(cur[t]) = L) /\ ~(PostAssemble(t) /\ cur[t] = L)
  <2>1. postHeads'[L] = postHeads[L]
    BY <1>1, <1>5, WhoChanges DEF PostStore, PostAssemble, post!AddStore, post!GetClear
  <2> QED  BY <1>5, <2>1
<1> QED  BY <1>3, <1>4, <1>5

\* Once the children of a front have reported, what they left is settled.
LEMMA LateStep ==
  ASSUME PostBasis, Pivoting, NEW t \in Thread, Worker(t), NEW J \in Front, AllReported(J)
  PROVE  AllReported(J)' /\ LateOf(J)' = LateOf(J)
<1>1. Basis
  BY DEF PostBasis
<1>2. \A I \in Children(J) : I \in Front
  BY DEF Children
<1>3. ASSUME NEW I \in Children(J)
      PROVE  status'[owners[I]][I] = "F" /\ stored'[I] = stored[I]
  <2>1. status[owners[I]][I] = "F"
    BY DEF AllReported
  <2>2. stored[I] # NotStored
    BY <1>2, <2>1, ReportedStored DEF Reported
  <2> QED  BY <1>1, <1>2, <2>1, <2>2, ReportedStep, StoredStep
<1> QED  BY <1>3 DEF AllReported, LateOf

\* What is taken stays so.
LEMMA TakenStep ==
  ASSUME PostBasis, Pivoting, NEW t \in Thread, Worker(t), NEW L \in PostList, LateTaken(L)
  PROVE  LateTaken(L)'
<1>1. L \in Front /\ L # nfront
  BY DEF LateTaken, PostList
<1>2. /\ Basis /\ owners[L] \in Thread /\ TypeOK
  BY <1>1, BasisTypes DEF PostBasis
<1>3. CASE stored[L] # NotStored
  <2>1. stored'[L] # NotStored
    BY <1>1, <1>2, <1>3, StoredStep
  <2> QED  BY <1>1, <2>1 DEF LateTaken
<1>4. CASE pc[owners[L]] = "factor" /\ cur[owners[L]] = L
  <2>1. CASE owners[L] # t
    <3>1. pc'[owners[L]] = "factor" /\ cur'[owners[L]] = L
      BY <1>2, <1>4, <2>1, Others
    <3> QED  BY <1>1, <3>1 DEF LateTaken
  <2>2. CASE owners[L] = t
    <3>1. FactorPivoting(t)
      BY <1>4, <2>2 DEF Worker,
        Pop, Exhausted, ReturnError, ReturnFinished, ReturnActive, CheckError,
        VisitFinished, VisitOwned, VisitUnowned, PassThrough, EndVisit, AggLink,
        AggStore, AggDecrement, AggPoll, AggLoad, AggAssemble, AggCountRead,
        PostPoll, PostLoad, PostAssemble, FactorNoPivoting,
        FactorSingular, PostLink, PostStore, PostNothing, PostDecrement
    <3>2. stored'[L] # NotStored
      BY <1>1, <1>2, <1>4, <2>2, <3>1, StoredStep
    <3> QED  BY <1>1, <3>2 DEF LateTaken
  <2> QED  BY <2>1, <2>2
<1> QED  BY <1>3, <1>4 DEF LateTaken

-----------------------------------------------------------------------------
(* What the lists hold                                                     *)

\* A list of postponed data holds exactly what the children have reported and
\* left.
LEMMA PostListedStep ==
  ASSUME PostBasis, RootsLocked, PostListed, NEW t \in Thread, Worker(t)
  PROVE  PostListed'
<1> SUFFICES ASSUME Pivoting PROVE PostListed'
  BY DEF PostListed
<1>1. /\ pc \in [Thread -> Labels] /\ cur \in [Thread -> Front] /\ TypeOK /\ VisitsOwnFront
      /\ reg \in [Thread -> SUBSET Chevron] /\ Basis /\ ReportsOnce
  BY BasisTypes DEF PostBasis
<1>2. /\ nfront \notin Front /\ \A J \in Front : J \in PostList
      /\ PostCountsAreExact
      /\ postHeads \in [PostList -> SUBSET Chevron]
      /\ \A J \in Front : Children(J) \subseteq Front /\ Children(J) = PostSources(J)
      /\ \A L \in PostList : PostSources(L) \subseteq Front
      /\ \A J \in Front : PostTarget(J) \in PostList
  BY PostTypes, ReporterFacts
<1>3. ASSUME NEW L \in PostList, NEW c \in postHeads'[L]
      PROVE  c.from \in PostSources(L) /\ Reported(c.from)' /\ c.cols = stored'[c.from].left
  <2>1. CASE c \in postHeads[L]
    <3>1. c.from \in PostSources(L) /\ Reported(c.from) /\ c.cols = stored[c.from].left
      BY <2>1 DEF PostListed
    <3>2. c.from \in Front /\ stored[c.from] # NotStored
      BY <1>2, <3>1, ReportedStored
    <3> QED  BY <1>1, <3>1, <3>2, ReportedStep, StoredStep
  <2>2. CASE c \notin postHeads[L]
    <3>1. /\ PostStore(t) /\ PostTarget(cur[t]) = L
          /\ c = [from |-> cur[t], cols |-> stored[cur[t]].left]
      BY <1>3, <2>2, PostHeadsStep
    <3>2. cur[t] \in PostSources(L) /\ stored' = stored
      BY <1>1, <3>1, ReporterFacts DEF PostStore
    <3>3. PICK I \in Front : I = cur[t]
      BY <1>1
    <3>4. Reported(I)'
      BY <1>1, <3>1, <3>3, ReportedStep
    <3> QED  BY <3>1, <3>2, <3>3, <3>4
  <2> QED  BY <2>1, <2>2
<1>4. ASSUME NEW L \in PostList, NEW I \in PostSources(L),
             Reported(I)', stored'[I].left # {}, ~LateTaken(L)'
      PROVE  [from |-> I, cols |-> stored'[I].left] \in postHeads'[L]
  <2>1. I \in Front
    BY <1>2
  <2>2. ~LateTaken(L)
    BY <1>4, TakenStep
  <2>3. ~(PostAssemble(t) /\ cur[t] = L)
    <3> SUFFICES ASSUME PostAssemble(t), cur[t] = L PROVE FALSE
      OBVIOUS
    <3>1. pc'[t] = "factor" /\ cur' = cur /\ owners[L] = t /\ L # nfront
      BY <1>1, <1>2 DEF PostAssemble, Goto, VisitsOwnFront, OwnedLabels
    <3> QED  BY <1>4, <3>1 DEF LateTaken
  <2>4. CASE Reported(I)
    <3>1. stored'[I] = stored[I]
      BY <1>1, <2>1, <2>4, ReportedStored, StoredStep
    <3>2. [from |-> I, cols |-> stored[I].left] \in postHeads[L]
      BY <1>4, <2>2, <2>4, <3>1 DEF PostListed
    <3> QED  BY <2>3, <3>1, <3>2, PostHeadsStep
  <2>5. CASE ~Reported(I)
    <3>1. (PostStore(t) \/ PostNothing(t)) /\ I = cur[t]
      BY <1>1, <1>4, <2>1, <2>5, ReportedStep
    <3>2. stored' = stored
      BY <3>1 DEF PostStore, PostNothing
    <3>3. ~PostNothing(t)
      BY <1>4, <3>1, <3>2 DEF PostNothing, PostListed
    <3>4. PostTarget(I) = L
      BY ReporterFacts
    <3> QED  BY <2>3, <3>1, <3>2, <3>3, <3>4, PostHeadsStep
  <2> QED  BY <2>4, <2>5
<1>5. ASSUME NEW u \in Thread, pc'[u] = "postStore"
      PROVE  reg'[u] = postHeads'[PostTarget(cur'[u])]
  <2>1. CASE u # t
    <3>1. pc[u] = "postStore" /\ cur'[u] = cur[u] /\ reg'[u] = reg[u]
      BY <1>1, <1>5, <2>1, Others, OthersMore
    <3>2. reg[u] = postHeads[PostTarget(cur[u])] /\ PostTarget(cur[u]) \in PostList
      BY <1>1, <1>2, <3>1 DEF PostListed
    <3>3. postHeads'[PostTarget(cur[u])] = postHeads[PostTarget(cur[u])]
      BY <2>1, <3>1, <3>2, PostAlone, PostHeadsStep
    <3> QED  BY <3>1, <3>2, <3>3
  <2>2. CASE u = t
    <3>1. PostLink(t)
      BY <1>1, <1>5, <2>2, WhereFrom
    <3> QED  BY <1>1, <2>2, <3>1 DEF PostLink, post!AddLink
  <2> QED  BY <2>1, <2>2
<1>6. ASSUME NEW u \in Thread, pc'[u] = "postClear"
      PROVE  reg'[u] = postHeads'[cur'[u]]
  <2>1. CASE u # t
    <3>1. pc[u] = "postClear" /\ cur'[u] = cur[u] /\ reg'[u] = reg[u]
      BY <1>1, <1>6, <2>1, Others, OthersMore
    <3>2. reg[u] = postHeads[cur[u]] /\ cur[u] \in PostList
      BY <1>1, <1>2, <3>1 DEF PostListed
    <3>3. postHeads'[cur[u]] = postHeads[cur[u]]
      BY <2>1, <3>1, <3>2, PostAlone, PostHeadsStep
    <3> QED  BY <3>1, <3>2, <3>3
  <2>2. CASE u = t
    <3>1. PostLoad(t)
      BY <1>1, <1>6, <2>2, WhereFromPost
    <3> QED  BY <1>1, <2>2, <3>1 DEF PostLoad, post!GetLoad
  <2> QED  BY <2>1, <2>2
<1>7. ASSUME NEW u \in Thread, pc'[u] \in AfterCount
      PROVE  cur'[u] = cur[u] /\ AllReported(cur[u])
  <2>1. CASE pc[u] \in AfterCount
    <3>1. cur'[u] = cur[u]
      BY <1>1, <1>7, Others, WhereFromPost
    <3> QED  BY <2>1, <3>1 DEF PostListed, AfterCount
  <2>2. CASE pc[u] \notin AfterCount
    <3>1. u = t
      BY <1>1, <1>7, <2>2, Others
    <3>2. PostPoll(t) /\ postCounts[cur[t]] = 0 /\ cur' = cur
      BY <1>1, <1>7, <2>2, <3>1, WhereFromPost
    <3>3. PICK J \in Front : J = cur[t]
      BY <1>1
    <3> DEFINE Due == {I \in PostSources(J) : status[owners[I]][I] # "F"}
    <3>4. Cardinality(Due) = 0
      BY <1>2, <3>2, <3>3 DEF PostCountsAreExact
    <3>5. IsFiniteSet(Due)
      <4>1. Due \in SUBSET Front
        BY <1>2
      <4> QED  BY <4>1, FrontFinite, FS_Subset
    <3>6. Due = {}
      BY <3>4, <3>5, FS_EmptySet
    <3> QED  BY <1>2, <3>1, <3>2, <3>3, <3>6 DEF AllReported
  <2> QED  BY <2>1, <2>2
<1>8. ASSUME NEW u \in Thread, pc'[u] \in AfterCount
      PROVE  \A I \in Children(cur'[u]) : status'[owners[I]][I] = "F"
  <2>1. PICK J \in Front : J = cur[u]
    BY <1>1
  <2>2. cur'[u] = J /\ AllReported(J)'
    BY <1>7, <1>8, <2>1, LateStep
  <2> QED  BY <2>2 DEF AllReported
<1>9. ASSUME NEW u \in Thread, pc'[u] = "postNothing"
      PROVE  stored'[cur'[u]].left = {}
  <2>1. CASE u # t
    <3>1. pc[u] = "postNothing" /\ cur'[u] = cur[u]
      BY <1>1, <1>9, <2>1, Others
    <3>2. stored[cur[u]].left = {} /\ cur[u] \in Front /\ owners[cur[u]] = u
      BY <1>1, <3>1 DEF PostListed, VisitsOwnFront, OwnedLabels
    <3>3. stored'[cur[u]] = stored[cur[u]]
      BY <1>1, <2>1, <3>2, StoreStep DEF Basis
    <3> QED  BY <3>1, <3>2, <3>3
  <2>2. CASE u = t
    <3>1. FactorPivoting(t)
      BY <1>1, <1>9, <2>2, WhereFromPost
    <3>2. PICK left \in SUBSET (fronts[t][cur[t]].late \cup {cur[t]}) :
            /\ stored' = [stored EXCEPT
                 ![cur[t]] = [upd |-> fronts[t][cur[t]].upd, late |-> fronts[t][cur[t]].late,
                              left |-> left]]
            /\ pc' = [pc EXCEPT ![t] = IF left = {} THEN "postNothing" ELSE "postLink"]
            /\ cur' = cur
      BY <3>1 DEF FactorPivoting, Goto
    <3>3. left = {}
      BY <1>1, <1>9, <2>2, <3>2
    <3>4. stored'[cur[t]].left = left
      BY <1>1, <3>2, PostTypes
    <3> QED  BY <2>2, <3>2, <3>3, <3>4
  <2> QED  BY <2>1, <2>2
<1> QED  BY <1>3, <1>4, <1>5, <1>6, <1>8, <1>9 DEF PostListed, AllReported, AfterCount

\* What a step does to the postponed columns a working chevron holds.
LEMMA ChevronLateStep ==
  ASSUME Basis, NEW t \in Thread, Worker(t), NEW J \in Front
  PROVE  \/ fronts'[t][J].late = fronts[t][J].late /\ ~(PostAssemble(t) /\ J = cur[t])
         \/ /\ PostAssemble(t) /\ J = cur[t]
            /\ fronts'[t][J].late = fronts[t][J].late \cup Columns(reg[t])
         \/ /\ J = cur[t] /\ fronts'[t][J].late = {}
            /\ FactorNoPivoting(t) \/ FactorSingular(t) \/ PostDecrement(t)
<1>1. /\ fronts \in [Thread -> [Front -> [upd : SUBSET (Front \cup {-1}), late : SUBSET Front]]]
      /\ cur \in [Thread -> Front]
  BY BasisTypes
<1>2. CASE J # cur[t]
  <2>1. fronts'[t][J] = fronts[t][J]
    <3>1. fronts' = fronts \/ \E new : fronts' = [fronts EXCEPT ![t][cur[t]] = new]
      BY ChevronType DEF Basis
    <3> QED  BY <1>1, <1>2, <3>1
  <2> QED  BY <1>2, <2>1
<1>3. CASE J = cur[t] /\ (VisitOwned(t) \/ VisitUnowned(t))
  <2> DEFINE now  == {I \in updates[t][J] : status[t][I] = "F"}
             work == IF fronts[t][J] = NoFront THEN NewFront ELSE fronts[t][J]
  <2>1. /\ fronts' = [fronts EXCEPT ![t][J] = [work EXCEPT !.upd = @ \cup now]]
        /\ pc[t] = "visit"
    BY <1>3 DEF VisitOwned, VisitUnowned, SetupAndUpdate
  <2>2. work \in [upd : SUBSET (Front \cup {-1}), late : SUBSET Front]
    BY <1>1 DEF NewFront
  <2>3. work.late = fronts[t][J].late
    BY DEF NewFront, NoFront
  <2>4. fronts'[t][J].late = work.late
    BY <1>1, <2>1, <2>2
  <2>5. ~PostAssemble(t)
    BY <2>1 DEF PostAssemble
  <2> QED  BY <2>3, <2>4, <2>5
<1>4. CASE J = cur[t] /\ AggAssemble(t)
  <2>1. fronts'[t][J].late = fronts[t][J].late /\ ~PostAssemble(t)
    BY <1>1, <1>4 DEF AggAssemble, PostAssemble
  <2> QED  BY <2>1
<1>5. CASE J = cur[t] /\ PostAssemble(t)
  BY <1>1, <1>5 DEF PostAssemble
<1>6. CASE J = cur[t] /\ (FactorNoPivoting(t) \/ FactorSingular(t) \/ PostDecrement(t))
  <2>1. fronts' = [fronts EXCEPT ![t][J] = NoFront]
    BY <1>6 DEF FactorNoPivoting, FactorSingular, PostDecrement
  <2>2. fronts'[t][J].late = {}
    BY <1>1, <2>1 DEF NoFront
  <2> QED  BY <1>6, <2>2
<1>7. CASE J = cur[t] /\ ~PostAssemble(t) /\ fronts' = fronts
  BY <1>7
<1> QED  BY <1>2, <1>3, <1>4, <1>5, <1>6, <1>7, WhoChanges

-----------------------------------------------------------------------------
(* What the owners take                                                    *)

\* A list that is taken holds what the children left.
LEMMA ListIsLate ==
  ASSUME PostBasis, Pivoting, PostListed, NEW J \in Front, AllReported(J), ~LateTaken(J)
  PROVE  Columns(postHeads[J]) = LateOf(J)
<1>1. J \in PostList /\ Children(J) = PostSources(J)
  BY PostTypes
<1>2. ASSUME NEW I \in Children(J), stored[I].left # {}
      PROVE  \E c \in postHeads[J] : c.cols = stored[I].left
  <2>1. Reported(I)
    BY DEF AllReported, Reported
  <2>2. [from |-> I, cols |-> stored[I].left] \in postHeads[J]
    BY <1>1, <1>2, <2>1 DEF PostListed
  <2> QED  BY <2>2
<1>3. ASSUME NEW c \in postHeads[J]
      PROVE  \E I \in Children(J) : c.cols = stored[I].left
  BY <1>1 DEF PostListed
<1>4. ASSUME NEW x \in LateOf(J) PROVE x \in Columns(postHeads[J])
  <2>1. PICK I \in Children(J) : x \in stored[I].left
    BY DEF LateOf
  <2>2. PICK c \in postHeads[J] : c.cols = stored[I].left
    BY <1>2, <2>1
  <2> QED  BY <2>1, <2>2 DEF Columns
<1>5. ASSUME NEW x \in Columns(postHeads[J]) PROVE x \in LateOf(J)
  <2>1. PICK c \in postHeads[J] : x \in c.cols
    BY DEF Columns
  <2>2. PICK I \in Children(J) : c.cols = stored[I].left
    BY <1>3
  <2> QED  BY <2>1, <2>2 DEF LateOf
<1> QED  BY <1>4, <1>5

\* A front is factored from the columns all its children left.
LEMMA LateGatheredStep ==
  ASSUME PostBasis, PostListed, LateGathered, NEW t \in Thread, Worker(t)
  PROVE  LateGathered'
<1>1. /\ pc \in [Thread -> Labels] /\ cur \in [Thread -> Front] /\ TypeOK /\ VisitsOwnFront
      /\ Basis /\ owners \in [Front -> Thread]
  BY BasisTypes DEF PostBasis
<1>2. nfront \notin Front /\ \A J \in Front : J \in PostList
  BY PostTypes
<1>3. ASSUME NEW J \in Front, stored'[J] = NotStored
      PROVE  fronts'[owners[J]][J].late = IF Pivoting /\ LateTaken(J)' THEN LateOf(J)' ELSE {}
  <2> DEFINE o == owners[J]
  <2>1. o \in Thread /\ stored[J] = NotStored
    BY <1>1, <1>3, StoredStep
  <2>2. fronts[o][J].late = IF Pivoting /\ LateTaken(J) THEN LateOf(J) ELSE {}
    BY <2>1 DEF LateGathered
  <2>3. LateTaken(J) <=> pc[o] = "factor" /\ cur[o] = J
    BY <1>2, <2>1 DEF LateTaken
  <2>4. LateTaken(J)' <=> pc'[o] = "factor" /\ cur'[o] = J
    BY <1>2, <1>3 DEF LateTaken
  <2>5. CASE o # t
    <3>1. pc'[o] = pc[o] /\ cur'[o] = cur[o] /\ fronts'[o] = fronts[o]
      BY <1>1, <2>1, <2>5, Others, OthersMore
    <3>2. Pivoting /\ LateTaken(J) => LateOf(J)' = LateOf(J)
      <4> SUFFICES ASSUME Pivoting, LateTaken(J) PROVE LateOf(J)' = LateOf(J)
        OBVIOUS
      <4>1. AllReported(J)
        BY <2>1, <2>3 DEF PostListed
      <4> QED  BY <4>1, LateStep
    <3> QED  BY <2>2, <2>3, <2>4, <3>1, <3>2
  <2>6. CASE o = t
    <3>1. ~((FactorNoPivoting(t) \/ FactorPivoting(t)) /\ J = cur[t])
      BY <1>1, <1>3, StoredStep
    <3>2. ~(PostDecrement(t) /\ J = cur[t])
      BY <2>1, <2>6 DEF PostDecrement, PostBasis, UpdateInv, StoredBefore, ReportLabels
    <3>3. CASE ~Pivoting
      <4>1. fronts[t][J].late = {}
        BY <2>2, <2>6, <3>3
      <4>2. ~PostAssemble(t)
        <5>1. pc[t] # "postClear"
          BY <1>1, <2>6, <3>3 DEF LateGathered
        <5> QED  BY <5>1 DEF PostAssemble
      <4>3. fronts'[t][J].late = {}
        BY <1>1, <4>1, <4>2, ChevronLateStep
      <4> QED  BY <2>6, <3>3, <4>3
    <3>4. CASE Pivoting
      <4>1. ~LateTaken(J)
        <5> SUFFICES ASSUME pc[t] = "factor", cur[t] = J PROVE FALSE
          BY <2>3, <2>6
        <5>1. FactorPivoting(t)
          BY <3>4 DEF Worker,
            Pop, Exhausted, ReturnError, ReturnFinished, ReturnActive, CheckError,
            VisitFinished, VisitOwned, VisitUnowned, PassThrough, EndVisit, AggLink,
            AggStore, AggDecrement, AggPoll, AggLoad, AggAssemble, AggCountRead,
            PostPoll, PostLoad, PostAssemble, FactorNoPivoting,
            FactorSingular, PostLink, PostStore, PostNothing, PostDecrement
        <5> QED  BY <3>1, <5>1
      <4>2. fronts[t][J].late = {}
        BY <2>2, <2>6, <4>1
      <4>3. ~FactorSingular(t)
        BY <3>4 DEF FactorSingular
      <4>4. CASE PostAssemble(t) /\ J = cur[t]
        <5>1. pc[t] = "postClear" /\ pc'[t] = "factor" /\ cur' = cur
          BY <1>1, <4>4 DEF PostAssemble, Goto
        <5>2. AllReported(J) /\ reg[t] = postHeads[J]
          BY <3>4, <4>4, <5>1 DEF PostListed
        <5>3. Columns(reg[t]) = LateOf(J)
          BY <3>4, <4>1, <5>2, ListIsLate
        <5>4. LateOf(J)' = LateOf(J)
          BY <3>4, <5>2, LateStep
        <5>5. fronts'[t][J].late = fronts[t][J].late \cup Columns(reg[t])
          BY <1>1, <3>1, <3>2, <4>3, <4>4, ChevronLateStep
        <5>6. LateTaken(J)'
          BY <2>4, <2>6, <4>4, <5>1
        <5> QED  BY <2>6, <3>4, <4>2, <5>3, <5>4, <5>5, <5>6
      <4>5. CASE ~(PostAssemble(t) /\ J = cur[t])
        <5>1. fronts'[t][J].late = {}
          BY <1>1, <4>2, <4>5, ChevronLateStep
        <5>2. CASE LateTaken(J)'
          <6>1. pc'[t] = "factor" /\ cur'[t] = J
            BY <2>4, <2>6, <5>2
          <6>2. cur[t] = J
            BY <1>1, <3>4, <6>1, WhereFromPost DEF AfterCount
          <6>3. PostPoll(t) /\ postHeads[J] = {} /\ postCounts[J] = 0
            BY <1>1, <3>4, <4>5, <6>1, <6>2, WhereFromPost DEF PostPoll, AfterCount, ReportLabels
          <6>4. AllReported(J)
            <7> DEFINE Due == {I \in PostSources(J) : status[owners[I]][I] # "F"}
            <7>1. Cardinality(Due) = 0
              BY <1>2, <3>4, <6>3, PostTypes DEF PostCountsAreExact
            <7>2. Due \in SUBSET Front
              BY <1>2, ReporterFacts
            <7>3. IsFiniteSet(Due)
              BY <7>2, FrontFinite, FS_Subset
            <7>4. Due = {}
              BY <7>1, <7>3, FS_EmptySet
            <7> QED  BY <7>4, PostTypes DEF AllReported
          <6>5. LateOf(J) = {}
            BY <3>4, <4>1, <6>3, <6>4, ListIsLate DEF Columns
          <6>6. LateOf(J)' = LateOf(J)
            BY <3>4, <6>4, LateStep
          <6> QED  BY <2>6, <3>4, <5>1, <5>2, <6>5, <6>6
        <5>3. CASE ~LateTaken(J)'
          BY <2>6, <5>1, <5>3
        <5> QED  BY <5>2, <5>3
      <4> QED  BY <4>4, <4>5
    <3> QED  BY <3>3, <3>4
  <2> QED  BY <2>5, <2>6
<1>4. ASSUME NEW J \in Front, stored'[J] # NotStored, Pivoting
      PROVE  AllReported(J)' /\ stored'[J].late = LateOf(J)'
  <2>1. CASE stored[J] # NotStored
    <3>1. AllReported(J) /\ stored[J].late = LateOf(J)
      BY <1>4, <2>1 DEF LateGathered
    <3>2. stored'[J] = stored[J]
      BY <1>1, <2>1, StoredStep
    <3> QED  BY <1>4, <3>1, <3>2, LateStep
  <2>2. CASE stored[J] = NotStored
    <3>1. /\ FactorPivoting(t) \/ FactorNoPivoting(t)
          /\ J = cur[t] /\ owners[J] = t /\ pc[t] = "factor"
      BY <1>1, <1>4, <2>2, StoredStep
    <3>2. FactorPivoting(t)
      BY <1>4, <3>1 DEF FactorNoPivoting
    <3>3. stored'[J].late = fronts[t][J].late
      <4>1. PICK left : stored' = [stored EXCEPT
              ![J] = [upd |-> fronts[t][J].upd, late |-> fronts[t][J].late, left |-> left]]
        BY <3>1, <3>2 DEF FactorPivoting
      <4> QED  BY <4>1, PostTypes
    <3>4. LateTaken(J)
      BY <1>2, <3>1 DEF LateTaken
    <3>5. fronts[t][J].late = LateOf(J)
      BY <1>4, <2>2, <3>1, <3>4 DEF LateGathered
    <3>6. AllReported(J)
      BY <1>4, <3>1 DEF PostListed
    <3> QED  BY <1>4, <3>3, <3>5, <3>6, LateStep
  <2> QED  BY <2>1, <2>2
<1>5. ASSUME NEW J \in Front, stored'[J] # NotStored, ~Pivoting
      PROVE  stored'[J].late = {} /\ stored'[J].left = {}
  <2>1. CASE stored[J] # NotStored
    <3>1. stored[J].late = {} /\ stored[J].left = {}
      BY <1>5, <2>1 DEF LateGathered
    <3>2. stored'[J] = stored[J]
      BY <1>1, <2>1, StoredStep
    <3> QED  BY <3>1, <3>2
  <2>2. CASE stored[J] = NotStored
    <3>1. /\ FactorPivoting(t) \/ FactorNoPivoting(t)
          /\ J = cur[t] /\ owners[J] = t /\ pc[t] = "factor"
      BY <1>1, <1>5, <2>2, StoredStep
    <3>2. stored'[J] = [upd |-> fronts[t][J].upd, late |-> fronts[t][J].late, left |-> {}]
      BY <1>5, <3>1, PostTypes DEF FactorPivoting, FactorNoPivoting
    <3>3. fronts[t][J].late = {}
      BY <1>5, <2>2, <3>1 DEF LateGathered
    <3> QED  BY <3>2, <3>3
  <2> QED  BY <2>1, <2>2
<1>6. ASSUME ~Pivoting, NEW u \in Thread
      PROVE  pc'[u] \notin {"postPoll", "postLoad", "postClear"}
  <2>1. pc[u] \notin {"postPoll", "postLoad", "postClear"}
    BY <1>6 DEF LateGathered
  <2>2. CASE u # t
    BY <1>1, <2>1, <2>2, Others
  <2>3. CASE u = t
    BY <1>1, <1>6, <2>1, <2>3 DEF Worker, Goto, AfterAggregates,
      Pop, Exhausted, ReturnError, ReturnFinished, ReturnActive, CheckError,
      VisitFinished, VisitOwned, VisitUnowned, PassThrough, EndVisit, AggLink,
      AggStore, AggDecrement, AggPoll, AggLoad, AggAssemble, AggCountRead,
      PostPoll, PostLoad, PostAssemble, FactorPivoting, FactorNoPivoting,
      FactorSingular, PostLink, PostStore, PostNothing, PostDecrement
  <2> QED  BY <2>2, <2>3
<1> QED  BY <1>3, <1>4, <1>5, <1>6 DEF LateGathered

\* *perror names a singular front, and the caller returns when all workers
\* are done.
LEMMA ToldStep ==
  ASSUME PostBasis, Told, NEW t \in Thread, Worker(t)
  PROVE  Told' /\ ~joined
<1>1. /\ cur \in [Thread -> Front] /\ Basis /\ SingularIsLast
  BY BasisTypes DEF PostBasis, UpdateInv
<1>2. ~joined /\ joined' = joined
  <2>1. pc[t] # "done"
    BY DoneIsDone
  <2> QED  BY <2>1, WhoChanges DEF Told, mainvars
<1>3. ASSUME perror' # -1
      PROVE  perror' \in Front /\ status'[owners[perror']][perror'] = "E"
  <2>1. CASE ReturnError(t)
    <3>1. perror' = cur[t] /\ status[t][cur[t]] = "E" /\ status' = status
      BY <2>1 DEF ReturnError, treevars
    <3>2. owners[cur[t]] = t
      BY <1>1, <3>1 DEF SingularIsLast
    <3> QED  BY <1>1, <3>1, <3>2
  <2>2. CASE perror' = perror
    <3>1. perror \in Front /\ status[owners[perror]][perror] = "E"
      BY <1>3, <2>2 DEF Told
    <3> QED  BY <1>1, <2>2, <3>1, StaysSingular
  <2> QED  BY <2>1, <2>2, WhoChanges
<1> QED  BY <1>2, <1>3 DEF Told

-----------------------------------------------------------------------------
(* What the caller is told                                                 *)

\* The two findings aside: the list of the roots takes the mutex when it
\* has to, and no front is visited again after it was found singular.
Sound == RootsLocked /\ NoRevisit

\* All the invariants of FactorMT.
WholeInv == PostBasis /\ PostInv /\ DequeInv

\* PostInv holds in the initial states.
LEMMA PostInvInit == Init => PostInv
<1> SUFFICES ASSUME Init PROVE PostInv
  OBVIOUS
<1>1. /\ \A t \in Thread : pc[t] = "pop"
      /\ \A t \in Thread, J \in Front : fronts[t][J] = NoFront
      /\ \A J \in Front : stored[J] = NotStored /\ status[owners[J]][J] = "W"
      /\ owners \in [Front -> Thread] /\ perror = -1 /\ ~joined
      /\ \A L \in PostList : postHeads[L] = {}
  <2>1. owners \in [Front -> Thread]
    BY TreeAssumption
  <2>2. \A J \in Front : status[owners[J]][J] = "W"
    BY <2>1, SenderFacts DEF Init
  <2> QED  BY <2>1, <2>2 DEF Init, post!ListInit
<1>2. \A I \in Front : ~Reported(I)
  BY <1>1 DEF Reported
<1>3. \A L \in PostList : PostSources(L) \subseteq Front
  BY ReporterFacts
<1>4. PostListed
  BY <1>1, <1>2, <1>3 DEF PostListed, ReportLabels
<1>5. LateGathered
  <2>1. \A J \in Front : ~LateTaken(J)
    BY <1>1 DEF LateTaken
  <2>2. \A t \in Thread, J \in Front : fronts[t][J].late = {}
    BY <1>1 DEF NoFront
  <2> QED  BY <1>1, <2>1, <2>2 DEF LateGathered
<1>6. Told
  BY <1>1 DEF Told
<1> QED  BY <1>4, <1>5, <1>6 DEF PostInv

\* All the invariants together are kept by every step,
LEMMA WholeNext == Sound /\ WholeInv /\ [Next]_vars => WholeInv'
<1> SUFFICES ASSUME Sound, WholeInv, [Next]_vars PROVE WholeInv'
  OBVIOUS
<1>1. TypeOK /\ TypeOK' /\ Basis' /\ UpdateInv' /\ PostCountInv' /\ DequeInv'
  <2>1. Basis' /\ UpdateInv'
    BY BasisNext, UpdateNext DEF Sound, WholeInv, PostBasis
  <2>2. TypeOK /\ TypeOK' /\ AggCountInv
    BY <2>1 DEF WholeInv, PostBasis, Basis, TypeInv
  <2>3. PostCountInv'
    BY <2>2, PostNext DEF Sound, WholeInv, PostBasis
  <2>4. DequeInv'
    BY <2>2, DequeNext DEF WholeInv
  <2> QED  BY <2>1, <2>2, <2>3, <2>4
<1>2. ASSUME NEW t \in Thread, Worker(t) PROVE PostInv'
  BY <1>2, PostListedStep, LateGatheredStep, ToldStep DEF Sound, WholeInv, PostInv
<1>3. ASSUME UNCHANGED <<pc, cur, status, fronts, stored, postHeads, reg, perror>>
      PROVE  PostListed' /\ LateGathered'
  <2>1. \A I : Reported(I)' = Reported(I)
    BY <1>3 DEF Reported
  <2>2. \A J \in PostList : LateTaken(J)' = LateTaken(J)
    BY <1>3 DEF LateTaken
  <2>3. \A J \in Front : /\ LateOf(J)' = LateOf(J) /\ AllReported(J)' = AllReported(J)
                         /\ LateTaken(J)' = LateTaken(J)
    BY <1>3 DEF LateOf, AllReported, LateTaken
  <2>4. PostListed'
    <3> SUFFICES ASSUME Pivoting PROVE PostListed'
      BY DEF PostListed
    <3>1. \A t \in Thread : pc[t] \in {"postLoad", "postClear", "factor"} \cup ReportLabels =>
            \A I \in Children(cur[t]) : status[owners[I]][I] = "F"
      BY DEF WholeInv, PostInv, PostListed, AllReported
    <3> QED  BY <1>3, <2>1, <2>2, <3>1 DEF WholeInv, PostInv, PostListed, AllReported
  <2>5. LateGathered'
    BY <1>3, <2>3 DEF WholeInv, PostInv, LateGathered
  <2> QED  BY <2>4, <2>5
<1>4. ASSUME Join PROVE PostInv'
  <2>1. UNCHANGED <<pc, cur, status, fronts, stored, postHeads, reg, perror>>
    BY <1>4 DEF Join, treevars, listvars
  <2>2. Told'
    BY <1>4, <2>1 DEF Join, WholeInv, PostInv, Told
  <2> QED  BY <1>3, <2>1, <2>2 DEF PostInv
<1>5. ASSUME UNCHANGED vars PROVE PostInv'
  <2>1. UNCHANGED <<pc, cur, status, fronts, stored, postHeads, reg, perror>>
    BY <1>5 DEF vars, treevars, listvars
  <2>2. Told'
    BY <1>5, <2>1 DEF vars, mainvars, WholeInv, PostInv, Told
  <2> QED  BY <1>3, <2>1, <2>2 DEF PostInv
<1>6. PostInv'
  BY <1>2, <1>4, <1>5 DEF Next, Returned
<1> QED  BY <1>1, <1>6 DEF WholeInv, PostBasis

\* hold in the initial states,
LEMMA WholeInit == Init => WholeInv
  BY BasisInit, UpdateInit, PostInit, PostInvInit, DequeInit DEF WholeInv, PostBasis

\* and so are invariants of FactorMT.
LEMMA WholeCorrect == Sound => (Spec => []WholeInv)
<1> SUFFICES ASSUME Sound PROVE Spec => []WholeInv
  OBVIOUS
<1> QED  BY WholeInit, WholeNext, PTL DEF Spec

\* A call that ends without a singular front has finished every front.
LEMMA AllFinished ==
  ASSUME WholeInv, \A t \in Thread : pc[t] = "done", perror = -1, NEW J \in Front
  PROVE  /\ status[owners[J]][J] = "F" /\ stored[J] # NotStored
         /\ stored[J].upd = Updaters(J)
         /\ Pivoting => stored[J].late = LateOf(J)
<1>1. owners[J] \in Thread
  BY TreeAssumption
<1>2. status[owners[J]][J] = "F"
  BY <1>1 DEF WholeInv, DequeInv, LeavesDone
<1>3. stored[J] # NotStored
  BY <1>2 DEF WholeInv, PostBasis, UpdateInv, StoredBefore
<1> QED  BY <1>2, <1>3 DEF WholeInv, PostBasis, PostInv, UpdateInv, NothingToCome, LateGathered

\* When FrontMtx_MT_factorPencil returns without an error, every front is
\* factored, from all its updates and with nothing left out.
THEOREM NoErrorMeansCompleteCorrect == Sound => (Spec => []NoErrorMeansComplete)
<1> SUFFICES ASSUME Sound PROVE Spec => []NoErrorMeansComplete
  OBVIOUS
<1>1. WholeInv => NoErrorMeansComplete
  <2> SUFFICES ASSUME WholeInv, joined, perror = -1, NEW J \in Front
               PROVE  /\ stored[J] # NotStored
                      /\ stored[J].upd = Updaters(J)
                      /\ Pivoting => stored[J].late = UNION {stored[I].left : I \in Children(J)}
    BY DEF NoErrorMeansComplete
  <2>1. \A t \in Thread : pc[t] = "done"
    BY DEF WholeInv, PostInv, Told
  <2> QED  BY <2>1, AllFinished DEF LateOf
<1> QED  BY <1>1, WholeCorrect, PTL

\* The list the caller gets back holds what each of the roots postponed:
\* nothing is missing when the caller tests it for columns that could not be
\* eliminated.
THEOREM RootDataReturnedCorrect == Sound => (Spec => []RootDataReturned)
<1> SUFFICES ASSUME Sound PROVE Spec => []RootDataReturned
  OBVIOUS
<1>1. WholeInv => RootDataReturned
  <2> SUFFICES ASSUME WholeInv, joined, Pivoting
               PROVE  Columns(rootchv) = UNION {stored[R].left : R \in Roots}
    BY DEF RootDataReturned
  <2>1. /\ \A t \in Thread : pc[t] = "done"
        /\ rootchv = postHeads[nfront]
        /\ perror = -1
    <3>1. joined => (\A t \in Thread : pc[t] = "done") /\ rootchv = postHeads[nfront]
      BY DEF WholeInv, PostInv, Told
    <3>2. ASSUME perror # -1 PROVE FALSE
      <4>1. perror \in Front /\ status[owners[perror]][perror] = "E"
        BY <3>2 DEF WholeInv, PostInv, Told
      <4>2. owners[perror] \in Thread
        BY <4>1, TreeAssumption
      <4> QED  BY <4>1, <4>2 DEF WholeInv, PostBasis, UpdateInv, SingularIsLast
    <3> QED  BY <3>1, <3>2
  <2>2. nfront \in PostList /\ PostSources(nfront) = Roots /\ Roots \subseteq Front
    BY PostTypes DEF WholeInv, PostSources, Roots
  <2>3. \A R \in Roots : Reported(R)
    BY <2>1, <2>2, AllFinished DEF Reported
  <2>4. ASSUME NEW R \in Roots, stored[R].left # {}
        PROVE  \E c \in postHeads[nfront] : c.cols = stored[R].left
    <3>1. [from |-> R, cols |-> stored[R].left] \in postHeads[nfront]
      BY <2>2, <2>3, <2>4 DEF WholeInv, PostInv, PostListed, LateTaken
    <3> QED  BY <3>1
  <2>5. ASSUME NEW c \in postHeads[nfront] PROVE \E R \in Roots : c.cols = stored[R].left
    BY <2>2 DEF WholeInv, PostInv, PostListed
  <2>6. ASSUME NEW R \in Roots, NEW x \in stored[R].left PROVE x \in Columns(rootchv)
    BY <2>1, <2>4 DEF Columns
  <2>7. ASSUME NEW x \in Columns(rootchv) PROVE \E R \in Roots : x \in stored[R].left
    <3>1. PICK c \in postHeads[nfront] : x \in c.cols
      BY <2>1 DEF Columns
    <3> QED  BY <2>5, <3>1
  <2> QED  BY <2>6, <2>7
<1> QED  BY <1>1, WholeCorrect, PTL

-----------------------------------------------------------------------------
(* FactorMT implements Multifrontal                                        *)

\* The variables of Multifrontal.
failedNow  == {J \in Front : status[owners[J]][J] = "E"}
outcomeNow == IF ~joined THEN "running" ELSE IF perror >= 0 THEN "singular" ELSE "factored"

\* The tree of Multifrontal is that of FactorMT.
LEMMA SameTree ==
  /\ Abstract!Front = Front /\ Abstract!NotStored = NotStored
  /\ \A J : Abstract!Updaters(J) = Updaters(J) /\ Abstract!Children(J) = Children(J)
  /\ \A J : Abstract!Late(J) = LateOf(J)
<1>1. Abstract!Front = Front /\ Abstract!NotStored = NotStored
  BY DEF Abstract!Front, Front, Abstract!NotStored, NotStored
<1>2. \A J : Abstract!Updaters(J) = Updaters(J) /\ Abstract!Children(J) = Children(J)
  BY <1>1 DEF Abstract!Updaters, Updaters, Abstract!Children, Children
<1>3. \A J : Abstract!Late(J) = LateOf(J)
  BY <1>2 DEF Abstract!Late, LateOf
<1> QED  BY <1>1, <1>2, <1>3

\* The workers start where the abstract factorization starts.
LEMMA AbstractInit == Init => Abstract!MInit
<1> SUFFICES ASSUME Init PROVE Abstract!MInit
  OBVIOUS
<1>1. /\ stored = [J \in Front |-> NotStored] /\ ~joined
  BY DEF Init
<1>2. \A J \in Front : status[owners[J]][J] # "E"
  <2>1. \A J \in Front : owners[J] \in Thread
    BY TreeAssumption
  <2> QED  BY <2>1 DEF Init
<1> QED  BY <1>1, <1>2, SameTree DEF Abstract!MInit

\* A front that is about to be factored is ready.
LEMMA FactorReady ==
  ASSUME WholeInv, NEW t \in Thread, pc[t] = "factor"
  PROVE  Abstract!Ready(cur[t]) /\ status[t][cur[t]] # "E" /\ owners[cur[t]] = t
<1> DEFINE J == cur[t]
<1>1. /\ J \in Front /\ owners[J] = t /\ owners \in [Front -> Thread] /\ StoreInv
      /\ status[t][J] # "F"
  BY BasisTypes DEF WholeInv, PostBasis, VisitsOwnFront, OwnedLabels, Basis, ReportsOnce
<1>2. stored[J] = NotStored
  BY <1>1 DEF StoreInv, StoredIsFinished, ReportLabels
<1>3. status[t][J] # "E"
  BY <1>1 DEF WholeInv, PostBasis, UpdateInv, SingularIsLast
<1>4. ASSUME NEW I \in Updaters(J) PROVE stored[I] # NotStored
  <2>1. I \in Front /\ owners[I] \in Thread
    BY <1>1 DEF Updaters
  <2>2. updates[owners[I]][J] = {}
    <3>1. CASE owners[I] = t
      BY <1>1, <3>1 DEF WholeInv, PostBasis, UpdateInv, OwnUpdatesMade, GatheredLabels
    <3>2. CASE owners[I] # t
      <4>1. owners[I] \in AggSenders(J)
        BY <1>1, <3>2 DEF AggSenders
      <4>2. status[owners[I]][J] = "F"
        BY <4>1 DEF WholeInv, PostBasis, UpdateInv, NothingToCome, AllSent, GatheredLabels
      <4> QED  BY <1>1, <2>1, <4>2 DEF WholeInv, PostBasis, UpdateInv, OwnUpdatesMade
    <3> QED  BY <3>1, <3>2
  <2> QED  BY <1>1, <2>2 DEF WholeInv, PostBasis, UpdateInv, StoredBefore
<1>5. ASSUME Pivoting, NEW I \in Children(J) PROVE stored[I] # NotStored
  <2>1. I \in Front /\ status[owners[I]][I] = "F"
    BY <1>5 DEF WholeInv, PostInv, PostListed, AllReported, Children
  <2> QED  BY <2>1 DEF WholeInv, PostBasis, UpdateInv, StoredBefore
<1> QED  BY <1>1, <1>2, <1>3, <1>4, <1>5, SameTree DEF Abstract!Ready

\* A step of a worker factors a front that is ready, finds one singular, or
\* does nothing the abstract factorization sees.
LEMMA AbstractWorker ==
  ASSUME Sound, WholeInv, WholeInv', NEW t \in Thread, Worker(t)
  PROVE  \/ \E J \in Front : Abstract!FactorFront(J) \/ Abstract!FindSingular(J)
         \/ UNCHANGED <<stored, failedNow, outcomeNow>>
<1>1. /\ cur \in [Thread -> Front] /\ owners \in [Front -> Thread] /\ TypeOK /\ Basis
      /\ status \in [Thread -> [Front -> {"W", "A", "F", "E"}]] /\ SingularIsLast
  BY BasisTypes DEF WholeInv, PostBasis, UpdateInv
<1>2. outcomeNow = "running" /\ outcomeNow' = outcomeNow
  <2>1. ~joined
    BY ToldStep DEF WholeInv, PostInv
  <2>2. joined' = joined
    BY WhoChanges DEF mainvars
  <2> QED  BY <2>1, <2>2 DEF outcomeNow
<1>3. \A J \in Front : status[owners[J]][J] = "E" => status'[owners[J]][J] = "E"
  BY <1>1, StaysSingular
<1>4. ~FactorSingular(t) => failedNow' = failedNow
  <2> SUFFICES ASSUME ~FactorSingular(t), NEW J \in Front, status'[owners[J]][J] = "E",
                      status[owners[J]][J] # "E"
               PROVE  FALSE
    BY <1>3 DEF failedNow
  <2>1. owners[J] = t
    BY <1>1, Others
  <2>2. status' # status
    BY <2>1
  <2> QED  BY <1>1, <2>1, <2>2, WhoChanges DEF VisitOwned, VisitUnowned, PassThrough,
             AggDecrement, FactorNoPivoting, PostDecrement
<1>5. CASE FactorSingular(t)
  <2> DEFINE J == cur[t]
  <2>1. pc[t] = "factor" /\ ~Pivoting /\ stored' = stored
        /\ status' = [status EXCEPT ![t][J] = "E"]
    BY <1>5 DEF FactorSingular
  <2>2. J \in Front /\ owners[J] = t /\ Abstract!Ready(J)
    BY <1>1, <2>1, FactorReady
  <2>3. failedNow' = failedNow \cup {J}
    BY <1>1, <2>1, <2>2 DEF failedNow
  <2>4. Abstract!FindSingular(J)
    BY <1>2, <2>1, <2>2, <2>3, SameTree DEF Abstract!FindSingular, failedNow, outcomeNow
  <2> HIDE DEF J
  <2>5. \E I \in Front : Abstract!FindSingular(I)
    BY <2>2, <2>4 DEF Abstract!FindSingular
  <2> QED  BY <2>5
<1>6. CASE FactorPivoting(t) \/ FactorNoPivoting(t)
  <2> DEFINE J == cur[t]
             late == IF Pivoting THEN Abstract!Late(J) ELSE {}
  <2>1. pc[t] = "factor" /\ ~FactorSingular(t)
    <3>1. pc[t] = "factor"
      BY <1>6 DEF FactorPivoting, FactorNoPivoting
    <3>2. CASE FactorPivoting(t)
      BY <3>1, <3>2 DEF FactorPivoting, FactorSingular
    <3>3. CASE FactorNoPivoting(t)
      <4>1. status'[t][cur[t]] = "F"
        BY <1>1, <3>3 DEF FactorNoPivoting
      <4>2. FactorSingular(t) => status'[t][cur[t]] = "E"
        BY <1>1 DEF FactorSingular
      <4> QED  BY <3>1, <4>1, <4>2
    <3> QED  BY <1>6, <3>1, <3>2, <3>3
  <2>2. J \in Front /\ owners[J] = t /\ Abstract!Ready(J) /\ status[t][J] # "E"
    BY <1>1, <2>1, FactorReady
  <2>3. stored[J] = NotStored
    BY <2>2, SameTree DEF Abstract!Ready
  <2>4. stored'[J] # NotStored
    BY <1>1, <1>6, <2>2, StoredStep
  <2>5. fronts[t][J].upd = Updaters(J)
    <3>1. stored'[J].upd = Updaters(J)
      BY <2>2, <2>4 DEF WholeInv, PostBasis, UpdateInv, NothingToCome
    <3> QED  BY <1>1, <2>2, <2>3, <2>4, <3>1, StoredStep
  <2>6. fronts[t][J].late = late
    <3>1. LateTaken(J)
      <4>1. J # nfront
        BY <2>2, PostTypes DEF WholeInv
      <4> QED  BY <2>1, <2>2, <4>1 DEF LateTaken
    <3>2. fronts[t][J].late = IF Pivoting THEN LateOf(J) ELSE {}
      BY <2>2, <2>3, <3>1 DEF WholeInv, PostInv, LateGathered
    <3> QED  BY <3>2, SameTree
  <2>7. \E left \in SUBSET (IF Pivoting THEN late \cup {J} ELSE {}) :
          stored' = [stored EXCEPT ![J] = [upd |-> Updaters(J), late |-> late, left |-> left]]
    <3>1. CASE FactorPivoting(t)
      BY <2>5, <2>6, <3>1 DEF FactorPivoting
    <3>2. CASE FactorNoPivoting(t)
      BY <2>5, <2>6, <3>2 DEF FactorNoPivoting
    <3> QED  BY <1>6, <3>1, <3>2
  <2>8. J \notin failedNow /\ failedNow' = failedNow
    BY <1>4, <2>1, <2>2 DEF failedNow
  <2> HIDE DEF late
  <2>9. Abstract!FactorFront(J)
    BY <1>2, <2>2, <2>7, <2>8, SameTree DEF Abstract!FactorFront, failedNow, outcomeNow, late
  <2> QED  BY <2>2, <2>9
<1>7. CASE ~FactorSingular(t) /\ ~FactorPivoting(t) /\ ~FactorNoPivoting(t)
  BY <1>2, <1>4, <1>7, WhoChanges
<1> QED  BY <1>5, <1>6, <1>7

\* The caller is told the outcome.
LEMMA AbstractJoin ==
  ASSUME WholeInv, Join
  PROVE  Abstract!Finish
<1>1. /\ ~joined /\ joined' /\ perror' = perror /\ status' = status /\ stored' = stored
      /\ \A t \in Thread : pc[t] = "done"
  BY DEF Join, treevars
<1>2. failedNow' = failedNow
  BY <1>1 DEF failedNow
<1>3. CASE perror = -1
  <2>1. \A J \in Front : status[owners[J]][J] = "F" /\ stored[J] # NotStored
    BY <1>1, <1>3, AllFinished
  <2>2. failedNow = {} /\ \A J \in Front : stored[J] # NotStored
    BY <2>1 DEF failedNow
  <2>3. ~(perror' >= 0)
    BY <1>1, <1>3
  <2> QED  BY <1>1, <1>2, <2>2, <2>3, SameTree DEF Abstract!Finish, failedNow
<1>4. CASE perror # -1
  <2>1. perror \in Front /\ status[owners[perror]][perror] = "E"
    BY <1>4 DEF WholeInv, PostInv, Told
  <2>2. failedNow # {} /\ perror' >= 0
    BY <1>1, <2>1 DEF failedNow, Front
  <2> QED  BY <1>1, <1>2, <2>2 DEF Abstract!Finish, failedNow
<1> QED  BY <1>3, <1>4

\* The workers together implement the abstract factorization: each front is
\* factored once, when it is ready, from exactly its updates and the columns
\* its children left.
THEOREM RefinesMultifrontalCorrect == Sound => (Spec => RefinesMultifrontal)
<1> SUFFICES ASSUME Sound PROVE Spec => RefinesMultifrontal
  OBVIOUS
<1>1. WholeInv /\ WholeInv' /\ [Next]_vars => [Abstract!MNext]_(Abstract!mvars)
  <2> SUFFICES ASSUME WholeInv, WholeInv', [Next]_vars
               PROVE  [Abstract!MNext]_(Abstract!mvars)
    OBVIOUS
  <2>1. ASSUME NEW t \in Thread, Worker(t) PROVE [Abstract!MNext]_(Abstract!mvars)
    BY <2>1, AbstractWorker, SameTree DEF Abstract!MNext, Abstract!mvars, failedNow, outcomeNow
  <2>2. CASE Join
    BY <2>2, AbstractJoin DEF Abstract!MNext
  <2>3. CASE UNCHANGED vars
    BY <2>3 DEF vars, treevars, mainvars, Abstract!mvars
  <2> QED  BY <2>1, <2>2, <2>3 DEF Next, Returned
<1> QED  BY <1>1, AbstractInit, WholeCorrect, PTL DEF Spec, RefinesMultifrontal, Abstract!MSpec
=============================================================================
