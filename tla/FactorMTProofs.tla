--------------------------- MODULE FactorMTProofs --------------------------
(***************************************************************************)
(* Proofs about the types and the counts of FactorMT, for every front      *)
(* tree, every map of fronts to threads and any number of threads.         *)
(*                                                                         *)
(* The invariants are in FactorMTInv.                                      *)
(***************************************************************************)
EXTENDS FactorMTInv, FiniteSetTheorems, TLAPS

-----------------------------------------------------------------------------
(* The data of the tree                                                    *)

LEMMA FrontFinite ==
  /\ IsFiniteSet(Front) /\ IsFiniteSet(Thread)
  /\ \A S \in SUBSET Front : Cardinality(S) \in Nat
  /\ \A S \in SUBSET Thread : Cardinality(S) \in Nat
<1>1. IsFiniteSet(Front) /\ IsFiniteSet(Thread)
  BY FS_Interval, TreeAssumption DEF Front, Thread
<1> QED  BY <1>1, FS_Subset, FS_CardinalityType

LEMMA TreeTypes ==
  /\ Active \in [Thread -> SUBSET Front]
  /\ \A t \in Thread, K \in Front : OwnUpdaters(t, K) \in SUBSET Front
  /\ \A t \in Thread, K \in Front : NactiveChild(t, K) \in Int
  /\ \A t \in Thread : Npath(t) \in Nat
  /\ \A t \in Thread : LoadedDequeues(t) \subseteq Seq(Front)
  /\ \A K \in Front : AggCount(K) \in Int
  /\ \A L \in PostList : PostCount(L) \in Int
  /\ \A J \in Front : PostTarget(J) \in PostList
  /\ \A J \in Front : par[J] = -1 \/ par[J] \in Front
<1>1. \A t \in Thread : Needed(t) \in SUBSET Front
  BY DEF Needed
<1>2. \A J \in Front : Ancestors[J] \in SUBSET Front
  BY DEF Ancestors
<1>3. Active \in [Thread -> SUBSET Front]
  BY <1>1, <1>2 DEF Active
<1>4. \A t \in Thread, K \in Front : OwnUpdaters(t, K) \in SUBSET Front
  BY DEF OwnUpdaters, Updaters
<1>5. \A t \in Thread, K \in Front : NactiveChild(t, K) \in Int
  BY FrontFinite, <1>3 DEF NactiveChild, Children
<1>6. \A t \in Thread : Npath(t) \in Nat
  BY FrontFinite, <1>1 DEF Npath
<1>7. \A t \in Thread : LoadedDequeues(t) \subseteq Seq(Front)
  <2> SUFFICES ASSUME NEW t \in Thread, NEW d \in LoadedDequeues(t)
               PROVE  d \in Seq(Front)
    OBVIOUS
  <2> DEFINE leaves == ActiveLeaves(t)
             n == IF Npath(t) < Cardinality(leaves) THEN Npath(t) ELSE Cardinality(leaves)
  <2>1. d \in [1 .. n -> leaves]
    BY DEF LoadedDequeues
  <2>2. leaves \in SUBSET Front
    BY <1>3 DEF ActiveLeaves
  <2>3. Cardinality(leaves) \in Nat
    BY <2>2, FrontFinite, FS_Subset, FS_CardinalityType
  <2>4. n \in Nat
    BY <1>6, <2>3
  <2> HIDE DEF leaves, n
  <2>5. d \in [1 .. n -> Front]
    BY <2>1, <2>2
  <2> QED  BY <2>4, <2>5
<1>8. \A K \in Front : AggCount(K) \in Int
  <2>1. \A K \in Front : AggSenders(K) \in SUBSET Thread
    BY TreeAssumption DEF AggSenders, Updaters
  <2> QED  BY <2>1, FrontFinite DEF AggCount
<1>9. \A L \in PostList : PostCount(L) \in Int
  BY FrontFinite DEF PostCount, PostSources, Children, Roots
<1>10. \A J \in Front : par[J] = -1 \/ par[J] \in Front
  BY TreeAssumption
<1>11. \A J \in Front : PostTarget(J) \in PostList
  BY <1>10 DEF PostTarget, PostList
<1> QED  BY <1>3, <1>4, <1>5, <1>6, <1>7, <1>8, <1>9, <1>10, <1>11

-----------------------------------------------------------------------------
(* Which actions change a variable                                         *)

LEMMA WhoChanges ==
  ASSUME NEW t \in Thread, Worker(t)
  PROVE
    /\ \/ cur' = cur \/ Pop(t)
    /\ \/ ahead' = ahead \/ Pop(t) \/ EndVisit(t)
    /\ \/ status' = status \/ VisitOwned(t) \/ VisitUnowned(t)
       \/ PassThrough(t) \/ AggDecrement(t) \/ FactorNoPivoting(t)
       \/ FactorSingular(t) \/ PostDecrement(t)
    /\ \/ nactiveChild' = nactiveChild \/ ReturnFinished(t)
    /\ \/ updates' = updates \/ VisitOwned(t) \/ VisitUnowned(t)
    /\ \/ deq' = deq \/ Pop(t) \/ ReturnFinished(t) \/ ReturnActive(t)
    /\ \/ fronts' = fronts \/ VisitOwned(t) \/ VisitUnowned(t)
       \/ AggAssemble(t) \/ PostAssemble(t) \/ FactorNoPivoting(t)
       \/ FactorSingular(t) \/ PostDecrement(t)
    /\ \/ stored' = stored \/ FactorPivoting(t) \/ FactorNoPivoting(t)
    /\ \/ perror' = perror \/ ReturnError(t)
    /\ \/ aggHeads' = aggHeads \/ AggStore(t) \/ AggAssemble(t)
    /\ \/ aggCounts' = aggCounts \/ AggDecrement(t)
    /\ \/ aggLock' = aggLock \/ AggLink(t) \/ AggDecrement(t) \/ AggLoad(t)
       \/ AggAssemble(t)
    /\ \/ postHeads' = postHeads \/ PostStore(t) \/ PostAssemble(t)
    /\ \/ postCounts' = postCounts \/ PostDecrement(t)
    /\ \/ postLock' = postLock \/ PostLink(t) \/ PostNothing(t)
       \/ PostDecrement(t) \/ PostLoad(t) \/ PostAssemble(t)
    /\ \/ reg' = reg \/ AggLink(t) \/ AggStore(t) \/ AggLoad(t)
       \/ AggAssemble(t) \/ PostLink(t) \/ PostStore(t) \/ PostLoad(t)
       \/ PostAssemble(t)
    /\ \/ creg' = creg \/ AggStore(t) \/ AggDecrement(t) \/ PostStore(t)
       \/ PostNothing(t) \/ PostDecrement(t)
    /\ UNCHANGED mainvars
<1> USE DEF Worker, listvars, treevars, mainvars, aggVars, postVars, SetupAndUpdate,
    agg!AddLink, agg!AddStore, agg!AddDecrement, agg!GetLoad, agg!GetClear,
    post!AddLink, post!AddStore, post!AddNothing, post!AddDecrement,
    post!GetLoad, post!GetClear,
    Pop, Exhausted, ReturnError, ReturnFinished, ReturnActive, CheckError,
    VisitFinished, VisitOwned, VisitUnowned, PassThrough, EndVisit, AggLink,
    AggStore, AggDecrement, AggPoll, AggLoad, AggAssemble, AggCountRead,
    PostPoll, PostLoad, PostAssemble, FactorPivoting, FactorNoPivoting,
    FactorSingular, PostLink, PostStore, PostNothing, PostDecrement
<1>1. \/ cur' = cur \/ Pop(t)
  OBVIOUS
<1>2. \/ ahead' = ahead \/ Pop(t) \/ EndVisit(t)
  OBVIOUS
<1>3. \/ status' = status \/ VisitOwned(t) \/ VisitUnowned(t)
      \/ PassThrough(t) \/ AggDecrement(t) \/ FactorNoPivoting(t)
      \/ FactorSingular(t) \/ PostDecrement(t)
  OBVIOUS
<1>4. \/ nactiveChild' = nactiveChild \/ ReturnFinished(t)
  OBVIOUS
<1>5. \/ updates' = updates \/ VisitOwned(t) \/ VisitUnowned(t)
  OBVIOUS
<1>6. \/ deq' = deq \/ Pop(t) \/ ReturnFinished(t) \/ ReturnActive(t)
  OBVIOUS
<1>7. \/ fronts' = fronts \/ VisitOwned(t) \/ VisitUnowned(t)
      \/ AggAssemble(t) \/ PostAssemble(t) \/ FactorNoPivoting(t)
      \/ FactorSingular(t) \/ PostDecrement(t)
  OBVIOUS
<1>8. \/ stored' = stored \/ FactorPivoting(t) \/ FactorNoPivoting(t)
  OBVIOUS
<1>9. \/ perror' = perror \/ ReturnError(t)
  OBVIOUS
<1>10. \/ aggHeads' = aggHeads \/ AggStore(t) \/ AggAssemble(t)
  OBVIOUS
<1>11. \/ aggCounts' = aggCounts \/ AggDecrement(t)
  OBVIOUS
<1>12. \/ aggLock' = aggLock \/ AggLink(t) \/ AggDecrement(t) \/ AggLoad(t)
       \/ AggAssemble(t)
  OBVIOUS
<1>13. \/ postHeads' = postHeads \/ PostStore(t) \/ PostAssemble(t)
  OBVIOUS
<1>14. \/ postCounts' = postCounts \/ PostDecrement(t)
  OBVIOUS
<1>15. \/ postLock' = postLock \/ PostLink(t) \/ PostNothing(t)
       \/ PostDecrement(t) \/ PostLoad(t) \/ PostAssemble(t)
  OBVIOUS
<1>16. \/ reg' = reg \/ AggLink(t) \/ AggStore(t) \/ AggLoad(t)
       \/ AggAssemble(t) \/ PostLink(t) \/ PostStore(t) \/ PostLoad(t)
       \/ PostAssemble(t)
  OBVIOUS
<1>17. \/ creg' = creg \/ AggStore(t) \/ AggDecrement(t) \/ PostStore(t)
       \/ PostNothing(t) \/ PostDecrement(t)
  OBVIOUS
<1>18. UNCHANGED mainvars
  OBVIOUS
<1> QED  BY <1>1, <1>2, <1>3, <1>4, <1>5, <1>6, <1>7, <1>8, <1>9, <1>10,
         <1>11, <1>12, <1>13, <1>14, <1>15, <1>16, <1>17, <1>18

-----------------------------------------------------------------------------
(* Type correctness                                                        *)

\* Labels at which thread t works on the chevron of front cur[t].
Working ==
  {"aggLink", "aggStore", "aggDecrement",
   "poll1", "load1", "clear1", "aggCount", "poll2", "load2", "clear2",
   "postPoll", "postLoad", "postClear", "factor"}
Reporting == {"postLink", "postStore"}

\* The chevron a thread works on has been set up, and what it reports to the
\* parent of the front has been stored.
SetUp ==
  /\ \A t \in Thread, J \in Front :
       fronts[t][J] = NoFront \/ fronts[t][J].upd \in SUBSET Front
  /\ \A t \in Thread :
       pc[t] \in Working => fronts[t][cur[t]].upd \in SUBSET Front
  /\ \A t \in Thread :
       pc[t] \in Reporting => stored[cur[t]].left \in SUBSET Front

TypeInv == TypeOK /\ SetUp

LEMMA TypeInit == Init => TypeInv
<1> SUFFICES ASSUME Init PROVE TypeInv
  OBVIOUS
<1> USE TreeTypes
<1>1. deq \in [Thread -> Seq(Front)]
  BY DEF Init
<1>2. SetUp
  BY DEF Init, SetUp, Working, Reporting, NoFront
<1>3. agg!ListTypeOK /\ post!ListTypeOK
  BY DEF Init, agg!ListInit, agg!ListTypeOK, agg!NoOne, post!ListInit, post!ListTypeOK, post!NoOne
<1>4. /\ pc \in [Thread -> Labels]
      /\ cur \in [Thread -> Front]
      /\ ahead \in [Thread -> Nat]
      /\ status \in [Thread -> [Front -> {"W", "A", "F", "E"}]]
      /\ nactiveChild \in [Thread -> [Front -> Int]]
      /\ updates \in [Thread -> [Front -> SUBSET Front]]
  BY TreeAssumption DEF Init, Labels, Front
<1>5. /\ fronts \in [Thread -> [Front -> [upd : SUBSET (Front \cup {-1}), late : SUBSET Front]]]
      /\ stored \in [Front -> [upd : SUBSET Front, late : SUBSET Front,
                             left : SUBSET (Front \cup {-1})]]
      /\ perror \in Front \cup {-1}
      /\ joined \in BOOLEAN
      /\ rootchv \in SUBSET Chevron
  BY DEF Init, NoFront, NotStored
<1> QED
  BY <1>1, <1>2, <1>3, <1>4, <1>5
     DEF TypeInv, TypeOK, WorkerTypeOK, FrontTypeOK, MainTypeOK

LEMMA PcStep ==
  ASSUME pc \in [Thread -> Labels], NEW t \in Thread, Worker(t)
  PROVE  /\ pc' \in [Thread -> Labels]
         /\ \A u \in Thread \ {t} : pc'[u] = pc[u]
<1> USE DEF Worker, Goto, AfterAggregates,
    Pop, Exhausted, ReturnError, ReturnFinished, ReturnActive, CheckError,
    VisitFinished, VisitOwned, VisitUnowned, PassThrough, EndVisit, AggLink,
    AggStore, AggDecrement, AggPoll, AggLoad, AggAssemble, AggCountRead,
    PostPoll, PostLoad, PostAssemble, FactorPivoting, FactorNoPivoting,
    FactorSingular, PostLink, PostStore, PostNothing, PostDecrement
<1>1. pc' \in [Thread -> Labels]
  BY DEF Labels
<1>2. \A u \in Thread \ {t} : pc'[u] = pc[u]
  OBVIOUS
<1> QED  BY <1>1, <1>2

LEMMA WorkerStep ==
  ASSUME TypeInv, NEW t \in Thread, Worker(t)
  PROVE  WorkerTypeOK'
<1> USE DEF TypeInv, TypeOK, WorkerTypeOK
<1>1. pc' \in [Thread -> Labels]
  BY PcStep
<1>2. cur' \in [Thread -> Front]
  <2>1. CASE Pop(t)
    BY <2>1 DEF Pop
  <2> QED  BY <2>1, WhoChanges
<1>3. ahead' \in [Thread -> Nat]
  <2>1. CASE Pop(t)
    BY <2>1, OptionAssumption DEF Pop
  <2>2. CASE EndVisit(t)
    <3>1. ahead[t] \in Nat /\ (ahead[t] > 0 => ahead[t] - 1 \in Nat)
      OBVIOUS
    <3> QED  BY <2>2, <3>1 DEF EndVisit
  <2> QED  BY <2>1, <2>2, WhoChanges
<1>4. status' \in [Thread -> [Front -> {"W", "A", "F", "E"}]]
  <2>1. CASE \E s \in {"W", "A", "F", "E"} : status' = [status EXCEPT ![t][cur[t]] = s]
    BY <2>1
  <2>2. CASE VisitOwned(t) \/ VisitUnowned(t)
    <3>1. status[t][cur[t]] \in {"W", "A", "F", "E"}
      OBVIOUS
    <3> QED  BY <2>1, <2>2, <3>1 DEF VisitOwned, VisitUnowned
  <2>3. CASE PassThrough(t) \/ AggDecrement(t) \/ PostDecrement(t)
    BY <2>1, <2>3 DEF PassThrough, AggDecrement, PostDecrement
  <2>4. CASE FactorNoPivoting(t) \/ FactorSingular(t)
    BY <2>1, <2>4 DEF FactorNoPivoting, FactorSingular
  <2> QED  BY <2>2, <2>3, <2>4, WhoChanges
<1>5. nactiveChild' \in [Thread -> [Front -> Int]]
  <2>1. CASE ReturnFinished(t)
    <3>1. CASE par[cur[t]] = -1
      BY <2>1, <3>1 DEF ReturnFinished
    <3>2. CASE par[cur[t]] # -1
      <4>1. par[cur[t]] \in Front
        BY <3>2, TreeTypes
      <4>2. nactiveChild' = [nactiveChild EXCEPT ![t][par[cur[t]]] = @ - 1]
        BY <2>1, <3>2 DEF ReturnFinished
      <4> QED  BY <4>1, <4>2
    <3> QED  BY <3>1, <3>2
  <2> QED  BY <2>1, WhoChanges
<1>6. updates' \in [Thread -> [Front -> SUBSET Front]]
  <2>1. CASE VisitOwned(t) \/ VisitUnowned(t)
    <3>1. \E now : updates' = [updates EXCEPT ![t][cur[t]] = @ \ now]
      BY <2>1 DEF VisitOwned, VisitUnowned, SetupAndUpdate
    <3> QED  BY <3>1
  <2> QED  BY <2>1, WhoChanges
<1>7. deq' \in [Thread -> Seq(Front)]
  <2>1. CASE Pop(t)
    BY <2>1 DEF Pop
  <2>2. CASE ReturnFinished(t)
    <3> DEFINE K == par[cur[t]]
    <3>1. K \in Front => <<K>> \o deq[t] \in Seq(Front)
      OBVIOUS
    <3>2. K # -1 => K \in Front
      BY TreeTypes
    <3>3. \/ deq' = deq
          \/ K # -1 /\ deq' = [deq EXCEPT ![t] = <<K>> \o deq[t]]
      BY <2>2 DEF ReturnFinished, InsertAtHead
    <3> HIDE DEF K
    <3> QED  BY <3>1, <3>2, <3>3
  <2>3. CASE ReturnActive(t)
    BY <2>3 DEF ReturnActive, InsertAtTail
  <2> QED  BY <2>1, <2>2, <2>3, WhoChanges
<1> QED  BY <1>1, <1>2, <1>3, <1>4, <1>5, <1>6, <1>7

\* What FrontMtx_setupFront and FrontMtx_update leave in the chevron.
LEMMA SetupAndUpdateType ==
  ASSUME TypeInv, NEW t \in Thread, NEW J \in Front, SetupAndUpdate(t, J)
  PROVE  \E new \in [upd : SUBSET Front, late : SUBSET Front] :
            fronts' = [fronts EXCEPT ![t][J] = new]
<1> DEFINE now  == {I \in updates[t][J] : status[t][I] = "F"}
           work == IF fronts[t][J] = NoFront THEN NewFront ELSE fronts[t][J]
           new  == [work EXCEPT !.upd = @ \cup now]
<1>1. now \in SUBSET Front
  BY DEF TypeInv, TypeOK, WorkerTypeOK
<1>2. work \in [upd : SUBSET Front, late : SUBSET Front]
  <2>1. fronts[t][J] \in [upd : SUBSET (Front \cup {-1}), late : SUBSET Front]
    BY DEF TypeInv, TypeOK, FrontTypeOK
  <2>2. CASE fronts[t][J] = NoFront
    BY <2>2 DEF NewFront
  <2>3. CASE fronts[t][J] # NoFront
    BY <2>1, <2>3 DEF TypeInv, SetUp
  <2> QED  BY <2>2, <2>3
<1>3. new \in [upd : SUBSET Front, late : SUBSET Front]
  BY <1>1, <1>2
<1>4. fronts' = [fronts EXCEPT ![t][J] = new]
  BY DEF SetupAndUpdate
<1> QED  BY <1>3, <1>4

\* A working chevron after an assembly, and after it is released.
LEMMA ChevronType ==
  ASSUME TypeInv, NEW t \in Thread, Worker(t)
  PROVE  \/ fronts' = fronts
         \/ fronts' = [fronts EXCEPT ![t][cur[t]] = NoFront] /\ pc'[t] = "endVisit"
         \/ \E new \in [upd : SUBSET Front, late : SUBSET Front] :
              fronts' = [fronts EXCEPT ![t][cur[t]] = new]
<1> DEFINE J == cur[t]
<1>1. J \in Front
  BY DEF TypeInv, TypeOK, WorkerTypeOK
<1>2. pc \in [Thread -> Labels]
  BY DEF TypeInv, TypeOK, WorkerTypeOK
<1>3. CASE VisitOwned(t) \/ VisitUnowned(t)
  BY <1>1, <1>3, SetupAndUpdateType DEF VisitOwned, VisitUnowned
<1>4. pc[t] \in Working =>
        fronts[t][J] \in [upd : SUBSET Front, late : SUBSET Front]
  BY <1>1 DEF TypeInv, TypeOK, FrontTypeOK, SetUp
<1>5. Columns(reg[t]) \in SUBSET Front
  BY DEF TypeInv, TypeOK, agg!ListTypeOK, Columns, Chevron
<1>6. CASE AggAssemble(t)
  <2>1. [fronts[t][J] EXCEPT !.upd = @ \cup Columns(reg[t])]
          \in [upd : SUBSET Front, late : SUBSET Front]
    BY <1>4, <1>5, <1>6 DEF AggAssemble, Working
  <2>2. fronts' = [fronts EXCEPT ![t][J] = [fronts[t][J] EXCEPT !.upd = @ \cup Columns(reg[t])]]
    BY <1>1, <1>6 DEF AggAssemble, TypeInv, TypeOK, FrontTypeOK
  <2> QED  BY <2>1, <2>2
<1>7. CASE PostAssemble(t)
  <2>1. [fronts[t][J] EXCEPT !.late = @ \cup Columns(reg[t])]
          \in [upd : SUBSET Front, late : SUBSET Front]
    BY <1>4, <1>5, <1>7 DEF PostAssemble, Working
  <2>2. fronts' = [fronts EXCEPT ![t][J] = [fronts[t][J] EXCEPT !.late = @ \cup Columns(reg[t])]]
    BY <1>1, <1>7 DEF PostAssemble, TypeInv, TypeOK, FrontTypeOK
  <2> QED  BY <2>1, <2>2
<1>8. CASE FactorNoPivoting(t) \/ FactorSingular(t) \/ PostDecrement(t)
  BY <1>2, <1>8 DEF FactorNoPivoting, FactorSingular, PostDecrement, Goto
<1> QED  BY <1>3, <1>6, <1>7, <1>8, WhoChanges

LEMMA FrontStep ==
  ASSUME TypeInv, NEW t \in Thread, Worker(t)
  PROVE  FrontTypeOK'
<1> USE DEF TypeInv, TypeOK, FrontTypeOK
<1>1. fronts' \in [Thread -> [Front -> [upd : SUBSET (Front \cup {-1}), late : SUBSET Front]]]
  <2>1. NoFront \in [upd : SUBSET (Front \cup {-1}), late : SUBSET Front]
    BY DEF NoFront
  <2>2. \A new \in [upd : SUBSET Front, late : SUBSET Front] :
          new \in [upd : SUBSET (Front \cup {-1}), late : SUBSET Front]
    OBVIOUS
  <2>3. CASE fronts' = [fronts EXCEPT ![t][cur[t]] = NoFront]
    BY <2>1, <2>3
  <2>4. CASE \E new \in [upd : SUBSET Front, late : SUBSET Front] :
               fronts' = [fronts EXCEPT ![t][cur[t]] = new]
    <3> PICK new \in [upd : SUBSET Front, late : SUBSET Front] :
               fronts' = [fronts EXCEPT ![t][cur[t]] = new]
      BY <2>4
    <3>1. new \in [upd : SUBSET (Front \cup {-1}), late : SUBSET Front]
      BY <2>2
    <3> QED  BY <3>1
  <2> QED  BY <2>3, <2>4, ChevronType
<1>2. stored' \in [Front -> [upd : SUBSET Front, late : SUBSET Front,
                          left : SUBSET (Front \cup {-1})]]
  <2>1. cur[t] \in Front
    BY DEF WorkerTypeOK
  <2>2. pc[t] = "factor" => /\ fronts[t][cur[t]].upd \in SUBSET Front
                            /\ fronts[t][cur[t]].late \in SUBSET Front
    BY <2>1 DEF SetUp, Working
  <2>3. CASE FactorPivoting(t)
    <3>1. PICK left \in SUBSET (fronts[t][cur[t]].late \cup {cur[t]}) :
            stored' = [stored EXCEPT ![cur[t]] =
              [upd |-> fronts[t][cur[t]].upd, late |-> fronts[t][cur[t]].late, left |-> left]]
      BY <2>3 DEF FactorPivoting
    <3>2. left \in SUBSET (Front \cup {-1})
      BY <2>1, <2>2, <2>3 DEF FactorPivoting
    <3> QED  BY <2>1, <2>2, <2>3, <3>1, <3>2 DEF FactorPivoting
  <2>4. CASE FactorNoPivoting(t)
    BY <2>1, <2>2, <2>4 DEF FactorNoPivoting
  <2> QED  BY <2>3, <2>4, WhoChanges
<1> QED  BY <1>1, <1>2

LEMMA SetUpStep ==
  ASSUME TypeInv, NEW t \in Thread, Worker(t)
  PROVE  SetUp'
<1> DEFINE J == cur[t]
<1> DEFINE Full == [upd : SUBSET Front, late : SUBSET Front]
<1>1. J \in Front /\ pc \in [Thread -> Labels] /\ cur \in [Thread -> Front]
  BY DEF TypeInv, TypeOK, WorkerTypeOK
<1>2. fronts \in [Thread -> [Front -> [upd : SUBSET (Front \cup {-1}), late : SUBSET Front]]]
  BY DEF TypeInv, TypeOK, FrontTypeOK
<1>3. \A u \in Thread, K \in Front :
        fronts[u][K] = NoFront \/ fronts[u][K].upd \in SUBSET Front
  BY DEF TypeInv, SetUp
<1>4. \A u \in Thread, K \in Front :
        (fronts[u][K] = NoFront \/ fronts[u][K].upd \in SUBSET Front)'
  <2> SUFFICES ASSUME NEW u \in Thread, NEW K \in Front
               PROVE  fronts'[u][K] = NoFront \/ fronts'[u][K].upd \in SUBSET Front
    OBVIOUS
  <2>1. fronts'[u][K] \in {fronts[u][K], NoFront} \cup Full
    <3>1. CASE fronts' = [fronts EXCEPT ![t][J] = NoFront]
      BY <1>1, <1>2, <3>1
    <3>2. ASSUME NEW new \in Full, fronts' = [fronts EXCEPT ![t][J] = new]
          PROVE  fronts'[u][K] \in {fronts[u][K], NoFront} \cup Full
      BY <1>1, <1>2, <3>2
    <3> QED  BY <3>1, <3>2, ChevronType
  <2> QED  BY <2>1, <1>3
<1>5. \A u \in Thread : (pc[u] \in Working => fronts[u][cur[u]].upd \in SUBSET Front)'
  <2> SUFFICES ASSUME NEW u \in Thread, pc'[u] \in Working
               PROVE  fronts'[u][cur'[u]].upd \in SUBSET Front
    OBVIOUS
  <2>1. CASE u # t
    <3>1. pc'[u] = pc[u] /\ cur'[u] = cur[u]
      BY <1>1, <2>1, PcStep, WhoChanges DEF Pop
    <3>2. fronts'[u] = fronts[u]
      BY <1>2, <2>1, ChevronType
    <3> QED  BY <3>1, <3>2 DEF TypeInv, SetUp
  <2>2. CASE u = t
    <3>1. CASE VisitOwned(t) \/ VisitUnowned(t)
      <4>1. SetupAndUpdate(t, J) /\ cur' = cur
        BY <3>1 DEF VisitOwned, VisitUnowned
      <4>2. PICK new \in Full : fronts' = [fronts EXCEPT ![t][J] = new]
        BY <1>1, <4>1, SetupAndUpdateType
      <4> QED  BY <1>1, <1>2, <2>2, <4>1, <4>2
    <3>2. CASE ~(VisitOwned(t) \/ VisitUnowned(t))
      <4>1. pc[t] \in Working /\ ~Pop(t)
        BY <1>1, <2>2, <3>2 DEF Worker, Working, Goto, AfterAggregates,
          Pop, Exhausted, ReturnError, ReturnFinished, ReturnActive,
          CheckError, VisitFinished, VisitOwned, VisitUnowned,
          PassThrough, EndVisit, AggLink, AggStore, AggDecrement, AggPoll,
          AggLoad, AggAssemble, AggCountRead, PostPoll, PostLoad,
          PostAssemble, FactorPivoting, FactorNoPivoting, FactorSingular,
          PostLink, PostStore, PostNothing, PostDecrement
      <4>2. fronts[t][J] \in Full
        BY <1>1, <1>2, <4>1 DEF TypeInv, SetUp
      <4>3. cur' = cur
        BY <4>1, WhoChanges
      <4>4. pc'[t] # "endVisit"
        BY <2>2 DEF Working
      <4> QED  BY <1>1, <1>2, <2>2, <4>2, <4>3, <4>4, ChevronType
    <3> QED  BY <3>1, <3>2
  <2> QED  BY <2>1, <2>2
<1>6. \A u \in Thread : (pc[u] \in Reporting => stored[cur[u]].left \in SUBSET Front)'
  <2> DEFINE Mine == stored'[J].left
  <2>1. stored \in [Front -> [upd : SUBSET Front, late : SUBSET Front,
                            left : SUBSET (Front \cup {-1})]]
    BY DEF TypeInv, TypeOK, FrontTypeOK
  <2>2. pc[t] = "factor" => fronts[t][J] \in Full
    <3>1. pc[t] = "factor" => pc[t] \in Working
      BY DEF Working
    <3> QED  BY <1>1, <1>2, <3>1 DEF TypeInv, SetUp
  <2>3. \/ stored' = stored
        \/ Mine \in SUBSET Front /\ \A K \in Front \ {J} : stored'[K] = stored[K]
    <3>1. CASE FactorPivoting(t)
      <4>1. PICK left \in SUBSET (fronts[t][J].late \cup {J}) :
              stored' = [stored EXCEPT ![J] =
                [upd |-> fronts[t][J].upd, late |-> fronts[t][J].late, left |-> left]]
        BY <3>1 DEF FactorPivoting
      <4>2. left \in SUBSET Front
        BY <1>1, <2>2, <3>1 DEF FactorPivoting
      <4> QED  BY <1>1, <2>1, <4>1, <4>2
    <3>2. CASE FactorNoPivoting(t)
      BY <1>1, <2>1, <3>2 DEF FactorNoPivoting
    <3> QED  BY <3>1, <3>2, WhoChanges
  <2>4. FactorPivoting(t) => Mine \in SUBSET Front
    <3> SUFFICES ASSUME FactorPivoting(t) PROVE Mine \in SUBSET Front
      OBVIOUS
    <3>1. PICK left \in SUBSET (fronts[t][J].late \cup {J}) :
            stored' = [stored EXCEPT ![J] =
              [upd |-> fronts[t][J].upd, late |-> fronts[t][J].late, left |-> left]]
      BY DEF FactorPivoting
    <3>2. left \in SUBSET Front
      BY <1>1, <2>2 DEF FactorPivoting
    <3> QED  BY <1>1, <2>1, <3>1, <3>2
  <2> SUFFICES ASSUME NEW u \in Thread, pc'[u] \in Reporting
               PROVE  stored'[cur'[u]].left \in SUBSET Front
    OBVIOUS
  <2>5. CASE u # t
    <3>1. pc'[u] = pc[u] /\ cur'[u] = cur[u]
      BY <1>1, <2>5, PcStep, WhoChanges DEF Pop
    <3>2. stored[cur[u]].left \in SUBSET Front
      BY <3>1 DEF TypeInv, SetUp
    <3> QED  BY <1>1, <2>3, <3>1, <3>2
  <2>6. CASE u = t
    <3>1. FactorPivoting(t) \/ PostLink(t)
      BY <1>1, <2>6 DEF Worker, Reporting, Goto, AfterAggregates,
        Pop, Exhausted, ReturnError, ReturnFinished, ReturnActive,
        CheckError, VisitFinished, VisitOwned, VisitUnowned, PassThrough,
        EndVisit, AggLink, AggStore, AggDecrement, AggPoll, AggLoad,
        AggAssemble, AggCountRead, PostPoll, PostLoad, PostAssemble,
        FactorPivoting, FactorNoPivoting, FactorSingular, PostLink,
        PostStore, PostNothing, PostDecrement
    <3>2. cur' = cur
      BY <3>1 DEF FactorPivoting, PostLink
    <3>3. PostLink(t) => stored'[J].left \in SUBSET Front
      BY DEF PostLink, TypeInv, SetUp, Reporting
    <3> QED  BY <2>4, <2>6, <3>1, <3>2, <3>3
  <2> QED  BY <2>5, <2>6
<1> QED  BY <1>4, <1>5, <1>6 DEF SetUp

\* The two list objects keep their types.
LEMMA ListStep ==
  ASSUME TypeInv, NEW t \in Thread, Worker(t)
  PROVE  agg!ListTypeOK' /\ post!ListTypeOK'
<1> DEFINE J == cur[t]
<1>1. J \in Front /\ agg!ListTypeOK /\ post!ListTypeOK
  BY DEF TypeInv, TypeOK, WorkerTypeOK
<1> USE <1>1 DEF agg!ListTypeOK, post!ListTypeOK, agg!NoOne, post!NoOne
<1>2. PostTarget(J) \in PostList
  BY TreeTypes
<1>3. reg' \in [Thread -> SUBSET Chevron]
  BY <1>2, WhoChanges DEF AggLink, AggStore, AggLoad, AggAssemble, PostLink, PostStore,
    PostLoad, PostAssemble, agg!AddLink, agg!AddStore, agg!GetLoad, agg!GetClear,
    post!AddLink, post!AddStore, post!GetLoad, post!GetClear, PostList
<1>4. creg' \in [Thread -> Int]
  BY <1>2, WhoChanges DEF AggStore, AggDecrement, PostStore, PostNothing, PostDecrement,
    agg!AddStore, agg!AddDecrement, post!AddStore, post!AddNothing, post!AddDecrement
<1>5. aggHeads' \in [Front -> SUBSET Chevron]
  <2>1. CASE AggStore(t)
    <3>1. [from |-> t, cols |-> fronts[t][J].upd] \in Chevron
      BY <2>1 DEF AggStore, TypeInv, SetUp, Working, Chevron
    <3> QED  BY <2>1, <3>1 DEF AggStore, agg!AddStore
  <2>2. CASE AggAssemble(t)
    BY <2>2 DEF AggAssemble, agg!GetClear
  <2> QED  BY <2>1, <2>2, WhoChanges
<1>6. postHeads' \in [PostList -> SUBSET Chevron]
  <2>1. CASE PostStore(t)
    <3>1. [from |-> J, cols |-> stored[J].left] \in Chevron
      BY <2>1 DEF PostStore, TypeInv, SetUp, Reporting, Chevron
    <3> QED  BY <1>2, <2>1, <3>1 DEF PostStore, post!AddStore
  <2>2. CASE PostAssemble(t)
    BY <2>2 DEF PostAssemble, post!GetClear
  <2> QED  BY <2>1, <2>2, WhoChanges
<1>7. aggCounts' \in [Front -> Int] /\ postCounts' \in [PostList -> Int]
  BY <1>2, WhoChanges DEF AggDecrement, PostDecrement, agg!AddDecrement, post!AddDecrement
<1>8. aggLock' \in Thread \cup {-1}
  BY WhoChanges DEF AggLink, AggDecrement, AggLoad, AggAssemble, agg!AddLink,
    agg!AddDecrement, agg!GetLoad, agg!GetClear, agg!Acquire, agg!Release
<1>9. postLock' \in Thread \cup {-1}
  BY WhoChanges DEF PostLink, PostNothing, PostDecrement, PostLoad, PostAssemble,
    post!AddLink, post!AddNothing, post!AddDecrement, post!GetLoad, post!GetClear,
    post!Acquire, post!Release
<1> QED  BY <1>3, <1>4, <1>5, <1>6, <1>7, <1>8, <1>9

LEMMA MainStep ==
  ASSUME TypeInv, NEW t \in Thread, Worker(t)
  PROVE  MainTypeOK'
<1>1. cur[t] \in Front
  BY DEF TypeInv, TypeOK, WorkerTypeOK
<1> QED  BY <1>1, WhoChanges DEF TypeInv, TypeOK, MainTypeOK, mainvars, ReturnError

LEMMA TypeNext == TypeInv /\ [Next]_vars => TypeInv'
<1> SUFFICES ASSUME TypeInv, [Next]_vars PROVE TypeInv'
  OBVIOUS
<1>1. ASSUME NEW t \in Thread, Worker(t) PROVE TypeInv'
  BY <1>1, WorkerStep, FrontStep, SetUpStep, ListStep, MainStep DEF TypeInv, TypeOK
<1>2. CASE Join
  <2>1. UNCHANGED <<pc, cur, ahead, treevars, listvars, stored, perror>>
    BY <1>2 DEF Join
  <2>2. WorkerTypeOK' /\ FrontTypeOK'
    BY <2>1 DEF TypeInv, TypeOK, WorkerTypeOK, FrontTypeOK, treevars
  <2>3. agg!ListTypeOK' /\ post!ListTypeOK'
    BY <2>1 DEF TypeInv, TypeOK, listvars, agg!ListTypeOK, post!ListTypeOK
  <2>4. MainTypeOK'
    <3>1. nfront \in PostList
      BY DEF PostList
    <3> QED  BY <1>2, <3>1 DEF Join, TypeInv, TypeOK, MainTypeOK, post!ListTypeOK
  <2>5. SetUp'
    BY <2>1 DEF TypeInv, SetUp, treevars
  <2> QED  BY <2>2, <2>3, <2>4, <2>5 DEF TypeInv, TypeOK
<1>3. CASE UNCHANGED vars
  <2>1. WorkerTypeOK' /\ FrontTypeOK'
    BY <1>3 DEF vars, TypeInv, TypeOK, WorkerTypeOK, FrontTypeOK, treevars
  <2>2. agg!ListTypeOK' /\ post!ListTypeOK' /\ MainTypeOK'
    BY <1>3 DEF vars, TypeInv, TypeOK, listvars, mainvars, agg!ListTypeOK, post!ListTypeOK,
      MainTypeOK
  <2>3. SetUp'
    BY <1>3 DEF vars, TypeInv, SetUp, treevars
  <2> QED  BY <2>1, <2>2, <2>3 DEF TypeInv, TypeOK
<1> QED  BY <1>1, <1>2, <1>3 DEF Next, Returned

\* Every variable keeps the type its declaration gives it, and no thread
\* stores the entries of a front that has not been set up.
THEOREM TypeCorrect == Spec => []TypeOK
<1>1. TypeInv => TypeOK
  BY DEF TypeInv
<1> QED  BY <1>1, TypeInit, TypeNext, PTL DEF Spec

-----------------------------------------------------------------------------
(* Facts about the front tree                                              *)

LEMMA AtMostOne ==
  ASSUME NEW S, IsFiniteSet(S), Cardinality(S) <= 1, NEW x \in S, NEW y \in S
  PROVE  x = y
<1> SUFFICES ASSUME x # y PROVE FALSE
  OBVIOUS
<1>1. IsFiniteSet({x}) /\ Cardinality({x}) = 1
  BY FS_Singleton
<1>2. Cardinality({x} \cup {y}) = 2
  <2>1. y \notin {x}
    OBVIOUS
  <2>2. Cardinality({x} \cup {y}) = Cardinality({x}) + 1
    BY <1>1, <2>1, FS_AddElement
  <2> QED  BY <1>1, <2>2
<1>3. Cardinality({x} \cup {y}) <= Cardinality(S)
  BY FS_Subset
<1>4. Cardinality(S) \in Nat
  BY FS_CardinalityType
<1> QED  BY <1>2, <1>3, <1>4

LEMMA SenderFacts ==
  /\ \A J \in Front : AggSenders(J) \in SUBSET Thread
  /\ \A J \in Front : \A t \in AggSenders(J) :
       owners[J] # t /\ J \in Active[t] /\ OwnUpdaters(t, J) # {}
  /\ \A J \in Front : J \in Active[owners[J]]
<1>1. \A J \in Front : AggSenders(J) \in SUBSET Thread
  BY TreeAssumption DEF AggSenders, Updaters
<1>2. \A t \in Thread : Needed(t) \subseteq Active[t]
  BY DEF Active
<1>3. ASSUME NEW J \in Front, NEW t \in AggSenders(J)
      PROVE  owners[J] # t /\ OwnUpdaters(t, J) # {}
  BY <1>3 DEF AggSenders, OwnUpdaters
<1>4. ASSUME NEW J \in Front, NEW t \in AggSenders(J) PROVE J \in Active[t]
  BY <1>1, <1>2, <1>3, <1>4 DEF Needed
<1>5. ASSUME NEW J \in Front PROVE J \in Active[owners[J]]
  <2>1. owners[J] \in Thread
    BY TreeAssumption
  <2>2. J \in Needed(owners[J])
    BY DEF Needed
  <2> QED  BY <1>2, <2>1, <2>2
<1> QED  BY <1>1, <1>3, <1>4, <1>5

\* A list of aggregates that does not take the mutex has one sender.
LEMMA OneSender ==
  ASSUME NEW J \in Front, AggFlags[J] # "Y",
         NEW t \in AggSenders(J), NEW u \in AggSenders(J)
  PROVE  t = u
<1>1. IsFiniteSet(AggSenders(J))
  BY FrontFinite, SenderFacts, FS_Subset
<1>2. ~(AggCount(J) > 1)
  BY DEF AggFlags
<1>3. Cardinality(AggSenders(J)) \in Nat
  BY <1>1, FS_CardinalityType
<1>4. Cardinality(AggSenders(J)) <= 1
  BY <1>2, <1>3 DEF AggCount
<1> QED  BY <1>1, <1>4, AtMostOne

\* A list of postponed data that does not take the mutex has one sender.
LEMMA OneReporter ==
  ASSUME RootsLocked, NEW L \in PostList, PostFlags[L] # "Y",
         NEW I \in PostSources(L), NEW J \in PostSources(L)
  PROVE  owners[I] = owners[J]
<1>1. CASE L = nfront
  BY <1>1 DEF RootsLocked, PostSources
<1>2. CASE L # nfront
  <2> DEFINE S == {owners[M] : M \in Children(L)}
  <2>1. S \in SUBSET Thread
    BY TreeAssumption DEF Children
  <2>2. IsFiniteSet(S)
    BY <2>1, FrontFinite, FS_Subset
  <2>3. ~(Cardinality(S) > 1)
    BY <1>2 DEF PostFlags
  <2>4. Cardinality(S) \in Nat
    BY <2>2, FS_CardinalityType
  <2>5. owners[I] \in S /\ owners[J] \in S
    BY <1>2 DEF PostSources
  <2> HIDE DEF S
  <2>6. Cardinality(S) <= 1
    BY <2>3, <2>4
  <2> QED  BY <2>2, <2>5, <2>6, AtMostOne
<1> QED  BY <1>1, <1>2

-----------------------------------------------------------------------------
(* Where a thread comes from                                               *)

LEMMA WhereFrom ==
  ASSUME TypeOK, NEW t \in Thread, Worker(t)
  PROVE
    /\ pc'[t] \in OwnedLabels => VisitOwned(t) \/ pc[t] \in OwnedLabels
    /\ pc'[t] \in SendLabels => VisitUnowned(t) \/ AggLink(t) \/ AggStore(t)
    /\ pc'[t] = "aggStore" => AggLink(t)
    /\ pc'[t] = "aggDecrement" => AggStore(t)
    /\ pc'[t] = "postStore" => PostLink(t)
    /\ pc'[t] = "postDecrement" => PostStore(t) \/ PostNothing(t)
<1>1. pc \in [Thread -> Labels]
  BY DEF TypeOK, WorkerTypeOK
<1> USE <1>1 DEF Worker, Goto, AfterAggregates,
    Pop, Exhausted, ReturnError, ReturnFinished, ReturnActive, CheckError,
    VisitFinished, VisitOwned, VisitUnowned, PassThrough, EndVisit, AggLink,
    AggStore, AggDecrement, AggPoll, AggLoad, AggAssemble, AggCountRead,
    PostPoll, PostLoad, PostAssemble, FactorPivoting, FactorNoPivoting,
    FactorSingular, PostLink, PostStore, PostNothing, PostDecrement
<1>2. pc'[t] \in OwnedLabels => VisitOwned(t) \/ pc[t] \in OwnedLabels
  BY DEF OwnedLabels
<1>3. pc'[t] \in SendLabels => VisitUnowned(t) \/ AggLink(t) \/ AggStore(t)
  BY DEF SendLabels
<1>4. pc'[t] = "aggStore" => AggLink(t)
  OBVIOUS
<1>5. pc'[t] = "aggDecrement" => AggStore(t)
  OBVIOUS
<1>6. pc'[t] = "postStore" => PostLink(t)
  OBVIOUS
<1>7. pc'[t] = "postDecrement" => PostStore(t) \/ PostNothing(t)
  OBVIOUS
<1> QED  BY <1>2, <1>3, <1>4, <1>5, <1>6, <1>7

\* A thread touches nothing that is private to another.
LEMMA Others ==
  ASSUME TypeOK, NEW t \in Thread, Worker(t), NEW u \in Thread \ {t}
  PROVE  /\ pc'[u] = pc[u] /\ cur'[u] = cur[u] /\ status'[u] = status[u]
         /\ updates'[u] = updates[u] /\ creg'[u] = creg[u]
<1> USE DEF TypeOK, WorkerTypeOK
<1>1. pc'[u] = pc[u]
  BY PcStep
<1>2. cur'[u] = cur[u]
  BY WhoChanges DEF Pop
<1>3. status'[u] = status[u]
  BY WhoChanges DEF VisitOwned, VisitUnowned, PassThrough, AggDecrement, FactorNoPivoting,
    FactorSingular, PostDecrement
<1>4. updates'[u] = updates[u]
  <2>1. CASE VisitOwned(t) \/ VisitUnowned(t)
    <3>1. PICK now : updates' = [updates EXCEPT ![t][cur[t]] = @ \ now]
      BY <2>1 DEF VisitOwned, VisitUnowned, SetupAndUpdate
    <3> QED  BY <3>1
  <2> QED  BY <2>1, WhoChanges
<1>5. creg'[u] = creg[u]
  BY WhoChanges DEF AggStore, AggDecrement, PostStore, PostNothing, PostDecrement,
    agg!AddStore, agg!AddDecrement, post!AddStore, post!AddNothing, post!AddDecrement,
    agg!ListTypeOK
<1> QED  BY <1>1, <1>2, <1>3, <1>4, <1>5

\* What a step does to the status of a front: only the front that is visited
\* can change, and it was not finished before.
LEMMA StatusStep ==
  ASSUME TypeOK, NEW t \in Thread, Worker(t)
  PROVE  /\ \A J \in Front \ {cur[t]} : status'[t][J] = status[t][J]
         /\ status'[t][cur[t]] = status[t][cur[t]] \/ cur' = cur
         /\ VisitOwned(t) \/ VisitUnowned(t) =>
              status[t][cur[t]] # "F" /\ status'[t][cur[t]] # "F"
         /\ status'[t][cur[t]] = "F" => 
              \/ status[t][cur[t]] = "F" 
              \/ PassThrough(t) \/ AggDecrement(t) \/ FactorNoPivoting(t) \/ PostDecrement(t)
<1>1. /\ status \in [Thread -> [Front -> {"W", "A", "F", "E"}]]
      /\ cur[t] \in Front
  BY DEF TypeOK, WorkerTypeOK
<1>2. status' = status \/
        \E s : status' = [status EXCEPT ![t][cur[t]] = s] /\ cur' = cur
  BY WhoChanges DEF VisitOwned, VisitUnowned, PassThrough, AggDecrement, FactorNoPivoting,
    FactorSingular, PostDecrement
<1>3. \A J \in Front \ {cur[t]} : status'[t][J] = status[t][J]
  BY <1>1, <1>2
<1>4. status'[t][cur[t]] = status[t][cur[t]] \/ cur' = cur
  BY <1>2
<1>5. VisitOwned(t) \/ VisitUnowned(t) =>
        status[t][cur[t]] # "F" /\ status'[t][cur[t]] # "F"
  BY <1>1 DEF VisitOwned, VisitUnowned
<1>6. FactorSingular(t) => status'[t][cur[t]] # "F"
  BY <1>1 DEF FactorSingular
<1>7. status'[t][cur[t]] = "F" =>
        \/ status[t][cur[t]] = "F"
        \/ PassThrough(t) \/ AggDecrement(t) \/ FactorNoPivoting(t) \/ PostDecrement(t)
  BY <1>5, <1>6, WhoChanges
<1> QED  BY <1>3, <1>4, <1>5, <1>7

\* A front that is finished stays so, unless it is factored again.
LEMMA StaysFinished ==
  ASSUME TypeOK, NEW t \in Thread, Worker(t), NEW J \in Front, status[t][J] = "F"
  PROVE  status'[t][J] = "F" \/ (FactorSingular(t) /\ J = cur[t])
<1>1. /\ status \in [Thread -> [Front -> {"W", "A", "F", "E"}]]
      /\ cur[t] \in Front
  BY DEF TypeOK, WorkerTypeOK
<1>2. CASE J # cur[t]
  BY <1>2, StatusStep
<1>3. CASE J = cur[t]
  <2>1. ~VisitOwned(t) /\ ~VisitUnowned(t)
    BY <1>3, StatusStep
  <2>2. PassThrough(t) \/ AggDecrement(t) \/ FactorNoPivoting(t) \/ PostDecrement(t)
          => status' = [status EXCEPT ![t][J] = "F"]
    BY <1>3 DEF PassThrough, AggDecrement, FactorNoPivoting, PostDecrement
  <2> QED  BY <1>1, <1>3, <2>1, <2>2, WhoChanges
<1> QED  BY <1>2, <1>3

-----------------------------------------------------------------------------
(* The aggregates                                                          *)

LEMMA AggInit == Init => AggCountInv
<1> SUFFICES ASSUME Init PROVE AggCountInv
  OBVIOUS
<1>1. VisitsOwnFront /\ AggExclusive
  BY DEF Init, VisitsOwnFront, AggExclusive, OwnedLabels
<1>2. ASSUME NEW J \in Front, NEW t \in AggSenders(J)
      PROVE  t \in Thread /\ status[t][J] = "W" /\ updates[t][J] # {}
  BY <1>2, SenderFacts DEF Init
<1>3. SendsOnce
  BY <1>2 DEF Init, SendsOnce, SendLabels
<1>4. AggCountsAreExact
  <2> SUFFICES ASSUME NEW J \in Front
               PROVE  aggCounts[J] =
                        Cardinality({t \in AggSenders(J) : status[t][J] # "F"})
    BY DEF AggCountsAreExact
  <2>1. {t \in AggSenders(J) : status[t][J] # "F"} = AggSenders(J)
    BY <1>2
  <2>2. aggCounts[J] = AggCount(J)
    BY DEF Init, agg!ListInit
  <2> QED  BY <2>1, <2>2 DEF AggCount
<1> QED  BY <1>1, <1>3, <1>4 DEF AggCountInv

LEMMA OwnFrontStep ==
  ASSUME TypeOK, VisitsOwnFront, NEW t \in Thread, Worker(t)
  PROVE  VisitsOwnFront'
<1> SUFFICES ASSUME NEW u \in Thread, pc'[u] \in OwnedLabels
             PROVE  owners[cur'[u]] = u
  BY DEF VisitsOwnFront
<1>1. CASE u # t
  BY <1>1, Others DEF VisitsOwnFront
<1>2. CASE u = t
  <2>1. CASE VisitOwned(t)
    BY <1>2, <2>1 DEF VisitOwned
  <2>2. CASE pc[t] \in OwnedLabels
    <3>1. ~Pop(t)
      BY <2>2 DEF Pop, OwnedLabels
    <3> QED  BY <1>2, <2>2, <3>1, WhoChanges DEF VisitsOwnFront
  <2> QED  BY <1>2, <2>1, <2>2, WhereFrom
<1> QED  BY <1>1, <1>2

\* An aggregate is only sent by a thread that does not own the front, and
\* such a thread leaves the status of that front alone once it is finished.
LEMMA SenderStatus ==
  ASSUME TypeOK, VisitsOwnFront, SendsOnce, NEW t \in Thread, Worker(t),
         NEW J \in Front, t \in AggSenders(J)
  PROVE  /\ status[t][J] = "F" => status'[t][J] = "F"
         /\ status[t][J] # "F" => status'[t][J] # "F" \/ (AggDecrement(t) /\ J = cur[t])
<1>1. owners[J] # t
  BY SenderFacts
<1>2. FactorSingular(t) \/ FactorNoPivoting(t) \/ PostDecrement(t) => owners[cur[t]] = t
  BY DEF FactorSingular, FactorNoPivoting, PostDecrement, VisitsOwnFront, OwnedLabels
<1>3. ASSUME PassThrough(t), J = cur[t] PROVE FALSE
  BY <1>3 DEF PassThrough, SendsOnce, SendLabels
<1>4. status[t][J] = "F" => status'[t][J] = "F"
  BY <1>1, <1>2, StaysFinished
<1>5. status[t][J] # "F" => status'[t][J] # "F" \/ (AggDecrement(t) /\ J = cur[t])
  BY <1>1, <1>2, <1>3, StatusStep
<1> QED  BY <1>4, <1>5

LEMMA SendsOnceStep ==
  ASSUME TypeOK, VisitsOwnFront, SendsOnce, NEW t \in Thread, Worker(t)
  PROVE  SendsOnce'
<1>1. /\ updates \in [Thread -> [Front -> SUBSET Front]]
      /\ pc \in [Thread -> Labels] /\ cur[t] \in Front
  BY DEF TypeOK, WorkerTypeOK
<1>2. ASSUME NEW u \in Thread, NEW J \in Front
      PROVE  updates'[u][J] \subseteq OwnUpdaters(u, J)
  <2>1. CASE u # t
    BY <2>1, Others DEF SendsOnce
  <2>2. CASE u = t
    <3>1. CASE VisitOwned(t) \/ VisitUnowned(t)
      <4>1. PICK now : updates' = [updates EXCEPT ![t][cur[t]] = @ \ now]
        BY <3>1 DEF VisitOwned, VisitUnowned, SetupAndUpdate
      <4>2. updates'[t][J] \subseteq updates[t][J]
        BY <1>1, <4>1
      <4> QED  BY <2>2, <4>2 DEF SendsOnce
    <3> QED  BY <2>2, <3>1, WhoChanges DEF SendsOnce
  <2> QED  BY <2>1, <2>2
<1>3. ASSUME NEW u \in Thread, NEW J \in Front, u \in AggSenders(J), status'[u][J] # "F"
      PROVE  updates'[u][J] # {} \/ (pc'[u] \in SendLabels /\ cur'[u] = J)
  <2>1. CASE u # t
    BY <1>3, <2>1, Others DEF SendsOnce
  <2>2. CASE u = t
    <3>1. status[t][J] # "F" /\ owners[J] # t
      BY <1>3, <2>2, SenderStatus, SenderFacts
    <3>2. CASE pc[t] \in SendLabels /\ cur[t] = J
      <4>1. AggLink(t) \/ AggStore(t) \/ AggDecrement(t)
        BY <3>2 DEF SendLabels, Worker,
          Pop, Exhausted, ReturnError, ReturnFinished, ReturnActive, CheckError,
          VisitFinished, VisitOwned, VisitUnowned, PassThrough, EndVisit, AggPoll, AggLoad,
          AggAssemble, AggCountRead, PostPoll, PostLoad, PostAssemble, FactorPivoting,
          FactorNoPivoting, FactorSingular, PostLink, PostStore, PostNothing, PostDecrement
      <4>2. CASE AggLink(t) \/ AggStore(t)
        BY <1>1, <2>2, <3>2, <4>2 DEF AggLink, AggStore, Goto, SendLabels
      <4>3. ~AggDecrement(t)
        BY <1>3, <2>2, <3>2 DEF AggDecrement, TypeOK, WorkerTypeOK
      <4> QED  BY <4>1, <4>2, <4>3
    <3>3. CASE updates[t][J] # {}
      <4>1. CASE VisitUnowned(t) /\ J = cur[t]
        BY <1>1, <2>2, <4>1 DEF VisitUnowned, Goto, SendLabels
      <4>2. CASE VisitUnowned(t) /\ J # cur[t]
        <5>1. PICK now : updates' = [updates EXCEPT ![t][cur[t]] = @ \ now]
          BY <4>2 DEF VisitUnowned, SetupAndUpdate
        <5> QED  BY <1>1, <2>2, <3>3, <4>2, <5>1
      <4>3. CASE VisitOwned(t)
        <5>1. PICK now : updates' = [updates EXCEPT ![t][cur[t]] = @ \ now]
          BY <4>3 DEF VisitOwned, SetupAndUpdate
        <5>2. J # cur[t]
          BY <3>1, <4>3 DEF VisitOwned
        <5> QED  BY <1>1, <2>2, <3>3, <5>1, <5>2
      <4> QED  BY <2>2, <3>3, <4>1, <4>2, <4>3, WhoChanges
    <3> QED  BY <1>3, <2>2, <3>1, <3>2, <3>3 DEF SendsOnce
  <2> QED  BY <2>1, <2>2
<1>4. ASSUME NEW u \in Thread, pc'[u] \in SendLabels
      PROVE  u \in AggSenders(cur'[u]) /\ status'[u][cur'[u]] # "F"
  <2>1. CASE u # t
    BY <1>4, <2>1, Others DEF SendsOnce
  <2>2. CASE u = t
    <3>1. CASE VisitUnowned(t)
      <4>1. owners[cur[t]] # t /\ updates[t][cur[t]] # {} /\ cur' = cur
        BY <3>1 DEF VisitUnowned
      <4>2. OwnUpdaters(t, cur[t]) # {}
        BY <1>1, <4>1 DEF SendsOnce
      <4>3. t \in AggSenders(cur[t])
        BY <4>1, <4>2 DEF OwnUpdaters, AggSenders
      <4> QED  BY <2>2, <3>1, <4>1, <4>3, StatusStep
    <3>2. CASE AggLink(t) \/ AggStore(t)
      BY <2>2, <3>2 DEF AggLink, AggStore, SendsOnce, SendLabels, treevars
    <3> QED  BY <1>4, <2>2, <3>1, <3>2, WhereFrom
  <2> QED  BY <2>1, <2>2
<1> QED  BY <1>2, <1>3, <1>4 DEF SendsOnce

LEMMA AggExclusiveStep ==
  ASSUME TypeOK, SendsOnce, AggExclusive, NEW t \in Thread, Worker(t)
  PROVE  AggExclusive'
<1>1. /\ creg \in [Thread -> Int] /\ aggCounts \in [Front -> Int]
      /\ cur \in [Thread -> Front]
  BY DEF TypeOK, agg!ListTypeOK, WorkerTypeOK
<1>2. ASSUME NEW u \in Thread, pc'[u] \in {"aggStore", "aggDecrement"},
             AggFlags[cur'[u]] = "Y"
      PROVE  aggLock' = u
  <2>1. CASE u # t
    <3>1. aggLock = u
      BY <1>2, <2>1, Others DEF AggExclusive
    <3>2. CASE AggLink(t) \/ AggLoad(t)
      <4>1. u # -1
        BY DEF Thread
      <4> QED  BY <3>1, <3>2, <4>1
               DEF AggLink, AggLoad, agg!AddLink, agg!GetLoad, agg!Acquire, agg!NoOne, Goto
    <3>3. CASE AggDecrement(t) \/ AggAssemble(t)
      BY <2>1, <3>1, <3>3
         DEF AggDecrement, AggAssemble, agg!AddDecrement, agg!GetClear, agg!Release
    <3> QED  BY <3>1, <3>2, <3>3, WhoChanges
  <2>2. CASE u = t
    <3>1. CASE AggLink(t)
      BY <1>2, <2>2, <3>1 DEF AggLink, agg!AddLink, agg!Acquire
    <3>2. CASE AggStore(t)
      BY <1>2, <2>2, <3>2 DEF AggStore, agg!AddStore, AggExclusive
    <3> QED  BY <1>2, <2>2, <3>1, <3>2, WhereFrom
  <2> QED  BY <2>1, <2>2
<1>3. ASSUME NEW u \in Thread, pc'[u] = "aggDecrement"
      PROVE  creg'[u] = aggCounts'[cur'[u]]
  <2>1. CASE u # t
    <3>1. pc[u] = "aggDecrement" /\ cur'[u] = cur[u] /\ creg'[u] = aggCounts[cur[u]]
      BY <1>3, <2>1, Others DEF AggExclusive
    <3>2. CASE AggDecrement(t)
      <4>1. pc[t] = "aggDecrement"
        BY <3>2 DEF AggDecrement
      <4>2. ASSUME cur[t] = cur[u] PROVE FALSE
        <5>1. t \in AggSenders(cur[u]) /\ u \in AggSenders(cur[u])
          BY <3>1, <4>1, <4>2 DEF SendsOnce, SendLabels
        <5>2. AggFlags[cur[u]] = "Y" => aggLock = t /\ aggLock = u
          BY <3>1, <4>1, <4>2 DEF AggExclusive
        <5> QED  BY <1>1, <2>1, <5>1, <5>2, OneSender
      <4> QED  BY <1>1, <3>1, <3>2, <4>2 DEF AggDecrement, agg!AddDecrement
    <3> QED  BY <3>1, <3>2, WhoChanges
  <2>2. CASE u = t
    <3>1. AggStore(t)
      BY <1>3, <2>2, WhereFrom
    <3> QED  BY <1>1, <2>2, <3>1 DEF AggStore, agg!AddStore
  <2> QED  BY <2>1, <2>2
<1> QED  BY <1>2, <1>3 DEF AggExclusive

LEMMA AggCountStep ==
  ASSUME TypeOK, AggCountInv, NEW t \in Thread, Worker(t)
  PROVE  AggCountsAreExact'
<1> USE DEF AggCountInv
<1> SUFFICES ASSUME NEW J \in Front
             PROVE  aggCounts'[J] = Cardinality({u \in AggSenders(J) : status'[u][J] # "F"})
  BY DEF AggCountsAreExact
<1> DEFINE Due    == {u \in AggSenders(J) : status[u][J] # "F"}
           DueNow == {u \in AggSenders(J) : status'[u][J] # "F"}
<1>1. aggCounts[J] = Cardinality(Due) /\ aggCounts \in [Front -> Int]
  BY DEF AggCountsAreExact, TypeOK, agg!ListTypeOK
<1>2. \A u \in AggSenders(J) : u \in Thread /\ (u # t => status'[u][J] = status[u][J])
  BY SenderFacts, Others
<1>3. CASE AggDecrement(t) /\ J = cur[t]
  <2>1. t \in Due /\ creg[t] = aggCounts[J]
    BY <1>3 DEF AggDecrement, SendsOnce, SendLabels, AggExclusive
  <2>2. status'[t][J] = "F"
    BY <1>3 DEF AggDecrement, TypeOK, WorkerTypeOK
  <2>3. DueNow = Due \ {t}
    BY <1>2, <2>2
  <2>4. IsFiniteSet(Due)
    BY <1>2, FrontFinite, FS_Subset
  <2>5. Cardinality(DueNow) = Cardinality(Due) - 1
    BY <2>1, <2>3, <2>4, FS_RemoveElement
  <2>6. aggCounts'[J] = creg[t] - 1
    BY <1>1, <1>3 DEF AggDecrement, agg!AddDecrement
  <2> QED  BY <1>1, <2>1, <2>5, <2>6
<1>4. CASE ~(AggDecrement(t) /\ J = cur[t])
  <2>1. aggCounts'[J] = aggCounts[J]
    BY <1>1, <1>4, WhoChanges DEF AggDecrement, agg!AddDecrement
  <2>2. t \in AggSenders(J) => (status'[t][J] = "F" <=> status[t][J] = "F")
    BY <1>4, SenderStatus
  <2>3. DueNow = Due
    BY <1>2, <2>2
  <2> QED  BY <1>1, <2>1, <2>3
<1> QED  BY <1>3, <1>4

\* Nothing the two invariants speak of changes when the main thread joins.
LEMMA AggNext == TypeOK /\ AggCountInv /\ [Next]_vars => AggCountInv'
<1> SUFFICES ASSUME TypeOK, AggCountInv, [Next]_vars PROVE AggCountInv'
  OBVIOUS
<1>1. ASSUME NEW t \in Thread, Worker(t) PROVE AggCountInv'
  BY <1>1, OwnFrontStep, SendsOnceStep, AggExclusiveStep, AggCountStep DEF AggCountInv
<1>2. CASE UNCHANGED <<pc, cur, status, updates, aggCounts, aggLock, creg>>
  BY <1>2 DEF AggCountInv, VisitsOwnFront, SendsOnce, AggExclusive, AggCountsAreExact
<1>3. Join \/ UNCHANGED vars
        => UNCHANGED <<pc, cur, status, updates, aggCounts, aggLock, creg>>
  BY DEF Join, vars, treevars, listvars
<1> QED  BY <1>1, <1>2, <1>3 DEF Next, Returned

\* The count of every list of aggregates is the number of threads that have
\* not yet sent theirs, although lists with a single sender are changed
\* without the mutex: when FrontMtx_factorVisit reads zero, all has come.
THEOREM AggCountsCorrect == Spec => []AggCountsAreExact
<1>1. AggCountInv => AggCountsAreExact
  BY DEF AggCountInv
<1>2. Spec => []TypeOK
  BY TypeCorrect
<1> QED  BY <1>1, <1>2, AggInit, AggNext, PTL DEF Spec

-----------------------------------------------------------------------------
(* The postponed data                                                      *)

LEMMA ReporterFacts ==
  /\ \A L \in PostList : PostSources(L) \in SUBSET Front
  /\ \A J \in Front : PostTarget(J) \in PostList /\ J \in PostSources(PostTarget(J))
  /\ \A L \in PostList : \A J \in PostSources(L) : PostTarget(J) = L
<1>1. ASSUME NEW J \in Front
      PROVE  PostTarget(J) \in PostList /\ J \in PostSources(PostTarget(J))
  <2>1. nfront \notin Front
    BY TreeAssumption DEF Front
  <2>2. par[J] = -1 \/ par[J] \in Front
    BY TreeAssumption
  <2> QED  BY <2>1, <2>2 DEF PostTarget, PostSources, PostList, Roots, Children
<1>2. ASSUME NEW L \in PostList, NEW J \in PostSources(L)
      PROVE  J \in Front /\ PostTarget(J) = L
  <2>1. L # -1
    BY TreeAssumption DEF PostList, Front
  <2> QED  BY <2>1 DEF PostSources, PostTarget, Roots, Children
<1> QED  BY <1>1, <1>2

LEMMA PostInit == Init => PostCountInv
<1> SUFFICES ASSUME Init PROVE PostCountInv
  OBVIOUS
<1>1. VisitsOwnFront /\ ReportsOnce /\ PostExclusive
  BY DEF Init, VisitsOwnFront, ReportsOnce, PostExclusive, OwnedLabels
<1>2. ASSUME NEW L \in PostList
      PROVE  postCounts[L] =
               Cardinality({J \in PostSources(L) : status[owners[J]][J] # "F"})
  <2>1. \A J \in PostSources(L) : status[owners[J]][J] = "W"
    BY ReporterFacts, SenderFacts, TreeAssumption DEF Init
  <2>2. {J \in PostSources(L) : status[owners[J]][J] # "F"} = PostSources(L)
    BY <2>1
  <2>3. postCounts[L] = PostCount(L)
    BY DEF Init, post!ListInit
  <2> QED  BY <2>2, <2>3 DEF PostCount
<1> QED  BY <1>1, <1>2 DEF PostCountInv, PostCountsAreExact

LEMMA ReportsOnceStep ==
  ASSUME TypeOK, ReportsOnce, NEW t \in Thread, Worker(t)
  PROVE  ReportsOnce'
<1> SUFFICES ASSUME NEW u \in Thread, pc'[u] \in OwnedLabels
             PROVE  status'[u][cur'[u]] # "F"
  BY DEF ReportsOnce
<1>1. pc \in [Thread -> Labels]
  BY DEF TypeOK, WorkerTypeOK
<1>2. CASE u # t
  BY <1>2, Others DEF ReportsOnce
<1>3. CASE u = t
  <2>1. CASE VisitOwned(t)
    <3>1. cur' = cur
      BY <2>1 DEF VisitOwned
    <3> QED  BY <1>3, <2>1, <3>1, StatusStep
  <2>2. CASE pc[t] \in OwnedLabels
    <3>1. ~Pop(t) /\ ~PassThrough(t) /\ ~AggDecrement(t)
      BY <2>2 DEF Pop, PassThrough, AggDecrement, OwnedLabels
    <3>2. ~FactorNoPivoting(t) /\ ~PostDecrement(t)
      BY <1>1, <1>3 DEF FactorNoPivoting, PostDecrement, Goto, OwnedLabels
    <3>3. cur' = cur /\ status[t][cur[t]] # "F"
      BY <2>2, <3>1, WhoChanges DEF ReportsOnce
    <3> QED  BY <1>3, <3>1, <3>2, <3>3, StatusStep
  <2> QED  BY <1>3, <2>1, <2>2, WhereFrom
<1> QED  BY <1>2, <1>3

LEMMA PostExclusiveStep ==
  ASSUME TypeOK, RootsLocked, VisitsOwnFront, PostExclusive, NEW t \in Thread, Worker(t)
  PROVE  PostExclusive'
<1>1. /\ creg \in [Thread -> Int] /\ postCounts \in [PostList -> Int]
      /\ cur \in [Thread -> Front]
  BY DEF TypeOK, post!ListTypeOK, WorkerTypeOK
<1>2. ASSUME NEW u \in Thread, pc'[u] \in {"postStore", "postDecrement"},
             PostFlags[PostTarget(cur'[u])] = "Y"
      PROVE  postLock' = u
  <2>1. CASE u # t
    <3>1. postLock = u
      BY <1>2, <2>1, Others DEF PostExclusive
    <3>2. CASE PostLink(t) \/ PostNothing(t) \/ PostLoad(t)
      <4>1. u # -1
        BY DEF Thread
      <4> QED  BY <3>1, <3>2, <4>1
               DEF PostLink, PostNothing, PostLoad, post!AddLink, post!AddNothing,
                   post!GetLoad, post!Acquire, post!NoOne, Goto
    <3>3. CASE PostDecrement(t) \/ PostAssemble(t)
      BY <2>1, <3>1, <3>3
         DEF PostDecrement, PostAssemble, post!AddDecrement, post!GetClear, post!Release
    <3> QED  BY <3>1, <3>2, <3>3, WhoChanges
  <2>2. CASE u = t
    <3>1. CASE PostLink(t) \/ PostNothing(t)
      BY <1>2, <2>2, <3>1
         DEF PostLink, PostNothing, post!AddLink, post!AddNothing, post!Acquire
    <3>2. CASE PostStore(t)
      BY <1>2, <2>2, <3>2 DEF PostStore, post!AddStore, PostExclusive
    <3> QED  BY <1>2, <2>2, <3>1, <3>2, WhereFrom
  <2> QED  BY <2>1, <2>2
<1>3. ASSUME NEW u \in Thread, pc'[u] = "postDecrement"
      PROVE  creg'[u] = postCounts'[PostTarget(cur'[u])]
  <2>1. CASE u # t
    <3>1. pc[u] = "postDecrement" /\ cur'[u] = cur[u]
          /\ creg'[u] = postCounts[PostTarget(cur[u])]
      BY <1>3, <2>1, Others DEF PostExclusive
    <3>2. CASE PostDecrement(t)
      <4> DEFINE L == PostTarget(cur[u])
      <4>1. pc[t] = "postDecrement" /\ L \in PostList
        BY <1>1, <3>2, ReporterFacts DEF PostDecrement
      <4>2. ASSUME PostTarget(cur[t]) = L PROVE FALSE
        <5>1. cur[t] \in PostSources(L) /\ cur[u] \in PostSources(L)
          BY <1>1, <4>2, ReporterFacts
        <5>2. owners[cur[t]] = t /\ owners[cur[u]] = u
          BY <3>1, <4>1 DEF VisitsOwnFront, OwnedLabels
        <5>3. PostFlags[L] = "Y" => postLock = t /\ postLock = u
          BY <3>1, <4>1, <4>2 DEF PostExclusive
        <5> HIDE DEF L
        <5> QED  BY <2>1, <4>1, <5>1, <5>2, <5>3, OneReporter
      <4>3. postCounts' = [postCounts EXCEPT ![PostTarget(cur[t])] = creg[t] - 1]
        BY <3>2 DEF PostDecrement, post!AddDecrement
      <4> QED  BY <1>1, <3>1, <4>1, <4>2, <4>3
    <3> QED  BY <3>1, <3>2, WhoChanges
  <2>2. CASE u = t
    <3>1. PostStore(t) \/ PostNothing(t)
      BY <1>3, <2>2, WhereFrom
    <3> QED  BY <1>1, <2>2, <3>1
             DEF PostStore, PostNothing, post!AddStore, post!AddNothing
  <2> QED  BY <2>1, <2>2
<1> QED  BY <1>2, <1>3 DEF PostExclusive

LEMMA PostCountStep ==
  ASSUME TypeOK, SendsOnce, PostCountInv, NEW t \in Thread, Worker(t)
  PROVE  PostCountsAreExact'
<1> USE DEF PostCountInv
<1> SUFFICES ASSUME Pivoting, NEW L \in PostList
             PROVE  postCounts'[L] =
                      Cardinality({J \in PostSources(L) : status'[owners[J]][J] # "F"})
  BY DEF PostCountsAreExact
<1> DEFINE Due    == {J \in PostSources(L) : status[owners[J]][J] # "F"}
           DueNow == {J \in PostSources(L) : status'[owners[J]][J] # "F"}
<1>1. /\ postCounts[L] = Cardinality(Due) /\ postCounts \in [PostList -> Int]
      /\ cur[t] \in Front
  BY DEF PostCountsAreExact, TypeOK, post!ListTypeOK, WorkerTypeOK
<1>2. \A J \in PostSources(L) : J \in Front /\ owners[J] \in Thread /\ PostTarget(J) = L
  BY ReporterFacts, TreeAssumption
<1>3. ASSUME NEW J \in PostSources(L), ~(PostDecrement(t) /\ J = cur[t])
      PROVE  status'[owners[J]][J] = "F" <=> status[owners[J]][J] = "F"
  <2>1. CASE owners[J] # t
    BY <1>2, <2>1, Others
  <2>2. CASE owners[J] = t
    <3>1. ~FactorSingular(t) /\ ~FactorNoPivoting(t)
      BY DEF FactorSingular, FactorNoPivoting
    <3>2. ~(AggDecrement(t) /\ J = cur[t])
      BY <1>2, <2>2, SenderFacts DEF AggDecrement, SendsOnce, SendLabels
    <3>3. ~(PassThrough(t) /\ J = cur[t])
      BY <2>2 DEF PassThrough
    <3> QED  BY <1>2, <1>3, <2>2, <3>1, <3>2, <3>3, StaysFinished, StatusStep
  <2> QED  BY <2>1, <2>2
<1>4. CASE PostDecrement(t) /\ L = PostTarget(cur[t])
  <2>1. cur[t] \in Due /\ owners[cur[t]] = t /\ creg[t] = postCounts[L]
    BY <1>1, <1>4, ReporterFacts
       DEF PostDecrement, VisitsOwnFront, ReportsOnce, OwnedLabels, PostExclusive
  <2>2. status'[t][cur[t]] = "F"
    BY <1>1, <1>4 DEF PostDecrement, TypeOK, WorkerTypeOK
  <2>3. DueNow = Due \ {cur[t]}
    BY <1>3, <2>1, <2>2
  <2>4. IsFiniteSet(Due)
    BY <1>2, FrontFinite, FS_Subset
  <2>5. Cardinality(DueNow) = Cardinality(Due) - 1
    BY <2>1, <2>3, <2>4, FS_RemoveElement
  <2>6. postCounts'[L] = creg[t] - 1
    BY <1>1, <1>4 DEF PostDecrement, post!AddDecrement
  <2> QED  BY <1>1, <2>1, <2>5, <2>6
<1>5. CASE ~(PostDecrement(t) /\ L = PostTarget(cur[t]))
  <2>1. postCounts'[L] = postCounts[L]
    BY <1>1, <1>5, WhoChanges DEF PostDecrement, post!AddDecrement
  <2>2. DueNow = Due
    BY <1>2, <1>3, <1>5
  <2> QED  BY <1>1, <2>1, <2>2
<1> QED  BY <1>4, <1>5

LEMMA PostNext ==
  RootsLocked /\ TypeOK /\ AggCountInv /\ PostCountInv /\ [Next]_vars => PostCountInv'
<1> SUFFICES ASSUME RootsLocked, TypeOK, AggCountInv, PostCountInv, [Next]_vars
             PROVE  PostCountInv'
  OBVIOUS
<1>1. ASSUME NEW t \in Thread, Worker(t) PROVE PostCountInv'
  BY <1>1, OwnFrontStep, ReportsOnceStep, PostExclusiveStep, PostCountStep
     DEF PostCountInv, AggCountInv
<1>2. CASE UNCHANGED <<pc, cur, status, postCounts, postLock, creg>>
  BY <1>2 DEF PostCountInv, VisitsOwnFront, ReportsOnce, PostExclusive, PostCountsAreExact
<1>3. Join \/ UNCHANGED vars => UNCHANGED <<pc, cur, status, postCounts, postLock, creg>>
  BY DEF Join, vars, treevars, listvars
<1> QED  BY <1>1, <1>2, <1>3 DEF Next, Returned

\* The count of every list of postponed data is the number of children that
\* have not yet reported, if FrontMtx_postList makes the roots' list take the
\* mutex when roots have different owners, which it does not always do.
THEOREM PostCountsCorrect == RootsLocked => (Spec => []PostCountsAreExact)
<1> SUFFICES ASSUME RootsLocked PROVE Spec => []PostCountsAreExact
  OBVIOUS
<1>1. PostCountInv => PostCountsAreExact
  BY DEF PostCountInv
<1>2. Spec => []TypeOK
  BY TypeCorrect
<1>3. TypeOK /\ AggCountInv /\ PostCountInv /\ [Next]_vars => PostCountInv'
  BY PostNext
<1> QED  BY <1>1, <1>2, <1>3, AggInit, AggNext, PostInit, PTL DEF Spec
=============================================================================
