-------------------------- MODULE ListSetupProofs --------------------------
(* The loops of FrontMtx_aggregateList and FrontMtx_postList compute what  *)
(* FrontTree says they do, for every front tree and every map.             *)
EXTENDS ListSetup, FiniteSetTheorems, TLAPS

LEMMA Finite ==
  /\ IsFiniteSet(Front) /\ IsFiniteSet(Thread)
  /\ \A S \in SUBSET Front : IsFiniteSet(S) /\ Cardinality(S) \in Nat
  /\ \A S \in SUBSET Thread : IsFiniteSet(S) /\ Cardinality(S) \in Nat
<1>1. IsFiniteSet(Front) /\ IsFiniteSet(Thread)
  BY TreeAssumption, FS_Interval DEF Front, Thread
<1> QED
  BY <1>1, FS_Subset, FS_CardinalityType

\* A front updates only fronts after it.
LEMMA UpdatesLater == \A I \in Front : \A K \in bnd[I] : K \in Front /\ K > I
<1> SUFFICES ASSUME NEW I \in Front, NEW K \in bnd[I] PROVE K \in Front /\ K > I
  OBVIOUS
<1>1. K \in Ancestors[I] /\ K \in Front /\ par[I] # -1
  BY TreeAssumption DEF Ancestors
<1> DEFINE Later == {M \in Front : M > I}
<1>2. par[I] \in Later
  BY <1>1, TreeAssumption DEF Front
<1>3. \A M \in Later : par[M] # -1 => par[M] \in Later
  BY TreeAssumption DEF Front
<1>4. K \in Later
  BY <1>1, <1>2, <1>3 DEF Ancestors
<1> QED
  BY <1>1, <1>4

\* The threads that send to K are those of the fronts that update K for
\* another thread.
LEMMA Senders ==
  \A K \in Front : AggSenders(K) = {owners[I] : I \in {M \in Front : M < K /\ K \in Foreign(M)}}
BY UpdatesLater DEF AggSenders, Updaters, Foreign

LEMMA SetTypes ==
  /\ \A I \in Front : \A lo \in Int : \A K \in Front : NextForeign(I, lo, K) => K \in Foreign(I) /\ K >= lo
  /\ \A K \in Front : AggSenders(K) \in SUBSET Thread /\ AggCount(K) \in Nat
  /\ \A K \in Front : Children(K) \in SUBSET Front
  /\ Roots \in SUBSET Front /\ Cardinality(Roots) \in Nat
<1>1. \A K \in Front : AggSenders(K) \in SUBSET Thread
  BY TreeAssumption DEF AggSenders, Updaters
<1>2. Roots \in SUBSET Front /\ \A K \in Front : Children(K) \in SUBSET Front
  BY DEF Roots, Children
<1> QED
  BY <1>1, <1>2, Finite DEF NextForeign, Foreign, AggCount

-----------------------------------------------------------------------------
LEMMA SetupInit == Init => SetupInv
<1> SUFFICES ASSUME Init PROVE SetupInv
  OBVIOUS
<1>1. TypeOK
  BY TreeAssumption DEF Init, TypeOK, Lists, NoMark
<1>2. LinkInv /\ AggInv
  BY TreeAssumption DEF Init, LinkInv, AggInv, Front
<1>3. HeardInv /\ MarkInv /\ PostInv
  BY TreeAssumption DEF Init, HeardInv, MarkInv, PostInv, NoMark
<1> QED
  BY <1>1, <1>2, <1>3 DEF SetupInv

LEMMA RelinkType ==
  ASSUME TypeOK, NEW I \in Front, J \in Front
  PROVE  Relink(I) \in [Front -> SUBSET Front]
BY DEF TypeOK, Relink

LEMMA TypeStep == TypeOK /\ [Next]_vars => TypeOK'
<1> SUFFICES ASSUME TypeOK, [Next]_vars PROVE TypeOK'
  OBVIOUS
<1> USE DEF TypeOK, Lists
<1>1. J < nfront => J \in Front
  BY TreeAssumption DEF Front
<1>2. \A I \in Front : owners[I] \in Thread
  BY TreeAssumption
<1>3. CASE AggOpen
  BY <1>1, <1>2, <1>3 DEF AggOpen
<1>4. CASE AggDrain
  BY <1>1, <1>2, <1>4, RelinkType DEF AggDrain
<1>5. CASE AggClose
  BY <1>1, <1>2, <1>5, RelinkType, TreeAssumption DEF AggClose, LockFlag
<1>6. CASE AggReturn
  BY <1>6, TreeAssumption DEF AggReturn, NoMark
<1>7. CASE PostFront
  <2>1. mark' \in [Thread -> Front \cup {-1}]
    BY <1>1, <1>7 DEF PostFront
  <2>2. J \in PostList /\ Cardinality(Children(J)) \in Nat
    BY <1>1, <1>7, Finite, SetTypes DEF PostFront, PostList
  <2> QED
    BY <1>1, <1>7, <2>1, <2>2, TreeAssumption DEF PostFront, LockFlag
<1>8. CASE PostFrontsDone
  BY <1>8, SetTypes DEF PostFrontsDone
<1>9. CASE PostRoot
  <2>1. rootseq[J] \in Front /\ owners[rootseq[J]] \in Thread
    <3>1. J \in 1 .. Cardinality(Roots)
      BY <1>9, SetTypes DEF PostRoot
    <3> QED
      BY <3>1, SetTypes, TreeAssumption
  <2> QED
    BY <1>9, <2>1, SetTypes DEF PostRoot
<1>10. CASE PostClose
  <2>1. J - 1 \in Nat /\ nfront \in PostList /\ LockFlag(count) \in {"Y", "N"}
    BY <1>10, SetTypes DEF PostClose, LockFlag, PostList
  <2> QED
    BY <1>10, <2>1 DEF PostClose
<1>11. CASE UNCHANGED vars
  BY <1>11 DEF vars
<1> QED
  BY <1>3, <1>4, <1>5, <1>6, <1>7, <1>8, <1>9, <1>10, <1>11 DEF Next, Built

-----------------------------------------------------------------------------
(* The loop of FrontMtx_aggregateList                                      *)

LEMMA OpenStep ==
  ASSUME SetupInv, AggOpen
  PROVE  LinkInv' /\ HeardInv' /\ AggInv' /\ MarkInv' /\ PostInv'
<1>1. /\ J \in Front /\ J \in Int
      /\ \A I \in Front : bnd[I] \subseteq Int
  BY TreeAssumption DEF SetupInv, TypeOK, AggOpen, Front
<1>2. /\ phase = "open" /\ phase' = "drain" /\ J' = J /\ count' = 0
      /\ mark' = [mark EXCEPT ![owners[J]] = J]
      /\ waiting' = waiting /\ aggCounts' = aggCounts /\ aggFlags' = aggFlags
  BY DEF AggOpen
<1>3. \A K \in Front : K >= J => waiting[K] = {I \in Front : I < J /\ NextForeign(I, J, K)}
  BY <1>2 DEF SetupInv, LinkInv
<1>4. waiting[J] = {I \in Front : I < J /\ J \in Foreign(I)}
  BY <1>1, <1>3 DEF NextForeign, Foreign
<1>5. \A I \in Front \ waiting[J] : I < J =>
        \A K \in Front : K > J => (NextForeign(I, J, K) <=> NextForeign(I, J + 1, K))
  <2> SUFFICES ASSUME NEW I \in Front \ waiting[J], I < J, NEW K \in Front, K > J
               PROVE  NextForeign(I, J, K) <=> NextForeign(I, J + 1, K)
    OBVIOUS
  <2>1. ~(J \in bnd[I] /\ owners[J] # owners[I])
    BY <1>4 DEF Foreign
  <2>2. \A M \in bnd[I] : owners[M] # owners[I] => (M >= J <=> M >= J + 1)
    BY <1>1, <2>1
  <2>3. {M \in bnd[I] : M >= J /\ owners[M] # owners[I]}
          = {M \in bnd[I] : M >= J + 1 /\ owners[M] # owners[I]}
    BY <2>2
  <2> QED
    BY <2>3 DEF NextForeign
<1>6. \A I \in waiting[J] : \A K \in Front : K > J => ~NextForeign(I, J, K)
  BY <1>1, <1>4 DEF NextForeign, Foreign
<1>7. \A K \in Front : K > J =>
        waiting[K] = {I \in Front \ waiting[J] : I < J /\ NextForeign(I, J + 1, K)}
  BY <1>1, <1>3, <1>5, <1>6 DEF Front
<1>8. LinkInv'
  BY <1>2, <1>4, <1>7 DEF SetupInv, LinkInv, Foreign
<1>9. HeardInv'
  <2>1. Taken' = {} /\ Heard' = {}
    BY <1>2, <1>4 DEF Taken, Heard, Foreign
  <2>2. Cardinality({}) = 0
    BY FS_EmptySet
  <2>3. \A q \in Thread : mark[q] < J /\ mark[q] \in Int
    BY <1>2 DEF SetupInv, HeardInv, TypeOK, Front
  <2>4. \A q \in Thread : mark'[q] <= J /\ (mark'[q] = J <=> q = owners[J])
    BY <1>1, <1>2, <2>3 DEF SetupInv, TypeOK
  <2> QED
    BY <1>2, <2>1, <2>2, <2>4 DEF HeardInv
<1>10. AggInv'
  BY <1>2 DEF SetupInv, AggInv
<1>11. MarkInv' /\ PostInv'
  BY <1>2 DEF MarkInv, PostInv
<1> QED
  BY <1>8, <1>9, <1>10, <1>11

LEMMA DrainStep ==
  ASSUME SetupInv, AggDrain
  PROVE  LinkInv' /\ HeardInv' /\ AggInv' /\ MarkInv' /\ PostInv'
<1>1. /\ J \in Front /\ J \in Int
      /\ \A I \in Front : bnd[I] \subseteq Int /\ owners[I] \in Thread
  BY TreeAssumption DEF SetupInv, TypeOK, AggDrain, Front
<1>2. PICK I \in waiting[J] :
        /\ count' = IF mark[owners[I]] = J THEN count ELSE count + 1
        /\ mark' = [mark EXCEPT ![owners[I]] = J]
        /\ waiting' = Relink(I)
  BY DEF AggDrain
<1>3. /\ phase = "drain" /\ phase' = "drain" /\ J' = J
      /\ aggCounts' = aggCounts /\ aggFlags' = aggFlags
  BY DEF AggDrain
<1>4. /\ waiting[J] \subseteq {M \in Front : M < J /\ J \in Foreign(M)}
      /\ \A K \in Front : K > J =>
           waiting[K] = {M \in Front \ waiting[J] : M < J /\ NextForeign(M, J + 1, K)}
  BY <1>3 DEF SetupInv, LinkInv
<1>5. I \in Front /\ I < J /\ J \in Foreign(I)
  BY <1>2, <1>4
<1>6. \A K \in Front : NextForeign(I, J + 1, K) => K > J
  BY <1>1 DEF NextForeign, Front
<1>7. /\ waiting'[J] = waiting[J] \ {I}
      /\ \A K \in Front : K > J =>
           waiting'[K] = waiting[K] \cup (IF NextForeign(I, J + 1, K) THEN {I} ELSE {})
      /\ \A K \in Front : K < J => waiting'[K] = waiting[K]
  <2>1. \A K \in Front : K \in Int /\ ~(K > K)
    BY DEF Front
  <2>2. ~NextForeign(I, J + 1, J)
    BY <1>1, <1>6, <2>1
  <2>3. \A K \in Front : K < J => K # J /\ ~NextForeign(I, J + 1, K)
    BY <1>1, <1>6, <2>1
  <2>4. \A K \in Front : K > J => K # J
    BY <1>1, <2>1
  <2> QED
    BY <1>1, <1>2, <2>2, <2>3, <2>4 DEF Relink
<1>8. LinkInv'
  <2>1. \A K \in Front : K > J =>
          waiting'[K] = {M \in Front \ waiting'[J] : M < J /\ NextForeign(M, J + 1, K)}
    BY <1>2, <1>4, <1>5, <1>7
  <2>2. waiting'[J] \subseteq {M \in Front : M < J /\ J \in Foreign(M)}
    BY <1>4, <1>7
  <2>3. \A K \in Front : K < J => waiting'[K] = {}
    BY <1>3, <1>7 DEF SetupInv, LinkInv
  <2> QED
    BY <1>3, <2>1, <2>2, <2>3 DEF LinkInv, Foreign
<1>9. HeardInv'
  <2>1. Taken' = Taken \cup {I}
    BY <1>2, <1>3, <1>5, <1>7 DEF Taken, Foreign
  <2>2. Heard' = Heard \cup {owners[I]}
    BY <2>1 DEF Heard
  <2>3. Heard \in SUBSET Thread /\ owners[I] # owners[J]
    BY <1>1, <1>5 DEF Heard, Taken, Foreign
  <2>4. count = Cardinality(Heard) /\ count \in Nat
        /\ \A q \in Thread : mark[q] <= J /\ (mark[q] = J <=> q = owners[J] \/ q \in Heard)
    BY <1>3 DEF SetupInv, HeardInv, TypeOK
  <2>5. Cardinality(Heard') = IF owners[I] \in Heard THEN count ELSE count + 1
    BY <2>2, <2>3, <2>4, Finite, FS_AddElement
  <2>6. count' = Cardinality(Heard')
    BY <1>1, <1>2, <1>5, <2>3, <2>4, <2>5
  <2>7. \A q \in Thread : mark'[q] <= J /\ (mark'[q] = J <=> q = owners[J] \/ q \in Heard')
    BY <1>1, <1>2, <1>5, <2>2, <2>4 DEF SetupInv, TypeOK
  <2> QED
    BY <1>3, <2>6, <2>7 DEF HeardInv
<1>10. AggInv'
  BY <1>3 DEF SetupInv, AggInv
<1>11. MarkInv' /\ PostInv'
  BY <1>3 DEF MarkInv, PostInv
<1> QED
  BY <1>8, <1>9, <1>10, <1>11

LEMMA CloseStep ==
  ASSUME SetupInv, AggClose
  PROVE  LinkInv' /\ HeardInv' /\ AggInv' /\ MarkInv' /\ PostInv'
<1>1. /\ J \in Front /\ J \in Int
      /\ \A I \in Front : bnd[I] \subseteq Int /\ owners[I] \in Thread
  <2>1. J \in Nat /\ J < nfront
    BY DEF SetupInv, TypeOK, AggClose
  <2> QED
    BY <2>1, TreeAssumption DEF Front
<1>2. /\ phase = "drain" /\ phase' = "open" /\ J' = J + 1 /\ mark' = mark
      /\ aggCounts' = [aggCounts EXCEPT ![J] = count]
      /\ aggFlags' = [aggFlags EXCEPT ![J] = LockFlag(count)]
      /\ waiting[J] = {} /\ waiting' = Relink(J)
  BY DEF AggClose
<1>3. \A K \in Front : NextForeign(J, J + 1, K) => K > J
  BY <1>1 DEF NextForeign, Front
<1>4. /\ \A K \in Front : K > J =>
           waiting'[K] = waiting[K] \cup (IF NextForeign(J, J + 1, K) THEN {J} ELSE {})
      /\ \A K \in Front : K <= J => waiting'[K] = {}
  BY <1>1, <1>2, <1>3 DEF Relink, SetupInv, LinkInv, Front
<1>5. \A K \in Front : K > J =>
        waiting'[K] = {M \in Front : M < J + 1 /\ NextForeign(M, J + 1, K)}
  <2>1. \A K \in Front : K > J =>
          waiting[K] = {M \in Front : M < J /\ NextForeign(M, J + 1, K)}
    BY <1>2 DEF SetupInv, LinkInv
  <2>2. \A M \in Front : M < J + 1 <=> M < J \/ M = J
    BY <1>1 DEF Front
  <2> QED
    BY <1>1, <1>4, <2>1, <2>2
<1>6. LinkInv'
  BY <1>1, <1>2, <1>4, <1>5 DEF LinkInv, Front
<1>7. HeardInv'
  <2>1. \A q \in Thread : mark[q] <= J /\ mark[q] \in Int
    BY <1>2 DEF SetupInv, HeardInv, TypeOK, Front
  <2> QED
    BY <1>1, <1>2, <2>1 DEF HeardInv
<1>8. count = AggCount(J)
  <2>1. Taken = {M \in Front : M < J /\ J \in Foreign(M)}
    BY <1>2 DEF Taken
  <2>2. Heard = AggSenders(J)
    BY <1>1, <2>1, Senders DEF Heard
  <2> QED
    BY <1>2, <2>2 DEF SetupInv, HeardInv, AggCount
<1>9. AggInv'
  <2>1. \A K \in Front : K < J + 1 <=> K < J \/ K = J
    BY <1>1 DEF Front
  <2>2. \A K \in Front : K < J => aggCounts[K] = AggCount(K) /\ aggFlags[K] = LockFlag(AggCount(K))
    BY DEF SetupInv, AggInv
  <2>3. \A K \in Front : K < J \/ K = J =>
          aggCounts'[K] = AggCount(K) /\ aggFlags'[K] = LockFlag(AggCount(K))
    BY <1>1, <1>2, <1>8, <2>2 DEF SetupInv, TypeOK, Lists
  <2> QED
    BY <1>2, <2>1, <2>3 DEF AggInv
<1>10. MarkInv' /\ PostInv'
  BY <1>2 DEF MarkInv, PostInv
<1> QED
  BY <1>6, <1>7, <1>9, <1>10

-----------------------------------------------------------------------------
(* The loops of FrontMtx_postList                                          *)

LEMMA ReturnStep ==
  ASSUME SetupInv, AggReturn
  PROVE  LinkInv' /\ HeardInv' /\ AggInv' /\ MarkInv' /\ PostInv'
<1>1. /\ phase = "open" /\ J = nfront /\ phase' = "fronts" /\ J' = 0 /\ mark' = NoMark
      /\ waiting' = waiting /\ aggCounts' = aggCounts /\ aggFlags' = aggFlags
  BY DEF AggReturn
<1>2. \A K \in Front : K < J /\ ~(K < J')
  BY <1>1, TreeAssumption DEF Front
<1>3. LinkInv' /\ AggInv' /\ HeardInv' /\ PostInv'
  BY <1>1, <1>2 DEF SetupInv, LinkInv, AggInv, HeardInv, PostInv
<1>4. MarkInv'
  <2>1. \A q \in Thread : mark'[q] = -1 /\ ReportsBelow(q, J') = {}
    BY <1>1, <1>2 DEF NoMark, ReportsBelow
  <2> QED
    BY <1>1, <2>1 DEF MarkInv, ReportsBelow
<1> QED
  BY <1>3, <1>4

LEMMA PostFrontStep ==
  ASSUME SetupInv, PostFront
  PROVE  LinkInv' /\ HeardInv' /\ AggInv' /\ MarkInv' /\ PostInv'
<1> DEFINE threads == {owners[I] : I \in Children(J)}
<1> DEFINE counted == Cardinality({q \in threads : mark[q] # J})
<1>1. J \in Front /\ J \in Int
  <2>1. J \in Nat /\ J < nfront
    BY DEF SetupInv, TypeOK, PostFront
  <2> QED
    BY <2>1, TreeAssumption DEF Front
<1>2. /\ phase = "fronts" /\ phase' = "fronts" /\ J' = J + 1
      /\ mark' = [q \in Thread |-> IF q \in threads THEN J ELSE mark[q]]
      /\ postCounts' = [postCounts EXCEPT ![J] = Cardinality(Children(J))]
      /\ postFlags' = [postFlags EXCEPT ![J] = LockFlag(counted)]
      /\ waiting' = waiting /\ aggCounts' = aggCounts /\ aggFlags' = aggFlags
  BY DEF PostFront
<1>3. \A q \in Thread :
        /\ IF mark[q] = -1 THEN ReportsBelow(q, J) = {} ELSE mark[q] \in ReportsBelow(q, J)
        /\ \A M \in ReportsBelow(q, J) : M <= mark[q]
  BY <1>2 DEF SetupInv, MarkInv
<1>4. \A q \in Thread :
        ReportsBelow(q, J + 1) = ReportsBelow(q, J) \cup (IF q \in threads THEN {J} ELSE {})
  <2>1. \A M \in Front : M < J + 1 <=> M < J \/ M = J
    BY <1>1 DEF Front
  <2> QED
    BY <1>1, <2>1 DEF ReportsBelow
<1>5. \A q \in Thread : mark[q] # J
  BY <1>1, <1>3, TreeAssumption DEF ReportsBelow, Front
<1>6. LinkInv' /\ AggInv' /\ HeardInv'
  BY <1>2 DEF SetupInv, LinkInv, AggInv, HeardInv
<1>7. MarkInv'
  <2>1. \A q \in Thread : \A M \in ReportsBelow(q, J) : M \in Front /\ M < J /\ M \in Int
    BY DEF ReportsBelow, Front
  <2>2. ASSUME NEW q \in Thread
        PROVE  /\ IF mark'[q] = -1 THEN ReportsBelow(q, J + 1) = {}
                                   ELSE mark'[q] \in ReportsBelow(q, J + 1)
               /\ \A M \in ReportsBelow(q, J + 1) : M <= mark'[q]
    <3>1. CASE q \in threads
      <4>1. mark'[q] = J /\ J # -1 /\ J <= J
        BY <1>1, <1>2, <3>1 DEF Front
      <4>2. \A M \in ReportsBelow(q, J) : M <= J
        BY <1>1, <2>1
      <4> QED
        BY <1>4, <3>1, <4>1, <4>2
    <3>2. CASE q \notin threads
      BY <1>2, <1>3, <1>4, <3>2
    <3> QED
      BY <3>1, <3>2
  <2>3. \A q \in Thread : ReportsBelow(q, J)' = ReportsBelow(q, J + 1)
    BY <1>2 DEF ReportsBelow
  <2> HIDE DEF threads
  <2> QED
    BY <1>2, <2>2, <2>3 DEF MarkInv
<1>8. PostInv'
  <2>1. threads \in SUBSET Thread
    BY <1>1, SetTypes, TreeAssumption
  <2>2. counted = Cardinality(threads)
    <3>1. {q \in threads : mark[q] # J} = threads
      BY <1>5, <2>1
    <3> QED
      BY <3>1
  <2>3. J \in PostList /\ J # nfront
    BY <1>1, TreeAssumption DEF PostList, Front
  <2>4. PostCount(J) = Cardinality(Children(J)) /\ PostFlags[J] = LockFlag(counted)
    BY <2>2, <2>3 DEF PostCount, PostSources, PostFlags, LockFlag
  <2>5. \A K \in Front : K < J => postCounts[K] = PostCount(K) /\ postFlags[K] = PostFlags[K]
    BY <1>2 DEF SetupInv, PostInv
  <2> HIDE DEF counted, threads
  <2>6. \A K \in Front : K < J \/ K = J =>
          postCounts'[K] = PostCount(K) /\ postFlags'[K] = PostFlags[K]
    BY <1>1, <1>2, <2>3, <2>4, <2>5 DEF SetupInv, TypeOK, Lists, PostList
  <2>7. \A K \in Front : K < J + 1 <=> K < J \/ K = J
    BY <1>1 DEF Front
  <2> QED
    BY <1>2, <2>6, <2>7 DEF PostInv
<1> QED
  BY <1>6, <1>7, <1>8

\* At the end of the loop over the fronts mark[q] is the last front to which
\* a front of thread q reports.
LEMMA MarksAreLast ==
  ASSUME SetupInv, phase = "fronts", J = nfront, NEW q \in Thread
  PROVE  mark[q] = LastMark(q)
<1> DEFINE parents == {M \in Front : \E I \in Children(M) : owners[I] = q}
<1>1. ReportsBelow(q, J) = parents
  BY TreeAssumption DEF ReportsBelow, Front
<1>2. /\ IF mark[q] = -1 THEN parents = {} ELSE mark[q] \in parents
      /\ \A M \in parents : M <= mark[q]
  BY <1>1 DEF SetupInv, MarkInv
<1>3. LastMark(q) = IF parents = {} THEN -1
                    ELSE CHOOSE M \in parents : \A N \in parents : N <= M
  BY DEF LastMark
<1>4. parents \subseteq Int /\ -1 \notin parents
  BY TreeAssumption DEF Front
<1> HIDE DEF parents
<1>5. CASE mark[q] = -1
  BY <1>2, <1>3, <1>5
<1>6. CASE mark[q] # -1
  <2>1. ASSUME NEW M \in parents, \A N \in parents : N <= M
        PROVE  M = mark[q]
    <3>1. mark[q] \in parents /\ mark[q] <= M /\ M <= mark[q]
      BY <1>2, <1>6, <2>1
    <3>2. mark[q] \in Int /\ M \in Int
      BY <3>1, <2>1, <1>4
    <3> QED
      BY <3>1, <3>2
  <2> QED
    BY <1>2, <1>3, <1>6, <2>1
<1> QED
  BY <1>5, <1>6

LEMMA FrontsDoneStep ==
  ASSUME SetupInv, PostFrontsDone
  PROVE  LinkInv' /\ HeardInv' /\ AggInv' /\ MarkInv' /\ PostInv'
<1>1. /\ phase = "fronts" /\ J = nfront /\ phase' = "roots" /\ J' = 1 /\ count' = 0
      /\ mark' = mark /\ postCounts' = postCounts /\ postFlags' = postFlags
      /\ waiting' = waiting /\ aggCounts' = aggCounts /\ aggFlags' = aggFlags
  BY DEF PostFrontsDone
<1>2. LinkInv' /\ AggInv' /\ HeardInv'
  BY <1>1 DEF SetupInv, LinkInv, AggInv, HeardInv
<1>3. PostInv'
  <2>1. \A K \in Front : K < J
    BY <1>1, TreeAssumption DEF Front
  <2> QED
    BY <1>1, <2>1 DEF SetupInv, PostInv
<1>4. MarkInv'
  <2>1. 1 .. 1 - 1 = {}
    OBVIOUS
  <2>2. {i \in RootsCounted : i < 1} = {}
    BY DEF RootsCounted
  <2>3. \A q \in Thread : mark[q] = LastMark(q)
    BY <1>1, MarksAreLast
  <2>4. Cardinality({}) = 0
    BY FS_EmptySet
  <2> QED
    BY <1>1, <2>1, <2>2, <2>3, <2>4 DEF MarkInv
<1> QED
  BY <1>2, <1>3, <1>4

LEMMA RootsDistinct ==
  \A i \in 1 .. Cardinality(Roots) : \A k \in 1 .. i - 1 : rootseq[k] # rootseq[i]
<1> DEFINE n == Cardinality(Roots)
<1>1. n \in Nat /\ IsFiniteSet(1 .. n) /\ Cardinality(1 .. n) = n
  BY SetTypes, FS_Interval
<1>2. rootseq \in Surjection(1 .. n, Roots)
  BY TreeAssumption DEF Surjection
<1>3. rootseq \in Injection(1 .. n, Roots)
  BY <1>1, <1>2, FS_Surjection
<1> HIDE DEF n
<1>4. \A i \in 1 .. n : \A k \in 1 .. i - 1 : k \in 1 .. n /\ k # i
  BY <1>1
<1>5. \A i \in 1 .. n : \A k \in 1 .. i - 1 : rootseq[k] # rootseq[i]
  <2>1. \A a, b \in 1 .. n : rootseq[a] = rootseq[b] => a = b
    BY <1>3 DEF Injection, IsInjective
  <2> QED
    BY <1>4, <2>1
<1> QED
  BY <1>5 DEF n

LEMMA RootStep ==
  ASSUME SetupInv, PostRoot
  PROVE  LinkInv' /\ HeardInv' /\ AggInv' /\ MarkInv' /\ PostInv'
<1> DEFINE R == rootseq[J]
<1> DEFINE q == owners[R]
<1> DEFINE seen(p, n) == {k \in 1 .. n - 1 : owners[rootseq[k]] = p}
<1>1. /\ phase = "roots" /\ phase' = "roots" /\ J' = J + 1
      /\ count' = IF mark[q] = R THEN count ELSE count + 1
      /\ mark' = [mark EXCEPT ![q] = R]
      /\ postCounts' = postCounts /\ postFlags' = postFlags
      /\ waiting' = waiting /\ aggCounts' = aggCounts /\ aggFlags' = aggFlags
  BY DEF PostRoot
<1>2. J \in 1 .. Cardinality(Roots)
  BY SetTypes DEF PostRoot, SetupInv, TypeOK
<1>3. R \in Front /\ q \in Thread
  BY <1>2, TreeAssumption, SetTypes
<1>4. /\ \A p \in Thread : IF seen(p, J) = {} THEN mark[p] = LastMark(p)
                           ELSE mark[p] \in {rootseq[k] : k \in seen(p, J)}
      /\ count = Cardinality({i \in RootsCounted : i < J})
  BY <1>1 DEF SetupInv, MarkInv
<1>5. LinkInv' /\ AggInv' /\ HeardInv' /\ PostInv'
  BY <1>1 DEF SetupInv, LinkInv, AggInv, HeardInv, PostInv
<1>6. J \in RootsCounted <=> mark[q] # R
  <2>1. J \in RootsCounted <=> LastMark(q) # R \/ seen(q, J) # {}
    BY <1>2 DEF RootsCounted
  <2>2. CASE seen(q, J) = {}
    BY <1>3, <1>4, <2>1, <2>2
  <2>3. CASE seen(q, J) # {}
    <3>1. PICK k \in 1 .. J - 1 : mark[q] = rootseq[k]
      BY <1>3, <1>4, <2>3
    <3> QED
      BY <1>2, <2>1, <2>3, <3>1, RootsDistinct
  <2> QED
    BY <2>2, <2>3
<1>7. count' = Cardinality({i \in RootsCounted : i < J + 1})
  <2>1. RootsCounted \subseteq 1 .. Cardinality(Roots) /\ J \in Int
    BY <1>2 DEF RootsCounted
  <2> DEFINE before == {i \in RootsCounted : i < J}
  <2>2. {i \in RootsCounted : i < J + 1} = before \cup (IF J \in RootsCounted THEN {J} ELSE {})
    <3>1. \A i \in RootsCounted : i \in Int /\ (i < J + 1 <=> i < J \/ i = J)
      BY <2>1, SetTypes
    <3> QED
      BY <3>1
  <2>3. IsFiniteSet(before) /\ J \notin before
    <3>1. IsFiniteSet(1 .. Cardinality(Roots))
      BY SetTypes, FS_Interval
    <3>2. before \in SUBSET (1 .. Cardinality(Roots)) /\ J \notin before
      <4>1. ~(J < J)
        BY <2>1
      <4> QED
        BY <2>1, <4>1
    <3> QED
      BY <3>1, <3>2, FS_Subset
  <2>4. count = Cardinality(before)
    BY <1>4
  <2> HIDE DEF before, R, q
  <2>5. CASE J \in RootsCounted
    <3>1. Cardinality(before \cup {J}) = Cardinality(before) + 1
      BY <2>3, FS_AddElement
    <3> QED
      BY <1>1, <1>6, <2>2, <2>4, <2>5, <3>1
  <2>6. CASE J \notin RootsCounted
    BY <1>1, <1>6, <2>2, <2>4, <2>6
  <2> QED
    BY <2>5, <2>6
<1>8. \A p \in Thread : IF seen(p, J + 1) = {} THEN mark'[p] = LastMark(p)
                        ELSE mark'[p] \in {rootseq[k] : k \in seen(p, J + 1)}
  <2>1. \A p \in Thread : seen(p, J + 1) = seen(p, J) \cup (IF p = q THEN {J} ELSE {})
    <3>1. \A k : k \in 1 .. (J + 1) - 1 <=> k \in 1 .. J - 1 \/ k = J
      BY <1>2, SetTypes
    <3> QED
      BY <3>1
  <2>2. \A p \in Thread : mark'[p] = IF p = q THEN R ELSE mark[p]
    BY <1>1, <1>3 DEF SetupInv, TypeOK
  <2> HIDE DEF q, seen
  <2>3. ASSUME NEW p \in Thread
        PROVE  IF seen(p, J + 1) = {} THEN mark'[p] = LastMark(p)
               ELSE mark'[p] \in {rootseq[k] : k \in seen(p, J + 1)}
    <3>1. CASE p = q
      BY <2>1, <2>2, <3>1
    <3>2. CASE p # q
      BY <2>1, <2>2, <1>4, <3>2
    <3> QED
      BY <3>1, <3>2
  <2> QED
    BY <2>3
<1>9. MarkInv'
  BY <1>1, <1>7, <1>8 DEF MarkInv
<1> QED
  BY <1>5, <1>9

LEMMA PostCloseStep ==
  ASSUME SetupInv, PostClose
  PROVE  LinkInv' /\ HeardInv' /\ AggInv' /\ MarkInv' /\ PostInv'
<1>1. /\ phase = "roots" /\ phase' = "done"
      /\ postCounts' = [postCounts EXCEPT ![nfront] = J - 1]
      /\ postFlags' = [postFlags EXCEPT ![nfront] = LockFlag(count)]
      /\ waiting' = waiting /\ aggCounts' = aggCounts /\ aggFlags' = aggFlags
  BY DEF PostClose
<1>2. J - 1 = Cardinality(Roots)
  BY SetTypes DEF PostClose, SetupInv, TypeOK
<1>3. nfront \in PostList /\ nfront \notin Front
  BY TreeAssumption DEF PostList, Front
<1>4. LinkInv' /\ AggInv' /\ HeardInv' /\ MarkInv'
  BY <1>1 DEF SetupInv, LinkInv, AggInv, HeardInv, MarkInv
<1>5. count = Cardinality(RootsCounted)
  <2>1. \A i \in RootsCounted : i < J
    BY <1>2, SetTypes DEF RootsCounted, SetupInv, TypeOK
  <2>2. {i \in RootsCounted : i < J} = RootsCounted
    BY <2>1
  <2> QED
    BY <1>1, <2>2 DEF SetupInv, MarkInv
<1>6. PostCount(nfront) = J - 1 /\ PostFlags[nfront] = LockFlag(count)
  BY <1>2, <1>3, <1>5 DEF PostCount, PostSources, PostFlags, LockFlag
<1>7. \A K \in Front : postCounts[K] = PostCount(K) /\ postFlags[K] = PostFlags[K]
  BY <1>1 DEF SetupInv, PostInv
<1>8. /\ postCounts'[nfront] = PostCount(nfront) /\ postFlags'[nfront] = PostFlags[nfront]
      /\ \A K \in Front : postCounts'[K] = PostCount(K) /\ postFlags'[K] = PostFlags[K]
  BY <1>1, <1>3, <1>6, <1>7 DEF SetupInv, TypeOK, Lists, PostList
<1>9. PostInv'
  BY <1>1, <1>8 DEF PostInv
<1> QED
  BY <1>4, <1>9

LEMMA SetupStep == SetupInv /\ [Next]_vars => SetupInv'
<1> SUFFICES ASSUME SetupInv, [Next]_vars PROVE SetupInv'
  OBVIOUS
<1>1. TypeOK'
  BY TypeStep DEF SetupInv
<1>2. ASSUME UNCHANGED vars PROVE SetupInv'
  BY <1>2 DEF SetupInv, TypeOK, LinkInv, HeardInv, AggInv, MarkInv, PostInv, vars,
              Heard, Taken, Foreign, NextForeign, ReportsBelow
<1> QED
  BY <1>1, <1>2, OpenStep, DrainStep, CloseStep, ReturnStep, PostFrontStep, FrontsDoneStep,
     RootStep, PostCloseStep
  DEF Next, Built, SetupInv

\* At every point of FrontMtx_aggregateList and FrontMtx_postList the links, the marks
\* of the threads, the counts and the flags are those of the fronts visited so far.
THEOREM SetupCorrect == Spec => []SetupInv
BY SetupInit, SetupStep, PTL DEF Spec

-----------------------------------------------------------------------------
\* The link[] array serves every list at once: no front is ever in two.
THEOREM LinkedOnceCorrect == Spec => []LinkedOnce
<1>1. SetupInv => LinkedOnce
  <2> SUFFICES ASSUME SetupInv, NEW K \in Front, NEW L \in Front, NEW I \in waiting[K],
                      I \in waiting[L], K < L
               PROVE  FALSE
    BY DEF LinkedOnce, Front
  <2>1. J \in Int /\ I \in Front /\ bnd[I] \subseteq Int
    BY TreeAssumption DEF SetupInv, TypeOK, Front
  <2>2. phase \in {"open", "drain"} /\ K >= J
    BY <2>1 DEF SetupInv, LinkInv, Front
  <2>3. CASE phase = "open"
    BY <2>1, <2>2, <2>3 DEF SetupInv, LinkInv, NextForeign, Front
  <2>4. CASE phase = "drain" /\ K = J
    BY <2>1, <2>4 DEF SetupInv, LinkInv, Front
  <2>5. CASE phase = "drain" /\ K > J
    BY <2>1, <2>5 DEF SetupInv, LinkInv, NextForeign, Front
  <2> QED
    BY <2>1, <2>2, <2>3, <2>4, <2>5 DEF Front
<1> QED
  BY <1>1, SetupCorrect, PTL

\* FrontMtx_aggregateList computes what FrontTree says: for every front, how
\* many other threads will send it an aggregate, and a lock if several do.
THEOREM AggListCorrect == Spec => []AggListBuilt
<1>1. SetupInv => AggListBuilt
  <2> SUFFICES ASSUME SetupInv, phase \notin {"open", "drain"}
               PROVE  /\ aggCounts = [K \in Front |-> AggCount(K)]
                      /\ aggFlags = AggFlags
    BY DEF AggListBuilt
  <2>1. \A K \in Front : aggCounts[K] = AggCount(K) /\ aggFlags[K] = AggFlags[K]
    BY DEF SetupInv, AggInv, AggFlags, LockFlag
  <2>2. /\ aggCounts \in [Front -> Nat] /\ aggFlags \in [Front -> {"Y", "N"}]
    BY DEF SetupInv, TypeOK, Lists
  <2> QED
    BY <2>1, <2>2 DEF AggFlags
<1> QED
  BY <1>1, SetupCorrect, PTL

\* FrontMtx_postList computes what FrontTree says, the marks left over from
\* the loop over the fronts included.
THEOREM PostListCorrect == Spec => []PostListBuilt
<1>1. SetupInv => PostListBuilt
  <2> SUFFICES ASSUME SetupInv, phase = "done"
               PROVE  /\ postCounts = [L \in PostList |-> PostCount(L)]
                      /\ postFlags = PostFlags
    BY DEF PostListBuilt
  <2>1. \A L \in PostList : postCounts[L] = PostCount(L) /\ postFlags[L] = PostFlags[L]
    BY DEF SetupInv, PostInv, PostList
  <2>2. /\ postCounts \in [PostList -> Nat] /\ postFlags \in [PostList -> {"Y", "N"}]
    BY DEF SetupInv, TypeOK, Lists
  <2> QED
    BY <2>1, <2>2 DEF PostFlags
<1> QED
  BY <1>1, SetupCorrect, PTL
=============================================================================
