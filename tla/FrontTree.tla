----------------------------- MODULE FrontTree -----------------------------
(***************************************************************************)
(* The static data of a multithreaded SPOOLES factorization: the front     *)
(* tree (ETree), the symbolic factorization, the map from fronts to        *)
(* threads, and everything FrontMtx/src/factorUtil.c derives from them     *)
(* before the first front is visited.                                      *)
(*                                                                         *)
(* Fronts are numbered in a postorder, so a parent follows its children.   *)
(* bnd[J] is the set of fronts K # J that own a vertex of the symbolic     *)
(* factorization list of J: the fronts that J updates.                     *)
(***************************************************************************)
EXTENDS Integers, FiniteSets

CONSTANTS nfront,   \* number of fronts
          nthread,  \* number of worker threads
          par,      \* par[J]: the parent of front J, -1 for a root
          bnd,      \* bnd[J]: the fronts that front J updates
          owners,   \* owners[J]: the thread that owns front J
          rootseq   \* the roots in the order of the sib links, which
                    \* ETree_leftJustifyD may have changed

Front  == 0 .. nfront - 1
Thread == 0 .. nthread - 1

Children(J) == {I \in Front : par[I] = J}
Roots       == {J \in Front : par[J] = -1}

\* The proper ancestors of J: the smallest set that contains the parent of
\* J and the parent of each of its members.
Ancestors ==
  [J \in Front |->
     IF par[J] = -1 THEN {}
     ELSE {K \in Front : \A S \in SUBSET Front :
             (par[J] \in S /\ \A M \in S : par[M] # -1 => par[M] \in S)
               => K \in S}]

\* A front updates only its ancestors (the fill of a symbolic factorization
\* stays on the path to the root).
ASSUME TreeAssumption ==
  /\ nfront \in Nat \ {0}
  /\ nthread \in Nat \ {0}
  /\ par \in [Front -> Front \cup {-1}]
  /\ \A J \in Front : par[J] = -1 \/ par[J] > J
  /\ owners \in [Front -> Thread]
  /\ bnd \in [Front -> SUBSET Front]
  /\ \A J \in Front : bnd[J] \subseteq Ancestors[J]
  /\ rootseq \in [1 .. Cardinality(Roots) -> Roots]
  /\ \A R \in Roots : \E i \in 1 .. Cardinality(Roots) : rootseq[i] = R

-----------------------------------------------------------------------------
(* FrontMtx_factorSetup, FrontMtx_setUpDequeue, FrontMtx_loadActiveLeaves  *)
(* and FrontMtx_nactiveChild: what a thread has to do.                     *)

\* The fronts that update front K, and those of them that thread t owns.
Updaters(K)       == {J \in Front : K \in bnd[J]}
OwnUpdaters(t, K) == {J \in Updaters(K) : owners[J] = t}

\* Fronts where a path of thread t may begin: it owns the front or has an
\* update to put into it.
Needed(t) == {J \in Front : owners[J] = t \/ OwnUpdaters(t, J) # {}}

\* The fronts on the active paths of thread t.
Active ==
  [t \in Thread |-> Needed(t) \cup UNION {Ancestors[J] : J \in Needed(t)}]

\* Number of active paths, the capacity of the dequeue: the scan in
\* ascending order counts a front no path has passed through before.
Npath(t) ==
  Cardinality({J \in Needed(t) : \A I \in Needed(t) : J \notin Ancestors[I]})

ActiveLeaves(t) == {J \in Active[t] : Children(J) \cap Active[t] = {}}

\* What FrontMtx_loadActiveLeaves leaves behind for thread t, exactly one
\* dequeue: the leaves in ascending order, as many as there is room for.
LoadedDequeues(t) ==
  LET leaves == ActiveLeaves(t)
      n == IF Npath(t) < Cardinality(leaves) THEN Npath(t) ELSE Cardinality(leaves)
  IN  {d \in [1 .. n -> leaves] :
         \A i \in 1 .. n : {K \in leaves : K < d[i]} = {d[j] : j \in 1 .. i - 1}}

NactiveChild(t, K) == Cardinality(Children(K) \cap Active[t])

-----------------------------------------------------------------------------
(* FrontMtx_aggregateList and FrontMtx_postList: how many objects each     *)
(* list expects, and whether adding to it takes the mutex.                 *)

\* The threads that send an aggregate of their updates to the owner of K.
AggSenders(K) == {owners[J] : J \in Updaters(K)} \ {owners[K]}

AggCount(K) == Cardinality(AggSenders(K))

\* (mutation: no list takes the mutex)
AggFlagsUnlocked == [K \in Front |-> "N"]

AggFlags == [K \in Front |-> IF AggCount(K) > 1 THEN "Y" ELSE "N"]

\* List nfront of the postponed data belongs to the roots.
PostList       == Front \cup {nfront}
PostSources(L) == IF L = nfront THEN Roots ELSE Children(L)
PostTarget(J)  == IF par[J] = -1 THEN nfront ELSE par[J]

PostCount(L) == Cardinality(PostSources(L))

\* What mark[q] holds after the loop over the fronts: the last front with a
\* child that thread q owns.
LastMark(q) ==
  LET parents == {J \in Front : \E I \in Children(J) : owners[I] = q}
  IN  IF parents = {} THEN -1
      ELSE CHOOSE J \in parents : \A M \in parents : M <= J

\* (mutation: no list takes the mutex)
PostFlagsUnlocked == [L \in PostList |-> "N"]

\* The loop over the roots compares mark[owner] with the root itself: it does
\* not count a root whose owner still carries this mark from the first loop.
RootsCounted ==
  {i \in 1 .. Cardinality(Roots) :
     LET R == rootseq[i]
     IN  \/ LastMark(owners[R]) # R
         \/ \E k \in 1 .. i - 1 : owners[rootseq[k]] = owners[R]}

PostFlags ==
  [L \in PostList |->
     LET counted == IF L = nfront THEN RootsCounted
                    ELSE {owners[I] : I \in Children(L)}
     IN  IF Cardinality(counted) > 1 THEN "Y" ELSE "N"]
=============================================================================
