----------------------------- MODULE SolveTree -----------------------------
(***************************************************************************)
(* The static data of a multithreaded solve: the front tree and the map    *)
(* from fronts to threads of FrontTree, the blocks of the factor that      *)
(* FrontMtx_postProcess keeps (bnd[J] is the set of fronts K with a block  *)
(* U(J,K)), the map from blocks to threads (SolveMap), and what the set-up *)
(* of the two solves derives from them.                                    *)
(***************************************************************************)
EXTENDS FrontTree, Sequences

CONSTANTS empty,     \* the fronts all of whose columns were postponed: nJ = 0
          mapUpper,  \* mapUpper[J][K]: the thread that owns block U(J,K)
          mapLower   \* mapLower[K][J]: the thread that owns block L(K,J), or
                     \* U(J,K) again when the matrix is symmetric

\* No block belongs to a front without columns.
ASSUME SolveAssumption ==
  /\ empty \subseteq Front
  /\ \A J \in Front : bnd[J] \cap empty = {} /\ (J \in empty => bnd[J] = {})
  /\ mapUpper \in [Front -> [Front -> Thread]]
  /\ mapLower \in [Front -> [Front -> Thread]]

Nonempty == Front \ empty

\* The two solves with update lists; "forward" climbs the tree.
Solve == {"forward", "backward"}

\* The fronts whose solution enters the one of front J.
Sources(s, J) == IF s = "forward" THEN Updaters(J) ELSE bnd[J]

BlockOwner(s, J, I) == IF s = "forward" THEN mapLower[J][I] ELSE mapUpper[J][I]

\* SolveMap_forwardSetup and SolveMap_backwardSetup: what thread t has to
\* add to front J.
OwnSources(s, t, J) == {I \in Sources(s, J) : BlockOwner(s, J, I) = t}

\* The threads that send an aggregate to the owner of front J.
Senders(s, J) == {BlockOwner(s, J, I) : I \in Sources(s, J)} \ {owners[J]}

\* (mutation: the owner is counted too)
SenderCountWithOwner(s, J) == Cardinality(Senders(s, J)) + 1

\* SolveMap_lowerAggregateIV and SolveMap_upperAggregateIV.
SenderCount(s, J) == Cardinality(Senders(s, J))

\* (mutation: no list takes the mutex)
SolveFlagsUnlocked(s) == [J \in Front |-> "N"]

\* setupListObjects fills the flags of both list objects in one vector and
\* does not clear it in between.
SolveFlags(s) ==
  [J \in Front |->
     IF \/ SenderCount("forward", J) > 1
        \/ s = "backward" /\ SenderCount("backward", J) > 1
     THEN "Y" ELSE "N"]

-----------------------------------------------------------------------------
(* FrontMtx_setUpDequeue with the lists of a solve as heads                *)

StartOfPath(s, t) == {J \in Front : owners[J] = t \/ OwnSources(s, t, J) # {}}

\* The fronts thread t has to visit.
OnPath ==
  [s \in Solve |-> [t \in Thread |->
     StartOfPath(s, t) \cup UNION {Ancestors[J] : J \in StartOfPath(s, t)}]]

\* The capacity of the dequeue of thread t.
Capacity ==
  [s \in Solve |-> [t \in Thread |->
     Cardinality({J \in StartOfPath(s, t) :
                    \A I \in StartOfPath(s, t) : J \notin Ancestors[I]})]]

\* As many of the fronts of q as there is room for.
Fitting(q, room) == IF Len(q) <= room THEN q ELSE SubSeq(q, 1, room)

Leaves(t) ==
  {J \in OnPath["forward"][t] : Children(J) \cap OnPath["forward"][t] = {}}

ActiveRoots(t) == Roots \cap OnPath["backward"][t]

\* The fronts of S in the order of their ranks, as many as there is room for.
Loaded(S, rank, room) ==
  LET n == IF room < Cardinality(S) THEN room ELSE Cardinality(S)
  IN  {d \in [1 .. n -> S] :
         \A i \in 1 .. n : {K \in S : rank[K] < rank[d[i]]} = {d[j] : j \in 1 .. i - 1}}

\* FrontMtx_loadActiveLeaves, in ascending order (exactly one dequeue).
LoadedLeaves(t) == Loaded(Leaves(t), [J \in Front |-> J], Capacity["forward"][t])

\* FrontMtx_loadActiveRoots, in the order of the sib links.
PlaceOfRoot == [R \in Roots |-> CHOOSE i \in 1 .. Cardinality(Roots) : rootseq[i] = R]
LoadedRoots(t) == Loaded(ActiveRoots(t), PlaceOfRoot, Capacity["backward"][t])

ChildrenOnPath(t, K) == Cardinality(Children(K) \cap OnPath["forward"][t])
=============================================================================
