------------------------------ MODULE ListSetup ------------------------------
(***************************************************************************)
(* FrontMtx_aggregateList and FrontMtx_postList (FrontMtx/src/             *)
(* factorUtil.c): the two loops over the fronts that find out, before the  *)
(* workers start, how many chevrons each list expects and whether more     *)
(* than one thread adds to it.  FrontTree states the results as formulas   *)
(* on the tree; this module runs the loops.                                *)
(*                                                                         *)
(* The head[] and link[] arrays keep every finished front in the list of   *)
(* the next front that it updates and its thread does not own: head[K] is  *)
(* abstracted to the set waiting[K].  offsets[] only saves a search, since *)
(* the symbolic factorization lists ascend.                                *)
(***************************************************************************)
EXTENDS FrontTree

VARIABLES phase,    \* the loop that runs
          J,        \* its front; in the loop over the roots a position
          waiting,  \* waiting[K]: the fronts linked to K
          mark,     \* mark[q]: the last front at which thread q was counted
          count,    \* threads counted at the current front
          aggCounts, aggFlags, postCounts, postFlags  \* the results

vars == <<phase, J, waiting, mark, count, aggCounts, aggFlags, postCounts, postFlags>>

NoMark == [q \in Thread |-> -1]

LockFlag(n) == IF n > 1 THEN "Y" ELSE "N"

Init ==
  /\ phase = "open"
  /\ J = 0
  /\ waiting = [K \in Front |-> {}]
  /\ mark = NoMark
  /\ count = 0
  /\ aggCounts = [K \in Front |-> 0]
  /\ aggFlags = [K \in Front |-> "N"]
  /\ postCounts = [L \in PostList |-> 0]
  /\ postFlags = [L \in PostList |-> "N"]

-----------------------------------------------------------------------------
(* FrontMtx_aggregateList                                                  *)

\* K is the first front from lo on that I updates for another thread.
NextForeign(I, lo, K) ==
  LET foreign == {M \in bnd[I] : M >= lo /\ owners[M] # owners[I]}
  IN  K \in foreign /\ \A M \in foreign : K <= M

\* (mutation: I stays in the list of J)
RelinkKept(I) ==
  [K \in Front |-> waiting[K] \cup (IF NextForeign(I, J + 1, K) THEN {I} ELSE {})]

\* Take I out of the list of J and link it to the next front.
Relink(I) ==
  [K \in Front |-> (IF K = J THEN waiting[K] \ {I} ELSE waiting[K])
                     \cup (IF NextForeign(I, J + 1, K) THEN {I} ELSE {})]

\* The thread that owns J sends itself nothing.
AggOpen ==
  /\ phase = "open"
  /\ J < nfront
  /\ mark' = [mark EXCEPT ![owners[J]] = J]
  /\ count' = 0
  /\ phase' = "drain"
  /\ UNCHANGED <<J, waiting, aggCounts, aggFlags, postCounts, postFlags>>

\* (mutation: the thread is not marked, every descendant counts)
AggDrainUnmarked ==
  /\ phase = "drain"
  /\ \E I \in waiting[J] :
       /\ count' = IF mark[owners[I]] = J THEN count ELSE count + 1
       /\ waiting' = Relink(I)
  /\ UNCHANGED <<phase, J, mark, aggCounts, aggFlags, postCounts, postFlags>>

\* A descendant that updates J: expect one aggregate from its thread.
AggDrain ==
  /\ phase = "drain"
  /\ \E I \in waiting[J] :
       /\ count' = IF mark[owners[I]] = J THEN count ELSE count + 1
       /\ mark' = [mark EXCEPT ![owners[I]] = J]
       /\ waiting' = Relink(I)
  /\ UNCHANGED <<phase, J, aggCounts, aggFlags, postCounts, postFlags>>

\* Record the result of J and link J itself to its next front.
AggClose ==
  /\ phase = "drain"
  /\ waiting[J] = {}
  /\ aggCounts' = [aggCounts EXCEPT ![J] = count]
  /\ aggFlags' = [aggFlags EXCEPT ![J] = LockFlag(count)]
  /\ waiting' = Relink(J)
  /\ J' = J + 1
  /\ phase' = "open"
  /\ UNCHANGED <<mark, count, postCounts, postFlags>>

-----------------------------------------------------------------------------
(* FrontMtx_postList, with a mark[] of its own                             *)

AggReturn ==
  /\ phase = "open"
  /\ J = nfront
  /\ phase' = "fronts"
  /\ J' = 0
  /\ mark' = NoMark
  /\ UNCHANGED <<waiting, count, aggCounts, aggFlags, postCounts, postFlags>>

\* (mutation: the loop runs over all lists, the one of the roots included)
PostFrontOverrun ==
  LET threads == {owners[I] : I \in Children(J)}
      counted == Cardinality({q \in threads : mark[q] # J})
  IN  /\ phase = "fronts"
      /\ J <= nfront
      /\ mark' = [q \in Thread |-> IF q \in threads THEN J ELSE mark[q]]
      /\ postCounts' = [postCounts EXCEPT ![J] = Cardinality(Children(J))]
      /\ postFlags' = [postFlags EXCEPT ![J] = LockFlag(counted)]
      /\ J' = J + 1
      /\ UNCHANGED <<phase, waiting, count, aggCounts, aggFlags>>

\* The children of J report to J.
PostFront ==
  LET threads == {owners[I] : I \in Children(J)}
      counted == Cardinality({q \in threads : mark[q] # J})
  IN  /\ phase = "fronts"
      /\ J < nfront
      /\ mark' = [q \in Thread |-> IF q \in threads THEN J ELSE mark[q]]
      /\ postCounts' = [postCounts EXCEPT ![J] = Cardinality(Children(J))]
      /\ postFlags' = [postFlags EXCEPT ![J] = LockFlag(counted)]
      /\ J' = J + 1
      /\ UNCHANGED <<phase, waiting, count, aggCounts, aggFlags>>

PostFrontsDone ==
  /\ phase = "fronts"
  /\ J = nfront
  /\ phase' = "roots"
  /\ J' = 1
  /\ count' = 0
  /\ UNCHANGED <<waiting, mark, aggCounts, aggFlags, postCounts, postFlags>>

\* (mutation: a root does not mark its thread)
PostRootUnmarked ==
  LET R == rootseq[J]
  IN  /\ phase = "roots"
      /\ J <= Cardinality(Roots)
      /\ count' = IF mark[owners[R]] = R THEN count ELSE count + 1
      /\ J' = J + 1
      /\ UNCHANGED <<phase, waiting, mark, aggCounts, aggFlags, postCounts, postFlags>>

\* The roots report to list nfront.
PostRoot ==
  LET R == rootseq[J]
  IN  /\ phase = "roots"
      /\ J <= Cardinality(Roots)
      /\ count' = IF mark[owners[R]] = R THEN count ELSE count + 1
      /\ mark' = [mark EXCEPT ![owners[R]] = R]
      /\ J' = J + 1
      /\ UNCHANGED <<phase, waiting, aggCounts, aggFlags, postCounts, postFlags>>

PostClose ==
  /\ phase = "roots"
  /\ J > Cardinality(Roots)
  /\ postCounts' = [postCounts EXCEPT ![nfront] = J - 1]
  /\ postFlags' = [postFlags EXCEPT ![nfront] = LockFlag(count)]
  /\ phase' = "done"
  /\ UNCHANGED <<J, waiting, mark, count, aggCounts, aggFlags>>

\* Both lists have been built.
Built == phase = "done" /\ UNCHANGED vars

Next ==
  \/ AggOpen \/ AggDrain \/ AggClose \/ AggReturn
  \/ PostFront \/ PostFrontsDone \/ PostRoot \/ PostClose
  \/ Built

Spec == Init /\ [][Next]_vars

-----------------------------------------------------------------------------
(* Properties                                                              *)

Lists == [aggCounts  : [Front -> Nat], aggFlags  : [Front -> {"Y", "N"}],
          postCounts : [PostList -> Nat], postFlags : [PostList -> {"Y", "N"}]]

\* Every variable has the type its declaration in the code gives it, and the
\* loop over the fronts stays within the arrays.
TypeOK ==
  /\ phase \in {"open", "drain", "fronts", "roots", "done"}
  /\ J \in Nat
  /\ phase \in {"open", "fronts"} => J <= nfront
  /\ phase = "drain" => J < nfront
  /\ phase = "roots" => J \in 1 .. Cardinality(Roots) + 1
  /\ waiting \in [Front -> SUBSET Front]
  /\ mark \in [Thread -> Front \cup {-1}]
  /\ count \in Nat
  /\ [aggCounts |-> aggCounts, aggFlags |-> aggFlags,
      postCounts |-> postCounts, postFlags |-> postFlags] \in Lists

\* A front is in the list of one front at most: link[] has one place for it.
LinkedOnce == \A K \in Front : \A L \in Front : waiting[K] \cap waiting[L] # {} => K = L

\* The loops of FrontMtx_aggregateList compute, for every front, the number
\* of other threads that update it, and lock its list if there are several.
AggListBuilt ==
  phase \notin {"open", "drain"} =>
    /\ aggCounts = [K \in Front |-> AggCount(K)]
    /\ aggFlags = AggFlags

\* The loops of FrontMtx_postList compute the number of children of every
\* front and of roots, and the flags as PostFlags describes them.
PostListBuilt ==
  phase = "done" =>
    /\ postCounts = [L \in PostList |-> PostCount(L)]
    /\ postFlags = PostFlags

-----------------------------------------------------------------------------
(* The strengthening the proofs use                                        *)

Foreign(I) == {M \in bnd[I] : owners[M] # owners[I]}

\* The fronts of other threads that update J and have been taken out of its
\* list, and the threads they belong to.
Taken == {I \in Front : I < J /\ J \in Foreign(I) /\ I \notin waiting[J]}
Heard == {owners[I] : I \in Taken}

\* Every finished front is linked to the first front after J that it updates
\* for another thread, or still to J.
LinkInv ==
  /\ phase \in {"open", "drain"} => \A K \in Front : K < J => waiting[K] = {}
  /\ phase = "open" =>
       \A K \in Front : K >= J => waiting[K] = {I \in Front : I < J /\ NextForeign(I, J, K)}
  /\ phase = "drain" =>
       /\ waiting[J] \subseteq {I \in Front : I < J /\ J \in Foreign(I)}
       /\ \A K \in Front : K > J =>
            waiting[K] = {I \in Front \ waiting[J] : I < J /\ NextForeign(I, J + 1, K)}
  /\ phase \notin {"open", "drain"} => \A K \in Front : waiting[K] = {}

\* count and mark[] stand for the threads heard of at front J.
HeardInv ==
  /\ phase = "open" => \A q \in Thread : mark[q] < J
  /\ phase = "drain" =>
       /\ count = Cardinality(Heard)
       /\ \A q \in Thread : /\ mark[q] <= J
                            /\ mark[q] = J <=> q = owners[J] \/ q \in Heard

AggInv ==
  \A K \in Front : phase \notin {"open", "drain"} \/ K < J =>
    aggCounts[K] = AggCount(K) /\ aggFlags[K] = LockFlag(AggCount(K))

\* The fronts before n to which a front of thread q reports.
ReportsBelow(q, n) == {M \in Front : M < n /\ \E I \in Children(M) : owners[I] = q}

\* mark[] is the last front that a thread reports to, until a root of the
\* thread takes its place.
MarkInv ==
  /\ phase = "fronts" => \A q \in Thread :
       /\ IF mark[q] = -1 THEN ReportsBelow(q, J) = {} ELSE mark[q] \in ReportsBelow(q, J)
       /\ \A M \in ReportsBelow(q, J) : M <= mark[q]
  /\ phase = "roots" =>
       /\ \A q \in Thread :
            LET seen == {k \in 1 .. J - 1 : owners[rootseq[k]] = q}
            IN  IF seen = {} THEN mark[q] = LastMark(q)
                ELSE mark[q] \in {rootseq[k] : k \in seen}
       /\ count = Cardinality({i \in RootsCounted : i < J})

PostInv ==
  /\ \A K \in Front : phase \in {"roots", "done"} \/ (phase = "fronts" /\ K < J) =>
       postCounts[K] = PostCount(K) /\ postFlags[K] = PostFlags[K]
  /\ phase = "done" =>
       postCounts[nfront] = PostCount(nfront) /\ postFlags[nfront] = PostFlags[nfront]

\* The inductive invariant.
SetupInv == TypeOK /\ LinkInv /\ HeardInv /\ AggInv /\ MarkInv /\ PostInv
=============================================================================
