---------------------------- MODULE SolveMTInv ----------------------------
(***************************************************************************)
(* The inductive invariants from which the properties of SolveMT are       *)
(* proved: the barriers and what a reader sees (ReadInv), the dequeues     *)
(* (PathInv), what a thread has in hand and the life of a front's matrix   *)
(* (TypesInv), the counts of the two list objects (CountedInv) and the way *)
(* of a contribution (UpdatedInv).  Each includes the one before.          *)
(***************************************************************************)
EXTENDS SolveMT

Phase == {"forward", "diagonal", "backward", "store"}
Loop  == {"forward", "diagonal", "backward"}

\* Inside a visit that has something to do for a front with columns; in the
\* loop of a solve; in the diagonal loop.
VisitLabels ==
  {"update", "apply", "link", "store", "decrement", "poll1", "load1", "clear1",
   "count", "poll2", "load2", "clear2", "solve", "signal"}
SolveLabels    == VisitLabels \cup {"pop", "visit", "return"}
MoveLabels     == {"diagonalMove", "diagonalSignal", "diagonalReset"}
DiagonalLabels == MoveLabels \cup {"diagonal"}

LabelsFit ==
  \A t \in Thread :
    /\ phase[t] \in Solve => pc[t] \in SolveLabels \cup {"barrier"}
    /\ phase[t] = "diagonal" => pc[t] \in DiagonalLabels \cup {"barrier"}
    /\ phase[t] = "store" => pc[t] \in {"copy", "done"}

\* The phases that follow loop p.
Later(p) ==
  IF p = "forward" THEN {"diagonal", "backward", "store"}
  ELSE IF p = "diagonal" THEN {"backward", "store"} ELSE {"store"}

\* A thread that has signalled the end of a loop is at its barrier or behind
\* it, and a thread is behind it only when all have signalled: two threads
\* are never separated by two barriers.
BarriersHold ==
  \A p \in Loop : \A t \in Thread :
    /\ isDone[p][t] => phase[t] \in Later(p) \/ (phase[t] = p /\ pc[t] = "barrier")
    /\ phase[t] \in Later(p) => AllDone(p)

BarrierInv ==
  /\ pc \in [Thread -> Labels]
  /\ phase \in [Thread -> Phase]
  /\ isDone \in [Loop -> [Thread -> BOOLEAN]]
  /\ LabelsFit
  /\ BarriersHold

\* What a thread works on: visits and sources are fronts with columns, the
\* diagonal solve keeps to the thread's own fronts.
WorkOf(t) ==
  /\ pc[t] \in VisitLabels => cur[t] \in Nonempty
  /\ pc[t] \in {"update", "apply"} => todo[t] \subseteq Nonempty
  /\ pc[t] = "apply" => src[t] \in Nonempty
  /\ phase[t] = "diagonal" => todo[t] \subseteq OwnedFronts(t)
  /\ pc[t] \in MoveLabels => cur[t] \in OwnedFronts(t)

WorkFits ==
  /\ DOMAIN cur = Thread /\ DOMAIN src = Thread
  /\ todo \in [Thread -> SUBSET Front]
  /\ heads \in [Thread -> [Front -> SUBSET Nonempty]]
  /\ \A t \in Thread : WorkOf(t)

\* A matrix has its two fields.
MatrixFields == {"stage", "upd"}
MatricesFit ==
  /\ DOMAIN pMtx = Front /\ DOMAIN pAgg = Thread
  /\ frontIsDone \in [Front -> BOOLEAN]
  /\ \A J \in Front : DOMAIN pMtx[J] = MatrixFields
  /\ \A t \in Thread :
       DOMAIN pAgg[t] = Front /\ \A J \in Front : DOMAIN pAgg[t][J] = MatrixFields

SolutionOf(t) == IF phase[t] = "forward" THEN "y" ELSE "x"

SignalsFinished ==
  \A t \in Thread : pc[t] = "signal" => pMtx[cur[t]].stage = SolutionOf(t)

\* What frontIsDone says in each phase.  Between the two solves it belongs to
\* the owner, who has taken it back when it signals the end of the loop.
DoneMeans(J) ==
  /\ (\A u \in Thread : phase[u] = "forward") => pMtx[J].stage = "y"
  /\ AllDone("diagonal") /\ (\A u \in Thread : phase[u] # "store") =>
       pMtx[J].stage = "x"
  /\ ~AllDone("diagonal") /\ phase[owners[J]] # "forward" =>
       /\ ~isDone["diagonal"][owners[J]]
       /\ J \in todo[owners[J]] \/ (pc[owners[J]] \in MoveLabels /\ cur[owners[J]] = J)

DoneIsFinished == \A J \in Nonempty : frontIsDone[J] => DoneMeans(J)

PublishInv ==
  WorkFits /\ MatricesFit /\ SignalsFinished /\ DoneIsFinished /\ ReadersSeeFinished

ReadInv == BarrierInv /\ PublishInv

-----------------------------------------------------------------------------
(* The dequeue of a thread                                                 *)

PathTypes ==
  /\ cur \in [Thread -> Front]
  /\ src \in [Thread -> Front]
  /\ status \in [Thread -> [Front -> {"W", "F"}]]
  /\ nactiveChild \in [Thread -> [Front -> Int]]
  /\ deq \in [Thread -> Seq(Front)]

InDeq(t, J) == \E i \in 1 .. Len(deq[t]) : deq[t][i] = J
Taken(t, J) == CheckedOut(t) /\ cur[t] = J

\* What a visit of J has to wait for.
Pending(t, J) == {I \in Before(t, J) : status[t][I] = "W" \/ Taken(t, I)}

Room(t)  == Len(deq[t]) + (IF CheckedOut(t) THEN 1 ELSE 0) <= Capacity[phase[t]][t]
NoneTwice(t) == \A i, j \in 1 .. Len(deq[t]) : deq[t][i] = deq[t][j] => i = j

\* A front has its turn when those before it are done, and not earlier.
InTurn(t, J) ==
  /\ status[t][J] = "W" => J \in OnPath[phase[t]][t]
  /\ InDeq(t, J) => status[t][J] = "W" /\ ~Taken(t, J)
  /\ InDeq(t, J) \/ Taken(t, J) => J \in OnPath[phase[t]][t] /\ Pending(t, J) = {}
  /\ J \in OnPath[phase[t]][t] /\ Pending(t, J) # {} => status[t][J] = "W"
  /\ status[t][J] = "W" => InDeq(t, J) \/ Taken(t, J) \/ Pending(t, J) # {}
  /\ phase[t] = "forward" => nactiveChild[t][J] = Cardinality(Pending(t, J))

\* A thread that leaves the loop of a solve has finished everything.
LoopDone(t) == phase[t] \notin Solve \/ pc[t] = "barrier"

DequeOf(t) ==
  /\ phase[t] \in Solve => Room(t) /\ NoneTwice(t) /\ \A J \in Front : InTurn(t, J)
  /\ LoopDone(t) => \A J \in Front : status[t][J] = "F"

DequeInv == \A t \in Thread : DequeOf(t)

\* The barriers, the readers and the dequeues together.
PathInv == ReadInv /\ PathTypes /\ DequeInv

-----------------------------------------------------------------------------
(* The life of a front's matrix                                            *)

\* The visit of a thread's own front, and the sending of an aggregate.
CountedLabels == {"poll2", "load2", "clear2"}
SolvedLabels  == {"solve", "signal"}
OwnedLabels   == {"poll1", "load1", "clear1", "count"} \cup CountedLabels \cup SolvedLabels
SendLabels    == {"link", "store", "decrement"}

\* A thread visits what it has not finished; it solves its own fronts, and
\* sends for others only when it has something to add.
VisitOf(t) ==
  /\ pc[t] \in VisitLabels \cup {"visit"} => status[t][cur[t]] = "W"
  /\ pc[t] \in OwnedLabels => Owned(t)
  /\ pc[t] \in SendLabels => ~Owned(t)
  /\ pc[t] \in VisitLabels /\ ~Owned(t) => t \in Senders(phase[t], cur[t])

\* The contributions to J that thread t has in hand or has left for later.
InHand(t, J) ==
  heads[t][J] \cup
    (IF Gathering(t, J) THEN todo[t] \cup (IF pc[t] = "apply" THEN {src[t]} ELSE {}) ELSE {})

\* A contribution is in one of three places before it is added.
InHandOnce(t) ==
  /\ phase[t] \in Solve => \A J \in Front : InHand(t, J) \subseteq OwnSources(phase[t], t, J)
  /\ pc[t] \in {"update", "apply"} => todo[t] \cap heads[t][cur[t]] = {}
  /\ pc[t] = "apply" => src[t] \notin todo[t] \cup heads[t][cur[t]]

\* What is left of the loops over a thread's own fronts.
LeftOf(t) ==
  /\ phase[t] = "diagonal" /\ pc[t] = "barrier" => todo[t] = {}
  /\ phase[t] = "store" => todo[t] \subseteq OwnedFronts(t)
  /\ pc[t] \in MoveLabels => cur[t] \notin todo[t]

Published(J) ==
  LET q == owners[J]
  IN  status[q][J] = "F" \/ (pc[q] = "signal" /\ cur[q] = J)

\* The stage of the published matrix of front J, "none" while the owner
\* holds it.
StageOf(J) ==
  LET q == owners[J]
  IN  IF phase[q] = "forward" THEN IF Published(J) THEN "y" ELSE "none"
      ELSE IF phase[q] = "diagonal"
           THEN IF J \in todo[q] THEN "y"
                ELSE IF pc[q] = "diagonalMove" /\ cur[q] = J THEN "z" ELSE "none"
      ELSE IF phase[q] = "backward" THEN IF Published(J) THEN "x" ELSE "none"
      ELSE IF J \in todo[q] THEN "x" ELSE "released"

HeldStage(J) == IF phase[owners[J]] = "forward" THEN "rhs" ELSE "z"

OwnedMatrix(J) ==
  IF StageOf(J) = "none"
  THEN pMtx[J] = NoMtx /\ pAgg[owners[J]][J].stage = HeldStage(J)
  ELSE pMtx[J].stage = StageOf(J) /\ pAgg[owners[J]][J] = NoMtx

\* An aggregate for another thread's front exists while the front waits for
\* this thread's contributions.
Aggregating(t, J) ==
  \/ pAgg[t][J] = NoMtx /\ ~(pc[t] \in VisitLabels /\ cur[t] = J)
  \/ /\ pAgg[t][J].stage = "zero"
     /\ phase[t] \in Solve /\ status[t][J] = "W"
     /\ heads[t][J] # {} \/ (pc[t] \in VisitLabels /\ cur[t] = J)

HandOf(t) == VisitOf(t) /\ InHandOnce(t) /\ LeftOf(t)

HandInv == \A t \in Thread : HandOf(t)

MatrixLife ==
  /\ \A J \in Nonempty : OwnedMatrix(J)
  /\ \A J \in Nonempty : \A t \in Thread \ {owners[J]} : Aggregating(t, J)
  /\ \A J \in empty : pMtx[J] = NoMtx /\ \A t \in Thread : pAgg[t][J] = NoMtx

\* What a matrix holds.
MtxTypes ==
  /\ pMtx \in [Front -> Mtx]
  /\ pAgg \in [Thread -> [Front -> Mtx]]
  /\ sol \in [Front -> Mtx]

-----------------------------------------------------------------------------
(* The counts of the two list objects                                      *)

\* Solve s has not begun for thread t; it has ended for thread t.
NotBegun(s, t) == s = "backward" /\ phase[t] \in {"forward", "diagonal"}
Ended(s, t)    == phase[t] \in Later(s)

\* Thread t still has to send for front J in solve s.
ToSend(s, t, J) == NotBegun(s, t) \/ (phase[t] = s /\ status[t][J] = "W")

InCounts(s) == IF s = "forward" THEN forwCounts ELSE backCounts
InLock(s)   == IF s = "forward" THEN forwLock ELSE backLock

\* The types of the lists, and of all variables.
ListTypes ==
  /\ \A s \in Solve : /\ InList(s) \in [Front -> SUBSET Aggregate]
                      /\ InCounts(s) \in [Front -> Int]
                      /\ InLock(s) \in Thread \cup {-1}
  /\ reg \in [Thread -> SUBSET Aggregate]
  /\ creg \in [Thread -> Int]

TypesInv ==
  PathInv /\ HandInv /\ MatrixLife /\ MtxTypes /\ ListTypes /\ joined \in BOOLEAN

SendsOnce(t, J) ==
  /\ phase[t] \in Solve /\ t \in Senders(phase[t], J) /\ status[t][J] = "W" =>
       heads[t][J] # {} \/ (pc[t] \in VisitLabels /\ cur[t] = J)
  /\ pc[t] \in SendLabels => heads[t][cur[t]] = {}

\* Between its load and its store of a count a thread excludes the others:
\* it has the mutex, or it is the only sender.
Exclusive(t) ==
  /\ pc[t] \in {"store", "decrement"} /\ SolveFlags(phase[t])[cur[t]] = "Y"
       => InLock(phase[t]) = t
  /\ pc[t] = "decrement" => creg[t] = InCounts(phase[t])[cur[t]]

CountsOf(s, J) == InCounts(s)[J] = Cardinality({t \in Senders(s, J) : ToSend(s, t, J)})

CountInv ==
  /\ \A t \in Thread : Exclusive(t) /\ \A J \in Front : SendsOnce(t, J)
  /\ \A s \in Solve : \A J \in Front : CountsOf(s, J)

\* The types and the counts together.
CountedInv == TypesInv /\ CountInv

-----------------------------------------------------------------------------
(* The way of a contribution                                               *)

FinalStage(s) == IF s = "forward" THEN "y" ELSE "x"
From(S, st) == {<<I, st>> : I \in S}

\* Those it still has to add to front J in solve s.
Waits(s, t, J) ==
  IF NotBegun(s, t) THEN OwnSources(s, t, J)
  ELSE IF phase[t] = s THEN InHand(t, J) ELSE {}

\* All own contributions have been added to a front that is finished.
AllMade(t) ==
  phase[t] \in Solve =>
    \A J \in Front :
      status[t][J] = "F" \/ (pc[t] \in SendLabels \cup SolvedLabels /\ cur[t] = J)
        => heads[t][J] = {}

\* Front I is solved in solve s, or solve s is over for it.
Solved(s, I) ==
  Ended(s, owners[I]) \/ (phase[owners[I]] = s /\ Published(I))

UsedIsSolved ==
  \A s \in Solve : \A J \in Front : \A I \in Sources(s, J) :
    I \notin Waits(s, BlockOwner(s, J, I), J) => Solved(s, I)

\* Thread u has put its aggregate for J into the list.
Sent(s, u, J) == Ended(s, u) \/ (phase[u] = s /\ (status[u][J] = "F" \/ HandedOver(u, J)))

ListedOf(s, J) ==
  \A c \in InList(s)[J] :
    /\ c.from \in Senders(s, J) /\ Sent(s, c.from, J)
    /\ c.cols = From(OwnSources(s, c.from, J), FinalStage(s))

Loads(t) ==
  /\ pc[t] = "store" => reg[t] = InList(phase[t])[cur[t]]
  /\ pc[t] \in {"clear1", "clear2"} =>
       reg[t] = InList(phase[t])[cur[t]] /\ reg[t] # {}
  /\ pc[t] \in {"load1", "load2"} => InList(phase[t])[cur[t]] # {}

\* A list is taken with the mutex, unless nobody adds to it any more.
TakeExclusive(t) ==
  /\ pc[t] \in {"clear1", "clear2"} /\ SolveFlags(phase[t])[cur[t]] = "Y"
  /\ \E u \in Senders(phase[t], cur[t]) : ToSend(phase[t], u, cur[t])
  => InLock(phase[t]) = t

\* The senders whose aggregate the owner of J has assembled.
Arrived(s, J) ==
  {u \in Senders(s, J) : Sent(s, u, J) /\ \A c \in InList(s)[J] : c.from # u}

AggregateOf(t, J) ==
  phase[t] \in Solve =>
    pAgg[t][J].upd =
      IF status[t][J] = "F" THEN {}
      ELSE From(OwnSources(phase[t], t, J) \ InHand(t, J), FinalStage(phase[t]))

Gathered(s, J) ==
  LET q == owners[J]
  IN  /\ NotBegun(s, q) => Arrived(s, J) = {}
      /\ phase[q] = s /\ ~Published(J) =>
           pAgg[q][J].upd =
             From((OwnSources(s, q, J) \ InHand(q, J))
                    \cup UNION {OwnSources(s, u, J) : u \in Arrived(s, J)},
                  FinalStage(s))

\* Solved by the diagonal block, a matrix holds no contributions.
DiagonalOf(J) ==
  phase[owners[J]] = "diagonal" /\ J \notin todo[owners[J]] =>
    pAgg[owners[J]][J].upd = {} /\ pMtx[J].upd = {}

AllSent(s, J) == \A u \in Senders(s, J) : ~ToSend(s, u, J)

NothingToCome(t) ==
  /\ pc[t] \in CountedLabels \cup SolvedLabels => AllSent(phase[t], cur[t])
  /\ pc[t] \in SolvedLabels => InList(phase[t])[cur[t]] = {}

Complete(s, J) ==
  phase[owners[J]] = s /\ Published(J) =>
    /\ AllSent(s, J) /\ InList(s)[J] = {}
    /\ pMtx[J].upd = From(Sources(s, J), FinalStage(s))

UpdateInv ==
  /\ \A t \in Thread :
       AllMade(t) /\ Loads(t) /\ TakeExclusive(t) /\ NothingToCome(t)
  /\ UsedIsSolved
  /\ \A s \in Solve : \A J \in Front : ListedOf(s, J)
  /\ \A J \in Nonempty : \A t \in Thread \ {owners[J]} : AggregateOf(t, J)
  /\ \A s \in Solve : \A J \in Nonempty : Gathered(s, J) /\ Complete(s, J)
  /\ \A J \in Nonempty : DiagonalOf(J)

\* The inductive invariant: the types, the counts and the contributions.
UpdatedInv == CountedInv /\ UpdateInv
=============================================================================
