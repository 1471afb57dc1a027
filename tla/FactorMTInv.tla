---------------------------- MODULE FactorMTInv ----------------------------
(***************************************************************************)
(* Why the counts of the two list objects of FactorMT are exact, and why   *)
(* no front is stored twice: the inductive invariants from which both are  *)
(* proved.                                                                 *)
(***************************************************************************)
EXTENDS FactorMT

\* Where a thread is inside the branch of the visit for its own fronts, and
\* where it sends an aggregate.
OwnedLabels ==
  {"poll1", "load1", "clear1", "aggCount", "poll2", "load2", "clear2",
   "postPoll", "postLoad", "postClear", "factor",
   "postLink", "postStore", "postNothing", "postDecrement"}
SendLabels == {"aggLink", "aggStore", "aggDecrement"}

VisitsOwnFront ==
  \A t \in Thread : pc[t] \in OwnedLabels => owners[cur[t]] = t

\* A thread that has anything to send for front J either still has updates
\* to make or is sending now; it sends once.
SendsOnce ==
  \A t \in Thread :
    /\ \A J \in Front : updates[t][J] \subseteq OwnUpdaters(t, J)
    /\ \A J \in Front : t \in AggSenders(J) /\ status[t][J] # "F" =>
         updates[t][J] # {} \/ (pc[t] \in SendLabels /\ cur[t] = J)
    /\ pc[t] \in SendLabels =>
         t \in AggSenders(cur[t]) /\ status[t][cur[t]] # "F"

\* Between its load and its store of a count a thread excludes the others:
\* it has the mutex, or it is the only sender.
AggExclusive ==
  \A t \in Thread :
    /\ pc[t] \in {"aggStore", "aggDecrement"} /\ AggFlags[cur[t]] = "Y" => aggLock = t
    /\ pc[t] = "aggDecrement" => creg[t] = aggCounts[cur[t]]

AggCountInv == VisitsOwnFront /\ SendsOnce /\ AggExclusive /\ AggCountsAreExact

\* A front that is being visited by its owner has not been finished: it is
\* factored, and reports to its parent, once.
ReportsOnce ==
  \A t \in Thread : pc[t] \in OwnedLabels => status[t][cur[t]] # "F"

PostExclusive ==
  \A t \in Thread :
    /\ pc[t] \in {"postStore", "postDecrement"} /\ PostFlags[PostTarget(cur[t])] = "Y"
         => postLock = t
    /\ pc[t] = "postDecrement" => creg[t] = postCounts[PostTarget(cur[t])]

PostCountInv == VisitsOwnFront /\ ReportsOnce /\ PostExclusive /\ PostCountsAreExact

\* The roots' list takes the mutex when roots have different owners: what
\* FrontMtx_postList means to ensure.
RootsLocked ==
  PostFlags[nfront] = "Y" \/ \A I, J \in Roots : owners[I] = owners[J]

\* A stored front is finished, or its owner is reporting to the parent.
ReportLabels == {"postLink", "postStore", "postNothing", "postDecrement"}

StoredIsFinished ==
  \A J \in Front : stored[J] # NotStored =>
    \/ status[owners[J]][J] = "F"
    \/ pc[owners[J]] \in ReportLabels /\ cur[owners[J]] = J

StoreInv == VisitsOwnFront /\ ReportsOnce /\ StoredIsFinished

\* What every step of a worker maintains: the strengthening from which the
\* exact counts and the single store are proved.
CountInv == AggCountInv /\ StoreInv /\ (RootsLocked => PostCountInv)
-----------------------------------------------------------------------------
(* The dequeue of a thread                                                 *)

InDeq(t, J) == \E i \in 1 .. Len(deq[t]) : deq[t][i] = J
Taken(t, J) == CheckedOut(t) /\ cur[t] = J

\* The children of K that the paths of t have not yet passed.
Pending(t, K) ==
  {I \in Children(K) \cap Active[t] : status[t][I] # "F" \/ Taken(t, I)}

\* Every visit frees the place its front or its parent is put into.
Room == \A t \in Thread : Len(deq[t]) + (IF CheckedOut(t) THEN 1 ELSE 0) <= Npath(t)

NoneTwice ==
  \A t \in Thread : \A i, j \in 1 .. Len(deq[t]) : deq[t][i] = deq[t][j] => i = j

\* A front has its turn when its children are done, and not before.
InTurn ==
  \A t \in Thread, J \in Front :
    /\ status[t][J] # "F" => J \in Active[t]
    /\ InDeq(t, J) => status[t][J] \in {"W", "A"} /\ ~Taken(t, J)
    /\ InDeq(t, J) \/ Taken(t, J) => J \in Active[t] /\ Pending(t, J) = {}
    /\ J \in Active[t] /\ Pending(t, J) # {} => status[t][J] = "W"
    /\ status[t][J] \in {"W", "A"} => InDeq(t, J) \/ Taken(t, J) \/ Pending(t, J) # {}
    /\ status[t][J] = "E" => Taken(t, J) \/ (pc[t] = "done" /\ perror # -1)
    /\ nactiveChild[t][J] = Cardinality(Pending(t, J))

\* A thread that leaves its loop has finished everything, or knows of a
\* singular front.
LeavesDone ==
  \A t \in Thread : pc[t] = "done" => perror # -1 \/ \A J \in Front : status[t][J] = "F"

DequeInv == Room /\ NoneTwice /\ InTurn /\ LeavesDone

-----------------------------------------------------------------------------
(* The way of an update                                                    *)

\* Without pivoting, a second visit would factor a singular front again.
NoRevisit == Pivoting \/ lookahead = 0

\* A singular front is not visited again.
SingularIsLast ==
  \A t \in Thread :
    /\ lookahead = 0 => ahead[t] = 0
    /\ \A J \in Front : status[t][J] = "E" =>
         /\ ~Pivoting /\ owners[J] = t /\ cur[t] = J
         /\ pc[t] \in {"endVisit", "return", "done"}

\* Labels that a thread reaches only after all its own updates to the front,
\* after reading that no aggregate is to come, and after taking the last.
CountedLabels   == {"poll2", "load2", "clear2"}
GatheredLabels  == {"postPoll", "postLoad", "postClear", "factor"} \cup ReportLabels

OwnUpdatesMade ==
  \A t \in Thread, J \in Front :
    status[t][J] = "F" \/ (pc[t] \in SendLabels \cup GatheredLabels /\ cur[t] = J)
      => updates[t][J] = {}

\* A front that is finished has been stored, and so has a front whose update
\* has been made.
StoredBefore ==
  /\ \A J \in Front :
       status[owners[J]][J] = "F" \/ (pc[owners[J]] \in ReportLabels /\ cur[owners[J]] = J)
         => stored[J] # NotStored
  /\ \A J \in Front : \A I \in Updaters(J) :
       I \notin updates[owners[I]][J] => stored[I] # NotStored

\* What a list of aggregates holds, and what a thread has loaded from it.
Listed ==
  /\ \A J \in Front : \A c \in aggHeads[J] :
       c.from \in AggSenders(J) /\ c.cols = OwnUpdaters(c.from, J) /\ HandedOver(c.from, J)
  /\ \A t \in Thread :
       /\ pc[t] = "aggStore" => reg[t] = aggHeads[cur[t]]
       /\ pc[t] \in {"clear1", "clear2"} => reg[t] = aggHeads[cur[t]] /\ reg[t] # {}
       /\ pc[t] \in {"load1", "load2"} => aggHeads[cur[t]] # {}

\* A list is taken with the mutex, unless nobody adds to it any more.
TakeExclusive ==
  \A t \in Thread :
    /\ pc[t] \in {"clear1", "clear2"} /\ AggFlags[cur[t]] = "Y"
    /\ \E u \in AggSenders(cur[t]) : status[u][cur[t]] # "F"
    => aggLock = t

\* The senders whose aggregate the owner of J has assembled.
Arrived(J) ==
  {u \in AggSenders(J) : HandedOver(u, J) /\ \A c \in aggHeads[J] : c.from # u}

\* What a working chevron has gathered.
Gathered ==
  \A t \in Thread, J \in Front :
    /\ owners[J] # t => fronts[t][J].upd \ {-1} = OwnUpdaters(t, J) \ updates[t][J]
    /\ owners[J] = t /\ stored[J] = NotStored /\ status[t][J] # "E" =>
         fronts[t][J].upd \ {-1} =
           (OwnUpdaters(t, J) \ updates[t][J]) \cup UNION {OwnUpdaters(u, J) : u \in Arrived(J)}

\* All aggregates have been sent; then all have been assembled.
AllSent(J) == \A u \in AggSenders(J) : status[u][J] = "F"

NothingToCome ==
  /\ \A t \in Thread :
       /\ pc[t] \in CountedLabels \cup GatheredLabels => AllSent(cur[t])
       /\ pc[t] \in GatheredLabels => aggHeads[cur[t]] = {}
  /\ \A J \in Front : stored[J] # NotStored =>
       /\ AllSent(J) /\ aggHeads[J] = {}
       /\ updates[owners[J]][J] = {} /\ stored[J].upd = Updaters(J)

UpdateInv ==
  SingularIsLast /\ OwnUpdatesMade /\ StoredBefore /\ Listed /\ TakeExclusive /\ Gathered
    /\ NothingToCome

-----------------------------------------------------------------------------
(* The way of the postponed columns                                        *)

Reported(I) ==
  status[owners[I]][I] = "F" \/ (pc[owners[I]] = "postDecrement" /\ cur[owners[I]] = I)

AllReported(J) == \A I \in Children(J) : status[owners[I]][I] = "F"

\* The owner of L has taken its list of postponed data.
LateTaken(L) ==
  L # nfront /\ (stored[L] # NotStored \/ (pc[owners[L]] = "factor" /\ cur[owners[L]] = L))

LateOf(J) == UNION {stored[I].left : I \in Children(J)}

PostListed ==
  Pivoting =>
    /\ \A L \in PostList : \A c \in postHeads[L] :
         c.from \in PostSources(L) /\ Reported(c.from) /\ c.cols = stored[c.from].left
    /\ \A L \in PostList : \A I \in PostSources(L) :
         Reported(I) /\ stored[I].left # {} /\ ~LateTaken(L) =>
           [from |-> I, cols |-> stored[I].left] \in postHeads[L]
    /\ \A t \in Thread :
         /\ pc[t] = "postStore" => reg[t] = postHeads[PostTarget(cur[t])]
         /\ pc[t] = "postClear" => reg[t] = postHeads[cur[t]]
         /\ pc[t] \in {"postLoad", "postClear", "factor"} \cup ReportLabels => AllReported(cur[t])
         /\ pc[t] = "postNothing" => stored[cur[t]].left = {}

LateGathered ==
  /\ \A J \in Front : stored[J] = NotStored =>
       fronts[owners[J]][J].late = IF Pivoting /\ LateTaken(J) THEN LateOf(J) ELSE {}
  /\ \A J \in Front : stored[J] # NotStored =>
       IF Pivoting THEN AllReported(J) /\ stored[J].late = LateOf(J)
                   ELSE stored[J].late = {} /\ stored[J].left = {}
  /\ ~Pivoting => \A t \in Thread : pc[t] \notin {"postPoll", "postLoad", "postClear"}

\* What the main thread is told.
Told ==
  /\ perror # -1 => perror \in Front /\ status[owners[perror]][perror] = "E"
  /\ joined => \A t \in Thread : pc[t] = "done"
  /\ joined /\ Pivoting => rootchv = postHeads[nfront]

PostInv == PostListed /\ LateGathered /\ Told
=============================================================================
