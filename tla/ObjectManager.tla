--------------------------- MODULE ObjectManager ---------------------------
(***************************************************************************)
(* The two object managers of SPOOLES (ChvManager/src, SubMtxManager/src)  *)
(* and the threads that use one: a list of free objects in ascending order *)
(* of their workspace, linked through the same next field that links the   *)
(* lists handed from thread to thread.  An object that is given out keeps  *)
(* its stale next, which points into the free list, until it is linked     *)
(* into a list.                                                            *)
(*                                                                         *)
(* A step is one turn of a loop inside the critical section.  The pointers *)
(* are what the code reads and writes; free, listed, held and chained only *)
(* record where the operations have put each object.  The ChvList itself   *)
(* (its lock, its counts) is the module ChvList: here adding to the list   *)
(* and taking it are one step each.                                        *)
(***************************************************************************)
EXTENDS Integers, FiniteSets, FiniteSetsExt

CONSTANTS Thread,  \* the threads that share the manager
          Object,  \* the objects: the bound on what is allocated at a time
          Bytes,   \* the workspace sizes requested
          NULL, NoOne

ASSUME ManagerAssumption ==
  /\ IsFiniteSet(Object) /\ NULL \notin Object /\ NoOne \notin Thread
  /\ Bytes \subseteq Nat \ {0} /\ Bytes # {}

VARIABLES mode,          \* 0: free on release, 1: keep for reuse
          type,          \* which of the two managers it is
          head, lock,
          nactive, nbytesactive,
          next,          \* next[o]: the link of object o
          size,          \* size[o]: the bytes in its workspace
          pc,            \* pc[t]: where thread t is
          nbytesNeeded,  \* of its request
          prev, cur,     \* the two pointers of its walk along the free list
          obj,           \* the object it is releasing
          chain,         \* the head of the list it has taken or is releasing
          listHead,      \* the head of the list shared by the threads
          free, listed, held, chained

manager == <<mode, type, head, lock, nactive, nbytesactive>>
locals  == <<pc, nbytesNeeded, prev, cur, obj, chain>>
places  == <<free, listed, held, chained>>
vars    == <<manager, next, size, locals, listHead, places>>

Pointer   == Object \cup {NULL}
ChainedBy == UNION {chained[t] : t \in Thread}
HeldBy    == UNION {held[t] : t \in Thread}
InUse     == listed \cup HeldBy \cup ChainedBy
Unborn    == Object \ (free \cup InUse)

\* ChvManager_init.
Init ==
  /\ mode \in {0, 1} /\ type \in {"Chv", "SubMtx"}
  /\ head = NULL /\ lock = NoOne /\ nactive = 0 /\ nbytesactive = 0
  /\ next = [o \in Object |-> NULL]
  /\ size = [o \in Object |-> CHOOSE b \in Bytes : TRUE]
  /\ pc = [t \in Thread |-> "idle"]
  /\ nbytesNeeded = [t \in Thread |-> 0]
  /\ prev = [t \in Thread |-> NULL]
  /\ cur = [t \in Thread |-> NULL]
  /\ obj = [t \in Thread |-> NULL]
  /\ chain = [t \in Thread |-> NULL]
  /\ listHead = NULL
  /\ free = {} /\ listed = {}
  /\ held = [t \in Thread |-> {}]
  /\ chained = [t \in Thread |-> {}]

-----------------------------------------------------------------------------
(* The mutex, and the walk along the free list                             *)

\* (mutation: the manager was initialised with NO_LOCK)
LockNothing(t) == UNCHANGED lock

Lock(t)   == lock = NoOne /\ lock' = t
Unlock(t) == lock' = IF lock = t THEN NoOne ELSE lock

GoTo(t, place) == pc' = [pc EXCEPT ![t] = place]

\* The call returns: its local variables are gone.
Return(t) ==
  /\ GoTo(t, "idle")
  /\ Unlock(t)
  /\ nbytesNeeded' = [nbytesNeeded EXCEPT ![t] = 0]
  /\ prev' = [prev EXCEPT ![t] = NULL]
  /\ cur' = [cur EXCEPT ![t] = NULL]
  /\ obj' = [obj EXCEPT ![t] = NULL]

StartWalk(t) ==
  /\ prev' = [prev EXCEPT ![t] = NULL]
  /\ cur' = [cur EXCEPT ![t] = head]

Advance(t) ==
  /\ prev' = [prev EXCEPT ![t] = cur[t]]
  /\ cur' = [cur EXCEPT ![t] = next[cur[t]]]
  /\ UNCHANGED <<manager, next, size, pc, nbytesNeeded, obj, chain, listHead, places>>

-----------------------------------------------------------------------------
(* newObjectOfSizeNbytes                                                   *)

\* Bound of the model: a thread asks only while some object is not allocated.
Request(t, n) ==
  /\ pc[t] = "idle" /\ Unborn # {}
  /\ Lock(t)
  /\ GoTo(t, "search")
  /\ nbytesNeeded' = [nbytesNeeded EXCEPT ![t] = n]
  /\ StartWalk(t)
  /\ UNCHANGED <<mode, type, head, nactive, nbytesactive, next, size, obj, chain, listHead,
                 places>>

Enough(t) == nbytesNeeded[t] <= size[cur[t]]

SearchOn(t) ==
  /\ pc[t] = "search" /\ cur[t] # NULL /\ ~Enough(t)
  /\ Advance(t)

\* (mutation: the successor is forgotten when the first object is taken)
UnlinkShort(t) ==
  /\ head' = IF prev[t] = NULL THEN NULL ELSE head
  /\ next' = IF prev[t] = NULL THEN next ELSE [next EXCEPT ![prev[t]] = next[cur[t]]]

Unlink(t) ==
  /\ head' = IF prev[t] = NULL THEN next[cur[t]] ELSE head
  /\ next' = IF prev[t] = NULL THEN next ELSE [next EXCEPT ![prev[t]] = next[cur[t]]]

CountGiven(t, bytes) ==
  /\ nactive' = nactive + 1
  /\ nbytesactive' = nbytesactive + bytes

HandOver(t, o) ==
  /\ held' = [held EXCEPT ![t] = @ \cup {o}]
  /\ Return(t)
  /\ UNCHANGED <<mode, type, chain, listHead, listed, chained>>

TakeFree(t) ==
  /\ pc[t] = "search" /\ cur[t] # NULL /\ Enough(t)
  /\ Unlink(t)
  /\ CountGiven(t, size[cur[t]])
  /\ free' = free \ {cur[t]}
  /\ HandOver(t, cur[t])
  /\ UNCHANGED size

TakeNew(t) ==
  /\ pc[t] = "search" /\ cur[t] = NULL
  /\ \E o \in Unborn :
       /\ next' = [next EXCEPT ![o] = NULL]
       /\ size' = [size EXCEPT ![o] = nbytesNeeded[t]]
       /\ HandOver(t, o)
  /\ CountGiven(t, nbytesNeeded[t])
  /\ UNCHANGED <<head, free>>

-----------------------------------------------------------------------------
(* releaseObject, releaseListOfObjects                                     *)

\* Leaving o: it is no longer t's.
Drop(t, o) ==
  /\ held' = [held EXCEPT ![t] = @ \ {o}]
  /\ chained' = [chained EXCEPT ![t] = @ \ {o}]

CountReleased(o) ==
  /\ nactive' = nactive - 1
  /\ nbytesactive' = nbytesactive - size[o]

\* The object is freed within the critical section.
DiscardOne(t, o) ==
  /\ pc[t] = "idle" /\ mode = 0 /\ o \in held[t]
  /\ lock = NoOne
  /\ Drop(t, o)
  /\ CountReleased(o)
  /\ UNCHANGED <<mode, type, head, lock, next, size, locals, listHead, free, listed>>

ReleaseOne(t, o) ==
  /\ pc[t] = "idle" /\ mode = 1 /\ o \in held[t]
  /\ Lock(t)
  /\ GoTo(t, "place")
  /\ obj' = [obj EXCEPT ![t] = o]
  /\ StartWalk(t)
  /\ UNCHANGED <<mode, type, head, nactive, nbytesactive, next, size, nbytesNeeded, chain,
                 listHead, places>>

ReleaseList(t) ==
  /\ pc[t] = "idle" /\ chain[t] # NULL
  /\ Lock(t)
  /\ GoTo(t, "list")
  /\ UNCHANGED <<mode, type, head, nactive, nbytesactive, next, size, nbytesNeeded, prev, cur,
                 obj, chain, listHead, places>>

\* (mutation: the rest of the list is read after the object is linked)
TakeHead(t) ==
  /\ obj' = [obj EXCEPT ![t] = chain[t]]
  /\ UNCHANGED chain

DetachHead(t) ==
  /\ obj' = [obj EXCEPT ![t] = chain[t]]
  /\ chain' = [chain EXCEPT ![t] = next[chain[t]]]

DiscardHead(t) ==
  /\ pc[t] = "list" /\ mode = 0 /\ chain[t] # NULL
  /\ DetachHead(t)
  /\ Drop(t, chain[t])
  /\ CountReleased(chain[t])
  /\ UNCHANGED <<mode, type, head, lock, next, size, pc, nbytesNeeded, prev, cur, listHead,
                 free, listed>>

RecycleHead(t) ==
  /\ pc[t] = "list" /\ mode = 1 /\ chain[t] # NULL
  /\ DetachHead(t)
  /\ GoTo(t, "placeNext")
  /\ StartWalk(t)
  /\ UNCHANGED <<manager, next, size, nbytesNeeded, listHead, places>>

\* (mutation: the test of the search, backwards)
BeyondTwisted(t) == size[cur[t]] < size[obj[t]]

\* The place of the object is before cur: the two managers differ on ties.
Beyond(t) ==
  IF type = "Chv" THEN size[cur[t]] > size[obj[t]] ELSE size[cur[t]] >= size[obj[t]]

PlaceOn(t) ==
  /\ pc[t] \in {"place", "placeNext"} /\ cur[t] # NULL /\ ~Beyond(t)
  /\ Advance(t)

\* (mutation: at the end of the list the object keeps its stale link)
SpliceStale(t) ==
  /\ head' = IF prev[t] = NULL THEN obj[t] ELSE head
  /\ next' = [o \in Object |-> IF o = obj[t] /\ cur[t] # NULL THEN cur[t]
                               ELSE IF o = prev[t] THEN obj[t]
                               ELSE next[o]]

Splice(t) ==
  /\ head' = IF prev[t] = NULL THEN obj[t] ELSE head
  /\ next' = [o \in Object |-> IF o = obj[t] THEN cur[t]
                               ELSE IF o = prev[t] THEN obj[t]
                               ELSE next[o]]

Insert(t) ==
  /\ pc[t] \in {"place", "placeNext"} /\ (cur[t] # NULL => Beyond(t))
  /\ Splice(t)
  /\ CountReleased(obj[t])
  /\ Drop(t, obj[t])
  /\ free' = free \cup {obj[t]}
  /\ \/ pc[t] = "place" /\ Return(t)
     \/ /\ pc[t] = "placeNext" /\ GoTo(t, "list")
        /\ UNCHANGED <<lock, nbytesNeeded, prev, cur, obj>>
  /\ UNCHANGED <<mode, type, size, chain, listHead, listed>>

ListReleased(t) ==
  /\ pc[t] = "list" /\ chain[t] = NULL
  /\ Return(t)
  /\ UNCHANGED <<mode, type, head, nactive, nbytesactive, next, size, chain, listHead, places>>

-----------------------------------------------------------------------------
(* The threads between calls                                               *)

\* (mutation: the link is set only when the list has an object)
LinkIfNonempty(o) == next' = IF listHead = NULL THEN next ELSE [next EXCEPT ![o] = listHead]

Link(o) == next' = [next EXCEPT ![o] = listHead]

\* ChvList_addObjectToList
AddToList(t, o) ==
  /\ pc[t] = "idle" /\ o \in held[t]
  /\ Link(o)
  /\ listHead' = o
  /\ held' = [held EXCEPT ![t] = @ \ {o}]
  /\ listed' = listed \cup {o}
  /\ UNCHANGED <<manager, size, locals, free, chained>>

\* ChvList_getList, by a thread that has released the list it took before
GetList(t) ==
  /\ pc[t] = "idle" /\ chain[t] = NULL /\ listHead # NULL
  /\ chain' = [chain EXCEPT ![t] = listHead]
  /\ listHead' = NULL
  /\ chained' = [chained EXCEPT ![t] = listed]
  /\ listed' = {}
  /\ UNCHANGED <<manager, next, size, pc, nbytesNeeded, prev, cur, obj, free, held>>

\* The orders in which the objects of S can be linked.
Orders(S) ==
  {s \in [1 .. Cardinality(S) -> S] : \A i, j \in DOMAIN s : s[i] = s[j] => i = j}

\* FrontMtx_assemblePostponedData: the list is ordered by front.
Reorder(t) ==
  /\ pc[t] = "idle" /\ chain[t] # NULL
  /\ \E s \in Orders(chained[t]) :
       LET n == Cardinality(chained[t]) IN
       /\ n # 0
       /\ chain' = [chain EXCEPT ![t] = s[1]]
       /\ next' = [o \in Object |->
            IF \E i \in 1 .. n : s[i] = o
              THEN LET i == CHOOSE i \in 1 .. n : s[i] = o IN IF i = n THEN NULL ELSE s[i + 1]
              ELSE next[o]]
  /\ UNCHANGED <<manager, size, pc, nbytesNeeded, prev, cur, obj, listHead, places>>

\* ChvManager_free and the next ChvManager_init, when no object is in use.
ClearData ==
  /\ \A t \in Thread : pc[t] = "idle"
  /\ InUse = {}
  /\ head' = NULL /\ nactive' = 0 /\ nbytesactive' = 0
  /\ free' = {}
  /\ UNCHANGED <<mode, type, lock, next, size, locals, listHead, listed, held, chained>>

Inside(t) ==
  \/ SearchOn(t) \/ TakeFree(t) \/ TakeNew(t)
  \/ DiscardHead(t) \/ RecycleHead(t) \/ PlaceOn(t) \/ Insert(t) \/ ListReleased(t)

Between(t) ==
  \/ \E n \in Bytes : Request(t, n)
  \/ \E o \in Object : DiscardOne(t, o) \/ ReleaseOne(t, o) \/ AddToList(t, o)
  \/ ReleaseList(t) \/ GetList(t) \/ Reorder(t)

Next == ClearData \/ \E t \in Thread : Inside(t) \/ Between(t)

\* A thread in a critical section runs on; nothing is assumed of the others.
Fairness == \A t \in Thread : WF_vars(Inside(t))

Spec == Init /\ [][Next]_vars /\ Fairness
-----------------------------------------------------------------------------
(* Properties                                                              *)

TypeOK ==
  /\ mode \in {0, 1} /\ type \in {"Chv", "SubMtx"}
  /\ head \in Pointer /\ lock \in Thread \cup {NoOne}
  /\ nactive \in Nat /\ nbytesactive \in Int
  /\ next \in [Object -> Pointer]
  /\ size \in [Object -> Bytes]
  /\ pc \in [Thread -> {"idle", "search", "list", "place", "placeNext"}]
  /\ nbytesNeeded \in [Thread -> Bytes \cup {0}]
  /\ prev \in [Thread -> Pointer] /\ cur \in [Thread -> Pointer]
  /\ obj \in [Thread -> Pointer] /\ chain \in [Thread -> Pointer]
  /\ listHead \in Pointer
  /\ free \subseteq Object /\ listed \subseteq Object
  /\ held \in [Thread -> SUBSET Object] /\ chained \in [Thread -> SUBSET Object]

\* Following next from first visits s and ends.
Links(first, s, n) ==
  /\ first = IF n = 0 THEN NULL ELSE s[1]
  /\ \A i \in 1 .. n : next[s[i]] = IF i = n THEN NULL ELSE s[i + 1]

\* Following next from first visits every object of S once and ends.
ListIs(first, S) == \E s \in Orders(S) : Links(first, s, Cardinality(S))

Ascending(s, n) == \A i \in 1 .. n : \A j \in i .. n : size[s[i]] <= size[s[j]]

\* An object is given to one thread at a time: it is free, in the list, in the
\* hands of one thread or in the list one thread has taken, never in two of
\* them.
ObjectInOnePlace ==
  /\ free \cap InUse = {} /\ listed \cap (HeldBy \cup ChainedBy) = {}
  /\ HeldBy \cap ChainedBy = {}
  /\ \A t, u \in Thread : t # u => held[t] \cap held[u] = {} /\ chained[t] \cap chained[u] = {}

\* The free list holds the objects released and not given out again, each
\* once, in ascending order: no stale link leads into or out of it.
FreeListSorted ==
  \E s \in Orders(free) : Links(head, s, Cardinality(free)) /\ Ascending(s, Cardinality(free))

\* The list the threads share, and the list a thread has taken, lead to the
\* objects put there and to no object that has been released, also while the
\* manager is taking them one by one.
ListsIntact ==
  /\ ListIs(listHead, listed)
  /\ \A t \in Thread :
       ListIs(chain[t], chained[t] \ (IF pc[t] = "placeNext" THEN {obj[t]} ELSE {}))

\* Whoever enters the manager leaves it: no walk goes round in the list.
WalkEnds == \A t \in Thread : lock = t ~> lock # t

\* The manager keeps the promise of its comments: the smallest object that is
\* large enough, a new one only when there is none, and no object given twice.
Pool == INSTANCE ObjectPool WITH busy <- InUse
KeepsPromise == Pool!PoolSpec
=============================================================================
