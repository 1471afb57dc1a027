-------------------------------- MODULE Ideq --------------------------------
(***************************************************************************)
(* The dequeue of SPOOLES (Ideq/src/util.c, Ideq/src/resize.c): an int     *)
(* vector used as a ring.  The workers of the factorizations and solves    *)
(* keep their fronts in one.  Capacities are at most maxroom, the bound of *)
(* the model.                                                              *)
(***************************************************************************)
EXTENDS Integers, Sequences

CONSTANTS Value,    \* the values inserted
          maxroom   \* bound on the capacity

ASSUME IdeqAssumption == Value \subseteq Nat /\ maxroom \in Nat \ {0}

VARIABLES vec,   \* iv.vec
          size,  \* iv.size
          head, tail,
          rc     \* what the last call returned

vars == <<vec, size, head, tail, rc>>

Capacity == 1 .. maxroom

\* A result, with the kind of call that returned it.
Of(call, value) == [call |-> call, value |-> value]
Crashed         == Of("resize", -2)

\* A new object after its first Ideq_resize.
Init ==
  /\ size \in Capacity
  /\ vec = [i \in 0 .. size - 1 |-> -1]
  /\ head = -1 /\ tail = -1
  /\ rc = Of("new", 1)

Return(call, value) == rc' = Of(call, value)

Clear == head' = -1 /\ tail' = -1 /\ Return("clear", 1) /\ UNCHANGED <<vec, size>>

ReadHead ==
  Return("read", IF head = -1 THEN -1 ELSE vec[head]) /\ UNCHANGED <<vec, size, head, tail>>

ReadTail ==
  Return("read", IF tail = -1 THEN -1 ELSE vec[tail]) /\ UNCHANGED <<vec, size, head, tail>>

\* (mutation: the ring is not closed at the last place)
AfterLinear(i) == IF i = size THEN 0 ELSE i + 1

\* The places after and before i in the ring.
After(i)  == IF i = size - 1 THEN 0 ELSE i + 1
Before(i) == IF i = 0 THEN size - 1 ELSE i - 1

RemoveNothing == head = -1 /\ Return("remove", -1) /\ UNCHANGED <<vec, size, head, tail>>

RemoveLast ==
  /\ head # -1 /\ head = tail
  /\ Return("remove", vec[head])
  /\ head' = -1 /\ tail' = -1
  /\ UNCHANGED <<vec, size>>

RemoveFromHead ==
  \/ RemoveNothing
  \/ RemoveLast
  \/ /\ head # tail
     /\ Return("remove", vec[head])
     /\ head' = After(head)
     /\ UNCHANGED <<vec, size, tail>>

RemoveFromTail ==
  \/ RemoveNothing
  \/ RemoveLast
  \/ /\ head # tail
     /\ Return("remove", vec[tail])
     /\ tail' = Before(tail)
     /\ UNCHANGED <<vec, size, head>>

\* (mutation: a wrapped ring is never full)
FullUnwrapped == head = 0 /\ tail = size - 1

Full == Before(head) = tail

InsertFirst(v) ==
  /\ head = -1
  /\ vec' = [vec EXCEPT ![0] = v]
  /\ head' = 0 /\ tail' = 0
  /\ Return("insert", 1)
  /\ UNCHANGED size

InsertNothing ==
  head # -1 /\ Full /\ Return("insert", -1) /\ UNCHANGED <<vec, size, head, tail>>

InsertAtHead(v) ==
  \/ InsertFirst(v)
  \/ InsertNothing
  \/ /\ head # -1 /\ ~Full
     /\ head' = Before(head)
     /\ vec' = [vec EXCEPT ![Before(head)] = v]
     /\ Return("insert", 1)
     /\ UNCHANGED <<size, tail>>

InsertAtTail(v) ==
  \/ InsertFirst(v)
  \/ InsertNothing
  \/ /\ head # -1 /\ ~Full
     /\ tail' = After(tail)
     /\ vec' = [vec EXCEPT ![After(tail)] = v]
     /\ Return("insert", 1)
     /\ UNCHANGED <<size, head>>

Next ==
  \/ Clear \/ ReadHead \/ ReadTail \/ RemoveFromHead \/ RemoveFromTail
  \/ \E v \in Value : InsertAtHead(v) \/ InsertAtTail(v)

Spec == Init /\ [][Next]_vars

-----------------------------------------------------------------------------
(* Ideq_resize                                                             *)

\* The number of values as Ideq_resize computes it: 1 for an empty dequeue.
Extent == IF tail >= head THEN tail - head + 1 ELSE tail + size - head + 1

\* The place the copying loop visits k places after the head.  It closes the ring at
\* the number of values, where the functions above close it at the size of the
\* vector, and not at all when the head lies behind.
Visited(k) == IF head < Extent /\ head + k >= Extent THEN head + k - Extent ELSE head + k

\* The number of values copied until the loop meets the tail.  When it does
\* not meet it in time it goes on writing behind the temporary vector.
CopyEnds ==
  {k \in 0 .. Extent - 1 : Visited(k) = tail /\ \A i \in 0 .. k - 1 : Visited(i) # tail}

Resize(n) ==
  IF Extent > n
  THEN Return("resize", -1) /\ UNCHANGED <<vec, size, head, tail>>
  ELSE \/ /\ head = -1
          /\ vec' = [i \in 0 .. n - 1 |-> -1]
          /\ size' = n
          /\ Return("resize", 1)
          /\ UNCHANGED <<head, tail>>
       \/ \E k \in CopyEnds :
          /\ head # -1
          /\ vec' = [i \in 0 .. n - 1 |-> IF i <= k THEN vec[Visited(i)] ELSE -1]
          /\ size' = n
          /\ head' = 0 /\ tail' = k
          /\ Return("resize", 1)
       \/ /\ head # -1 /\ CopyEnds = {}
          /\ rc' = Crashed
          /\ UNCHANGED <<vec, size, head, tail>>

\* The program is gone after a crash.
ResizeNext == rc # Crashed /\ (Next \/ \E n \in Capacity : Resize(n))

ResizeSpec == Init /\ [][ResizeNext]_vars

-----------------------------------------------------------------------------
(* Properties                                                              *)

Place(i) == IF head + i - 1 >= size THEN head + i - 1 - size ELSE head + i - 1

\* The contents, from head to tail.
Contents == IF head = -1 THEN << >> ELSE [i \in 1 .. Extent |-> vec[Place(i)]]

\* The indices lie in the vector and are -1 together.
TypeOK ==
  /\ size \in Capacity
  /\ vec \in [0 .. size - 1 -> Value \cup {-1}]
  /\ head \in -1 .. size - 1
  /\ tail \in -1 .. size - 1
  /\ head = -1 <=> tail = -1
  /\ rc \in [call : {"new", "clear", "read", "remove", "insert", "resize"}, value : Value \cup {-2, -1, 1}]

Deque == INSTANCE BoundedDeque WITH items <- Contents, room <- size

\* The ring, with its four wrap-arounds, is a bounded sequence.
RefinesDeque == Deque!QSpec

\* Resizing keeps the contents ("copy the old data", Ideq/src/resize.c).
ResizeKeepsData == [][size' # size => Contents' = Contents]_vars
=============================================================================
