----------------------------- MODULE ObjectPool -----------------------------
(***************************************************************************)
(* What a ChvManager or SubMtxManager promises (the comments above its     *)
(* functions in ChvManager/src/util.c): the smallest free object that is   *)
(* large enough is given out, a new one only when there is none; an object *)
(* given out is given to nobody else until it is released.                 *)
(***************************************************************************)
EXTENDS Naturals

CONSTANTS Object,  \* the objects that can be allocated
          Bytes    \* the workspace sizes requested

VARIABLES free,  \* the objects kept for reuse
          busy,  \* the objects given out
          size   \* size[o]: the bytes of o's workspace

poolVars == <<free, busy, size>>

PoolInit == free = {} /\ busy = {} /\ size \in [Object -> Bytes]

Fits(o, n) == n <= size[o]

Reuse(o, n) ==
  /\ o \in free /\ Fits(o, n)
  /\ \A p \in free : Fits(p, n) => size[o] <= size[p]
  /\ free' = free \ {o} /\ busy' = busy \cup {o}
  /\ UNCHANGED size

Allocate(o, n) ==
  /\ o \notin free \cup busy
  /\ \A p \in free : ~Fits(p, n)
  /\ busy' = busy \cup {o}
  /\ size' = [size EXCEPT ![o] = n]
  /\ UNCHANGED free

Recycle(o) ==
  /\ o \in busy
  /\ free' = free \cup {o} /\ busy' = busy \ {o}
  /\ UNCHANGED size

Discard(o) ==
  /\ o \in busy
  /\ busy' = busy \ {o}
  /\ UNCHANGED <<free, size>>

\* The manager is cleared: what it kept goes back to the heap.
Empty == busy = {} /\ free' = {} /\ UNCHANGED <<busy, size>>

PoolNext ==
  \/ \E o \in Object, n \in Bytes : Reuse(o, n) \/ Allocate(o, n)
  \/ \E o \in Object : Recycle(o) \/ Discard(o)
  \/ Empty

PoolSpec == PoolInit /\ [][PoolNext]_poolVars
=============================================================================
