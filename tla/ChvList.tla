------------------------------ MODULE ChvList ------------------------------
(***************************************************************************)
(* A ChvList object of SPOOLES (ChvList/src): an array of singly linked    *)
(* lists of chevrons, each with the count of objects it still expects.     *)
(* Threads add to a list; one thread takes it.  One mutex guards the whole *)
(* object, but only the lists whose flag is 'Y' use it, and emptiness,     *)
(* count and (sometimes) the list itself are read without it.              *)
(*                                                                         *)
(* A list is the set of its objects: every reader either assembles them    *)
(* all or sorts them first, so their order is never seen.  The steps are   *)
(* the loads and stores of the compiled code: adding reads the head,       *)
(* stores the new head and then decrements the count with a load and a     *)
(* store; taking reads the head and then clears it.                        *)
(***************************************************************************)
EXTENDS Integers

CONSTANTS Thread,  \* the threads that use the object
          List,    \* the indices of the lists
          Chv,     \* the objects
          flags    \* flags[l]: "Y" if adding to list l takes the mutex

VARIABLES heads,   \* heads[l]: the objects in list l
          counts,  \* counts[l]: how many calls of addObjectToList are to come
          lock,    \* the thread that holds the mutex, or NoOne
          reg,     \* reg[t]: the list head thread t has loaded
          creg     \* creg[t]: the count thread t has loaded

listVars == <<heads, counts, lock, reg, creg>>

NoOne == -1

ListTypeOK ==
  /\ heads \in [List -> SUBSET Chv]
  /\ counts \in [List -> Int]
  /\ lock \in Thread \cup {NoOne}
  /\ reg \in [Thread -> SUBSET Chv]
  /\ creg \in [Thread -> Int]

ListInit(expected) ==
  /\ heads = [l \in List |-> {}]
  /\ counts = expected
  /\ lock = NoOne

IsListNonempty(l) == heads[l] # {}
IsCountZero(l)    == counts[l] = 0

-----------------------------------------------------------------------------
(* addObjectToList                                                         *)

Acquire(t, needed) ==
  /\ needed => lock = NoOne
  /\ lock' = IF needed THEN t ELSE lock

Release(t) == lock' = IF lock = t THEN NoOne ELSE lock

\* chv->next = heads[l]
AddLink(t, l) ==
  /\ Acquire(t, flags[l] = "Y")
  /\ reg' = [reg EXCEPT ![t] = heads[l]]
  /\ UNCHANGED <<heads, counts, creg>>

\* heads[l] = chv, and the load of counts[l]--
AddStore(t, chv, l) ==
  /\ heads' = [heads EXCEPT ![l] = reg[t] \cup {chv}]
  /\ creg' = [creg EXCEPT ![t] = counts[l]]
  /\ reg' = [reg EXCEPT ![t] = {}]
  /\ UNCHANGED <<counts, lock>>

\* chv is NULL: only the count changes
AddNothing(t, l) ==
  /\ Acquire(t, flags[l] = "Y")
  /\ creg' = [creg EXCEPT ![t] = counts[l]]
  /\ UNCHANGED <<heads, counts, reg>>

\* the store of counts[l]--, and the mutex is released
AddDecrement(t, l) ==
  /\ counts' = [counts EXCEPT ![l] = creg[t] - 1]
  /\ creg' = [creg EXCEPT ![t] = 0]
  /\ Release(t)
  /\ UNCHANGED <<heads, reg>>

-----------------------------------------------------------------------------
(* getList                                                                 *)

\* The mutex is taken only while more objects can come from several threads.
GetLoad(t, l) ==
  /\ heads[l] # {}
  /\ Acquire(t, flags[l] = "Y" /\ counts[l] # 0)
  /\ reg' = [reg EXCEPT ![t] = heads[l]]
  /\ UNCHANGED <<heads, counts, creg>>

GetClear(t, l) ==
  /\ heads' = [heads EXCEPT ![l] = {}]
  /\ reg' = [reg EXCEPT ![t] = {}]
  /\ Release(t)
  /\ UNCHANGED <<counts, creg>>
=============================================================================
