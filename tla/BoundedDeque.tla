---------------------------- MODULE BoundedDeque ----------------------------
(***************************************************************************)
(* What an Ideq promises (Ideq/src/util.c, the comments above the          *)
(* functions): a sequence with room for a number of values, read, removed  *)
(* from and inserted into at both ends; what does not fit is refused.      *)
(***************************************************************************)
EXTENDS Integers, Sequences

CONSTANT Value  \* what is stored; -1 is not among them

VARIABLES items,  \* the values, from the head to the tail
          room,   \* how many there may be
          rc      \* what the last call returned

\* A result, with the kind of call that returned it.
Of(call, value) == [call |-> call, value |-> value]

QInit == items = << >> /\ room \in Nat \ {0} /\ rc = Of("new", 1)

Read ==
  /\ \/ items = << >> /\ rc' = Of("read", -1)
     \/ items # << >> /\ rc' \in {Of("read", items[1]), Of("read", items[Len(items)])}
  /\ UNCHANGED <<items, room>>

Clear == items' = << >> /\ rc' = Of("clear", 1) /\ UNCHANGED room

RemoveFromHead ==
  /\ items # << >>
  /\ rc' = Of("remove", items[1])
  /\ items' = Tail(items)
  /\ UNCHANGED room

RemoveFromTail ==
  /\ items # << >>
  /\ rc' = Of("remove", items[Len(items)])
  /\ items' = SubSeq(items, 1, Len(items) - 1)
  /\ UNCHANGED room

RemoveNothing == items = << >> /\ rc' = Of("remove", -1) /\ UNCHANGED <<items, room>>

InsertAtHead(v) ==
  /\ Len(items) < room
  /\ items' = <<v>> \o items
  /\ rc' = Of("insert", 1)
  /\ UNCHANGED room

InsertAtTail(v) ==
  /\ Len(items) < room
  /\ items' = Append(items, v)
  /\ rc' = Of("insert", 1)
  /\ UNCHANGED room

InsertNothing == Len(items) = room /\ rc' = Of("insert", -1) /\ UNCHANGED <<items, room>>

QNext ==
  \/ Read \/ Clear \/ RemoveFromHead \/ RemoveFromTail \/ RemoveNothing \/ InsertNothing
  \/ \E v \in Value : InsertAtHead(v) \/ InsertAtTail(v)

QSpec == QInit /\ [][QNext]_<<items, room, rc>>
=============================================================================
