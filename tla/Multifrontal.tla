---------------------------- MODULE Multifrontal ----------------------------
(***************************************************************************)
(* What a multifrontal factorization promises, whoever computes it and in  *)
(* whatever order: a front is factored once, after every front that        *)
(* updates it and (with pivoting) after all its children, from exactly     *)
(* those updates and exactly the columns its children could not eliminate. *)
(* The factorization ends either with every front factored or, without     *)
(* pivoting, with a front that was found singular.                         *)
(***************************************************************************)
EXTENDS FrontTree

CONSTANT Pivoting

VARIABLES stored,   \* stored[J]: what front J was factored from, or NotStored
          failed,   \* the fronts found singular
          outcome   \* "running", "factored" or "singular"

mvars == <<stored, failed, outcome>>

NotStored == [upd |-> {}, late |-> {}, left |-> {-1}]

\* The columns postponed to front J by its children.
Late(J) == UNION {stored[I].left : I \in Children(J)}

Ready(J) ==
  /\ stored[J] = NotStored
  /\ \A I \in Updaters(J) : stored[I] # NotStored
  /\ Pivoting => \A I \in Children(J) : stored[I] # NotStored

MInit ==
  /\ stored = [J \in Front |-> NotStored]
  /\ failed = {}
  /\ outcome = "running"

FactorFront(J) ==
  /\ outcome = "running"
  /\ Ready(J)
  /\ J \notin failed
  /\ LET late == IF Pivoting THEN Late(J) ELSE {}
     IN  \E left \in SUBSET (IF Pivoting THEN late \cup {J} ELSE {}) :
           stored' = [stored EXCEPT
             ![J] = [upd |-> Updaters(J), late |-> late, left |-> left]]
  /\ UNCHANGED <<failed, outcome>>

FindSingular(J) ==
  /\ outcome = "running"
  /\ ~Pivoting
  /\ Ready(J)
  /\ failed' = failed \cup {J}
  /\ UNCHANGED <<stored, outcome>>

Finish ==
  /\ outcome = "running"
  /\ \/ /\ failed = {}
        /\ \A J \in Front : stored[J] # NotStored
        /\ outcome' = "factored"
     \/ /\ failed # {}
        /\ outcome' = "singular"
  /\ UNCHANGED <<stored, failed>>

MNext ==
  \/ \E J \in Front : FactorFront(J) \/ FindSingular(J)
  \/ Finish

MSpec == MInit /\ [][MNext]_mvars
=============================================================================
