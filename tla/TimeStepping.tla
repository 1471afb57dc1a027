---------------------------- MODULE TimeStepping ----------------------------
(***************************************************************************)
(* What the incrementation of an analysis promises: time only moves        *)
(* forward, no increment reaches over a time point or over the end of a    *)
(* step, and the results are written at each time point before the         *)
(* analysis moves on, and nowhere else but at the ends of the steps.       *)
(***************************************************************************)
EXTENDS Integers

CONSTANTS StepEnds,  \* the times at which the steps of the analysis end
          Horizon    \* the last of them

VARIABLES points,   \* the time points of the input
          now,      \* the end of the last increment accepted
          written   \* the times at which results have been written

timeVars == <<points, now, written>>

TimeInit == points \subseteq Nat /\ now = 0 /\ written = {}

Landmarks == points \cup StepEnds

Advance ==
  /\ now \in points => now = 0 \/ now \in written
  /\ now' > now /\ now' <= Horizon
  /\ \A p \in Landmarks : p <= now \/ now' <= p
  /\ UNCHANGED <<points, written>>

Write ==
  /\ now \in Landmarks
  /\ written' = written \cup {now}
  /\ UNCHANGED <<points, now>>

TimeSpec == TimeInit /\ [][Advance \/ Write]_timeVars
=============================================================================
