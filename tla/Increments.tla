----------------------------- MODULE Increments -----------------------------
(***************************************************************************)
(* The increment control of a nonlinear analysis of CalculiX: checktime at *)
(* the start of a step, the increment loop of nonlingeo, and               *)
(* checkconvergence and checkdivergence, which accept an increment, try it *)
(* again with another size or stop the analysis.                           *)
(*                                                                         *)
(* Times are in whole units (theta and dtheta of the code times tper), and *)
(* the code's 1.e-6 * tper is less than a unit: times that near are one.   *)
(* What depends on the numbers of the analysis (residuals, factors of the  *)
(* user) is a choice: a size multiplied by a factor below 1 becomes any    *)
(* smaller size.  Explicit dynamics (iexpl > 1) is not modelled.  All but  *)
(* the time points is the same in all steps of an analysis.                *)
(***************************************************************************)
EXTENDS Integers, Sequences

CONSTANTS Steps, Period,       \* the number of steps, and tper
          Decks,               \* the analyses: what the input says
          Jmax, Ia,            \* the most increments and cutbacks
          Ir, Ic, Delay,       \* iterations: check for slow convergence, the most, the grace
          Ig, Il, More,        \* few iterations, many iterations, the extra of mortar = 1
          Freeze, Ndiverg,     \* the last iterations in which the contact may change
          MaxF2F, MaxMortar,   \* the most iterations for mortar = 1 and mortar > 1
          Kmax                 \* the reduction of the contact stiffness

\* *TIME POINTS, GENERATE
Generated(tpmin, tpmax, tpinc) ==
  LET nttp == (tpmax - tpmin) \div tpinc
  IN [i \in 1 .. nttp + 2 |-> IF i = nttp + 2 THEN tpmax ELSE tpmin + (i - 1) * tpinc]

\* The part of amta a step uses: the *TIME POINTS named in its output requests, in
\* step time or in total time; nothing if they name none.
Use(first, last, total) == [istart |-> first, iend |-> last, total |-> total]

NoPoints == Use(1, 0, FALSE)

IsUse(u, amta) ==
  /\ u.istart \in Nat \ {0} /\ u.iend \in (u.istart - 1) .. Len(amta) /\ u.total \in BOOLEAN
  /\ \A i, j \in u.istart .. u.iend : i < j => amta[i] <= amta[j]

\* The input: the reader refuses time points together with fixed increments, and
\* identamta takes for granted that they are ordered.
IsDeck(d) ==
  /\ d.mortar \in 0 .. 2 /\ d.idrct \in {0, 1} /\ d.ithermal \in 1 .. 3
  /\ d.dynamic \in BOOLEAN
  /\ d.uncoupled \in BOOLEAN /\ (d.uncoupled => d.ithermal = 3)
  /\ d.amta \in Seq(Nat) /\ (d.idrct = 1 => d.amta = << >>)
  /\ \A s \in 1 .. Steps : IsUse(d.namta[s], d.amta)
  /\ d.tinc \in 1 .. Period /\ d.tmin \in 1 .. Period /\ d.tmax \in 1 .. Period
  /\ d.jout \in Nat \ {0}

ASSUME ConstantsAssumption ==
  /\ Steps \in Nat \ {0} /\ Period \in Nat \ {0}
  /\ {Jmax, Ia, Ir, Ic, Delay, Kmax} \subseteq Nat

ASSUME DecksAssumption == \A d \in Decks : IsDeck(d)

VARIABLES deck,                    \* the analysis
          pc, istep,
          theta, dtheta, dthetaref,
          inext, itp,              \* the next time point; 1: the increment ends at one
          istab, icutb, iinc, jprint,
          iit, iitterm, ir, ic, ithermal,
          kscale, negpres,
          vold, vini,              \* the time the solution and the saved one belong to
          written                  \* the times at which results were written

sizes      == <<theta, dtheta, dthetaref, inext, itp, istab>>
counts     == <<icutb, iinc, jprint>>
iterations == <<iit, iitterm, ir, ic, ithermal, kscale>>
vars       == <<deck, pc, istep, sizes, counts, iterations, negpres, vold, vini, written>>

ttime  == (istep - 1) * Period
Now    == ttime + theta
istart == deck.namta[istep].istart
iend   == deck.namta[istep].iend
total  == deck.namta[istep].total
Offset == IF total THEN ttime ELSE 0

\* Time points are taken into account in this step.
TimePoints == istart <= iend /\ deck.idrct = 0

\* A size multiplied by a factor below 1, and by one above 1
Smaller(d) == IF d > 0 THEN 0 .. (d - 1) ELSE d .. 0
Larger(d)  == (d + 1) .. (Period + 1)

Init ==
  /\ deck \in Decks
  /\ pc = "start" /\ istep = 1
  /\ theta = 0 /\ dtheta = 0 /\ dthetaref = 0
  /\ inext = 0 /\ itp = 0 /\ istab = 0
  /\ icutb = 0 /\ iinc = 0 /\ jprint = 0
  /\ iit = 0 /\ iitterm = 0 /\ ir = Ir /\ ic = Ic
  /\ ithermal = deck.ithermal /\ kscale = 1 /\ negpres = 0
  /\ vold = 0 /\ vini = 0 /\ written = {}

-----------------------------------------------------------------------------
(* Time points                                                             *)

\* The last time point of the step that is not after t, istart - 1 if there is none.
identamta(t) ==
  CHOOSE i \in (istart - 1) .. iend : /\ i >= istart => deck.amta[i] <= t
                                      /\ i # iend => deck.amta[i + 1] > t

\* The time point behind an increment that ends at t
inew(t) == identamta(t) + 1

\* checktime, and the start of nonlingeo
checktime ==
  /\ pc = "start"
  /\ LET first == IF total /\ inext # 0 THEN inext ELSE inew(Offset)
         atPoint == TimePoints /\ inew(Offset + deck.tinc) > first
         tinc == IF atPoint THEN deck.amta[first] - Offset ELSE deck.tinc
     IN /\ inext' = IF ~TimePoints THEN inext ELSE IF atPoint THEN first + 1 ELSE first
        /\ itp' = IF atPoint THEN 1 ELSE 0
        /\ dtheta' = tinc /\ dthetaref' = tinc
        /\ pc' = IF atPoint /\ tinc < deck.tmin THEN "stopped" ELSE "load"
  /\ theta' = 0 /\ istab' = 0
  /\ icutb' = 0 /\ iinc' = 0 /\ jprint' = 0
  /\ kscale' = 1 /\ negpres' = 0
  /\ UNCHANGED <<deck, istep, iit, iitterm, ir, ic, ithermal, vold, vini, written>>

-----------------------------------------------------------------------------
(* The increment is tried again                                            *)

\* (mutation: a time point is taken back that was not to end the attempt)
TakeAnyBack == inext' = inext - 1 /\ itp' = 0

\* (mutation: the time point is not taken back)
KeepPoint == UNCHANGED inext /\ itp' = 0

TakePointBack == inext' = inext - itp /\ itp' = 0

\* A new attempt of size d; k is the stiffness reduction found so far.
CutBack(d, k) ==
  /\ dtheta' = d /\ dthetaref' = d /\ istab' = 0
  /\ TakePointBack
  /\ IF d < deck.tmin
       THEN pc' = "stopped" /\ UNCHANGED icutb /\ kscale' = k
       ELSE /\ icutb' = icutb + 1
            /\ kscale' = IF deck.mortar = 1 THEN Kmax ELSE k
            /\ pc' = IF icutb' > Ia THEN "stopped" ELSE "after"

-----------------------------------------------------------------------------
(* The increment loop of nonlingeo                                         *)

SaveState ==
  IF icutb = 0 THEN vini' = vold /\ iinc' = iinc + 1 /\ jprint' = jprint + 1
               ELSE UNCHANGED <<vini, iinc, jprint>>

TooManyIncrements ==
  /\ pc = "load" /\ SaveState /\ iinc' > Jmax
  /\ pc' = "stopped"
  /\ UNCHANGED <<deck, istep, sizes, icutb, iterations, negpres, vold, written>>

BeginIterations ==
  /\ pc = "load" /\ SaveState /\ iinc' <= Jmax
  /\ pc' = "iterate"
  /\ iit' = 1 /\ ir' = Ir /\ ic' = Ic
  /\ ithermal' = IF deck.uncoupled THEN 2 ELSE ithermal
  /\ UNCHANGED <<deck, istep, sizes, icutb, iitterm, kscale, negpres, vold, written>>

\* The networks do not converge for the loads of the increment.  The iteration
\* loop is skipped; that icutb is decreased and increased again is left out.
LoadDiverges ==
  /\ pc = "load" /\ SaveState /\ iinc' <= Jmax
  /\ ithermal > 1
  /\ \E d \in Smaller(dtheta) : CutBack(d, kscale)
  /\ iit' = 1 /\ ir' = Ir /\ ic' = Ic
  /\ ithermal' = IF deck.uncoupled THEN 2 ELSE ithermal
  /\ UNCHANGED <<deck, istep, theta, iitterm, negpres, vold, written>>

\* The networks do not converge in a later iteration.
NetworkDiverges ==
  /\ pc = "iterate" /\ iit # 1 /\ ithermal > 1
  /\ \E d \in Smaller(dtheta) : CutBack(d, kscale)
  /\ ithermal' = IF deck.uncoupled THEN 3 ELSE ithermal
  /\ UNCHANGED <<deck, istep, theta, iinc, jprint, iit, iitterm, ir, ic, negpres, vold, vini,
                 written>>

\* Recorded only in the steps with time points
WriteResults == written' = IF TimePoints THEN written \cup {Now} ELSE written

\* (mutation: that the next increment ends the step is enough)
StepReachedEarly == theta + dtheta = Period

\* The increment ended the step: only then is there a pressure ratio.
StepReached == theta >= Period

LoopOn(th, np) == pc' = IF th < Period \/ np = 1 THEN "load" ELSE "end"

\* The attempt failed: the state is that of the end of the last increment.
Restore ==
  /\ pc = "after" /\ icutb # 0
  /\ vold' = vini /\ iit' = 0
  /\ LoopOn(theta, negpres)
  /\ UNCHANGED <<deck, istep, sizes, counts, iitterm, ir, ic, ithermal, kscale, negpres, vini,
                 written>>

\* The increment converged.  With face-to-face contact a zero-size increment is
\* appended to the step when contact pressures are negative.
EndIncrement ==
  /\ pc = "after" /\ icutb = 0
  /\ iit' = 0
  /\ \/ /\ deck.mortar = 1 /\ ithermal # 2 /\ negpres = 0 /\ StepReached
        /\ negpres' = 1 /\ theta' = Period /\ dtheta' = 0
     \/ negpres' = 0 /\ UNCHANGED <<theta, dtheta>>
  /\ LoopOn(theta', negpres')
  /\ IF jprint = deck.jout
       THEN jprint' = 0 /\ WriteResults
       ELSE UNCHANGED <<jprint, written>>
  /\ UNCHANGED <<deck, istep, dthetaref, inext, itp, istab, icutb, iinc, iitterm, ir, ic,
                 ithermal, kscale, vold, vini>>

EndStep ==
  /\ pc = "end"
  /\ IF jprint # 0 THEN WriteResults ELSE UNCHANGED written
  /\ IF istep = Steps THEN pc' = "finished" /\ UNCHANGED <<istep, theta>>
                      ELSE pc' = "start" /\ istep' = istep + 1 /\ theta' = 0
  /\ UNCHANGED <<deck, dtheta, dthetaref, inext, itp, istab, counts, iterations, negpres, vold,
                 vini>>

-----------------------------------------------------------------------------
(* checkconvergence, after each iteration                                  *)

\* The contact elements, or with mortar > 1 the active set, may change in this
\* iteration.
CanChange ==
  \/ /\ deck.mortar <= 1 /\ ithermal # 2
     /\ iit > 1 \/ deck.uncoupled
     /\ iit <= Freeze \/ deck.mortar = 1
  \/ deck.mortar > 1 /\ iit <= Ndiverg

\* A change of the contact elements gives the iterations more time.
Relax(changed) ==
  /\ changed => CanChange
  /\ IF changed /\ deck.mortar # 1
       THEN ir' = (IF ir < iit + Delay THEN iit + Delay ELSE ir) /\ ic' = ic + 1
       ELSE UNCHANGED <<ir, ic>>

\* The residuals and corrections can be small enough.
CanConverge(changed) ==
  \/ ithermal = 2
  \/ ithermal = 1 /\ iit > 1 /\ ~changed
  \/ ithermal = 3 /\ iit > 1

Converged(changed) == CanConverge(changed) /\ kscale = 1 /\ UNCHANGED kscale

\* Without convergence, or with a reduced stiffness, which is then restored.
Stiffness(changed) == {kscale} \cup (IF CanConverge(changed) THEN {1} ELSE {})

\* (mutation: the thermal phase begins again)
ThermalAgain == iitterm' = iit /\ UNCHANGED ithermal /\ iit' = 1

ThermalDone == iitterm' = iit /\ ithermal' = 1 /\ iit' = 1

ThermalConverged ==
  /\ pc = "iterate" /\ deck.uncoupled /\ ithermal = 2
  /\ \E changed \in BOOLEAN : Relax(changed) /\ Converged(changed)
  /\ ThermalDone
  /\ vold' = Now + dtheta
  /\ UNCHANGED <<deck, pc, istep, sizes, counts, negpres, vini, written>>

As(d, ref, s) == [size |-> d, ref |-> ref, stab |-> s]

\* The sizes the next increment can have, for n iterations of this one.
NextSizes(n, stab) ==
  LET few == IF deck.mortar = 1 THEN Ig + More ELSE Ig
      many == IF deck.mortar = 1 THEN Il + More ELSE Il
  IN IF n > many /\ deck.idrct = 0
       THEN IF deck.mortar = 0 THEN {As(d, d, stab) : d \in Smaller(dthetaref)}
                               ELSE {As(dtheta, dthetaref, stab)}
     ELSE IF n > few THEN {As(dthetaref, dthetaref, 0)}
     ELSE IF stab = 1 /\ deck.idrct = 0 THEN {As(d, d, 1) : d \in Larger(dthetaref)}
     ELSE {As(dthetaref, dthetaref, 1)}

Decreased(n) == n > Il /\ deck.idrct = 0 /\ deck.mortar = 0

\* (mutation: the end of the step is not looked at)
FitLargest(choice, largest, rest) ==
  IF choice.size > largest /\ deck.idrct = 0 THEN As(largest, largest, choice.stab) ELSE choice

\* Not more than the largest size, nor than what is left of the step.
Fit(choice, largest, rest) ==
  LET one == IF choice.size > largest /\ deck.idrct = 0
               THEN As(largest, largest, choice.stab) ELSE choice
  IN IF one.size >= rest THEN As(rest, rest, one.stab) ELSE one

\* (mutation: the time point just reached is the one to end at)
EndAtReached(time, d) ==
  IF inext < inew(time + d)
    THEN dtheta' = deck.amta[inext] - time /\ UNCHANGED inext /\ itp' = 1
    ELSE dtheta' = d /\ UNCHANGED inext /\ itp' = 0

\* (mutation: the time points are passed over)
PassPoint(time, d) == dtheta' = d /\ inext' = inew(time + d) /\ itp' = 0

\* The increment that starts at time and would have size d ends at the next
\* time point if it would reach it.
EndAtPoint(time, d) ==
  IF inext < inew(time + d)
    THEN dtheta' = deck.amta[inext] - time /\ inext' = inext + 1 /\ itp' = 1
    ELSE dtheta' = d /\ UNCHANGED inext /\ itp' = 0

\* Implicit dynamics with contact: an impact or rebound, and the limit on the
\* size that follows from the contact.
Dynamic == deck.dynamic /\ ithermal = 1 /\ ~deck.uncoupled

\* The end of checkimpacts
Clamped(d) == IF d < deck.tmin THEN deck.tmin ELSE IF d > deck.tmax THEN deck.tmax ELSE d

Accept ==
  /\ pc = "iterate" /\ ~(deck.uncoupled /\ ithermal = 2)
  /\ \E changed \in BOOLEAN : Relax(changed) /\ Converged(changed)
  /\ LET n == IF deck.uncoupled THEN iitterm ELSE iit IN
     \E largest \in IF Dynamic THEN {Clamped(d) : d \in 0 .. Period} ELSE {deck.tmax},
        stab \in IF Dynamic THEN {0, 1} ELSE {istab} :
     \E choice \in NextSizes(n, stab) :
       LET fit == Fit(choice, largest, Period - theta - dtheta) IN
       /\ istab' = choice.stab
       /\ dthetaref' = fit.ref
       /\ IF TimePoints
            THEN /\ EndAtPoint(Offset + theta + dtheta, fit.size)
                 /\ jprint' = deck.jout + 1 - itp
            ELSE dtheta' = fit.size /\ UNCHANGED <<inext, itp, jprint>>
       /\ pc' = IF Decreased(n) /\ choice.size < deck.tmin THEN "stopped" ELSE "after"
       /\ iit' = n
  /\ theta' = theta + dtheta /\ icutb' = 0
  /\ ithermal' = IF deck.uncoupled THEN 3 ELSE ithermal
  /\ vold' = Now + dtheta
  /\ UNCHANGED <<deck, istep, iinc, iitterm, negpres, vini, written>>

\* No convergence: the number of iterations
IterationsOver ==
  \/ deck.mortar = 0 /\ iit > ic'
  \/ deck.mortar > 1 /\ iit > MaxMortar

TooManyIterations ==
  /\ pc = "iterate"
  /\ \E changed \in BOOLEAN : Relax(changed)
  /\ IterationsOver
  /\ pc' = "stopped" /\ vold' = Now + dtheta
  /\ UNCHANGED <<deck, istep, sizes, counts, iit, iitterm, ithermal, kscale, negpres, vini,
                 written>>

\* The size of the next attempt after a divergence, or after a slow
\* convergence: with face-to-face contact the first attempt only reduces the
\* contact stiffness.
RetrySizes == IF deck.mortar = 1 /\ icutb = 0 THEN {dtheta} ELSE Smaller(dtheta)

\* (mutation: a rebound asks for the size it had)
ImpactAsBefore == IF deck.mortar = 1 /\ icutb = 0 THEN {dtheta} ELSE {Clamped(dtheta)}

\* checkimpacts: a smaller size, but not below the minimum, which an attempt can be
\* that was to end at a time point or at the end of the step.
ImpactSizes ==
  IF deck.mortar = 1 /\ icutb = 0 THEN {dtheta} ELSE {Clamped(d) : d \in Smaller(dtheta)}

\* Growing residuals; a user material, a temperature change or a creep strain
\* that asks for a smaller size; an impact.
DivergedSizes(changed, k) ==
  RetrySizes \cup Smaller(dtheta)
    \cup (IF Dynamic /\ deck.mortar <= 1 /\ CanConverge(changed) /\ k = 1 THEN ImpactSizes ELSE {})

Diverges ==
  /\ pc = "iterate" /\ deck.idrct = 0
  /\ \E changed \in BOOLEAN : \E k \in Stiffness(changed) :
       /\ Relax(changed)
       /\ \E d \in DivergedSizes(changed, k) : CutBack(d, k)
  /\ ~IterationsOver
  /\ ithermal' = IF deck.uncoupled THEN 3 ELSE ithermal
  /\ vold' = Now + dtheta
  /\ UNCHANGED <<deck, istep, theta, iinc, jprint, iit, iitterm, negpres, vini, written>>

DivergesDirect ==
  /\ pc = "iterate" /\ deck.idrct = 1
  /\ deck.mortar <= 1 \/ iit > MaxMortar
  /\ \E changed \in BOOLEAN : Relax(changed)
  /\ ~IterationsOver
  /\ pc' = "stopped" /\ vold' = Now + dtheta
  /\ UNCHANGED <<deck, istep, sizes, counts, iit, iitterm, ithermal, kscale, negpres, vini,
                 written>>

\* The iterations have to, or can be found to, end without convergence.
HasToEnd == IF deck.mortar = 1 THEN iit = MaxF2F ELSE iit >= ir' /\ iit = ic'
CanEnd   == IF deck.mortar = 1 THEN iit = MaxF2F ELSE iit >= ir'

TooSlow ==
  /\ pc = "iterate" /\ deck.idrct = 0
  /\ \E changed \in BOOLEAN : \E k \in Stiffness(changed) :
       /\ Relax(changed)
       /\ \E d \in RetrySizes : CutBack(d, k)
  /\ ~IterationsOver /\ CanEnd
  /\ ithermal' = IF deck.uncoupled THEN 3 ELSE ithermal
  /\ vold' = Now + dtheta
  /\ UNCHANGED <<deck, istep, theta, iinc, jprint, iit, iitterm, negpres, vini, written>>

NextIteration ==
  /\ pc = "iterate"
  /\ \E changed \in BOOLEAN : \E k \in Stiffness(changed) : Relax(changed) /\ kscale' = k
  /\ ~IterationsOver /\ (deck.idrct = 0 => ~HasToEnd)
  /\ iit' = iit + 1 /\ vold' = Now + dtheta
  /\ UNCHANGED <<deck, pc, istep, sizes, counts, iitterm, ithermal, negpres, vini, written>>

\* The analysis has ended.
Ended == pc \in {"finished", "stopped"} /\ UNCHANGED vars

Next ==
  \/ checktime \/ TooManyIncrements \/ BeginIterations \/ LoadDiverges
  \/ NetworkDiverges \/ ThermalConverged \/ Accept \/ TooManyIterations
  \/ Diverges \/ DivergesDirect \/ TooSlow \/ NextIteration
  \/ Restore \/ EndIncrement \/ EndStep \/ Ended

\* One sequential program, which runs on.
Spec == Init /\ [][Next]_vars /\ WF_vars(Next)

\* An attempt given up is followed by a smaller one, or by one of the same size if
\* it was not to end at a time point.
RetryFits == icutb' = icutb + 1 => dtheta' < dtheta \/ (dtheta' = dtheta /\ itp = 0)

\* The analyses in which every retry fits
FittingSpec == Init /\ [][Next /\ RetryFits]_vars
-----------------------------------------------------------------------------
(* Properties                                                              *)

TypeOK ==
  /\ deck \in Decks /\ istep \in 1 .. Steps
  /\ pc \in {"start", "load", "iterate", "after", "end", "finished", "stopped"}
  /\ theta \in Int /\ dtheta \in Int /\ dthetaref \in Int
  /\ inext \in 0 .. Len(deck.amta) + 1 /\ itp \in {0, 1} /\ istab \in {0, 1}
  /\ icutb \in 0 .. Ia + 1 /\ iinc \in 0 .. Jmax + 1 /\ jprint \in Nat
  /\ iit \in Nat /\ iitterm \in Nat /\ ir \in Nat /\ ic \in Nat
  /\ ithermal \in 1 .. 3 /\ kscale \in {1, Kmax} /\ negpres \in {0, 1}
  /\ vold \in Int /\ vini \in Int /\ written \subseteq Int

Running == pc \in {"load", "iterate", "after"}

\* inext is the first time point after the increments accepted so far, or the one
\* behind it if the increment at hand ends there.  A time point taken twice, or
\* not taken back by a cutback, would be missed or end an increment of no size.
NextTimePoint ==
  Running /\ TimePoints /\ negpres = 0 =>
    /\ inext - itp = inew(Offset + theta)
    /\ itp = 1 => deck.amta[inext - 1] = Offset + theta + dtheta
    /\ itp = 0 => inext > iend \/ Offset + theta + dtheta < deck.amta[inext]

\* checkconvergence.c:466 in its own words: when an increment has converged and the
\* next one is looked for, inext is the smallest time point exceeding its end.
InextExceedsTime ==
  [][pc = "iterate" /\ pc' = "after" /\ icutb' = 0 /\ TimePoints
       => inext = inew(Offset + theta')]_vars

\* No attempt has an increment of size 0, by which the code divides, but for the
\* one appended to a step; none goes back in time.
NoEmptyIncrement == pc \in {"load", "iterate"} /\ negpres = 0 => dtheta > 0

\* However the attempts before it ended, an attempt starts from the state at
\* the end of the last increment accepted, and that state is the one saved.
StartsFromAccepted ==
  /\ pc = "load" => vold = Now
  /\ pc = "iterate" => vini = Now

\* What a retry can be: smaller; with face-to-face contact the first one of the
\* same size with a reduced contact stiffness; and after an impact in dynamics of
\* the minimum size, if the attempt was not larger than that.
RetriesDiffer ==
  [][icutb' = icutb + 1 =>
       \/ dtheta' < dtheta
       \/ deck.mortar = 1 /\ icutb = 0 /\ dtheta' = dtheta /\ kscale' = Kmax
       \/ Dynamic /\ dtheta <= deck.tmin /\ dtheta' = deck.tmin]_vars

\* checkconvergence.c:424 asks for it of the next increment: no attempt reaches
\* over the end of the step.
StaysInStep == pc \in {"load", "iterate"} => theta + dtheta <= Period

\* The analysis keeps the promise of the time control.
PointsOf ==
  {t \in 1 .. Steps * Period :
     /\ deck.idrct = 0
     /\ \E s \in 1 .. Steps : \E i \in deck.namta[s].istart .. deck.namta[s].iend :
          /\ (s - 1) * Period < t /\ t <= s * Period
          /\ deck.amta[i] = IF deck.namta[s].total THEN t ELSE t - (s - 1) * Period}

Clock == INSTANCE TimeStepping
           WITH StepEnds <- {s * Period : s \in 1 .. Steps}, Horizon <- Steps * Period,
                points <- PointsOf,
                now <- Now
KeepsTime == Clock!TimeSpec

\* An analysis that finishes has written its results at every time point.
NoPointMissed == pc = "finished" => PointsOf \subseteq written

\* Every analysis finishes or stops; only fixed increments with face-to-face
\* contact can iterate for ever.
Terminates == (deck.mortar = 1 /\ deck.idrct = 1) \/ <>(pc \in {"finished", "stopped"})
=============================================================================
