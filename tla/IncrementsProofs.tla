-------------------------- MODULE IncrementsProofs --------------------------
(* The increment control keeps its types in every analysis, and what it    *)
(* orders after an attempt given up is one of three things; it keeps its   *)
(* time in every analysis whose time points are distinct, as long as every *)
(* retry fits where the attempt given up was to end.                       *)
EXTENDS Increments, WellFoundedInduction, TLAPS

\* Step s of analysis d has time points.
HasPoints(d, s) == d.namta[s].istart <= d.namta[s].iend

\* No time point of a step is given twice, and time points in total time are those
\* of the step before, or the first of the analysis.
DistinctPoints ==
  \A d \in Decks : \A s \in 1 .. Steps :
    /\ \A i, j \in d.namta[s].istart .. d.namta[s].iend : i < j => d.amta[i] < d.amta[j]
    /\ s > 1 /\ d.namta[s].total => \/ d.namta[s] = d.namta[s - 1]
                                    \/ \A r \in 1 .. s - 1 : ~HasPoints(d, r)

\* Neither face-to-face contact nor dynamics with time points, and dynamics only
\* with the smallest minimum size there is.
SimpleDecks ==
  \A d \in Decks :
    /\ (\E s \in 1 .. Steps : HasPoints(d, s)) => d.mortar # 1 /\ ~d.dynamic
    /\ d.dynamic => d.tmin = 1

-----------------------------------------------------------------------------
(* Time points                                                             *)

\* k is the place of the first time point after t.
IsNext(k, t) ==
  /\ k \in istart .. iend + 1
  /\ k > istart => deck.amta[k - 1] <= t
  /\ k <= iend => t < deck.amta[k]

LEMMA Limits ==
  {Jmax, Ia, Ir, Ic, Delay, Kmax} \subseteq Nat /\ Period \in Nat \ {0} /\ Steps \in Nat \ {0}
BY ConstantsAssumption

LEMMA SmallestOf ==
  ASSUME NEW T \in SUBSET Nat, T # {}
  PROVE  \E m \in T : \A k \in T : m <= k
<1>1. PICK m \in T : \A k \in T : <<k, m>> \notin OpToRel(<, Nat)
  BY WFMin, NatLessThanWellFounded, Zenon
<1>2. \A k \in T : ~(k < m)
  BY <1>1, Zenon DEF OpToRel
<1> QED
  BY <1>2

\* What the input reader guarantees of an analysis and its time points
LEMMA DeckFacts ==
  ASSUME deck \in Decks
  PROVE  /\ deck.mortar \in 0 .. 2 /\ deck.idrct \in {0, 1} /\ deck.ithermal \in 1 .. 3
         /\ deck.tmin \in 1 .. Period /\ deck.tmax \in 1 .. Period /\ deck.tinc \in 1 .. Period
         /\ deck.jout \in Nat \ {0}
         /\ deck.dynamic \in BOOLEAN
BY DecksAssumption DEF IsDeck

LEMMA PointsRise ==
  ASSUME deck \in Decks, istep \in 1 .. Steps
  PROVE  /\ Len(deck.amta) \in Nat /\ istart \in Nat \ {0} /\ iend \in (istart - 1) .. Len(deck.amta)
         /\ total \in BOOLEAN
         /\ \A i \in 1 .. Len(deck.amta) : deck.amta[i] \in Nat
         /\ \A i, j \in istart .. iend : i <= j => deck.amta[i] <= deck.amta[j]
<1>1. deck.amta \in Seq(Nat) /\ IsUse(deck.namta[istep], deck.amta)
  BY DecksAssumption DEF IsDeck
<1>2. Len(deck.amta) \in Nat /\ \A i \in 1 .. Len(deck.amta) : deck.amta[i] \in Nat
  BY <1>1
<1>3. istart \in Nat \ {0} /\ iend \in (istart - 1) .. Len(deck.amta) /\ total \in BOOLEAN
  BY <1>1 DEF IsUse, istart, iend, total
<1>4. \A i, j \in istart .. iend : i < j => deck.amta[i] <= deck.amta[j]
  BY <1>1 DEF IsUse, istart, iend
<1>5. \A i, j \in istart .. iend : i <= j => deck.amta[i] <= deck.amta[j]
  BY <1>2, <1>3, <1>4
<1> QED
  BY <1>2, <1>3, <1>5

\* Time points are taken into account in all steps that have some.
LEMMA WithPoints ==
  ASSUME deck \in Decks, istep \in 1 .. Steps
  PROVE  /\ TimePoints <=> HasPoints(deck, istep)
         /\ TimePoints <=> istart <= iend
<1>1. deck.idrct = 1 => Len(deck.amta) = 0
  BY DecksAssumption DEF IsDeck
<1>2. istart <= iend => deck.idrct = 0
  BY <1>1, DeckFacts, PointsRise
<1> QED
  BY <1>2 DEF TimePoints, HasPoints, istart, iend

\* identamta and inew find the place.
LEMMA NextFound ==
  ASSUME deck \in Decks, istep \in 1 .. Steps, NEW t \in Int
  PROVE  IsNext(inew(t), t)
<1> DEFINE T == {k \in istart .. iend + 1 : k <= iend => t < deck.amta[k]}
           At(i) == (i >= istart => deck.amta[i] <= t) /\ (i # iend => deck.amta[i + 1] > t)
<1>1. /\ istart \in Nat \ {0} /\ iend \in Nat /\ iend >= istart - 1
      /\ \A i \in istart .. iend : deck.amta[i] \in Nat
  BY PointsRise
<1>2. T \in SUBSET Nat /\ iend + 1 \in T
  BY <1>1
<1>3. PICK m \in T : \A k \in T : m <= k
  BY <1>2, SmallestOf
<1>4. m - 1 \in (istart - 1) .. iend /\ At(m - 1)
  <2>1. m \in istart .. iend + 1 /\ (m <= iend => t < deck.amta[m])
    OBVIOUS
  <2>2. m - 1 >= istart => m - 1 \notin T
    BY <1>1, <1>3, <2>1
  <2>3. m - 1 >= istart => deck.amta[m - 1] <= t
    BY <1>1, <2>1, <2>2
  <2> QED
    BY <1>1, <2>1, <2>3
<1>5. identamta(t) \in (istart - 1) .. iend /\ At(identamta(t))
  <2>1. identamta(t) = CHOOSE i \in (istart - 1) .. iend : At(i)
    BY DEF identamta
  <2> HIDE DEF At
  <2> QED
    BY <1>4, <2>1
<1> QED
  BY <1>1, <1>5 DEF inew, IsNext

\* The place is the only one.
LEMMA NextUnique ==
  ASSUME deck \in Decks, istep \in 1 .. Steps, NEW t \in Int, NEW k, NEW l,
         IsNext(k, t), IsNext(l, t)
  PROVE  k = l
<1>1. /\ istart \in Nat \ {0} /\ iend \in Nat
      /\ \A i \in istart .. iend : deck.amta[i] \in Nat
      /\ \A i, j \in istart .. iend : i <= j => deck.amta[i] <= deck.amta[j]
  BY PointsRise
<1>2. k \in istart .. iend + 1 /\ l \in istart .. iend + 1
  BY DEF IsNext
<1>3. ~(k < l)
  <2> SUFFICES ASSUME k < l PROVE FALSE
    OBVIOUS
  <2>1. t < deck.amta[k] /\ deck.amta[l - 1] <= t /\ k \in istart .. iend /\ l - 1 \in istart .. iend
    BY <1>1, <1>2 DEF IsNext
  <2> QED
    BY <1>1, <1>2, <2>1
<1>4. ~(l < k)
  <2> SUFFICES ASSUME l < k PROVE FALSE
    OBVIOUS
  <2>1. t < deck.amta[l] /\ deck.amta[k - 1] <= t /\ l \in istart .. iend /\ k - 1 \in istart .. iend
    BY <1>1, <1>2 DEF IsNext
  <2> QED
    BY <1>1, <1>2, <2>1
<1> QED
  BY <1>1, <1>2, <1>3, <1>4

-----------------------------------------------------------------------------
(* The inductive invariant                                                 *)

\* The types; and while the analysis runs, the counters are within their limits and
\* there is a time point to take back when one was taken.
Types ==
  /\ TypeOK
  /\ Running => /\ icutb <= Ia /\ iinc <= Jmax
                /\ IF TimePoints THEN inext - itp >= 1 ELSE itp = 0

\* An increment is being attempted, or is going to be attempted again.
Attempt == pc \in {"load", "iterate"} \/ (pc = "after" /\ icutb # 0)

\* The sizes: an attempt stays in the step and has something to do, but for the
\* increment appended to a step, which is never cut back.
Sizes ==
  pc # "stopped" =>
    /\ theta \in 0 .. Period /\ dtheta \in 0 .. Period /\ dthetaref \in 0 .. Period
    /\ theta + dtheta <= Period
    /\ Running /\ theta < Period => dtheta > 0 /\ dthetaref > 0
    /\ Attempt /\ negpres = 0 => theta < Period
    /\ Running /\ negpres = 1 => deck.mortar = 1 /\ theta = Period /\ icutb = 0
    /\ pc = "start" => theta = 0
    /\ pc \in {"end", "finished"} => theta = Period

\* The states: which time the solution and the saved one belong to
Saved ==
  /\ pc \in {"start", "load", "end"} => vold = Now
  /\ pc = "load" /\ icutb # 0 => vini = Now
  /\ pc = "iterate" => vini = Now
  /\ pc = "after" => IF icutb = 0 THEN vold = Now ELSE vini = Now

\* Where the attempt at hand ends, if at a time point
EndsAt ==
  /\ itp = 1 => inext <= iend + 1 /\ deck.amta[inext - 1] = Offset + theta + dtheta
  /\ itp = 0 => inext > iend \/ Offset + theta + dtheta < deck.amta[inext]

\* No step so far had time points.
Untouched == \A r \in 1 .. istep : r < istep \/ pc # "start" => ~HasPoints(deck, r)

\* The time points: which is the next
NextPoint ==
  /\ Untouched => inext = 0
  /\ Running /\ TimePoints => IsNext(inext - itp, Offset + theta) /\ EndsAt
  /\ pc = "end" /\ TimePoints => IsNext(inext, Offset + theta)
  /\ pc = "start" /\ TimePoints /\ total /\ inext # 0 => IsNext(inext, Offset)

\* The results: written at each time point passed, or about to be
AboutToWrite == TimePoints /\ pc = "after" /\ icutb = 0 /\ jprint = deck.jout

WrittenSoFar ==
  /\ pc = "finished" => istep = Steps
  /\ \A p \in PointsOf : p < Now => p \in written
  /\ Now \in PointsOf => Now \in written \/ AboutToWrite \/ pc = "stopped"
  /\ AboutToWrite => Now \in PointsOf

Control == Types /\ Sizes /\ Saved /\ NextPoint

-----------------------------------------------------------------------------
(* Facts for the steps                                                     *)

LEMMA Numbers ==
  ASSUME TypeOK
  PROVE  /\ deck \in Decks /\ istep \in 1 .. Steps
         /\ Period \in Nat \ {0} /\ Steps \in Nat \ {0}
         /\ theta \in Int /\ dtheta \in Int /\ dthetaref \in Int
         /\ ttime \in Nat /\ Offset \in Nat /\ Now \in Int /\ Now = ttime + theta
         /\ itp \in {0, 1} /\ inext \in Nat /\ inext \in 0 .. Len(deck.amta) + 1
         /\ negpres \in {0, 1}
<1>1. /\ Period \in Nat \ {0} /\ Steps \in Nat \ {0} /\ istep \in 1 .. Steps
      /\ theta \in Int /\ dtheta \in Int /\ dthetaref \in Int
      /\ itp \in {0, 1} /\ inext \in 0 .. Len(deck.amta) + 1 /\ negpres \in {0, 1} /\ deck \in Decks
  BY Limits DEF TypeOK
<1>2. ttime \in Nat
  BY <1>1 DEF ttime
<1>3. inext \in Nat
  BY <1>1, PointsRise
<1> QED
  BY <1>1, <1>2, <1>3 DEF Now, Offset

LEMMA CountTypes ==
  ASSUME Types
  PROVE  /\ iinc \in 0 .. Jmax + 1 /\ jprint \in Nat /\ iit \in Nat /\ iitterm \in Nat
         /\ ir \in Nat /\ ic \in Nat /\ ithermal \in 1 .. 3 /\ kscale \in {1, Kmax}
         /\ vold \in Int /\ vini \in Int /\ written \subseteq Int /\ istab \in {0, 1}
         /\ icutb \in 0 .. Ia + 1 /\ (Running => icutb <= Ia /\ iinc <= Jmax)
         /\ Now + dtheta \in Int
<1>1. Now + dtheta \in Int
  BY Numbers DEF Types
<1> QED
  BY <1>1 DEF Types, TypeOK

\* What depends on the analysis and the step alone
LEMMA SameStep ==
  ASSUME UNCHANGED <<deck, istep>>
  PROVE  /\ istart' = istart /\ iend' = iend /\ total' = total
         /\ ttime' = ttime /\ Offset' = Offset /\ TimePoints' = TimePoints
         /\ PointsOf' = PointsOf
         /\ \A k, t : IsNext(k, t)' = IsNext(k, t)
<1>1. istart' = istart /\ iend' = iend /\ ttime' = ttime /\ total' = total
  BY DEF istart, iend, ttime, total
<1>2. Offset' = Offset /\ TimePoints' = TimePoints
  BY <1>1 DEF Offset, TimePoints
<1>3. PointsOf' = PointsOf
  BY DEF PointsOf
<1> QED
  BY <1>1, <1>2, <1>3 DEF IsNext

-----------------------------------------------------------------------------
(* The types                                                               *)

LEMMA SmallerRange ==
  ASSUME NEW d \in Int, NEW e \in Smaller(d)
  PROVE  e \in Int /\ (e < d \/ e <= 0)
BY DEF Smaller

LEMMA RelaxTypes ==
  ASSUME Types, NEW changed, Relax(changed)
  PROVE  ir' \in Nat /\ ic' \in Nat
<1>1. ir \in Nat /\ ic \in Nat /\ iit \in Nat
  BY DEF Types, TypeOK
<1> QED
  BY <1>1, Limits DEF Relax

LEMMA SaveTypes ==
  ASSUME Types, SaveState, Running
  PROVE  vini' \in Int /\ iinc' \in 0 .. Jmax + 1 /\ jprint' \in Nat
<1>1. vini \in Int /\ vold \in Int /\ iinc \in 0 .. Jmax /\ jprint \in Nat
  BY Limits DEF Types, TypeOK
<1> QED
  BY <1>1, Limits DEF SaveState

LEMMA StiffnessTypes ==
  ASSUME Types, NEW changed, NEW k \in Stiffness(changed)
  PROVE  k \in {1, Kmax}
BY DEF Types, TypeOK, Stiffness

\* The steps that leave the time and the sizes alone
LEMMA SteadyTypes ==
  ASSUME Types, UNCHANGED <<deck, istep, sizes, icutb, negpres>>,
         pc' \in {"load", "iterate", "after", "stopped"}, pc' = "stopped" \/ Running,
         iinc' \in 0 .. Jmax + 1, pc' = "stopped" \/ iinc' <= Jmax,
         jprint' \in Nat, iit' \in Nat, iitterm' \in Nat, ir' \in Nat, ic' \in Nat,
         ithermal' \in 1 .. 3, kscale' \in {1, Kmax}, vold' \in Int, vini' \in Int,
         written' \subseteq Int
  PROVE  Types'
<1>1. TimePoints' = TimePoints
  BY SameStep
<1>2. TypeOK'
  BY DEF Types, TypeOK, sizes
<1>3. Running' => /\ icutb' <= Ia /\ iinc' <= Jmax
                  /\ IF TimePoints' THEN inext' - itp' >= 1 ELSE itp' = 0
  BY <1>1 DEF Types, Running, sizes
<1> QED
  BY <1>2, <1>3 DEF Types

\* The steps inside the iterations that leave the sizes alone
LEMMA SteadyActions ==
  ASSUME Types,
         \/ TooManyIncrements \/ BeginIterations \/ ThermalConverged
         \/ TooManyIterations \/ DivergesDirect \/ NextIteration
  PROVE  Types'
<1>1. CASE TooManyIncrements
  <2>1. vini' \in Int /\ iinc' \in 0 .. Jmax + 1 /\ jprint' \in Nat
    BY <1>1, SaveTypes DEF TooManyIncrements, Running
  <2> QED
    BY <1>1, <2>1, SteadyTypes, CountTypes DEF TooManyIncrements, iterations
<1>2. CASE BeginIterations
  <2>1. vini' \in Int /\ iinc' \in 0 .. Jmax + 1 /\ jprint' \in Nat
    BY <1>2, SaveTypes DEF BeginIterations, Running
  <2>2. iit' \in Nat /\ ir' \in Nat /\ ic' \in Nat /\ ithermal' \in 1 .. 3
    BY <1>2, Limits, CountTypes DEF BeginIterations
  <2> QED
    BY <1>2, <2>1, <2>2, SteadyTypes, CountTypes DEF BeginIterations, Running
<1>3. CASE ThermalConverged
  <2>1. ir' \in Nat /\ ic' \in Nat /\ kscale' \in {1, Kmax}
    BY <1>3, RelaxTypes, CountTypes DEF ThermalConverged, Converged
  <2>2. iit' \in Nat /\ iitterm' \in Nat /\ ithermal' \in 1 .. 3 /\ vold' \in Int
    BY <1>3, CountTypes DEF ThermalConverged, ThermalDone
  <2> QED
    BY <1>3, <2>1, <2>2, SteadyTypes, CountTypes DEF ThermalConverged, counts, Running
<1>4. CASE TooManyIterations
  <2>1. ir' \in Nat /\ ic' \in Nat
    BY <1>4, RelaxTypes DEF TooManyIterations
  <2> QED
    BY <1>4, <2>1, SteadyTypes, CountTypes DEF TooManyIterations, counts
<1>5. CASE DivergesDirect
  <2>1. ir' \in Nat /\ ic' \in Nat
    BY <1>5, RelaxTypes DEF DivergesDirect
  <2> QED
    BY <1>5, <2>1, SteadyTypes, CountTypes DEF DivergesDirect, counts
<1>6. CASE NextIteration
  <2>1. ir' \in Nat /\ ic' \in Nat /\ kscale' \in {1, Kmax}
    BY <1>6, RelaxTypes, StiffnessTypes DEF NextIteration
  <2>2. iit' \in Nat
    BY <1>6, CountTypes DEF NextIteration
  <2> QED
    BY <1>6, <2>1, <2>2, SteadyTypes, CountTypes DEF NextIteration, counts, Running
<1> QED
  BY <1>1, <1>2, <1>3, <1>4, <1>5, <1>6

\* How the size of a retry can be related to that of the attempt given up
Differs(d) ==
  \/ d < deck.tmin
  \/ d < dtheta
  \/ deck.mortar = 1 /\ icutb = 0 /\ d = dtheta
  \/ /\ Dynamic /\ dtheta <= deck.tmin /\ d = deck.tmin
     /\ ~(deck.mortar = 1 /\ icutb = 0)

LEMMA SmallerDiffers ==
  ASSUME Types, NEW d \in Smaller(dtheta)
  PROVE  d \in Int /\ Differs(d)
<1>1. dtheta \in Int /\ deck.tmin \in 1 .. Period /\ Period \in Nat
  BY Numbers, DeckFacts DEF Types
<1>2. d \in Int /\ (d < dtheta \/ d <= 0)
  BY <1>1, SmallerRange
<1> QED
  BY <1>1, <1>2 DEF Differs

LEMMA DivergedDiffers ==
  ASSUME Types, NEW changed, NEW k, NEW d \in DivergedSizes(changed, k)
  PROVE  d \in Int /\ Differs(d)
<1>1. /\ dtheta \in Int /\ Period \in Nat
      /\ deck.tmin \in 1 .. Period /\ deck.tmax \in 1 .. Period
  BY Numbers, DeckFacts DEF Types
<1>2. CASE d \in Smaller(dtheta)
  BY <1>2, SmallerDiffers
<1>3. CASE d = dtheta /\ deck.mortar = 1 /\ icutb = 0
  BY <1>1, <1>3 DEF Differs
<1>4. CASE /\ Dynamic /\ ~(deck.mortar = 1 /\ icutb = 0)
           /\ \E e \in Smaller(dtheta) : d = Clamped(e)
  <2>1. PICK e \in Smaller(dtheta) : d = Clamped(e)
    BY <1>4
  <2>2. e \in Int /\ (e < dtheta \/ e <= 0)
    BY <1>1, <2>1, SmallerRange
  <2>3. CASE e < deck.tmin
    <3>1. d = deck.tmin
      BY <2>1, <2>3 DEF Clamped
    <3> QED
      BY <1>1, <1>4, <3>1 DEF Differs
  <2>4. CASE ~(e < deck.tmin)
    <3>1. d \in Int /\ d <= e /\ e < dtheta
      BY <1>1, <2>1, <2>2, <2>4 DEF Clamped
    <3> QED
      BY <1>1, <2>2, <3>1 DEF Differs
  <2> QED
    BY <2>3, <2>4
<1> QED
  BY <1>2, <1>3, <1>4 DEF DivergedSizes, RetrySizes, ImpactSizes

\* A cutback keeps the types, if what the step does besides keeps them.
LEMMA CutBackTypes ==
  ASSUME Types, pc \in {"load", "iterate"}, NEW d \in Int, NEW k \in {1, Kmax}, CutBack(d, k),
         UNCHANGED <<deck, istep, theta, negpres>>,
         iinc' \in 0 .. Jmax + 1, iinc' <= Jmax, jprint' \in Nat, iit' \in Nat, iitterm' \in Nat,
         ir' \in Nat, ic' \in Nat, ithermal' \in 1 .. 3, vold' \in Int, vini' \in Int,
         written' \subseteq Int
  PROVE  Types'
<1>1. TimePoints' = TimePoints
  BY SameStep
<1>2. /\ dtheta' = d /\ dthetaref' = d /\ istab' = 0 /\ inext' = inext - itp /\ itp' = 0
      /\ kscale' \in {1, Kmax} /\ pc' \in {"after", "stopped"}
  BY DEF CutBack, TakePointBack
<1>3. /\ icutb' = icutb \/ icutb' = icutb + 1
      /\ pc' = "after" => icutb' <= Ia
  BY CountTypes, Limits DEF CutBack, Running
<1>4. icutb \in 0 .. Ia /\ Ia \in Nat
  BY CountTypes, Limits DEF Running
<1>5. inext \in 0 .. Len(deck.amta) + 1 /\ inext \in Nat /\ itp \in {0, 1} /\ Len(deck.amta) \in Nat
  BY Numbers, PointsRise DEF Types
<1>6. IF TimePoints THEN inext - itp >= 1 ELSE itp = 0
  BY DEF Types, Running
<1>7. inext' \in 0 .. Len(deck'.amta) + 1 /\ (TimePoints => inext' - itp' >= 1)
  BY <1>2, <1>5, <1>6
<1>8. icutb' \in 0 .. Ia + 1
  BY <1>3, <1>4
<1>9. TypeOK'
  BY <1>2, <1>7, <1>8 DEF Types, TypeOK
<1> QED
  BY <1>1, <1>2, <1>3, <1>7, <1>9 DEF Types, Running

\* Every step that gives an attempt up is a cutback to another size.
LEMMA GivenUp ==
  ASSUME Types, LoadDiverges \/ NetworkDiverges \/ Diverges \/ TooSlow
  PROVE  /\ Types'
         /\ pc \in {"load", "iterate"} /\ UNCHANGED <<deck, istep, theta, negpres, written>>
         /\ \E d \in Int, k \in {1, Kmax} : CutBack(d, k) /\ Differs(d)
         /\ (pc = "load" /\ SaveState) \/ (pc = "iterate" /\ vini' = vini)
<1>1. CASE LoadDiverges
  <2>1. PICK d \in Smaller(dtheta) : CutBack(d, kscale)
    BY <1>1 DEF LoadDiverges
  <2>2. /\ pc = "load" /\ UNCHANGED <<deck, istep, theta, negpres, iitterm, vold, written>>
        /\ SaveState /\ iinc' <= Jmax /\ iit' = 1 /\ ir' = Ir /\ ic' = Ic
        /\ ithermal' = IF deck.uncoupled THEN 2 ELSE ithermal
    BY <1>1 DEF LoadDiverges
  <2>3. d \in Int /\ Differs(d) /\ kscale \in {1, Kmax}
    BY <2>1, SmallerDiffers, CountTypes
  <2>4. vini' \in Int /\ iinc' \in 0 .. Jmax + 1 /\ jprint' \in Nat
    BY <2>2, SaveTypes DEF Running
  <2>5. iit' \in Nat /\ ir' \in Nat /\ ic' \in Nat /\ ithermal' \in 1 .. 3
    BY <2>2, Limits, CountTypes
  <2>6. Types'
    BY <2>1, <2>2, <2>3, <2>4, <2>5, CutBackTypes, CountTypes
  <2> QED
    BY <2>1, <2>2, <2>3, <2>6
<1>2. CASE NetworkDiverges
  <2>1. PICK d \in Smaller(dtheta) : CutBack(d, kscale)
    BY <1>2 DEF NetworkDiverges
  <2>2. /\ pc = "iterate"
        /\ UNCHANGED <<deck, istep, theta, iinc, jprint, iit, iitterm, ir, ic, negpres, vold, vini,
                       written>>
        /\ ithermal' = IF deck.uncoupled THEN 3 ELSE ithermal
    BY <1>2 DEF NetworkDiverges
  <2>3. d \in Int /\ Differs(d) /\ kscale \in {1, Kmax}
    BY <2>1, SmallerDiffers, CountTypes
  <2>4. ithermal' \in 1 .. 3 /\ iinc' <= Jmax
    BY <2>2, CountTypes DEF Running
  <2>5. Types'
    BY <2>1, <2>2, <2>3, <2>4, CutBackTypes, CountTypes
  <2> QED
    BY <2>1, <2>2, <2>3, <2>5
<1>3. CASE Diverges \/ TooSlow
  <2>1. PICK changed \in BOOLEAN :
          \E k \in Stiffness(changed) :
            Relax(changed) /\ \E d \in DivergedSizes(changed, k) : CutBack(d, k)
    <3>1. CASE Diverges
      BY <3>1, Zenon DEF Diverges
    <3>2. CASE TooSlow
      <4>1. \A changed, k : RetrySizes \subseteq DivergedSizes(changed, k)
        BY Zenon DEF DivergedSizes
      <4> QED
        BY <3>2, <4>1, Zenon DEF TooSlow
    <3> QED
      BY <1>3, <3>1, <3>2
  <2>2. PICK k \in Stiffness(changed) :
          Relax(changed) /\ \E d \in DivergedSizes(changed, k) : CutBack(d, k)
    BY <2>1
  <2>3. PICK d \in DivergedSizes(changed, k) : Relax(changed) /\ CutBack(d, k)
    BY <2>2
  <2>4. /\ pc = "iterate" /\ vold' = Now + dtheta
        /\ UNCHANGED <<deck, istep, theta, iinc, jprint, iit, iitterm, negpres, vini, written>>
        /\ ithermal' = IF deck.uncoupled THEN 3 ELSE ithermal
    BY <1>3 DEF Diverges, TooSlow
  <2>5. d \in Int /\ Differs(d) /\ k \in {1, Kmax}
    BY <2>3, DivergedDiffers, StiffnessTypes
  <2>6. ithermal' \in 1 .. 3 /\ iinc' <= Jmax
    BY <2>4, CountTypes DEF Running
  <2>7. ir' \in Nat /\ ic' \in Nat
    BY <2>3, RelaxTypes
  <2>8. Types'
    BY <2>3, <2>4, <2>5, <2>6, <2>7, CutBackTypes, CountTypes
  <2> QED
    BY <2>3, <2>4, <2>5, <2>8
<1> QED
  BY <1>1, <1>2, <1>3

\* The place of the time point at hand is less than that of the one behind it.
LEMMA PlaceTypes ==
  ASSUME TypeOK, NEW t \in Int, NEW f \in Nat \ {0}, f < inew(t)
  PROVE  f \in 1 .. Len(deck.amta) /\ f <= iend /\ deck.amta[f] \in Nat
<1>1. /\ istart \in Nat \ {0} /\ iend \in Nat /\ iend <= Len(deck.amta) /\ Len(deck.amta) \in Nat
      /\ \A i \in 1 .. Len(deck.amta) : deck.amta[i] \in Nat
  BY Numbers, PointsRise
<1>2. inew(t) \in istart .. iend + 1
  BY Numbers, NextFound DEF IsNext
<1> QED
  BY <1>1, <1>2

LEMMA CheckTimeTypes ==
  ASSUME Types, checktime
  PROVE  Types'
<1>1. /\ deck \in Decks /\ istep \in 1 .. Steps /\ Offset \in Nat /\ inext \in Nat
      /\ inext \in 0 .. Len(deck.amta) + 1
  BY Numbers DEF Types
<1>2. /\ istart \in Nat \ {0} /\ iend \in Nat /\ iend <= Len(deck.amta) /\ Len(deck.amta) \in Nat
  BY <1>1, PointsRise
<1>3. deck.tinc \in 1 .. Period /\ Period \in Nat
  BY <1>1, DeckFacts, Limits
<1> DEFINE first == IF total /\ inext # 0 THEN inext ELSE inew(Offset)
           atPoint == TimePoints /\ inew(Offset + deck.tinc) > first
           tinc == IF atPoint THEN deck.amta[first] - Offset ELSE deck.tinc
<1>4. /\ inext' = IF ~TimePoints THEN inext ELSE IF atPoint THEN first + 1 ELSE first
      /\ itp' = IF atPoint THEN 1 ELSE 0
      /\ dtheta' = tinc /\ dthetaref' = tinc
      /\ pc' \in {"load", "stopped"} /\ theta' = 0 /\ istab' = 0 /\ icutb' = 0 /\ iinc' = 0
      /\ jprint' = 0 /\ kscale' = 1 /\ negpres' = 0
      /\ UNCHANGED <<deck, istep, iit, iitterm, ir, ic, ithermal, vold, vini, written>>
  BY DEF checktime
<1>5. TimePoints' = TimePoints
  BY <1>4, SameStep
<1>6. first \in Nat \ {0} /\ first <= Len(deck.amta) + 1
  <2>1. inew(Offset) \in istart .. iend + 1
    BY <1>1, NextFound DEF IsNext
  <2> QED
    BY <1>1, <1>2, <2>1
<1> HIDE DEF first
<1>7. atPoint => first <= Len(deck.amta) /\ deck.amta[first] \in Nat
  <2> SUFFICES ASSUME atPoint PROVE first <= Len(deck.amta) /\ deck.amta[first] \in Nat
    OBVIOUS
  <2>1. Offset + deck.tinc \in Int
    BY <1>1, <1>3
  <2>2. IsNext(inew(Offset + deck.tinc), Offset + deck.tinc)
    BY <1>1, <2>1, NextFound
  <2>3. inew(Offset + deck.tinc) \in Int
    BY <1>2, <2>2 DEF IsNext
  <2>4. first < inew(Offset + deck.tinc)
    BY <1>6, <2>3
  <2> QED
    BY <1>2, <1>6, <2>1, <2>4, PlaceTypes DEF Types
<1> HIDE DEF atPoint
<1>8. tinc \in Int
  BY <1>1, <1>3, <1>7
<1> HIDE DEF tinc
<1>9. inext' \in 0 .. Len(deck'.amta) + 1 /\ itp' \in {0, 1}
  BY <1>1, <1>2, <1>4, <1>6, <1>7
<1>10. IF TimePoints THEN inext' - itp' >= 1 ELSE itp' = 0
  BY <1>4, <1>6 DEF atPoint
<1>11. TypeOK'
  BY <1>4, <1>8, <1>9, Limits DEF Types, TypeOK
<1> QED
  BY <1>4, <1>5, <1>10, <1>11, Limits DEF Types, Running

LEMMA EndAtPointTypes ==
  ASSUME TypeOK, inext >= 1, NEW t \in Int, NEW d \in Int, EndAtPoint(t, d)
  PROVE  /\ dtheta' \in Int /\ itp' \in {0, 1} /\ inext' \in 0 .. Len(deck.amta) + 1
         /\ inext' - itp' = inext
<1>1. inext \in Nat \ {0} /\ inext \in 0 .. Len(deck.amta) + 1 /\ Len(deck.amta) \in Nat
  BY Numbers, PointsRise
<1>2. CASE inext < inew(t + d)
  <2>1. dtheta' = deck.amta[inext] - t /\ inext' = inext + 1 /\ itp' = 1
    BY <1>2 DEF EndAtPoint
  <2>2. inext \in 1 .. Len(deck.amta) /\ deck.amta[inext] \in Nat
    <3>1. t + d \in Int
      OBVIOUS
    <3> QED
      BY <1>1, <1>2, <3>1, PlaceTypes
  <2> QED
    BY <1>1, <2>1, <2>2
<1>3. CASE ~(inext < inew(t + d))
  BY <1>1, <1>3 DEF EndAtPoint
<1> QED
  BY <1>2, <1>3

\* The sizes the next increment can have are numbers.
LEMMA FitTypes ==
  ASSUME Types, NEW n, NEW stab \in {0, 1}, NEW largest \in Int,
         NEW rest \in Int, NEW choice \in NextSizes(n, stab)
  PROVE  /\ Fit(choice, largest, rest).size \in Int /\ Fit(choice, largest, rest).ref \in Int
         /\ choice.stab \in {0, 1}
<1>1. Period \in Nat /\ dtheta \in Int /\ dthetaref \in Int
  BY Numbers DEF Types
<1>2. PICK d \in Int, r \in Int, s \in {0, 1} : choice = As(d, r, s)
  <2>1. CASE \E d \in Smaller(dthetaref) : choice = As(d, d, stab)
    BY <1>1, <2>1, SmallerRange
  <2>2. CASE choice = As(dtheta, dthetaref, stab)
    BY <1>1, <2>2
  <2>3. CASE choice \in {As(dthetaref, dthetaref, 0), As(dthetaref, dthetaref, 1)}
    BY <1>1, <2>3
  <2>4. CASE \E d \in Larger(dthetaref) : choice = As(d, d, 1)
    BY <1>1, <2>4 DEF Larger
  <2> QED
    BY <2>1, <2>2, <2>3, <2>4 DEF NextSizes
<1>3. choice.size = d /\ choice.ref = r /\ choice.stab = s
  BY <1>2 DEF As
<1>4. Fit(choice, largest, rest) \in {As(d, r, s), As(largest, largest, s), As(rest, rest, s)}
  BY <1>2, <1>3 DEF Fit, As
<1> QED
  BY <1>3, <1>4 DEF As

\* What the acceptance of an increment does: d is the size that fits in the step.
AcceptedBy(d) ==
  /\ pc = "iterate" /\ pc' \in {"after", "stopped"}
  /\ IF TimePoints THEN EndAtPoint(Offset + theta + dtheta, d) /\ jprint' = deck.jout + 1 - itp
                   ELSE dtheta' = d /\ UNCHANGED <<inext, itp, jprint>>
  /\ dthetaref' \in Int /\ istab' \in {0, 1}
  /\ theta' = theta + dtheta /\ icutb' = 0 /\ vold' = Now + dtheta
  /\ UNCHANGED <<deck, istep, iinc, iitterm, negpres, vini, written>>

LEMMA LargestRange ==
  ASSUME Types, NEW largest \in IF Dynamic THEN {Clamped(d) : d \in 0 .. Period} ELSE {deck.tmax}
  PROVE  largest \in 1 .. Period
<1>1. deck.tmin \in 1 .. Period /\ deck.tmax \in 1 .. Period /\ Period \in Nat
  BY Numbers, DeckFacts DEF Types
<1> QED
  BY <1>1 DEF Clamped

LEMMA AcceptAccepts ==
  ASSUME Types, Accept
  PROVE  \E n \in Nat, stab \in {0, 1}, largest \in 1 .. Period : \E choice \in NextSizes(n, stab) :
           LET fit == Fit(choice, largest, Period - theta - dtheta)
           IN  /\ AcceptedBy(fit.size) /\ fit.size \in Int
               /\ dthetaref' = fit.ref
               /\ pc' = IF Decreased(n) /\ choice.size < deck.tmin THEN "stopped" ELSE "after"
<1> DEFINE n == IF deck.uncoupled THEN iitterm ELSE iit
           rest == Period - theta - dtheta
<1>1. PICK largest \in IF Dynamic THEN {Clamped(d) : d \in 0 .. Period} ELSE {deck.tmax},
           stab \in IF Dynamic THEN {0, 1} ELSE {istab} :
        \E choice \in NextSizes(n, stab) :
          LET fit == Fit(choice, largest, rest) IN
          /\ istab' = choice.stab
          /\ dthetaref' = fit.ref
          /\ IF TimePoints
               THEN /\ EndAtPoint(Offset + theta + dtheta, fit.size)
                    /\ jprint' = deck.jout + 1 - itp
               ELSE dtheta' = fit.size /\ UNCHANGED <<inext, itp, jprint>>
          /\ pc' = IF Decreased(n) /\ choice.size < deck.tmin THEN "stopped" ELSE "after"
          /\ iit' = n
  BY DEF Accept
<1>2. PICK choice \in NextSizes(n, stab) :
          LET fit == Fit(choice, largest, rest) IN
          /\ istab' = choice.stab
          /\ dthetaref' = fit.ref
          /\ IF TimePoints
               THEN /\ EndAtPoint(Offset + theta + dtheta, fit.size)
                    /\ jprint' = deck.jout + 1 - itp
               ELSE dtheta' = fit.size /\ UNCHANGED <<inext, itp, jprint>>
          /\ pc' = IF Decreased(n) /\ choice.size < deck.tmin THEN "stopped" ELSE "after"
  BY <1>1
<1>8. n \in Nat
  BY CountTypes
<1> HIDE DEF n
<1>3. largest \in 1 .. Period /\ largest \in Int /\ stab \in {0, 1}
  BY LargestRange, CountTypes, Limits
<1>4. rest \in Int
  BY Numbers DEF Types
<1> DEFINE size == Fit(choice, largest, rest).size
           ref == Fit(choice, largest, rest).ref
<1>5. size \in Int /\ ref \in Int /\ choice.stab \in {0, 1}
  <2> HIDE DEF rest
  <2> QED
    BY <1>3, <1>4, FitTypes
<1>6. /\ istab' = choice.stab /\ dthetaref' = ref
      /\ IF TimePoints
           THEN EndAtPoint(Offset + theta + dtheta, size) /\ jprint' = deck.jout + 1 - itp
           ELSE dtheta' = size /\ UNCHANGED <<inext, itp, jprint>>
      /\ pc' = IF Decreased(n) /\ choice.size < deck.tmin THEN "stopped" ELSE "after"
  BY <1>2
<1> HIDE DEF size, ref, rest
<1>7. AcceptedBy(size)
  <2>1. /\ pc = "iterate" /\ theta' = theta + dtheta /\ icutb' = 0 /\ vold' = Now + dtheta
        /\ UNCHANGED <<deck, istep, iinc, iitterm, negpres, vini, written>>
    BY DEF Accept
  <2> QED
    BY <1>5, <1>6, <2>1 DEF AcceptedBy
<1> QED
  BY <1>3, <1>5, <1>6, <1>7, <1>8 DEF size, ref, rest

LEMMA AcceptTypes ==
  ASSUME Types, Accept
  PROVE  Types'
<1>1. PICK d \in Int : AcceptedBy(d)
  BY AcceptAccepts
<1>2. /\ pc = "iterate" /\ pc' \in {"after", "stopped"} /\ istab' \in {0, 1}
      /\ dthetaref' \in Int /\ theta' = theta + dtheta /\ icutb' = 0
      /\ vold' = Now + dtheta /\ UNCHANGED <<deck, istep, iinc, iitterm, negpres, vini, written>>
  BY <1>1 DEF AcceptedBy
<1>3. /\ theta \in Int /\ dtheta \in Int /\ Offset \in Nat /\ itp \in {0, 1} /\ inext \in Nat
      /\ inext \in 0 .. Len(deck.amta) + 1 /\ deck \in Decks
      /\ IF TimePoints THEN inext - itp >= 1 ELSE itp = 0
  BY <1>2, Numbers DEF Types, Running
<1>4. TimePoints' = TimePoints
  BY <1>2, SameStep
<1>5. /\ dtheta' \in Int /\ itp' \in {0, 1} /\ inext' \in 0 .. Len(deck.amta) + 1
      /\ IF TimePoints THEN inext' - itp' >= 1 ELSE itp' = 0
  <2>1. CASE TimePoints
    <3>1. EndAtPoint(Offset + theta + dtheta, d)
      BY <1>1, <2>1 DEF AcceptedBy
    <3>2. inext >= 1 /\ Offset + theta + dtheta \in Int
      BY <1>3, <2>1
    <3>3. /\ dtheta' \in Int /\ itp' \in {0, 1} /\ inext' \in 0 .. Len(deck.amta) + 1
          /\ inext' - itp' = inext
      BY <3>1, <3>2, EndAtPointTypes DEF Types
    <3> QED
      BY <2>1, <3>2, <3>3
  <2>2. CASE ~TimePoints
    BY <1>1, <1>3, <2>2 DEF AcceptedBy
  <2> QED
    BY <2>1, <2>2
<1>6. jprint' \in Nat
  <2>1. jprint' = jprint \/ jprint' = deck.jout + 1 - itp
    BY <1>1 DEF AcceptedBy
  <2>2. deck.jout \in Nat \ {0}
    BY <1>3, DeckFacts
  <2> QED
    BY <1>3, <2>1, <2>2, CountTypes
<1>7. iit' \in Nat /\ ithermal' \in 1 .. 3
  <2>1. iit' = IF deck.uncoupled THEN iitterm ELSE iit
    BY DEF Accept
  <2>2. ithermal' = IF deck.uncoupled THEN 3 ELSE ithermal
    BY DEF Accept
  <2> QED
    BY <2>1, <2>2, CountTypes
<1>8. ir' \in Nat /\ ic' \in Nat /\ kscale' \in {1, Kmax}
  <2>1. PICK changed \in BOOLEAN : Relax(changed) /\ Converged(changed)
    BY Zenon DEF Accept
  <2> QED
    BY <2>1, RelaxTypes DEF Converged
<1>9. theta' \in Int /\ vold' \in Int
  BY <1>2, <1>3, CountTypes
<1>10. iinc \in 0 .. Jmax
  BY <1>2, CountTypes, Limits DEF Running
<1>11. deck' \in Decks /\ istep' \in 1 .. Steps /\ negpres' \in {0, 1}
  BY <1>2 DEF Types, TypeOK
<1>12. iitterm' \in Nat /\ vini' \in Int /\ written' \subseteq Int
  BY <1>2, CountTypes
<1>13. iinc' \in 0 .. Jmax /\ iinc' \in 0 .. Jmax + 1 /\ icutb' \in 0 .. Ia + 1 /\ icutb' <= Ia
  BY <1>2, <1>10, Limits
<1>14. inext' \in 0 .. Len(deck'.amta) + 1
  BY <1>2, <1>5
<1>15. TypeOK'
  BY <1>2, <1>5, <1>6, <1>7, <1>8, <1>9, <1>11, <1>12, <1>13, <1>14 DEF TypeOK
<1>16. iinc' <= Jmax
  BY <1>13, Limits
<1> QED
  BY <1>4, <1>5, <1>13, <1>15, <1>16 DEF Types

LEMMA EndIncrementTypes ==
  ASSUME Types, EndIncrement
  PROVE  Types'
<1>1. /\ pc = "after" /\ pc' \in {"load", "end"} /\ iit' = 0
      /\ UNCHANGED <<deck, istep, dthetaref, inext, itp, istab, icutb, iinc, iitterm, ir, ic,
                     ithermal, kscale, vold, vini>>
      /\ theta' \in {theta, Period} /\ dtheta' \in {dtheta, 0} /\ negpres' \in {0, 1}
      /\ jprint' \in {0, jprint}
      /\ written' \in {written, written \cup {Now}}
  BY DEF EndIncrement, LoopOn, WriteResults
<1>2. Now \in Int /\ Period \in Nat /\ theta \in Int /\ dtheta \in Int
  BY Numbers DEF Types
<1>3. TimePoints' = TimePoints
  BY <1>1, SameStep
<1>4. TypeOK'
  BY <1>1, <1>2, CountTypes DEF Types, TypeOK
<1> QED
  BY <1>1, <1>3, <1>4 DEF Types, Running

LEMMA EndStepTypes ==
  ASSUME Types, EndStep
  PROVE  Types'
<1>1. /\ pc' \in {"finished", "start"}
      /\ UNCHANGED <<deck, dtheta, dthetaref, inext, itp, istab, counts, iterations, negpres, vold,
                     vini>>
      /\ written' \in {written, written \cup {Now}}
      /\ theta' \in {theta, 0} /\ istep' = (IF istep = Steps THEN istep ELSE istep + 1)
  BY DEF EndStep, WriteResults
<1>2. Now \in Int /\ theta \in Int /\ istep \in 1 .. Steps /\ Steps \in Nat
  BY Numbers DEF Types
<1>3. istep' \in 1 .. Steps
  BY <1>1, <1>2
<1>4. TypeOK'
  BY <1>1, <1>2, <1>3, CountTypes DEF Types, TypeOK, counts, iterations
<1> QED
  BY <1>1, <1>4 DEF Types, Running

LEMMA RestoreTypes ==
  ASSUME Types, Restore
  PROVE  Types'
<1>1. /\ pc = "after" /\ pc' \in {"load", "end"} /\ vold' = vini /\ iit' = 0
      /\ UNCHANGED <<deck, istep, sizes, counts, iitterm, ir, ic, ithermal, kscale, negpres, vini,
                     written>>
  BY DEF Restore, LoopOn
<1>2. TimePoints' = TimePoints
  BY <1>1, SameStep
<1>3. TypeOK'
  BY <1>1 DEF Types, TypeOK, sizes, counts
<1> QED
  BY <1>1, <1>2, <1>3 DEF Types, Running, sizes, counts

LEMMA TypesKept ==
  ASSUME Types, [Next]_vars
  PROVE  Types'
<1>1. CASE UNCHANGED vars
  <2>1. UNCHANGED <<deck, pc, istep, theta, dtheta, dthetaref, inext, itp, istab, icutb, iinc, jprint,
                    iit, iitterm, ir, ic, ithermal, kscale, negpres, vold, vini, written>>
    BY <1>1 DEF vars, sizes, counts, iterations
  <2>2. TimePoints' = TimePoints
    BY <2>1, SameStep
  <2> QED
    BY <2>1, <2>2 DEF Types, TypeOK, Running
<1> QED
  BY <1>1, SteadyActions, GivenUp, CheckTimeTypes, AcceptTypes, EndIncrementTypes, EndStepTypes,
     RestoreTypes DEF Next, Ended

LEMMA TypesStart ==
  ASSUME Init
  PROVE  Types
<1>1. deck \in Decks /\ deck.ithermal \in 1 .. 3 /\ deck.amta \in Seq(Nat)
  BY DecksAssumption DEF Init, IsDeck
<1>2. Len(deck.amta) \in Nat
  BY <1>1
<1> QED
  BY <1>1, <1>2, Limits DEF Init, Types, TypeOK, Running

LEMMA TypesAlways == Spec => []Types
BY TypesStart, TypesKept, PTL DEF Spec

\* In every analysis the values of all variables of the loop in nonlingeo stay in
\* their ranges: no index leaves the time points and no counter its limit.
THEOREM TypeCorrect == Spec => []TypeOK
<1>1. Types => TypeOK
  BY DEF Types
<1> QED
  BY <1>1, TypesAlways, PTL

-----------------------------------------------------------------------------
(* An attempt that is given up                                             *)

\* The steps that change icutb to try again
LEMMA OnlyRetries ==
  ASSUME Types, Next, icutb' = icutb + 1
  PROVE  /\ pc \in {"load", "iterate"}
         /\ \E d \in Int, k \in {1, Kmax} :
              CutBack(d, k) /\ Differs(d) /\ ~(d < deck.tmin) /\ dtheta' = d
<1>1. icutb' # 0 /\ icutb' # icutb
  BY CountTypes, Limits
<1>2. LoadDiverges \/ NetworkDiverges \/ Diverges \/ TooSlow
  <2>1. ~(checktime \/ Accept \/ EndIncrement \/ EndStep \/ Restore)
    BY <1>1 DEF checktime, Accept, EndIncrement, EndStep, Restore, counts
  <2>2. ~(TooManyIncrements \/ BeginIterations \/ ThermalConverged \/ TooManyIterations
            \/ DivergesDirect \/ NextIteration)
    BY <1>1 DEF TooManyIncrements, BeginIterations, ThermalConverged, TooManyIterations,
                DivergesDirect, NextIteration, counts
  <2>3. ~Ended
    BY <1>1 DEF Ended, vars, counts
  <2> QED
    BY <2>1, <2>2, <2>3 DEF Next
<1>3. PICK d \in Int, k \in {1, Kmax} : CutBack(d, k) /\ Differs(d)
  BY <1>2, GivenUp
<1>4. ~(d < deck.tmin) /\ dtheta' = d
  BY <1>1, <1>3 DEF CutBack
<1> QED
  BY <1>2, <1>3, <1>4, GivenUp

LEMMA RetryDiffers ==
  ASSUME Types, Next, icutb' = icutb + 1
  PROVE  \/ dtheta' < dtheta
         \/ deck.mortar = 1 /\ icutb = 0 /\ dtheta' = dtheta /\ kscale' = Kmax
         \/ Dynamic /\ dtheta <= deck.tmin /\ dtheta' = deck.tmin
<1>1. PICK d \in Int, k \in {1, Kmax} :
        CutBack(d, k) /\ Differs(d) /\ ~(d < deck.tmin) /\ dtheta' = d
  BY OnlyRetries
<1>2. deck.mortar = 1 => kscale' = Kmax
  BY <1>1 DEF CutBack
<1> QED
  BY <1>1, <1>2 DEF Differs

\* In every analysis an attempt that is given up (checkconvergence.c:646) is tried
\* again with a smaller size; with face-to-face contact the first time with the same
\* size and a softer contact; or, after an impact in dynamics, with the minimum
\* size when it had no more than that, the one case in which it can be repeated.
THEOREM RetriesCorrect == Spec => RetriesDiffer
<1>1. Types /\ [Next]_vars =>
        [icutb' = icutb + 1 =>
           \/ dtheta' < dtheta
           \/ deck.mortar = 1 /\ icutb = 0 /\ dtheta' = dtheta /\ kscale' = Kmax
           \/ Dynamic /\ dtheta <= deck.tmin /\ dtheta' = deck.tmin]_vars
  BY RetryDiffers
<1> QED
  BY <1>1, TypesAlways, PTL DEF Spec, RetriesDiffer

\* In the simple analyses every retry fits.
LEMMA RetryFitsIn ==
  ASSUME Types, Sizes, SimpleDecks, Next
  PROVE  RetryFits
<1> SUFFICES ASSUME icutb' = icutb + 1
             PROVE  dtheta' < dtheta \/ (dtheta' = dtheta /\ itp = 0)
  BY DEF RetryFits
<1>1. pc \in {"load", "iterate"} /\ deck \in Decks /\ istep \in 1 .. Steps /\ dtheta \in Int
      /\ Period \in Nat /\ negpres \in {0, 1} /\ icutb \in Nat
  BY OnlyRetries, Numbers, CountTypes, Limits DEF Types
<1>2. PICK d \in Int, k \in {1, Kmax} :
        CutBack(d, k) /\ Differs(d) /\ ~(d < deck.tmin) /\ dtheta' = d
  BY OnlyRetries
<1>3. deck.tmin \in 1 .. Period
  BY <1>1, DeckFacts
<1>4. /\ HasPoints(deck, istep) => deck.mortar # 1 /\ ~deck.dynamic
      /\ deck.dynamic => deck.tmin = 1
  BY <1>1 DEF SimpleDecks
<1>5. deck.mortar = 1 \/ deck.dynamic => itp = 0
  <2>1. ~HasPoints(deck, istep) => ~TimePoints
    BY <1>1, WithPoints
  <2> QED
    BY <1>1, <1>4, <2>1 DEF Types, Running
<1>6. CASE dtheta > 0
  BY <1>1, <1>2, <1>3, <1>4, <1>5, <1>6 DEF Differs, Dynamic
<1>7. CASE ~(dtheta > 0)
  <2>1. theta = Period \/ negpres = 1
    BY <1>1, <1>7 DEF Sizes, Running
  <2>2. negpres = 1 /\ dtheta = 0 /\ deck.mortar = 1 /\ icutb = 0
    BY <1>1, <1>7, <2>1 DEF Sizes, Running, Attempt
  <2> QED
    BY <1>1, <1>2, <1>3, <2>2 DEF Differs
<1> QED
  BY <1>6, <1>7

\* A step that changes neither the time nor the sizes
LEMMA SteadyStep ==
  ASSUME Sizes, NextPoint, Running,
         UNCHANGED <<deck, istep, theta, dtheta, dthetaref, inext, itp, icutb, negpres>>,
         pc' \in {"load", "iterate", "after", "stopped"},
         Attempt' => Attempt
  PROVE  Sizes' /\ NextPoint'
<1>1. TimePoints' = TimePoints /\ \A k, t : IsNext(k, t)' = IsNext(k, t)
  BY SameStep
<1>2. iend' = iend /\ Offset' = Offset
  BY SameStep
<1>3. Sizes'
  BY DEF Sizes, Running, Attempt
<1>4. Untouched' <=> Untouched
  BY DEF Untouched, HasPoints, Running
<1>5. NextPoint'
  BY <1>1, <1>2, <1>4 DEF NextPoint, Running, EndsAt
<1> QED
  BY <1>3, <1>5

\* Where the time points are concerned, the analysis has begun the step.
LEMMA Touched ==
  ASSUME TypeOK, TimePoints, pc # "start"
  PROVE  ~Untouched
<1>1. HasPoints(deck, istep) /\ istep \in 1 .. Steps
  BY Numbers, WithPoints
<1> QED
  BY <1>1 DEF Untouched

\* A cutback to a size that fits
LEMMA RetryStep ==
  ASSUME Types, Sizes, NextPoint, pc \in {"load", "iterate"}, NEW d \in Int, NEW k, CutBack(d, k),
         UNCHANGED <<deck, istep, theta, negpres>>, RetryFits
  PROVE  Sizes' /\ NextPoint'
<1>1. /\ Period \in Nat \ {0} /\ theta \in 0 .. Period /\ dtheta \in 0 .. Period
      /\ Offset \in Nat /\ itp \in {0, 1} /\ inext \in Nat /\ negpres \in {0, 1}
      /\ theta + dtheta <= Period
  BY Numbers DEF Types, Sizes
<1>2. deck \in Decks /\ istep \in 1 .. Steps /\ deck.tmin \in 1 .. Period
  BY Numbers, DeckFacts DEF Types
<1>3. iend' = iend /\ Offset' = Offset /\ TimePoints' = TimePoints
  BY SameStep
<1>4. \A i, t : IsNext(i, t)' = IsNext(i, t)
  BY SameStep
<1>5. dtheta' = d /\ dthetaref' = d /\ inext' = inext - itp /\ itp' = 0
  BY DEF CutBack, TakePointBack
<1>6. Untouched' => inext' = 0
  <2> SUFFICES ASSUME Untouched' PROVE inext' = 0
    OBVIOUS
  <2>1. Untouched
    BY DEF Untouched, HasPoints, CutBack
  <2>2. ~TimePoints
    BY <2>1, Touched DEF Types
  <2>3. itp = 0 /\ inext = 0
    BY <2>1, <2>2 DEF Types, Running, NextPoint
  <2> QED
    BY <1>5, <2>3
<1>7. CASE pc' = "stopped"
  BY <1>6, <1>7 DEF Sizes, NextPoint, Running
<1>8. CASE pc' # "stopped"
  <2>1. /\ ~(d < deck.tmin) /\ icutb' = icutb + 1 /\ pc' = "after"
    BY <1>8 DEF CutBack
  <2>2. d > 0 /\ (d < dtheta \/ (d = dtheta /\ itp = 0))
    BY <1>1, <1>2, <1>5, <2>1 DEF RetryFits
  <2>3. d \in 1 .. dtheta /\ d \in 0 .. Period /\ theta + d <= Period /\ theta < Period
    BY <1>1, <2>2
  <2>4. negpres = 0
    BY <1>1, <2>3 DEF Sizes, Running
  <2>5. Sizes'
    BY <1>1, <1>5, <2>1, <2>3, <2>4 DEF Sizes, Running, Attempt
  <2>6. ASSUME TimePoints PROVE IsNext(inext - itp, Offset + theta)' /\ EndsAt'
    <3>1. IsNext(inext - itp, Offset + theta) /\ EndsAt
      BY <2>6 DEF NextPoint, Running
    <3>2. inext' - itp' = inext - itp
      BY <1>1, <1>5
    <3>3. IsNext(inext - itp, Offset + theta)'
      BY <1>3, <1>4, <3>1, <3>2
    <3>4. iend \in Nat /\ istart \in Nat /\ \A i \in istart .. iend : deck.amta[i] \in Nat
      BY <1>2, PointsRise
    <3>5. inext - itp \in istart .. iend + 1
      BY <3>1 DEF IsNext
    <3>6. inext - itp > iend \/ Offset + theta + d < deck.amta[inext - itp]
      BY <1>1, <2>2, <3>1, <3>4, <3>5 DEF EndsAt
    <3>7. EndsAt'
      BY <1>3, <1>5, <3>6 DEF EndsAt
    <3> QED
      BY <3>3, <3>7
  <2>7. NextPoint'
    BY <1>3, <1>6, <2>1, <2>6 DEF NextPoint
  <2> QED
    BY <2>5, <2>7
<1> QED
  BY <1>7, <1>8

-----------------------------------------------------------------------------
(* An increment that is accepted                                           *)

LEMMA PointsDistinct ==
  ASSUME deck \in Decks, istep \in 1 .. Steps, DistinctPoints
  PROVE  \A i, j \in istart .. iend : deck.amta[i] = deck.amta[j] => i = j
<1>1. \A i, j \in istart .. iend : i < j => deck.amta[i] < deck.amta[j]
  BY DEF DistinctPoints, istart, iend
<1> QED
  BY <1>1, PointsRise

\* The end of the attempt is where the next one begins.
LEMMA NextAfterEnd ==
  ASSUME deck \in Decks, istep \in 1 .. Steps, DistinctPoints,
         Offset \in Nat, theta \in Nat, dtheta \in Nat, itp \in {0, 1},
         inext \in Nat, IsNext(inext - itp, Offset + theta), EndsAt
  PROVE  IsNext(inext, Offset + theta + dtheta)
<1>1. /\ istart \in Nat \ {0} /\ iend \in Nat
      /\ \A i \in istart .. iend : deck.amta[i] \in Nat
      /\ \A i, j \in istart .. iend : i <= j => deck.amta[i] <= deck.amta[j]
  BY PointsRise
<1> DEFINE e == Offset + theta + dtheta
<1>2. e \in Nat /\ Offset + theta <= e
  OBVIOUS
<1>3. CASE itp = 0
  <2>1. inext \in istart .. iend + 1 /\ (inext > istart => deck.amta[inext - 1] <= Offset + theta)
    BY <1>3 DEF IsNext
  <2>2. inext > istart => deck.amta[inext - 1] <= e
    BY <1>1, <1>2, <2>1
  <2>3. inext <= iend => e < deck.amta[inext]
    BY <1>1, <1>3, <2>1 DEF EndsAt
  <2> QED
    BY <2>1, <2>2, <2>3 DEF IsNext
<1>4. CASE itp = 1
  <2>1. inext - 1 \in istart .. iend + 1
    BY <1>4 DEF IsNext
  <2>2. deck.amta[inext - 1] = e /\ inext <= iend + 1
    BY <1>4 DEF EndsAt
  <2>3. inext - 1 \in istart .. iend /\ inext \in istart .. iend + 1
    BY <1>1, <2>1, <2>2
  <2>4. inext <= iend => e < deck.amta[inext]
    <3> SUFFICES ASSUME inext <= iend PROVE e < deck.amta[inext]
      OBVIOUS
    <3>1. inext \in istart .. iend
      BY <1>1, <2>3
    <3>2. deck.amta[inext - 1] <= deck.amta[inext] /\ deck.amta[inext - 1] # deck.amta[inext]
      BY <1>1, <2>3, <3>1, PointsDistinct
    <3> QED
      BY <1>1, <1>2, <2>2, <2>3, <3>1, <3>2
  <2> QED
    BY <1>1, <1>2, <2>2, <2>3, <2>4 DEF IsNext
<1> QED
  BY <1>3, <1>4

\* The first time point after t is reached from t by an increment of size d, or not.
LEMMA FirstReached ==
  ASSUME deck \in Decks, istep \in 1 .. Steps, NEW t \in Nat, NEW d \in Nat, NEW f \in Nat,
         IsNext(f, t)
  PROVE  /\ f < inew(t + d) => /\ f \in istart .. iend /\ deck.amta[f] \in Nat
                               /\ t < deck.amta[f] /\ deck.amta[f] <= t + d
         /\ ~(f < inew(t + d)) => f > iend \/ t + d < deck.amta[f]
<1>1. /\ istart \in Nat \ {0} /\ iend \in Nat
      /\ \A i \in istart .. iend : deck.amta[i] \in Nat
      /\ \A i, j \in istart .. iend : i <= j => deck.amta[i] <= deck.amta[j]
  BY PointsRise
<1> DEFINE n == inew(t + d)
<1>2. IsNext(n, t + d)
  BY NextFound
<1>3. f \in istart .. iend + 1 /\ n \in istart .. iend + 1
  BY <1>2 DEF IsNext
<1> HIDE DEF n
<1>4. CASE f < n
  <2>1. deck.amta[n - 1] <= t + d /\ n - 1 \in istart .. iend /\ f <= n - 1
    BY <1>1, <1>2, <1>3, <1>4 DEF IsNext
  <2>2. f \in istart .. iend /\ t < deck.amta[f]
    BY <1>1, <1>3, <1>4 DEF IsNext
  <2> QED
    BY <1>1, <1>4, <2>1, <2>2 DEF n
<1>5. CASE ~(f < n)
  <2> SUFFICES ASSUME f <= iend PROVE t + d < deck.amta[f]
    BY <1>1, <1>3, <1>5 DEF n
  <2>1. n \in istart .. iend /\ f \in istart .. iend /\ n <= f
    BY <1>1, <1>3, <1>5
  <2>2. t + d < deck.amta[n] /\ deck.amta[n] <= deck.amta[f]
    BY <1>1, <1>2, <2>1 DEF IsNext
  <2> QED
    BY <1>1, <2>1, <2>2
<1> QED
  BY <1>4, <1>5

LEMMA EndAtPointEnds ==
  ASSUME deck \in Decks, istep \in 1 .. Steps, NEW t \in Nat, NEW d \in Nat, inext \in Nat,
         IsNext(inext, t), EndAtPoint(t, d)
  PROVE  /\ itp' \in {0, 1} /\ inext' - itp' = inext
         /\ dtheta' \in 0 .. d /\ (d > 0 => dtheta' > 0)
         /\ itp' = 1 => inext' <= iend + 1 /\ deck.amta[inext' - 1] = t + dtheta'
         /\ itp' = 0 => inext' > iend \/ t + dtheta' < deck.amta[inext']
<1>1. iend \in Nat /\ inext \in istart .. iend + 1
  BY PointsRise DEF IsNext
<1>2. CASE inext < inew(t + d)
  <2>1. dtheta' = deck.amta[inext] - t /\ inext' = inext + 1 /\ itp' = 1
    BY <1>2 DEF EndAtPoint
  <2>2. /\ inext \in istart .. iend /\ deck.amta[inext] \in Nat
        /\ t < deck.amta[inext] /\ deck.amta[inext] <= t + d
    BY <1>2, FirstReached
  <2> QED
    BY <1>1, <2>1, <2>2
<1>3. CASE ~(inext < inew(t + d))
  <2>1. dtheta' = d /\ inext' = inext /\ itp' = 0
    BY <1>3 DEF EndAtPoint
  <2>2. inext > iend \/ t + d < deck.amta[inext]
    BY <1>3, FirstReached
  <2> QED
    BY <1>1, <2>1, <2>2
<1> QED
  BY <1>2, <1>3

LEMMA FitRange ==
  ASSUME Types, dtheta \in 0 .. Period, dthetaref \in 0 .. Period,
         NEW n, NEW stab \in {0, 1}, NEW largest \in 1 .. Period,
         NEW rest \in 0 .. Period, NEW choice \in NextSizes(n, stab)
  PROVE  LET fit == Fit(choice, largest, rest) IN
         /\ fit.size \in 0 .. rest /\ fit.ref \in 0 .. Period
         /\ dtheta > 0 /\ dthetaref > 0 /\ rest > 0 /\ ~(Decreased(n) /\ choice.size < deck.tmin)
              => fit.size > 0 /\ fit.ref > 0
<1>1. Period \in Nat /\ deck.tmin \in 1 .. Period
  BY Numbers, DeckFacts DEF Types
<1>2. PICK d \in Nat, r \in Nat, s \in {0, 1} :
        /\ choice = As(d, r, s) /\ (r <= Period \/ r = d)
        /\ dtheta > 0 /\ dthetaref > 0 => (d > 0 /\ r > 0) \/ (d = 0 /\ Decreased(n))
  <2>1. CASE \E d \in Smaller(dthetaref) : choice = As(d, d, stab) /\ Decreased(n)
    <3>1. PICK d \in Smaller(dthetaref) : choice = As(d, d, stab) /\ Decreased(n)
      BY <2>1
    <3>2. d \in Nat /\ d <= Period
      BY <1>1, <3>1 DEF Smaller
    <3> QED
      BY <3>1, <3>2
  <2>2. CASE choice = As(dtheta, dthetaref, stab)
    BY <1>1, <2>2
  <2>3. CASE choice \in {As(dthetaref, dthetaref, 0), As(dthetaref, dthetaref, 1)}
    BY <1>1, <2>3
  <2>4. CASE \E d \in Larger(dthetaref) : choice = As(d, d, 1)
    <3>1. PICK d \in Larger(dthetaref) : choice = As(d, d, 1)
      BY <2>4
    <3>2. d \in Nat /\ d > 0
      BY <1>1, <3>1 DEF Larger
    <3> QED
      BY <3>1, <3>2
  <2> QED
    BY <2>1, <2>2, <2>3, <2>4 DEF NextSizes, Decreased
<1>3. choice.size = d /\ choice.ref = r /\ choice.stab = s
  BY <1>2 DEF As
<1> DEFINE one == IF d > largest /\ deck.idrct = 0 THEN As(largest, largest, s) ELSE As(d, r, s)
<1>4. Fit(choice, largest, rest) = IF one.size >= rest THEN As(rest, rest, one.stab) ELSE one
  BY <1>2, <1>3 DEF Fit
<1>5. PICK e \in Nat, q \in Nat :
        /\ one = As(e, q, s) /\ (q <= Period \/ q = e)
        /\ dtheta > 0 /\ dthetaref > 0 => (e > 0 /\ q > 0) \/ (d = 0 /\ Decreased(n))
  <2>1. largest \in Nat /\ largest > 0 /\ largest <= Period
    BY <1>1
  <2>2. CASE d > largest /\ deck.idrct = 0
    BY <2>1, <2>2
  <2>3. CASE ~(d > largest /\ deck.idrct = 0)
    BY <1>2, <2>3
  <2> QED
    BY <2>2, <2>3
<1>6. one.size = e /\ one.ref = q /\ one.stab = s
  BY <1>5 DEF As
<1> HIDE DEF one
<1>7. CASE e >= rest
  <2>1. Fit(choice, largest, rest) = As(rest, rest, s)
    BY <1>4, <1>6, <1>7
  <2>2. Fit(choice, largest, rest).size = rest /\ Fit(choice, largest, rest).ref = rest
    BY <2>1 DEF As
  <2> QED
    BY <1>1, <1>3, <2>2
<1>8. CASE ~(e >= rest)
  <2>1. Fit(choice, largest, rest).size = e /\ Fit(choice, largest, rest).ref = q
    BY <1>4, <1>6, <1>8
  <2>2. e \in 0 .. rest /\ q \in 0 .. Period
    BY <1>1, <1>5, <1>8
  <2>3. d = 0 /\ Decreased(n) => Decreased(n) /\ choice.size < deck.tmin
    BY <1>1, <1>3
  <2> QED
    BY <1>3, <1>5, <2>1, <2>2, <2>3
<1> QED
  BY <1>7, <1>8

\* The size of the increment behind the one accepted
LEMMA AcceptFits ==
  ASSUME Types, Sizes, Accept
  PROVE  \E d \in 0 .. Period - theta - dtheta :
           /\ AcceptedBy(d) /\ dthetaref' \in 0 .. Period
           /\ pc' = "after" /\ theta + dtheta < Period => d > 0 /\ dthetaref' > 0
<1>1. PICK n \in Nat, stab \in {0, 1}, largest \in 1 .. Period : \E choice \in NextSizes(n, stab) :
        LET fit == Fit(choice, largest, Period - theta - dtheta)
        IN  /\ AcceptedBy(fit.size) /\ fit.size \in Int
            /\ dthetaref' = fit.ref
            /\ pc' = IF Decreased(n) /\ choice.size < deck.tmin THEN "stopped" ELSE "after"
  BY AcceptAccepts
<1> DEFINE rest == Period - theta - dtheta
<1>2. PICK choice \in NextSizes(n, stab) :
        LET fit == Fit(choice, largest, rest)
        IN  /\ AcceptedBy(fit.size) /\ fit.size \in Int
            /\ dthetaref' = fit.ref
            /\ pc' = IF Decreased(n) /\ choice.size < deck.tmin THEN "stopped" ELSE "after"
  BY <1>1
<1>3. pc = "iterate" /\ Period \in Nat
  BY Limits DEF Accept
<1>4. /\ theta \in 0 .. Period /\ dtheta \in 0 .. Period /\ dthetaref \in 0 .. Period
      /\ theta + dtheta <= Period
      /\ theta < Period => dtheta > 0 /\ dthetaref > 0
  BY <1>3 DEF Sizes, Running
<1>5. rest \in 0 .. Period /\ (theta + dtheta < Period => rest > 0)
  BY <1>3, <1>4
<1>6. theta + dtheta < Period => dtheta > 0 /\ dthetaref > 0
  BY <1>3, <1>4
<1> HIDE DEF rest
<1> DEFINE fit == Fit(choice, largest, rest)
<1>7. /\ fit.size \in 0 .. rest /\ fit.ref \in 0 .. Period
      /\ dtheta > 0 /\ dthetaref > 0 /\ rest > 0 /\ ~(Decreased(n) /\ choice.size < deck.tmin)
           => fit.size > 0 /\ fit.ref > 0
  BY <1>4, <1>5, FitRange
<1>8. /\ AcceptedBy(fit.size) /\ dthetaref' = fit.ref
      /\ pc' = "after" => ~(Decreased(n) /\ choice.size < deck.tmin)
  BY <1>2
<1> HIDE DEF fit
<1>9. pc' = "after" /\ theta + dtheta < Period => fit.size > 0 /\ dthetaref' > 0
  BY <1>5, <1>6, <1>7, <1>8
<1> QED
  BY <1>7, <1>8, <1>9 DEF rest

LEMMA AcceptStep ==
  ASSUME Types, Sizes, NextPoint, DistinctPoints, Accept
  PROVE  /\ Sizes' /\ NextPoint'
         /\ theta' = theta + dtheta /\ icutb' = 0 /\ pc' \in {"after", "stopped"}
<1>1. PICK d \in 0 .. Period - theta - dtheta :
        /\ AcceptedBy(d) /\ dthetaref' \in 0 .. Period
        /\ pc' = "after" /\ theta + dtheta < Period => d > 0 /\ dthetaref' > 0
  BY AcceptFits
<1>2. /\ pc = "iterate" /\ pc' \in {"after", "stopped"} /\ UNCHANGED <<deck, istep, negpres>>
      /\ theta' = theta + dtheta /\ icutb' = 0
  BY <1>1 DEF AcceptedBy
<1>3. /\ Period \in Nat \ {0} /\ theta \in 0 .. Period /\ dtheta \in 0 .. Period
      /\ Offset \in Nat /\ itp \in {0, 1} /\ inext \in Nat /\ negpres \in {0, 1}
      /\ theta + dtheta <= Period /\ deck \in Decks /\ istep \in 1 .. Steps
  BY <1>2, Numbers DEF Types, Sizes
<1>4. iend' = iend /\ Offset' = Offset /\ TimePoints' = TimePoints
  BY <1>2, SameStep
<1>5. \A k, t : IsNext(k, t)' = IsNext(k, t)
  BY <1>2, SameStep
<1>6. /\ dtheta' \in 0 .. d /\ (d > 0 => dtheta' > 0)
      /\ TimePoints => IsNext(inext - itp, Offset + theta)' /\ EndsAt'
      /\ ~TimePoints => inext' = inext
  <2>1. CASE ~TimePoints
    BY <1>1, <2>1 DEF AcceptedBy
  <2>2. CASE TimePoints
    <3> DEFINE t == Offset + theta + dtheta
    <3>1. IsNext(inext - itp, Offset + theta) /\ EndsAt
      BY <1>2, <2>2 DEF NextPoint, Running
    <3>2. IsNext(inext, t)
      BY <1>3, <3>1, NextAfterEnd
    <3>3. t \in Nat /\ d \in Nat
      BY <1>3
    <3>4. EndAtPoint(t, d)
      BY <1>1, <2>2 DEF AcceptedBy
    <3>5. t = Offset' + theta'
      BY <1>2, <1>3, <1>4
    <3> HIDE DEF t
    <3>6. /\ itp' \in {0, 1} /\ inext' - itp' = inext
          /\ dtheta' \in 0 .. d /\ (d > 0 => dtheta' > 0)
          /\ itp' = 1 => inext' <= iend + 1 /\ deck.amta[inext' - 1] = t + dtheta'
          /\ itp' = 0 => inext' > iend \/ t + dtheta' < deck.amta[inext']
      BY <1>3, <3>2, <3>3, <3>4, EndAtPointEnds
    <3>7. IsNext(inext - itp, Offset + theta)'
      BY <1>5, <3>2, <3>5, <3>6
    <3>8. EndsAt'
      BY <1>2, <1>4, <3>5, <3>6 DEF EndsAt
    <3> QED
      BY <2>2, <3>6, <3>7, <3>8
  <2> QED
    BY <2>1, <2>2
<1>7. Sizes'
  <2>1. PICK e \in 0 .. d : dtheta' = e
    BY <1>6
  <2>2. theta' \in 0 .. Period /\ dtheta' \in 0 .. Period /\ theta' + dtheta' <= Period
    BY <1>2, <1>3, <2>1
  <2>3. pc' = "after" /\ theta' < Period => dtheta' > 0 /\ dthetaref' > 0
    BY <1>1, <1>2, <1>6
  <2>4. negpres = 1 => deck.mortar = 1 /\ theta' = Period
    BY <1>2, <1>3 DEF Sizes, Running
  <2> QED
    BY <1>1, <1>2, <2>2, <2>3, <2>4 DEF Sizes, Running, Attempt
<1>8. Untouched' => inext' = 0
  <2> SUFFICES ASSUME Untouched' PROVE inext' = 0
    OBVIOUS
  <2>1. Untouched
    BY <1>2 DEF Untouched, HasPoints
  <2> QED
    BY <1>2, <1>6, <2>1, Touched DEF NextPoint, Types
<1>9. NextPoint'
  BY <1>2, <1>4, <1>6, <1>8 DEF NextPoint
<1> QED
  BY <1>2, <1>7, <1>9

-----------------------------------------------------------------------------
(* The ends of increments and steps                                        *)

LEMMA CheckTimeStep ==
  ASSUME Types, Sizes, NextPoint, checktime
  PROVE  Sizes' /\ NextPoint'
<1>1. /\ Period \in Nat \ {0} /\ Offset \in Nat /\ itp \in {0, 1} /\ inext \in Nat
      /\ deck \in Decks /\ istep \in 1 .. Steps
  BY Numbers DEF Types
<1>2. deck.tinc \in 1 .. Period
  BY <1>1, DeckFacts
<1>3. iend' = iend /\ Offset' = Offset /\ TimePoints' = TimePoints
  BY SameStep DEF checktime
<1>4. \A k, t : IsNext(k, t)' = IsNext(k, t)
  BY SameStep DEF checktime
<1> DEFINE first == IF total /\ inext # 0 THEN inext ELSE inew(Offset)
           atPoint == TimePoints /\ inew(Offset + deck.tinc) > first
           tinc == IF atPoint THEN deck.amta[first] - Offset ELSE deck.tinc
<1>5. /\ inext' = IF ~TimePoints THEN inext ELSE IF atPoint THEN first + 1 ELSE first
      /\ itp' = IF atPoint THEN 1 ELSE 0
      /\ dtheta' = tinc /\ dthetaref' = tinc
      /\ pc' \in {"load", "stopped"}
  BY DEF checktime
<1>6. /\ pc = "start" /\ theta' = 0 /\ negpres' = 0 /\ deck' = deck /\ istep' = istep
      /\ icutb' = 0
  BY DEF checktime
<1>7. CASE ~TimePoints
  <2>1. inext' = inext /\ tinc = deck.tinc
    BY <1>5, <1>7
  <2>2. Untouched' => Untouched
    BY <1>6 DEF Untouched, HasPoints
  <2>3. NextPoint'
    BY <1>3, <1>5, <1>7, <2>1, <2>2 DEF NextPoint
  <2>4. Sizes'
    BY <1>1, <1>2, <1>5, <1>6, <2>1 DEF Sizes, Running, Attempt
  <2> QED
    BY <2>3, <2>4
<1>8. CASE TimePoints
  <2>1. istart \in Nat \ {0} /\ iend \in Nat
    BY <1>1, PointsRise
  <2>2. IsNext(first, Offset)
    <3>1. CASE total /\ inext # 0
      BY <1>6, <1>8, <3>1 DEF NextPoint
    <3>2. CASE ~(total /\ inext # 0)
      BY <1>1, <3>2, NextFound
    <3> QED
      BY <3>1, <3>2
  <2>3. first \in istart .. iend + 1
    BY <2>2 DEF IsNext
  <2> HIDE DEF first
  <2>4. inew(Offset + deck.tinc) \in Int
    <3>1. Offset + deck.tinc \in Int
      BY <1>1, <1>2
    <3>2. IsNext(inew(Offset + deck.tinc), Offset + deck.tinc)
      BY <1>1, <3>1, NextFound
    <3> QED
      BY <2>1, <3>2 DEF IsNext
  <2>5. /\ atPoint => /\ first \in istart .. iend /\ deck.amta[first] \in Nat
                      /\ Offset < deck.amta[first] /\ deck.amta[first] <= Offset + deck.tinc
        /\ ~atPoint => first > iend \/ Offset + deck.tinc < deck.amta[first]
    <3>1. deck.tinc \in Nat /\ first \in Nat
      BY <1>1, <1>2, <2>1, <2>3
    <3>2. /\ first < inew(Offset + deck.tinc) =>
               /\ first \in istart .. iend /\ deck.amta[first] \in Nat
               /\ Offset < deck.amta[first] /\ deck.amta[first] <= Offset + deck.tinc
          /\ ~(first < inew(Offset + deck.tinc)) =>
               first > iend \/ Offset + deck.tinc < deck.amta[first]
      BY <1>1, <2>2, <3>1, FirstReached
    <3>3. atPoint <=> first < inew(Offset + deck.tinc)
      BY <1>8, <2>4, <3>1
    <3> QED
      BY <3>2, <3>3
  <2> HIDE DEF atPoint
  <2>6. tinc \in 1 .. Period
    BY <1>1, <1>2, <2>5
  <2>7. inext' = (IF atPoint THEN first + 1 ELSE first) /\ inext' - itp' = first
    BY <1>5, <1>8, <2>1, <2>3
  <2>8. IsNext(inext - itp, Offset + theta)'
    <3>1. Offset' + theta' = Offset
      BY <1>1, <1>3, <1>6
    <3> QED
      BY <1>4, <2>2, <2>7, <3>1
  <2>9. EndsAt'
    <3>1. CASE atPoint
      <4>1. itp' = 1 /\ inext' - 1 = first /\ inext' <= iend + 1
            /\ dtheta' = deck.amta[first] - Offset
        BY <1>5, <2>1, <2>3, <2>5, <2>7, <3>1
      <4>2. deck'.amta[inext' - 1] = Offset' + theta' + dtheta'
        BY <1>1, <1>3, <1>6, <2>5, <3>1, <4>1
      <4> QED
        BY <1>3, <4>1, <4>2 DEF EndsAt
    <3>2. CASE ~atPoint
      <4>1. itp' = 0 /\ inext' = first /\ dtheta' = deck.tinc
        BY <1>5, <2>7, <3>2
      <4>2. Offset' + theta' + dtheta' = Offset + deck.tinc
        BY <1>1, <1>2, <1>3, <1>6, <4>1
      <4> QED
        BY <1>3, <1>6, <2>5, <3>2, <4>1, <4>2 DEF EndsAt
    <3> QED
      BY <3>1, <3>2
  <2> HIDE DEF tinc
  <2>10. ~Untouched'
    <3>1. HasPoints(deck, istep)
      BY <1>1, <1>8, WithPoints
    <3> QED
      BY <1>1, <1>5, <1>6, <3>1 DEF Untouched, HasPoints
  <2>11. NextPoint'
    BY <1>3, <1>5, <1>8, <2>8, <2>9, <2>10 DEF NextPoint
  <2>12. Sizes'
    BY <1>1, <1>5, <1>6, <2>6 DEF Sizes, Running, Attempt
  <2> QED
    BY <2>11, <2>12
<1> QED
  BY <1>7, <1>8

\* The end of an increment leaves the time and the sizes alone, also when one of no
\* size is appended: the step ended with it.
LEMMA EndIncrementStep ==
  ASSUME Types, Sizes, NextPoint, EndIncrement
  PROVE  /\ Sizes' /\ NextPoint' /\ theta' = theta /\ dtheta' = dtheta
         /\ pc' \in {"load", "end"}
<1>1. /\ pc = "after" /\ icutb = 0 /\ icutb' = 0
      /\ UNCHANGED <<deck, istep, dthetaref, inext, itp>> /\ LoopOn(theta', negpres')
  BY DEF EndIncrement
<1>2. /\ Period \in Nat \ {0} /\ theta \in 0 .. Period /\ dtheta \in 0 .. Period
      /\ dthetaref \in 0 .. Period
      /\ Offset \in Nat /\ itp \in {0, 1} /\ inext \in Nat /\ negpres \in {0, 1}
      /\ deck \in Decks /\ istep \in 1 .. Steps
      /\ theta + dtheta <= Period /\ (theta < Period => dtheta > 0 /\ dthetaref > 0)
  BY <1>1, Numbers DEF Types, Sizes, Running
<1>3. iend' = iend /\ Offset' = Offset /\ TimePoints' = TimePoints
  BY <1>1, SameStep
<1>4. \A k, t : IsNext(k, t)' = IsNext(k, t)
  BY <1>1, SameStep
<1>5. /\ theta' = theta /\ dtheta' = dtheta
      /\ negpres' = 1 => deck.mortar = 1 /\ theta = Period
      /\ negpres' \in {0, 1}
  BY <1>1, <1>2 DEF EndIncrement, StepReached
<1>6. /\ pc' = IF theta < Period \/ negpres' = 1 THEN "load" ELSE "end"
  BY <1>1, <1>5 DEF LoopOn
<1>7. Sizes'
  BY <1>1, <1>2, <1>5, <1>6 DEF Sizes, Running, Attempt
<1>8. ASSUME TimePoints PROVE IsNext(inext - itp, Offset + theta)' /\ EndsAt'
                              /\ (pc' = "end" => IsNext(inext, Offset + theta)')
  <2>1. IsNext(inext - itp, Offset + theta) /\ EndsAt
    BY <1>1, <1>8 DEF NextPoint, Running
  <2>2. IsNext(inext - itp, Offset + theta)' /\ EndsAt'
    BY <1>1, <1>3, <1>4, <1>5, <2>1 DEF EndsAt
  <2>3. pc' = "end" => itp = 0
    <3> SUFFICES ASSUME theta = Period, itp = 1 PROVE FALSE
      BY <1>2, <1>6
    <3>1. deck.amta[inext - 1] = Offset + theta + dtheta /\ dtheta = 0 /\ inext <= iend + 1
      BY <1>2, <2>1 DEF EndsAt
    <3>2. inext - 1 <= iend /\ iend \in Nat
      BY <1>2, <3>1, PointsRise
    <3>3. Offset + theta < deck.amta[inext - 1]
      BY <2>1, <3>2 DEF IsNext
    <3> QED
      BY <1>2, <3>1, <3>3
  <2> QED
    BY <1>1, <1>2, <1>3, <1>4, <1>5, <2>1, <2>2, <2>3
<1>9. Untouched' => Untouched
  BY <1>1, <1>6 DEF Untouched, HasPoints
<1>10. NextPoint'
  BY <1>1, <1>3, <1>6, <1>8, <1>9 DEF NextPoint
<1> QED
  BY <1>5, <1>6, <1>7, <1>10

LEMMA EndStepStep ==
  ASSUME Types, Sizes, NextPoint, DistinctPoints, EndStep
  PROVE  Sizes' /\ NextPoint' /\ Now' = Now
<1>1. /\ Period \in Nat \ {0} /\ theta \in 0 .. Period /\ dtheta \in 0 .. Period
      /\ istep \in 1 .. Steps /\ Steps \in Nat /\ deck \in Decks
      /\ theta + dtheta <= Period /\ dthetaref \in 0 .. Period
  BY Numbers DEF Types, Sizes, EndStep
<1>2. pc = "end" /\ theta = Period
  BY DEF EndStep, Sizes
<1>3. UNCHANGED <<deck, dtheta, dthetaref, inext, itp, negpres>>
  BY DEF EndStep
<1>4. dtheta = 0
  BY <1>1, <1>2
<1>5. CASE istep = Steps
  <2>1. pc' = "finished" /\ istep' = istep /\ theta' = theta
    BY <1>5 DEF EndStep
  <2>2. Sizes'
    BY <1>1, <1>2, <1>3, <2>1 DEF Sizes, Running, Attempt
  <2>3. Untouched' => Untouched
    BY <1>2, <1>3, <2>1 DEF Untouched, HasPoints
  <2>4. NextPoint'
    BY <1>3, <2>1, <2>3 DEF NextPoint, Running
  <2> QED
    BY <2>1, <2>2, <2>4 DEF Now, ttime
<1>6. CASE istep # Steps
  <2>1. pc' = "start" /\ istep' = istep + 1 /\ theta' = 0
    BY <1>6 DEF EndStep
  <2>2. ttime' = ttime + Period /\ Now' = Now
    BY <1>1, <1>2, <2>1 DEF ttime, Now
  <2>3. istep + 1 \in 1 .. Steps
    BY <1>1, <1>6
  <2>4. Sizes'
    BY <1>1, <1>3, <1>4, <2>1 DEF Sizes, Running, Attempt
  <2>5. Untouched' => Untouched
    <3>1. \A r \in 1 .. istep : r \in 1 .. istep + 1 /\ r < istep + 1
      BY <1>1
    <3> QED
      BY <1>3, <2>1, <3>1 DEF Untouched, HasPoints
  <2>6. ASSUME TimePoints', total', inext' # 0 PROVE IsNext(inext, Offset)'
    <3>1. deck.namta[istep + 1].total
      BY <1>3, <2>1, <2>6 DEF total
    <3>2. ~Untouched
      BY <1>3, <2>6 DEF NextPoint
    <3>3. ~\A r \in 1 .. istep : ~HasPoints(deck, r)
      BY <3>2 DEF Untouched
    <3>4. deck.namta[istep + 1] = deck.namta[istep]
      <4>1. (istep + 1) - 1 = istep /\ istep + 1 > 1
        BY <1>1
      <4> QED
        BY <1>1, <2>3, <3>1, <3>3, <4>1 DEF DistinctPoints
    <3>5. istart' = istart /\ iend' = iend /\ total' = total
      BY <1>3, <2>1, <3>4 DEF istart, iend, total
    <3>6. TimePoints
      BY <1>3, <2>6, <3>5 DEF TimePoints
    <3>7. IsNext(inext, Offset + theta)
      BY <1>2, <3>6 DEF NextPoint
    <3>8. Offset' = Offset + theta
      BY <1>2, <2>2, <2>6, <3>5 DEF Offset
    <3> QED
      BY <1>3, <3>5, <3>7, <3>8 DEF IsNext
  <2>7. NextPoint'
    BY <1>3, <2>1, <2>5, <2>6 DEF NextPoint, Running
  <2> QED
    BY <2>2, <2>4, <2>7
<1> QED
  BY <1>5, <1>6

LEMMA RestoreStep ==
  ASSUME Types, Sizes, NextPoint, Restore
  PROVE  Sizes' /\ NextPoint' /\ pc' = "load"
<1>1. /\ pc = "after" /\ icutb # 0
      /\ UNCHANGED <<deck, istep, theta, dtheta, dthetaref, inext, itp, icutb, negpres>>
  BY DEF Restore, sizes, counts
<1>2. theta < Period \/ negpres = 1
  BY <1>1, Numbers DEF Types, Sizes, Attempt
<1>3. pc' = "load"
  BY <1>2 DEF Restore, LoopOn
<1>4. Sizes' /\ NextPoint'
  BY <1>1, <1>3, SteadyStep DEF Running, Attempt
<1> QED
  BY <1>3, <1>4

-----------------------------------------------------------------------------
(* The states                                                              *)

LEMMA SavedOtherwise ==
  ASSUME Types, Sizes, NextPoint, Saved, DistinctPoints,
         checktime \/ Accept \/ EndIncrement \/ EndStep \/ Restore
  PROVE  Saved'
<1>1. CASE checktime
  <2>1. pc = "start" /\ theta = 0 /\ theta' = 0 /\ istep' = istep /\ vold' = vold
    BY <1>1 DEF checktime, Sizes
  <2>2. Now' = Now
    BY <2>1 DEF Now, ttime
  <2> QED
    BY <1>1, <2>1, <2>2 DEF Saved, checktime
<1>2. CASE Accept
  <2>1. theta' = theta + dtheta /\ icutb' = 0 /\ pc' \in {"after", "stopped"}
    BY <1>2, AcceptStep
  <2>2. istep' = istep /\ vold' = Now + dtheta
    BY <1>2 DEF Accept
  <2>3. Now' = Now + dtheta
    <3>1. theta \in Int /\ dtheta \in Int /\ ttime \in Nat /\ Now = ttime + theta
      BY Numbers DEF Types
    <3>2. ttime' = ttime
      BY <2>2 DEF ttime
    <3> QED
      BY <2>1, <3>1, <3>2 DEF Now
  <2> QED
    BY <2>1, <2>2, <2>3 DEF Saved
<1>3. CASE EndIncrement
  <2>1. theta' = theta /\ pc' \in {"load", "end"}
    BY <1>3, EndIncrementStep
  <2>2. Now' = Now
    BY <1>3, <2>1 DEF EndIncrement, Now, ttime
  <2> QED
    BY <1>3, <2>1, <2>2 DEF Saved, EndIncrement
<1>4. CASE EndStep
  <2>1. Now' = Now
    BY <1>4, EndStepStep
  <2> QED
    BY <1>4, <2>1 DEF Saved, EndStep
<1>5. CASE Restore
  <2>1. pc' = "load"
    BY <1>5, RestoreStep
  <2>2. Now' = Now
    BY <1>5 DEF Restore, sizes, Now, ttime
  <2> QED
    BY <1>5, <2>1, <2>2 DEF Saved, Restore
<1> QED
  BY <1>1, <1>2, <1>3, <1>4, <1>5

\* The steps that leave the time where it is
LEMMA SavedInside ==
  ASSUME Saved,
         \/ TooManyIncrements \/ BeginIterations \/ ThermalConverged
         \/ TooManyIterations \/ DivergesDirect \/ NextIteration
  PROVE  Saved' /\ Now' = Now
<1>1. Now' = Now
  BY DEF TooManyIncrements, BeginIterations, ThermalConverged, TooManyIterations, DivergesDirect,
         NextIteration, sizes, Now, ttime
<1>2. CASE TooManyIncrements \/ TooManyIterations \/ DivergesDirect
  <2>1. pc' = "stopped"
    BY <1>2 DEF TooManyIncrements, TooManyIterations, DivergesDirect
  <2> QED
    BY <1>1, <2>1 DEF Saved
<1>3. CASE BeginIterations
  BY <1>1, <1>3 DEF Saved, BeginIterations, SaveState
<1>4. CASE ThermalConverged \/ NextIteration
  BY <1>1, <1>4 DEF Saved, ThermalConverged, NextIteration
<1> QED
  BY <1>1, <1>2, <1>3, <1>4

LEMMA SteadySizes ==
  ASSUME Types, Sizes, NextPoint,
         \/ TooManyIncrements \/ BeginIterations \/ ThermalConverged
         \/ TooManyIterations \/ DivergesDirect \/ NextIteration
  PROVE  Sizes' /\ NextPoint'
<1>1. Running /\ UNCHANGED <<deck, istep, theta, dtheta, dthetaref, inext, itp, icutb, negpres>>
  BY DEF TooManyIncrements, BeginIterations, ThermalConverged, TooManyIterations, DivergesDirect,
         NextIteration, sizes, counts, Running
<1>2. pc' \in {"iterate", "stopped"} /\ pc \in {"load", "iterate"}
  BY DEF TooManyIncrements, BeginIterations, ThermalConverged, TooManyIterations, DivergesDirect,
         NextIteration
<1> QED
  BY <1>1, <1>2, SteadyStep DEF Attempt

\* A failed attempt goes back to the state saved, and time does not move.
LEMMA GivenUpStep ==
  ASSUME Control, RetryFits, LoadDiverges \/ NetworkDiverges \/ Diverges \/ TooSlow
  PROVE  /\ Control' /\ Now' = Now /\ UNCHANGED <<deck, istep, written>>
         /\ pc \in {"load", "iterate"}
         /\ pc' = "stopped" \/ (pc' = "after" /\ icutb' # 0)
<1> USE DEF Control
<1>1. /\ Types' /\ pc \in {"load", "iterate"} /\ UNCHANGED <<deck, istep, theta, negpres, written>>
      /\ (pc = "load" /\ SaveState) \/ (pc = "iterate" /\ vini' = vini)
  BY GivenUp
<1>2. PICK d \in Int, k \in {1, Kmax} : CutBack(d, k) /\ Differs(d)
  BY GivenUp
<1>3. Sizes' /\ NextPoint'
  BY <1>1, <1>2, RetryStep
<1>4. Now' = Now
  BY <1>1 DEF Now, ttime
<1>5. pc' = "stopped" \/ (pc' = "after" /\ icutb' # 0)
  <2>1. icutb \in Nat
    BY CountTypes, Limits
  <2> QED
    BY <1>2, <2>1 DEF CutBack
<1>6. vini' = Now
  BY <1>1 DEF Saved, SaveState
<1>7. Saved'
  BY <1>4, <1>5, <1>6 DEF Saved
<1> QED
  BY <1>1, <1>3, <1>4, <1>5, <1>7

-----------------------------------------------------------------------------
(* The control keeps its invariant                                         *)

LEMMA ControlStarts ==
  ASSUME Init
  PROVE  Control
<1>1. ttime = 0 /\ Now = 0
  BY Limits DEF Init, ttime, Now
<1>2. Sizes
  BY Limits DEF Init, Sizes, Running, Attempt
<1>3. Saved
  BY <1>1 DEF Init, Saved
<1>4. NextPoint
  BY DEF Init, NextPoint, Running
<1> QED
  BY <1>2, <1>3, <1>4, TypesStart DEF Control

LEMMA SameAll ==
  ASSUME Control, UNCHANGED vars
  PROVE  Control'
<1>1. UNCHANGED <<deck, pc, istep, theta, dtheta, dthetaref, inext, itp, istab, icutb, iinc, jprint,
                  iit, iitterm, ir, ic, ithermal, kscale, negpres, vold, vini, written>>
  BY DEF vars, sizes, counts, iterations
<1>2. /\ istart' = istart /\ iend' = iend /\ total' = total /\ ttime' = ttime
      /\ Offset' = Offset /\ TimePoints' = TimePoints
      /\ \A k, t : IsNext(k, t)' = IsNext(k, t)
  BY <1>1, SameStep
<1>3. Now' = Now
  BY <1>1, <1>2 DEF Now
<1>4. Sizes'
  BY <1>1 DEF Control, Sizes, Running, Attempt
<1>5. Saved'
  BY <1>1, <1>3 DEF Control, Saved
<1>6. Untouched' <=> Untouched
  BY <1>1 DEF Untouched, HasPoints
<1>7. EndsAt' <=> EndsAt
  BY <1>1, <1>2 DEF EndsAt
<1>8. NextPoint'
  BY <1>1, <1>2, <1>6, <1>7 DEF Control, NextPoint, Running
<1> QED
  BY <1>4, <1>5, <1>8, TypesKept DEF Control

LEMMA ControlKept ==
  ASSUME Control, DistinctPoints, Next, RetryFits
  PROVE  Control'
<1> USE DEF Control
<1>1. Types'
  BY TypesKept
<1>2. CASE checktime
  BY <1>1, <1>2, CheckTimeStep, SavedOtherwise
<1>3. CASE \/ TooManyIncrements \/ BeginIterations \/ ThermalConverged
           \/ TooManyIterations \/ DivergesDirect \/ NextIteration
  BY <1>1, <1>3, SteadySizes, SavedInside
<1>4. CASE LoadDiverges \/ NetworkDiverges \/ Diverges \/ TooSlow
  BY <1>4, GivenUpStep
<1>5. CASE Accept
  BY <1>1, <1>5, AcceptStep, SavedOtherwise
<1>6. CASE EndIncrement
  BY <1>1, <1>6, EndIncrementStep, SavedOtherwise
<1>7. CASE EndStep
  BY <1>1, <1>7, EndStepStep, SavedOtherwise
<1>8. CASE Restore
  BY <1>1, <1>8, RestoreStep, SavedOtherwise
<1>9. CASE UNCHANGED vars
  BY <1>9, SameAll
<1> QED
  BY <1>2, <1>3, <1>4, <1>5, <1>6, <1>7, <1>8, <1>9 DEF Next, Ended

\* As long as the retries fit the time is under control.
LEMMA ControlAlways ==
  ASSUME DistinctPoints
  PROVE  FittingSpec => []Control
<1>1. Init => Control
  BY ControlStarts
<1>2. Control /\ [Next /\ RetryFits]_vars => Control'
  BY ControlKept, SameAll
<1> QED
  BY <1>1, <1>2, PTL DEF FittingSpec

\* Without time points in face-to-face contact and in dynamics, and without a minimum
\* size in dynamics larger than the smallest there is, every retry that the code
\* orders fits: what holds when the retries fit holds of these analyses.
THEOREM RetriesFit == ASSUME DistinctPoints, SimpleDecks PROVE Spec => FittingSpec
<1>1. Init => Control
  BY ControlStarts
<1>2. Control /\ [Next]_vars => [Next /\ RetryFits]_vars
  BY RetryFitsIn DEF Control
<1>3. Control /\ [Next]_vars => Control'
  BY <1>2, ControlKept, SameAll
<1> QED
  BY <1>1, <1>2, <1>3, PTL DEF Spec, FittingSpec

-----------------------------------------------------------------------------
(* What the increment control guarantees                                   *)

LEMMA NextPointRight ==
  ASSUME Control
  PROVE  NextTimePoint
<1> SUFFICES ASSUME Running, TimePoints, negpres = 0
             PROVE  /\ inext - itp = inew(Offset + theta)
                    /\ itp = 1 => deck.amta[inext - 1] = Offset + theta + dtheta
                    /\ itp = 0 => inext > iend \/ Offset + theta + dtheta < deck.amta[inext]
  BY DEF NextTimePoint
<1>1. IsNext(inext - itp, Offset + theta) /\ EndsAt
  BY DEF Control, NextPoint
<1>2. deck \in Decks /\ istep \in 1 .. Steps /\ Offset + theta \in Int
  BY Numbers DEF Control, Types
<1>3. inext - itp = inew(Offset + theta)
  BY <1>1, <1>2, NextFound, NextUnique
<1> QED
  BY <1>1, <1>3 DEF EndsAt

\* However often attempts are cut back (checkconvergence.c:684), inext and itp
\* point at the first time point that is still ahead, and the increment at hand
\* ends there or before it.
THEOREM NextPointCorrect == ASSUME DistinctPoints PROVE FittingSpec => []NextTimePoint
BY ControlAlways, NextPointRight, PTL

\* No attempt that nonlingeo begins has a size of 0, by which it divides.
THEOREM NeverEmpty == ASSUME DistinctPoints PROVE FittingSpec => []NoEmptyIncrement
<1>1. Control => NoEmptyIncrement
  <2> SUFFICES ASSUME Control, pc \in {"load", "iterate"}, negpres = 0 PROVE dtheta > 0
    BY DEF NoEmptyIncrement
  <2> QED
    BY DEF Control, Sizes, Running, Attempt
<1> QED
  BY <1>1, ControlAlways, PTL

\* No attempt reaches over the end of its step (checkconvergence.c:426 sees to it
\* for the next increment only, not for a retry).
THEOREM StaysCorrect == ASSUME DistinctPoints PROVE FittingSpec => []StaysInStep
<1>1. Control => StaysInStep
  BY DEF Control, Sizes, StaysInStep
<1> QED
  BY <1>1, ControlAlways, PTL

\* An attempt begins with the solution at the end of the last increment accepted,
\* and the copy that a later cutback restores (nonlingeo.c, icutb) is that one.
THEOREM StartsCorrect == ASSUME DistinctPoints PROVE FittingSpec => []StartsFromAccepted
<1>1. Control => StartsFromAccepted
  BY DEF Control, Saved, StartsFromAccepted
<1> QED
  BY <1>1, ControlAlways, PTL

-----------------------------------------------------------------------------
(* Time points and results                                                 *)

LEMMA StepsApart ==
  ASSUME NEW a \in Nat, NEW b \in Nat, NEW n \in Nat, a < b
  PROVE  a * n + n <= b * n
<1>1. PICK c \in Nat : b = a + 1 + c
  <2>1. b - a - 1 \in Nat /\ b = a + 1 + (b - a - 1)
    OBVIOUS
  <2> QED
    BY <2>1
<1>2. b * n = a * n + n + c * n /\ c * n \in Nat
  BY <1>1
<1>3. a * n \in Nat
  OBVIOUS
<1> QED
  BY <1>2, <1>3

LEMMA StepTimes ==
  ASSUME TypeOK
  PROVE  /\ ttime = (istep - 1) * Period /\ ttime + Period = istep * Period
         /\ ttime \in Nat /\ ttime + Period <= Steps * Period /\ Steps * Period \in Nat
         /\ \A s \in 1 .. Steps : s * Period <= ttime \/ ttime + Period <= s * Period
<1>1. Period \in Nat /\ Steps \in Nat /\ istep \in 1 .. Steps
  BY Numbers
<1>2. ttime = (istep - 1) * Period /\ ttime + Period = istep * Period /\ ttime \in Nat
  BY <1>1 DEF ttime
<1>3. \A s \in 1 .. Steps : s * Period <= ttime \/ ttime + Period <= s * Period
  <2> TAKE s \in 1 .. Steps
  <2>1. s \in Nat /\ istep \in Nat
    BY <1>1
  <2>2. CASE s < istep
    <3>1. s * Period + Period <= istep * Period
      BY <1>1, <2>1, <2>2, StepsApart
    <3>2. s * Period \in Nat /\ istep * Period \in Nat
      BY <1>1, <2>1
    <3> QED
      BY <1>1, <1>2, <3>1, <3>2
  <2>3. CASE istep < s
    <3>1. istep * Period + Period <= s * Period
      BY <1>1, <2>1, <2>3, StepsApart
    <3>2. s * Period \in Nat /\ istep * Period \in Nat
      BY <1>1, <2>1
    <3> QED
      BY <1>1, <1>2, <3>1, <3>2
  <2>4. CASE s = istep
    <3>1. s * Period \in Nat
      BY <1>1, <2>1
    <3> QED
      BY <1>2, <2>4, <3>1
  <2> QED
    BY <2>1, <2>2, <2>3, <2>4
<1>4. ttime + Period <= Steps * Period
  <2>1. CASE istep < Steps
    <3>1. istep * Period + Period <= Steps * Period
      BY <1>1, <2>1, StepsApart
    <3>2. istep * Period \in Nat /\ Steps * Period \in Nat
      BY <1>1
    <3> QED
      BY <1>1, <1>2, <3>1, <3>2
  <2>2. CASE istep = Steps
    <3>1. Steps * Period \in Nat
      BY <1>1
    <3> QED
      BY <1>2, <2>2, <3>1
  <2> QED
    BY <1>1, <2>1, <2>2
<1>5. Steps * Period \in Nat
  BY <1>1
<1> QED
  BY <1>2, <1>3, <1>4, <1>5

\* A time at which results are promised during a step is a time point of the step.
LEMMA PointOfStep ==
  ASSUME TypeOK, NEW p \in PointsOf, ttime < p, p <= ttime + Period
  PROVE  /\ p \in Nat /\ TimePoints
         /\ \E i \in istart .. iend : deck.amta[i] = Offset + (p - ttime)
<1>1. Period \in Nat /\ Steps \in Nat /\ istep \in 1 .. Steps /\ ttime \in Nat /\ deck \in Decks
  BY Numbers
<1>2. PICK s \in 1 .. Steps : \E i \in deck.namta[s].istart .. deck.namta[s].iend :
        /\ (s - 1) * Period < p /\ p <= s * Period
        /\ deck.amta[i] = IF deck.namta[s].total THEN p ELSE p - (s - 1) * Period
  BY DEF PointsOf
<1>3. p \in Nat
  <2>1. p \in 1 .. Steps * Period
    BY DEF PointsOf
  <2>2. Steps * Period \in Nat
    BY <1>1
  <2> QED
    BY <2>1, <2>2
<1>4. s = istep
  <2>1. /\ s - 1 \in Nat /\ istep - 1 \in Nat /\ s \in Nat /\ istep \in Nat
        /\ (s - 1) * Period \in Nat /\ (istep - 1) * Period \in Nat
        /\ ttime = (istep - 1) * Period
        /\ s * Period = (s - 1) * Period + Period
    BY <1>1 DEF ttime
  <2>2. ~(s - 1 < istep - 1)
    <3>1. s - 1 < istep - 1 => (s - 1) * Period + Period <= (istep - 1) * Period
      BY <1>1, <2>1, StepsApart
    <3> QED
      BY <1>1, <1>2, <1>3, <2>1, <3>1
  <2>3. ~(istep - 1 < s - 1)
    <3>1. istep - 1 < s - 1 => (istep - 1) * Period + Period <= (s - 1) * Period
      BY <1>1, <2>1, StepsApart
    <3> QED
      BY <1>1, <1>2, <1>3, <2>1, <3>1
  <2> QED
    BY <1>1, <2>1, <2>2, <2>3
<1>5. PICK i \in istart .. iend : deck.amta[i] = IF total THEN p ELSE p - ttime
  BY <1>2, <1>4 DEF istart, iend, total, ttime
<1>6. deck.amta[i] = Offset + (p - ttime)
  BY <1>1, <1>3, <1>5 DEF Offset
<1>7. TimePoints
  <2>1. istart <= iend
    BY <1>1, <1>5, PointsRise
  <2> QED
    BY <1>1, <2>1, WithPoints
<1> QED
  BY <1>3, <1>5, <1>6, <1>7

LEMMA StepOfPoint ==
  ASSUME TypeOK, TimePoints, NEW i \in istart .. iend, NEW th \in 1 .. Period,
         deck.amta[i] = Offset + th
  PROVE  ttime + th \in PointsOf
<1>1. Period \in Nat /\ Steps \in Nat /\ istep \in 1 .. Steps /\ ttime \in Nat
  BY Numbers
<1>2. /\ ttime = (istep - 1) * Period /\ ttime + Period = istep * Period
      /\ ttime + Period <= Steps * Period /\ Steps * Period \in Nat
  BY StepTimes
<1>3. ttime + th \in 1 .. Steps * Period
  BY <1>1, <1>2
<1>4. deck.idrct = 0
  BY DEF TimePoints
<1>5. /\ (istep - 1) * Period < ttime + th /\ ttime + th <= istep * Period
      /\ ttime + th - (istep - 1) * Period = th
  BY <1>1, <1>2
<1>6. deck.amta[i] = IF total THEN ttime + th ELSE ttime + th - (istep - 1) * Period
  BY <1>1, <1>5 DEF Offset
<1>7. i \in deck.namta[istep].istart .. deck.namta[istep].iend
  BY DEF istart, iend
<1> QED
  BY <1>1, <1>3, <1>4, <1>5, <1>6, <1>7 DEF PointsOf, total

\* An attempt does not reach over a time at which results are promised, and ends
\* at one if and only if itp says so.
LEMMA NothingBetween ==
  ASSUME Types, Sizes, NextPoint, pc = "iterate"
  PROVE  /\ \A p \in PointsOf : p <= Now \/ Now + dtheta <= p
         /\ Now + dtheta \in PointsOf /\ dtheta > 0 => TimePoints /\ itp = 1
         /\ TimePoints /\ itp = 1 => Now + dtheta \in PointsOf /\ dtheta > 0
<1>1. /\ Period \in Nat /\ Steps \in Nat /\ istep \in 1 .. Steps
      /\ theta \in 0 .. Period /\ dtheta \in 0 .. Period /\ ttime \in Nat /\ Offset \in Nat
      /\ Now = ttime + theta /\ itp \in {0, 1} /\ inext \in Nat
      /\ theta + dtheta <= Period /\ deck \in Decks
  BY Numbers DEF Types, Sizes
<1>2. TypeOK
  BY DEF Types
<1>3. /\ istart \in Nat \ {0} /\ iend \in Nat
      /\ \A i \in istart .. iend : deck.amta[i] \in Nat
      /\ \A i, j \in istart .. iend : i <= j => deck.amta[i] <= deck.amta[j]
  <2>1. deck \in Decks /\ istep \in 1 .. Steps
    BY <1>1
  <2> QED
    BY <2>1, PointsRise
<1>4. TimePoints => IsNext(inext - itp, Offset + theta) /\ EndsAt
  BY DEF NextPoint, Running
<1> DEFINE f == inext - itp
<1>5. TimePoints => /\ f \in istart .. iend + 1
                    /\ f > istart => deck.amta[f - 1] <= Offset + theta
                    /\ f <= iend => Offset + theta < deck.amta[f]
  BY <1>4 DEF IsNext
<1>6. TimePoints /\ f <= iend => Offset + theta + dtheta <= deck.amta[f]
  <2>1. CASE itp = 1
    BY <1>1, <1>4, <2>1 DEF EndsAt
  <2>2. CASE itp = 0
    BY <1>1, <1>3, <1>4, <1>5, <2>2 DEF EndsAt
  <2> QED
    BY <1>1, <2>1, <2>2
<1>7. ASSUME NEW p \in PointsOf, Now < p, p <= ttime + Period
      PROVE  /\ TimePoints /\ p \in Nat /\ f \in istart .. iend
             /\ deck.amta[f] <= Offset + (p - ttime)
  <2>1. p \in Nat
    <3>1. Steps * Period \in Nat
      BY <1>1
    <3> QED
      BY <3>1 DEF PointsOf
  <2>2. /\ TimePoints
        /\ \E i \in istart .. iend : deck.amta[i] = Offset + (p - ttime)
    BY <1>1, <1>2, <1>7, <2>1, PointOfStep
  <2>3. PICK i \in istart .. iend : deck.amta[i] = Offset + (p - ttime)
    BY <2>2
  <2>4. Offset + theta < deck.amta[i] /\ deck.amta[i] \in Nat
    BY <1>1, <1>3, <1>7, <2>1, <2>3
  <2>5. f <= i
    <3> SUFFICES ASSUME i < f PROVE FALSE
      BY <1>3, <1>5, <2>2
    <3>1. f - 1 \in istart .. iend /\ i <= f - 1 /\ f > istart
      BY <1>3, <1>5, <2>2
    <3>2. deck.amta[i] <= deck.amta[f - 1] /\ deck.amta[f - 1] \in Nat
      BY <1>3, <3>1
    <3> QED
      BY <1>1, <1>5, <2>2, <2>4, <3>1, <3>2
  <2>6. f \in istart .. iend
    BY <1>3, <1>5, <2>2, <2>5
  <2> QED
    BY <1>3, <2>1, <2>2, <2>3, <2>5, <2>6
<1> HIDE DEF f
<1>8. ASSUME NEW p \in PointsOf PROVE p <= Now \/ Now + dtheta <= p
  <2>1. p \in Nat
    <3>1. Steps * Period \in Nat
      BY <1>1
    <3> QED
      BY <3>1 DEF PointsOf
  <2>2. CASE p > ttime + Period
    BY <1>1, <2>1, <2>2
  <2>3. CASE Now < p /\ p <= ttime + Period
    <3>1. /\ TimePoints /\ f \in istart .. iend /\ deck.amta[f] <= Offset + (p - ttime)
      BY <1>7, <2>3
    <3>2. Offset + theta + dtheta <= deck.amta[f] /\ deck.amta[f] \in Nat
      BY <1>3, <1>6, <3>1
    <3> QED
      BY <1>1, <2>1, <3>1, <3>2
  <2> QED
    BY <1>1, <2>1, <2>2, <2>3
<1>9. ASSUME Now + dtheta \in PointsOf, dtheta > 0 PROVE TimePoints /\ itp = 1
  <2> DEFINE q == Now + dtheta
  <2>1. Now < q /\ q <= ttime + Period /\ q \in PointsOf
    BY <1>1, <1>9
  <2> HIDE DEF q
  <2>2. TimePoints /\ f \in istart .. iend /\ deck.amta[f] <= Offset + (q - ttime)
    BY <1>7, <2>1
  <2> SUFFICES ASSUME itp = 0 PROVE FALSE
    BY <1>1, <2>2
  <2>3. f = inext
    BY <1>1 DEF f
  <2>4. Offset + theta + dtheta < deck.amta[f] /\ deck.amta[f] \in Nat
    BY <1>3, <1>4, <2>2, <2>3 DEF EndsAt
  <2> QED
    BY <1>1, <2>2, <2>4 DEF q
<1>10. ASSUME TimePoints, itp = 1 PROVE Now + dtheta \in PointsOf /\ dtheta > 0
  <2>1. deck.amta[inext - 1] = Offset + theta + dtheta /\ inext <= iend + 1
    BY <1>4, <1>10 DEF EndsAt
  <2>2. f = inext - 1 /\ f \in istart .. iend
    BY <1>1, <1>3, <1>5, <1>10, <2>1 DEF f
  <2>3. dtheta > 0
    BY <1>1, <1>3, <1>5, <1>10, <2>1, <2>2
  <2>4. theta + dtheta \in 1 .. Period
    BY <1>1, <2>3
  <2>5. deck.amta[f] = Offset + (theta + dtheta)
    BY <1>1, <2>1, <2>2
  <2>6. ttime + (theta + dtheta) \in PointsOf
    BY <1>2, <1>10, <2>2, <2>4, <2>5, StepOfPoint
  <2> QED
    BY <1>1, <2>3, <2>6
<1> QED
  BY <1>8, <1>9, <1>10

-----------------------------------------------------------------------------
(* The increment control keeps the time                                    *)

\* The steps that neither move the time nor write results
Quiet ==
  /\ UNCHANGED <<deck, istep, Now, written>>
  /\ pc \in {"start", "load", "iterate"} \/ (pc = "after" /\ icutb # 0)
  /\ pc' # "finished" /\ ~(pc' = "after" /\ icutb' = 0)

LEMMA QuietSteps ==
  ASSUME Control, Next, RetryFits
  PROVE  Quiet \/ Accept \/ EndIncrement \/ EndStep \/ UNCHANGED vars
<1>1. CASE checktime
  <2>1. theta = 0 /\ theta' = 0 /\ istep' = istep
    BY <1>1 DEF checktime, Control, Sizes
  <2>2. Now' = Now
    BY <2>1 DEF Now, ttime
  <2> QED
    BY <1>1, <2>2 DEF checktime, Quiet
<1>2. CASE \/ TooManyIncrements \/ BeginIterations \/ ThermalConverged
           \/ TooManyIterations \/ DivergesDirect \/ NextIteration
  <2>1. Now' = Now
    BY <1>2, SavedInside DEF Control
  <2>2. UNCHANGED <<deck, istep, written>> /\ pc \in {"load", "iterate"} /\ pc' \in {"iterate", "stopped"}
    BY <1>2 DEF TooManyIncrements, BeginIterations, ThermalConverged, TooManyIterations,
                DivergesDirect, NextIteration
  <2> QED
    BY <2>1, <2>2 DEF Quiet
<1>3. CASE LoadDiverges \/ NetworkDiverges \/ Diverges \/ TooSlow
  BY <1>3, GivenUpStep DEF Quiet
<1>4. CASE Restore
  <2>1. pc' = "load"
    BY <1>4, RestoreStep DEF Control
  <2>2. Now' = Now
    BY <1>4 DEF Restore, sizes, Now, ttime
  <2> QED
    BY <1>4, <2>1, <2>2 DEF Restore, Quiet
<1> QED
  BY <1>1, <1>2, <1>3, <1>4 DEF Next, Ended

LEMMA QuietKeeps ==
  ASSUME WrittenSoFar, Quiet
  PROVE  WrittenSoFar'
<1>1. PointsOf' = PointsOf
  BY SameStep DEF Quiet
<1>2. Now' = Now /\ written' = written /\ ~AboutToWrite'
  BY DEF Quiet, AboutToWrite
<1>3. ~AboutToWrite /\ pc # "stopped" /\ pc' # "finished"
  BY DEF Quiet, AboutToWrite
<1> QED
  BY <1>1, <1>2, <1>3 DEF WrittenSoFar

\* What the acceptance of an increment does to the clock
LEMMA AcceptAdvances ==
  ASSUME Control, DistinctPoints, Accept
  PROVE  /\ UNCHANGED <<deck, istep, written>> /\ Now' = Now + dtheta /\ pc = "iterate"
         /\ pc' \in {"after", "stopped"}
         /\ AboutToWrite' => TimePoints /\ itp = 1
         /\ TimePoints /\ itp = 1 => AboutToWrite' \/ pc' = "stopped"
<1>1. /\ theta' = theta + dtheta /\ icutb' = 0 /\ pc' \in {"after", "stopped"}
  BY AcceptStep DEF Control
<1>2. PICK d \in 0 .. Period - theta - dtheta : AcceptedBy(d)
  BY AcceptFits DEF Control
<1>3. /\ UNCHANGED <<deck, istep, written>> /\ pc = "iterate"
      /\ TimePoints => jprint' = deck.jout + 1 - itp
  BY <1>2 DEF AcceptedBy
<1>4. /\ theta \in Int /\ dtheta \in Int /\ itp \in {0, 1} /\ ttime \in Nat /\ Now = ttime + theta
      /\ deck.jout \in Nat
  BY Numbers, DeckFacts DEF Control, Types
<1>5. Now' = Now + dtheta
  <2>1. ttime' = ttime
    BY <1>3 DEF ttime
  <2> QED
    BY <1>1, <1>4, <2>1 DEF Now
<1>6. TimePoints' = TimePoints
  BY <1>3, SameStep
<1>7. AboutToWrite' <=> TimePoints /\ pc' = "after" /\ jprint' = deck.jout
  BY <1>1, <1>3, <1>6 DEF AboutToWrite
<1>8. deck.jout + 1 - itp = deck.jout <=> itp = 1
  BY <1>4
<1> QED
  BY <1>1, <1>3, <1>5, <1>7, <1>8

LEMMA AcceptKeeps ==
  ASSUME Control, WrittenSoFar, DistinctPoints, Accept
  PROVE  WrittenSoFar'
<1>1. /\ UNCHANGED <<deck, istep, written>> /\ Now' = Now + dtheta /\ pc = "iterate"
      /\ pc' \in {"after", "stopped"}
      /\ AboutToWrite' => TimePoints /\ itp = 1
      /\ TimePoints /\ itp = 1 => AboutToWrite' \/ pc' = "stopped"
  BY AcceptAdvances
<1>2. PointsOf' = PointsOf
  BY <1>1, SameStep
<1>3. /\ \A p \in PointsOf : p <= Now \/ Now + dtheta <= p
      /\ Now + dtheta \in PointsOf /\ dtheta > 0 => TimePoints /\ itp = 1
      /\ TimePoints /\ itp = 1 => Now + dtheta \in PointsOf /\ dtheta > 0
  BY <1>1, NothingBetween DEF Control
<1>4. Now \in Int /\ dtheta \in Nat /\ \A p \in PointsOf : p \in Int
  <2>1. dtheta \in 0 .. Period
    BY <1>1 DEF Control, Sizes
  <2>2. Steps * Period \in Nat
    BY Limits
  <2> QED
    BY <2>1, <2>2, Numbers DEF Control, Types, PointsOf
<1>5. ~AboutToWrite /\ pc # "stopped"
  BY <1>1 DEF AboutToWrite
<1>6. ASSUME NEW p \in PointsOf, p < Now + dtheta PROVE p \in written
  <2>1. p < Now \/ p = Now
    BY <1>3, <1>4, <1>6
  <2> QED
    BY <1>5, <2>1 DEF WrittenSoFar
<1>7. Now + dtheta \in PointsOf => Now + dtheta \in written \/ AboutToWrite' \/ pc' = "stopped"
  <2>1. dtheta = 0 => Now + dtheta = Now
    BY <1>4
  <2>2. dtheta = 0 \/ dtheta > 0
    BY <1>4
  <2> QED
    BY <1>1, <1>3, <1>5, <2>1, <2>2 DEF WrittenSoFar
<1> QED
  BY <1>1, <1>2, <1>3, <1>6, <1>7 DEF WrittenSoFar

\* The ends of increments and steps: what is written, and when
LEMMA EndsWrite ==
  ASSUME Control, DistinctPoints, EndIncrement \/ EndStep
  PROVE  /\ deck' = deck /\ Now' = Now
         /\ written' = written \/ (written' = written \cup {Now}
                                      /\ (AboutToWrite \/ Now = istep * Period))
         /\ AboutToWrite => written' = written \cup {Now}
         /\ pc \in {"after", "end"} /\ ~AboutToWrite' /\ (pc' = "finished" => istep' = Steps)
<1>1. CASE EndIncrement
  <2>1. theta' = theta /\ pc' \in {"load", "end"}
    BY <1>1, EndIncrementStep DEF Control
  <2>2. Now' = Now
    BY <1>1, <2>1 DEF EndIncrement, Now, ttime
  <2>3. /\ pc = "after" /\ icutb = 0 /\ deck' = deck
        /\ IF jprint = deck.jout THEN WriteResults ELSE written' = written
    BY <1>1 DEF EndIncrement
  <2>4. AboutToWrite <=> TimePoints /\ jprint = deck.jout
    BY <2>3 DEF AboutToWrite
  <2>5. ~AboutToWrite' /\ pc' # "finished"
    BY <2>1 DEF AboutToWrite
  <2> QED
    BY <2>2, <2>3, <2>4, <2>5 DEF WriteResults
<1>2. CASE EndStep
  <2>1. Now' = Now
    BY <1>2, EndStepStep DEF Control
  <2>2. /\ pc = "end" /\ deck' = deck /\ pc' \in {"finished", "start"}
        /\ (pc' = "finished" => istep' = Steps)
        /\ IF jprint # 0 THEN WriteResults ELSE written' = written
    BY <1>2 DEF EndStep
  <2>3. Now = istep * Period
    <3>1. theta = Period
      BY <2>2 DEF Control, Sizes
    <3> QED
      BY <3>1, Numbers, StepTimes DEF Control, Types
  <2>4. ~AboutToWrite /\ ~AboutToWrite'
    BY <2>2 DEF AboutToWrite
  <2> QED
    BY <2>1, <2>2, <2>3, <2>4 DEF WriteResults
<1> QED
  BY <1>1, <1>2

LEMMA EndsKeep ==
  ASSUME Control, WrittenSoFar, DistinctPoints, EndIncrement \/ EndStep
  PROVE  WrittenSoFar'
<1>1. /\ deck' = deck /\ Now' = Now
      /\ written' = written \/ written' = written \cup {Now}
      /\ AboutToWrite => written' = written \cup {Now}
      /\ pc \in {"after", "end"} /\ ~AboutToWrite' /\ (pc' = "finished" => istep' = Steps)
  BY EndsWrite
<1>2. PointsOf' = PointsOf
  BY <1>1 DEF PointsOf
<1> QED
  BY <1>1, <1>2 DEF WrittenSoFar

LEMMA ResultsStart ==
  ASSUME Init
  PROVE  WrittenSoFar /\ Now = 0 /\ written = {} /\ \A p \in PointsOf : p \in Nat /\ p > 0
<1>1. Now = 0
  BY Limits DEF Init, Now, ttime
<1>2. pc = "start" /\ written = {}
  BY DEF Init
<1>3. \A p \in PointsOf : p \in Nat /\ p > 0
  <2>1. Steps * Period \in Nat
    BY Limits
  <2> QED
    BY <2>1 DEF PointsOf
<1> QED
  BY <1>1, <1>2, <1>3 DEF WrittenSoFar, AboutToWrite

LEMMA ResultsKept ==
  ASSUME Control, WrittenSoFar, DistinctPoints, [Next /\ RetryFits]_vars
  PROVE  WrittenSoFar'
<1>1. CASE UNCHANGED vars
  <2>1. UNCHANGED <<deck, pc, istep, theta, icutb, jprint, written>>
    BY <1>1 DEF vars, sizes, counts
  <2>2. Now' = Now /\ TimePoints' = TimePoints /\ PointsOf' = PointsOf
    BY <2>1, SameStep DEF Now
  <2> QED
    BY <2>1, <2>2 DEF WrittenSoFar, AboutToWrite
<1> QED
  BY <1>1, QuietSteps, QuietKeeps, AcceptKeeps, EndsKeep

LEMMA ResultsAlways ==
  ASSUME DistinctPoints
  PROVE  FittingSpec => []WrittenSoFar
<1>1. Init => WrittenSoFar
  BY ResultsStart
<1>2. Control /\ WrittenSoFar /\ [Next /\ RetryFits]_vars => WrittenSoFar'
  BY ResultsKept
<1> QED
  BY <1>1, <1>2, ControlAlways, PTL DEF FittingSpec

\* An analysis that finishes has written its results at every time point of the
\* input, however its increments were cut back and enlarged on the way.
THEOREM PointsCorrect == ASSUME DistinctPoints PROVE FittingSpec => []NoPointMissed
<1>1. Control /\ WrittenSoFar => NoPointMissed
  <2> SUFFICES ASSUME Control, WrittenSoFar, pc = "finished", NEW p \in PointsOf
               PROVE  p \in written
    BY DEF NoPointMissed
  <2>1. Now = Steps * Period /\ Steps * Period \in Nat
    <3>1. theta = Period /\ istep = Steps
      BY DEF Control, Sizes, WrittenSoFar
    <3> QED
      BY <3>1, Numbers, StepTimes DEF Control, Types
  <2>2. p < Now \/ p = Now
    BY <2>1 DEF PointsOf
  <2>3. ~AboutToWrite
    BY DEF AboutToWrite
  <2> QED
    BY <2>2, <2>3 DEF WrittenSoFar
<1> QED
  BY <1>1, ControlAlways, ResultsAlways, PTL

LEMMA ClockAdvances ==
  ASSUME Control, WrittenSoFar, DistinctPoints, Accept, dtheta # 0
  PROVE  Clock!Advance
<1>1. /\ UNCHANGED <<deck, istep, written>> /\ Now' = Now + dtheta /\ pc = "iterate"
  BY AcceptAdvances
<1>2. PointsOf' = PointsOf
  BY <1>1, SameStep
<1>3. /\ theta \in 0 .. Period /\ dtheta \in 0 .. Period /\ Period \in Nat /\ ttime \in Nat
      /\ Now = ttime + theta /\ Steps \in Nat /\ theta + dtheta <= Period
  BY <1>1, Numbers DEF Control, Types, Sizes
<1>4. Now \in PointsOf => Now = 0 \/ Now \in written
  <2>1. ~AboutToWrite /\ pc # "stopped"
    BY <1>1 DEF AboutToWrite
  <2> QED
    BY <2>1 DEF WrittenSoFar
<1>5. Now' > Now /\ Now' <= Steps * Period
  <2>1. ttime + Period <= Steps * Period /\ Steps * Period \in Nat
    BY <1>3, StepTimes DEF Control, Types
  <2>2. Now + dtheta > Now /\ Now + dtheta <= Steps * Period
    BY <1>3, <2>1
  <2> QED
    BY <1>1, <2>2
<1>6. ASSUME NEW p \in PointsOf PROVE p <= Now \/ Now' <= p
  BY <1>1, NothingBetween DEF Control
<1>7. ASSUME NEW s \in 1 .. Steps PROVE s * Period <= Now \/ Now' <= s * Period
  <2>1. s * Period <= ttime \/ ttime + Period <= s * Period
    BY StepTimes DEF Control, Types
  <2>2. s * Period \in Nat
    BY <1>3
  <2>3. s * Period <= Now \/ Now + dtheta <= s * Period
    BY <1>3, <2>1, <2>2
  <2> QED
    BY <1>1, <2>3
<1> QED
  BY <1>1, <1>2, <1>4, <1>5, <1>6, <1>7 DEF Clock!Advance, Clock!Landmarks

LEMMA ClockStep ==
  ASSUME Control, WrittenSoFar, DistinctPoints, [Next /\ RetryFits]_vars
  PROVE  [Clock!Advance \/ Clock!Write]_(Clock!timeVars)
<1>1. CASE UNCHANGED vars \/ Quiet
  <2>1. UNCHANGED <<deck, Now, written>>
    BY <1>1 DEF vars, sizes, counts, Now, ttime, Quiet
  <2>2. PointsOf' = PointsOf
    BY <2>1 DEF PointsOf
  <2> QED
    BY <2>1, <2>2 DEF Clock!timeVars
<1>2. CASE Accept
  <2>1. CASE dtheta = 0
    <3>1. UNCHANGED <<deck, istep, written>> /\ Now' = Now + dtheta
      BY <1>2, AcceptAdvances
    <3>2. Now' = Now
      BY <2>1, <3>1, Numbers DEF Control, Types
    <3>3. PointsOf' = PointsOf
      BY <3>1 DEF PointsOf
    <3> QED
      BY <3>1, <3>2, <3>3 DEF Clock!timeVars
  <2>2. CASE dtheta # 0
    BY <1>2, <2>2, ClockAdvances
  <2> QED
    BY <2>1, <2>2
<1>3. CASE EndIncrement \/ EndStep
  <2>1. /\ deck' = deck /\ Now' = Now
        /\ written' = written \/ (written' = written \cup {Now}
                                     /\ (AboutToWrite \/ Now = istep * Period))
    BY <1>3, EndsWrite
  <2>2. PointsOf' = PointsOf
    BY <2>1 DEF PointsOf
  <2>3. CASE written' = written
    BY <2>1, <2>2, <2>3 DEF Clock!timeVars
  <2>4. CASE written' # written
    <3>1. AboutToWrite => Now \in PointsOf
      BY DEF WrittenSoFar
    <3>2. istep \in 1 .. Steps
      BY Numbers DEF Control, Types
    <3>3. Now \in Clock!Landmarks
      BY <2>1, <2>4, <3>1, <3>2 DEF Clock!Landmarks
    <3> QED
      BY <2>1, <2>2, <2>4, <3>3 DEF Clock!Write
  <2> QED
    BY <2>3, <2>4
<1> QED
  BY <1>1, <1>2, <1>3, QuietSteps

\* The increment loop implements the promise of TimeStepping: time moves forward,
\* no increment reaches over a time point or the end of a step, and the results
\* at a time point are written before the time moves on.
THEOREM TimeKept == ASSUME DistinctPoints PROVE FittingSpec => KeepsTime
<1>1. Init => Clock!TimeInit
  BY ResultsStart DEF Clock!TimeInit
<1>2. Control /\ WrittenSoFar /\ [Next /\ RetryFits]_vars
        => [Clock!Advance \/ Clock!Write]_(Clock!timeVars)
  BY ClockStep
<1> QED
  BY <1>1, <1>2, ControlAlways, ResultsAlways, PTL DEF FittingSpec, KeepsTime, Clock!TimeSpec
=============================================================================
