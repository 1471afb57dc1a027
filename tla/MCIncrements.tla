--------------------------- MODULE MCIncrements ---------------------------
(* Small analyses: two steps of a few units of time.                       *)
EXTENDS Increments

\* The same in every step
Always(use) == [s \in 1 .. Steps |-> use]

Plain ==
  [mortar |-> 0, idrct |-> 0, amta |-> << >>, namta |-> Always(NoPoints), tinc |-> 2, tmin |-> 1,
   tmax |-> 3, jout |-> 1, uncoupled |-> FALSE, ithermal |-> 1, dynamic |-> FALSE]

\* A deck with time points in all steps, in step time or in total time
InStepTime(d, amta)  == [d EXCEPT !.amta = amta, !.namta = Always(Use(1, Len(amta), FALSE))]
InTotalTime(d, amta) == [d EXCEPT !.amta = amta, !.namta = Always(Use(1, Len(amta), TRUE))]

MCDecks ==
  {InStepTime([Plain EXCEPT !.ithermal = 3, !.uncoupled = u], <<2, 3>>) : u \in BOOLEAN}
  \cup {InTotalTime([Plain EXCEPT !.tmin = 2], <<1, 4, 7, 9>>),
        InStepTime(Plain, Generated(0, 5, 3)),
        [Plain EXCEPT !.dynamic = TRUE],
        [Plain EXCEPT !.dynamic = TRUE, !.tmin = 2, !.tmax = 2],
        InTotalTime([Plain EXCEPT !.tinc = 3], <<3, 8>>),
        [Plain EXCEPT !.amta = <<4, 1, 5>>, !.namta = <<Use(1, 1, TRUE), Use(2, 3, FALSE)>>],
        [Plain EXCEPT !.mortar = 1, !.jout = 2],
        [Plain EXCEPT !.mortar = 1, !.ithermal = 3],
        [Plain EXCEPT !.mortar = 2, !.idrct = 1],
        InStepTime([Plain EXCEPT !.mortar = 2, !.tmin = 2], <<3>>),
        [Plain EXCEPT !.idrct = 1], InStepTime([Plain EXCEPT !.ithermal = 2], <<5>>)}

\* Contact with time points, and dynamics whose minimum size is more than the
\* smallest there is
FittingDecks ==
  {InStepTime([Plain EXCEPT !.mortar = 1], <<2, 3>>),
   InStepTime([Plain EXCEPT !.dynamic = TRUE, !.tmin = 2], <<3>>),
   InTotalTime([Plain EXCEPT !.dynamic = TRUE, !.mortar = 1, !.tmin = 2], <<4, 9>>),
   [Plain EXCEPT !.dynamic = TRUE, !.tmin = 2],
   [Plain EXCEPT !.dynamic = TRUE, !.tinc = 3, !.tmin = 3]}

\* The first analyses as they are, and the second ones as long as every retry fits
AllDecks == MCDecks \cup FittingDecks
Fits     == deck \in FittingDecks => RetryFits

MCNext ==
  \/ checktime \/ TooManyIncrements \/ BeginIterations \/ ThermalConverged \/ Accept
  \/ TooManyIterations \/ DivergesDirect \/ NextIteration
  \/ Restore \/ EndIncrement \/ EndStep \/ Ended
  \/ LoadDiverges /\ Fits
  \/ NetworkDiverges /\ Fits
  \/ Diverges /\ Fits
  \/ TooSlow /\ Fits

MCSpec == Init /\ [][MCNext]_vars /\ WF_vars(MCNext)

\* Time points that are generated
TiedDecks == {InStepTime(Plain, Generated(0, 2, 2))}

\* Face-to-face contact and time points
ContactDecks == {InStepTime([Plain EXCEPT !.mortar = 1], <<2, 3>>)}

\* Dynamics whose minimum size does not divide the step
ImpactDecks == {[Plain EXCEPT !.dynamic = TRUE, !.tinc = 4, !.tmin = 3, !.tmax = 4]}

\* Other time points in the second step, in total time as those of the first
SwitchedDecks ==
  {[Plain EXCEPT !.amta = <<3, 9, 8>>, !.namta = <<Use(1, 2, TRUE), Use(3, 3, TRUE)>>]}
=============================================================================
