# ccx-install: the parallel direct solver under CalculiX, and its increment control

This directory holds TLA+ models, model-checking configurations and machine-checked
proofs for the two parts of the repository whose control is hard to get right:

* the multithreaded factorization and solve of SPOOLES 2.2 (`SPOOLES.2.2/`), through which
  CalculiX (`CalculiX/ccx_2.22/src/spooles.c`) solves every linear system of an analysis
  when it is built with `USE_MT`, with the dequeues, lists and object managers it uses;
* the increment control of CalculiX (`nonlingeo.c`, `checkconvergence.c`, `checkdivergence.c`,
  `checktime.f`): which piece of time is computed next, and what is done when it fails.

Why there: the repository is a finite-element program with its libraries. Almost
all of it is sequential numerical code. The solver is where several threads share
data, with an unusual discipline: counters and lists that take a mutex *only when
two senders are expected*, chars that are polled, barriers made of plain stores,
and dequeues whose insertions are not checked for room. The increment control is sequential, but
it is a state machine of a dozen counters spread over several files, and an analysis
reaches its corners only after a long sequence of convergent and divergent
attempts. None of it can be tested exhaustively, and a wrong step shows up as a wrong
displacement.

## 1. Inventory

| Component | State it keeps | Operations | What is hard about it | What makes it correct |
|---|---|---|---|---|
| Factorization, `MT/src/factorMT.c`, `FrontMtx/src/factorUtil.c`, `update.c`, `postponed.c` | per worker: status of each front, updates still to make (`heads[]`), fronts in work, dequeue, `nactiveChild[]`; shared: two list objects, the stored factor, `*perror` | `FrontMtx_MT_factorPencil` starts the workers, `FrontMtx_workerFactor` takes fronts from the dequeue, `FrontMtx_factorVisit` advances one front as far as it can | all waiting is polling: a front goes to the tail of the dequeue and is visited again; updates of one front by several threads; columns postponed to the parent; one worker finds a singular front while others wait for it | every update is assembled once; fronts are factored after their updates; nobody polls for ever; no error means a complete factor |
| `ChvList` / `SubMtxList` | head, count, flag per list, one mutex | add, get, test count, test head | tests without the mutex; the mutex is skipped for one sender | counts are exact when it matters; nothing is lost |
| List construction, `FrontMtx_aggregateList`, `_postList`, `_setUpDequeue`, `_loadActiveLeaves`, `_nactiveChild` | `mark[]`, `head[]`, `link[]`, `offsets[]` | one pass over the fronts | one `link[]` entry per front is reused for many lists, one `mark[]` for two loops | counts = number of threads that will send; flag = more than one |
| `Ideq` | vector, head, tail | insert and remove at both ends, resize | wrap-around, full against empty | a bounded sequence |
| Solve, `MT/src/solveMT.c`, `FrontMtx/src/solveUtil.c`, `SolveMap` | `p_mtx[]`, `frontIsDone[]`, three barrier vectors, two lists; per worker status, heads, dequeue, `p_agg[]` | forward sweep up, diagonal, backward sweep down, copy to the solution | publication by two plain stores; reuse of `p_mtx[]` and `frontIsDone[]` in every phase; spin barriers | whoever reads a front's solution reads the finished one of the right phase |
| `ChvManager`, `SubMtxManager` | sorted free list, statistics, mutex | new, release, release a list, clear | one `next` field per object links both the free list and the lists between threads; an object that is given out keeps a stale link into the free list | no object is in use twice; the smallest that fits is given |
| `Lock` | a pthread mutex or nothing | lock, unlock | `NO_LOCK` | mutual exclusion |
| QR factorization, `MT/src/QRfactorMT.c` | as the factorization, one list | QR worker | as above | as above |
| Serial factor and solve | tree traversal state | postorder loops | none of the above | same result |
| SPOOLES MPI | message objects per front, tags | asynchronous send and receive | lost matching of tags, buffers | not built by this repository |
| Orderings (`MSMD`, `GPart`, `ETree`, `Tree`, `SymbFac`, `Network`) | graphs, trees | sequential algorithms | combinatorial | a postordered forest whose fronts update only ancestors |
| CalculiX increment control, `nonlingeo.c`, `checkconvergence.c`, `checkdivergence.c`, `checktime.f`, `identamta.f`, `checkimpacts.f` | increment size and reference size, cutbacks, next time point (`inext`, `itp`), counts of iterations and increments, contact stiffness, saved state | start a step, begin an increment, iterate, accept, cut back, restore, write results, stop | long legal sequences; off by one at time points and at the end of a step | every time point is met and written; an attempt starts from the last accepted state; a retry differs from what failed; the analysis ends |
| CalculiX threaded element loops | one result array per thread | fork, join | disjoint ranges | no interaction before the join |
| PaStiX, PaRSEC, DPLASMA, ARPACK | third party | | static and dynamic task scheduling | not built by default |

How they interact: `spooles.c` builds the matrix, asks for an ordering, maps fronts to
threads, calls `FrontMtx_MT_factorInpMtx` (two `ChvList`s, one `ChvManager`, one
`SubMtxManager`), post-processes the factor, builds a `SolveMap`, and calls
`FrontMtx_MT_solve` (two `SubMtxList`s). Workers communicate only through those
lists, `*perror`, `p_mtx[]`, `frontIsDone[]` and the three barrier vectors. The increment control calls the solver
once per iteration and sees of it only the residuals and whether it stopped. Nothing is
persisted and nothing is sent over a network in this build, so there is no recovery
and no loss of messages to model.

`PROJECT.json` lists every component with its status, and under `hazards` each place of
the code where one of the hard behaviours above bites.

## 2. Modules

| Module | What it is | Code |
|---|---|---|
| `FrontTree` | constants and derived static data: tree, updates, owners, dequeue capacity, list counts and flags | `factorUtil.c` 690-1244 |
| `ChvList` | one list object: unlocked and locked add and get, a memory access per step | `ChvList/src/util.c`, `SubMtxList/src/util.c` |
| `FactorMT` | the workers of the factorization; two instances of `ChvList` (`agg`, `post`) | `factorMT.c`, `factorUtil.c`, `update.c`, `postponed.c` |
| `Multifrontal` | abstract specification of a factorization: a front is factored when its updates and postponed columns are there | what `FrontMtx_factorPencil` promises |
| `FactorMTInv`, `SolveMTInv` | inductive invariants | |
| `ListSetup` | the loops of `FrontMtx_postList` and `FrontMtx_aggregateList` as a state machine; the lists in `head[]` and `link[]` are sets | `factorUtil.c` 972-1244 |
| `Ideq`, `BoundedDeque` | ring with wrap-around and the bounded sequence it implements | `Ideq/src` |
| `SolveTree` | static data of the solve, from the front tree and the two maps of `SolveMap` | `SolveMap/src/util.c`, `solveUtil.c` |
| `SolveMT` | the workers of the solve; two instances of `ChvList` (`forw`, `back`) | `solveMT.c`, `solveUtil.c` |
| `TriangularSolve` | abstract specification: three solves in the order the blocks allow | |
| `ObjectManager` | a manager, its free list walked pointer by pointer, and the threads that obtain objects, hand them on through a list, reorder it and release it | `ChvManager/src`, `SubMtxManager/src` (`init.c`, `util.c`) |
| `ObjectPool` | abstract specification of a manager: best fit, an object to one user at a time | the comments of `ChvManager/src/util.c` |
| `Increments` | the increment control: steps, increments, attempts, iterations | `nonlingeo.c`, `checkconvergence.c`, `checkdivergence.c`, `checktime.f`, `identamta.f`, `timepointss.f` |
| `TimeStepping` | abstract specification of the time of an analysis: no increment reaches over a time point or the end of a step, and results are written at each point before the analysis moves on | |
| `MC*` | instances for TLC | |
| `*Proofs` | theorems | |

State and actions follow the code by name. In `FactorMT`, `pc[t]` says where worker `t`
is, `cur[t]` is `J`, `status`, `nactiveChild`, `updates` (the code's `heads[]`, which link the
fronts whose updates are still to be made), `fronts`, `deq` are the worker's arrays,
`aggHeads`/`aggCounts`/`aggLock` and `postHeads`/... the two list objects, `stored` the
factor, `perror`, `rootchv` and `joined` the caller's view. Every action is one stretch of
code with **at most one access to memory that another thread writes**; private work
before and after it belongs to the same action. One step joins more: `GetLoad` of `ChvList` (`ChvList_getList`) tests
the head, the flag and the count, takes the mutex if they ask for it and loads the head. Nothing is lost by that: flags do not change,
counts only fall, so that an earlier look at them could only send the thread to a mutex it does not need, and a list that
is not empty stays so until its one reader takes it. `SolveMT` is built the same way;
`phase[t]` says which loop of `FrontMtx_workerSolve` the thread is in, and
`isDone["forward" | "diagonal" | "backward"]` are `lowerIsDone[]`, `diagIsDone[]`, `upperIsDone[]`.

In `ObjectManager` one step is one turn of a loop of `newObjectOfSizeNbytes`, `releaseObject` or
`releaseListOfObjects` inside the critical section; `head`, `next`, `size`, `prev`, `cur`, `obj` and
`chain` are the code's pointers. `free`, `listed`, `held` and `chained` are history: they record where
the operations have put each object, and the properties say that the pointers agree
with them. `type` is which of the two managers it is (they differ in the comparison that finds the place of a released
object), `mode` whether it recycles. The threads are any threads that follow the protocol of the factorization; the
list between them is `ChvList` with one step per call.

In `Increments`, `theta`, `dtheta`, `dthetaref`, `inext`, `itp`, `istab`, `icutb`, `iinc`, `jprint`, `iit`, `iitterm`, `ir`, `ic`,
`ithermal`, `kscale` and `negpres` are the code's variables of these names, `deck` is what the
input says, `vold` and `vini` are the times to which the current and the saved solution belong, `written`
the times at which results were written. `checktime` opens a step, `BeginIterations` is the
head of the increment loop, each outcome of `checkconvergence` is an action (`ThermalConverged`,
`Accept`, `Diverges`, `DivergesDirect`, `TooSlow`, `TooManyIterations`, `NextIteration`), `CutBack` is the code that every failed attempt runs, and
`Restore`, `EndIncrement`, `EndStep` are the end of the loop.

### What is abstracted

* Numbers. A front is the set of fronts whose updates it has gathered, the columns
  its children postponed to it, and (in the solve) the stage of the substitution, each
  contribution carrying the stage its source was in when it was read. This is
  exactly what a lost, duplicated or early contribution changes.
* Pivoting chooses any subset of a front's columns to postpone; without pivoting any
  front may turn out singular.
* A linked list is a set: the order of assembly changes only rounding.
* Memory is sequentially consistent. The code relies on the order of plain stores
  (head before count in `ChvList_addObjectToList`, `p_mtx[J]` before `frontIsDone[J]`). `Make.inc`
  compiles with `-O3`; the accesses are to `char` (which may alias anything) or across calls,
  gcc keeps their order and re-reads the spin loops, and x86 keeps the order of stores and of
  loads. On a weaker machine these models do not apply.
* In `ObjectManager`, `releaseObject` lowers the statistics before its walk; here `Insert` does it after the
  walk, in the same critical section, so that no other thread can see the difference. The statistics that
  are only printed are left out.
* In `Increments` times are whole units and the code's tolerance `1.e-6*tper` is less than a unit, so times
  that near are one. A size multiplied by a factor below 1 becomes any smaller size, by a factor above 1 any
  larger one up to `Period + 1` (every larger one is cut to the end of the step). Residuals, contact changes, the sizes asked for by
  a user material, a temperature or creep limit, and impacts are choices. `icutb` is decreased and increased again when the networks
  do not converge for the loads of an increment (`nonlingeo.c`); only the sum is kept. Explicit dynamics
  (`iexpl > 1`), fluid dynamics (`checkinclength.c`) and modal dynamics (`dyna.c`) are not modelled.
* The time points of a step are in ascending order. The reader checks neither order nor duplicates, and
  `identamta` takes the order for granted; duplicates are allowed in the model, with finding 4. The steps of an analysis may
  use different parts of `amta`, in step time or in total time, or none (`namta[s]`); everything else in the input is the same for all steps.
* Statistics, timers, message levels, allocation failure, a failing `pthread_create` (the program
  exits) and the parameter checks that end in `exit(-1)`.

## 3. Runs

Every run explores its instance completely; no state constraints are used. The one restriction of the steps is that of
the retries in five of the analyses of `increments`, explained below.

| Run | Instance | Properties | What it shows |
|---|---|---|---|
| `three_pivot` | 3 threads, 5 fronts, pivoting; about 370,000 states | `UpdateInOnePlace`, `AggCountsAreExact`, `PostCountsAreExact`, `RefinesMultifrontal` | the lists with and without mutex neither lose nor duplicate an update; the workers implement the abstract factorization |
| `trees_pivot` | 2 threads, 5 fronts, 2 roots, pivoting, lookahead 1; 119,000 states; fairness | `TypeOK`, `NoFrontIsDropped`, `RootDataReturned`, `StoredOnce`, `Termination` | dequeues never overflow, a recursive visit stores nothing again, postponed columns of all roots are returned, every worker ends |
| `two_nopivot` | 2 threads, 5 fronts, no pivoting; 1,600 states; fairness | `NoErrorMeansComplete`, `Termination` | singular fronts: everybody ends, and "no error" means a complete factor |
| `list_setup` | 3 threads, 12 fronts, 3 trees | `SetupInv`, `LinkedOnce`, `AggListBuilt`, `PostListBuilt` | the set-up loops compute what `FrontTree` says |
| `ideq` | capacities 1-4, 2 values | `TypeOK`, `RefinesDeque` | the ring is a bounded sequence |
| `solve_three` | 3 threads, 5 fronts, one without columns; 163,000 states; fairness | `TypeOK`, `BarriersHold`, `ReadersSeeFinished`, `ContributionInOnePlace`, `AggCountsAreExact`, `NoFrontIsDropped`, `RefinesTriangularSolve`, `Termination` | publication, barriers and lists of the solve |
| `object_manager` | 2 threads, 3 objects, 2 sizes, both managers, both modes; 174,000 states; fairness | `TypeOK`, `ObjectInOnePlace`, `FreeListSorted`, `ListsIntact`, `WalkEnds`, `KeepsPromise` | the free list and the lists between threads share the links and never run into each other; the manager implements the pool |
| `increments` | 2 steps of 6 units, 14 analyses, and 5 more as long as every retry fits; 37,000 states; fairness | `TypeOK`, `NextTimePoint`, `NoEmptyIncrement`, `StartsFromAccepted`, `NoPointMissed`, `StaysInStep`, `RetriesDiffer`, `KeepsTime`, `Terminates` | whatever converges or diverges, time points are met in order and written before the time moves on, no attempt reaches over the end of a step, every attempt starts from the last accepted state, the analysis ends |
| `root_flag` | 2 threads, 2 trees | `RootDataReturned` (violated) | finding 1 |
| `ideq_resize` | capacities up to 5 | `ResizeKeepsData` (violated) | finding 3 |
| `tied_points` | generated time points, the last one twice | `InextExceedsTime` (violated) | finding 4 |
| `impact_overrun` | dynamics with minimum size 3 | `StaysInStep` (violated) | finding 7 |

Three more configurations show findings that are not among the runs of `PROJECT.json`: TLC finds `NoErrorMeansComplete` violated with
`Lookahead.cfg` (finding 2), and `InextExceedsTime` with `ContactPoints.cfg` (finding 5) and `SwitchedPoints.cfg` (finding 6).

Every property of a passing run has a mutant in `PROJECT.json`: a definition changed the way
a plausible bug would change it (no mutex for a list, one look instead of two at a list,
a front forgotten by the dequeue, a barrier that does not wait, ...), with which TLC finds the
property violated.

**Why the instances are large enough.** The unlocked case needs one sender and the
receiver, the locked case two senders and the receiver: three threads. A front must be both sender
and receiver, a thread must pass through a front it does not own between two that it
does, and postponed columns must travel two levels: five fronts in three levels. Two
roots with different owners exercise the list of the roots. In `trees_pivot` front 0 sends its parent
postponed data but no aggregate, so the two lists are waited for independently. In `solve_three` two
threads send to front 4 going up and to front 0 going down at the same time. In `object_manager` three
objects give a first, a middle and a last place in the free list, two sizes give ties, and two threads are a holder
of the critical section and everybody else. In `increments` two steps of six units let time points fall inside a
step, at its end and (with `TIME=TOTAL TIME`) in the next one, sizes run from the minimum over the
maximum to what is left of the step, and the limits on increments, cutbacks and iterations are all
reached; the fourteen analyses are plain, thermal, uncoupled and dynamic ones, the three kinds of contact, fixed increments, and
time points given one by one, generated, per step, in total time, and first in total time and then in step time. In
the five analyses of `FittingDecks` (face-to-face contact with time points, dynamics whose minimum size does not divide the step) an increment is
shortened below the minimum size by a time point and by the end of a step, and the first cutback with face-to-face contact
meets increments that end at a time point and others. The code can break these analyses (findings 5 and 7); the run explores what
they do as long as every retry fits (`Fits` in `MCIncrements`), and shows that these retries are all that can go wrong in them. What
holds for every size is proved (section 4).

**Fairness.** Weak fairness of each worker's next step and of the join, nothing else.
Workers are OS threads, none of which is suspended for ever; each busy-waits on memory
another will write, and no property needs strong fairness, because a lock is held for a bounded
number of its holder's own steps and contention ends with the finite number of insertions.
`object_manager` assumes weak fairness of the steps *inside* the critical section only (a thread that
is in it runs on); whether a thread ever asks for an object or gives one back is left open.
`increments` assumes that the one sequential program goes on: weak fairness of its next-state relation (in the five analyses of
`FittingDecks`, of the steps left to it; there always is one).
`Terminates` excepts fixed increments with face-to-face contact, which the code iterates without a bound.

### Findings

1. **Roots are not counted** (`factorUtil.c:1033`). The loop over the roots in `FrontMtx_postList` reuses
   `mark[]` of the loop over the fronts. When a root and its last child have the same owner, its
   owner looks already counted; with such roots the list of the roots gets flag `'N'`, two
   workers add to it without the mutex, and a postponed chevron can be lost, so the caller
   sees fewer of the columns that could not be eliminated. CalculiX only asks whether the list is empty.
2. **lookahead visits the front itself** (`factorUtil.c:383`). The comment says the parent is visited; the
   code passes `J` again. With pivoting the second visit is harmless (`trees_pivot`). Without
   pivoting it factors a singular front again, from an empty chevron, and no error is reported.
   CalculiX passes lookahead 0.
3. **`Ideq_resize` loses values of a wrapped dequeue** (`resize.c:60`). The copying loop wraps at the number
   of values instead of the size of the vector. Callers in the repository resize empty dequeues only.
4. **`*TIME POINTS, GENERATE` repeats its last point** (`timepointss.f:157`). It stores the points in steps of the
   increment and then the last one, also when the increments have reached it. The increment that ends there
   leaves `inext` at the copy, which is not "the smallest time point exceeding time" of the comment
   (`checkconvergence.c:466`). It does no harm when that point is the end of the last step; when the step goes on the next increment
   has size 0.
5. **A cutback that keeps the size loses the time point** (`checkconvergence.c:646`). A cutback sets `itp` to 0
   and takes `inext` back, because the next attempt is going to be smaller. With face-to-face contact the
   first one is not, only the contact stiffness is reduced. The repeated attempt reaches the time point with `itp` = 0, so
   nothing is written there, and the next increment has size 0.
6. **The next time point of other time points** (`checktime.f:40`). With time points in total time a step takes over `inext` from
   the step before, although it may name other time points. The index then points anywhere: with `SwitchedPoints.cfg` the
   second step first goes to a point of the first step, passes over its own, and orders an increment of size -1.
7. **An impact takes an increment past the end of the step** (`checkconvergence.c:627`, `checkimpacts.f:182`). Only the size of the next
   increment is compared with what is left of the step. The last increment of a step, when it is shorter than the minimum size and meets an
   impact, is tried again with the minimum size and ends behind the step. In the same way an increment that ends at
   a time point is taken over it, and `inext` is then the point passed: the next increment is given a size below 0. Where the attempt
   already had the minimum size it is ordered again as it was, although the comment (`checkconvergence.c:95`) and the message
   printed promise a smaller size; only the limit on cutbacks ends this.

## 4. Theorems

Assumptions: `TreeAssumption` (a postordered forest; fronts update only ancestors; owners are
threads; `rootseq` lists the roots), `SolveAssumption` (no block belongs to a front without columns; the two
maps name threads), `OptionAssumption` (types of the two options), `IdeqAssumption`,
`ManagerAssumption` (finitely many objects, positive sizes), `ConstantsAssumption` and `DecksAssumption` (an analysis is one the
input reader lets through), all evaluated by TLC on the instances. The number of fronts and threads, the tree, the map, the
updates, pivoting and lookahead are arbitrary; so are the number of objects and sizes, and the steps, times, time points and limits
of an analysis.

* `FactorMTProofs!TypeCorrect`: `Spec => []TypeOK`. `TypeOK` is not inductive: what is stored must come
  from a front that was set up, so the invariant is `TypeInv == TypeOK /\ SetUp`.
* `FactorMTProofs!AggCountsCorrect`: the count of an aggregate list is the number of threads that have
  not sent, for every number of threads, although a list with one sender is changed without
  mutex. The argument, `AggCountInv`: a thread with something to send still has updates to make or is
  sending (`SendsOnce`), a thread between load and store of a count holds the mutex or is the only sender
  (`AggExclusive`), so the value it loaded is still the value in memory when it stores.
* `FactorMTProofs!PostCountsCorrect`: the same for postponed data, under `RootsLocked`: the roots' list takes
  the mutex, or all roots have one owner. That is precisely what finding 1 breaks; without it the
  statement is false.
* `FactorMTUpdateProofs!StoredOnceCorrect`: what is stored for a front never changes, for any lookahead. Invariant:
  a stored front is finished, or its owner is just reporting to the parent.
* `FactorMTUpdateProofs!NoFrontIsDroppedCorrect`, for any lookahead, pivoting or not. Invariant `DequeInv`: a front is in the
  dequeue or being visited exactly when it is unfinished and its active children are done, which `nactiveChild` counts;
  no front is there twice; and there is room for the front in hand. The room is there at the start because every active
  leaf is a front at which `FrontMtx_setUpDequeue` begins a path (`LeavesFit`), and stays because each visit puts back at most
  one front.
* `FactorMTUpdateProofs!UpdateInOnePlaceCorrect`, under `NoRevisit` (with pivoting, or lookahead 0; finding 2 is what happens
  otherwise). Invariant `UpdateInv`: a working chevron has gathered exactly the thread's own updates made so far and
  the aggregates assembled (`Gathered`); a list holds whole aggregates of threads that have handed them over (`Listed`); it is taken with the
  mutex *or when nobody adds to it any more* (`TakeExclusive`), which is why the unlocked list loses nothing; and once
  the owner has read a count of 0 and looked at the list again, nothing is to come (`NothingToCome`). This last step rests on `AggCountsCorrect`.
* `FactorMTUpdateProofs!NoErrorMeansCompleteCorrect`, `!RootDataReturnedCorrect`, `!RefinesMultifrontalCorrect`, under
  `Sound == RootsLocked /\ NoRevisit`, that is for instances to which findings 1 and 2 do not apply. Each of the two
  conditions is needed: `root_flag` and `Lookahead.cfg` are the counterexamples. `PostInv`
  says of the lists of postponed columns what `UpdateInv` says of the aggregates (a list holds what the children that have
  reported left, and is taken when all have), and that `*perror` names a singular front. Together with `DequeInv` this gives completeness:
  a worker leaves its loop when its dequeue is empty, so all its fronts are finished, hence stored, hence made of all their updates.
  In the refinement `FactorPivoting` and `FactorNoPivoting` are `FactorFront`, `FactorSingular` is `FindSingular`, `Join` is
  `Finish`, and everything else is a stutter (`AbstractWorker`, `AbstractJoin`).
* `ListSetupProofs!LinkedOnceCorrect`, `!AggListCorrect`, `!PostListCorrect`: the set-up loops end with the counts and flags
  `FrontTree` defines. Invariant `SetupInv`: a front is linked below its first unfinished foreign ancestor and
  nowhere else, `mark[]` holds the last front seen.
* `SolveMTProofs!BarriersCorrect`: `Spec => []BarriersHold`. A thread that has signalled the end of a loop is at its
  barrier or behind it, and a thread is behind a barrier only when all have signalled; so two threads are
  never two phases apart. The invariant `BarrierInv` adds which labels belong to which phase.
* `SolveMTProofs!ReadersCorrect`: `Spec => []ReadersSeeFinished`, for every tree, block map and number of threads. A
  read of `p_mtx[I]` needs `frontIsDone[I]`, and what that char means depends on the phase (`DoneMeans`): in the
  forward solve the matrix has stage y, in the backward solve stage x, and between them it belongs to
  the owner of `I`, who has taken it back when it signals the end of the diagonal loop. By `BarriersHold` a
  thread in the diagonal loop or in the copy of the solution never meets one in a solve (lemma
  `Overlap`), which is why solving in place, withdrawing and releasing are safe.
* `SolveMTProofs!PathsCorrect`: `Spec => []NoFrontIsDropped`. Invariant `PathInv`, with `DequeInv` as in the factorization:
  a front on the path of a thread is in the dequeue or being visited exactly when it is unfinished and nothing it has to
  wait for is pending, which `nactiveChild` counts in the forward solve. The backward solve has no count, there a front waits
  for its parent and a visit puts all waiting children back at once; there is room because the fronts in the
  dequeue are never above one another (`Apart`), and as many fronts as that have as many first fronts of a path below them
  (`ApartFits`). This is also why the dequeue, sized before the loop, may be loaded with the leaves or the active roots.
* `SolveMTUpdateProofs!TypeCorrect`: `Spec => []TypeOK`. A matrix can only be added to if it exists, so the types rest
  on the life of a front's matrix (`MatrixLife`): with its owner or published, never both, with the stage the owner's place in the
  program says (`StageOf`), an aggregate of another thread exists exactly while it has contributions in hand (`Aggregating`),
  and what a thread has in hand it has once (`HandInv`).
* `SolveMTUpdateProofs!CountsCorrect`: `Spec => []AggCountsAreExact`. Invariant `CountInv`, by the argument of
  `AggCountsCorrect`, for both list objects and across the phase between them: a thread that has not begun a solve still has to send for it.
  The flags of the backward lists are those of both solves together (`SolveFlags`), so a list may be locked without need,
  never unlocked with need.
* `SolveMTUpdateProofs!ContributionsCorrect`: `Spec => []ContributionInOnePlace`. Invariant `UpdateInv`: a sum holds the thread's own
  contributions made so far and the aggregates assembled (`Gathered`, `AggregateOf`); a list holds whole aggregates of threads that
  have handed them over (`ListedOf`) and is taken with the mutex or when nobody adds to it any more (`TakeExclusive`); when the owner
  has read a count of 0 and looked at the list again nothing is to come (`NothingToCome`); what is published is
  complete (`Complete`), and a contribution is made only from a finished solution (`UsedIsSolved`, by `ReadersCorrect`).
* `SolveMTUpdateProofs!RefinesTriangularSolveCorrect`: `Spec => RefinesTriangularSolve`, from `UpdatedInv`. A front of the
  abstract solve is its published matrix or, while there is none, the one its owner holds, with what it has gathered left out until it is
  complete (`Mapped`). `Publish` is the abstract forward or backward solve of the front (`PublishMaps`; its sources are solved by
  `UsedIsSolved`, and not yet changed because nobody is a barrier ahead), `DiagonalSolve` the diagonal one, `Copy`
  the store of the solution; taking a matrix back and publishing it again in the diagonal loop, and everything else, are stutters.
* `ListSetupProofs!SetupCorrect`, `IdeqProofs!TypeCorrect`: the invariants that these rest on. The second is proved of `Spec` and of
  `ResizeSpec`: a resize loses values (finding 3), but what it copies lies in the old vector and ends inside the new one.
* `IdeqProofs!RingCorrect`: `Ideq` implements `BoundedDeque` for every capacity and set of values.
* `ObjectManagerProofs!TypeCorrect`, `!OnePlaceCorrect`, `!FreeListCorrect`, `!ListsCorrect`, `!PromiseKept`: all safety properties of
  `ObjectManager`, for every number of threads and objects, and that it implements `ObjectPool`. Invariant: whoever is not idle
  holds the lock, or is the only one inside; the places are disjoint; each of the lists is the sequence of its objects, ended by
  `NULL`; and during a walk the objects passed are those before `cur`, all too small (searching) or not
  beyond the object (releasing). Best fit follows from the order of the list: the first object that is large enough is the
  smallest. The lemmas about sequences (`Chain*`) say what one splice does to a list and that it leaves the
  other lists alone because their objects are others.
* `IncrementsProofs!TypeCorrect`, `!RetriesCorrect`: `Spec => []TypeOK` and `Spec => RetriesDiffer`, for all steps, times, limits
  and analyses without any assumption on them. The first bounds indices and counters, not the sizes. The second says what a
  retry can be: smaller; the first one with face-to-face contact, of the same size with the reduced stiffness; or, in dynamics, of the minimum size
  for an attempt that had no more than that. The last case can be the identical attempt (end of finding 7).
* `IncrementsProofs!NextPointCorrect`, `!NeverEmpty`, `!StaysCorrect`, `!StartsCorrect`, `!PointsCorrect`, `!TimeKept`: the other safety and
  action properties of `increments`, and that the increment control implements `TimeStepping`, for all
  steps, times and limits, under two hypotheses that the code does not guarantee. `DistinctPoints`: no time point of a step is given twice
  (finding 4), and a step in total time has the points of the step before it, or the first points of the analysis (finding 6).
  `FittingSpec`: every retry fits (`RetryFits`), that is, it is smaller than the attempt given up, or of the same size if that was not to end at a
  time point (findings 5 and 7). Nothing is assumed of the minimum size, of contact or of dynamics.
* `IncrementsProofs!RetriesFit`: `Spec => FittingSpec` under `DistinctPoints` and `SimpleDecks`: time points neither with face-to-face contact
  nor in dynamics, and a minimum size of one unit in dynamics. So the theorems hold of `Spec` for these analyses. The input
  reader guarantees neither assumption (`dynamics.f` sets the minimum size only when none is given).
* The invariant of all these is `Control` (types; the increment fits into the step; the saved state is
  that of the last accepted increment; `inext` is the first point after it, or behind it the one the
  increment ends at; what the steps before this one leave in `inext`) and `WrittenSoFar` (every point passed has been written,
  and after an increment that ends at a point `jprint` is such that results are due). `identamta` is proved to find the
  place (`NextFound`) from the order of the points.

**Only model-checked**: liveness (`Termination`, `WalkEnds`, `Terminates`); fairness and ENABLED are out of the prover's reach. Every other
property of the passing runs is a theorem, the refinements of the abstract specifications included.

## 5. Plan

Done, in the order of importance: 1 `FrontTree`, `ChvList`, `FactorMT`, `Multifrontal`; 2 `ListSetup`, `Ideq`; 3 `SolveTree`, `SolveMT`,
`TriangularSolve`; 4 `ObjectManager`, `ObjectPool`; 5 `Increments`, `TimeStepping`; proofs as listed in section 4.

Left:

1. `QRFactorMT`: the QR workers on `FrontTree` and one `ChvList`. CalculiX does not call them.
2. `SerialFactor`, `SerialSolve` as implementations of `Multifrontal` and `TriangularSolve`.
3. Explicit dynamics in `Increments`.
4. `StaticSchedule`: the static schedule of PaStiX, in which each thread waits for the counter of its next column block.

## 6. Not modelled

Everything marked `not_modelled` in `PROJECT.json`, with its reason there. In short:

* libraries of third parties that this build does not use (PaStiX, PaRSEC, DPLASMA) or uses sequentially (ARPACK);
* SPOOLES' MPI part, which is not built, and its QR factorization, which CalculiX does not call;
* the serial factorization and solve: one thread's loops over the same visits, without anything to interleave;
* numerical kernels, orderings, input, output and element routines, which are sequential: their control is a fixed
  sequence of loops, and what could be wrong with them is the arithmetic, which a model of the control does not see;
* the threaded loops over elements, in which every thread has its own range and its own result array until the join.

These are most of the repository's lines: the models cover the control of two components, not the numerical code.
