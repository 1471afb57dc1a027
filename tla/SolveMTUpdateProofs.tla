------------------------ MODULE SolveMTUpdateProofs ------------------------
(***************************************************************************)
(* The way of a contribution in SolveMT, for every tree, every map of      *)
(* fronts and blocks and any number of threads: the matrix of a front is   *)
(* with its owner or published and every variable keeps its type           *)
(* (TypesInv), the counts of the lists are exact (CountInv), and every     *)
(* contribution is in one place until the solution it is part of is        *)
(* published (UpdateInv).  From this the threads together implement        *)
(* TriangularSolve.                                                        *)
(*                                                                         *)
(* A step is split by what it does to one variable: AggEffect, MtxEffect   *)
(* and ListEffect say it for the matrices and the lists; a lemma named     *)
(* after a part of the invariant and Step proves that part of every step.  *)
(***************************************************************************)
EXTENDS SolveMTProofs

-----------------------------------------------------------------------------
(* What a step does to the matrices                                        *)

\* A matrix has a stage and contributions; NoMtx is the one without.
LEMMA MtxFacts ==
  ASSUME NEW m \in Mtx
  PROVE  /\ m.stage \in Stage /\ m.upd \in SUBSET (Front \X Stage)
         /\ m = NoMtx <=> m.stage = "none"
         /\ m = NoMtx => m.upd = {}
         /\ DOMAIN m = MatrixFields
<1>1. CASE m = NoMtx
  BY <1>1 DEF NoMtx, Stage, MatrixFields
<1>2. CASE m \in [stage : Stage \ {"none"}, upd : SUBSET (Front \X Stage)]
  BY <1>2 DEF NoMtx, Stage, MatrixFields
<1> QED  BY <1>1, <1>2 DEF Mtx

\* The matrices the program makes.
LEMMA MtxNamed ==
  /\ NoMtx \in Mtx /\ ZeroMtx \in Mtx /\ RhsMtx \in Mtx /\ [stage |-> "z", upd |-> {}] \in Mtx
  /\ NoMtx.stage = "none" /\ ZeroMtx.stage = "zero" /\ RhsMtx.stage = "rhs"
  /\ NoMtx.upd = {} /\ ZeroMtx.upd = {} /\ RhsMtx.upd = {}
  /\ [stage |-> "z", upd |-> {}].stage = "z" /\ [stage |-> "z", upd |-> {}].upd = {}
BY DEF Mtx, NoMtx, ZeroMtx, RhsMtx, Stage

\* A matrix that is given a stage, or more contributions.
LEMMA MtxStage ==
  ASSUME NEW m, DOMAIN m = MatrixFields, NEW v
  PROVE  /\ [m EXCEPT !.stage = v].stage = v /\ [m EXCEPT !.stage = v].upd = m.upd
         /\ m \in Mtx /\ v \in Stage \ {"none"} => [m EXCEPT !.stage = v] \in Mtx
<1>1. [m EXCEPT !.stage = v].stage = v /\ [m EXCEPT !.stage = v].upd = m.upd
  BY DEF MatrixFields
<1>2. ASSUME m \in Mtx, v \in Stage \ {"none"} PROVE [m EXCEPT !.stage = v] \in Mtx
  <2>1. m = [stage |-> m.stage, upd |-> m.upd] /\ m.upd \in SUBSET (Front \X Stage)
    BY <1>2 DEF Mtx, NoMtx
  <2>2. [m EXCEPT !.stage = v] = [stage |-> v, upd |-> m.upd]
    BY <2>1
  <2> QED  BY <1>2, <2>1, <2>2 DEF Mtx
<1> QED  BY <1>1, <1>2

\* A matrix keeps its stage when it is given contributions.
LEMMA MtxUpd ==
  ASSUME NEW m, DOMAIN m = MatrixFields, NEW S
  PROVE  /\ [m EXCEPT !.upd = S].stage = m.stage /\ [m EXCEPT !.upd = S].upd = S
         /\ m \in Mtx /\ m # NoMtx /\ S \in SUBSET (Front \X Stage) => [m EXCEPT !.upd = S] \in Mtx
<1>1. [m EXCEPT !.upd = S].stage = m.stage /\ [m EXCEPT !.upd = S].upd = S
  BY DEF MatrixFields
<1>2. ASSUME m \in Mtx, m # NoMtx, S \in SUBSET (Front \X Stage) PROVE [m EXCEPT !.upd = S] \in Mtx
  <2>1. m = [stage |-> m.stage, upd |-> m.upd] /\ m.stage \in Stage \ {"none"}
    BY <1>2 DEF Mtx, NoMtx
  <2>2. [m EXCEPT !.upd = S] = [stage |-> m.stage, upd |-> S]
    BY <2>1
  <2> QED  BY <1>2, <2>1, <2>2 DEF Mtx
<1> QED  BY <1>1, <1>2

\* The matrix a thread works on after the step: only that of the front it
\* visits changes.
NewAgg(t) ==
  LET m == pAgg[t][cur[t]]
  IN  /\ VisitFront(t) =>
           pAgg'[t][cur[t]] = IF m = NoMtx /\ Waiting(t) # {} THEN ZeroMtx ELSE m
      /\ Apply(t) =>
           pAgg'[t][cur[t]] = IF pMtx[src[t]] = NoMtx THEN m
                              ELSE [m EXCEPT !.upd = @ \cup {<<src[t], pMtx[src[t]].stage>>}]
      /\ Assemble(t) =>
           pAgg'[t][cur[t]] = [m EXCEPT !.upd = @ \cup UNION {c.cols : c \in reg[t]}]
      /\ Decrement(t) \/ Publish(t) => pAgg'[t][cur[t]] = NoMtx
      /\ DiagonalMove(t) => pAgg'[t][cur[t]] = pMtx[cur[t]]
      /\ ~(VisitFront(t) \/ Apply(t) \/ Assemble(t) \/ Decrement(t) \/ Publish(t)
           \/ DiagonalMove(t)) => pAgg' = pAgg

\* What a step does to the matrices the threads hold,
LEMMA AggEffect ==
  ASSUME Typed, NEW t \in Thread, Worker(t)
  PROVE  /\ NewAgg(t)
         /\ \A J \in Front : J # cur[t] => pAgg'[t][J] = pAgg[t][J]
         /\ \A u \in Thread : u # t => pAgg'[u] = pAgg[u]
         /\ DOMAIN pAgg' = Thread /\ \A u \in Thread : DOMAIN pAgg'[u] = Front
<1>0. /\ DOMAIN pAgg = Thread /\ cur[t] \in Front
      /\ \A u \in Thread : DOMAIN pAgg[u] = Front
  BY TypedFacts
<1> PICK J0 \in Front : J0 = cur[t]
  BY <1>0
<1>1. ASSUME NEW m, pAgg' = [pAgg EXCEPT ![t][J0] = m]
      PROVE  /\ pAgg'[t][J0] = m /\ \A J \in Front : J # J0 => pAgg'[t][J] = pAgg[t][J]
             /\ DOMAIN pAgg' = Thread /\ \A u \in Thread : DOMAIN pAgg'[u] = Front
  BY <1>0, <1>1
<1> DEFINE m0 == pAgg[t][J0]
           others == VisitFront(t) \/ Apply(t) \/ Assemble(t) \/ Decrement(t) \/ Publish(t)
                     \/ DiagonalMove(t)
<1>2. VisitFront(t) =>
        pAgg' = [pAgg EXCEPT ![t][J0] = IF m0 = NoMtx /\ Waiting(t) # {} THEN ZeroMtx ELSE m0]
  BY DEF VisitFront
<1>3. Apply(t) =>
        pAgg' = IF pMtx[src[t]] = NoMtx THEN pAgg
                ELSE [pAgg EXCEPT ![t][J0] = [m0 EXCEPT !.upd = @ \cup {<<src[t], pMtx[src[t]].stage>>}]]
  BY Zenon DEF Apply
<1>4. Assemble(t) =>
        pAgg' = [pAgg EXCEPT ![t][J0] = [m0 EXCEPT !.upd = @ \cup UNION {c.cols : c \in reg[t]}]]
  BY Zenon DEF Assemble
<1>5. Decrement(t) \/ Publish(t) => pAgg' = [pAgg EXCEPT ![t][J0] = NoMtx]
  BY DEF Decrement, Publish
<1>6. DiagonalMove(t) => pAgg' = [pAgg EXCEPT ![t][J0] = pMtx[J0]]
  BY DEF DiagonalMove
<1>7. ~others => pAgg' = pAgg
  BY WhoChanges
<1>8. /\ \A J \in Front : J # J0 => pAgg'[t][J] = pAgg[t][J]
      /\ DOMAIN pAgg' = Thread /\ \A u \in Thread : DOMAIN pAgg'[u] = Front
  <2> HIDE DEF m0
  <2>1. \/ pAgg' = pAgg \/ \E m : pAgg' = [pAgg EXCEPT ![t][J0] = m]
    BY <1>2, <1>3, <1>4, <1>5, <1>6, <1>7 DEF others
  <2> QED  BY <1>0, <1>1, <2>1
<1>9. NewAgg(t)
  <2>1. VisitFront(t) => pAgg'[t][J0] = IF m0 = NoMtx /\ Waiting(t) # {} THEN ZeroMtx ELSE m0
    BY <1>1, <1>2
  <2>2. Apply(t) => pAgg'[t][J0] = IF pMtx[src[t]] = NoMtx THEN m0
                            ELSE [m0 EXCEPT !.upd = @ \cup {<<src[t], pMtx[src[t]].stage>>}]
    <3> DEFINE m == [m0 EXCEPT !.upd = @ \cup {<<src[t], pMtx[src[t]].stage>>}]
    <3>1. ASSUME Apply(t), pMtx[src[t]] # NoMtx PROVE pAgg'[t][J0] = m
      <4>1. pAgg' = [pAgg EXCEPT ![t][J0] = m]
        BY <1>3, <3>1
      <4> HIDE DEF m
      <4> QED  BY <1>1, <4>1
    <3> HIDE DEF m
    <3>2. Apply(t) /\ pMtx[src[t]] = NoMtx => pAgg'[t][J0] = m0
      BY <1>3
    <3> QED  BY <3>1, <3>2 DEF m
  <2>3. Assemble(t) => pAgg'[t][J0] = [m0 EXCEPT !.upd = @ \cup UNION {c.cols : c \in reg[t]}]
    <3> DEFINE m == [m0 EXCEPT !.upd = @ \cup UNION {c.cols : c \in reg[t]}]
    <3>1. Assemble(t) => pAgg' = [pAgg EXCEPT ![t][J0] = m]
      BY <1>4
    <3> HIDE DEF m
    <3>2. Assemble(t) => pAgg'[t][J0] = m
      BY <1>1, <3>1
    <3> QED  BY <3>2 DEF m
  <2>4. Decrement(t) \/ Publish(t) => pAgg'[t][J0] = NoMtx
    BY <1>1, <1>5
  <2>5. DiagonalMove(t) => pAgg'[t][J0] = pMtx[J0]
    BY <1>1, <1>6
  <2> QED  BY <2>1, <2>2, <2>3, <2>4, <2>5, <1>7, Zenon DEF NewAgg
<1>10. \A u \in Thread : u # t => pAgg'[u] = pAgg[u]
  BY OthersPaths DEF SamePath
<1> QED  BY <1>8, <1>9, <1>10

\* The published matrices after the step.
NewMtx(t) ==
  /\ Publish(t) => \A J \in Front :
       pMtx'[J] = IF J = cur[t] THEN [pAgg[t][J] EXCEPT !.stage = SolutionOf(t)] ELSE pMtx[J]
  /\ DiagonalSolve(t) => \A J \in Front :
       pMtx'[J] = IF J = Least(todo[t]) /\ pMtx[J] # NoMtx THEN [stage |-> "z", upd |-> {}]
                  ELSE pMtx[J]
  /\ DiagonalMove(t) => \A J \in Front : pMtx'[J] = IF J = cur[t] THEN NoMtx ELSE pMtx[J]
  /\ Copy(t) => \A J \in Front :
       pMtx'[J] = IF J = Least(todo[t]) THEN [pMtx[J] EXCEPT !.stage = "released"] ELSE pMtx[J]
  /\ ~(Publish(t) \/ DiagonalSolve(t) \/ DiagonalMove(t) \/ Copy(t)) => pMtx' = pMtx

\* and to the published ones.
LEMMA MtxEffect ==
  ASSUME Typed, NEW t \in Thread, Worker(t)
  PROVE  NewMtx(t) /\ DOMAIN pMtx' = Front
<1>0. DOMAIN pMtx = Front /\ cur[t] \in Front /\ todo[t] \in SUBSET Front
  BY TypedFacts
<1>1. ASSUME NEW K \in Front, NEW m, pMtx' = [pMtx EXCEPT ![K] = m]
      PROVE  /\ \A J \in Front : pMtx'[J] = IF J = K THEN m ELSE pMtx[J]
             /\ DOMAIN pMtx' = Front
  BY <1>0, <1>1
<1> PICK J0 \in Front : J0 = cur[t]
  BY <1>0
<1>2. Publish(t) => /\ \A J \in Front :
                         pMtx'[J] = IF J = J0 THEN [pAgg[t][J0] EXCEPT !.stage = SolutionOf(t)]
                                    ELSE pMtx[J]
                    /\ DOMAIN pMtx' = Front
  <2> DEFINE m == [pAgg[t][J0] EXCEPT !.stage = SolutionOf(t)]
  <2>1. Publish(t) => pMtx' = [pMtx EXCEPT ![J0] = m]
    BY Zenon DEF Publish, SolutionOf
  <2> HIDE DEF m
  <2>2. Publish(t) => (\A J \in Front : pMtx'[J] = IF J = J0 THEN m ELSE pMtx[J])
                      /\ DOMAIN pMtx' = Front
    BY <1>1, <2>1
  <2> QED  BY <2>2 DEF m
<1>3. DiagonalSolve(t) =>
        /\ \A J \in Front :
             pMtx'[J] = IF J = Least(todo[t]) /\ pMtx[J] # NoMtx THEN [stage |-> "z", upd |-> {}]
                        ELSE pMtx[J]
        /\ DOMAIN pMtx' = Front
  <2> DEFINE K == Least(todo[t])
             m == [stage |-> "z", upd |-> {}]
  <2> SUFFICES ASSUME DiagonalSolve(t)
      PROVE  /\ \A J \in Front : pMtx'[J] = IF J = K /\ pMtx[J] # NoMtx THEN m ELSE pMtx[J]
             /\ DOMAIN pMtx' = Front
    OBVIOUS
  <2>1. K \in Front
    BY <1>0, LeastIn DEF DiagonalSolve
  <2>2. pMtx' = IF pMtx[K] = NoMtx THEN pMtx ELSE [pMtx EXCEPT ![K] = m]
    BY DEF DiagonalSolve
  <2> HIDE DEF K, m
  <2> QED  BY <1>0, <1>1, <2>1, <2>2
<1>4. DiagonalMove(t) => /\ \A J \in Front : pMtx'[J] = IF J = J0 THEN NoMtx ELSE pMtx[J]
                         /\ DOMAIN pMtx' = Front
  BY <1>1 DEF DiagonalMove
<1>5. Copy(t) => /\ \A J \in Front :
                      pMtx'[J] = IF J = Least(todo[t]) THEN [pMtx[J] EXCEPT !.stage = "released"]
                                 ELSE pMtx[J]
                 /\ DOMAIN pMtx' = Front
  <2> DEFINE K == Least(todo[t])
             m == [pMtx[K] EXCEPT !.stage = "released"]
  <2> SUFFICES ASSUME Copy(t)
      PROVE  /\ \A J \in Front : pMtx'[J] = IF J = K THEN m ELSE pMtx[J]
             /\ DOMAIN pMtx' = Front
    OBVIOUS
  <2>1. K \in Front
    BY <1>0, LeastIn DEF Copy
  <2>2. pMtx' = [pMtx EXCEPT ![K] = m]
    BY Zenon DEF Copy
  <2> HIDE DEF K, m
  <2> QED  BY <1>1, <2>1, <2>2
<1>6. ~(Publish(t) \/ DiagonalSolve(t) \/ DiagonalMove(t) \/ Copy(t)) => pMtx' = pMtx
  BY WhoChanges
<1>7. DOMAIN pMtx' = Front
  BY <1>0, <1>2, <1>3, <1>4, <1>5, <1>6
<1> QED  BY <1>2, <1>3, <1>4, <1>5, <1>6, <1>7, Zenon DEF NewMtx

-----------------------------------------------------------------------------
(* What a step does to the lists                                           *)

\* The types of the lists of both solves.
LEMMA ListTypesMeans == ListTypes <=> forw!ListTypeOK /\ back!ListTypeOK
  BY DEF ListTypes, Solve, InList, InCounts, InLock, forw!ListTypeOK, back!ListTypeOK,
     forw!NoOne, back!NoOne

\* The lists of the other solve, and of every other front, are left alone.
LinkDoes(t) ==
  /\ \A s \in Solve : /\ InList(s)' = InList(s) /\ InCounts(s)' = InCounts(s)
                      /\ InLock(s)' = IF s = phase[t] /\ SolveFlags(s)[cur[t]] = "Y"
                                      THEN t ELSE InLock(s)
  /\ SolveFlags(phase[t])[cur[t]] = "Y" => InLock(phase[t]) = -1
  /\ reg' = [reg EXCEPT ![t] = InList(phase[t])[cur[t]]] /\ creg' = creg

Sum(t) == [from |-> t, cols |-> pAgg[t][cur[t]].upd]

StoreDoes(t) ==
  /\ \A s \in Solve : /\ InList(s)' = IF s = phase[t]
                                      THEN [InList(s) EXCEPT ![cur[t]] = reg[t] \cup {Sum(t)}]
                                      ELSE InList(s)
                      /\ InCounts(s)' = InCounts(s) /\ InLock(s)' = InLock(s)
  /\ reg' = [reg EXCEPT ![t] = {}]
  /\ creg' = [creg EXCEPT ![t] = InCounts(phase[t])[cur[t]]]

DecrementDoes(t) ==
  /\ \A s \in Solve : /\ InList(s)' = InList(s)
                      /\ InCounts(s)' = IF s = phase[t]
                                        THEN [InCounts(s) EXCEPT ![cur[t]] = creg[t] - 1]
                                        ELSE InCounts(s)
                      /\ InLock(s)' = IF s = phase[t] /\ InLock(s) = t THEN -1 ELSE InLock(s)
  /\ reg' = reg
  /\ creg' = [creg EXCEPT ![t] = 0]

LoadDoes(t) ==
  LET locks == SolveFlags(phase[t])[cur[t]] = "Y" /\ InCounts(phase[t])[cur[t]] # 0
  IN  /\ \A s \in Solve : /\ InList(s)' = InList(s) /\ InCounts(s)' = InCounts(s)
                          /\ InLock(s)' = IF s = phase[t] /\ locks THEN t ELSE InLock(s)
      /\ locks => InLock(phase[t]) = -1
      /\ InList(phase[t])[cur[t]] # {}
      /\ reg' = [reg EXCEPT ![t] = InList(phase[t])[cur[t]]] /\ creg' = creg

ClearDoes(t) ==
  /\ \A s \in Solve : /\ InList(s)' = IF s = phase[t]
                                      THEN [InList(s) EXCEPT ![cur[t]] = {}] ELSE InList(s)
                      /\ InCounts(s)' = InCounts(s)
                      /\ InLock(s)' = IF s = phase[t] /\ InLock(s) = t THEN -1 ELSE InLock(s)
  /\ reg' = [reg EXCEPT ![t] = {}] /\ creg' = creg

ListsStay ==
  /\ \A s \in Solve : InList(s)' = InList(s) /\ InCounts(s)' = InCounts(s) /\ InLock(s)' = InLock(s)
  /\ reg' = reg /\ creg' = creg

\* What a step does to the lists.
LEMMA ListEffect ==
  ASSUME NEW t \in Thread, Worker(t)
  PROVE  /\ Link(t) => LinkDoes(t) /\ phase[t] \in Solve
         /\ Store(t) => StoreDoes(t) /\ phase[t] \in Solve
         /\ Decrement(t) => DecrementDoes(t) /\ phase[t] \in Solve
         /\ Load(t) => LoadDoes(t) /\ phase[t] \in Solve
         /\ Assemble(t) => ClearDoes(t) /\ phase[t] \in Solve
         /\ ~(Link(t) \/ Store(t) \/ Decrement(t) \/ Load(t) \/ Assemble(t)) => ListsStay
<1> USE DEF OnList, forwVars, backVars, InList, InCounts, InLock, Solve
<1>1. Link(t) => LinkDoes(t) /\ phase[t] \in Solve
  BY DEF Link, LinkDoes, forw!AddLink, back!AddLink, forw!Acquire, back!Acquire,
     forw!NoOne, back!NoOne
<1>2. Store(t) => StoreDoes(t) /\ phase[t] \in Solve
  BY DEF Store, StoreDoes, Sum, forw!AddStore, back!AddStore
<1>3. Decrement(t) => DecrementDoes(t) /\ phase[t] \in Solve
  BY DEF Decrement, DecrementDoes, forw!AddDecrement, back!AddDecrement, forw!Release,
     back!Release, forw!NoOne, back!NoOne
<1>4. Load(t) => LoadDoes(t) /\ phase[t] \in Solve
  BY DEF Load, LoadDoes, forw!GetLoad, back!GetLoad, forw!Acquire, back!Acquire,
     forw!NoOne, back!NoOne
<1>5. Assemble(t) => ClearDoes(t) /\ phase[t] \in Solve
  BY DEF Assemble, ClearDoes, forw!GetClear, back!GetClear, forw!Release,
     back!Release, forw!NoOne, back!NoOne
<1>6. ~(Link(t) \/ Store(t) \/ Decrement(t) \/ Load(t) \/ Assemble(t)) => ListsStay
  BY WhoElse DEF listVars, ListsStay
<1> QED  BY <1>1, <1>2, <1>3, <1>4, <1>5, <1>6

\* The lists keep their types: initially,
LEMMA ListTypesInit == Init => ListTypes
<1> SUFFICES ASSUME Init PROVE ListTypes
  OBVIOUS
<1>1. ASSUME NEW s \in Solve, NEW J \in Front PROVE SenderCount(s, J) \in Int
  <2>1. Senders(s, J) \in SUBSET Thread
    <3>1. \A I \in Sources(s, J) : I \in Front
      BY TreeAssumption DEF Sources, Updaters
    <3>2. \A I \in Front : BlockOwner(s, J, I) \in Thread
      BY SolveAssumption DEF BlockOwner
    <3> QED  BY <3>1, <3>2 DEF Senders
  <2>2. IsFiniteSet(Thread)
    BY ThreadsFinite
  <2>3. IsFiniteSet(Senders(s, J))
    BY <2>1, <2>2, FS_Subset
  <2> QED  BY <2>3, FS_CardinalityType DEF SenderCount
<1> QED  BY <1>1 DEF Init, ListTypes, InList, InCounts, InLock, Solve, forw!ListInit, back!ListInit,
     forw!NoOne, back!NoOne

\* and in every step.
LEMMA ListTypesStep ==
  ASSUME Typed, ListTypes, NEW t \in Thread, Worker(t),
         pAgg[t][cur[t]].upd \in SUBSET (Front \X Stage)
  PROVE  ListTypes'
<1>0. cur[t] \in Front
  BY TypedFacts
<1> PICK J0 \in Front : J0 = cur[t]
  BY <1>0
<1>1. \A s \in Solve : /\ InList(s) \in [Front -> SUBSET Aggregate]
                       /\ InCounts(s) \in [Front -> Int]
                       /\ InLock(s) \in Thread \cup {-1}
  BY DEF ListTypes
<1>2. reg \in [Thread -> SUBSET Aggregate] /\ creg \in [Thread -> Int]
  BY DEF ListTypes
<1>3. Sum(t) \in Aggregate
  BY DEF Sum, Aggregate
<1>4. reg[t] \in SUBSET Aggregate /\ creg[t] \in Int
  BY <1>2
<1>5. phase[t] \in Solve => InList(phase[t])[J0] \in SUBSET Aggregate /\ InCounts(phase[t])[J0] \in Int
  BY <1>1
<1>6. SUFFICES (\A s \in Solve : /\ InList(s)' \in [Front -> SUBSET Aggregate]
                                 /\ InCounts(s)' \in [Front -> Int]
                                 /\ InLock(s)' \in Thread \cup {-1})
               /\ reg' \in [Thread -> SUBSET Aggregate] /\ creg' \in [Thread -> Int]
  BY DEF ListTypes
<1>7. CASE Link(t)
  BY <1>1, <1>2, <1>5, <1>7, ListEffect DEF LinkDoes
<1>8. CASE Store(t)
  <2>1. reg[t] \cup {Sum(t)} \in SUBSET Aggregate
    BY <1>3, <1>4
  <2> QED  BY <2>1, <1>1, <1>2, <1>5, <1>8, ListEffect DEF StoreDoes
<1>9. CASE Decrement(t)
  <2>1. creg[t] - 1 \in Int
    BY <1>4
  <2> QED  BY <2>1, <1>1, <1>2, <1>9, ListEffect DEF DecrementDoes
<1>10. CASE Load(t)
  BY <1>1, <1>2, <1>5, <1>10, ListEffect DEF LoadDoes
<1>11. CASE Assemble(t)
  BY <1>1, <1>2, <1>11, ListEffect DEF ClearDoes
<1>12. CASE ~(Link(t) \/ Store(t) \/ Decrement(t) \/ Load(t) \/ Assemble(t))
  BY <1>1, <1>2, <1>12, ListEffect DEF ListsStay
<1> QED  BY <1>7, <1>8, <1>9, <1>10, <1>11, <1>12

-----------------------------------------------------------------------------
(* The life of a front's matrix                                            *)

\* In a visit a thread has a matrix, until the solution is published.
LEMMA HasMatrix ==
  ASSUME Typed, HandInv, MatrixLife, NEW t \in Thread, pc[t] \in VisitLabels \ {"signal"}
  PROVE  /\ cur[t] \in Nonempty /\ pAgg[t][cur[t]] # NoMtx /\ phase[t] \in Solve
         /\ Owned(t) => /\ ~Published(cur[t]) /\ pMtx[cur[t]] = NoMtx
                        /\ pAgg[t][cur[t]].stage = HeldStage(cur[t])
         /\ ~Owned(t) => pAgg[t][cur[t]].stage = "zero"
<1>1. cur[t] \in Nonempty /\ phase[t] \in Solve
  BY TypedFacts, LabelPhase DEF WorkFits, WorkOf, SolveLabels
<1>2. status[t][cur[t]] = "W"
  BY DEF HandInv, HandOf, VisitOf
<1>3. CASE Owned(t)
  <2>1. ~Published(cur[t])
    BY <1>2, <1>3 DEF Published, Owned
  <2>2. StageOf(cur[t]) = "none"
    BY <1>1, <1>3, <2>1 DEF StageOf, Owned, Solve
  <2>3. pMtx[cur[t]] = NoMtx /\ pAgg[t][cur[t]].stage = HeldStage(cur[t])
    BY <1>1, <1>3, <2>2 DEF MatrixLife, OwnedMatrix, Owned
  <2>4. HeldStage(cur[t]) # "none"
    BY DEF HeldStage
  <2> QED  BY <1>1, <1>3, <2>1, <2>3, <2>4, MtxNamed
<1>4. CASE ~Owned(t)
  <2>1. Aggregating(t, cur[t])
    BY <1>1, <1>4 DEF MatrixLife, Owned
  <2> QED  BY <1>1, <1>4, <2>1, MtxNamed DEF Aggregating
<1> QED  BY <1>3, <1>4

\* What may be added to the matrix of the front being visited.
LEMMA UpdTypes ==
  ASSUME Typed, MtxTypes, ListTypes, NEW t \in Thread
  PROVE  /\ pAgg[t][cur[t]] \in Mtx /\ pAgg[t][cur[t]].upd \in SUBSET (Front \X Stage)
         /\ DOMAIN pAgg[t][cur[t]] = MatrixFields
         /\ pAgg[t][cur[t]].upd \cup {<<src[t], pMtx[src[t]].stage>>} \in SUBSET (Front \X Stage)
         /\ pAgg[t][cur[t]].upd \cup UNION {c.cols : c \in reg[t]} \in SUBSET (Front \X Stage)
<1>1. cur[t] \in Front /\ src[t] \in Front
  BY TypedFacts
<1>2. pAgg[t][cur[t]] \in Mtx /\ pMtx[src[t]] \in Mtx
  BY <1>1 DEF MtxTypes
<1>3. /\ pAgg[t][cur[t]].upd \in SUBSET (Front \X Stage) /\ DOMAIN pAgg[t][cur[t]] = MatrixFields
      /\ pMtx[src[t]].stage \in Stage
  BY <1>2, MtxFacts
<1>4. \A c \in reg[t] : c.cols \in SUBSET (Front \X Stage)
  BY DEF ListTypes, Aggregate
<1> QED  BY <1>1, <1>2, <1>3, <1>4

\* The matrices keep their types.
LEMMA MtxTypesStep ==
  ASSUME Typed, HandInv, MatrixLife, MtxTypes, ListTypes, NEW t \in Thread, Worker(t)
  PROVE  MtxTypes'
<1>0. /\ cur[t] \in Front /\ \A J \in Front : pMtx[J] \in Mtx
      /\ \A u \in Thread : \A J \in Front : pAgg[u][J] \in Mtx
  BY TypedFacts DEF MtxTypes
<1>1. ASSUME NEW J \in Front PROVE pMtx'[J] \in Mtx
  <2>1. CASE Publish(t) /\ J = cur[t]
    <3>1. pMtx'[J] = [pAgg[t][J] EXCEPT !.stage = SolutionOf(t)]
      BY <2>1, MtxEffect DEF NewMtx
    <3>2. pAgg[t][J] \in Mtx /\ DOMAIN pAgg[t][J] = MatrixFields
      BY <1>0, MtxFacts
    <3>3. SolutionOf(t) \in Stage \ {"none"}
      BY DEF SolutionOf, Stage
    <3> QED  BY <3>1, <3>2, <3>3, MtxStage
  <2>2. CASE Copy(t)
    <3>1. pMtx'[J] = IF J = Least(todo[t]) THEN [pMtx[J] EXCEPT !.stage = "released"] ELSE pMtx[J]
      BY <2>2, MtxEffect DEF NewMtx
    <3>2. pMtx[J] \in Mtx /\ DOMAIN pMtx[J] = MatrixFields
      BY <1>0, MtxFacts
    <3>3. [pMtx[J] EXCEPT !.stage = "released"] \in Mtx
      BY <3>2, MtxStage DEF Stage
    <3> QED  BY <1>0, <3>1, <3>3
  <2>3. CASE ~(Publish(t) /\ J = cur[t]) /\ ~Copy(t)
    <3>1. pMtx'[J] \in {pMtx[J], NoMtx, [stage |-> "z", upd |-> {}]}
      BY <2>3, MtxEffect DEF NewMtx
    <3> QED  BY <1>0, <3>1, MtxNamed
  <2> QED  BY <2>1, <2>2, <2>3
<1>2. pAgg'[t][cur[t]] \in Mtx
  <2> DEFINE m == pAgg[t][cur[t]]
  <2>0. m \in Mtx /\ DOMAIN m = MatrixFields
    BY UpdTypes
  <2>1. CASE Apply(t)
    <3> DEFINE S == m.upd \cup {<<src[t], pMtx[src[t]].stage>>}
    <3>1. m # NoMtx
      BY <2>1, HasMatrix DEF Apply, VisitLabels
    <3>2. pAgg'[t][cur[t]] = m \/ pAgg'[t][cur[t]] = [m EXCEPT !.upd = S]
      BY <2>1, AggEffect DEF NewAgg
    <3>3. S \in SUBSET (Front \X Stage)
      BY UpdTypes
    <3> HIDE DEF S, m
    <3> QED  BY <2>0, <3>1, <3>2, <3>3, MtxUpd
  <2>2. CASE Assemble(t)
    <3> DEFINE S == m.upd \cup UNION {c.cols : c \in reg[t]}
    <3>1. m # NoMtx
      BY <2>2, HasMatrix DEF Assemble, VisitLabels
    <3>2. pAgg'[t][cur[t]] = [m EXCEPT !.upd = S]
      BY <2>2, AggEffect DEF NewAgg
    <3>3. S \in SUBSET (Front \X Stage)
      BY UpdTypes
    <3> HIDE DEF S, m
    <3> QED  BY <2>0, <3>1, <3>2, <3>3, MtxUpd
  <2>3. CASE ~Apply(t) /\ ~Assemble(t)
    <3>1. pAgg'[t][cur[t]] \in {m, ZeroMtx, NoMtx, pMtx[cur[t]]}
      BY <2>3, AggEffect DEF NewAgg
    <3> QED  BY <1>0, <2>0, <3>1, MtxNamed
  <2> QED  BY <2>1, <2>2, <2>3
<1>3. ASSUME NEW u \in Thread, NEW J \in Front PROVE pAgg'[u][J] \in Mtx
  BY <1>0, <1>2, AggEffect
<1>4. pMtx' \in [Front -> Mtx]
  <2>1. pMtx' = [J \in Front |-> pMtx'[J]]
    <3>1. MatricesFit'
      BY MatricesStep, TypedFacts
    <3>2. DOMAIN pMtx' = Front
      BY <3>1 DEF MatricesFit
    <3>3. pMtx \in [Front -> Mtx]
      BY DEF MtxTypes
    <3>4. pMtx' = pMtx \/ \E K, m : pMtx' = [pMtx EXCEPT ![K] = m]
      <4>1. CASE Publish(t)
        BY <4>1, Zenon DEF Publish
      <4>2. CASE DiagonalSolve(t)
        BY <4>2, Zenon DEF DiagonalSolve
      <4>3. CASE DiagonalMove(t)
        BY <4>3, Zenon DEF DiagonalMove
      <4>4. CASE Copy(t)
        BY <4>4, Zenon DEF Copy
      <4> QED  BY <4>1, <4>2, <4>3, <4>4, WhoChanges
    <3> QED  BY <3>2, <3>3, <3>4
  <2> QED  BY <1>1, <2>1
<1>5. pAgg' \in [Thread -> [Front -> Mtx]]
  <2>1. pAgg \in [Thread -> [Front -> Mtx]]
    BY DEF MtxTypes
  <2>2. pAgg' = pAgg \/ \E m : pAgg' = [pAgg EXCEPT ![t][cur[t]] = m]
    <3>1. CASE VisitFront(t)
      BY <3>1, Zenon DEF VisitFront
    <3>2. CASE Apply(t)
      BY <3>2, Zenon DEF Apply
    <3>3. CASE Assemble(t)
      BY <3>3, Zenon DEF Assemble
    <3>4. CASE Decrement(t) \/ Publish(t)
      BY <3>4, Zenon DEF Decrement, Publish
    <3>5. CASE DiagonalMove(t)
      BY <3>5, Zenon DEF DiagonalMove
    <3> QED  BY <3>1, <3>2, <3>3, <3>4, <3>5, WhoChanges
  <2> PICK J0 \in Front : J0 = cur[t]
    BY <1>0
  <2>3. ASSUME NEW m, pAgg' = [pAgg EXCEPT ![t][J0] = m] PROVE pAgg' \in [Thread -> [Front -> Mtx]]
    <3>1. m = pAgg'[t][J0]
      BY <2>1, <2>3
    <3>2. m \in Mtx
      BY <1>2, <3>1
    <3> QED  BY <2>1, <2>3, <3>2, Zenon
  <2> QED  BY <2>1, <2>2, <2>3
<1>6. sol' \in [Front -> Mtx]
  <2>1. CASE Copy(t)
    <3>1. todo[t] \in SUBSET Front /\ todo[t] # {}
      BY <2>1, TypedFacts DEF Copy
    <3>2. pMtx[Least(todo[t])] \in Mtx
      BY <1>0, <3>1, LeastIn
    <3> QED  BY <2>1, <3>2 DEF Copy, MtxTypes
  <2> QED  BY <2>1, WhoElse DEF MtxTypes
<1> QED  BY <1>4, <1>5, <1>6 DEF MtxTypes

-----------------------------------------------------------------------------
(* Its owner                                                               *)

\* Only its owner publishes, moves or releases a matrix.
LEMMA MtxOthers ==
  ASSUME Typed, HandInv, NEW t \in Thread, Worker(t), NEW J \in Front, owners[J] # t
  PROVE  pMtx'[J] = pMtx[J]
<1>1. Publish(t) => J # cur[t]
  BY DEF Publish, HandInv, HandOf, VisitOf, OwnedLabels, SolvedLabels, Owned
<1>2. DiagonalMove(t) => J # cur[t]
  BY TypedFacts DEF DiagonalMove, WorkFits, WorkOf, OwnedFronts, MoveLabels
<1>3. DiagonalSolve(t) \/ Copy(t) => J # Least(todo[t])
  <2> SUFFICES ASSUME DiagonalSolve(t) \/ Copy(t) PROVE J # Least(todo[t])
    OBVIOUS
  <2>1. todo[t] \in SUBSET Front /\ todo[t] # {}
    BY TypedFacts DEF DiagonalSolve, Copy
  <2>2. phase[t] = IF DiagonalSolve(t) THEN "diagonal" ELSE "store"
    BY TypedFacts, LabelPhase DEF DiagonalSolve, Copy, DiagonalLabels, StoreLabels
  <2>3. todo[t] \subseteq OwnedFronts(t)
    BY <2>2, TypedFacts DEF WorkFits, WorkOf, HandInv, HandOf, LeftOf
  <2>4. Least(todo[t]) \in todo[t]
    BY <2>1, LeastIn
  <2> QED  BY <2>3, <2>4 DEF OwnedFronts
<1> QED  BY <1>1, <1>2, <1>3, MtxEffect DEF NewMtx

\* OwnedMatrix speaks of the front and of its owner.
LEMMA SameOwner ==
  ASSUME NEW J \in Front, NEW q, q = owners[J],
         pc'[q] = pc[q] /\ phase'[q] = phase[q] /\ cur'[q] = cur[q],
         status'[q] = status[q] /\ todo'[q] = todo[q],
         pMtx'[J] = pMtx[J] /\ pAgg'[q] = pAgg[q], OwnedMatrix(J)
  PROVE  OwnedMatrix(J)'
<1>1. Published(J)' <=> Published(J)
  BY DEF Published
<1>2. StageOf(J)' = StageOf(J) /\ HeldStage(J)' = HeldStage(J)
  BY <1>1 DEF StageOf, HeldStage
<1> QED  BY <1>2 DEF OwnedMatrix

\* In the loop of a solve the owner publishes, and nothing else.
LEMMA PublishedStep ==
  ASSUME Typed, HandInv, NEW t \in Thread, Worker(t), NEW J \in Nonempty, owners[J] = t,
         phase[t] \in Solve, phase'[t] = phase[t]
  PROVE  Published(J)' <=> Published(J) \/ (Publish(t) /\ cur[t] = J)
<1>0. /\ pc \in [Thread -> Labels] /\ cur \in [Thread -> Front]
      /\ status \in [Thread -> [Front -> {"W", "F"}]]
      /\ J \in Front /\ J \notin empty
  BY TypedFacts DEF Nonempty
<1>1. CASE Publish(t)
  <2>1. pc'[t] = "signal" /\ cur' = cur /\ status' = status /\ pc[t] = "solve"
    BY <1>0, <1>1 DEF Publish, Goto, pathVars
  <2> QED  BY <1>1, <2>1 DEF Published
<1>2. CASE Signal(t)
  <2>1. pc'[t] = "return" /\ pc[t] = "signal" /\ status' = [status EXCEPT ![t][cur[t]] = "F"]
    BY <1>0, <1>2 DEF Signal, Goto
  <2>2. ~Publish(t)
    BY <2>1 DEF Publish
  <2> QED  BY <1>0, <2>1, <2>2 DEF Published
<1>3. CASE ~Publish(t) /\ ~Signal(t)
  <2>1. pc[t] # "signal" /\ pc'[t] # "signal"
    BY <1>0, <1>3 DEF Worker, Goto, AfterUpdates, AfterAggregates, Pop, Exhausted, ReturnForward,
       ReturnBackward, ReturnActive, VisitEmpty, PassThrough, VisitFront, UpdateReady,
       UpdateWaits, Apply, Link, Store, Decrement, Poll, Load,
       Assemble, Count, ToDiagonal, DiagonalSolve, DiagonalMove,
       DiagonalSignal, DiagonalReset, DiagonalEnd, ToBackward, ToStore, Copy, CopyEnd
  <2>2. status'[t][J] = status[t][J]
    <3>1. ~ToBackward(t)
      <4>1. ToBackward(t) => phase'[t] # phase[t]
        BY TypedFacts DEF ToBackward
      <4> QED  BY <4>1
    <3>2. CASE VisitEmpty(t) \/ PassThrough(t) \/ Decrement(t)
      <4>1. status' = [status EXCEPT ![t][cur[t]] = "F"]
        BY <3>2 DEF VisitEmpty, PassThrough, Decrement
      <4>2. cur[t] # J
        BY <1>0, <3>2 DEF VisitEmpty, PassThrough, Decrement, HandInv, HandOf, VisitOf,
           SendLabels, Owned
      <4> QED  BY <1>0, <4>1, <4>2
    <3> QED  BY <1>3, <3>1, <3>2, WhoElse
  <2> QED  BY <1>3, <2>1, <2>2 DEF Published
<1> QED  BY <1>1, <1>2, <1>3

\* A thread that leaves the loop of a solve has finished its own fronts.
LEMMA OwnedLoop ==
  ASSUME Typed, DequeInv, HandInv, MatrixLife, MtxTypes, NEW t \in Thread, Worker(t),
         NEW J \in Nonempty, owners[J] = t, phase[t] \in Solve, phase'[t] = phase[t]
  PROVE  OwnedMatrix(J)'
<1>0. /\ J \in Front /\ OwnedMatrix(J) /\ pAgg[t][J] \in Mtx /\ pMtx[J] \in Mtx
      /\ cur[t] \in Front
  BY TypedFacts DEF MatrixLife, MtxTypes, Nonempty
<1>1. /\ StageOf(J) = IF Published(J) THEN SolutionOf(t) ELSE "none"
      /\ HeldStage(J) = IF phase[t] = "forward" THEN "rhs" ELSE "z"
      /\ StageOf(J)' = IF Published(J)' THEN SolutionOf(t) ELSE "none"
      /\ HeldStage(J)' = HeldStage(J)
  BY DEF StageOf, HeldStage, SolutionOf, Solve
<1>2. Published(J)' <=> Published(J) \/ (Publish(t) /\ cur[t] = J)
  BY PublishedStep
<1>3. CASE Publish(t) /\ cur[t] = J
  <2>1. pMtx'[J] = [pAgg[t][J] EXCEPT !.stage = SolutionOf(t)] /\ pAgg'[t][J] = NoMtx
    <3>1. NewMtx(t) /\ NewAgg(t)
      BY MtxEffect, AggEffect
    <3>2. pMtx'[J] = [pAgg[t][J] EXCEPT !.stage = SolutionOf(t)]
      BY <1>0, <1>3, <3>1 DEF NewMtx
    <3>3. pAgg'[t][J] = NoMtx
      BY <1>3, <3>1, Zenon DEF NewAgg
    <3> QED  BY <3>2, <3>3
  <2>2. pMtx'[J].stage = SolutionOf(t)
    BY <1>0, <2>1, MtxFacts, MtxStage
  <2>3. SolutionOf(t) # "none"
    BY DEF SolutionOf
  <2> QED  BY <1>1, <1>2, <1>3, <2>1, <2>2, <2>3 DEF OwnedMatrix
<1>4. CASE ~(Publish(t) /\ cur[t] = J)
  <2>1. pMtx'[J] = pMtx[J]
    <3>1. ~DiagonalSolve(t) /\ ~DiagonalMove(t) /\ ~Copy(t)
      BY TypedFacts, LabelPhase DEF DiagonalSolve, DiagonalMove, Copy, DiagonalLabels, MoveLabels,
         StoreLabels, Solve
    <3> QED  BY <1>0, <1>4, <3>1, MtxEffect DEF NewMtx
  <2>2. Published(J)' <=> Published(J)
    BY <1>2, <1>4
  <2>3. CASE J # cur[t]
    <3>1. pAgg'[t][J] = pAgg[t][J]
      BY <1>0, <2>3, AggEffect
    <3> QED  BY <1>0, <1>1, <2>1, <2>2, <3>1 DEF OwnedMatrix
  <2>4. CASE J = cur[t] /\ ~(VisitFront(t) \/ Apply(t) \/ Assemble(t))
    <3>1. ~DiagonalMove(t) /\ ~Decrement(t)
      BY <2>4, TypedFacts, LabelPhase DEF DiagonalMove, DiagonalLabels, MoveLabels, Solve,
         Decrement, HandInv, HandOf, VisitOf, SendLabels, Owned
    <3>2. pAgg' = pAgg
      BY <1>4, <2>4, <3>1, AggEffect DEF NewAgg
    <3> QED  BY <1>0, <1>1, <2>1, <2>2, <3>2 DEF OwnedMatrix
  <2>5. CASE J = cur[t] /\ (VisitFront(t) \/ Apply(t) \/ Assemble(t))
    <3>1. status[t][J] = "W" /\ pc[t] # "signal"
      BY <2>5 DEF HandInv, HandOf, VisitOf, VisitFront, Apply, Assemble, VisitLabels
    <3>2. ~Published(J)
      BY <3>1 DEF Published
    <3>3. pMtx[J] = NoMtx /\ pAgg[t][J].stage = HeldStage(J)
      BY <1>0, <1>1, <3>2 DEF OwnedMatrix
    <3>4. pAgg[t][J] # NoMtx
      BY <3>3, MtxNamed DEF HeldStage
    <3>5. pAgg'[t][J].stage = pAgg[t][J].stage
      <4> DEFINE m == pAgg[t][cur[t]]
                 S == m.upd \cup {<<src[t], pMtx[src[t]].stage>>}
                 R == m.upd \cup UNION {c.cols : c \in reg[t]}
      <4>1. NewAgg(t)
        BY AggEffect
      <4>2. VisitFront(t) => pAgg'[t][cur[t]] = m
        BY <2>5, <3>4, <4>1, Zenon DEF NewAgg
      <4>3. Apply(t) => pAgg'[t][cur[t]] = m \/ pAgg'[t][cur[t]] = [m EXCEPT !.upd = S]
        BY <4>1 DEF NewAgg
      <4>4. Assemble(t) => pAgg'[t][cur[t]] = [m EXCEPT !.upd = R]
        BY <4>1 DEF NewAgg
      <4>5. DOMAIN m = MatrixFields
        BY <1>0, <2>5, MtxFacts
      <4> HIDE DEF m, S, R
      <4>6. pAgg'[t][cur[t]].stage = m.stage
        <5>1. [m EXCEPT !.upd = S].stage = m.stage /\ [m EXCEPT !.upd = R].stage = m.stage
          BY <4>5, MtxUpd
        <5> DEFINE mS == [m EXCEPT !.upd = S]
                   mR == [m EXCEPT !.upd = R]
        <5>2. mS.stage = m.stage /\ mR.stage = m.stage
          BY <5>1
        <5>3. Apply(t) => pAgg'[t][cur[t]] = m \/ pAgg'[t][cur[t]] = mS
          BY <4>3
        <5>4. Assemble(t) => pAgg'[t][cur[t]] = mR
          BY <4>4
        <5> HIDE DEF mS, mR
        <5> QED  BY <2>5, <4>2, <5>2, <5>3, <5>4
      <4> QED  BY <2>5, <4>6 DEF m
    <3> QED  BY <1>0, <1>1, <2>1, <2>2, <3>2, <3>3, <3>5 DEF OwnedMatrix
  <2> QED  BY <2>3, <2>4, <2>5
<1> QED  BY <1>3, <1>4

\* In the diagonal loop and the copy of the solution it works through its
\* fronts.
LEMMA OwnedRest ==
  ASSUME Typed, DequeInv, HandInv, MatrixLife, MtxTypes, NEW t \in Thread, Worker(t),
         NEW J \in Nonempty, owners[J] = t, phase[t] \notin Solve, phase'[t] = phase[t]
  PROVE  OwnedMatrix(J)'
<1>0. /\ J \in Front /\ OwnedMatrix(J) /\ pAgg[t][J] \in Mtx /\ pMtx[J] \in Mtx
      /\ cur \in [Thread -> Front] /\ pc \in [Thread -> Labels] /\ todo \in [Thread -> SUBSET Front]
      /\ phase[t] \in {"diagonal", "store"}
  BY TypedFacts DEF MatrixLife, MtxTypes, Nonempty, Phase, Solve
<1>1. HeldStage(J) = "z" /\ HeldStage(J)' = "z"
  BY <1>0 DEF HeldStage
<1>2. \/ DiagonalSolve(t) \/ DiagonalMove(t) \/ DiagonalSignal(t) \/ DiagonalReset(t)
      \/ DiagonalEnd(t) \/ Copy(t) \/ CopyEnd(t)
  <2>1. pc[t] \notin SolveLabels
    BY TypedFacts, LabelPhase
  <2>2. ~ToDiagonal(t) /\ ~ToBackward(t) /\ ~ToStore(t)
    BY TypedFacts DEF ToDiagonal, ToBackward, ToStore
  <2> QED  BY <2>1, <2>2 DEF Worker, SolveLabels, VisitLabels, Pop, Exhausted, ReturnForward,
       ReturnBackward, ReturnActive, VisitEmpty, PassThrough, VisitFront, UpdateReady,
       UpdateWaits, Apply, Link, Store, Decrement, Poll, Load, Assemble, Count, Publish, Signal
<1>3. phase[t] = "diagonal" <=> ~(Copy(t) \/ CopyEnd(t))
  BY <1>2, TypedFacts, LabelPhase DEF DiagonalSolve, DiagonalMove, DiagonalSignal, DiagonalReset,
     DiagonalEnd, Copy, CopyEnd, DiagonalLabels, MoveLabels, StoreLabels
<1>4. StageOf(J) = IF phase[t] = "diagonal"
                   THEN IF J \in todo[t] THEN "y"
                        ELSE IF pc[t] = "diagonalMove" /\ cur[t] = J THEN "z" ELSE "none"
                   ELSE IF J \in todo[t] THEN "x" ELSE "released"
  BY <1>0 DEF StageOf
<1>5. StageOf(J)' = IF phase[t] = "diagonal"
                    THEN IF J \in todo'[t] THEN "y"
                         ELSE IF pc'[t] = "diagonalMove" /\ cur'[t] = J THEN "z" ELSE "none"
                    ELSE IF J \in todo'[t] THEN "x" ELSE "released"
  BY <1>0 DEF StageOf
<1>6. CASE DiagonalSolve(t)
  <2> DEFINE K == Least(todo[t])
  <2>1. K \in todo[t] /\ K \in Front
    BY <1>0, <1>6, LeastIn DEF DiagonalSolve
  <2>2. /\ todo'[t] = todo[t] \ {K} /\ cur'[t] = K /\ pc[t] = "diagonal"
        /\ pc'[t] = IF pMtx[K] = NoMtx THEN "diagonalSignal" ELSE "diagonalMove"
    BY <1>0, <1>6 DEF DiagonalSolve, Goto
  <2>3. pAgg' = pAgg
    BY <1>6 DEF DiagonalSolve
  <2>4. pMtx'[J] = IF J = K /\ pMtx[J] # NoMtx THEN [stage |-> "z", upd |-> {}] ELSE pMtx[J]
    BY <1>0, <1>6, MtxEffect DEF NewMtx
  <2> HIDE DEF K
  <2>5. CASE J = K
    <3>1. StageOf(J) = "y"
      BY <1>3, <1>4, <1>6, <2>1, <2>2, <2>5 DEF Copy, CopyEnd
    <3>2. pMtx[J].stage = "y" /\ pAgg[t][J] = NoMtx
      BY <1>0, <3>1 DEF OwnedMatrix
    <3>3. pMtx[J] # NoMtx
      BY <3>2, MtxNamed
    <3>4. StageOf(J)' = "z"
      BY <1>3, <1>5, <1>6, <2>2, <2>5, <3>3 DEF Copy, CopyEnd
    <3>5. pMtx'[J].stage = "z"
      BY <2>4, <2>5, <3>3
    <3> QED  BY <2>3, <3>2, <3>4, <3>5 DEF OwnedMatrix
  <2>6. CASE J # K
    <3>1. StageOf(J)' = StageOf(J)
      BY <1>3, <1>4, <1>5, <1>6, <2>2, <2>6 DEF Copy, CopyEnd
    <3> QED  BY <1>0, <1>1, <2>3, <2>4, <2>6, <3>1 DEF OwnedMatrix
  <2> QED  BY <2>5, <2>6
<1>7. CASE DiagonalMove(t)
  <2>1. pc[t] = "diagonalMove" /\ pc'[t] = "diagonalSignal" /\ cur' = cur /\ todo' = todo
    BY <1>0, <1>7 DEF DiagonalMove, Goto, gatherVars
  <2>2. phase[t] = "diagonal"
    BY <1>3, <1>7, <2>1 DEF Copy, CopyEnd
  <2>3. CASE J = cur[t]
    <3>1. J \notin todo[t]
      BY <2>1, <2>3 DEF HandInv, HandOf, LeftOf, MoveLabels
    <3>2. StageOf(J) = "z" /\ StageOf(J)' = "none"
      BY <1>4, <1>5, <2>1, <2>2, <2>3, <3>1
    <3>3. pMtx[J].stage = "z"
      BY <1>0, <3>2 DEF OwnedMatrix
    <3>4. pMtx'[J] = NoMtx /\ pAgg'[t][J] = pMtx[J]
      <4>1. NewMtx(t) /\ NewAgg(t)
        BY MtxEffect, AggEffect
      <4>2. pAgg'[t][J] = pMtx[J]
        BY <1>7, <2>3, <4>1, Zenon DEF NewAgg
      <4>3. pMtx'[J] = NoMtx
        BY <1>0, <1>7, <2>3, <4>1 DEF NewMtx
      <4> QED  BY <4>2, <4>3
    <3> QED  BY <1>1, <3>2, <3>3, <3>4 DEF OwnedMatrix
  <2>4. CASE J # cur[t]
    <3>1. StageOf(J)' = StageOf(J)
      BY <1>4, <1>5, <2>1, <2>4
    <3>2. pMtx'[J] = pMtx[J] /\ pAgg'[t][J] = pAgg[t][J]
      BY <1>0, <1>7, <2>4, MtxEffect, AggEffect DEF NewMtx
    <3> QED  BY <1>0, <1>1, <3>1, <3>2 DEF OwnedMatrix
  <2> QED  BY <2>3, <2>4
<1>8. CASE Copy(t)
  <2> DEFINE K == Least(todo[t])
  <2>1. K \in todo[t] /\ K \in Front
    BY <1>0, <1>8, LeastIn DEF Copy
  <2>2. /\ todo'[t] = todo[t] \ {K} /\ pAgg' = pAgg
    BY <1>0, <1>8 DEF Copy
  <2>3. phase[t] = "store"
    BY <1>0, <1>3, <1>8
  <2>4. pMtx'[J] = IF J = K THEN [pMtx[J] EXCEPT !.stage = "released"] ELSE pMtx[J]
    BY <1>0, <1>8, MtxEffect DEF NewMtx
  <2> HIDE DEF K
  <2>5. CASE J = K
    <3>1. StageOf(J) = "x" /\ StageOf(J)' = "released"
      BY <1>4, <1>5, <2>1, <2>2, <2>3, <2>5
    <3>2. pMtx'[J].stage = "released"
      BY <1>0, <2>4, <2>5, MtxFacts, MtxStage
    <3> QED  BY <1>0, <2>2, <3>1, <3>2 DEF OwnedMatrix
  <2>6. CASE J # K
    <3>1. StageOf(J)' = StageOf(J)
      BY <1>4, <1>5, <2>2, <2>3, <2>6
    <3> QED  BY <1>0, <1>1, <2>2, <2>4, <2>6, <3>1 DEF OwnedMatrix
  <2> QED  BY <2>5, <2>6
<1>9. CASE DiagonalSignal(t) \/ DiagonalReset(t) \/ DiagonalEnd(t) \/ CopyEnd(t)
  <2>1. pc[t] # "diagonalMove" /\ pc'[t] # "diagonalMove" /\ cur' = cur /\ todo' = todo
        /\ pMtx' = pMtx /\ pAgg' = pAgg
    BY <1>0, <1>9 DEF DiagonalSignal, DiagonalReset, DiagonalEnd, CopyEnd, Goto, gatherVars, shared
  <2>2. StageOf(J)' = StageOf(J)
    BY <1>4, <1>5, <2>1
  <2> QED  BY <1>0, <1>1, <2>1, <2>2 DEF OwnedMatrix
<1> QED  BY <1>2, <1>6, <1>7, <1>8, <1>9

\* The way from one loop into the next.
LEMMA OwnedEnters ==
  ASSUME Typed, DequeInv, HandInv, MatrixLife, MtxTypes, NEW t \in Thread, Worker(t),
         NEW J \in Nonempty, owners[J] = t, ToDiagonal(t) \/ ToBackward(t) \/ ToStore(t)
  PROVE  OwnedMatrix(J)'
<1>0. /\ J \in Front /\ OwnedMatrix(J)
      /\ pc \in [Thread -> Labels] /\ todo \in [Thread -> SUBSET Front]
      /\ phase \in [Thread -> Phase] /\ status \in [Thread -> [Front -> {"W", "F"}]]
  BY TypedFacts DEF MatrixLife, Nonempty
<1>1. pMtx' = pMtx /\ pAgg' = pAgg /\ cur' = cur /\ pc[t] = "barrier"
  BY DEF ToDiagonal, ToBackward, ToStore, shared
<1>2. status[t][J] = "F"
  BY <1>0, <1>1 DEF DequeInv, DequeOf, LoopDone
<1>3. CASE ToDiagonal(t)
  <2>1. phase[t] = "forward" /\ phase'[t] = "diagonal" /\ J \in todo'[t]
    BY <1>0, <1>3 DEF ToDiagonal, OwnedFronts
  <2>2. StageOf(J) = "y" /\ StageOf(J)' = "y"
    BY <1>2, <2>1 DEF StageOf, Published
  <2> QED  BY <1>0, <1>1, <2>2 DEF OwnedMatrix
<1>4. CASE ToBackward(t)
  <2>1. phase[t] = "diagonal" /\ phase'[t] = "backward" /\ pc'[t] = "pop"
    BY <1>0, <1>4 DEF ToBackward, Goto
  <2>2. todo[t] = {}
    BY <1>1, <2>1 DEF HandInv, HandOf, LeftOf
  <2>3. StageOf(J) = "none"
    BY <1>1, <2>1, <2>2 DEF StageOf
  <2>4. status'[t][J] = "W"
    <3>1. J \in OnPath["backward"][t]
      BY <1>0 DEF OnPath, StartOfPath, Solve
    <3> QED  BY <1>0, <1>4, <3>1 DEF ToBackward
  <2>5. StageOf(J)' = "none"
    BY <2>1, <2>4 DEF StageOf, Published
  <2>6. HeldStage(J) = "z" /\ HeldStage(J)' = "z"
    BY <2>1 DEF HeldStage
  <2> QED  BY <1>0, <1>1, <2>3, <2>5, <2>6 DEF OwnedMatrix
<1>5. CASE ToStore(t)
  <2>1. phase[t] = "backward" /\ phase'[t] = "store" /\ J \in todo'[t]
    BY <1>0, <1>5 DEF ToStore, OwnedFronts
  <2>2. StageOf(J) = "x" /\ StageOf(J)' = "x"
    BY <1>2, <2>1 DEF StageOf, Published
  <2> QED  BY <1>0, <1>1, <2>2 DEF OwnedMatrix
<1> QED  BY <1>3, <1>4, <1>5

\* What the stage of the visited matrix becomes.
LEMMA StageKept ==
  ASSUME Typed, NEW t \in Thread, Worker(t)
  PROVE  /\ VisitFront(t) => \/ pAgg'[t][cur[t]] = pAgg[t][cur[t]]
                             \/ pAgg[t][cur[t]] = NoMtx /\ pAgg'[t][cur[t]] = ZeroMtx
                                /\ Waiting(t) # {}
         /\ VisitFront(t) /\ Waiting(t) # {} => pAgg'[t][cur[t]] # NoMtx
         /\ Apply(t) \/ Assemble(t) => pAgg'[t][cur[t]].stage = pAgg[t][cur[t]].stage
<1> DEFINE m == pAgg[t][cur[t]]
           S == m.upd \cup {<<src[t], pMtx[src[t]].stage>>}
           R == m.upd \cup UNION {c.cols : c \in reg[t]}
<1>1. NewAgg(t)
  BY AggEffect
<1>2. VisitFront(t) => pAgg'[t][cur[t]] = IF m = NoMtx /\ Waiting(t) # {} THEN ZeroMtx ELSE m
  BY <1>1, Zenon DEF NewAgg
<1>3. Apply(t) => pAgg'[t][cur[t]] = m \/ pAgg'[t][cur[t]] = [m EXCEPT !.upd = S]
  BY <1>1 DEF NewAgg
<1>4. Assemble(t) => pAgg'[t][cur[t]] = [m EXCEPT !.upd = R]
  BY <1>1 DEF NewAgg
<1>5. DOMAIN m = MatrixFields
  BY TypedFacts DEF MatricesFit
<1>6. NoMtx # ZeroMtx
  BY MtxNamed
<1> DEFINE mS == [m EXCEPT !.upd = S]
           mR == [m EXCEPT !.upd = R]
<1> HIDE DEF m, S, R
<1>7. mS.stage = m.stage /\ mR.stage = m.stage
  BY <1>5, MtxUpd
<1> HIDE DEF mS, mR
<1>8. Apply(t) \/ Assemble(t) => pAgg'[t][cur[t]].stage = m.stage
  BY <1>3, <1>4, <1>7 DEF mS, mR
<1>9. VisitFront(t) => /\ \/ pAgg'[t][cur[t]] = m
                          \/ m = NoMtx /\ pAgg'[t][cur[t]] = ZeroMtx /\ Waiting(t) # {}
                       /\ Waiting(t) # {} => pAgg'[t][cur[t]] # NoMtx
  BY <1>2, <1>6
<1> QED  BY <1>8, <1>9 DEF m

\* A thread's aggregate for the front of another.
LEMMA AggregatingStep ==
  ASSUME Typed, DequeInv, HandInv, MatrixLife, MtxTypes, NEW t \in Thread, Worker(t),
         NEW J \in Nonempty, owners[J] # t
  PROVE  Aggregating(t, J)'
<1>0. /\ J \in Front /\ pAgg[t][J] \in Mtx
      /\ pc \in [Thread -> Labels] /\ cur \in [Thread -> Front] /\ phase \in [Thread -> Phase]
      /\ status \in [Thread -> [Front -> {"W", "F"}]]
      /\ heads \in [Thread -> [Front -> SUBSET Nonempty]]
      /\ J \notin empty
  BY TypedFacts DEF MtxTypes, Nonempty
<1>1. Aggregating(t, J)
  BY DEF MatrixLife
<1>2. CASE phase'[t] # phase[t]
  <2>1. /\ ToDiagonal(t) \/ ToBackward(t) \/ ToStore(t)
        /\ pc[t] = "barrier" /\ pc'[t] \notin VisitLabels /\ pAgg' = pAgg
    BY <1>0, <1>2, WhoElse DEF ToDiagonal, ToBackward, ToStore, VisitLabels, Goto
  <2>2. status[t][J] = "F"
    BY <1>0, <2>1 DEF DequeInv, DequeOf, LoopDone
  <2>3. pAgg[t][J] = NoMtx
    BY <1>1, <2>2 DEF Aggregating
  <2> QED  BY <2>1, <2>3 DEF Aggregating
<1>3. CASE phase'[t] = phase[t] /\ ~(pc[t] \in VisitLabels \cup {"visit"} /\ cur[t] = J)
  <2>1. ~ToBackward(t)
    BY <1>0, <1>3 DEF ToBackward
  <2>2. pAgg'[t][J] = pAgg[t][J]
    <3>1. CASE cur[t] # J
      BY <1>0, <3>1, AggEffect
    <3>2. CASE cur[t] = J
      <4>1. ~DiagonalMove(t)
        BY <3>2, TypedFacts DEF DiagonalMove, WorkFits, WorkOf, OwnedFronts, MoveLabels
      <4>2. ~(VisitFront(t) \/ Apply(t) \/ Assemble(t) \/ Decrement(t) \/ Publish(t))
        BY <1>3, <3>2 DEF VisitFront, Apply, Assemble, Decrement, Publish, VisitLabels
      <4>3. pAgg' = pAgg
        BY <4>1, <4>2, AggEffect DEF NewAgg
      <4> QED  BY <4>3
    <3> QED  BY <3>1, <3>2
  <2>3. status'[t][J] = status[t][J]
    <3>1. CASE VisitEmpty(t) \/ PassThrough(t) \/ Decrement(t) \/ Signal(t)
      <4>1. status' = [status EXCEPT ![t][cur[t]] = "F"]
            /\ pc[t] \in VisitLabels \cup {"visit"}
        BY <3>1 DEF VisitEmpty, PassThrough, Decrement, Signal, VisitLabels
      <4> QED  BY <1>0, <1>3, <4>1
    <3> QED  BY <2>1, <3>1, WhoElse
  <2>4. heads'[t][J] = heads[t][J]
    <3>1. CASE VisitFront(t)
      <4>1. heads' = [heads EXCEPT ![t][cur[t]] = {}] /\ cur[t] # J
        BY <1>3, <3>1 DEF VisitFront
      <4> QED  BY <1>0, <4>1
    <3>2. CASE UpdateWaits(t)
      <4>1. PICK I \in todo[t] : heads' = [heads EXCEPT ![t][cur[t]] = @ \cup {I}]
        BY <3>2 DEF UpdateWaits
      <4>2. cur[t] # J
        BY <1>3, <3>2 DEF UpdateWaits, VisitLabels
      <4> QED  BY <1>0, <4>1, <4>2
    <3> QED  BY <2>1, <3>1, <3>2, WhoChanges
  <2>5. ~(pc'[t] \in VisitLabels /\ cur'[t] = J)
    BY <1>3, VisitGoes
  <2>6. ~(pc[t] \in VisitLabels /\ cur[t] = J)
    BY <1>3
  <2> QED  BY <1>1, <1>3, <2>2, <2>3, <2>4, <2>5, <2>6 DEF Aggregating
<1>4. CASE phase'[t] = phase[t] /\ pc[t] \in VisitLabels \cup {"visit"} /\ cur[t] = J
  <2>1. ~Owned(t) /\ status[t][J] = "W" /\ phase[t] \in Solve
    BY <1>4, TypedFacts, LabelPhase DEF Owned, HandInv, HandOf, VisitOf, SolveLabels
  <2>2. pc[t] \in VisitLabels => pAgg[t][J].stage = "zero" /\ pAgg[t][J] # NoMtx
    BY <1>1, <1>4 DEF Aggregating, NoMtx, ZeroMtx
  <2>3. pc[t] \in VisitLabels => pc[t] \notin OwnedLabels
    BY <2>1 DEF HandInv, HandOf, VisitOf
  <2>4. CASE VisitFront(t)
    <3>1. /\ Waiting(t) # {} /\ pc'[t] = "update" /\ cur' = cur /\ status' = status
          /\ pc[t] = "visit"
      BY <1>0, <2>1, <2>4 DEF VisitFront, Goto, pathVars
    <3>2. pAgg'[t][J].stage = "zero"
      <4>1. pAgg[t][J] = NoMtx \/ pAgg[t][J].stage = "zero"
        BY <1>1 DEF Aggregating
      <4> QED  BY <1>4, <2>4, <3>1, <4>1, StageKept, MtxNamed
    <3> QED  BY <1>4, <2>1, <3>1, <3>2 DEF Aggregating, VisitLabels
  <2>5. CASE VisitEmpty(t) \/ PassThrough(t)
    <3>1. /\ pc[t] = "visit" /\ pc'[t] = "return" /\ pAgg' = pAgg /\ PassThrough(t)
          /\ heads[t][J] = {}
      BY <1>0, <1>4, <2>5 DEF VisitEmpty, PassThrough, Goto, Waiting
    <3>2. pAgg[t][J] = NoMtx
      BY <1>1, <3>1 DEF Aggregating, VisitLabels
    <3> QED  BY <3>1, <3>2 DEF Aggregating, VisitLabels
  <2>6. CASE Decrement(t)
    <3>1. pc'[t] = "return"
      BY <1>0, <2>6 DEF Decrement, Goto
    <3>2. pAgg'[t][J] = NoMtx
      <4>1. NewAgg(t)
        BY AggEffect
      <4> QED  BY <1>4, <2>6, <4>1, Zenon DEF NewAgg
    <3> QED  BY <3>1, <3>2 DEF Aggregating, VisitLabels
  <2>7. CASE UpdateReady(t) \/ UpdateWaits(t) \/ Apply(t) \/ Link(t) \/ Store(t)
    <3>1. /\ pc[t] \in VisitLabels /\ cur' = cur /\ status' = status
          /\ pc'[t] \in VisitLabels \/ heads'[t][J] # {}
      <4>1. CASE UpdateReady(t) \/ Link(t) \/ Store(t)
        BY <1>0, <4>1 DEF UpdateReady, Link, Store, Goto, VisitLabels, pathVars
      <4>2. CASE UpdateWaits(t)
        <5>1. pc'[t] \in VisitLabels \/ heads'[t][cur[t]] # {}
          BY <1>0, <2>1, <4>2 DEF UpdateWaits, Goto, AfterUpdates, VisitLabels
        <5>2. pc[t] \in VisitLabels /\ cur' = cur /\ status' = status
          BY <4>2 DEF UpdateWaits, VisitLabels, pathVars
        <5> QED  BY <1>4, <5>1, <5>2
      <4>3. CASE Apply(t)
        <5>1. pc'[t] \in VisitLabels \/ Waiting(t) # {}
          BY <1>0, <2>1, <4>3 DEF Apply, Goto, AfterUpdates, VisitLabels
        <5>2. pc[t] \in VisitLabels /\ cur' = cur /\ status' = status /\ heads' = heads
          BY <4>3 DEF Apply, VisitLabels, pathVars, gatherVars
        <5> QED  BY <1>4, <5>1, <5>2 DEF Waiting
      <4> QED  BY <2>7, <4>1, <4>2, <4>3
    <3>2. pAgg'[t][J].stage = "zero"
      <4>1. CASE Apply(t)
        BY <1>4, <2>2, <3>1, <4>1, StageKept
      <4>2. CASE ~Apply(t)
        <5>1. pAgg' = pAgg
          BY <2>7, <4>2 DEF UpdateReady, UpdateWaits, Link, Store
        <5> QED  BY <2>2, <3>1, <5>1
      <4> QED  BY <4>1, <4>2
    <3> QED  BY <1>4, <2>1, <3>1, <3>2 DEF Aggregating
  <2> QED
    BY <1>4, <2>3, <2>4, <2>5, <2>6, <2>7 DEF OwnedLabels, CountedLabels, SolvedLabels, VisitLabels,
       Worker, Pop, Exhausted, ReturnForward,
       ReturnBackward, ReturnActive, Poll, Load,
       Assemble, Count, Publish, Signal, ToDiagonal, DiagonalSolve, DiagonalMove,
       DiagonalSignal, DiagonalReset, DiagonalEnd, ToBackward, ToStore, Copy, CopyEnd
<1> QED  BY <1>2, <1>3, <1>4

\* A front without columns has no matrix.
LEMMA EmptyStep ==
  ASSUME Typed, MatrixLife, NEW t \in Thread, Worker(t), NEW J \in empty
  PROVE  pMtx'[J] = NoMtx /\ \A u \in Thread : pAgg'[u][J] = NoMtx
<1>0. J \in Front /\ J \notin Nonempty /\ cur[t] \in Front
  BY SolveAssumption, TypedFacts DEF Nonempty
<1>1. pMtx[J] = NoMtx /\ \A u \in Thread : pAgg[u][J] = NoMtx
  BY DEF MatrixLife
<1>2. pc[t] \in VisitLabels => cur[t] # J
  BY <1>0, TypedFacts DEF WorkFits, WorkOf
<1>3. pMtx'[J] = NoMtx
  <2>1. Publish(t) => cur[t] # J
    BY <1>2 DEF Publish, VisitLabels
  <2>2. Copy(t) => Least(todo[t]) # J
    BY <1>1 DEF Copy
  <2>0. NewMtx(t)
    BY MtxEffect
  <2>3. CASE Publish(t)
    BY <1>0, <1>1, <2>0, <2>1, <2>3, Zenon DEF NewMtx
  <2>4. CASE Copy(t)
    BY <1>0, <1>1, <2>0, <2>2, <2>4, Zenon DEF NewMtx
  <2>5. CASE DiagonalSolve(t)
    BY <1>0, <1>1, <2>0, <2>5 DEF NewMtx
  <2>6. CASE DiagonalMove(t)
    BY <1>0, <1>1, <2>0, <2>6, Zenon DEF NewMtx
  <2>7. CASE ~(Publish(t) \/ Copy(t) \/ DiagonalSolve(t) \/ DiagonalMove(t))
    <3>1. pMtx' = pMtx
      BY <2>0, <2>7, Zenon DEF NewMtx
    <3> QED  BY <1>1, <3>1
  <2> QED  BY <2>3, <2>4, <2>5, <2>6, <2>7
<1>4. pAgg'[t][J] = NoMtx
  <2>1. CASE J # cur[t]
    BY <1>0, <1>1, <2>1, AggEffect
  <2>2. CASE J = cur[t]
    <3>1. ~(VisitFront(t) \/ Apply(t) \/ Assemble(t) \/ Decrement(t) \/ Publish(t))
      BY <1>0, <1>2, <2>2 DEF VisitFront, Apply, Assemble, Decrement, Publish, VisitLabels
    <3>2. NewAgg(t)
      BY AggEffect
    <3>3. CASE DiagonalMove(t)
      <4>1. pAgg'[t][cur[t]] = pMtx[cur[t]]
        BY <3>2, <3>3, Zenon DEF NewAgg
      <4> QED  BY <1>1, <2>2, <4>1
    <3>4. CASE ~DiagonalMove(t)
      <4>1. pAgg' = pAgg
        BY <3>1, <3>2, <3>4, Zenon DEF NewAgg
      <4> QED  BY <1>1, <4>1
    <3> QED  BY <3>3, <3>4
  <2> QED  BY <2>1, <2>2
<1> QED  BY <1>1, <1>3, <1>4, AggEffect

\* Every step keeps MatrixLife,
LEMMA MatrixLifeStep ==
  ASSUME Typed, DequeInv, HandInv, MatrixLife, MtxTypes, NEW t \in Thread, Worker(t)
  PROVE  MatrixLife'
<1>1. ASSUME NEW J \in Nonempty PROVE OwnedMatrix(J)'
  <2>0. J \in Front /\ owners[J] \in Thread /\ OwnedMatrix(J)
    BY OwnersFit DEF MatrixLife
  <2>1. CASE owners[J] # t
    <3>1. SamePath(owners[J]) /\ SameThread(owners[J]) /\ pMtx'[J] = pMtx[J]
      BY <2>0, <2>1, OthersPaths, MtxOthers
    <3> QED  BY <2>0, <3>1, SameOwner DEF SamePath, SameThread
  <2>2. CASE owners[J] = t
    BY <2>2, OwnedLoop, OwnedRest, OwnedEnters, WhoElse
  <2> QED  BY <2>1, <2>2
<1>2. ASSUME NEW J \in Nonempty, NEW u \in Thread \ {owners[J]} PROVE Aggregating(u, J)'
  <2>1. CASE u = t
    BY <2>1, AggregatingStep
  <2>2. CASE u # t
    <3>1. SamePath(u) /\ SameThread(u)
      BY <2>2, OthersPaths
    <3>2. Aggregating(u, J)
      BY DEF MatrixLife
    <3> QED  BY <3>1, <3>2 DEF SamePath, SameThread, Aggregating
  <2> QED  BY <2>1, <2>2
<1> QED  BY <1>1, <1>2, EmptyStep DEF MatrixLife

\* and it holds initially.
LEMMA MatrixLifeInit == Init => MatrixLife /\ MtxTypes /\ (joined \in BOOLEAN)
<1> SUFFICES ASSUME Init PROVE MatrixLife /\ MtxTypes /\ joined \in BOOLEAN
  OBVIOUS
<1>1. MtxTypes /\ joined \in BOOLEAN
  BY MtxNamed DEF Init, MtxTypes
<1>2. ASSUME NEW J \in Nonempty PROVE OwnedMatrix(J)
  <2>0. J \in Front /\ owners[J] \in Thread
    BY OwnersFit
  <2>1. J \in OnPath["forward"][owners[J]]
    BY <2>0 DEF OnPath, StartOfPath, Solve
  <2>2. status[owners[J]][J] = "W" /\ pc[owners[J]] # "signal" /\ phase[owners[J]] = "forward"
    BY <2>0, <2>1 DEF Init
  <2>3. StageOf(J) = "none" /\ HeldStage(J) = "rhs"
    BY <2>2 DEF StageOf, Published, HeldStage
  <2>4. pMtx[J] = NoMtx /\ pAgg[owners[J]][J] = RhsMtx
    BY <2>0 DEF Init
  <2> QED  BY <2>3, <2>4, MtxNamed DEF OwnedMatrix
<1>3. ASSUME NEW J \in Nonempty, NEW t \in Thread \ {owners[J]} PROVE Aggregating(t, J)
  <2>1. J \in Front
    BY OwnersFit
  <2>2. pAgg[t][J] = NoMtx /\ pc[t] = "pop"
    BY <2>1 DEF Init
  <2> QED  BY <2>2 DEF Aggregating, VisitLabels
<1>4. ASSUME NEW J \in empty PROVE pMtx[J] = NoMtx /\ \A t \in Thread : pAgg[t][J] = NoMtx
  BY SolveAssumption DEF Init, Nonempty
<1> QED  BY <1>1, <1>2, <1>3, <1>4 DEF MatrixLife

-----------------------------------------------------------------------------
(* The types of all variables                                              *)

\* TypesInv holds initially,
LEMMA TypesInit == Init => TypesInv
  BY PathInit, HandInit, MatrixLifeInit, ListTypesInit DEF TypesInv

\* gives the types the lemmas above ask for,
LEMMA TypesTyped == TypesInv => Typed /\ DequeInv
  BY DEF TypesInv, PathInv, Typed

\* and is kept by every step.
LEMMA TypesNext == TypesInv /\ [Next]_vars => TypesInv'
<1> SUFFICES ASSUME TypesInv, [Next]_vars PROVE TypesInv'
  OBVIOUS
<1>0. /\ PathInv /\ HandInv /\ MatrixLife /\ MtxTypes /\ ListTypes /\ joined \in BOOLEAN
      /\ Typed /\ DequeInv
  BY TypesTyped DEF TypesInv
<1>1. PathInv'
  BY <1>0, PathNext
<1>2. ASSUME NEW t \in Thread, Worker(t) PROVE TypesInv'
  <2>1. HandInv'
    BY <1>0, <1>2, HandStep
  <2>2. MatrixLife' /\ MtxTypes'
    BY <1>0, <1>2, MatrixLifeStep, MtxTypesStep
  <2>3. ListTypes'
    BY <1>0, <1>2, UpdTypes, ListTypesStep
  <2>4. joined' \in BOOLEAN
    BY <1>0, <1>2, WhoElse
  <2> QED  BY <1>1, <2>1, <2>2, <2>3, <2>4 DEF TypesInv
<1>3. CASE UNCHANGED <<pc, phase, cur, pathVars, gatherVars, pAgg, shared, listVars, sol>>
           /\ joined' \in BOOLEAN
  <2> USE <1>3 DEF pathVars, gatherVars, shared, listVars, forwVars, backVars
  <2>1. HandInv'
    BY <1>0, HandSame DEF HandInv
  <2>2. MtxTypes'
    BY <1>0 DEF MtxTypes
  <2>3. ListTypes'
    BY <1>0 DEF ListTypes, InList, InCounts, InLock
  <2>4. MatrixLife'
    <3>1. \A J \in Nonempty : OwnedMatrix(J)'
      BY <1>0, OwnersFit, SameOwner DEF MatrixLife
    <3>2. \A J \in Nonempty : \A t \in Thread \ {owners[J]} : Aggregating(t, J)'
      BY <1>0 DEF MatrixLife, Aggregating
    <3> QED  BY <1>0, <3>1, <3>2 DEF MatrixLife
  <2> QED  BY <1>1, <2>1, <2>2, <2>3, <2>4 DEF TypesInv
<1>4. \/ \E t \in Thread : Worker(t)
      \/ UNCHANGED <<pc, phase, cur, pathVars, gatherVars, pAgg, shared, listVars, sol>>
         /\ joined' \in BOOLEAN
  BY <1>0 DEF Next, Join, Returned, vars
<1> QED  BY <1>2, <1>3, <1>4

\* TypeOK: every variable keeps its type; above all no contribution is added
\* to a matrix that has not been created or was given away.
THEOREM TypeCorrect == Spec => []TypeOK
<1>1. TypesInv => TypeOK
  <2> SUFFICES ASSUME TypesInv PROVE TypeOK
    OBVIOUS
  <2>1. Typed /\ MtxTypes /\ ListTypes /\ joined \in BOOLEAN
    BY TypesTyped DEF TypesInv
  <2>2. WorkerTypeOK
    <3>1. heads \in [Thread -> [Front -> SUBSET Front]]
      <4>1. heads \in [Thread -> [Front -> SUBSET Nonempty]] /\ Nonempty \subseteq Front
        BY <2>1, TypedFacts DEF Nonempty
      <4>2. [Front -> SUBSET Nonempty] \subseteq [Front -> SUBSET Front]
        BY <4>1
      <4> HIDE DEF Nonempty
      <4> QED  BY <4>1, <4>2
    <3> QED  BY <2>1, <3>1, TypedFacts DEF WorkerTypeOK, MtxTypes, Phase
  <2>3. SharedTypeOK
    BY <2>1, TypedFacts DEF SharedTypeOK, MtxTypes, BarrierInv, Loop
  <2> QED  BY <2>1, <2>2, <2>3, ListTypesMeans DEF TypeOK
<1> QED  BY TypesInit, TypesNext, <1>1, PTL DEF Spec

-----------------------------------------------------------------------------
(* The threads that send an aggregate                                      *)

\* A set of at most one element.
LEMMA AtMostOne ==
  ASSUME NEW S, IsFiniteSet(S), Cardinality(S) <= 1, NEW x \in S, NEW y \in S
  PROVE  x = y
<1> SUFFICES ASSUME x # y PROVE FALSE
  OBVIOUS
<1>1. IsFiniteSet({x}) /\ Cardinality({x}) = 1
  BY FS_Singleton
<1>2. Cardinality({x} \cup {y}) = 2
  <2>1. y \notin {x}
    OBVIOUS
  <2>2. Cardinality({x} \cup {y}) = Cardinality({x}) + 1
    BY <1>1, <2>1, FS_AddElement
  <2> QED  BY <1>1, <2>2
<1>3. Cardinality({x} \cup {y}) <= Cardinality(S)
  BY FS_Subset
<1>4. Cardinality(S) \in Nat
  BY FS_CardinalityType
<1> QED  BY <1>2, <1>3, <1>4

\* A sender is another thread than the owner, has contributions, and has the
\* front on its paths.
LEMMA SenderFacts ==
  ASSUME NEW s \in Solve, NEW J \in Front
  PROVE  /\ Senders(s, J) \subseteq Thread /\ IsFiniteSet(Senders(s, J))
         /\ \A t \in Senders(s, J) :
              owners[J] # t /\ OwnSources(s, t, J) # {} /\ J \in OnPath[s][t] /\ J \in Nonempty
<1>1. \A I \in Sources(s, J) : I \in Front
  BY TreeAssumption DEF Sources, Updaters
<1>2. \A I \in Front : BlockOwner(s, J, I) \in Thread
  BY SolveAssumption DEF BlockOwner
<1>3. Senders(s, J) \subseteq Thread
  BY <1>1, <1>2 DEF Senders
<1>4. IsFiniteSet(Senders(s, J))
  <2>1. IsFiniteSet(Thread)
    BY ThreadsFinite
  <2> QED  BY <1>3, <2>1, FS_Subset
<1>5. ASSUME NEW t \in Senders(s, J)
      PROVE  owners[J] # t /\ OwnSources(s, t, J) # {} /\ J \in OnPath[s][t] /\ J \in Nonempty
  <2>1. owners[J] # t /\ OwnSources(s, t, J) # {}
    BY DEF Senders, OwnSources
  <2>2. t \in Thread
    BY <1>3
  <2>3. J \in StartOfPath(s, t)
    BY <2>1 DEF StartOfPath
  <2>4. J \in OnPath[s][t]
    BY <2>2, <2>3 DEF OnPath
  <2>5. J \in Nonempty
    <3>1. Sources(s, J) # {}
      BY <2>1 DEF OwnSources
    <3> QED  BY <3>1, SolveAssumption DEF Sources, Updaters, Nonempty
  <2> QED  BY <2>1, <2>4, <2>5
<1> QED  BY <1>3, <1>4, <1>5

\* A list that does not take the mutex has one sender.
LEMMA OneSender ==
  ASSUME NEW s \in Solve, NEW J \in Front, SolveFlags(s)[J] # "Y",
         NEW t \in Senders(s, J), NEW u \in Senders(s, J)
  PROVE  t = u
<1>1. IsFiniteSet(Senders(s, J))
  BY SenderFacts
<1>2. ~(SenderCount(s, J) > 1)
  BY DEF SolveFlags, Solve
<1>3. Cardinality(Senders(s, J)) \in Nat
  BY <1>1, FS_CardinalityType
<1>4. Cardinality(Senders(s, J)) <= 1
  BY <1>2, <1>3 DEF SenderCount
<1> QED  BY <1>1, <1>4, AtMostOne

\* How a phase begins.
LEMMA PhaseStep ==
  ASSUME Typed, NEW t \in Thread, Worker(t)
  PROVE  \/ phase'[t] = phase[t] /\ ~(ToDiagonal(t) \/ ToBackward(t) \/ ToStore(t))
         \/ ToDiagonal(t) /\ phase[t] = "forward" /\ phase'[t] = "diagonal"
         \/ ToBackward(t) /\ phase[t] = "diagonal" /\ phase'[t] = "backward"
         \/ ToStore(t) /\ phase[t] = "backward" /\ phase'[t] = "store"
<1>1. phase \in [Thread -> Phase] /\ pc \in [Thread -> Labels]
  BY TypedFacts
<1>2. ToDiagonal(t) => phase[t] = "forward" /\ phase'[t] = "diagonal"
  BY <1>1 DEF ToDiagonal
<1>3. ToBackward(t) => phase[t] = "diagonal" /\ phase'[t] = "backward"
  BY <1>1 DEF ToBackward
<1>4. ToStore(t) => phase[t] = "backward" /\ phase'[t] = "store"
  BY <1>1 DEF ToStore
<1> QED  BY <1>2, <1>3, <1>4, WhoElse

\* A front that has something to send is finished by the thread's last
\* access to the list, and by nothing else.
LEMMA ToSendStep ==
  ASSUME Typed, DequeInv, HandInv, NEW t \in Thread, Worker(t),
         \A J \in Front : SendsOnce(t, J),
         NEW s \in Solve, NEW J \in Front, NEW u \in Senders(s, J)
  PROVE  ToSend(s, u, J)' <=>
           ToSend(s, u, J) /\ ~(u = t /\ s = phase[t] /\ Decrement(t) /\ J = cur[t])
<1>0. /\ u \in Thread /\ owners[J] # u /\ J \in OnPath[s][u] /\ J \in Nonempty
      /\ status \in [Thread -> [Front -> {"W", "F"}]] /\ cur[t] \in Front
  BY SenderFacts, TypedFacts
<1>1. CASE u # t
  <2>1. status'[u] = status[u] /\ phase'[u] = phase[u]
    BY <1>0, <1>1, OthersPaths DEF SamePath, SameThread
  <2> QED  BY <1>1, <2>1 DEF ToSend, NotBegun
<1>2. CASE u = t /\ phase'[t] # phase[t]
  <2>1. /\ ~Decrement(t)
        /\ \/ ToDiagonal(t) /\ phase[t] = "forward" /\ phase'[t] = "diagonal"
           \/ ToBackward(t) /\ phase[t] = "diagonal" /\ phase'[t] = "backward"
           \/ ToStore(t) /\ phase[t] = "backward" /\ phase'[t] = "store"
    BY <1>2, PhaseStep DEF Decrement, ToDiagonal, ToBackward, ToStore
  <2>2. pc[t] = "barrier" /\ status[t][J] = "F"
    <3>1. pc[t] = "barrier"
      BY <2>1 DEF ToDiagonal, ToBackward, ToStore
    <3> QED  BY <3>1 DEF DequeInv, DequeOf, LoopDone
  <2>3. ToBackward(t) /\ s = "backward" => status'[t][J] = "W"
    BY <1>0, <1>2 DEF ToBackward
  <2> QED  BY <1>2, <2>1, <2>2, <2>3 DEF ToSend, NotBegun, Solve
<1>3. CASE u = t /\ phase'[t] = phase[t]
  <2>1. ~ToBackward(t)
    BY <1>3, PhaseStep
  <2>2. CASE J = cur[t] /\ status[t][J] = "W" /\ status'[t][J] # "W" /\ phase[t] = s
    <3>1. VisitEmpty(t) \/ PassThrough(t) \/ Decrement(t) \/ Signal(t)
      BY <2>1, <2>2, WhoElse
    <3>2. ~VisitEmpty(t)
      BY <1>0, <2>2 DEF VisitEmpty, Nonempty
    <3>3. ~Signal(t)
      BY <1>0, <1>3, <2>2 DEF Signal, HandInv, HandOf, VisitOf, Owned, OwnedLabels, SolvedLabels
    <3>4. ~PassThrough(t)
      <4> SUFFICES ASSUME PassThrough(t) PROVE FALSE
        OBVIOUS
      <4>1. heads[t][J] = {} /\ pc[t] \notin VisitLabels
        BY <2>2 DEF PassThrough, Waiting, VisitLabels
      <4>2. SendsOnce(t, J)
        OBVIOUS
      <4> QED  BY <1>3, <2>2, <4>1, <4>2 DEF SendsOnce
    <3> QED  BY <1>3, <2>2, <3>1, <3>2, <3>3, <3>4 DEF ToSend, NotBegun, Solve
  <2>3. CASE J # cur[t] \/ status[t][J] # "W" \/ status'[t][J] = "W" \/ phase[t] # s
    <3>1. \/ status' = status
          \/ status' = [status EXCEPT ![t][cur[t]] = "F"]
      BY <2>1, WhoElse DEF VisitEmpty, PassThrough, Decrement, Signal
    <3>2. Decrement(t) => status' = [status EXCEPT ![t][cur[t]] = "F"]
      BY DEF Decrement
    <3>3. /\ status'[t][J] = status[t][J] \/ (J = cur[t] /\ status'[t][J] = "F")
          /\ Decrement(t) /\ J = cur[t] => status'[t][J] = "F"
      BY <1>0, <3>1, <3>2
    <3> QED  BY <1>0, <1>3, <2>3, <3>3 DEF ToSend, NotBegun, Solve
  <2> QED  BY <2>2, <2>3
<1> QED  BY <1>1, <1>2, <1>3

\* A thread that sends is a sender that has still to send.
LEMMA SendingFacts ==
  ASSUME Typed, HandInv, NEW t \in Thread, pc[t] \in SendLabels
  PROVE  /\ phase[t] \in Solve /\ cur[t] \in Front
         /\ t \in Senders(phase[t], cur[t])
         /\ status[t][cur[t]] = "W" /\ ToSend(phase[t], t, cur[t])
<1>1. pc[t] \in VisitLabels /\ pc[t] \in SolveLabels
  BY DEF SendLabels, VisitLabels, SolveLabels
<1>2. phase[t] \in Solve /\ cur[t] \in Front
  BY <1>1, LabelPhase, TypedFacts
<1>3. t \in Senders(phase[t], cur[t]) /\ status[t][cur[t]] = "W"
  BY <1>1 DEF HandInv, HandOf, VisitOf
<1> QED  BY <1>2, <1>3 DEF ToSend

\* A thread sends to a front once.
LEMMA SendsOnceStep ==
  ASSUME Typed, DequeInv, HandInv, NEW t \in Thread, Worker(t),
         \A J \in Front : SendsOnce(t, J), NEW J \in Front
  PROVE  SendsOnce(t, J)'
<1>0. /\ heads \in [Thread -> [Front -> SUBSET Nonempty]] /\ cur \in [Thread -> Front]
      /\ status \in [Thread -> [Front -> {"W", "F"}]] /\ pc \in [Thread -> Labels]
      /\ phase \in [Thread -> Phase]
  BY TypedFacts
<1>1. SendsOnce(t, J) /\ SendsOnce(t, cur[t])
  BY <1>0
<1>2. ASSUME pc'[t] \in SendLabels PROVE heads'[t][cur'[t]] = {}
  <2>1. pc'[t] \in VisitLabels
    BY <1>2 DEF SendLabels, VisitLabels
  <2>2. CASE pc[t] \in SendLabels
    <3>1. heads' = heads /\ cur' = cur
      BY <2>1, <2>2, VisitGoes, WhoChanges DEF VisitFront, UpdateWaits, ToBackward, SendLabels
    <3> QED  BY <1>1, <2>2, <3>1 DEF SendsOnce
  <2>3. CASE pc[t] \notin SendLabels
    <3>1. heads'[t][cur[t]] = {} /\ cur' = cur
      BY <1>2, <2>1, <2>3, VisitGoes
    <3> QED  BY <3>1
  <2> QED  BY <2>2, <2>3
<1>3. ASSUME phase'[t] \in Solve, t \in Senders(phase'[t], J), status'[t][J] = "W"
      PROVE  heads'[t][J] # {} \/ (pc'[t] \in VisitLabels /\ cur'[t] = J)
  <2>1. CASE ToBackward(t)
    <3>1. heads'[t][J] = OwnSources("backward", t, J) /\ phase'[t] = "backward"
      BY <1>0, <2>1, PhaseStep DEF ToBackward
    <3> QED  BY <1>3, <3>1, SenderFacts
  <2>2. CASE ~ToBackward(t)
    <3>1. phase'[t] = phase[t]
      BY <1>3, <2>2, PhaseStep DEF Solve
    <3>2. owners[J] # t
      BY <1>3, SenderFacts
    <3>3. status[t][J] = "W" /\ (status' # status => J # cur[t])
      <4>1. \/ status' = status
            \/ status' = [status EXCEPT ![t][cur[t]] = "F"]
        BY <2>2, WhoElse DEF VisitEmpty, PassThrough, Decrement, Signal
      <4> QED  BY <1>0, <1>3, <4>1
    <3>4. heads[t][J] # {} \/ (pc[t] \in VisitLabels /\ cur[t] = J)
      BY <1>1, <1>3, <3>1, <3>3 DEF SendsOnce
    <3>5. CASE pc[t] \in VisitLabels /\ cur[t] = J
      <4>1. ~Owned(t) /\ status' = status /\ pc[t] \notin OwnedLabels
        BY <3>2, <3>3, <3>5 DEF Owned, HandInv, HandOf, VisitOf
      <4>2. ~(Decrement(t) \/ Signal(t) \/ VisitEmpty(t) \/ PassThrough(t))
        <5>1. ~(Decrement(t) \/ Signal(t) \/ VisitEmpty(t) \/ PassThrough(t))
                \/ status' = [status EXCEPT ![t][cur[t]] = "F"]
          BY DEF Decrement, Signal, VisitEmpty, PassThrough
        <5> QED  BY <1>0, <1>3, <3>5, <5>1
      <4>3. CASE UpdateReady(t) \/ Link(t) \/ Store(t)
        BY <1>0, <3>5, <4>3 DEF UpdateReady, Link, Store, Goto, VisitLabels
      <4>4. CASE UpdateWaits(t)
        <5>1. pc'[t] \in VisitLabels \/ heads'[t][cur[t]] # {}
          BY <1>0, <4>1, <4>4 DEF UpdateWaits, Goto, AfterUpdates, VisitLabels
        <5>2. cur' = cur
          BY <4>4 DEF UpdateWaits
        <5> QED  BY <3>5, <5>1, <5>2
      <4>5. CASE Apply(t)
        <5>1. pc'[t] \in VisitLabels \/ Waiting(t) # {}
          BY <1>0, <4>1, <4>5 DEF Apply, Goto, AfterUpdates, VisitLabels
        <5>2. cur' = cur /\ heads' = heads
          BY <4>5 DEF Apply, gatherVars
        <5> QED  BY <3>5, <5>1, <5>2 DEF Waiting
      <4> QED
        BY <3>5, <4>1, <4>2, <4>3, <4>4, <4>5 DEF OwnedLabels, CountedLabels, SolvedLabels, VisitLabels,
           Worker, Pop, Exhausted, ReturnForward, VisitFront,
           ReturnBackward, ReturnActive, Poll, Load,
           Assemble, Count, Publish, ToDiagonal, DiagonalSolve, DiagonalMove,
           DiagonalSignal, DiagonalReset, DiagonalEnd, ToBackward, ToStore, Copy, CopyEnd
    <3>6. CASE heads[t][J] # {}
      <4>1. CASE VisitFront(t) /\ cur[t] = J
        <5>1. pc'[t] = "update" /\ cur' = cur
          BY <1>0, <3>6, <4>1 DEF VisitFront, Goto, Waiting
        <5> QED  BY <4>1, <5>1 DEF VisitLabels
      <4>2. CASE VisitFront(t) /\ cur[t] # J
        <5>1. heads' = [heads EXCEPT ![t][cur[t]] = {}]
          BY <4>2 DEF VisitFront
        <5> QED  BY <1>0, <3>6, <4>2, <5>1
      <4>3. CASE UpdateWaits(t)
        <5>1. PICK I \in todo[t] : heads' = [heads EXCEPT ![t][cur[t]] = @ \cup {I}]
          BY <4>3 DEF UpdateWaits
        <5>2. heads[t][J] \subseteq heads'[t][J]
          BY <1>0, <5>1
        <5> QED  BY <3>6, <5>2
      <4> QED  BY <2>2, <3>6, <4>1, <4>2, <4>3, WhoChanges
    <3> QED  BY <3>4, <3>5, <3>6
  <2> QED  BY <2>1, <2>2
<1> QED  BY <1>2, <1>3 DEF SendsOnce

-----------------------------------------------------------------------------
(* The counts                                                              *)

\* One thread at a time is inside a locked list.
LEMMA ExclusiveStep ==
  ASSUME Typed, HandInv, ListTypes, \A v \in Thread : Exclusive(v),
         NEW t \in Thread, Worker(t), NEW u \in Thread
  PROVE  Exclusive(u)'
<1>0. /\ pc \in [Thread -> Labels] /\ cur \in [Thread -> Front] /\ phase \in [Thread -> Phase]
      /\ creg \in [Thread -> Int]
      /\ \A s \in Solve : /\ InCounts(s) \in [Front -> Int]
                          /\ InLock(s) \in Thread \cup {-1}
  BY TypedFacts DEF ListTypes
<1>1. SUFFICES ASSUME pc'[u] \in {"store", "decrement"}
               PROVE  /\ SolveFlags(phase'[u])[cur'[u]] = "Y" => InLock(phase[u])' = u
                      /\ pc'[u] = "decrement" => creg'[u] = InCounts(phase[u])'[cur'[u]]
  BY DEF Exclusive
<1>2. /\ cur'[u] = cur[u] /\ phase'[u] = phase[u] /\ pc[u] \in SendLabels
      /\ u = t => (Link(t) /\ pc'[t] = "store") \/ (Store(t) /\ pc'[t] = "decrement")
      /\ u # t => pc'[u] = pc[u]
  <2>1. CASE u # t
    BY <1>1, <2>1, OthersPaths DEF SameThread, SendLabels
  <2>2. CASE u = t
    <3>1. Link(t) \/ Store(t)
      BY <1>0, <1>1, <2>2 DEF Goto, AfterAggregates, AfterUpdates,
         Worker, Pop, Exhausted, ReturnForward, VisitFront, VisitEmpty, PassThrough,
         ReturnBackward, ReturnActive, Poll, Load, UpdateReady, UpdateWaits, Apply, Decrement,
         Assemble, Count, Publish, Signal, ToDiagonal, DiagonalSolve, DiagonalMove,
         DiagonalSignal, DiagonalReset, DiagonalEnd, ToBackward, ToStore, Copy, CopyEnd
    <3>2. CASE Link(t)
      <4>1. pc[t] = "link" /\ pc'[t] = "store" /\ cur' = cur /\ phase' = phase
        BY <1>0, <3>2 DEF Link, Goto
      <4>2. pc[t] \in SendLabels
        BY <4>1 DEF SendLabels
      <4> QED  BY <2>2, <3>2, <4>1, <4>2
    <3>3. CASE Store(t)
      <4>1. pc[t] = "store" /\ pc'[t] = "decrement" /\ cur' = cur /\ phase' = phase
        BY <1>0, <3>3 DEF Store, Goto
      <4> QED  BY <2>2, <3>3, <4>1 DEF SendLabels
    <3> QED  BY <3>1, <3>2, <3>3
  <2> QED  BY <2>1, <2>2
<1>3. phase[u] \in Solve /\ cur[u] \in Front /\ u \in Senders(phase[u], cur[u])
  BY <1>2, SendingFacts
<1> PICK s \in Solve : s = phase[u]
  BY <1>3
<1> PICK K \in Front : K = cur[u]
  BY <1>3
<1>4. SUFFICES /\ SolveFlags(s)[K] = "Y" => InLock(s)' = u
               /\ pc'[u] = "decrement" => creg'[u] = InCounts(s)'[K]
  BY <1>2 DEF InLock, InCounts
<1>5. CASE u = t
  <2>1. CASE Link(t)
    <3>1. LinkDoes(t) /\ pc'[t] = "store"
      BY <2>1, ListEffect, <1>5, <1>2 DEF Link, Store
    <3> QED  BY <1>5, <3>1 DEF LinkDoes
  <2>2. CASE Store(t)
    <3>1. StoreDoes(t) /\ pc[t] = "store"
      BY <2>2, ListEffect DEF Store
    <3>2. InLock(s)' = InLock(s) /\ InCounts(s)' = InCounts(s) /\ creg'[t] = InCounts(s)[K]
      BY <1>0, <1>5, <3>1 DEF StoreDoes
    <3>3. SolveFlags(s)[K] = "Y" => InLock(s) = u
      BY <1>5, <3>1 DEF Exclusive
    <3> QED  BY <1>5, <3>2, <3>3
  <2> QED  BY <1>2, <1>5, <2>1, <2>2
<1>6. CASE u # t
  <2>1. /\ pc'[u] = pc[u]
        /\ SolveFlags(s)[K] = "Y" => InLock(s) = u
        /\ pc[u] = "decrement" => creg[u] = InCounts(s)[K]
    BY <1>1, <1>2, <1>6 DEF Exclusive
  <2>2. SolveFlags(s)[K] = "Y" => InLock(s)' = u
    <3>1. \/ InLock(s)' = InLock(s)
          \/ InLock(s)' = t /\ InLock(s) = -1
          \/ InLock(s)' = -1 /\ InLock(s) = t
      BY ListEffect DEF LinkDoes, StoreDoes, DecrementDoes, LoadDoes, ClearDoes, ListsStay
    <3>2. u # -1
      BY TreeAssumption DEF Thread
    <3> QED  BY <1>6, <2>1, <3>1, <3>2
  <2>3. creg'[u] = creg[u]
    BY <1>0, <1>6, ListEffect DEF LinkDoes, StoreDoes, DecrementDoes, LoadDoes, ClearDoes, ListsStay
  <2>4. InCounts(s)'[K] = InCounts(s)[K]
    <3>1. CASE Decrement(t) /\ phase[t] = s /\ cur[t] = K
      <4>1. pc[t] = "decrement" /\ t \in Senders(s, K)
        BY <3>1, SendingFacts DEF Decrement, SendLabels
      <4>2. SolveFlags(s)[K] = "Y" => InLock(s) = t
        BY <3>1, <4>1 DEF Exclusive
      <4>3. SolveFlags(s)[K] = "Y"
        BY <1>3, <1>6, <4>1, OneSender
      <4> QED  BY <1>6, <2>1, <4>2, <4>3
    <3>2. CASE ~Decrement(t) \/ phase[t] # s
      BY <3>2, ListEffect DEF LinkDoes, StoreDoes, DecrementDoes, LoadDoes, ClearDoes, ListsStay
    <3>3. CASE Decrement(t) /\ phase[t] = s /\ cur[t] # K
      BY <1>0, <3>3, ListEffect DEF DecrementDoes
    <3> QED  BY <3>1, <3>2, <3>3
  <2> QED  BY <2>1, <2>2, <2>3, <2>4
<1> QED  BY <1>5, <1>6

\* The counts of the lists are exact after a step.
LEMMA CountsStep ==
  ASSUME Typed, DequeInv, HandInv, ListTypes, \A v \in Thread : Exclusive(v),
         NEW t \in Thread, Worker(t), \A K \in Front : SendsOnce(t, K),
         NEW s \in Solve, NEW J \in Front, CountsOf(s, J)
  PROVE  CountsOf(s, J)'
<1> DEFINE S == {u \in Senders(s, J) : ToSend(s, u, J)}
           T == {u \in Senders(s, J) : ToSend(s, u, J)'}
<1>0. InCounts(s) \in [Front -> Int] /\ cur[t] \in Front /\ S \in SUBSET Senders(s, J)
  BY TypedFacts DEF ListTypes
<1>1. IsFiniteSet(S)
  BY <1>0, SenderFacts, FS_Subset
<1>2. InCounts(s)[J] = Cardinality(S)
  BY DEF CountsOf
<1>3. SUFFICES InCounts(s)'[J] = Cardinality(T)
  BY DEF CountsOf
<1>4. CASE Decrement(t) /\ phase[t] = s /\ cur[t] = J
  <2>1. pc[t] = "decrement" /\ t \in S
    BY <1>4, SendingFacts DEF Decrement, SendLabels
  <2>2. T = S \ {t}
    BY <1>4, ToSendStep
  <2>3. InCounts(s)'[J] = creg[t] - 1
    BY <1>0, <1>4, ListEffect DEF DecrementDoes
  <2>4. creg[t] = InCounts(s)[J]
    BY <1>4, <2>1 DEF Exclusive
  <2> HIDE DEF S, T
  <2>5. Cardinality(S \ {t}) = Cardinality(S) - 1
    BY <1>1, <2>1, FS_RemoveElement
  <2> QED  BY <1>2, <2>2, <2>3, <2>4, <2>5
<1>5. CASE ~(Decrement(t) /\ phase[t] = s /\ cur[t] = J)
  <2>1. T = S
    BY <1>5, ToSendStep
  <2>2. InCounts(s)'[J] = InCounts(s)[J]
    <3>1. CASE ~Decrement(t) \/ phase[t] # s
      BY <3>1, ListEffect DEF LinkDoes, StoreDoes, DecrementDoes, LoadDoes, ClearDoes, ListsStay
    <3>2. CASE Decrement(t) /\ phase[t] = s /\ cur[t] # J
      BY <1>0, <3>2, ListEffect DEF DecrementDoes
    <3> QED  BY <1>5, <3>1, <3>2
  <2> QED  BY <1>2, <2>1, <2>2
<1> QED  BY <1>4, <1>5

\* CountInv holds initially,
LEMMA CountInit == Init => CountInv
<1> SUFFICES ASSUME Init PROVE CountInv
  OBVIOUS
<1>1. ASSUME NEW t \in Thread PROVE Exclusive(t) /\ \A J \in Front : SendsOnce(t, J)
  <2>1. phase[t] = "forward" /\ pc[t] = "pop"
    BY DEF Init
  <2>2. \A J \in Front : heads[t][J] = OwnSources("forward", t, J)
    BY DEF Init
  <2>3. \A J \in Front : t \in Senders("forward", J) => OwnSources("forward", t, J) # {}
    BY SenderFacts DEF Solve
  <2> QED  BY <2>1, <2>2, <2>3 DEF Exclusive, SendsOnce, SendLabels
<1>2. ASSUME NEW s \in Solve, NEW J \in Front PROVE CountsOf(s, J)
  <2>1. InCounts(s)[J] = SenderCount(s, J)
    BY DEF Init, forw!ListInit, back!ListInit, InCounts, Solve
  <2>2. \A t \in Senders(s, J) : ToSend(s, t, J)
    <3> TAKE t \in Senders(s, J)
    <3>1. t \in Thread /\ J \in OnPath[s][t]
      BY SenderFacts
    <3>2. phase[t] = "forward" /\ (J \in OnPath["forward"][t] => status[t][J] = "W")
      BY <3>1 DEF Init
    <3> QED  BY <3>1, <3>2 DEF ToSend, NotBegun, Solve
  <2>3. {t \in Senders(s, J) : ToSend(s, t, J)} = Senders(s, J)
    BY <2>2
  <2> QED  BY <2>1, <2>3 DEF CountsOf, SenderCount
<1> QED  BY <1>1, <1>2 DEF CountInv

\* every step keeps it,
LEMMA CountStep ==
  ASSUME TypesInv, CountInv, NEW t \in Thread, Worker(t)
  PROVE  CountInv'
<1>0. Typed /\ DequeInv /\ HandInv /\ ListTypes
  BY TypesTyped DEF TypesInv
<1>1. /\ \A v \in Thread : Exclusive(v)
      /\ \A v \in Thread : \A J \in Front : SendsOnce(v, J)
      /\ \A s \in Solve : \A J \in Front : CountsOf(s, J)
  BY DEF CountInv
<1>2. ASSUME NEW u \in Thread PROVE Exclusive(u)'
  BY <1>0, <1>1, ExclusiveStep
<1>3. ASSUME NEW u \in Thread, NEW J \in Front PROVE SendsOnce(u, J)'
  <2>1. CASE u = t
    BY <1>0, <1>1, <2>1, SendsOnceStep
  <2>2. CASE u # t
    <3>1. SamePath(u) /\ SameThread(u) /\ SendsOnce(u, J)
      BY <1>0, <1>1, <2>2, OthersPaths
    <3> QED  BY <3>1 DEF SendsOnce, SamePath, SameThread
  <2> QED  BY <2>1, <2>2
<1>4. ASSUME NEW s \in Solve, NEW J \in Front PROVE CountsOf(s, J)'
  BY <1>0, <1>1, CountsStep
<1> QED  BY <1>2, <1>3, <1>4 DEF CountInv

\* and so it is inductive with the types.
LEMMA CountedNext == CountedInv /\ [Next]_vars => CountedInv'
<1> SUFFICES ASSUME TypesInv, CountInv, [Next]_vars PROVE CountedInv'
  BY DEF CountedInv
<1>1. TypesInv'
  BY TypesNext
<1>2. CASE \E t \in Thread : Worker(t)
  BY <1>1, <1>2, CountStep DEF CountedInv
<1>3. CASE UNCHANGED <<pc, phase, cur, pathVars, gatherVars, pAgg, shared, listVars, sol>>
  BY <1>1, <1>3 DEF CountedInv, CountInv, Exclusive, SendsOnce, CountsOf, InCounts, InLock, ToSend,
     NotBegun, pathVars, gatherVars, shared, listVars, forwVars, backVars
<1> QED  BY <1>2, <1>3 DEF Next, Join, Returned, vars

\* AggCountsAreExact: the counts of both list objects are the numbers of
\* threads still to send, although most decrements are not under the mutex.
THEOREM CountsCorrect == Spec => []AggCountsAreExact
<1>1. Init => CountedInv
  BY TypesInit, CountInit DEF CountedInv
<1>2. CountedInv => AggCountsAreExact
  <2> SUFFICES ASSUME CountedInv, NEW J \in Front
      PROVE /\ forwCounts[J] = Cardinality({t \in Senders("forward", J) :
                                 phase[t] = "forward" /\ status[t][J] = "W"})
            /\ backCounts[J] = Cardinality({t \in Senders("backward", J) :
                                 \/ phase[t] \in {"forward", "diagonal"}
                                 \/ phase[t] = "backward" /\ status[t][J] = "W"})
    BY DEF AggCountsAreExact
  <2>1. CountsOf("forward", J) /\ CountsOf("backward", J)
    BY DEF CountedInv, CountInv, Solve
  <2> QED  BY <2>1 DEF CountsOf, InCounts, ToSend, NotBegun
<1> QED  BY <1>1, <1>2, CountedNext, PTL DEF Spec

-----------------------------------------------------------------------------
(* The way of a contribution: facts about one step                         *)

\* CountedInv, in the parts the proofs below cite.
LEMMA CountedFacts ==
  ASSUME CountedInv
  PROVE  /\ Typed /\ DequeInv /\ HandInv /\ MatrixLife /\ MtxTypes /\ ListTypes
         /\ \A t \in Thread : HandOf(t) /\ Exclusive(t) /\ \A J \in Front : SendsOnce(t, J)
         /\ \A s \in Solve : \A J \in Front : CountsOf(s, J)
  BY TypesTyped DEF CountedInv, TypesInv, CountInv, HandInv

\* What a thread that tests a list learns.
LEMMA ListTests ==
  ASSUME NEW t \in Thread, phase[t] \in Solve
  PROVE  /\ IsListNonempty(t) <=> InList(phase[t])[cur[t]] # {}
         /\ IsCountZero(t) <=> InCounts(phase[t])[cur[t]] = 0
  BY DEF IsListNonempty, IsCountZero, forw!IsListNonempty, back!IsListNonempty,
     forw!IsCountZero, back!IsCountZero, InList, InCounts, Solve

\* From which labels, and by which actions, a worker reaches a label.
LEMMA LabelsFrom ==
  ASSUME Typed, NEW t \in Thread, Worker(t)
  PROVE  /\ pc'[t] \in SolvedLabels =>
              /\ cur' = cur /\ phase' = phase /\ heads' = heads
              /\ \/ pc[t] \in SolvedLabels
                 \/ /\ Waiting(t) = {} /\ pc[t] \in CountedLabels
                    /\ Assemble(t) \/ (InList(phase[t])[cur[t]] = {} /\ Poll(t))
         /\ pc'[t] \in CountedLabels =>
              /\ cur' = cur /\ phase' = phase
              /\ pc[t] \in CountedLabels \/ (InCounts(phase[t])[cur[t]] = 0 /\ Count(t))
         /\ pc'[t] \in {"clear1", "clear2"} => Load(t) /\ cur' = cur /\ phase' = phase
         /\ pc'[t] \in {"load1", "load2"} =>
              Poll(t) /\ InList(phase[t])[cur[t]] # {} /\ cur' = cur /\ phase' = phase
         /\ pc'[t] = "store" => Link(t) /\ cur' = cur /\ phase' = phase
         /\ pc'[t] = "decrement" => Store(t) /\ cur' = cur /\ phase' = phase
<1>0. pc \in [Thread -> Labels]
  BY TypedFacts
<1>1. Poll(t) \/ Count(t) =>
        /\ IsListNonempty(t) <=> InList(phase[t])[cur[t]] # {}
        /\ IsCountZero(t) <=> InCounts(phase[t])[cur[t]] = 0
  BY ListTests, TypedFacts, LabelPhase DEF Poll, Count, SolveLabels, VisitLabels
<1>2. CASE Poll(t)
  BY <1>0, <1>1, <1>2 DEF Poll, Goto, AfterAggregates, SolvedLabels, CountedLabels, gatherVars
<1>3. CASE Count(t)
  BY <1>0, <1>1, <1>3 DEF Count, Goto, SolvedLabels, CountedLabels, gatherVars
<1>4. CASE Assemble(t)
  BY <1>0, <1>4 DEF Assemble, Goto, AfterAggregates, SolvedLabels, CountedLabels, gatherVars
<1>5. CASE Load(t)
  BY <1>0, <1>5 DEF Load, Goto, SolvedLabels, CountedLabels, gatherVars
<1>6. CASE Link(t)
  BY <1>0, <1>6 DEF Link, Goto, SolvedLabels, CountedLabels, gatherVars
<1>7. CASE Store(t)
  BY <1>0, <1>7 DEF Store, Goto, SolvedLabels, CountedLabels, gatherVars
<1>8. CASE Publish(t)
  BY <1>0, <1>8 DEF Publish, Goto, SolvedLabels, CountedLabels, gatherVars
<1>9. CASE ~(Poll(t) \/ Count(t) \/ Assemble(t) \/ Load(t) \/ Link(t) \/ Store(t) \/ Publish(t))
  <2>1. pc'[t] \notin SolvedLabels \cup CountedLabels
                        \cup {"clear1", "clear2", "load1", "load2", "store", "decrement"}
    BY <1>0, <1>9 DEF SolvedLabels, CountedLabels, Worker, Goto, AfterUpdates,
       Pop, Exhausted, ReturnForward,
       ReturnBackward, ReturnActive, VisitEmpty, PassThrough, VisitFront, UpdateReady,
       UpdateWaits, Apply, Decrement, Signal, ToDiagonal, DiagonalSolve, DiagonalMove,
       DiagonalSignal, DiagonalReset, DiagonalEnd, ToBackward, ToStore, Copy, CopyEnd
  <2> QED  BY <2>1
<1> QED  BY <1>2, <1>3, <1>4, <1>5, <1>6, <1>7, <1>8, <1>9

\* A thread puts its aggregate into the list of the front it visits, in the
\* solve it is in.
LEMMA SentStep ==
  ASSUME CountedInv, NEW t \in Thread, Worker(t),
         NEW s \in Solve, NEW J \in Front, NEW u \in Senders(s, J)
  PROVE  Sent(s, u, J)' <=> Sent(s, u, J) \/ (u = t /\ s = phase[t] /\ Store(t) /\ J = cur[t])
<1>0. /\ u \in Thread /\ owners[J] # u /\ J \in OnPath[s][u] /\ J \in Nonempty
      /\ status \in [Thread -> [Front -> {"W", "F"}]] /\ cur[t] \in Front
      /\ Typed /\ DequeInv /\ HandInv /\ pc \in [Thread -> Labels] /\ cur \in [Thread -> Front]
      /\ phase \in [Thread -> Phase]
  BY SenderFacts, TypedFacts, CountedFacts
<1>1. CASE u # t
  <2>1. status'[u] = status[u] /\ phase'[u] = phase[u] /\ pc'[u] = pc[u] /\ cur'[u] = cur[u]
    BY <1>0, <1>1, OthersPaths DEF SamePath, SameThread
  <2> QED  BY <1>1, <2>1 DEF Sent, Ended, HandedOver
<1>2. CASE u = t /\ phase'[t] # phase[t]
  <2>1. /\ ~Store(t)
        /\ \/ ToDiagonal(t) /\ phase[t] = "forward" /\ phase'[t] = "diagonal"
           \/ ToBackward(t) /\ phase[t] = "diagonal" /\ phase'[t] = "backward"
           \/ ToStore(t) /\ phase[t] = "backward" /\ phase'[t] = "store"
    BY <1>0, <1>2, PhaseStep DEF Store, ToDiagonal, ToBackward, ToStore
  <2>2. pc[t] = "barrier" /\ status[t][J] = "F"
    <3>1. pc[t] = "barrier"
      BY <2>1 DEF ToDiagonal, ToBackward, ToStore
    <3> QED  BY <1>0, <3>1 DEF DequeInv, DequeOf, LoopDone
  <2>3. pc'[t] # "decrement"
    BY <1>0, <2>1 DEF ToDiagonal, ToBackward, ToStore, Goto
  <2>4. ToBackward(t) /\ s = "backward" => status'[t][J] = "W"
    BY <1>0, <1>2 DEF ToBackward
  <2> QED  BY <1>2, <2>1, <2>2, <2>3, <2>4 DEF Sent, Ended, Later, HandedOver, Solve
<1>3. CASE u = t /\ phase'[t] = phase[t] /\ phase[t] = s
  <2>1. ToSend(s, t, J) <=> status[t][J] = "W"
    BY <1>3 DEF ToSend, NotBegun, Solve
  <2>2. ToSend(s, t, J)' <=> status'[t][J] = "W"
    BY <1>3 DEF ToSend, NotBegun, Solve
  <2>3. status'[t][J] = "W" <=> status[t][J] = "W" /\ ~(Decrement(t) /\ J = cur[t])
    BY <1>0, <1>3, <2>1, <2>2, ToSendStep, CountedFacts
  <2>4. status'[t][J] \in {"W", "F"} /\ status[t][J] \in {"W", "F"}
    BY <1>0, ThreadTypesStep DEF ThreadTypes
  <2>5. /\ pc'[t] = "decrement" => Store(t) /\ cur' = cur
        /\ Store(t) => pc'[t] = "decrement" /\ cur' = cur /\ pc[t] = "store"
        /\ Decrement(t) <=> pc[t] = "decrement"
    <3>1. pc'[t] = "decrement" => Store(t) /\ cur' = cur
      BY <1>0, LabelsFrom
    <3>2. Store(t) => pc'[t] = "decrement" /\ cur' = cur /\ pc[t] = "store"
      BY <1>0 DEF Store, Goto
    <3>3. pc[t] = "decrement" => Decrement(t)
      BY DEF Worker,  Pop, Exhausted, ReturnForward,
       ReturnBackward, ReturnActive, VisitEmpty, PassThrough, VisitFront, UpdateReady,
       UpdateWaits, Apply, Link, Store, Poll, Load, Assemble, Count, Publish, Signal,
       ToDiagonal, DiagonalSolve, DiagonalMove, DiagonalSignal, DiagonalReset, DiagonalEnd,
       ToBackward, ToStore, Copy, CopyEnd
    <3> QED  BY <3>1, <3>2, <3>3 DEF Decrement
  <2>6. ~Ended(s, t) /\ ~Ended(s, t)'
    BY <1>3 DEF Ended, Later, Solve
  <2> QED  BY <1>3, <2>3, <2>4, <2>5, <2>6 DEF Sent, HandedOver
<1>4. CASE u = t /\ phase'[t] = phase[t] /\ phase[t] # s
  BY <1>4 DEF Sent, Ended
<1> QED  BY <1>1, <1>2, <1>3, <1>4

\* Who has sent has nothing to send, but for its decrement of the count.
LEMMA SentToSend ==
  ASSUME CountedInv, NEW s \in Solve, NEW J \in Front, NEW u \in Senders(s, J)
  PROVE  /\ ~ToSend(s, u, J) => Sent(s, u, J)
         /\ Sent(s, u, J) /\ ToSend(s, u, J) => pc[u] = "decrement" /\ cur[u] = J /\ phase[u] = s
<1>1. /\ u \in Thread /\ status[u][J] \in {"W", "F"} /\ phase[u] \in Phase
  BY SenderFacts, CountedFacts, TypedFacts
<1> QED  BY <1>1 DEF ToSend, Sent, Ended, Later, NotBegun, HandedOver, Solve, Phase

\* A thread is done with a front only after its own contributions to it.
LEMMA AllMadeStep ==
  ASSUME CountedInv, NEW t \in Thread, Worker(t), AllMade(t)
  PROVE  AllMade(t)'
<1>0. /\ Typed /\ HandOf(t) /\ HandInv
      /\ status \in [Thread -> [Front -> {"W", "F"}]] /\ cur \in [Thread -> Front]
      /\ heads \in [Thread -> [Front -> SUBSET Nonempty]] /\ pc \in [Thread -> Labels]
      /\ phase \in [Thread -> Phase]
  BY CountedFacts, TypedFacts
<1>1. SUFFICES ASSUME phase'[t] \in Solve, NEW J \in Front,
                      \/ status'[t][J] = "F"
                      \/ pc'[t] \in SendLabels \cup SolvedLabels /\ cur'[t] = J
               PROVE  heads'[t][J] = {}
  BY DEF AllMade
<1>2. CASE ToBackward(t)
  <2>1. /\ heads'[t][J] = OwnSources("backward", t, J) /\ pc'[t] = "pop"
        /\ status'[t][J] = IF J \in OnPath["backward"][t] THEN "W" ELSE "F"
    BY <1>0, <1>2 DEF ToBackward, Goto
  <2>2. J \notin OnPath["backward"][t]
    BY <1>1, <2>1 DEF SendLabels, SolvedLabels
  <2>3. J \notin StartOfPath("backward", t)
    BY <2>2 DEF OnPath, Solve
  <2> QED  BY <2>1, <2>3 DEF StartOfPath
<1>3. CASE ~ToBackward(t)
  <2>1. phase'[t] = phase[t]
    BY <1>0, <1>1, <1>3, PhaseStep DEF Solve
  <2>2. CASE pc'[t] \in SendLabels /\ cur'[t] = J
    <3>1. SendsOnce(t, J)'
      BY <1>0, SendsOnceStep, CountedFacts
    <3> QED  BY <2>2, <3>1 DEF SendsOnce
  <2>3. CASE pc'[t] \in SolvedLabels /\ cur'[t] = J
    <3>1. heads' = heads /\ cur' = cur /\ (pc[t] \in SolvedLabels \/ Waiting(t) = {})
      BY <1>0, <2>3, LabelsFrom
    <3> QED  BY <1>1, <2>1, <2>3, <3>1 DEF AllMade, Waiting
  <2>4. CASE status'[t][J] = "F" /\ status[t][J] = "F"
    <3>1. heads[t][J] = {}
      BY <1>1, <2>1, <2>4 DEF AllMade
    <3>2. CASE UpdateWaits(t)
      <4>1. PICK I \in todo[t] : heads' = [heads EXCEPT ![t][cur[t]] = @ \cup {I}]
        BY <3>2 DEF UpdateWaits
      <4>2. status[t][cur[t]] = "W"
        BY <1>0, <3>2 DEF UpdateWaits, HandOf, VisitOf, VisitLabels
      <4> QED  BY <1>0, <2>4, <3>1, <4>1, <4>2
    <3>3. CASE VisitFront(t)
      <4>1. heads' = [heads EXCEPT ![t][cur[t]] = {}]
        BY <3>3 DEF VisitFront
      <4> QED  BY <1>0, <3>1, <4>1
    <3> QED  BY <1>3, <3>1, <3>2, <3>3, WhoChanges
  <2>5. CASE status'[t][J] = "F" /\ status[t][J] # "F"
    <3>1. VisitEmpty(t) \/ PassThrough(t) \/ Decrement(t) \/ Signal(t)
      BY <1>3, <2>5, WhoElse
    <3>2. J = cur[t] /\ heads' = heads
      <4>1. status' = [status EXCEPT ![t][cur[t]] = "F"] /\ heads' = heads
        BY <3>1 DEF VisitEmpty, PassThrough, Decrement, Signal, gatherVars
      <4> QED  BY <1>0, <2>5, <4>1
    <3>3. CASE VisitEmpty(t)
      <4>1. OwnSources(phase[t], t, J) = {}
        BY <3>2, <3>3, SolveAssumption DEF VisitEmpty, OwnSources, Sources, Updaters
      <4>2. InHand(t, J) \subseteq OwnSources(phase[t], t, J)
        BY <1>0, <1>1, <2>1 DEF HandOf, InHandOnce
      <4> QED  BY <3>2, <4>1, <4>2 DEF InHand
    <3>4. CASE PassThrough(t)
      BY <3>2, <3>4 DEF PassThrough, Waiting
    <3>5. CASE Decrement(t) \/ Signal(t)
      BY <1>1, <2>1, <3>2, <3>5 DEF Decrement, Signal, AllMade, SendLabels, SolvedLabels
    <3> QED  BY <3>1, <3>3, <3>4, <3>5
  <2>6. status[t][J] \in {"W", "F"}
    BY <1>0
  <2> QED  BY <1>1, <2>2, <2>3, <2>4, <2>5
<1> QED  BY <1>2, <1>3

\* The contributions a thread still has to add: only Apply adds one.
LEMMA WaitsStep ==
  ASSUME CountedInv, NEW t \in Thread, Worker(t), AllMade(t), NEW u \in Thread,
         NEW s \in Solve, NEW J \in Front
  PROVE  Waits(s, u, J)' = IF u = t /\ Apply(t) /\ phase[t] = s /\ cur[t] = J
                           THEN Waits(s, u, J) \ {src[t]} ELSE Waits(s, u, J)
<1>0. /\ Typed /\ HandOf(t) /\ HandInv /\ DequeInv
      /\ status \in [Thread -> [Front -> {"W", "F"}]]
      /\ phase \in [Thread -> Phase] /\ pc \in [Thread -> Labels]
  BY CountedFacts, TypedFacts
<1>1. CASE u # t
  <2>1. InHand(u, J)' = InHand(u, J) /\ phase'[u] = phase[u]
    BY <1>0, <1>1, InHandOther, OthersPaths DEF SameThread
  <2> QED  BY <1>1, <2>1 DEF Waits, NotBegun
<1>2. CASE u = t /\ phase'[t] = phase[t]
  <2>1. ~ToBackward(t)
    BY <1>0, <1>2, PhaseStep
  <2>2. CASE Apply(t) /\ cur[t] = J
    <3>1. /\ InHand(t, J) = heads[t][J] \cup todo[t] \cup {src[t]}
          /\ src[t] \notin todo[t] \cup heads[t][J]
      BY <1>0, <2>2 DEF Apply, InHand, Gathering, HandOf, InHandOnce
    <3>2. InHand(t, J)' = heads[t][J] \cup todo[t]
      BY <1>0, <2>1, <2>2, InHandStep
    <3>3. phase[t] \in Solve
      BY <1>0, <2>2, TypedFacts, LabelPhase DEF Apply, SolveLabels, VisitLabels
    <3>4. Waits(s, t, J) = IF NotBegun(s, t) THEN OwnSources(s, t, J)
                           ELSE IF phase[t] = s THEN InHand(t, J) ELSE {}
      BY DEF Waits
    <3>5. Waits(s, t, J)' = IF NotBegun(s, t) THEN OwnSources(s, t, J)
                            ELSE IF phase[t] = s THEN InHand(t, J)' ELSE {}
      BY <1>2 DEF Waits, NotBegun
    <3>6. phase[t] = s => ~NotBegun(s, t)
      BY DEF NotBegun
    <3> QED  BY <1>2, <2>2, <3>1, <3>2, <3>4, <3>5, <3>6
  <2>3. CASE ~(Apply(t) /\ cur[t] = J)
    <3>1. InHand(t, J)' = InHand(t, J)
      BY <1>0, <2>1, <2>3, InHandStep
    <3> QED  BY <1>2, <2>3, <3>1 DEF Waits, NotBegun
  <2> QED  BY <2>2, <2>3
<1>3. CASE u = t /\ phase'[t] # phase[t]
  <2>1. /\ ~Apply(t) /\ pc[t] = "barrier"
        /\ \/ ToDiagonal(t) /\ phase[t] = "forward" /\ phase'[t] = "diagonal"
           \/ ToBackward(t) /\ phase[t] = "diagonal" /\ phase'[t] = "backward"
           \/ ToStore(t) /\ phase[t] = "backward" /\ phase'[t] = "store"
    BY <1>0, <1>3, PhaseStep DEF Apply, ToDiagonal, ToBackward, ToStore
  <2>2. phase[t] \in Solve => InHand(t, J) = {}
    <3>1. status[t][J] = "F"
      BY <1>0, <2>1 DEF DequeInv, DequeOf, LoopDone
    <3> QED  BY <2>1, <3>1 DEF AllMade, InHand, Gathering
  <2>3. ToBackward(t) => InHand(t, J)' = OwnSources("backward", t, J)
    BY <1>0, InHandStep
  <2> QED  BY <1>3, <2>1, <2>2, <2>3 DEF Waits, NotBegun, Solve
<1> QED  BY <1>1, <1>2, <1>3

\* A front that is solved stays so.
LEMMA SolvedStep ==
  ASSUME CountedInv, NEW t \in Thread, Worker(t), NEW s \in Solve, NEW J \in Nonempty,
         Solved(s, J)
  PROVE  Solved(s, J)'
<1>0. Typed /\ HandInv /\ owners[J] \in Thread /\ J \in Front
  BY CountedFacts, OwnersFit
<1>1. CASE owners[J] # t
  <2>1. SamePath(owners[J]) /\ SameThread(owners[J])
    BY <1>0, <1>1, OthersPaths
  <2> QED  BY <2>1 DEF SamePath, SameThread, Solved, Ended, Published
<1>2. CASE owners[J] = t /\ phase'[t] = phase[t]
  <2>1. phase[t] = s => (Published(J) => Published(J)')
    BY <1>0, <1>2, PublishedStep
  <2> QED  BY <1>2, <2>1 DEF Solved, Ended
<1>3. CASE owners[J] = t /\ phase'[t] # phase[t]
  BY <1>0, <1>3, PhaseStep DEF Solved, Ended, Later, Solve
<1> QED  BY <1>1, <1>2, <1>3

\* The front a thread is about to read is solved in the thread's solve.
LEMMA ReadIsSolved ==
  ASSUME CountedInv, NEW t \in Thread, pc[t] = "apply"
  PROVE  /\ src[t] \in Nonempty /\ phase[t] \in Solve
         /\ pMtx[src[t]].stage = FinalStage(phase[t])
         /\ pMtx[src[t]] # NoMtx
         /\ Solved(phase[t], src[t])
<1>1. src[t] \in Nonempty /\ phase[t] \in Solve /\ phase \in [Thread -> Phase]
  BY CountedFacts, TypedFacts, LabelPhase DEF WorkFits, WorkOf, SolveLabels, VisitLabels
<1>2. pMtx[src[t]].stage = FinalStage(phase[t])
  BY <1>1, CountedFacts DEF Typed, ReadInv, PublishInv, ReadersSeeFinished, FinalStage
<1> PICK I \in Nonempty : I = src[t]
  BY <1>1
<1>3. pMtx[I] # NoMtx
  BY <1>2 DEF FinalStage, NoMtx
<1>4. OwnedMatrix(I) /\ owners[I] \in Thread
  BY CountedFacts, OwnersFit DEF MatrixLife
<1>5. StageOf(I) = FinalStage(phase[t])
  BY <1>2, <1>3, <1>4 DEF OwnedMatrix
<1>6. phase[owners[I]] \in Phase
  BY <1>1, <1>4
<1>7. Solved(phase[t], I)
  BY <1>1, <1>5, <1>6 DEF StageOf, FinalStage, Solved, Ended, Later, Solve, Phase
<1> QED  BY <1>1, <1>2, <1>3, <1>7

\* A solution in use is solved.
LEMMA UsedIsSolvedStep ==
  ASSUME CountedInv, NEW t \in Thread, Worker(t), AllMade(t), UsedIsSolved
  PROVE  UsedIsSolved'
<1>1. SUFFICES ASSUME NEW s \in Solve, NEW J \in Front, NEW I \in Sources(s, J),
                      I \notin Waits(s, BlockOwner(s, J, I), J)'
               PROVE  Solved(s, I)'
  BY DEF UsedIsSolved
<1> DEFINE u == BlockOwner(s, J, I)
<1>2. I \in Nonempty /\ u \in Thread
  BY TreeAssumption, SolveAssumption DEF Sources, Updaters, BlockOwner, Nonempty
<1> HIDE DEF u
<1>3. Waits(s, u, J)' = IF u = t /\ Apply(t) /\ phase[t] = s /\ cur[t] = J
                        THEN Waits(s, u, J) \ {src[t]} ELSE Waits(s, u, J)
  BY <1>2, WaitsStep
<1>4. CASE I \notin Waits(s, u, J)
  <2>1. Solved(s, I)
    BY <1>4 DEF UsedIsSolved, u
  <2> QED  BY <1>2, <2>1, SolvedStep
<1>5. CASE I \in Waits(s, u, J)
  <2>1. Apply(t) /\ phase[t] = s /\ I = src[t]
    BY <1>1, <1>3, <1>5 DEF u
  <2>2. Solved(s, I)
    BY <2>1, ReadIsSolved DEF Apply
  <2> QED  BY <1>2, <2>2, SolvedStep
<1> QED  BY <1>4, <1>5

-----------------------------------------------------------------------------
(* What is in a list                                                       *)

\* The invariants of this section.
ListInv ==
  /\ CountedInv
  /\ \A t \in Thread : AllMade(t) /\ Loads(t) /\ TakeExclusive(t) /\ NothingToCome(t)
  /\ \A s \in Solve : \A J \in Front : ListedOf(s, J)
  /\ \A J \in Nonempty : \A t \in Thread \ {owners[J]} : AggregateOf(t, J)

\* What a thread is about to put into a list.
LEMMA SumFacts ==
  ASSUME ListInv, NEW t \in Thread, pc[t] \in SendLabels
  PROVE  /\ phase[t] \in Solve /\ cur[t] \in Front /\ t \in Senders(phase[t], cur[t])
         /\ pAgg[t][cur[t]].upd =
              From(OwnSources(phase[t], t, cur[t]), FinalStage(phase[t]))
         /\ ToSend(phase[t], t, cur[t])
         /\ pc[t] # "decrement" => ~Sent(phase[t], t, cur[t])
<1>1. Typed /\ HandInv /\ CountedInv
  BY CountedFacts DEF ListInv
<1>2. /\ phase[t] \in Solve /\ cur[t] \in Front /\ t \in Senders(phase[t], cur[t])
      /\ status[t][cur[t]] = "W" /\ ToSend(phase[t], t, cur[t])
  BY <1>1, SendingFacts
<1>3. cur[t] \in Nonempty /\ owners[cur[t]] # t
  BY <1>2, SenderFacts
<1>4. heads[t][cur[t]] = {}
  BY <1>2 DEF ListInv, AllMade
<1>5. InHand(t, cur[t]) = {}
  BY <1>4 DEF InHand, Gathering, SendLabels
<1>6. AggregateOf(t, cur[t])
  BY <1>3 DEF ListInv
<1>7. pAgg[t][cur[t]].upd = From(OwnSources(phase[t], t, cur[t]) \ {}, FinalStage(phase[t]))
  BY <1>2, <1>5, <1>6 DEF AggregateOf
<1>8. OwnSources(phase[t], t, cur[t]) \ {} = OwnSources(phase[t], t, cur[t])
  OBVIOUS
<1>9. pc[t] # "decrement" => ~Sent(phase[t], t, cur[t])
  BY <1>1, <1>2, SentToSend
<1> QED  BY <1>2, <1>7, <1>8, <1>9

\* A thread that takes a list takes that of its own front.
LEMMA TakingFacts ==
  ASSUME ListInv, NEW t \in Thread, pc[t] \in {"load1", "load2", "clear1", "clear2"}
  PROVE  owners[cur[t]] = t /\ phase[t] \in Solve /\ cur[t] \in Nonempty
<1>1. Typed /\ HandInv /\ pc[t] \in VisitLabels
  BY CountedFacts DEF ListInv, VisitLabels
<1>2. Owned(t)
  BY <1>1 DEF HandInv, HandOf, VisitOf, OwnedLabels, CountedLabels
<1> QED  BY <1>1, <1>2, TypedFacts, LabelPhase DEF Owned, WorkFits, WorkOf, SolveLabels

\* Nobody else changes a list between the load and the store of a thread that
\* adds to it.
LEMMA ListAlone ==
  ASSUME ListInv, NEW t \in Thread, pc[t] = "store", NEW u \in Thread, u # t,
         phase[u] = phase[t], cur[u] = cur[t]
  PROVE  pc[u] \notin {"store", "decrement", "clear1", "clear2"}
<1>0. Typed /\ HandInv /\ CountedInv /\ Exclusive(t) /\ Exclusive(u)
  BY CountedFacts DEF ListInv
<1>1. /\ phase[t] \in Solve /\ cur[t] \in Front /\ t \in Senders(phase[t], cur[t])
      /\ ToSend(phase[t], t, cur[t]) /\ ~Sent(phase[t], t, cur[t])
  BY SumFacts DEF SendLabels
<1> PICK s \in Solve : s = phase[t]
  BY <1>1
<1> PICK J \in Front : J = cur[t]
  BY <1>1
<1>2. SolveFlags(s)[J] = "Y" => InLock(s) = t
  BY <1>0 DEF Exclusive
<1>3. pc[u] \notin {"store", "decrement"}
  <2> SUFFICES ASSUME pc[u] \in {"store", "decrement"} PROVE FALSE
    OBVIOUS
  <2>1. u \in Senders(s, J)
    BY SumFacts DEF SendLabels
  <2>2. SolveFlags(s)[J] = "Y" => InLock(s) = u
    BY <1>0 DEF Exclusive
  <2> QED  BY <1>1, <1>2, <2>1, <2>2, OneSender
<1>4. pc[u] \notin {"clear1", "clear2"}
  <2> SUFFICES ASSUME pc[u] \in {"clear1", "clear2"} PROVE FALSE
    OBVIOUS
  <2>1. InList(s)[J] # {}
    BY DEF ListInv, Loads
  <2>2. PICK c \in InList(s)[J] : c.from \in Senders(s, J) /\ Sent(s, c.from, J)
    BY <2>1 DEF ListInv, ListedOf
  <2>3. SolveFlags(s)[J] = "Y"
    BY <1>1, <2>2, OneSender
  <2>4. InLock(s) = u
    BY <1>1, <2>3 DEF ListInv, TakeExclusive
  <2> QED  BY <1>2, <2>3, <2>4
<1> QED  BY <1>3, <1>4

\* A step adds the thread's aggregate to a list, or empties it, or leaves it
\* alone.
LEMMA ListStep ==
  ASSUME ListInv, NEW t \in Thread, Worker(t), NEW s \in Solve, NEW J \in Front
  PROVE  /\ Store(t) /\ s = phase[t] /\ J = cur[t] =>
              InList(s)'[J] = InList(s)[J] \cup {Sum(t)} /\ pc[t] = "store"
         /\ Assemble(t) /\ s = phase[t] /\ J = cur[t] =>
              /\ InList(s)'[J] = {} /\ owners[J] = t
              /\ reg[t] = InList(s)[J] /\ pc[t] \in {"clear1", "clear2"}
         /\ ~(Store(t) \/ Assemble(t)) \/ s # phase[t] \/ J # cur[t] =>
              InList(s)'[J] = InList(s)[J]
<1>0. InList(s) \in [Front -> SUBSET Aggregate] /\ cur[t] \in Front /\ Loads(t)
  BY CountedFacts, TypedFacts DEF ListInv, ListTypes
<1>1. CASE Store(t)
  <2>1. /\ pc[t] = "store"
        /\ InList(s)' = IF s = phase[t] THEN [InList(s) EXCEPT ![cur[t]] = reg[t] \cup {Sum(t)}]
                        ELSE InList(s)
    BY <1>1, ListEffect DEF StoreDoes, Store
  <2>2. s = phase[t] => reg[t] = InList(s)[cur[t]]
    BY <1>0, <2>1 DEF Loads
  <2>3. ~Assemble(t)
    BY <2>1 DEF Assemble
  <2> QED  BY <1>0, <1>1, <2>1, <2>2, <2>3
<1>2. CASE Assemble(t)
  <2>1. /\ pc[t] \in {"clear1", "clear2"}
        /\ InList(s)' = IF s = phase[t] THEN [InList(s) EXCEPT ![cur[t]] = {}] ELSE InList(s)
    BY <1>2, ListEffect DEF ClearDoes, Assemble
  <2>2. s = phase[t] => reg[t] = InList(s)[cur[t]]
    BY <1>0, <2>1 DEF Loads
  <2>3. ~Store(t) /\ owners[cur[t]] = t
    BY <2>1, TakingFacts DEF Store
  <2> QED  BY <1>0, <1>2, <2>1, <2>2, <2>3
<1>3. CASE ~(Store(t) \/ Assemble(t))
  <2>1. InList(s)' = InList(s)
    BY <1>3, ListEffect DEF LinkDoes, DecrementDoes, LoadDoes, ListsStay
  <2> QED  BY <1>3, <2>1
<1> QED  BY <1>1, <1>2, <1>3

\* A list is left alone by a step of another thread than the owner, when
\* nobody has anything to send.
LEMMA ListStays ==
  ASSUME ListInv, NEW t \in Thread, Worker(t), NEW s \in Solve, NEW J \in Front,
         AllSent(s, J), InList(s)[J] = {}
  PROVE  InList(s)'[J] = {} /\ AllSent(s, J)'
<1>1. AllSent(s, J)'
  <2>1. \A u \in Senders(s, J) : ToSend(s, u, J)' => ToSend(s, u, J)
    BY ToSendStep, CountedFacts DEF ListInv
  <2> QED  BY <2>1 DEF AllSent
<1>2. ~(Store(t) /\ s = phase[t] /\ J = cur[t])
  <2> SUFFICES ASSUME Store(t), s = phase[t], J = cur[t] PROVE FALSE
    OBVIOUS
  <2>1. t \in Senders(s, J) /\ ToSend(s, t, J)
    BY SumFacts DEF Store, SendLabels
  <2> QED  BY <2>1 DEF AllSent
<1> QED  BY <1>1, <1>2, ListStep

\* What is in a list was sent and not yet assembled.
LEMMA ListedStep ==
  ASSUME ListInv, NEW t \in Thread, Worker(t), NEW s \in Solve, NEW J \in Front
  PROVE  ListedOf(s, J)'
<1>0. ListedOf(s, J) /\ CountedInv
  BY DEF ListInv
<1>1. \A u \in Senders(s, J) : Sent(s, u, J) => Sent(s, u, J)'
  BY <1>0, SentStep
<1>2. SUFFICES ASSUME NEW c \in InList(s)'[J]
               PROVE  /\ c.from \in Senders(s, J) /\ Sent(s, c.from, J)'
                      /\ c.cols = From(OwnSources(s, c.from, J), FinalStage(s))
  BY DEF ListedOf
<1>3. CASE c \in InList(s)[J]
  BY <1>0, <1>1, <1>3 DEF ListedOf
<1>4. CASE c \notin InList(s)[J]
  <2>1. Store(t) /\ s = phase[t] /\ J = cur[t] /\ c = Sum(t)
    BY <1>4, ListStep
  <2>2. /\ t \in Senders(s, J)
        /\ pAgg[t][J].upd = From(OwnSources(s, t, J), FinalStage(s))
    BY <2>1, SumFacts DEF Store, SendLabels
  <2>3. Sent(s, t, J)'
    BY <1>0, <2>1, <2>2, SentStep
  <2>4. c.from = t /\ c.cols = pAgg[t][J].upd
    BY <2>1 DEF Sum
  <2> QED  BY <2>2, <2>3, <2>4
<1> QED  BY <1>3, <1>4

\* What a thread has read of a list is still in it when it writes.
LEMMA LoadsStep ==
  ASSUME ListInv, NEW t \in Thread, Worker(t), NEW u \in Thread
  PROVE  Loads(u)'
<1>0. /\ CountedInv /\ Typed /\ reg \in [Thread -> SUBSET Aggregate] /\ Loads(u)
      /\ cur \in [Thread -> Front] /\ pc \in [Thread -> Labels]
  BY CountedFacts, TypedFacts DEF ListInv, ListTypes
<1> DEFINE Uses == {"store", "clear1", "clear2", "load1", "load2"}
<1>1. SUFFICES ASSUME pc'[u] \in Uses
               PROVE  /\ pc'[u] = "store" => reg'[u] = InList(phase[u])'[cur'[u]]
                      /\ pc'[u] \in {"clear1", "clear2"} =>
                           reg'[u] = InList(phase[u])'[cur'[u]] /\ reg'[u] # {}
                      /\ pc'[u] \in {"load1", "load2"} => InList(phase[u])'[cur'[u]] # {}
  BY DEF Loads
<1>2. CASE u # t
  <2>1. pc'[u] = pc[u] /\ cur'[u] = cur[u] /\ phase'[u] = phase[u]
    BY <1>0, <1>2, OthersPaths DEF SameThread
  <2>2. reg'[u] = reg[u]
    BY <1>0, <1>2, ListEffect DEF LinkDoes, StoreDoes, DecrementDoes, LoadDoes, ClearDoes, ListsStay
  <2>3. phase[u] \in Solve
    BY <1>0, <1>1, <2>1, LabelPhase, TypedFacts DEF SolveLabels, VisitLabels
  <2> PICK s \in Solve : s = phase[u]
    BY <2>3
  <2> PICK J \in Front : J = cur[u]
    BY <1>0
  <2>4. /\ InList(phase[u])'[cur'[u]] = InList(s)'[J]
        /\ InList(phase[u])[cur[u]] = InList(s)[J]
    BY <2>1 DEF InList
  <2>5. CASE pc[u] \in {"store", "clear1", "clear2"}
    <3>1. ASSUME Store(t), s = phase[t], J = cur[t] PROVE FALSE
      <4>1. pc[t] = "store"
        BY <3>1 DEF Store
      <4> QED  BY <1>2, <2>5, <3>1, <4>1, ListAlone
    <3>2. ASSUME Assemble(t), s = phase[t], J = cur[t] PROVE FALSE
      <4>1. pc[t] \in {"clear1", "clear2"} /\ owners[J] = t
        BY <3>2, ListStep
      <4>2. pc[u] # "store"
        BY <1>2, <3>2, <4>1, ListAlone
      <4>3. owners[J] = u
        BY <2>5, <4>2, TakingFacts
      <4> QED  BY <1>2, <4>1, <4>3
    <3>3. InList(s)'[J] = InList(s)[J]
      BY <3>1, <3>2, ListStep
    <3> QED  BY <1>0, <2>1, <2>2, <2>4, <2>5, <3>3 DEF Loads
  <2>6. CASE pc[u] \in {"load1", "load2"}
    <3>1. InList(s)[J] # {} /\ owners[J] = u
      BY <1>0, <2>4, <2>6, TakingFacts DEF Loads
    <3>2. InList(s)'[J] # {}
      BY <1>2, <3>1, ListStep
    <3> QED  BY <2>1, <2>4, <2>6, <3>2
  <2> QED  BY <1>1, <2>1, <2>5, <2>6
<1>3. CASE u = t
  <2>0. /\ Link(t) \/ Load(t) \/ (Poll(t) /\ InList(phase[t])[cur[t]] # {} /\ pc'[t] \in {"load1", "load2"})
        /\ pc'[t] = "store" => Link(t)
        /\ pc'[t] \in {"clear1", "clear2"} => Load(t)
        /\ cur' = cur /\ phase' = phase
    BY <1>0, <1>1, <1>3, LabelsFrom
  <2>1. phase[t] \in Solve
    BY <1>0, <2>0, LabelPhase, TypedFacts DEF SolveLabels, VisitLabels, Link, Load, Poll
  <2> PICK s \in Solve : s = phase[t]
    BY <2>1
  <2> PICK J \in Front : J = cur[t]
    BY <1>0
  <2>4. /\ InList(phase[t])'[cur'[t]] = InList(s)'[J]
        /\ InList(phase[t])[cur[t]] = InList(s)[J]
    BY <2>0 DEF InList
  <2>5. CASE Link(t)
    <3>1. pc'[t] = "store" /\ InList(s)' = InList(s) /\ reg' = [reg EXCEPT ![t] = InList(s)[J]]
      BY <1>0, <2>5, ListEffect DEF Link, LinkDoes, Goto
    <3> QED  BY <1>0, <1>3, <2>4, <3>1
  <2>6. CASE Load(t)
    <3>1. /\ pc'[t] \in {"clear1", "clear2"} /\ InList(s)' = InList(s)
          /\ reg' = [reg EXCEPT ![t] = InList(s)[J]] /\ InList(s)[J] # {}
      BY <1>0, <2>6, ListEffect DEF Load, LoadDoes, Goto
    <3> QED  BY <1>0, <1>3, <2>4, <3>1
  <2>7. CASE Poll(t) /\ pc'[t] \in {"load1", "load2"} /\ InList(s)[J] # {}
    <3>1. InList(s)' = InList(s)
      BY <2>7, ListEffect DEF Poll, Link, Store, Decrement, Load, Assemble, ListsStay
    <3> QED  BY <1>3, <2>4, <2>7, <3>1
  <2> QED  BY <2>0, <2>4, <2>5, <2>6, <2>7
<1> QED  BY <1>2, <1>3

\* The mutex of a thread is released by that thread only.
LEMMA LockStep ==
  ASSUME NEW t \in Thread, Worker(t), NEW u \in Thread, u # t, NEW s \in Solve, InLock(s) = u
  PROVE  InLock(s)' = u
<1>1. \/ InLock(s)' = InLock(s)
      \/ InLock(s)' = t /\ InLock(s) = -1
      \/ InLock(s)' = -1 /\ InLock(s) = t
  BY ListEffect DEF LinkDoes, StoreDoes, DecrementDoes, LoadDoes, ClearDoes, ListsStay
<1>2. u # -1
  BY TreeAssumption DEF Thread
<1> QED  BY <1>1, <1>2

\* Nobody changes a list while its owner takes it.
LEMMA TakeExclusiveStep ==
  ASSUME ListInv, NEW t \in Thread, Worker(t), NEW u \in Thread
  PROVE  TakeExclusive(u)'
<1>0. /\ CountedInv /\ Typed /\ TakeExclusive(u)
      /\ cur \in [Thread -> Front] /\ pc \in [Thread -> Labels]
  BY CountedFacts, TypedFacts DEF ListInv
<1>1. SUFFICES ASSUME pc'[u] \in {"clear1", "clear2"},
                      SolveFlags(phase'[u])[cur'[u]] = "Y",
                      NEW v \in Senders(phase'[u], cur'[u]), ToSend(phase[u], v, cur[u])'
               PROVE  InLock(phase[u])' = u
  BY DEF TakeExclusive
<1>2. /\ cur'[u] = cur[u] /\ phase'[u] = phase[u] /\ phase[u] \in Solve
      /\ u # t => pc'[u] = pc[u]
      /\ u = t => Load(t)
  <2>1. CASE u # t
    <3>1. pc'[u] = pc[u] /\ cur'[u] = cur[u] /\ phase'[u] = phase[u]
      BY <1>0, <2>1, OthersPaths DEF SameThread
    <3> QED  BY <1>1, <2>1, <3>1, TakingFacts
  <2>2. CASE u = t
    <3>1. Load(t) /\ cur' = cur /\ phase' = phase
      BY <1>0, <1>1, <2>2, LabelsFrom
    <3> QED  BY <2>2, <3>1, TakingFacts DEF Load
  <2> QED  BY <2>1, <2>2
<1> PICK s \in Solve : s = phase[u]
  BY <1>2
<1> PICK J \in Front : J = cur[u]
  BY <1>0
<1>3. /\ SolveFlags(s)[J] = "Y" /\ v \in Senders(s, J) /\ ToSend(s, v, J)'
      /\ InLock(phase[u])' = InLock(s)'
  BY <1>1, <1>2 DEF ToSend, NotBegun, InLock
<1>4. ToSend(s, v, J)
  BY <1>0, <1>3, ToSendStep, CountedFacts
<1>5. CASE u # t
  <2>1. InLock(s) = u
    BY <1>0, <1>1, <1>2, <1>3, <1>4, <1>5 DEF TakeExclusive
  <2> QED  BY <1>3, <1>5, <2>1, LockStep
<1>6. CASE u = t
  <2> DEFINE Due == {w \in Senders(s, J) : ToSend(s, w, J)}
  <2>1. InCounts(s)[J] = Cardinality(Due)
    BY <1>0, CountedFacts DEF CountsOf
  <2>2. v \in Due
    BY <1>3, <1>4
  <2>3. IsFiniteSet(Due)
    <3>1. Due \in SUBSET Senders(s, J)
      OBVIOUS
    <3> QED  BY <3>1, SenderFacts, FS_Subset
  <2> HIDE DEF Due
  <2>4. InCounts(s)[J] # 0
    BY <2>1, <2>2, <2>3, FS_EmptySet
  <2> QED  BY <1>2, <1>3, <1>6, <2>4, ListEffect DEF LoadDoes
<1> QED  BY <1>5, <1>6

\* After a count of 0 nothing more is sent, and after a further look at the
\* list nothing is left in it.
LEMMA NothingToComeStep ==
  ASSUME ListInv, NEW t \in Thread, Worker(t), NEW u \in Thread
  PROVE  NothingToCome(u)'
<1>0. /\ CountedInv /\ Typed /\ HandInv /\ NothingToCome(u)
      /\ cur \in [Thread -> Front] /\ pc \in [Thread -> Labels]
  BY CountedFacts, TypedFacts DEF ListInv
<1>1. SUFFICES ASSUME pc'[u] \in CountedLabels \cup SolvedLabels
               PROVE  /\ AllSent(phase[u], cur[u])'
                      /\ pc'[u] \in SolvedLabels => InList(phase[u])'[cur'[u]] = {}
  BY DEF NothingToCome
<1>2. /\ cur'[u] = cur[u] /\ phase'[u] = phase[u]
      /\ pc'[u] = pc[u] \/ u = t
  <2>1. CASE u # t
    BY <1>0, <2>1, OthersPaths DEF SameThread
  <2>2. CASE u = t
    BY <1>0, <1>1, <2>2, LabelsFrom
  <2> QED  BY <2>1, <2>2
<1>3. phase[u] \in Solve
  <2>1. CASE u # t
    BY <1>0, <1>1, <1>2, <2>1, LabelPhase, TypedFacts
       DEF SolveLabels, VisitLabels, CountedLabels, SolvedLabels
  <2>2. CASE u = t
    <3>1. pc[t] \in CountedLabels \cup SolvedLabels \cup {"count"}
      BY <1>0, <1>1, <2>2, LabelsFrom DEF Count
    <3> QED  BY <1>0, <2>2, <3>1, LabelPhase, TypedFacts
             DEF SolveLabels, VisitLabels, CountedLabels, SolvedLabels
  <2> QED  BY <2>1, <2>2
<1> PICK s \in Solve : s = phase[u]
  BY <1>3
<1> PICK J \in Front : J = cur[u]
  BY <1>0
<1>4. SUFFICES /\ AllSent(s, J)'
               /\ pc'[u] \in SolvedLabels => InList(s)'[J] = {}
  BY <1>2 DEF InList, AllSent, ToSend, NotBegun
<1>5. AllSent(s, J)
  <2>1. CASE pc[u] \in CountedLabels \cup SolvedLabels
    BY <1>0, <2>1 DEF NothingToCome
  <2>2. CASE pc[u] \notin CountedLabels \cup SolvedLabels
    <3>1. u = t /\ InCounts(s)[J] = 0
      BY <1>0, <1>1, <1>2, <2>2, LabelsFrom
    <3> DEFINE Due == {w \in Senders(s, J) : ToSend(s, w, J)}
    <3>2. Cardinality(Due) = 0
      BY <1>0, <3>1, CountedFacts DEF CountsOf
    <3>3. IsFiniteSet(Due)
      <4>1. Due \in SUBSET Senders(s, J)
        OBVIOUS
      <4> QED  BY <4>1, SenderFacts, FS_Subset
    <3>4. Due = {}
      BY <3>2, <3>3, FS_EmptySet
    <3> QED  BY <3>4 DEF AllSent
  <2> QED  BY <2>1, <2>2
<1>6. AllSent(s, J)'
  <2>1. \A w \in Senders(s, J) : ToSend(s, w, J)' => ToSend(s, w, J)
    BY <1>0, ToSendStep, CountedFacts
  <2> QED  BY <1>5, <2>1 DEF AllSent
<1>7. ASSUME pc'[u] \in SolvedLabels PROVE InList(s)'[J] = {}
  <2>1. CASE pc[u] \in SolvedLabels
    <3>1. InList(s)[J] = {}
      BY <1>0, <2>1 DEF NothingToCome
    <3> QED  BY <1>5, <3>1, ListStays
  <2>2. CASE pc[u] \notin SolvedLabels
    <3>1. u = t /\ (Assemble(t) \/ InList(s)[J] = {})
      BY <1>0, <1>2, <1>7, <2>2, LabelsFrom
    <3> QED  BY <1>5, <3>1, ListStays, ListStep
  <2> QED  BY <2>1, <2>2
<1> QED  BY <1>6, <1>7

-----------------------------------------------------------------------------
(* What is in a sum                                                        *)

\* In the loop of a solve only these actions touch the aggregate or the
\* status of a front, and only of the one the thread visits.
LEMMA VisitActions ==
  ASSUME CountedInv, NEW t \in Thread, Worker(t), phase[t] \in Solve, phase'[t] = phase[t],
         NEW J \in Nonempty
  PROVE  /\ J # cur[t] => pAgg'[t][J] = pAgg[t][J] /\ status'[t][J] = status[t][J]
         /\ ~(Apply(t) /\ cur[t] = J) => InHand(t, J)' = InHand(t, J)
         /\ ~(Apply(t) \/ Assemble(t) \/ Decrement(t) \/ Publish(t)) =>
              pAgg'[t][J].upd = pAgg[t][J].upd
         /\ ~(PassThrough(t) \/ Decrement(t) \/ Signal(t)) => status'[t][J] = status[t][J]
<1>0. /\ Typed /\ MtxTypes /\ status \in [Thread -> [Front -> {"W", "F"}]]
      /\ cur \in [Thread -> Front] /\ J \in Front
  BY CountedFacts, TypedFacts DEF Nonempty
<1>1. /\ ~ToBackward(t) /\ pc[t] \in SolveLabels \cup {"barrier"} /\ ~DiagonalMove(t)
  <2>1. ~ToBackward(t)
    BY <1>0, PhaseStep
  <2>2. pc[t] \in SolveLabels \cup {"barrier"}
    BY <1>0, TypedFacts DEF BarrierInv, LabelsFit
  <2> QED  BY <2>1, <2>2 DEF DiagonalMove, SolveLabels, VisitLabels
<1>2. J # cur[t] => pAgg'[t][J] = pAgg[t][J]
  BY <1>0, AggEffect
<1>3. ~(PassThrough(t) \/ Decrement(t) \/ Signal(t)) => status'[t][J] = status[t][J]
  BY <1>0, <1>1, WhoElse DEF VisitEmpty, Nonempty
<1>4. J # cur[t] => status'[t][J] = status[t][J]
  BY <1>0, <1>3 DEF PassThrough, Decrement, Signal
<1>5. ~(Apply(t) /\ cur[t] = J) => InHand(t, J)' = InHand(t, J)
  BY <1>0, <1>1, InHandStep
<1>6. ASSUME ~(Apply(t) \/ Assemble(t) \/ Decrement(t) \/ Publish(t))
      PROVE  pAgg'[t][J].upd = pAgg[t][J].upd
  <2>1. CASE VisitFront(t)
    <3>1. J = cur[t] => pAgg'[t][J].upd = pAgg[t][J].upd
      BY <1>0, <2>1, StageKept, MtxNamed
    <3> QED  BY <1>2, <3>1
  <2>2. CASE ~VisitFront(t)
    <3>1. NewAgg(t)
      BY <1>0, AggEffect
    <3> QED  BY <1>1, <1>6, <2>2, <3>1, Zenon DEF NewAgg
  <2> QED  BY <2>1, <2>2
<1> QED  BY <1>2, <1>3, <1>4, <1>5, <1>6

\* A contribution that is added leaves the thread's hand.
LEMMA ApplyAdds ==
  ASSUME CountedInv, NEW t \in Thread, Apply(t), Worker(t), NEW J \in Front, J = cur[t]
  PROVE  /\ phase'[t] = phase[t] /\ phase[t] \in Solve
         /\ status'[t] = status[t] /\ status[t][J] = "W"
         /\ src[t] \in OwnSources(phase[t], t, J) /\ src[t] \in InHand(t, J)
         /\ pAgg'[t][J].upd = pAgg[t][J].upd \cup {<<src[t], FinalStage(phase[t])>>}
         /\ InHand(t, J)' = InHand(t, J) \ {src[t]}
<1>0. /\ Typed /\ HandOf(t) /\ MatricesFit /\ pc[t] = "apply" /\ cur[t] = J
  BY CountedFacts, TypedFacts DEF Apply
<1>1. phase[t] \in Solve /\ pMtx[src[t]].stage = FinalStage(phase[t]) /\ pMtx[src[t]] # NoMtx
  BY <1>0, ReadIsSolved
<1>2. phase' = phase /\ status' = status /\ ~ToBackward(t)
  BY <1>0 DEF Apply, pathVars, ToBackward
<1>3. status[t][J] = "W"
  BY <1>0 DEF HandOf, VisitOf, VisitLabels
<1>4. InHand(t, J) = heads[t][J] \cup (todo[t] \cup {src[t]})
  BY <1>0 DEF InHand, Gathering
<1>5. src[t] \notin todo[t] \cup heads[t][J]
  BY <1>0 DEF HandOf, InHandOnce
<1>6. InHand(t, J)' = heads[t][J] \cup todo[t]
  BY <1>0, <1>2, InHandStep
<1>7. InHand(t, J)' = InHand(t, J) \ {src[t]}
  BY <1>4, <1>5, <1>6
<1>8. src[t] \in OwnSources(phase[t], t, J)
  BY <1>0, <1>1, <1>4 DEF HandOf, InHandOnce
<1>9. pAgg'[t][J].upd = pAgg[t][J].upd \cup {<<src[t], FinalStage(phase[t])>>}
  <2> DEFINE m == pAgg[t][cur[t]]
             S == m.upd \cup {<<src[t], pMtx[src[t]].stage>>}
  <2>1. NewAgg(t)
    BY <1>0, AggEffect
  <2>2. pAgg'[t][cur[t]] = [m EXCEPT !.upd = S]
    BY <1>1, <2>1, SMT DEF NewAgg
  <2>3. DOMAIN m = MatrixFields
    BY <1>0 DEF MatricesFit
  <2>4. S = m.upd \cup {<<src[t], FinalStage(phase[t])>>}
    BY <1>1
  <2> HIDE DEF m, S
  <2>5. pAgg'[t][cur[t]].upd = S
    BY <2>2, <2>3, MtxUpd
  <2> QED  BY <1>0, <2>4, <2>5 DEF m
<1> QED  BY <1>1, <1>2, <1>3, <1>4, <1>7, <1>8, <1>9

\* The sum of a thread for a front of another: what it has added to it.
LEMMA AggregateOfStep ==
  ASSUME ListInv, NEW t \in Thread, Worker(t),
         NEW J \in Nonempty, NEW u \in Thread, u # owners[J]
  PROVE  AggregateOf(u, J)'
<1>0. /\ Typed /\ CountedInv /\ HandInv /\ MatrixLife /\ DequeInv /\ AggregateOf(u, J)
      /\ status \in [Thread -> [Front -> {"W", "F"}]]
      /\ cur \in [Thread -> Front] /\ phase \in [Thread -> Phase] /\ J \in Front
  BY CountedFacts, TypedFacts DEF ListInv, Nonempty
<1>1. CASE u # t
  <2>1. /\ SamePath(u) /\ SameThread(u) /\ InHand(u, J)' = InHand(u, J)
    BY <1>0, <1>1, OthersPaths, InHandOther
  <2>2. pAgg'[u] = pAgg[u] /\ status'[u] = status[u] /\ phase'[u] = phase[u]
    BY <2>1 DEF SamePath, SameThread
  <2> QED  BY <1>0, <2>1, <2>2 DEF AggregateOf
<1>2. CASE u = t /\ ToBackward(t)
  <2>1. /\ phase'[t] = "backward" /\ pc[t] = "barrier" /\ phase[t] = "diagonal"
        /\ InHand(t, J)' = OwnSources("backward", t, J)
    BY <1>0, <1>2, InHandStep DEF ToBackward
  <2>2. pAgg[t][J].upd = {}
    <3>1. status[t][J] = "F"
      BY <1>0, <2>1 DEF DequeInv, DequeOf, LoopDone, Solve
    <3>2. Aggregating(t, J)
      BY <1>0, <1>2 DEF MatrixLife
    <3> QED  BY <3>1, <3>2, MtxNamed DEF Aggregating
  <2>3. pAgg'[t][J] = pAgg[t][J]
    BY <1>2 DEF ToBackward
  <2>4. From(OwnSources("backward", t, J) \ OwnSources("backward", t, J), "x") = {}
    BY DEF From
  <2>5. FinalStage("backward") = "x"
    BY DEF FinalStage
  <2> QED  BY <1>2, <2>1, <2>2, <2>3, <2>4, <2>5 DEF AggregateOf
<1>3. CASE u = t /\ ~ToBackward(t) /\ phase'[t] \in Solve
  <2>1. phase'[t] = phase[t]
    BY <1>0, <1>3, PhaseStep DEF Solve
  <2> PICK s \in Solve : s = phase[t]
    BY <1>3, <2>1
  <2>2. /\ pAgg[t][J].upd = IF status[t][J] = "F" THEN {}
                            ELSE From(OwnSources(s, t, J) \ InHand(t, J), FinalStage(s))
    BY <1>0, <1>3 DEF AggregateOf
  <2>3. SUFFICES pAgg'[t][J].upd =
                   IF status'[t][J] = "F" THEN {}
                   ELSE From(OwnSources(s, t, J) \ InHand(t, J)', FinalStage(s))
    BY <1>3, <2>1 DEF AggregateOf
  <2>4. pc[t] \in OwnedLabels /\ cur[t] = J => FALSE
    BY <1>0, <1>3 DEF HandInv, HandOf, VisitOf, Owned
  <2>5. CASE Apply(t) /\ cur[t] = J
    <3>1. /\ status'[t][J] = "W" /\ status[t][J] = "W"
          /\ src[t] \in OwnSources(s, t, J) /\ src[t] \in InHand(t, J)
          /\ pAgg'[t][J].upd = pAgg[t][J].upd \cup {<<src[t], FinalStage(s)>>}
          /\ InHand(t, J)' = InHand(t, J) \ {src[t]}
      BY <1>0, <2>5, ApplyAdds
    <3>2. (OwnSources(s, t, J) \ InHand(t, J)) \cup {src[t]} = OwnSources(s, t, J) \ InHand(t, J)'
      BY <3>1
    <3>3. From(OwnSources(s, t, J) \ InHand(t, J), FinalStage(s)) \cup {<<src[t], FinalStage(s)>>}
            = From((OwnSources(s, t, J) \ InHand(t, J)) \cup {src[t]}, FinalStage(s))
      BY DEF From
    <3> QED  BY <2>2, <3>1, <3>2, <3>3
  <2>6. CASE Decrement(t) /\ cur[t] = J
    <3>1. status' = [status EXCEPT ![t][J] = "F"] /\ NewAgg(t)
      BY <1>0, <2>6, AggEffect DEF Decrement
    <3>2. pAgg'[t][J] = NoMtx
      BY <2>6, <3>1, Zenon DEF NewAgg
    <3>3. status'[t][J] = "F"
      BY <1>0, <3>1
    <3> QED  BY <3>2, <3>3, MtxNamed
  <2>7. CASE PassThrough(t) /\ cur[t] = J
    <3>1. status' = [status EXCEPT ![t][J] = "F"] /\ pc[t] = "visit" /\ heads[t][J] = {}
      BY <2>7 DEF PassThrough, Waiting
    <3>2. status'[t][J] = "F" /\ status[t][J] = "W"
      BY <1>0, <2>7, <3>1 DEF HandInv, HandOf, VisitOf
    <3>3. t \notin Senders(s, J)
      BY <1>0, <3>1, <3>2, CountedFacts DEF SendsOnce, VisitLabels
    <3>4. OwnSources(s, t, J) = {}
      BY <1>3, <3>3 DEF Senders, OwnSources
    <3>5. From(OwnSources(s, t, J) \ InHand(t, J), FinalStage(s)) = {}
      BY <3>4 DEF From
    <3>6. ~(Apply(t) \/ Assemble(t) \/ Decrement(t) \/ Publish(t))
      BY <3>1 DEF Apply, Assemble, Decrement, Publish
    <3>7. pAgg'[t][J].upd = pAgg[t][J].upd
      BY <1>0, <1>3, <2>1, <3>6, VisitActions
    <3> QED  BY <2>2, <3>2, <3>5, <3>7
  <2>8. CASE ~(cur[t] = J /\ (Apply(t) \/ Decrement(t) \/ PassThrough(t)))
    <3>1. ~(cur[t] = J /\ (Assemble(t) \/ Publish(t) \/ Signal(t)))
      BY <2>4 DEF Assemble, Publish, Signal, OwnedLabels, CountedLabels, SolvedLabels
    <3>2. /\ pAgg'[t][J].upd = pAgg[t][J].upd /\ status'[t][J] = status[t][J]
          /\ InHand(t, J)' = InHand(t, J)
      BY <1>0, <1>3, <2>1, <2>8, <3>1, VisitActions
    <3> QED  BY <2>2, <3>2
  <2> QED  BY <2>5, <2>6, <2>7, <2>8
<1> QED  BY <1>1, <1>2, <1>3 DEF AggregateOf

-----------------------------------------------------------------------------
(* What has arrived at the owner                                           *)

\* What has arrived grows by what is assembled.
LEMMA ArrivedStep ==
  ASSUME ListInv, NEW t \in Thread, Worker(t), NEW s \in Solve, NEW J \in Front
  PROVE  Arrived(s, J)' = IF Assemble(t) /\ phase[t] = s /\ cur[t] = J
                          THEN Arrived(s, J) \cup {c.from : c \in InList(s)[J]}
                          ELSE Arrived(s, J)
<1>0. CountedInv /\ ListedOf(s, J)
  BY DEF ListInv
<1> DEFINE In(u) == \E c \in InList(s)[J] : c.from = u
           InNew(u) == \E c \in InList(s)'[J] : c.from = u
<1>1. /\ \A u \in Senders(s, J) : u \in Arrived(s, J) <=> Sent(s, u, J) /\ ~In(u)
      /\ \A u \in Senders(s, J) : u \in Arrived(s, J)' <=> Sent(s, u, J)' /\ ~InNew(u)
      /\ Arrived(s, J) \subseteq Senders(s, J) /\ Arrived(s, J)' \subseteq Senders(s, J)
  BY DEF Arrived
<1>2. \A u \in Senders(s, J) : Sent(s, u, J)' <=>
        Sent(s, u, J) \/ (u = t /\ s = phase[t] /\ Store(t) /\ J = cur[t])
  BY <1>0, SentStep
<1>3. CASE Store(t) /\ phase[t] = s /\ cur[t] = J
  <2>1. /\ InList(s)'[J] = InList(s)[J] \cup {Sum(t)} /\ pc[t] = "store"
    BY <1>3, ListStep
  <2>2. ~Assemble(t) /\ ~Sent(s, t, J) /\ t \in Senders(s, J)
    BY <1>3, <2>1, SumFacts DEF SendLabels, Assemble
  <2>3. \A u : InNew(u) <=> In(u) \/ u = t
    <3>1. Sum(t).from = t
      BY DEF Sum
    <3> QED  BY <2>1, <3>1
  <2> HIDE DEF In, InNew
  <2> QED  BY <1>1, <1>2, <1>3, <2>2, <2>3
<1>4. CASE Assemble(t) /\ phase[t] = s /\ cur[t] = J
  <2>1. InList(s)'[J] = {} /\ ~Store(t)
    BY <1>4, ListStep DEF Assemble, Store
  <2>2. \A u : ~InNew(u)
    BY <2>1
  <2>3. \A u \in Senders(s, J) : In(u) => Sent(s, u, J)
    BY <1>0 DEF ListedOf
  <2>4. \A u : u \in {c.from : c \in InList(s)[J]} <=> In(u)
    OBVIOUS
  <2>5. \A u : In(u) => u \in Senders(s, J)
    BY <1>0 DEF ListedOf
  <2> HIDE DEF In, InNew
  <2> QED  BY <1>1, <1>2, <1>4, <2>1, <2>2, <2>3, <2>4, <2>5
<1>5. CASE ~((Store(t) \/ Assemble(t)) /\ phase[t] = s /\ cur[t] = J)
  <2>1. InList(s)'[J] = InList(s)[J]
    BY <1>5, ListStep
  <2>2. \A u : InNew(u) <=> In(u)
    BY <2>1
  <2> HIDE DEF In, InNew
  <2> QED  BY <1>1, <1>2, <1>5, <2>2
<1> QED  BY <1>3, <1>4, <1>5

\* UpdatedInv holds what the lemmas on lists ask for.
LEMMA UpdatedLists == UpdatedInv => ListInv
  BY DEF UpdatedInv, UpdateInv, ListInv

\* Nothing has arrived for a solve that has not begun for the owner.
LEMMA NotBegunStep ==
  ASSUME UpdatedInv, NEW t \in Thread, Worker(t), NEW s \in Solve, NEW J \in Nonempty,
         NotBegun(s, owners[J])'
  PROVE  Arrived(s, J)' = {}
<1>0. /\ Typed /\ ListInv /\ Gathered(s, J) /\ owners[J] \in Thread /\ J \in Front
      /\ phase \in [Thread -> Phase]
  BY UpdatedLists, CountedFacts, TypedFacts, OwnersFit DEF UpdatedInv, UpdateInv
<1>1. NotBegun(s, owners[J])
  <2>1. CASE owners[J] = t
    BY <1>0, <2>1, PhaseStep DEF NotBegun
  <2>2. CASE owners[J] # t
    BY <1>0, <2>2, OthersPaths DEF SameThread, NotBegun
  <2> QED  BY <2>1, <2>2
<1>2. Arrived(s, J) = {}
  BY <1>0, <1>1 DEF Gathered
<1>3. ~(Assemble(t) /\ phase[t] = s /\ cur[t] = J)
  BY <1>1, ListStep, <1>0 DEF NotBegun, Solve
<1> QED  BY <1>0, <1>2, <1>3, ArrivedStep

\* The sum an owner gathers: its own contributions, and those of the threads
\* whose aggregate has arrived.
Gathers(s, J) ==
  From((OwnSources(s, owners[J], J) \ InHand(owners[J], J))
         \cup UNION {OwnSources(s, u, J) : u \in Arrived(s, J)},
       FinalStage(s))

\* Gathered, in terms of Gathers: in a state,
LEMMA GatheredMeans ==
  ASSUME NEW s, NEW J
  PROVE  Gathered(s, J) <=>
           /\ NotBegun(s, owners[J]) => Arrived(s, J) = {}
           /\ phase[owners[J]] = s /\ ~Published(J) =>
                pAgg[owners[J]][J].upd = Gathers(s, J)
  BY DEF Gathered, Gathers

\* and in the next one.
LEMMA GatheredMeansNext ==
  ASSUME NEW s, NEW J
  PROVE  Gathered(s, J)' <=>
           /\ NotBegun(s, owners[J])' => Arrived(s, J)' = {}
           /\ phase'[owners[J]] = s /\ ~Published(J)' =>
                pAgg'[owners[J]][J].upd = Gathers(s, J)'
  BY DEF Gathered, Gathers

\* A matrix holds what its owner made and what has arrived.
LEMMA GatheredStep ==
  ASSUME UpdatedInv, NEW t \in Thread, Worker(t), NEW s \in Solve, NEW J \in Nonempty
  PROVE  Gathered(s, J)'
<1> DEFINE q == owners[J]
<1>0. /\ Typed /\ ListInv /\ CountedInv /\ HandInv /\ MatrixLife /\ Gathered(s, J)
      /\ DiagonalOf(J) /\ q \in Thread /\ J \in Front
      /\ phase \in [Thread -> Phase] /\ cur \in [Thread -> Front]
  BY UpdatedLists, CountedFacts, TypedFacts, OwnersFit DEF UpdatedInv, UpdateInv
<1>1. SUFFICES ASSUME phase'[q] = s, ~Published(J)'
               PROVE  pAgg'[q][J].upd = Gathers(s, J)'
  BY NotBegunStep, GatheredMeansNext
<1>2. /\ phase[q] = s /\ ~Published(J) => pAgg[q][J].upd = Gathers(s, J)
      /\ NotBegun(s, q) => Arrived(s, J) = {}
  BY <1>0, GatheredMeans
<1>3. Arrived(s, J)' = IF Assemble(t) /\ phase[t] = s /\ cur[t] = J
                       THEN Arrived(s, J) \cup {c.from : c \in InList(s)[J]}
                       ELSE Arrived(s, J)
  BY <1>0, ArrivedStep
<1>4. CASE q # t
  <2>1. /\ SamePath(q) /\ SameThread(q) /\ InHand(q, J)' = InHand(q, J)
    BY <1>0, <1>4, OthersPaths, InHandOther
  <2>2. pAgg'[q] = pAgg[q] /\ phase'[q] = phase[q] /\ (Published(J)' <=> Published(J))
    BY <2>1 DEF SamePath, SameThread, Published
  <2>3. Arrived(s, J)' = Arrived(s, J)
    BY <1>0, <1>3, <1>4, ListStep
  <2>4. Gathers(s, J)' = Gathers(s, J)
    BY <2>1, <2>3 DEF Gathers
  <2> QED  BY <1>1, <1>2, <2>2, <2>4
<1>5. CASE q = t /\ ToBackward(t)
  <2>1. /\ s = "backward" /\ pc[t] = "barrier" /\ phase[t] = "diagonal"
        /\ InHand(t, J)' = OwnSources(s, t, J) /\ pAgg' = pAgg
    <3>1. phase'[t] = "backward"
      BY <1>0, <1>5 DEF ToBackward
    <3>2. s = "backward"
      BY <1>1, <1>5, <3>1
    <3>3. InHand(t, J)' = OwnSources("backward", t, J)
      BY <1>0, <1>5, InHandStep
    <3> QED  BY <1>5, <3>2, <3>3 DEF ToBackward
  <2>2. pAgg[t][J].upd = {}
    <3>1. todo[t] = {}
      BY <1>0, <2>1 DEF HandInv, HandOf, LeftOf
    <3> QED  BY <1>0, <1>5, <2>1, <3>1 DEF DiagonalOf
  <2>3. Arrived(s, J)' = {}
    <3>1. Arrived(s, J) = {}
      BY <1>2, <1>5, <2>1 DEF NotBegun
    <3>2. ~Assemble(t)
      BY <2>1 DEF Assemble
    <3> QED  BY <1>3, <3>1, <3>2
  <2>4. Gathers(s, J)' = {}
    <3>1. (OwnSources(s, q, J) \ InHand(q, J)')
            \cup UNION {OwnSources(s, u, J) : u \in Arrived(s, J)'} = {}
      BY <1>5, <2>1, <2>3
    <3> QED  BY <3>1 DEF Gathers, From
  <2> QED  BY <1>5, <2>1, <2>2, <2>4
<1>6. CASE q = t /\ ~ToBackward(t)
  <2>1. phase'[t] = phase[t] /\ phase[t] = s
    BY <1>0, <1>1, <1>6, PhaseStep DEF Solve
  <2>2. ~Published(J) /\ ~(Publish(t) /\ cur[t] = J)
    BY <1>0, <1>1, <1>6, <2>1, PublishedStep
  <2>3. pAgg[t][J].upd = Gathers(s, J)
    BY <1>2, <1>6, <2>1, <2>2
  <2>4. ~(Decrement(t) /\ cur[t] = J)
    BY <1>0, <1>6 DEF HandInv, HandOf, VisitOf, Decrement, SendLabels, Owned
  <2> DEFINE Arr == UNION {OwnSources(s, u, J) : u \in Arrived(s, J)}
             Own == OwnSources(s, t, J)
  <2>5. Gathers(s, J) = From((Own \ InHand(t, J)) \cup Arr, FinalStage(s))
    BY <1>6 DEF Gathers
  <2>6. CASE Apply(t) /\ cur[t] = J
    <3>1. /\ src[t] \in Own /\ src[t] \in InHand(t, J)
          /\ pAgg'[t][J].upd = pAgg[t][J].upd \cup {<<src[t], FinalStage(s)>>}
          /\ InHand(t, J)' = InHand(t, J) \ {src[t]}
      BY <1>0, <2>1, <2>6, ApplyAdds
    <3>2. Arrived(s, J)' = Arrived(s, J)
      BY <1>3, <2>6 DEF Apply, Assemble
    <3>3. Gathers(s, J)' = From((Own \ InHand(t, J)') \cup Arr, FinalStage(s))
      BY <1>6, <3>2 DEF Gathers
    <3> HIDE DEF Arr, Own
    <3>4. (Own \ InHand(t, J)') \cup Arr = ((Own \ InHand(t, J)) \cup Arr) \cup {src[t]}
      BY <3>1
    <3>5. From(((Own \ InHand(t, J)) \cup Arr) \cup {src[t]}, FinalStage(s)) =
            From((Own \ InHand(t, J)) \cup Arr, FinalStage(s)) \cup {<<src[t], FinalStage(s)>>}
      BY DEF From
    <3> QED  BY <1>6, <2>3, <2>5, <3>1, <3>3, <3>4, <3>5
  <2>7. CASE Assemble(t) /\ cur[t] = J
    <3> DEFINE Came == {c.from : c \in InList(s)[J]}
               New == UNION {OwnSources(s, u, J) : u \in Came}
    <3>1. reg[t] = InList(s)[J] /\ ~Apply(t)
      BY <1>0, <2>1, <2>7, ListStep DEF Apply
    <3>2. pAgg'[t][J].upd = pAgg[t][J].upd \cup UNION {c.cols : c \in InList(s)[J]}
      <4> DEFINE m == pAgg[t][cur[t]]
                 S == m.upd \cup UNION {c.cols : c \in reg[t]}
      <4>1. NewAgg(t)
        BY <1>0, AggEffect
      <4>2. pAgg'[t][cur[t]] = [m EXCEPT !.upd = S]
        BY <2>7, <4>1, Zenon DEF NewAgg
      <4>3. DOMAIN m = MatrixFields
        BY <1>0, TypedFacts DEF MatricesFit
      <4>4. S = m.upd \cup UNION {c.cols : c \in InList(s)[J]}
        BY <3>1
      <4> HIDE DEF m, S
      <4>5. pAgg'[t][cur[t]].upd = S
        BY <4>2, <4>3, MtxUpd
      <4> QED  BY <2>7, <4>4, <4>5 DEF m
    <3>3. UNION {c.cols : c \in InList(s)[J]} = From(New, FinalStage(s))
      <4>1. \A c \in InList(s)[J] : c.cols = From(OwnSources(s, c.from, J), FinalStage(s))
        BY <1>0 DEF ListInv, ListedOf
      <4> QED  BY <4>1 DEF From
    <3>4. Arrived(s, J)' = Arrived(s, J) \cup Came
      BY <1>3, <2>1, <2>7
    <3>5. InHand(t, J)' = InHand(t, J)
      BY <1>0, <1>6, <3>1, InHandStep
    <3>6. UNION {OwnSources(s, u, J) : u \in Arrived(s, J) \cup Came} = Arr \cup New
      OBVIOUS
    <3>7. Gathers(s, J)' = From((Own \ InHand(t, J)) \cup (Arr \cup New), FinalStage(s))
      BY <1>6, <3>4, <3>5, <3>6 DEF Gathers
    <3> HIDE DEF Arr, Own, New
    <3>8. From((Own \ InHand(t, J)) \cup (Arr \cup New), FinalStage(s)) =
            From((Own \ InHand(t, J)) \cup Arr, FinalStage(s)) \cup From(New, FinalStage(s))
      BY DEF From
    <3> QED  BY <1>6, <2>3, <2>5, <3>2, <3>3, <3>7, <3>8
  <2>8. CASE ~(cur[t] = J /\ (Apply(t) \/ Assemble(t)))
    <3>1. ~(cur[t] = J /\ (Apply(t) \/ Assemble(t) \/ Decrement(t) \/ Publish(t)))
      BY <2>2, <2>4, <2>8
    <3>2. phase[t] \in Solve
      BY <2>1
    <3>3. pAgg'[t][J].upd = pAgg[t][J].upd /\ InHand(t, J)' = InHand(t, J)
      BY <1>0, <2>1, <3>1, <3>2, VisitActions
    <3>4. Arrived(s, J)' = Arrived(s, J)
      BY <1>3, <2>8
    <3>5. Gathers(s, J)' = Gathers(s, J)
      BY <1>6, <3>3, <3>4 DEF Gathers
    <3> QED  BY <1>6, <2>3, <3>3, <3>5
  <2> QED  BY <2>6, <2>7, <2>8
<1> QED  BY <1>4, <1>5, <1>6

-----------------------------------------------------------------------------
(* A published solution                                                    *)

\* Outside the loops of the two solves and the copy a thread publishes
\* nothing; in them it only publishes.
LEMMA LoopMtx ==
  ASSUME Typed, NEW t \in Thread, Worker(t), phase[t] \in Solve, NEW J \in Front,
         ~(Publish(t) /\ cur[t] = J)
  PROVE  pMtx'[J] = pMtx[J]
<1>1. pc[t] \in SolveLabels \cup {"barrier"}
  BY TypedFacts DEF BarrierInv, LabelsFit
<1>2. ~(DiagonalSolve(t) \/ DiagonalMove(t) \/ Copy(t))
  BY <1>1 DEF DiagonalSolve, DiagonalMove, Copy, SolveLabels, VisitLabels
<1>3. NewMtx(t)
  BY MtxEffect
<1> QED  BY <1>2, <1>3, Zenon DEF NewMtx

\* The published solution holds a contribution of every source.
LEMMA PublishComplete ==
  ASSUME UpdatedInv, NEW t \in Thread, Publish(t), Worker(t), NEW J \in Front, J = cur[t]
  PROVE  /\ J \in Nonempty /\ owners[J] = t /\ phase[t] \in Solve
         /\ ~Published(J)
         /\ AllSent(phase[t], J) /\ InList(phase[t])[J] = {}
         /\ pAgg[t][J].upd = From(Sources(phase[t], J), FinalStage(phase[t]))
<1>0. /\ Typed /\ HandInv /\ MatrixLife /\ ListInv /\ CountedInv /\ pc[t] = "solve"
      /\ AllMade(t) /\ NothingToCome(t)
  BY UpdatedLists, CountedFacts DEF UpdatedInv, UpdateInv, Publish
<1>1. Owned(t)
  BY <1>0 DEF HandInv, HandOf, VisitOf, OwnedLabels, SolvedLabels
<1>2. J \in Nonempty /\ owners[J] = t /\ phase[t] \in Solve /\ ~Published(J)
  BY <1>0, <1>1, HasMatrix DEF VisitLabels, Owned
<1> PICK s \in Solve : s = phase[t]
  BY <1>2
<1>3. AllSent(s, J) /\ InList(s)[J] = {}
  BY <1>0 DEF NothingToCome, SolvedLabels
<1>4. pAgg[t][J].upd = Gathers(s, J)
  <2>1. Gathered(s, J)
    BY <1>2 DEF UpdatedInv, UpdateInv
  <2> QED  BY <1>2, <2>1, GatheredMeans
<1>5. InHand(t, J) = {}
  BY <1>0, <1>2 DEF AllMade, SolvedLabels, InHand, Gathering
<1>6. Arrived(s, J) = Senders(s, J)
  <2>1. \A u \in Senders(s, J) : Sent(s, u, J)
    BY <1>0, <1>3, SentToSend DEF AllSent
  <2> QED  BY <1>3, <2>1 DEF Arrived
<1>7. (OwnSources(s, t, J) \ {}) \cup UNION {OwnSources(s, u, J) : u \in Senders(s, J)}
        = Sources(s, J)
  BY <1>2 DEF OwnSources, Senders
<1>8. Gathers(s, J) = From(Sources(s, J), FinalStage(s))
  BY <1>2, <1>5, <1>6, <1>7 DEF Gathers
<1> QED  BY <1>2, <1>3, <1>4, <1>8

\* A published solution holds every contribution.
LEMMA CompleteStep ==
  ASSUME UpdatedInv, NEW t \in Thread, Worker(t), NEW s \in Solve, NEW J \in Nonempty
  PROVE  Complete(s, J)'
<1> DEFINE q == owners[J]
<1>0. /\ Typed /\ ListInv /\ CountedInv /\ HandInv /\ MatricesFit /\ Complete(s, J)
      /\ q \in Thread /\ J \in Front /\ cur[t] \in Front
      /\ status \in [Thread -> [Front -> {"W", "F"}]]
      /\ pc \in [Thread -> Labels]
  BY UpdatedLists, CountedFacts, TypedFacts, OwnersFit DEF UpdatedInv, UpdateInv
<1>1. SUFFICES ASSUME phase'[q] = s, Published(J)'
               PROVE  /\ AllSent(s, J)' /\ InList(s)'[J] = {}
                      /\ pMtx'[J].upd = From(Sources(s, J), FinalStage(s))
  BY DEF Complete
<1>2. CASE phase[q] = s /\ Published(J) /\ pMtx'[J] = pMtx[J]
  <2>1. /\ AllSent(s, J) /\ InList(s)[J] = {}
        /\ pMtx[J].upd = From(Sources(s, J), FinalStage(s))
    BY <1>0, <1>2 DEF Complete
  <2> QED  BY <1>0, <1>2, <2>1, ListStays
<1>3. CASE q # t
  <2>1. SamePath(q) /\ SameThread(q) /\ pMtx'[J] = pMtx[J]
    BY <1>0, <1>3, OthersPaths, MtxOthers
  <2>2. phase'[q] = phase[q] /\ (Published(J)' <=> Published(J))
    BY <2>1 DEF SamePath, SameThread, Published
  <2> QED  BY <1>1, <1>2, <2>1, <2>2
<1>4. CASE q = t /\ ToBackward(t)
  <2>1. J \in OnPath["backward"][t]
    BY <1>0, <1>4 DEF OnPath, StartOfPath, Solve
  <2>2. status'[t][J] = "W" /\ pc'[t] = "pop"
    BY <1>0, <1>4, <2>1 DEF ToBackward, Goto
  <2> QED  BY <1>1, <1>4, <2>2 DEF Published
<1>5. CASE q = t /\ ~ToBackward(t)
  <2>1. phase'[t] = phase[t] /\ phase[t] = s
    BY <1>0, <1>1, <1>5, PhaseStep DEF Solve
  <2>2. Published(J) \/ (Publish(t) /\ cur[t] = J)
    BY <1>0, <1>1, <1>5, <2>1, PublishedStep
  <2>3. CASE ~(Publish(t) /\ cur[t] = J)
    <3>1. phase[t] \in Solve
      BY <2>1
    <3>2. pMtx'[J] = pMtx[J]
      BY <1>0, <2>3, <3>1, LoopMtx
    <3> QED  BY <1>2, <1>5, <2>1, <2>2, <2>3, <3>2
  <2>4. CASE Publish(t) /\ cur[t] = J
    <3>1. /\ AllSent(s, J) /\ InList(s)[J] = {}
          /\ pAgg[t][J].upd = From(Sources(s, J), FinalStage(s))
      BY <1>0, <2>1, <2>4, PublishComplete
    <3>2. pMtx'[J] = [pAgg[t][J] EXCEPT !.stage = SolutionOf(t)]
      <4>1. NewMtx(t)
        BY <1>0, MtxEffect
      <4> QED  BY <1>0, <2>4, <4>1, Zenon DEF NewMtx
    <3>3. pMtx'[J].upd = pAgg[t][J].upd
      <4>1. DOMAIN pAgg[t][J] = MatrixFields
        BY <1>0 DEF MatricesFit
      <4> QED  BY <3>2, <4>1, MtxStage
    <3> QED  BY <1>0, <3>1, <3>3, ListStays
  <2> QED  BY <2>3, <2>4
<1> QED  BY <1>3, <1>4, <1>5

\* The diagonal solve starts anew.
LEMMA DiagonalOfStep ==
  ASSUME UpdatedInv, NEW t \in Thread, Worker(t), NEW J \in Nonempty
  PROVE  DiagonalOf(J)'
<1> DEFINE q == owners[J]
<1>0. /\ Typed /\ HandInv /\ MatrixLife /\ MtxTypes /\ DiagonalOf(J)
      /\ q \in Thread /\ J \in Front /\ cur[t] \in Front
      /\ todo \in [Thread -> SUBSET Front] /\ pc \in [Thread -> Labels]
      /\ phase \in [Thread -> Phase]
  BY CountedFacts, TypedFacts, OwnersFit DEF UpdatedInv, UpdateInv
<1>1. SUFFICES ASSUME phase'[q] = "diagonal", J \notin todo'[q]
               PROVE  pAgg'[q][J].upd = {} /\ pMtx'[J].upd = {}
  BY DEF DiagonalOf
<1>2. CASE phase[q] = "diagonal" /\ J \notin todo[q] /\ pMtx'[J] = pMtx[J] /\ pAgg'[q][J] = pAgg[q][J]
  BY <1>0, <1>2 DEF DiagonalOf
<1>3. CASE q # t
  <2>1. SamePath(q) /\ SameThread(q) /\ pMtx'[J] = pMtx[J]
    BY <1>0, <1>3, OthersPaths, MtxOthers
  <2>2. phase'[q] = phase[q] /\ todo'[q] = todo[q] /\ pAgg'[q] = pAgg[q]
    BY <2>1 DEF SamePath, SameThread
  <2> QED  BY <1>1, <1>2, <2>1, <2>2
<1>4. CASE q = t
  <2>1. ~ToDiagonal(t)
    <3>1. ASSUME ToDiagonal(t) PROVE J \in todo'[t]
      BY <1>0, <1>4, <3>1 DEF ToDiagonal, OwnedFronts
    <3> QED  BY <1>1, <1>4, <3>1
  <2>2. phase[t] = "diagonal" /\ phase'[t] = phase[t]
    BY <1>0, <1>1, <1>4, <2>1, PhaseStep
  <2>3. pc[t] \in DiagonalLabels \cup {"barrier"}
    BY <2>2, TypedFacts, <1>0 DEF BarrierInv, LabelsFit
  <2>4. NewAgg(t) /\ NewMtx(t) /\ (J # cur[t] => pAgg'[t][J] = pAgg[t][J])
    BY <1>0, AggEffect, MtxEffect
  <2>5. ~(VisitFront(t) \/ Apply(t) \/ Assemble(t) \/ Decrement(t) \/ Publish(t) \/ Copy(t))
    BY <2>3 DEF DiagonalLabels, MoveLabels, VisitFront, Apply, Assemble, Decrement, Publish, Copy
  <2>6. CASE DiagonalSolve(t)
    <3>1. ~DiagonalMove(t) /\ todo[t] # {} /\ todo' = [todo EXCEPT ![t] = @ \ {Least(todo[t])}]
      BY <2>6 DEF DiagonalSolve, DiagonalMove
    <3>2. pAgg' = pAgg
      BY <2>4, <2>5, <3>1, Zenon DEF NewAgg
    <3>3. pMtx'[J] = IF J = Least(todo[t]) /\ pMtx[J] # NoMtx THEN [stage |-> "z", upd |-> {}]
                     ELSE pMtx[J]
      BY <1>0, <2>4, <2>6, Zenon DEF NewMtx
    <3>4. CASE J = Least(todo[t])
      <4>1. J \in todo[t]
        <5>1. todo[t] \in SUBSET Front /\ todo[t] # {}
          BY <1>0, <3>1
        <5> QED  BY <3>4, <5>1, LeastIn
      <4>2. StageOf(J) = "y"
        BY <1>4, <2>2, <4>1 DEF StageOf
      <4>3. pMtx[J].stage = "y" /\ pAgg[t][J] = NoMtx
        BY <1>0, <1>4, <4>2 DEF MatrixLife, OwnedMatrix
      <4>4. pMtx[J] # NoMtx
        BY <4>3, MtxNamed
      <4> QED  BY <1>4, <3>2, <3>3, <3>4, <4>3, <4>4, MtxNamed
    <3>5. CASE J # Least(todo[t])
      <4>1. J \notin todo[t]
        BY <1>0, <1>1, <1>4, <3>1, <3>5
      <4> QED  BY <1>2, <1>4, <2>2, <3>2, <3>3, <3>5, <4>1
    <3> QED  BY <3>4, <3>5
  <2>7. CASE ~DiagonalSolve(t)
    <3>1. todo'[t] = todo[t]
      <4>1. todo' = todo \/ UpdateReady(t) \/ UpdateWaits(t) \/ ToStore(t)
        BY <2>1, <2>5, <2>7, WhoChanges
      <4> QED  BY <2>2, <2>3, <4>1 DEF UpdateReady, UpdateWaits, ToStore, DiagonalLabels, MoveLabels
    <3>2. CASE DiagonalMove(t) /\ cur[t] = J
      <4>1. pMtx[J].upd = {}
        BY <1>0, <1>1, <1>4, <2>2, <3>1 DEF DiagonalOf
      <4>2. pAgg'[t][J] = pMtx[J] /\ pMtx'[J] = NoMtx
        BY <1>0, <2>4, <3>2, Zenon DEF NewAgg, NewMtx
      <4> QED  BY <1>4, <4>1, <4>2, MtxNamed
    <3>3. CASE ~(DiagonalMove(t) /\ cur[t] = J)
      <4>1. pAgg'[t][J] = pAgg[t][J]
        BY <2>4, <2>5, <3>3, Zenon DEF NewAgg
      <4>2. pMtx'[J] = pMtx[J]
        BY <1>0, <2>4, <2>5, <2>7, <3>3, Zenon DEF NewMtx
      <4> QED  BY <1>1, <1>2, <1>4, <2>2, <3>1, <4>1, <4>2
    <3> QED  BY <3>2, <3>3
  <2> QED  BY <2>6, <2>7
<1> QED  BY <1>3, <1>4

-----------------------------------------------------------------------------
(* UpdateInv is an invariant                                               *)

\* UpdateInv holds initially,
LEMMA UpdateInit == Init => UpdateInv
<1> SUFFICES ASSUME Init PROVE UpdateInv
  OBVIOUS
<1>1. /\ \A t \in Thread : pc[t] = "pop" /\ phase[t] = "forward"
      /\ \A t \in Thread, J \in Front :
           /\ status[t][J] = IF J \in OnPath["forward"][t] THEN "W" ELSE "F"
           /\ heads[t][J] = OwnSources("forward", t, J)
           /\ pAgg[t][J] = IF owners[J] = t /\ J \in Nonempty THEN RhsMtx ELSE NoMtx
  BY DEF Init
<1>2. \A s \in Solve : \A J \in Front : InList(s)[J] = {}
  BY DEF Init, forw!ListInit, back!ListInit, InList
<1>3. \A t \in Thread, J \in Front : InHand(t, J) = OwnSources("forward", t, J)
  BY <1>1 DEF InHand, Gathering
<1>4. \A J \in Nonempty : owners[J] \in Thread /\ J \in Front
  BY OwnersFit DEF Nonempty
<1>5. \A S, st : S = {} => From(S, st) = {}
  BY DEF From
<1>6. ASSUME NEW t \in Thread PROVE AllMade(t) /\ Loads(t) /\ TakeExclusive(t) /\ NothingToCome(t)
  <2>1. ASSUME NEW J \in Front, status[t][J] = "F" PROVE heads[t][J] = {}
    <3>1. J \notin StartOfPath("forward", t)
      BY <1>1, <2>1 DEF OnPath, Solve
    <3> QED  BY <1>1, <3>1 DEF StartOfPath
  <2> QED  BY <1>1, <2>1 DEF AllMade, Loads, TakeExclusive, NothingToCome,
              SendLabels, SolvedLabels, CountedLabels
<1>7. UsedIsSolved
  <2> SUFFICES ASSUME NEW s \in Solve, NEW J \in Front, NEW I \in Sources(s, J)
               PROVE  I \in Waits(s, BlockOwner(s, J, I), J)
    BY DEF UsedIsSolved
  <2>1. BlockOwner(s, J, I) \in Thread
    BY SolveAssumption, TreeAssumption DEF BlockOwner, Sources, Updaters
  <2>2. Waits(s, BlockOwner(s, J, I), J) = OwnSources(s, BlockOwner(s, J, I), J)
    BY <1>1, <1>3, <2>1 DEF Waits, NotBegun, Solve
  <2> QED  BY <2>2 DEF OwnSources
<1>8. ASSUME NEW s \in Solve, NEW J \in Front PROVE ListedOf(s, J)
  BY <1>2 DEF ListedOf
<1>9. ASSUME NEW J \in Nonempty, NEW t \in Thread \ {owners[J]} PROVE AggregateOf(t, J)
  <2>1. pAgg[t][J].upd = {} /\ OwnSources(phase[t], t, J) \ InHand(t, J) = {}
    BY <1>1, <1>3, <1>4, <1>9, MtxNamed
  <2> QED  BY <1>5, <2>1 DEF AggregateOf
<1>10. ASSUME NEW s \in Solve, NEW J \in Nonempty PROVE Gathered(s, J) /\ Complete(s, J)
  <2> DEFINE q == owners[J]
  <2>1. q \in Thread /\ J \in Front /\ phase[q] = "forward" /\ pc[q] = "pop"
    BY <1>1, <1>4
  <2>2. Arrived(s, J) = {}
    <3>1. ASSUME NEW u \in Senders(s, J) PROVE ~Sent(s, u, J)
      <4>1. u \in Thread /\ J \in OnPath[s][u]
        BY <2>1, SenderFacts
      <4>2. phase[u] = "forward" /\ pc[u] = "pop" /\ (s = "forward" => status[u][J] = "W")
        BY <1>1, <2>1, <4>1
      <4> QED  BY <4>2 DEF Sent, Ended, Later, HandedOver, Solve
    <3> QED  BY <3>1 DEF Arrived
  <2>3. ~Published(J)
    <3>1. J \in OnPath["forward"][q]
      BY <2>1 DEF OnPath, StartOfPath, Solve
    <3> QED  BY <1>1, <2>1, <3>1 DEF Published
  <2>4. phase[q] = s => pAgg[q][J].upd = Gathers(s, J)
    <3>1. pAgg[q][J].upd = {}
      BY <1>1, <2>1, MtxNamed
    <3>2. phase[q] = s => (OwnSources(s, q, J) \ InHand(q, J))
                            \cup UNION {OwnSources(s, u, J) : u \in Arrived(s, J)} = {}
      BY <1>3, <2>1, <2>2
    <3> QED  BY <1>5, <3>1, <3>2 DEF Gathers
  <2> QED  BY <2>2, <2>3, <2>4, GatheredMeans DEF Complete
<1>11. ASSUME NEW J \in Nonempty PROVE DiagonalOf(J)
  BY <1>1, <1>4 DEF DiagonalOf
<1> QED  BY <1>6, <1>7, <1>8, <1>9, <1>10, <1>11 DEF UpdateInv

\* every step of a thread keeps it,
LEMMA UpdateStep ==
  ASSUME UpdatedInv, NEW t \in Thread, Worker(t)
  PROVE  UpdateInv'
<1>0. ListInv /\ CountedInv /\ Typed /\ UsedIsSolved /\ \A u \in Thread : AllMade(u)
  BY UpdatedLists, CountedFacts DEF UpdatedInv, UpdateInv
<1>1. ASSUME NEW u \in Thread PROVE AllMade(u)'
  <2>1. CASE u = t
    BY <1>0, <2>1, AllMadeStep
  <2>2. CASE u # t
    <3>1. SamePath(u) /\ SameThread(u)
      BY <1>0, <2>2, OthersPaths
    <3> QED  BY <1>0, <3>1 DEF SamePath, SameThread, AllMade
  <2> QED  BY <2>1, <2>2
<1>2. ASSUME NEW u \in Thread PROVE Loads(u)' /\ TakeExclusive(u)' /\ NothingToCome(u)'
  BY <1>0, LoadsStep, TakeExclusiveStep, NothingToComeStep
<1>3. UsedIsSolved'
  BY <1>0, UsedIsSolvedStep
<1>4. ASSUME NEW s \in Solve, NEW J \in Front PROVE ListedOf(s, J)'
  BY <1>0, ListedStep
<1>5. ASSUME NEW J \in Nonempty, NEW u \in Thread \ {owners[J]} PROVE AggregateOf(u, J)'
  BY <1>0, AggregateOfStep
<1>6. ASSUME NEW s \in Solve, NEW J \in Nonempty PROVE Gathered(s, J)' /\ Complete(s, J)'
  BY GatheredStep, CompleteStep
<1>7. ASSUME NEW J \in Nonempty PROVE DiagonalOf(J)'
  BY DiagonalOfStep
<1> QED  BY <1>1, <1>2, <1>3, <1>4, <1>5, <1>6, <1>7 DEF UpdateInv

\* and so UpdatedInv is inductive.
LEMMA UpdatedNext == UpdatedInv /\ [Next]_vars => UpdatedInv'
<1> SUFFICES ASSUME UpdatedInv, [Next]_vars PROVE UpdatedInv'
  OBVIOUS
<1>1. CountedInv'
  BY CountedNext DEF UpdatedInv
<1>2. CASE \E t \in Thread : Worker(t)
  BY <1>1, <1>2, UpdateStep DEF UpdatedInv
<1>3. CASE UNCHANGED <<pc, phase, cur, pathVars, gatherVars, pAgg, shared, listVars, sol>>
  <2>0. /\ UpdateInv
        /\ UNCHANGED <<pc, phase, cur, status, heads, todo, src, pAgg, pMtx>>
        /\ UNCHANGED <<forwHeads, forwCounts, forwLock, backHeads, backCounts, backLock, reg>>
    BY <1>3 DEF UpdatedInv, pathVars, gatherVars, shared, listVars, forwVars, backVars
  <2>1. /\ \A s : InList(s)' = InList(s) /\ InLock(s)' = InLock(s)
        /\ \A t, J : InHand(t, J)' = InHand(t, J)
        /\ \A s, t : NotBegun(s, t)' = NotBegun(s, t)
        /\ \A s, t, J : Sent(s, t, J)' = Sent(s, t, J) /\ ToSend(s, t, J)' = ToSend(s, t, J)
        /\ \A J : Published(J)' = Published(J)
    BY <2>0 DEF InList, InLock, InHand, Gathering, NotBegun, Sent, Ended, HandedOver, ToSend, Published
  <2>2. /\ \A s, t, J : Waits(s, t, J)' = Waits(s, t, J)
        /\ \A s, J : Arrived(s, J)' = Arrived(s, J) /\ AllSent(s, J)' = AllSent(s, J)
        /\ \A s, I : Solved(s, I)' = Solved(s, I)
    BY <2>0, <2>1 DEF Waits, Arrived, AllSent, Solved, Ended
  <2>3. ASSUME NEW t \in Thread PROVE AllMade(t)' /\ Loads(t)' /\ TakeExclusive(t)' /\ NothingToCome(t)'
    <3>1. AllMade(t) /\ Loads(t) /\ TakeExclusive(t) /\ NothingToCome(t)
      BY <2>0 DEF UpdateInv
    <3>2. /\ InList(phase[t])' = InList(phase[t]) /\ InLock(phase[t])' = InLock(phase[t])
          /\ AllSent(phase[t], cur[t])' = AllSent(phase[t], cur[t])
          /\ \A u : ToSend(phase[t], u, cur[t])' = ToSend(phase[t], u, cur[t])
      BY <2>0 DEF InList, InLock, AllSent, ToSend, NotBegun
    <3>3. AllMade(t)' /\ Loads(t)'
      BY <2>0, <3>1, <3>2 DEF AllMade, Loads
    <3>4. TakeExclusive(t)' /\ NothingToCome(t)'
      BY <2>0, <3>1, <3>2 DEF TakeExclusive, NothingToCome
    <3> QED  BY <3>3, <3>4
  <2>4. UsedIsSolved'
    BY <2>0, <2>2 DEF UpdateInv, UsedIsSolved
  <2>5. \A s \in Solve : \A J \in Front : ListedOf(s, J)'
    BY <2>0, <2>1 DEF UpdateInv, ListedOf
  <2>6. \A J \in Nonempty : \A t \in Thread \ {owners[J]} : AggregateOf(t, J)'
    BY <2>0, <2>1 DEF UpdateInv, AggregateOf
  <2>7. \A s \in Solve : \A J \in Nonempty : Gathered(s, J)' /\ Complete(s, J)'
    BY <2>0, <2>1, <2>2 DEF UpdateInv, Gathered, Complete
  <2>8. \A J \in Nonempty : DiagonalOf(J)'
    BY <2>0 DEF UpdateInv, DiagonalOf
  <2>9. UpdateInv'
    BY <2>3, <2>4, <2>5, <2>6, <2>7, <2>8 DEF UpdateInv
  <2> QED  BY <1>1, <2>9 DEF UpdatedInv
<1> QED  BY <1>2, <1>3 DEF Next, Join, Returned, vars

\* Every reachable state satisfies UpdatedInv.
LEMMA UpdatedCorrect == Spec => []UpdatedInv
<1>1. Init => UpdatedInv
  BY TypesInit, CountInit, UpdateInit DEF UpdatedInv, CountedInv
<1> QED  BY <1>1, UpdatedNext, PTL DEF Spec

-----------------------------------------------------------------------------
(* Every contribution in one place                                         *)

\* The contributions of a set of sources.
LEMMA BringsFrom ==
  ASSUME NEW S, NEW st, NEW I
  PROVE  Brings(From(S, st), I) <=> I \in S
<1>1. \A c \in From(S, st) : c[1] \in S
  BY DEF From
<1>2. I \in S => <<I, st>> \in From(S, st) /\ <<I, st>>[1] = I
  BY DEF From
<1> QED  BY <1>1, <1>2 DEF Brings

\* No contribution is in an empty set.
LEMMA BringsNothing ==
  ASSUME NEW I
  PROVE  ~Brings({}, I)
  BY DEF Brings

\* A thread that has sent for a front has nothing for it in hand.
LEMMA SentIsMade ==
  ASSUME UpdatedInv, NEW t \in Thread, NEW J \in Front, phase[t] \in Solve,
         status[t][J] = "F" \/ (pc[t] \in SolvedLabels \cup SendLabels /\ cur[t] = J)
  PROVE  InHand(t, J) = {}
<1>1. heads[t][J] = {}
  BY DEF UpdatedInv, UpdateInv, AllMade
<1>2. ~Gathering(t, J)
  <2>1. HandOf(t)
    BY CountedFacts DEF UpdatedInv
  <2> QED  BY <2>1 DEF HandOf, VisitOf, VisitLabels, Gathering, SolvedLabels, SendLabels
<1> QED  BY <1>1, <1>2 DEF InHand

\* The five places, one for each stage of the way.
LEMMA OnePlace ==
  ASSUME UpdatedInv, NEW s \in Solve, NEW J \in Front, NEW I \in Sources(s, J),
         phase[owners[J]] = s, phase[BlockOwner(s, J, I)] = s
  PROVE  \E x : Holders(s, I, J) = {x}
<1> DEFINE q == owners[J]
           u == BlockOwner(s, J, I)
<1>1. J \in Nonempty /\ I \in Nonempty /\ q \in Thread /\ u \in Thread /\ phase[q] = s /\ phase[u] = s
  BY TreeAssumption, SolveAssumption DEF Sources, Updaters, BlockOwner, Nonempty
<1>2. \A w : I \in OwnSources(s, w, J) <=> w = u
  BY DEF OwnSources
<1>3. u # q => u \in Senders(s, J)
  BY DEF Senders
<1>4. /\ CountedInv /\ HandInv /\ MatrixLife /\ MtxTypes /\ status \in [Thread -> [Front -> {"W", "F"}]]
      /\ ListedOf(s, J) /\ Gathered(s, J) /\ Complete(s, J) /\ Loads(q)
      /\ (u # q => AggregateOf(u, J))
  BY <1>1, CountedFacts, TypedFacts DEF UpdatedInv, UpdateInv
<1>5. \A w \in Senders(s, J) : w # q
  BY SenderFacts
<1> DEFINE Hand  == I \in InHand(u, J)
           SumOf(w) == Brings(pAgg[w][J].upd, I) /\ ~HandedOver(w, J)
           Sums  == {w \in {u, q} : SumOf(w)}
           Lst   == {d \in InList(s)[J] : Brings(d.cols, I) /\ ~Receiving(q, J)}
           Ldd   == {d \in reg[q] : Brings(d.cols, I) /\ Receiving(q, J)}
           Pub   == Brings(pMtx[J].upd, I)
<1>6. Holders(s, I, J) = {<<"waits", t>> : t \in {w \in {u} : Hand}}
                         \cup {<<"sum", t>> : t \in Sums}
                         \cup {<<"list", c.from>> : c \in Lst} \cup {<<"loaded", c.from>> : c \in Ldd}
                         \cup (IF Pub THEN {<<"published", q>>} ELSE {})
  <2>1. Hand <=> \/ I \in heads[u][J]
                 \/ Gathering(u, J) /\ (I \in todo[u] \/ (pc[u] = "apply" /\ src[u] = I))
    BY DEF InHand
  <2>2. {w \in {u} : Hand} =
          {w \in {u} : \/ I \in heads[w][J]
                       \/ Gathering(w, J) /\ (I \in todo[w] \/ (pc[w] = "apply" /\ src[w] = I))}
    BY <2>1
  <2> HIDE DEF Hand
  <2> QED  BY <2>2 DEF Holders
<1>7. \A c \in InList(s)[J] :
        c.from \in Senders(s, J) /\ Sent(s, c.from, J) /\ (Brings(c.cols, I) <=> c.from = u)
  BY <1>2, <1>4, BringsFrom DEF ListedOf
<1>8. Receiving(q, J) => reg[q] = InList(s)[J] /\ reg[q] # {}
  BY <1>1, <1>4 DEF Receiving, Loads
<1>9. Sent(s, u, J) => ~Hand
  <2>1. ASSUME Sent(s, u, J)
        PROVE  status[u][J] = "F" \/ (pc[u] \in SolvedLabels \cup SendLabels /\ cur[u] = J)
    BY <1>1, <2>1 DEF Sent, Ended, Later, HandedOver, SendLabels, Solve
  <2> QED  BY <1>1, <2>1, SentIsMade
<1>10. u # q => (SumOf(u) <=> ~Hand /\ ~Sent(s, u, J))
  <2> SUFFICES ASSUME u # q PROVE SumOf(u) <=> ~Hand /\ ~Sent(s, u, J)
    OBVIOUS
  <2>1. pAgg[u][J].upd = IF status[u][J] = "F" THEN {}
                         ELSE From(OwnSources(s, u, J) \ InHand(u, J), FinalStage(s))
    BY <1>1, <1>4 DEF AggregateOf
  <2>2. Brings(pAgg[u][J].upd, I) <=> status[u][J] # "F" /\ ~Hand
    BY <1>2, <2>1, BringsFrom, BringsNothing
  <2>3. Sent(s, u, J) <=> status[u][J] = "F" \/ HandedOver(u, J)
    BY <1>1 DEF Sent, Ended, Later, Solve
  <2> QED  BY <2>2, <2>3
<1>11. ~HandedOver(q, J)
  BY <1>1, <1>4 DEF HandInv, HandOf, VisitOf, HandedOver, SendLabels, Owned
<1>12. \A c \in Lst \cup Ldd : c \in InList(s)[J] /\ c.from = u
  BY <1>7, <1>8
<1>13. Arrived(s, J) \subseteq Senders(s, J) /\ (u \in Arrived(s, J) => Sent(s, u, J))
  BY DEF Arrived
<1>14. OwnedMatrix(J)
  BY <1>1, <1>4 DEF MatrixLife
<1>15. CASE Published(J)
  <2>1. AllSent(s, J) /\ InList(s)[J] = {} /\ Pub
    BY <1>1, <1>4, <1>15, BringsFrom DEF Complete
  <2>2. StageOf(J) # "none"
    BY <1>1, <1>15 DEF StageOf, Solve
  <2>3. ~SumOf(q)
    BY <1>14, <2>2, BringsNothing, MtxNamed DEF OwnedMatrix
  <2>4. ~Hand /\ (u # q => Sent(s, u, J))
    <3>1. CASE u = q
      <4>1. status[u][J] = "F" \/ (pc[u] \in SolvedLabels \cup SendLabels /\ cur[u] = J)
        BY <1>15, <3>1 DEF Published, SolvedLabels
      <4> QED  BY <1>1, <3>1, <4>1, SentIsMade
    <3>2. CASE u # q
      <4>1. Sent(s, u, J)
        BY <1>3, <1>4, <2>1, <3>2, SentToSend DEF AllSent
      <4> QED  BY <1>9, <3>2, <4>1
    <3> QED  BY <3>1, <3>2
  <2>5. Sums = {} /\ Lst = {} /\ Ldd = {}
    BY <1>10, <1>12, <2>1, <2>3, <2>4
  <2> HIDE DEF Hand, Sums, Lst, Ldd, Pub
  <2>6. Holders(s, I, J) = {<<"published", q>>}
    BY <1>6, <2>1, <2>4, <2>5
  <2> QED  BY <2>6
<1>16. CASE ~Published(J)
  <2>1. ~Pub
    <3>1. StageOf(J) = "none"
      BY <1>1, <1>16 DEF StageOf, Solve
    <3> QED  BY <1>14, <3>1, BringsNothing, MtxNamed DEF OwnedMatrix
  <2>2. SumOf(q) <=> (u = q /\ ~Hand) \/ u \in Arrived(s, J)
    <3>1. pAgg[q][J].upd = Gathers(s, J)
      BY <1>1, <1>4, <1>16, GatheredMeans
    <3>2. SumOf(q) <=> I \in (OwnSources(s, q, J) \ InHand(q, J))
                              \cup UNION {OwnSources(s, w, J) : w \in Arrived(s, J)}
      BY <1>11, <3>1, BringsFrom DEF Gathers
    <3> QED  BY <1>2, <3>2
  <2>3. (\A c \in InList(s)[J] : c.from # u) => Lst = {} /\ Ldd = {}
    BY <1>12
  <2>4. ~Sent(s, u, J) => \A c \in InList(s)[J] : c.from # u
    BY <1>7
  <2>5. CASE Hand
    <3>1. Sums = {}
      BY <1>3, <1>5, <1>9, <1>10, <1>13, <2>2, <2>5
    <3>2. Lst = {} /\ Ldd = {}
      BY <1>9, <2>3, <2>4, <2>5
    <3> HIDE DEF Hand, Sums, Lst, Ldd, Pub
    <3>3. Holders(s, I, J) = {<<"waits", u>>}
      BY <1>6, <2>1, <2>5, <3>1, <3>2
    <3> QED  BY <3>3
  <2>6. CASE ~Hand /\ u = q
    <3>1. Sums = {q}
      BY <2>2, <2>6
    <3>2. Lst = {} /\ Ldd = {}
      BY <1>5, <1>7, <2>3, <2>6
    <3> HIDE DEF Hand, Sums, Lst, Ldd, Pub
    <3>3. Holders(s, I, J) = {<<"sum", q>>}
      BY <1>6, <2>1, <2>6, <3>1, <3>2
    <3> QED  BY <3>3
  <2>7. CASE ~Hand /\ u # q /\ ~Sent(s, u, J)
    <3>1. Sums = {u}
      BY <1>10, <1>13, <2>2, <2>7
    <3>2. Lst = {} /\ Ldd = {}
      BY <2>3, <2>4, <2>7
    <3> HIDE DEF Hand, Sums, Lst, Ldd, Pub
    <3>3. Holders(s, I, J) = {<<"sum", u>>}
      BY <1>6, <2>1, <2>7, <3>1, <3>2
    <3> QED  BY <3>3
  <2>8. ASSUME ~Hand, u # q, Sent(s, u, J), NEW c \in InList(s)[J], c.from = u
        PROVE  \E x : Holders(s, I, J) = {x}
    <3>1. u \notin Arrived(s, J) /\ Brings(c.cols, I)
      BY <1>7, <2>8 DEF Arrived
    <3>2. Sums = {}
      BY <1>10, <2>2, <2>8, <3>1
    <3>3. CASE Receiving(q, J)
      <4>1. Lst = {} /\ c \in Ldd /\ \A d \in Ldd : d.from = u
        BY <1>8, <1>12, <2>8, <3>1, <3>3
      <4> HIDE DEF Hand, Sums, Lst, Ldd, Pub
      <4>2. {<<"loaded", d.from>> : d \in Ldd} = {<<"loaded", u>>}
        BY <4>1
      <4>3. Holders(s, I, J) = {<<"loaded", u>>}
        BY <1>6, <2>1, <2>8, <3>2, <4>1, <4>2
      <4> QED  BY <4>3
    <3>4. CASE ~Receiving(q, J)
      <4>1. Ldd = {} /\ c \in Lst /\ \A d \in Lst : d.from = u
        BY <1>12, <2>8, <3>1, <3>4
      <4> HIDE DEF Hand, Sums, Lst, Ldd, Pub
      <4>2. {<<"list", d.from>> : d \in Lst} = {<<"list", u>>}
        BY <4>1
      <4>3. Holders(s, I, J) = {<<"list", u>>}
        BY <1>6, <2>1, <2>8, <3>2, <4>1, <4>2
      <4> QED  BY <4>3
    <3> QED  BY <3>3, <3>4
  <2>9. CASE ~Hand /\ u # q /\ Sent(s, u, J) /\ \A c \in InList(s)[J] : c.from # u
    <3>1. Lst = {} /\ Ldd = {}
      BY <2>3, <2>9
    <3>2. u \in Arrived(s, J)
      BY <1>3, <2>9 DEF Arrived
    <3>3. Sums = {q}
      BY <1>10, <2>2, <2>9, <3>2
    <3> HIDE DEF Hand, Sums, Lst, Ldd, Pub
    <3>4. Holders(s, I, J) = {<<"sum", q>>}
      BY <1>6, <2>1, <2>9, <3>1, <3>3
    <3> QED  BY <3>4
  <2> QED  BY <2>5, <2>6, <2>7, <2>8, <2>9
<1> QED  BY <1>15, <1>16

\* ContributionInOnePlace: on its way from the solution of one front into
\* that of another, through sums and lists and across threads, no
\* contribution is lost or added twice, in both solves.
THEOREM ContributionsCorrect == Spec => []ContributionInOnePlace
<1>1. UpdatedInv => ContributionInOnePlace
  <2> SUFFICES ASSUME UpdatedInv, NEW s \in Solve, NEW J \in Front, NEW I \in Sources(s, J),
                      phase[owners[J]] = s, phase[BlockOwner(s, J, I)] = s
               PROVE  Cardinality(Holders(s, I, J)) = 1
    BY DEF ContributionInOnePlace
  <2>1. PICK x : Holders(s, I, J) = {x}
    BY OnePlace
  <2> QED  BY <2>1, FS_Singleton
<1> QED  BY <1>1, UpdatedCorrect, PTL

-----------------------------------------------------------------------------
(* The abstract solve                                                      *)

\* The abstract matrix of a front: the published one, or the stage of the
\* sum its owner works on.
Mapped(J) == IF pMtx[J] # NoMtx THEN pMtx[J]
             ELSE [stage |-> pAgg[owners[J]][J].stage, upd |-> {}]

\* The tree is the one of the abstract solve.
LEMMA SameFronts ==
  /\ Abstract!Front = Front /\ Abstract!Nonempty = Nonempty /\ Abstract!NoMtx = NoMtx
  /\ \A J : Abstract!Updaters(J) = Updaters(J)
  /\ \A S, st : Abstract!From(S, st) = From(S, st)
<1>1. Abstract!Front = Front
  BY DEF Abstract!Front, Front
<1> QED  BY <1>1 DEF Abstract!Nonempty, Nonempty, Abstract!NoMtx, NoMtx, Abstract!Updaters,
            Updaters, Abstract!From, From

\* The stage the abstract solve sees is the one of Mapped.
LEMMA SameAt ==
  ASSUME NEW J \in Front, NEW st
  PROVE  Abstract!At(J, st) <=> Mapped(J).stage = st
  BY SameFronts DEF Abstract!At, Mapped

\* A step of the abstract solve at one front.
LEMMA AbstractStep ==
  ASSUME NEW J \in Front, NEW from, NEW to, NEW c,
         Mapped(J).stage = from, Mapped(J)' = [stage |-> to, upd |-> c],
         \A I \in Front : I # J => Mapped(I)' = Mapped(I), sol' = sol
  PROVE  Abstract!Step(J, from, to, c)
<1>1. Abstract!At(J, from)
  BY SameAt
<1>2. [I \in Front |-> Mapped(I)]' = [[I \in Front |-> Mapped(I)] EXCEPT ![J] = [stage |-> to, upd |-> c]]
  <2>1. [I \in Front |-> Mapped(I)]' = [I \in Front |-> Mapped(I)']
    OBVIOUS
  <2> QED  BY <2>1
<1> QED  BY <1>1, <1>2 DEF Abstract!Step, Mapped

\* The initial states map to initial states.
LEMMA AbstractInit == Init => Abstract!TInit
<1> SUFFICES ASSUME Init PROVE Abstract!TInit
  OBVIOUS
<1>1. \A J \in Front : Mapped(J) = IF J \in empty THEN NoMtx ELSE [stage |-> "rhs", upd |-> {}]
  <2> TAKE J \in Front
  <2>1. pMtx[J] = NoMtx /\ owners[J] \in Thread
    BY TreeAssumption DEF Init
  <2>2. pAgg[owners[J]][J] = IF J \in Nonempty THEN RhsMtx ELSE NoMtx
    BY <2>1 DEF Init
  <2> QED  BY <2>1, <2>2 DEF Mapped, Nonempty, RhsMtx, NoMtx
<1>2. sol = [J \in Front |-> NoMtx]
  BY DEF Init
<1> QED  BY <1>1, <1>2, SameFronts DEF Abstract!TInit, Mapped

-----------------------------------------------------------------------------
(* The stages of the fronts around                                         *)

\* Inside a loop a thread has not signalled its end, so nobody is beyond it.
LEMMA NoneBeyond ==
  ASSUME Typed, NEW t \in Thread, phase[t] \in Loop, pc[t] # "barrier", NEW u \in Thread
  PROVE  phase[u] \notin Later(phase[t])
<1>1. ~isDone[phase[t]][t]
  <2>1. isDone[phase[t]][t] => phase[t] \in Later(phase[t])
    BY TypedFacts DEF BarrierInv, BarriersHold
  <2> QED  BY <2>1 DEF Later, Loop
<1> QED  BY <1>1, TypedFacts DEF BarrierInv, BarriersHold, AllDone

\* Behind a loop everyone has finished it.
LEMMA AllBehind ==
  ASSUME Typed, DequeInv, NEW t \in Thread, NEW s \in Solve, phase[t] \in Later(s),
         NEW J \in Nonempty
  PROVE  phase[owners[J]] \in Later(s) \/ (phase[owners[J]] = s /\ Published(J))
<1>1. owners[J] \in Thread /\ J \in Front
  BY OwnersFit DEF Nonempty
<1>2. isDone[s][owners[J]]
  BY <1>1, TypedFacts DEF BarrierInv, BarriersHold, AllDone, Loop, Solve
<1>3. phase[owners[J]] \in Later(s) \/ (phase[owners[J]] = s /\ pc[owners[J]] = "barrier")
  BY <1>1, <1>2, TypedFacts DEF BarrierInv, BarriersHold, Loop, Solve
<1> QED  BY <1>1, <1>3 DEF DequeInv, DequeOf, LoopDone, Published

\* The stage of a front in the abstract solve.
LEMMA MappedStage ==
  ASSUME MatrixLife, NEW J \in Nonempty
  PROVE  Mapped(J).stage = IF StageOf(J) = "none" THEN HeldStage(J) ELSE StageOf(J)
<1>1. OwnedMatrix(J)
  BY DEF MatrixLife
<1>2. CASE StageOf(J) = "none"
  BY <1>1, <1>2 DEF OwnedMatrix, Mapped
<1>3. CASE StageOf(J) # "none"
  <2>1. pMtx[J].stage = StageOf(J) /\ pMtx[J] # NoMtx
    BY <1>1, <1>3, MtxNamed DEF OwnedMatrix
  <2> QED  BY <1>3, <2>1 DEF Mapped
<1> QED  BY <1>2, <1>3

\* All the fronts a published solution was computed from have been solved,
\* and none of them has gone further.
LEMMA SourcesSolved ==
  ASSUME UpdatedInv, NEW t \in Thread, Publish(t), Worker(t), NEW I \in Sources(phase[t], cur[t])
  PROVE  I \in Nonempty /\ Mapped(I).stage = FinalStage(phase[t])
<1>0. /\ Typed /\ CountedInv /\ MatrixLife /\ UsedIsSolved /\ cur[t] \in Front /\ pc[t] = "solve"
      /\ phase \in [Thread -> Phase]
  BY CountedFacts, TypedFacts DEF UpdatedInv, UpdateInv, Publish
<1> PICK J \in Front : J = cur[t]
  BY <1>0
<1>1. J \in Nonempty /\ owners[J] = t /\ phase[t] \in Solve /\ AllSent(phase[t], J)
  BY PublishComplete
<1> PICK s \in Solve : s = phase[t]
  BY <1>1
<1> DEFINE u == BlockOwner(s, J, I)
<1>2. I \in Nonempty /\ I \in Front /\ u \in Thread /\ owners[I] \in Thread
  BY TreeAssumption, SolveAssumption DEF Sources, Updaters, BlockOwner, Nonempty
<1>3. I \notin Waits(s, u, J)
  <2>1. CASE u = t
    <3>1. InHand(t, J) = {}
      BY <1>0, <1>1, SentIsMade DEF SolvedLabels
    <3>2. ~NotBegun(s, t)
      BY DEF NotBegun
    <3> QED  BY <2>1, <3>1, <3>2 DEF Waits
  <2>2. CASE u # t
    <3>1. u \in Senders(s, J)
      BY <1>1, <2>2 DEF Senders
    <3>2. ~ToSend(s, u, J)
      BY <1>1, <3>1 DEF AllSent
    <3>3. ~NotBegun(s, u) /\ (phase[u] = s => status[u][J] = "F")
      BY <1>0, <1>2, <3>2, TypedFacts DEF ToSend
    <3>4. phase[u] = s => InHand(u, J) = {}
      BY <1>2, <3>3, SentIsMade
    <3> QED  BY <3>3, <3>4 DEF Waits
  <2> QED  BY <2>1, <2>2
<1>4. Solved(s, I)
  BY <1>0, <1>3 DEF UsedIsSolved
<1>5. ~Ended(s, owners[I])
  BY <1>0, <1>2, NoneBeyond DEF Ended, Loop, Solve
<1>6. StageOf(I) = FinalStage(s)
  BY <1>4, <1>5 DEF Solved, StageOf, FinalStage, Solve
<1> QED  BY <1>0, <1>2, <1>6, MappedStage DEF FinalStage

-----------------------------------------------------------------------------
(* The steps of the abstract solve                                         *)

\* A front that is not worked on is the same in the abstract solve.
LEMMA MappedSame ==
  ASSUME NEW J \in Front, pMtx'[J] = pMtx[J],
         pMtx[J] = NoMtx => pAgg'[owners[J]][J].stage = pAgg[owners[J]][J].stage
  PROVE  Mapped(J)' = Mapped(J)
BY DEF Mapped

\* Only the front a thread visits is worked on.
LEMMA MappedOthers ==
  ASSUME Typed, NEW t \in Thread, Worker(t), NEW J \in Front, J # cur[t], pMtx'[J] = pMtx[J]
  PROVE  Mapped(J)' = Mapped(J)
<1>1. owners[J] \in Thread
  BY TreeAssumption
<1>2. pAgg'[owners[J]][J] = pAgg[owners[J]][J]
  BY <1>1, AggEffect
<1> QED  BY <1>2, MappedSame

\* The other actions leave the abstract solve as it is.
LEMMA MappedStays ==
  ASSUME UpdatedInv, NEW t \in Thread, Worker(t),
         ~(Publish(t) \/ DiagonalSolve(t) \/ DiagonalMove(t) \/ Copy(t)), NEW J \in Front
  PROVE  Mapped(J)' = Mapped(J)
<1>0. Typed /\ HandInv /\ MatrixLife /\ MtxTypes /\ owners[J] \in Thread
  BY CountedFacts, TreeAssumption DEF UpdatedInv
<1>1. pMtx' = pMtx
  BY WhoChanges
<1>2. CASE owners[J] # t
  <2>1. pAgg'[owners[J]] = pAgg[owners[J]]
    BY <1>0, <1>2, AggEffect
  <2> QED  BY <1>1, <2>1, MappedSame
<1>3. CASE J # cur[t]
  BY <1>0, <1>1, <1>3, MappedOthers
<1>4. CASE owners[J] = t /\ J = cur[t]
  <2>1. ~Decrement(t)
    BY <1>0, <1>4 DEF HandInv, HandOf, VisitOf, Decrement, SendLabels, Owned
  <2>2. CASE VisitFront(t)
    <3>1. J \in Nonempty /\ pc[t] = "visit"
      BY <1>4, <2>2 DEF VisitFront
    <3>2. phase[t] \in Solve /\ status[t][J] = "W"
      BY <1>0, <1>4, <3>1, LabelPhase, TypedFacts DEF SolveLabels, HandInv, HandOf, VisitOf
    <3>3. StageOf(J) = "none"
      BY <1>4, <3>1, <3>2 DEF StageOf, Published, Solve
    <3>4. pAgg[t][J] # NoMtx
      BY <1>0, <1>4, <3>1, <3>3, MtxNamed DEF MatrixLife, OwnedMatrix, HeldStage
    <3>5. pAgg'[t][J] = pAgg[t][J]
      BY <1>0, <1>4, <2>2, <3>4, StageKept
    <3> QED  BY <1>1, <1>4, <3>5, MappedSame
  <2>3. CASE Apply(t) \/ Assemble(t)
    <3>1. pAgg'[t][J].stage = pAgg[t][J].stage
      BY <1>0, <1>4, <2>3, StageKept
    <3> QED  BY <1>1, <1>4, <3>1, MappedSame
  <2>4. CASE ~(VisitFront(t) \/ Apply(t) \/ Assemble(t))
    <3>1. pAgg' = pAgg
      BY <2>1, <2>4, WhoChanges
    <3> QED  BY <1>1, <3>1, MappedSame
  <2> QED  BY <2>2, <2>3, <2>4
<1> QED  BY <1>2, <1>3, <1>4

\* Publish is the abstract step of its solve.
LEMMA PublishMaps ==
  ASSUME UpdatedInv, NEW t \in Thread, Publish(t), Worker(t)
  PROVE  Abstract!TNext
<1>0. /\ Typed /\ HandInv /\ CountedInv /\ MatrixLife /\ MatricesFit /\ pc[t] = "solve"
      /\ cur[t] \in Front
  BY CountedFacts, TypedFacts DEF UpdatedInv, Publish
<1> PICK J \in Front : J = cur[t]
  BY <1>0
<1>1. /\ J \in Nonempty /\ owners[J] = t /\ phase[t] \in Solve /\ ~Published(J)
      /\ pAgg[t][J].upd = From(Sources(phase[t], J), FinalStage(phase[t]))
  BY PublishComplete
<1> PICK s \in Solve : s = phase[t]
  BY <1>1
<1>2. Mapped(J).stage = HeldStage(J)
  <2>1. StageOf(J) = "none"
    BY <1>1 DEF StageOf, Solve
  <2> QED  BY <1>0, <1>1, <2>1, MappedStage
<1>3. \A I \in Front : pMtx'[I] = IF I = cur[t] THEN [pAgg[t][I] EXCEPT !.stage = SolutionOf(t)]
                                  ELSE pMtx[I]
  <2>1. NewMtx(t)
    BY <1>0, MtxEffect
  <2> QED  BY <2>1, Zenon DEF NewMtx
<1>4. Mapped(J)' = [stage |-> FinalStage(s), upd |-> From(Sources(s, J), FinalStage(s))]
  <2> DEFINE m == pAgg[t][J]
  <2>1. DOMAIN m = {"stage", "upd"} /\ m.upd = From(Sources(s, J), FinalStage(s))
    BY <1>0, <1>1 DEF MatricesFit, MatrixFields
  <2>2. SolutionOf(t) = FinalStage(s)
    BY DEF SolutionOf, FinalStage
  <2>3. pMtx'[J] = [m EXCEPT !.stage = FinalStage(s)]
    BY <1>3, <2>2
  <2> HIDE DEF m
  <2>4. [m EXCEPT !.stage = FinalStage(s)]
          = [stage |-> FinalStage(s), upd |-> From(Sources(s, J), FinalStage(s))]
    <3>1. [m EXCEPT !.stage = FinalStage(s)] =
            [f \in {"stage", "upd"} |-> IF f = "stage" THEN FinalStage(s) ELSE m[f]]
      BY <2>1
    <3>2. [stage |-> FinalStage(s), upd |-> From(Sources(s, J), FinalStage(s))] =
            [f \in {"stage", "upd"} |-> IF f = "stage" THEN FinalStage(s) ELSE m[f]]
      BY <2>1
    <3> QED  BY <3>1, <3>2
  <2>5. pMtx'[J].stage = FinalStage(s)
    BY <2>3, <2>4
  <2>6. pMtx'[J] # NoMtx
    BY <2>5, MtxNamed DEF FinalStage
  <2> QED  BY <2>3, <2>4, <2>6 DEF Mapped
<1>5. \A I \in Front : I # J => Mapped(I)' = Mapped(I)
  BY <1>0, <1>3, MappedOthers
<1>6. sol' = sol
  BY DEF Publish
<1>7. Abstract!Step(J, HeldStage(J), FinalStage(s), From(Sources(s, J), FinalStage(s)))
  BY <1>2, <1>4, <1>5, <1>6, AbstractStep
<1>8. \A I \in Sources(s, J) : I \in Front /\ Mapped(I).stage = FinalStage(s)
  BY SourcesSolved DEF Nonempty
<1>9. \A I \in Sources(s, J) : Abstract!At(I, FinalStage(s))
  BY <1>8, SameAt
<1>10. CASE s = "forward"
  <2>1. HeldStage(J) = "rhs" /\ FinalStage(s) = "y" /\ Sources(s, J) = Updaters(J)
    BY <1>1, <1>10 DEF HeldStage, FinalStage, Sources
  <2>2. Abstract!SolveForward(J)
    BY <1>7, <1>9, <2>1, SameFronts DEF Abstract!SolveForward
  <2> QED  BY <1>1, <2>2, SameFronts DEF Abstract!TNext
<1>11. CASE s = "backward"
  <2>1. HeldStage(J) = "z" /\ FinalStage(s) = "x" /\ Sources(s, J) = bnd[J]
    BY <1>1, <1>11 DEF HeldStage, FinalStage, Sources
  <2>2. Abstract!SolveBackward(J)
    BY <1>7, <1>9, <2>1, SameFronts DEF Abstract!SolveBackward
  <2> QED  BY <1>1, <2>2, SameFronts DEF Abstract!TNext
<1> QED  BY <1>10, <1>11 DEF Solve

\* DiagonalSolve is the abstract step of the diagonal block, and nothing for
\* a front without columns.
LEMMA DiagonalMaps ==
  ASSUME UpdatedInv, NEW t \in Thread, DiagonalSolve(t), Worker(t)
  PROVE  sol' = sol /\ (Abstract!TNext \/ \A I \in Front : Mapped(I)' = Mapped(I))
<1>0. /\ Typed /\ DequeInv /\ HandInv /\ MatrixLife /\ pc[t] = "diagonal" /\ todo[t] # {}
      /\ todo[t] \in SUBSET Front /\ pAgg' = pAgg /\ sol' = sol
      /\ phase \in [Thread -> Phase]
  BY CountedFacts, TypedFacts DEF UpdatedInv, DiagonalSolve
<1>1. Least(todo[t]) \in todo[t]
  BY <1>0, LeastIn
<1> PICK J \in Front : J = Least(todo[t])
  BY <1>0, <1>1
<1>2. phase[t] = "diagonal" /\ owners[J] = t
  <2>1. phase[t] = "diagonal"
    BY <1>0, LabelPhase, TypedFacts DEF DiagonalLabels, MoveLabels
  <2> QED  BY <1>0, <1>1, <2>1, TypedFacts DEF WorkFits, WorkOf, OwnedFronts
<1>3. \A I \in Front : pMtx'[I] = IF I = Least(todo[t]) /\ pMtx[I] # NoMtx
                                  THEN [stage |-> "z", upd |-> {}] ELSE pMtx[I]
  <2>1. NewMtx(t)
    BY <1>0, MtxEffect
  <2> QED  BY <2>1, Zenon DEF NewMtx
<1>4. \A I \in Front : I # J => Mapped(I)' = Mapped(I)
  BY <1>0, <1>3, MappedSame
<1>5. CASE pMtx[J] = NoMtx
  <2>1. Mapped(J)' = Mapped(J)
    BY <1>0, <1>3, <1>5, MappedSame
  <2> QED  BY <1>0, <1>4, <2>1
<1>6. CASE pMtx[J] # NoMtx
  <2>1. J \in Nonempty
    BY <1>0, <1>6 DEF MatrixLife, Nonempty
  <2>2. Mapped(J).stage = "y"
    <3>1. StageOf(J) = "y"
      BY <1>1, <1>2 DEF StageOf
    <3> QED  BY <1>0, <2>1, <3>1, MappedStage
  <2>3. Mapped(J)' = [stage |-> "z", upd |-> {}]
    BY <1>3, <1>6, MtxNamed DEF Mapped
  <2>4. Abstract!Step(J, "y", "z", {})
    BY <1>0, <1>4, <2>2, <2>3, AbstractStep
  <2>5. ASSUME NEW K \in bnd[J] PROVE ~Abstract!At(K, "rhs")
    <3>1. K \in Nonempty /\ K \in Front /\ owners[K] \in Thread
      BY TreeAssumption, SolveAssumption DEF Nonempty
    <3>2. \/ phase[owners[K]] \in Later("forward")
          \/ phase[owners[K]] = "forward" /\ Published(K)
      BY <1>0, <1>2, <3>1, AllBehind DEF Later, Solve
    <3>3. Mapped(K).stage # "rhs"
      <4>1. CASE phase[owners[K]] = "forward" /\ Published(K)
        <5>1. StageOf(K) = "y"
          BY <4>1 DEF StageOf
        <5> QED  BY <1>0, <3>1, <5>1, MappedStage
      <4>2. CASE phase[owners[K]] \in Later("forward")
        <5>1. HeldStage(K) = "z"
          BY <4>2 DEF HeldStage, Later
        <5>2. StageOf(K) # "rhs"
          BY DEF StageOf
        <5> QED  BY <1>0, <3>1, <5>1, <5>2, MappedStage
      <4> QED  BY <3>2, <4>1, <4>2
    <3> QED  BY <3>1, <3>3, SameAt
  <2>6. Abstract!SolveDiagonal(J)
    BY <2>4, <2>5 DEF Abstract!SolveDiagonal
  <2> QED  BY <1>0, <2>1, <2>6, SameFronts DEF Abstract!TNext
<1> QED  BY <1>5, <1>6

\* DiagonalMove hands a matrix over to its owner, as it is.
LEMMA MoveMaps ==
  ASSUME UpdatedInv, NEW t \in Thread, DiagonalMove(t), Worker(t), NEW I \in Front
  PROVE  Mapped(I)' = Mapped(I)
<1>0. /\ Typed /\ HandInv /\ MatrixLife /\ MtxTypes /\ pc[t] = "diagonalMove" /\ cur[t] \in Front
  BY CountedFacts, TypedFacts DEF UpdatedInv, DiagonalMove
<1> PICK J \in Front : J = cur[t]
  BY <1>0
<1>1. /\ phase[t] = "diagonal" /\ owners[J] = t /\ J \notin todo[t]
  <2>1. phase[t] = "diagonal"
    BY <1>0, LabelPhase, TypedFacts DEF DiagonalLabels, MoveLabels
  <2> QED  BY <1>0, <2>1, TypedFacts DEF WorkFits, WorkOf, OwnedFronts, MoveLabels,
           HandInv, HandOf, LeftOf
<1>2. /\ \A K \in Front : pMtx'[K] = IF K = cur[t] THEN NoMtx ELSE pMtx[K]
      /\ pAgg'[t][cur[t]] = pMtx[cur[t]]
  <2>1. NewMtx(t) /\ NewAgg(t)
    BY <1>0, MtxEffect, AggEffect
  <2> QED  BY <2>1, Zenon DEF NewMtx, NewAgg
<1>3. CASE I # J
  BY <1>0, <1>2, <1>3, MappedOthers
<1>4. CASE I = J /\ J \in Nonempty
  <2>1. pMtx[J].stage = "z" /\ pMtx[J].upd = {}
    <3>1. StageOf(J) = "z"
      BY <1>0, <1>1 DEF StageOf
    <3>2. pMtx[J].stage = "z"
      BY <1>0, <1>4, <3>1 DEF MatrixLife, OwnedMatrix
    <3>3. DiagonalOf(J)
      BY <1>4 DEF UpdatedInv, UpdateInv
    <3> QED  BY <1>1, <3>2, <3>3 DEF DiagonalOf
  <2>2. pMtx[J] # NoMtx /\ pMtx[J] \in Mtx
    BY <1>0, <2>1, MtxNamed DEF MtxTypes
  <2>3. pMtx[J] = [stage |-> "z", upd |-> {}]
    BY <2>1, <2>2 DEF Mtx
  <2>4. Mapped(J) = [stage |-> "z", upd |-> {}]
    BY <2>2, <2>3 DEF Mapped
  <2>5. Mapped(J)' = [stage |-> pAgg'[t][J].stage, upd |-> {}]
    BY <1>1, <1>2 DEF Mapped
  <2> QED  BY <1>2, <1>4, <2>1, <2>4, <2>5
<1>5. CASE I = J /\ J \in empty
  <2>1. pMtx[J] = NoMtx /\ pAgg[t][J] = NoMtx
    BY <1>0, <1>5 DEF MatrixLife
  <2>2. pMtx'[J] = pMtx[J] /\ pAgg'[owners[J]][J].stage = pAgg[owners[J]][J].stage
    BY <1>1, <1>2, <2>1
  <2> QED  BY <1>5, <2>2, MappedSame
<1> QED  BY <1>3, <1>4, <1>5 DEF Nonempty

\* Copy is the abstract store.
LEMMA CopyMaps ==
  ASSUME UpdatedInv, NEW t \in Thread, Copy(t), Worker(t)
  PROVE  Abstract!TNext
<1>0. /\ Typed /\ DequeInv /\ HandInv /\ MatrixLife /\ MatricesFit /\ pc[t] = "copy" /\ todo[t] # {}
      /\ todo[t] \in SUBSET Front /\ pAgg' = pAgg
  BY CountedFacts, TypedFacts DEF UpdatedInv, Copy
<1>1. Least(todo[t]) \in todo[t]
  BY <1>0, LeastIn
<1> PICK J \in Front : J = Least(todo[t])
  BY <1>0, <1>1
<1>2. phase[t] = "store" /\ owners[J] = t
  <2>1. phase[t] = "store"
    BY <1>0, LabelPhase, TypedFacts DEF StoreLabels
  <2> QED  BY <1>0, <1>1, <2>1 DEF HandInv, HandOf, LeftOf, OwnedFronts
<1>3. pMtx[J] # NoMtx /\ sol' = [sol EXCEPT ![J] = pMtx[J]]
  BY DEF Copy
<1>4. J \in Nonempty
  BY <1>0, <1>3 DEF MatrixLife, Nonempty
<1>5. \A I \in Front : pMtx'[I] = IF I = Least(todo[t]) THEN [pMtx[I] EXCEPT !.stage = "released"]
                                  ELSE pMtx[I]
  <2>1. NewMtx(t)
    BY <1>0, MtxEffect
  <2> QED  BY <2>1, Zenon DEF NewMtx
<1>6. \A I \in Front : I # J => Mapped(I)' = Mapped(I)
  BY <1>0, <1>5, MappedSame
<1>7. Mapped(J) = pMtx[J] /\ Mapped(J).stage = "x"
  <2>1. StageOf(J) = "x"
    BY <1>1, <1>2 DEF StageOf
  <2>2. Mapped(J).stage = "x"
    BY <1>0, <1>4, <2>1, MappedStage
  <2> QED  BY <1>3, <2>2 DEF Mapped
<1>8. Mapped(J)' = [Mapped(J) EXCEPT !.stage = "released"]
  <2>1. pMtx'[J] = [pMtx[J] EXCEPT !.stage = "released"] /\ DOMAIN pMtx[J] = MatrixFields
    BY <1>0, <1>5 DEF MatricesFit
  <2>2. pMtx'[J].stage = "released"
    BY <2>1, MtxStage
  <2>3. pMtx'[J] # NoMtx
    BY <2>2, MtxNamed
  <2> QED  BY <1>7, <2>1, <2>3 DEF Mapped
<1>9. [I \in Front |-> Mapped(I)]' =
        [[I \in Front |-> Mapped(I)] EXCEPT ![J].stage = "released"]
  <2>1. [I \in Front |-> Mapped(I)]' = [I \in Front |-> Mapped(I)']
    OBVIOUS
  <2> QED  BY <1>6, <1>8, <2>1
<1>10. ASSUME NEW I \in Updaters(J) PROVE Abstract!At(I, "x") \/ Abstract!At(I, "released")
  <2>1. I \in Nonempty /\ I \in Front /\ owners[I] \in Thread
    BY TreeAssumption, SolveAssumption DEF Updaters, Nonempty
  <2>2. \/ phase[owners[I]] = "store"
        \/ phase[owners[I]] = "backward" /\ Published(I)
    BY <1>0, <1>2, <2>1, AllBehind DEF Later, Solve
  <2>3. StageOf(I) \in {"x", "released"}
    BY <2>2 DEF StageOf
  <2>4. Mapped(I).stage \in {"x", "released"}
    BY <1>0, <2>1, <2>3, MappedStage
  <2> QED  BY <2>1, <2>4, SameAt
<1>11. Abstract!At(J, "x")
  BY <1>7, SameAt
<1>12. sol' = [sol EXCEPT ![J] = [I \in Front |-> Mapped(I)][J]]
  BY <1>3, <1>7
<1>13. Abstract!StoreSolution(J)
  BY <1>9, <1>10, <1>11, <1>12, SameFronts DEF Abstract!StoreSolution, Mapped
<1> QED  BY <1>4, <1>13, SameFronts DEF Abstract!TNext

\* RefinesTriangularSolve: the threads together compute what the abstract
\* solve does.  Every solution is formed once, from the final solutions of
\* exactly the fronts it needs, before any of them is changed in place.
THEOREM RefinesTriangularSolveCorrect == Spec => RefinesTriangularSolve
<1>1. UpdatedInv /\ [Next]_vars => [Abstract!TNext]_(Abstract!tvars)
  <2> SUFFICES ASSUME UpdatedInv, [Next]_vars PROVE [Abstract!TNext]_(Abstract!tvars)
    OBVIOUS
  <2>1. (\A I \in Front : Mapped(I)' = Mapped(I)) /\ sol' = sol => UNCHANGED Abstract!tvars
    <3> SUFFICES ASSUME \A I \in Front : Mapped(I)' = Mapped(I), sol' = sol
                 PROVE  UNCHANGED Abstract!tvars
      OBVIOUS
    <3>1. [I \in Front |-> Mapped(I)]' = [I \in Front |-> Mapped(I)']
      OBVIOUS
    <3>2. [I \in Front |-> Mapped(I)]' = [I \in Front |-> Mapped(I)]
      BY <3>1
    <3> QED  BY <3>2 DEF Abstract!tvars, Mapped
  <2>2. ASSUME NEW t \in Thread, Worker(t) PROVE [Abstract!TNext]_(Abstract!tvars)
    <3>1. CASE Publish(t)
      BY <2>2, <3>1, PublishMaps
    <3>2. CASE DiagonalSolve(t)
      BY <2>1, <2>2, <3>2, DiagonalMaps
    <3>3. CASE DiagonalMove(t)
      <4>1. sol' = sol
        BY <3>3 DEF DiagonalMove
      <4> QED  BY <2>1, <2>2, <3>3, <4>1, MoveMaps
    <3>4. CASE Copy(t)
      BY <2>2, <3>4, CopyMaps
    <3>5. CASE ~(Publish(t) \/ DiagonalSolve(t) \/ DiagonalMove(t) \/ Copy(t))
      <4>1. sol' = sol
        BY <2>2, <3>5, WhoElse
      <4> QED  BY <2>1, <2>2, <3>5, <4>1, MappedStays
    <3> QED  BY <3>1, <3>2, <3>3, <3>4, <3>5
  <2>3. CASE UNCHANGED <<pAgg, pMtx, sol>>
    BY <2>1, <2>3 DEF Mapped
  <2> QED  BY <2>2, <2>3 DEF Next, Join, Returned, vars, shared
<1> QED  BY <1>1, AbstractInit, UpdatedCorrect, PTL DEF Spec, RefinesTriangularSolve, Abstract!TSpec
=============================================================================
