SPECIFICATION Spec
CONSTANTS
  nfront = 5
  nthread = 3
  par <- ThreePar
  bnd <- ThreeBnd
  owners <- ThreeOwners
  rootseq <- OneRoot
  Pivoting = TRUE
  lookahead = 0
INVARIANTS
  UpdateInOnePlace
  AggCountsAreExact
  PostCountsAreExact
PROPERTY RefinesMultifrontal
