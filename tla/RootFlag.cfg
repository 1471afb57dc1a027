SPECIFICATION Spec
CONSTANTS
  nfront = 4
  nthread = 2
  par <- ForestPar
  bnd <- ForestBnd
  owners <- ForestOwners
  rootseq <- ForestRoots
  Pivoting = TRUE
  lookahead = 0
INVARIANT RootDataReturned
