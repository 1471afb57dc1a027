SPECIFICATION Spec
CONSTANTS
  nfront = 12
  nthread = 3
  par <- ForestPar
  bnd <- ForestBnd
  owners <- ForestOwners
  rootseq <- ForestRoots
INVARIANTS
  SetupInv
  LinkedOnce
  AggListBuilt
  PostListBuilt
