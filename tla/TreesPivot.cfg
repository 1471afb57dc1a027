SPECIFICATION FairSpec
CONSTANTS
  nfront = 5
  nthread = 2
  par <- TreesPar
  bnd <- TreesBnd
  owners <- TreesOwners
  rootseq <- TreesRoots
  Pivoting = TRUE
  lookahead = 1
INVARIANTS
  RootDataReturned
  TypeOK
  NoFrontIsDropped
PROPERTIES
  StoredOnce
  Termination
