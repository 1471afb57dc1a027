SPECIFICATION FairSpec
CONSTANTS
  nfront = 5
  nthread = 3
  par <- ForkPar
  bnd <- ForkBnd
  owners <- ForkOwners
  rootseq <- ForkRoot
  empty <- ForkEmpty
  mapUpper <- ForkUpper
  mapLower <- ForkLower
INVARIANTS
  TypeOK
  BarriersHold
  ReadersSeeFinished
  ContributionInOnePlace
  AggCountsAreExact
  NoFrontIsDropped
PROPERTIES
  RefinesTriangularSolve
  Termination
