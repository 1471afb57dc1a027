SPECIFICATION FairSpec
CONSTANTS
  nfront = 5
  nthread = 2
  par <- TwoPar
  bnd <- TwoBnd
  owners <- TwoOwners
  rootseq <- OneRoot
  Pivoting = FALSE
  lookahead = 0
INVARIANT NoErrorMeansComplete
PROPERTY Termination
