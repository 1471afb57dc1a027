SPECIFICATION Spec
CONSTANTS
  nfront = 5
  nthread = 2
  par <- TwoPar
  bnd <- TwoBnd
  owners <- TwoOwners
  rootseq <- OneRoot
  Pivoting = FALSE
  lookahead = 1
INVARIANT NoErrorMeansComplete
