SPECIFICATION Spec
CONSTANTS
  Value = {1, 2}
  maxroom = 4
INVARIANT TypeOK
PROPERTY RefinesDeque
