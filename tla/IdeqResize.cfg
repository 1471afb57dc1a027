SPECIFICATION ResizeSpec
CONSTANTS
  Value = {1, 2}
  maxroom = 5
PROPERTY ResizeKeepsData
CHECK_DEADLOCK FALSE
