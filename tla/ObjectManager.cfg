CONSTANTS
  Thread = {0, 1}
  Object = {o1, o2, o3}
  Bytes = {1, 2}
  NULL = NULL
  NoOne = NoOne
SPECIFICATION Spec
INVARIANTS TypeOK ObjectInOnePlace FreeListSorted ListsIntact
PROPERTIES WalkEnds KeepsPromise
