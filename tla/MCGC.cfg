CONSTANTS
  Obj = {a, b, c}
  Slot = {s1}
  Var = {v, w}
  NULL = NULL
  MaxRoots = 1
SPECIFICATION Spec
INVARIANTS RefCountExact NoDangling OnlyGarbageIsTaken
PROPERTIES CollectionIsComplete HeapIsPreserved CallsEnd
