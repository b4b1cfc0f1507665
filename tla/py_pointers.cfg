SPECIFICATION Spec
CONSTANTS
  Threads = {"t1", "t2"}
  Objects <- TheObjects
  Kind <- TheKinds
  Pointer <- ThePointers
  Leaves = {"plain", "custom", "foreign", "nul"}
  Arguments <- CallbackOnly
  Free = "nobody"
  MaxOps = 2
  MaxDepth = 2
INVARIANTS
  OneThreadPerPointer
