SPECIFICATION FairSpec
CONSTANTS
  Threads = {"t1", "t2"}
  Objects <- TheObjects
  Kind <- TheKinds
  Pointer <- ThePointers
  Leaves = {"plain", "custom", "foreign", "nul"}
  Arguments <- TheArguments
  Free = "nobody"
  MaxOps = 3
  MaxDepth = 2
INVARIANTS
  TypeOK
  LocksAreCalls
  PoisonKeepsOut
  
  ArgumentsWhole
PROPERTIES
  CallsEnd
