SPECIFICATION FairSpec
CONSTANTS
  p1 = p1
  p2 = p2
  a1 = a1
  a2 = a2
  Procs = {p1}
  Files = {1, 2, 3}
  Mains = {1}
  Attrs = {a1, a2}
  Bytes <- ThreeContents
  Absent = Absent
  Imports <- TheImports
  Broken <- TheBroken
  PathClass <- TheClasses
  HomeKnown = TRUE
  PathOrder <- TheOrder
  Edits <- ForwardEdits
  Volatile = {1, 2}
  MaxEdits = 2
  MaxCalls = 3
  Faults = {}
INVARIANTS
  MissIsJustified
  ErrorIsJustified
PROPERTIES
  ImplementsTracedRuns
  CallTerminates
