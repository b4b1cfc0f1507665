SPECIFICATION SpecFromA
CONSTANTS
  p1 = p1
  p2 = p2
  a1 = a1
  a2 = a2
  Procs = {p1, p2}
  Files = {1, 2}
  Mains = {1}
  Attrs = {a1}
  Bytes <- TwoContents
  Absent = Absent
  Imports <- TheImports
  Broken = {}
  PathClass <- TheClasses
  HomeKnown = TRUE
  PathOrder <- TheOrder
  Edits <- QuietDepEdits
  Volatile = {1}
  MaxEdits = 2
  MaxCalls = 3
  Faults = {"crash", "db", "kill"}
SYMMETRY ProcSymmetry
INVARIANTS
  TypeOK
  FreshResult
  PartialRowNeverServed
  MissIsJustified
  ConflictIsJustified

  
