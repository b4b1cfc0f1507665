SPECIFICATION Spec
CONSTANTS
  Values <- TheValues
  Kind <- TheKinds
  Elems <- TheElems
  Apply <- TheApply
  Throws = {"bad"}
  Garbled = {"raw"}
  Buildable = {"set"}
  Roots = {"set", "bad"}
  MaxHeld = 2
  MaxItems = 1
INVARIANTS
  TypeOK
  RefsMatchHandles
  OutcomeIsOwn
  
  IterationFaithful
