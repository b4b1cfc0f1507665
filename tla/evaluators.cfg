SPECIFICATION Spec
CONSTANTS
  Threads = {1, 2}
  Keys <- TheKeys
  Stack = "stack"
  Features = "features"
  Values <- TheValues
  Default = "none"
  Flakes = "flakes"
  Garbage = "garbage"
  Capped <- TheCaps
  Asks <- TheAsks
  Bounds <- TheBounds
INVARIANTS
  TypeOK
  OneOwner
  UsersFreedFirst
  
  OwnUnlessRaced
