SPECIFICATION Spec
CONSTANTS
  Content <- TheContent
  Broken <- TheBroken
  Algorithms = {"r:sha256"}
  StorePaths = {"p1", "p2"}
  Texts <- TheTexts
  DrvName = "x"
  Drvs <- TheDrvs
INVARIANTS
  TypeOK
  NothingLost
  GrammarAccepted
  PanicIsMalformed
  DoneIsClean
  
