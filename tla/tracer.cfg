SPECIFICATION FairSpec
CONSTANTS
  Paths <- Files
  Tracked <- NotStore
  Fds = {4, 5}
  Syscalls = {"open", "read", "getdents", "close", "socket"}
  MaxCalls = 4
  Hazards = {"kill", "signal", "foreign", "panic", "oversized"}
INVARIANTS
  TypeOK
  ReadsRecorded
  SyscallParity
  DescriptorsAccurate
PROPERTIES
  ImplementsTracedRun
  CallEnds
CHECK_DEADLOCK FALSE
