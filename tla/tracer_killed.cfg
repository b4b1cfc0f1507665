SPECIFICATION FairSpec
CONSTANTS
  Paths <- Files
  Tracked <- NotStore
  Fds = {4, 5}
  Syscalls = {"open", "read", "getdents", "close", "socket"}
  MaxCalls = 2
  Hazards = {"kill"}
PROPERTIES
  KilledIsReported
CHECK_DEADLOCK FALSE
