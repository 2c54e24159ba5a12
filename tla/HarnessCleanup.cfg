\* Every set of operations that may fail.
CONSTANTS
  LogFiles = 2
  Cleanables = 2
  MayFail = {"mkdirall", "open", "create", "copy", "mkdirtemp", "save",
             "cleanable", "removeall", "mkdir", "restore", "removetemp"}
SPECIFICATION FairSpec
INVARIANTS TypeOK StateKept CleanedUp LogsPreserved
PROPERTIES Completes
CHECK_DEADLOCK FALSE
