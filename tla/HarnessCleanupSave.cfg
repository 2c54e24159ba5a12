\* The temporary directory is on another file system: os.Rename fails.
CONSTANTS
  LogFiles = 1
  Cleanables = 1
  MayFail = {"save"}
SPECIFICATION Spec
INVARIANTS LogsSaved
CHECK_DEADLOCK FALSE
