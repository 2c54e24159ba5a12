\* A second start; the daemon writes three lines to its log, whole or in
\* pieces, and three to a pipe that takes one.
CONSTANTS
  TimesStarted = 1
  Earlier = 1
  MaxLines = 3
  Capacity = 1
  MaxPrints = 3
SPECIFICATION OutputSpec
INVARIANTS OutputTypeOK CountsConsumed
PROPERTIES ImplementsLogWait ReadyIsFound WaitIsCutOff DaemonNotHeldUp ScannersEnd
CHECK_DEADLOCK FALSE
