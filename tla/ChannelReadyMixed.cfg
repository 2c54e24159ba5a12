\* A cln node that polls before an lnd node.
CONSTANTS
  Rounds = 1
  MaxOther = 0
SPECIFICATION FairSpec
PROPERTIES BecomesReady
CHECK_DEADLOCK FALSE
