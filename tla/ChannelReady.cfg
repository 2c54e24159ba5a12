\* Both kinds of node at both ends, the channel is waited for twice.
CONSTANTS
  Rounds = 2
  MaxOther = 2
SPECIFICATION FairSpec
INVARIANTS TypeOK ReadyOnBothEnds
PROPERTIES SyncCatchesUp EndBecomesReady EndsAfterDeadline
CHECK_DEADLOCK FALSE
