\* The node's own lnd and one of another node that may take the port.
CONSTANTS
  Own = own
  Others = {rival}
SPECIFICATION FairSpec
INVARIANTS TypeOK NothingMissed
PROPERTIES ImplementsLndWait ReceiversEnd StartEnds
CHECK_DEADLOCK FALSE
