\* Either kind on either side, one hop or three, heights below and above what
\* Hop.Delay holds, a deadline of a second and a half.
CONSTANTS
  HeightWidth = 4
  TxWidth = 4
  OutWidth = 4
  FieldWidth = 8
  DelayWidth = 8
  Places = 2
  AmountMsat = 100
  FeeMsat = 7
  Routes = {1, 3}
  Tips = {2, 20}
  Funds = {5, 100, 205, 350}
  Deadline = 3
  MaxTries = 2
SPECIFICATION FairSpec
INVARIANTS TypeOK ResultIsTrue RouteKept FundedExactly GivesUpInTime
PROPERTIES ImplementsPromise CallsEnd
CHECK_DEADLOCK FALSE
