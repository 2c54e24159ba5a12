\* Two nodes of any two kinds, two goroutines, one incarnation each.
CONSTANTS
  Miners = {miner}
  LndNodes = {lnd}
  ClnNodes = {cln}
  Goroutines = {main, helper}
  Main = main
  NoNode = NoNode
  MaxNodes = 2
  MaxSpawn = 1
SPECIFICATION FairSpec
INVARIANTS TypeOK NoStrayProcess
PROPERTIES TearDownStopsEach CallsReturn TearDownReturns NothingOutlivesTearDown
CHECK_DEADLOCK FALSE
