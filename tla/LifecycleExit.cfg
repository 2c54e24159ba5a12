\* The exit through log.Fatalf: a miner and an lnd node, one goroutine.
CONSTANTS
  Miners = {miner}
  LndNodes = {lnd}
  ClnNodes = {}
  Goroutines = {main}
  Main = main
  NoNode = NoNode
  MaxNodes = 2
  MaxSpawn = 1
SPECIFICATION FairSpec
PROPERTIES NothingOutlivesTest
CHECK_DEADLOCK FALSE
