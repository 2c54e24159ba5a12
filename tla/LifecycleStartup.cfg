\* A miner and one goroutine: rpc.StartUp without a deadline.
CONSTANTS
  Miners = {miner}
  LndNodes = {}
  ClnNodes = {}
  Goroutines = {main}
  Main = main
  NoNode = NoNode
  MaxNodes = 1
  MaxSpawn = 1
SPECIFICATION FairSpec
PROPERTIES CallsCutOff
CHECK_DEADLOCK FALSE
