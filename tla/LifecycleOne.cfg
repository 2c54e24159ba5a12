\* One node, of any kind, two goroutines, three incarnations.
CONSTANTS
  Miners = {miner}
  LndNodes = {lnd}
  ClnNodes = {cln}
  Goroutines = {main, helper}
  Main = main
  NoNode = NoNode
  MaxNodes = 1
  MaxSpawn = 3
SPECIFICATION Spec
INVARIANTS StartedWasReady WalletInStep LogInStep MinerLeavesNothing
CHECK_DEADLOCK FALSE
PROPERTIES ImplementsHandle
