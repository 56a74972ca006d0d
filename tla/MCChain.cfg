SPECIFICATION FairSpec
CONSTANTS
  Label = {"a", "b", "c", "d"}
  Block <- MCBlock
  Valid <- MCValid
  Lib <- MCLib
  InitMaxSize = 8
  Redelivery = FALSE
  MaxCrashes = 2
INVARIANT LogIsIrreversibleChain
PROPERTIES IrreversibleStays SwitchAllOrNothing PushEnds
CHECK_DEADLOCK FALSE
