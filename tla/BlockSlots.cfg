SPECIFICATION Spec
CONSTANTS
  Witness = {w1, w2, w3}
  InitMiner = w1
  Interval = 2
  GenesisTime = 2
  SlotBits = 3
  MaxWitnesses = 3
  Threshold = 60
  MaxUndoHistory = 6
  MaxTime = 22
  MaxHeight = 7
INVARIANT SlotsCounted
PROPERTY BackedByThreshold
CHECK_DEADLOCK FALSE
