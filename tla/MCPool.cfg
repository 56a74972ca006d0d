SPECIFICATION Spec
CONSTANTS
  Tx <- MCTx
  Expiration <- MCExpiration
  Size <- MCSize
  Needs <- MCNeeds
  Conflicts <- MCConflicts
  MaxUntil = 3
  MaxBlockSize = 4
  HeaderSize = 1
  Reserve = 1
  PostponedLimit = 0
  MaxTime = 4
  MaxRestarts = 1
  MaxHeight = 3
  MaxBlockTxs = 2
  MaxPending = 2
INVARIANTS AppliedOnceUnlessReplayed PoolKept GeneratedBlockApplies
