SPECIFICATION Spec
CONSTANTS
  Users = {alice, bob, carol}
  Rich = {alice, bob}
  Null = null
  Treasury = treasury
  NoEscrow = none
  Full = 4
  GenesisVests = 4
  Balance0 = 4
  Power0 = 2
  Fund0 = 8
  ContentPercent = 1
  VestingPercent = 1
  SpsPercent = 1
  MaxWitnesses = 2
  ElectedWeight = 1
  TimeshareWeight = 3
  Normalization = 3
  CurationPercent = 2
  Fee = 1
  Amounts = {2}
  Shares = {3, 5}
  Percents = {0, 2}
  Comments <- MCComments
  alice = alice
  bob = bob
  carol = carol
  NewBlurt = {4}
  MaxSupply = 26
  MaxRequests = 1
  MaxRoutes = 2
  MaxOps = 3
INVARIANT
  SupplyMatches
