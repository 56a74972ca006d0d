CONSTANTS
  Addresses <- MCAddresses
  Healthy = {"a"}
  FailoverThreshold = 1
  Codes = {"none", "failover", "other"}
  Options <- MCOptions
  Mode = "Irreversible"
  MaxSends = 1
  MaxLib = 3
SPECIFICATION Spec
INVARIANTS EffectsAsReported HealthyEndpointFound StreamCorrect
PROPERTY Settles
CHECK_DEADLOCK FALSE
