CONSTANTS
  User = {"alice", "bob"}
  Key = {"ap", "aa", "ao", "am", "bk", "bo"}
  KeyOf <- MCKeyOf
  Login <- MCLogin
  Op = {"claim", "transfer"}
  PostingOp = {"claim"}
  ConfirmOp = {"transfer"}
  UnsafeOp = {"transfer"}
  TransferOp = {"transfer"}
  WitnessOp = {}
  Callbacks <- MCCallbacks
  MaxLogins = 2
  Slot = {1, 2, 3}
  MaxSockets = 3
  MaxId = 6
  MaxNum = 4
  Endpoints <- MCEndpoints
  Urls = {"a", "b", "c", "d"}
  Thresholds = {1, 3}
  Method = {"read", "broadcast"}
  Broadcast = {"broadcast"}
  HttpRequest = {r1, r2}
  Retries = 1
SPECIFICATION Spec
INVARIANTS SignedForItsAccount SavedLoginIsLow KeysLeave CalledBackOnce
  OwnAnswer AnsweredUnlessBroken ConsecutiveNumbers
PROPERTY FailoverMoves
CHECK_DEADLOCK FALSE
