SPECIFICATION Spec
CONSTANTS
  ann = ann
  bob = bob
  Users = {ann, bob}
  Threads = {t1, t2}
  Scenarios <- MCScenarios
  None = None
INVARIANTS
  TypeOK
  RepliesInOrder
  NoTweetLost
PROPERTY Settles
CHECK_DEADLOCK FALSE
