SPECIFICATION FairSpec
CONSTANTS
  c1 = c1
  c2 = c2
  c3 = c3
  c4 = c4
  r1 = r1
  r2 = r2
  NoReply = NoReply
  NoCall = NoCall
  Calls = {c1, c2, c3, c4}
  Replies = {r1, r2}
  Tool <- AllKinds
  Registered <- MainRegistry
  Risky = {c2}
  Cancellable = {c2}
  MaxRestarts = 1
CHECK_DEADLOCK FALSE
INVARIANTS
  ExecutedOnlyIfApproved
  ApprovedAsShown
  PendingExact
PROPERTIES
  FirstReplyKept
  EverySuspensionEnds
  EveryReplyAnswered
  GateSpec
