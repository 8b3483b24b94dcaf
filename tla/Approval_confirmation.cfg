SPECIFICATION Spec
CONSTANTS
  c1 = c1
  c2 = c2
  c3 = c3
  c4 = c4
  r1 = r1
  r2 = r2
  NoReply = NoReply
  NoCall = NoCall
  Calls = {c1}
  Replies = {r1}
  Tool <- OneGated
  Registered <- MainRegistry
  Risky = {}
  Cancellable = {}
  MaxRestarts = 0
CHECK_DEADLOCK FALSE
INVARIANT ConfirmationIsTrue
