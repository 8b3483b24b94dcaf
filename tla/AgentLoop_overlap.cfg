SPECIFICATION Spec
CONSTANTS
  r1 = r1
  r2 = r2
  s1 = s1
  chat = chat
  NoCall = NoCall
  MaxSubTurns = 2
  Runs = {r1, r2}
  Subs = {}
  Sessions = {chat}
  Chat <- OneChat
  Limit = 20
  MaxCalls = 1
  MaxTurns = 2
  Thinking = FALSE
  Serial = FALSE
CHECK_DEADLOCK FALSE
INVARIANT SentWellFormed
