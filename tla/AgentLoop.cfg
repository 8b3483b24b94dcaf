SPECIFICATION FairSpec
CONSTANTS
  r1 = r1
  r2 = r2
  s1 = s1
  chat = chat
  NoCall = NoCall
  MaxSubTurns = 2
  Runs = {r1, r2}
  Subs = {s1}
  Sessions = {chat}
  Chat <- OneChat
  Limit = 3
  MaxCalls = 2
  MaxTurns = 2
  Thinking = TRUE
  Serial = TRUE
CHECK_DEADLOCK FALSE
INVARIANTS
  SentWellFormed
  RestingWellFormed
  Isolated
  DelegationNested
PROPERTIES
  TurnCompletes
  DialogueSpec
