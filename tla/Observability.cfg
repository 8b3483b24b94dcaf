SPECIFICATION Spec
CONSTANTS
  r1 = r1
  r2 = r2
  t1 = t1
  t2 = t2
  t3 = t3
  t4 = t4
  chat = chat
  Nobody = Nobody
  Runs = {r1, r2}
  Tools = {t1, t2, t3, t4}
  Of <- MCOf
  Chats = {chat}
  Chat <- MCChat
  Usage = {1}
  MaxTurns = 2
SYMMETRY Alike
CHECK_DEADLOCK FALSE
INVARIANTS
  BillExact
  LoggedTotalCovers
  
