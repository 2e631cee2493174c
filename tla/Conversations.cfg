\* Four overlapping turns of two accounts in two conversations that may be
\* deleted meanwhile; the limit cuts a conversation's third turn.
SPECIFICATION Spec
CONSTANTS
  None = None
  u1 = u1  u2 = u2  c1 = c1  c2 = c2  t1 = t1  t2 = t2  t3 = t3  t4 = t4
  Users = {u1, u2}
  Chats = {c1, c2}
  Turns = {t1, t2, t3, t4}
  Limit = 4
SYMMETRY Symmetry
CHECK_DEADLOCK FALSE
INVARIANTS
  TypeOK
  MessagesBelongToOwner
  ContextIsWholeTurns
  RestoredMatchesContext
  TitleFromStoredTurn
  TitleFixedForLaterTurns
