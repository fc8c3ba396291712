SPECIFICATION Spec
CONSTANTS
  Clients = {a}
  Sessions = {s1, s2}
  Conversations = {c1}
  Requests = {r1, r2}
  Actions = {note, other}
  Allowed = {note}
  Keep = 3
  MaxRounds = 2
  MaxTurns = 3
  RLSEnforced = FALSE
  None = None
INVARIANT RunsOnceAsConfirmed
INVARIANT NoSeenAnswerIsLost
PROPERTY ConversationKeepsSession
PROPERTY TurnEnds
