\* Two chats at once, everything may fail, messages are delivered again.
SPECIFICATION Spec
CONSTANTS
  c1 = c1
  c2 = c2
  m1 = m1
  m2 = m2
  m3 = m3
  alice = alice
  bob = bob
  Chats = {c1, c2}
  Users = {alice, bob}
  Messages = {m1, m2, m3}
  chat_of <- MCchat_of
  writer <- MCwriter
  body <- MCbody
  NoMessage = NoMessage
  NoRow = NoRow
  PHRASES <- MCPHRASES
  spam_weights <- MCspam_weights
  spam_threshold <- MCspam_threshold
  MIN_NORMALIZED_LEN = 1
  CasChats = {c2}
  Retention = 0
  MaxHandled = 4
  Faults = {"crash", "database", "redis", "cas", "bot", "repeat"}
INVARIANTS
  TypeOK
  CachesAreAnswers
  BansHaveGrounds
  AggregateIsExplained
  CopiesAreRecognised
CHECK_DEADLOCK FALSE
