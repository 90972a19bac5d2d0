SPECIFICATION MCSpec
CONSTANTS
  a1 = a1
  r1 = r1
  r2 = r2
  allow = allow
  deny = deny
  Agents <- OneAgent
  Requests <- TwoRequests
  Options <- TwoOptions
  OtherOption = other
  Cancel = cancel
  None = none
  MaxMessages = 2
  MaxPending = 1
  MaxLocal = 1
  MaxSends = 2
  MaxChats = 2
  MaxWire = 1
INVARIANTS TypeOK AnswerIsTheDecision ParkedCallIsServed
PROPERTIES EndsAnnounced RequestsAreSettled
CHECK_DEADLOCK FALSE
