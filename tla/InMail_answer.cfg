CONSTANTS
  a = a
  b = b
  Users = {a, b}
  MaxRequests = 4
  MaxInFlight = 1
  Calls <- AnswerCalls
  Audiences = {{b}}
  SelfMail = FALSE
  WithFile = {FALSE}
  FilterColumns = {}
  SerialUsers = TRUE
  Faults = FALSE
SPECIFICATION Spec
INVARIANTS ReplyArrivesOnce
