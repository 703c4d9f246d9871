CONSTANTS
  a = a
  b = b
  Users = {a, b}
  MaxRequests = 4
  MaxInFlight = 2
  Calls <- ThreadCalls
  Audiences = {{b}}
  SelfMail = FALSE
  WithFile = {TRUE}
  FilterColumns = {"storage", "party", "messageId", "status", "id"}
  SerialUsers = FALSE
  Faults = FALSE
SPECIFICATION FairSpec
INVARIANTS CountNeverOverstates
PROPERTIES EveryRequestEnds
