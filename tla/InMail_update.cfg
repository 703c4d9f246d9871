CONSTANTS
  a = a
  b = b
  Users = {a, b}
  MaxRequests = 2
  MaxInFlight = 1
  Calls <- UpdateCalls
  Audiences = {{b}}
  SelfMail = FALSE
  WithFile = {FALSE}
  FilterColumns = {}
  SerialUsers = TRUE
  Faults = FALSE
SPECIFICATION Spec
INVARIANTS UpdateSends
