CONSTANTS
  a = a
  b = b
  Users = {a, b}
  MaxRequests = 4
  MaxInFlight = 2
  Calls <- AuthorCalls
  Audiences = {{b}, {}}
  SelfMail = FALSE
  WithFile = {FALSE, TRUE}
  FilterColumns = {"status"}
  SerialUsers = TRUE
  Faults = TRUE
SPECIFICATION Spec
INVARIANTS OneAuthorRow SendDelivers
PROPERTIES AttachmentsFrozen
