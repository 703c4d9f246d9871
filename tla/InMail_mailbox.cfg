CONSTANTS
  a = a
  b = b
  Users = {a, b}
  MaxRequests = 4
  MaxInFlight = 2
  Calls <- MailboxCalls
  Audiences = {{a}, {b}}
  SelfMail = FALSE
  WithFile = {FALSE}
  FilterColumns = {"messageId", "storage"}
  SerialUsers = TRUE
  Faults = FALSE
SPECIFICATION Spec
INVARIANTS AtMostOnce
PROPERTIES MailboxSpec ReadStaysRead
