CONSTANTS
  a = a
  b = b
  Users = {a, b}
  MaxRequests = 4
  MaxInFlight = 2
  Calls <- DraftCalls
  Audiences = {{a}, {b}}
  SelfMail = TRUE
  WithFile = {FALSE}
  FilterColumns = {"party", "messageId", "status"}
  SerialUsers = FALSE
  Faults = TRUE
SPECIFICATION Spec
INVARIANTS TypeOK ThreadAgreement StorageFitsType DraftIsPrivate
SYMMETRY Symmetry
