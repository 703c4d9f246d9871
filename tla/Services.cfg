CONSTANTS
  MaxRequests = 5
  MaxInFlight = 2
  home = home
  list = list
  detail = detail
  Pages = {home, list}
  NoPage = NoPage
  NumSteps = 4
  Route <- RoundTrip
  Attached <- RoundTripAttached
  MaxActs = 6
  k1 = k1
  k2 = k2
  ProcessKeys = {k1, k2}
  MaxJobs = 4
  MaxJobsAtOnce = 2
  Faults = TRUE
  TimeToStart = 1
  MaxAsks = 4
  MaxAsksInFlight = 2
  MaxMinute = 3
  Attendee = {a, b}
  MaxHooks = 4
  MaxConnections = 2
  Reader = {r1, r2}
  Queries <- OneQuery
  NoQuery = none
  TTL = 1
  SaveDelay = 1
  MaxVersion = 2
  MaxTime = 3
  Name = {n1, n2}
  NoName = NoName
  MaxWorkers = 3
  MaxExecutions = 3
  Day = {mon, tue}
  NoDay = NoDay
  MaxHours = 2
  MaxEdits = 3
  MaxEditing = 2
  Person = {o, p}
  Organizer = o
  MaxHour = 3
  MaxPlans = 3
  MaxPlanning = 2
  MaxCalls = 4
  MaxCallsAtOnce = 2
  MaxReports = 2
  Text = {t1, t2, t3}
  NoText = NoText
  Category = {All, m}
  All = All
  RecentCount = 2
  MaxLookups = 3
  MaxRash = 2
  MaxLookupsAtOnce = 2
  ta = ta
  ua = ua
  Tenant = {ta, tb}
  TenantUser = {ua}
  Caller <- OneCaller
  Undefined = Undefined
  MaxFeatures = 2
  MaxToggles = 2
  MaxWrites = 3
  Column = {"count", "on"}
  DateColumn = {"on"}
  Point = {1, 2, 3}
  Null = Null
  MaxDepth = 3
  Filters <- SomeFilters
  Unbound = Unbound
  AnObject = AnObject
SPECIFICATION ServicesSpec
VIEW Running
INVARIANTS TypesOK PaidOrderOnTheBooks BooksMatchGateway
  SubscriptionOnTheBooks StatusFollowsHooks
  ScreenMatchesStore RowRuns VersionsRun
  ListIsConnected StaleIsBounded SettledStays
  RunsOnce ServesPatient ChecksEveryLevel FindsWhatIsAsked
  DeletedTakesAttendees
PROPERTIES  NoStepSkipped EndIsFinal ScheduleKept ListKeepsRoster PutAloneTakesEffect
CHECK_DEADLOCK FALSE
