CONSTANTS
  Reader = {r1, r2}
  Queries <- CollidingQueries
  NoQuery = none
  TTL = 1
  SaveDelay = 1
  MaxVersion = 1
  MaxTime = 1
SPECIFICATION CacheSpec
INVARIANT AnswersItsQuery
CHECK_DEADLOCK FALSE
