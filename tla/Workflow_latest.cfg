CONSTANTS
  k1 = k1
  k2 = k2
  ProcessKeys = {k1}
  MaxJobs = 3
  MaxJobsAtOnce = 2
  Faults = FALSE
SPECIFICATION WorkflowSpec
PROPERTIES LatestKept
