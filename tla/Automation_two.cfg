SPECIFICATION EditSpec
CONSTANTS
  Rules = {1, 2}
  Founding <- TwoRules
  Heartbeats <- AHeartbeat
  Drafts <- OneDraft
  MaxTime = 3
  MaxLag = 1
  Grace = 1
  CatchUpLimit = 4
  Retention = 3
  Slack = 0
  KernelHonest = TRUE
  MaxJob = 1
  MaxRequests = 1
PROPERTIES NeverTwice SkipHonoured
