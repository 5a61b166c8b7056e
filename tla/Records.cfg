SPECIFICATION RecordsSpec
CONSTANTS
  Rules = {1}
  Founding <- NoneOrOne
  Heartbeats <- AnyHeartbeat
  Drafts <- OneDraft
  MaxTime = 5
  MaxLag = 1
  Grace = 2
  CatchUpLimit = 3
  Retention = 4
  Slack = 0
  KernelHonest = TRUE
  MaxJob = 1
  MaxRequests = 1
INVARIANTS NothingElseVanishes
