SPECIFICATION Spec
CONSTANTS
  Rules = {1}
  Founding <- NoneOrOne
  Heartbeats <- AnyHeartbeat
  Drafts <- OneDraft
  MaxTime = 3
  MaxLag = 1
  Grace = 1
  CatchUpLimit = 4
  Retention = 3
  Slack = 0
  KernelHonest = TRUE
  MaxJob = 1
  MaxRequests = 2
INVARIANTS TypeOK
PROPERTIES NeverTwice InTime FatesAreFinal
