\* One run under the platform's fairness: it ends, its VMs end, its record leaves the queue.
CONSTANTS
  r1 = r1
  r2 = r2
  v1 = v1
  v2 = v2
  t1 = t1
  t2 = t2
  None = None
  Runs = {r1}
  Groups = {"repo"}
  GroupOf <- OneGroup
  Serves <- OwnJob
  VMs = {v1, v2}
  Undated = {v2}
  Tokens = {t1, t2}
  MaxMsgs = 1
  MaxReceive = 2
  BatchSize = 2
  MaxTries = 1
  MishapKinds <- LiveFaults
  MaxMishaps = 1
SPECIFICATION FairSpec
CHECK_DEADLOCK FALSE
PROPERTIES
  RunsEnd
  VmsEnd
  RecordsLeaveQueue
