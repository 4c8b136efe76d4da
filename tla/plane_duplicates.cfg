\* One run, two records for it (a webhook redelivered past the dedup window), received twice.
CONSTANTS
  r1 = r1
  r2 = r2
  v1 = v1
  v2 = v2
  t1 = t1
  t2 = t2
  None = None
  Runs = {r1}
  Groups = {"repo"}
  GroupOf <- OneGroup
  Serves <- OwnJob
  VMs = {v1, v2}
  Undated = {}
  Tokens = {t1, t2}
  MaxMsgs = 2
  MaxReceive = 2
  BatchSize = 2
  MaxTries = 1
  MishapKinds <- QueueFaults
  MaxMishaps = 1
SPECIFICATION Spec
SYMMETRY Interchangeable
CHECK_DEADLOCK FALSE
INVARIANTS
  SecondLaunchNeedsFault
