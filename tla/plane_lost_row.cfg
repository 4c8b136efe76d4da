\* Refuted: a database fault does not drop the launch.
CONSTANTS
  r1 = r1
  r2 = r2
  v1 = v1
  v2 = v2
  t1 = t1
  t2 = t2
  None = None
  Runs = {r1}
  Groups = {"repo"}
  GroupOf <- OneGroup
  Serves <- OwnJob
  VMs = {v1, v2}
  Undated = {}
  Tokens = {t1, t2}
  MaxMsgs = 1
  MaxReceive = 2
  BatchSize = 2
  MaxTries = 1
  MishapKinds <- RowFaults
  MaxMishaps = 1
SPECIFICATION Spec
SYMMETRY Interchangeable
CHECK_DEADLOCK FALSE
INVARIANT FaultNeverDropsLaunch
