\* Two runs of one repository whose runners GitHub may swap.
CONSTANTS
  r1 = r1
  r2 = r2
  v1 = v1
  v2 = v2
  t1 = t1
  t2 = t2
  None = None
  Runs = {r1, r2}
  Groups = {"repo"}
  GroupOf <- OneGroup
  Serves <- AnyJob
  VMs = {v1, v2}
  Undated = {}
  Tokens = {t1, t2}
  MaxMsgs = 1
  MaxReceive = 1
  BatchSize = 2
  MaxTries = 1
  MishapKinds <- NoFaults
  MaxMishaps = 0
SPECIFICATION Spec
SYMMETRY Interchangeable
CHECK_DEADLOCK FALSE
INVARIANTS
  LiveVmIsNamed
