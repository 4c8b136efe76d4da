\* One run, one record received twice, every fault, two per behaviour.
CONSTANTS
  r1 = r1
  r2 = r2
  v1 = v1
  v2 = v2
  t1 = t1
  t2 = t2
  None = None
  Runs = {r1}
  Groups = {"repo"}
  GroupOf <- OneGroup
  Serves <- OwnJob
  VMs = {v1, v2}
  Undated = {}
  Tokens = {t1, t2}
  MaxMsgs = 1
  MaxReceive = 2
  BatchSize = 2
  MaxTries = 2
  MishapKinds <- AllFaults
  MaxMishaps = 2
SPECIFICATION Spec
SYMMETRY Interchangeable
CHECK_DEADLOCK FALSE
INVARIANTS
  StampMatchesVm
  ConsumedIsSettled
PROPERTIES
  ImplementsLifecycle
  OnlySelfTerminated
  OrphanHasNoVm
