\* Two changes on two containers, any fault, then one that hits the undo of it.
CONSTANTS
  c1 = c1
  c2 = c2
  c3 = c3
  a1 = a1
  a2 = a2
  s1 = s1
  s2 = s2
  i1 = i1
  i2 = i2
  Invocs = {i1, i2}
  Creds = {c1, c2, c3}
  AppOf <- MCAppOf
  SecretOf <- MCSecretOf
  None = None
  Gone = Gone
  MaxRequests = 2
  FaultKinds <- AnyThenRecovery
SPECIFICATION Spec
SYMMETRY Interchangeable
CHECK_DEADLOCK FALSE
INVARIANTS
  OneWriter
  CredentialsWhole
  RolledBackIsBack
  SecretsAgree
  SlugNamesStored
  SharedIsCurrent
