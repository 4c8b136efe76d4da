\* One relink, one hook update GitHub refuses.
CONSTANTS
  c1 = c1
  c2 = c2
  c3 = c3
  a1 = a1
  a2 = a2
  s1 = s1
  s2 = s2
  i1 = i1
  i2 = i2
  Invocs = {i1}
  Creds = {c1, c2, c3}
  AppOf <- MCAppOf
  SecretOf <- MCSecretOf
  None = None
  Gone = Gone
  MaxRequests = 1
  FaultKinds <- OneRefusedHook
SPECIFICATION Spec
CHECK_DEADLOCK FALSE
INVARIANT UnrotatedSecretAgrees
