SPECIFICATION Spec
CONSTANTS
  Catalog <- MCCatalog
  Foreign <- MCForeign
  Builders = {b1}
  Child = child
  None = None
  Starts <- MCStarts
INVARIANTS
  ClaimFollowsImage
  ClaimsSurvive
  OldVmsAreGone
  ExitIsTrue
CHECK_DEADLOCK FALSE
