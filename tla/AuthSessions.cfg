SPECIFICATION Spec
CONSTANTS
  None = None
  Ops = {o1, o2}
  VerifyLinks = {v1}
  ResetLinks = {p1, p2}
  Budgets <- OneThing
SYMMETRY SessionSymmetry
CHECK_DEADLOCK FALSE
INVARIANTS
  LinksSound
  RevokedStaysOut
  SuspendedStaysOut
  AnonymizedStaysOut
  VerifiedAtOnce
  SuspendedHearsNothing
