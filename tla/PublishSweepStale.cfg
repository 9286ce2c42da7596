SPECIFICATION Spec
CONSTANTS
  ann = ann
  evt = evt
  w = w
  s = s
  r = r
  NoPost = NoPost
  Posts <- OneActivity
  Kind <- ActivityKind
  Workers = {w}
  Staff = {s}
  Sweepers = {r}
  Budgets <- OneByTwo
  MaxAttempts = 2
CHECK_DEADLOCK FALSE
INVARIANT ActivityListsFresh
