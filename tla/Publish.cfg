SPECIFICATION FairSpec
CONSTANTS
  ann = ann
  evt = evt
  w = w
  s = s
  r = r
  NoPost = NoPost
  Posts <- MCPosts
  Kind <- MCKind
  Workers = {w}
  Staff = {s}
  Sweepers = {r}
  Budgets <- OneOrTwo
  MaxAttempts = 2
CHECK_DEADLOCK FALSE
INVARIANTS
  PostsSound
  AnnouncedOnce
PROPERTY
  ScheduledLeadsOut
