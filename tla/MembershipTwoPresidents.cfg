SPECIFICATION Spec
CONSTANTS
  a = a
  b = b
  c = c
  r1 = r1
  r2 = r2
  Users = {a, b, c}
  Founder = a
  None = None
  Requests = {r1, r2}
  Boards <- SomeBoards
  Plans <- Together
INVARIANT ClubHasPresident
