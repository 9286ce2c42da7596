SPECIFICATION LifeSpec
CONSTANTS
  k1 = k1
  k2 = k2
  k3 = k3
  Users = {k1, k2, k3}
  Applicant = Applicant
  None = None
  Steps = 2
  StepKind <- Mixed
  Decides <- MixedDecides
  Reviewers = {k1, k2, k3}
  Committee = {k1, k2, k3}
  FreeSlugs = 1
  MaxInFlight = 2
  MaxCommitteeChanges = 1
  u1 = u1
  u2 = u2
  u3 = u3
  s1 = s1
  s2 = s2
  d1 = d1
  d2 = d2
  here = here
  there = there
  home = home
  guestClub = guestClub
  r1 = r1
  r2 = r2
  student = student
  p1 = p1
  p2 = p2
  m1 = m1
  m2 = m2
  t1 = t1
  t2 = t2
  c1 = c1
  Goers = {u1, u2}
  ClubMembers = {u1}
  Capacities = {1, 2}
  Stewards = {s1, s2}
  RsvpBudgets <- SomeRsvps
  Absent = Absent
  Guests = {u1}
  Displays = {d1, d2}
  NoCode = NoCode
  TokenTTL = 3
  RotateBuffer = 1
  OpensAt = 1
  ClosesAt = 4
  LastTick = 5
  LastCode = 4
  MaxScans = 2
  CoClubs = {home, guestClub}
  Schools = {here, there}
  SchoolOf <- SomeSchools
  HostSchool = here
  HostRequests = {r1, r2}
  Unlisted = Unlisted
  Supporters = {u1, u2}
  Proposer = student
  Proposals = {p1, p2}
  Thresholds = {0, 2}
  MaxApplications = 2
  MaxForming = 5
  Meetings = {m1, m2}
  BoardRequests = {r1, r2}
  MaxApproved = 1
  QuorumPercent = 50
  Vacant = Vacant
  Unrecorded = Unrecorded
  Invites = {1, 2}
  AdvisorRequests = {r1, r2}
  MaxAdvising = 5
  Terms = {t1, t2}
  TermRequests = {r1, r2}
  Changes = {c1}
  Days = 2
  NoTerm = NoTerm
SYMMETRY StaffSymmetry
INVARIANTS
  ApplicationSound
  ClubNeedsEveryStep
  AnswersSound
  AttendanceSound
  CoHostsSound
  ProposalSound
  GovernanceSound
PROPERTIES
  DecidedStays
  MajorityOfMembers
  KeepsOutcome
CHECK_DEADLOCK FALSE
