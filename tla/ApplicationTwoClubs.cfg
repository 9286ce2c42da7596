SPECIFICATION Spec
CONSTANTS
  Users = {a, b}
  Applicant = Applicant
  None = None
  Steps = 1
  StepKind <- DefaultChain
  Decides <- DefaultDecides
  Reviewers = {a, b}
  Committee = {}
  FreeSlugs = 2
  MaxInFlight = 2
  MaxCommitteeChanges = 0
CHECK_DEADLOCK FALSE
INVARIANT OneClubPerApproval
