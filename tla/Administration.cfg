SPECIFICATION AdminSpec
CONSTANTS
  root1 = root1
  root2 = root2
  dean1 = dean1
  pupil = pupil
  d1 = d1
  d2 = d2
  q1 = q1
  q2 = q2
  uni = uni
  f1 = f1
  p1 = p1
  u1 = u1
  pins = pins
  export = export
  v0 = v0
  on = on
  i1 = i1
  i2 = i2
  SuperAdmin = SuperAdmin
  UniAdmin = UniAdmin
  Student = Student
  Custom = Custom
  OwnPerm = OwnPerm
  ManagePerm = ManagePerm
  GrantPerm = GrantPerm
  Uncached = Uncached
  NoStatus = NoStatus
  Nowhere = Nowhere
  Refused = Refused
  Reset = Reset
  UnknownKey = UnknownKey
  Unset = Unset
  NoInvitation = NoInvitation
  Roots = {root1, root2}
  Deans = {dean1}
  Pupils = {pupil}
  RankOf <- Ranks
  CustomRanks = {0, 90}
  RoleRequests = {q1, q2}
  MaxRoleRequests = 3
  CachedUsers = {pupil}
  Domains = {d1, d2}
  TenantRequests = {q1, q2}
  MaxTenantReqs = 4
  Nodes = {uni, f1, p1}
  ParentOf <- SomeParents
  Assignees = {u1}
  TreeRequests = {q1, q2}
  MaxTreeReqs = 5
  SettingKeys = {pins, export}
  PlatformKeys = {export}
  SettingValues = {v0, on}
  DefaultOf <- SomeDefaults
  FeatureOn = on
  Patches <- SomePatches
  Patchers = {q1, q2}
  MaxPatches = 3
  Invitations = {i1, i2}
  AccountRequests = {q1, q2}
  MaxAccountReqs = 5
  MailAttempts = 2
  k1 = k1
  k2 = k2
  k3 = k3
  key1 = key1
  key2 = key2
  Colleagues = {k1, k2, k3}
  Clerks = {q1, q2}
  Rolls <- SomeRolls
  Kept = Kept
  CommitteeBudgets <- SomeUpdates
  key3 = key3
  Keys = {key1, key2, key3}
  Items = {key1, key2}
  Required = {key1}
  Markers = {q1, q2}
  ChecklistBudgets <- SomeMarks
INVARIANTS
  RightsSound
  DirectorySound
CHECK_DEADLOCK FALSE
