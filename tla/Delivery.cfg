SPECIFICATION DeliverySpec
CONSTANTS
  news = news
  verdict = verdict
  a = a
  b = b
  club = club
  newsType = newsType
  verdictType = verdictType
  i1 = i1
  i2 = i2
  s1 = s1
  s2 = s2
  s3 = s3
  k1 = k1
  k2 = k2
  d1 = d1
  d2 = d2
  o1 = o1
  o2 = o2
  n1 = n1
  n2 = n2
  n3 = n3
  q1 = q1
  q2 = q2
  qa = qa
  act1 = act1
  e1 = e1
  e2 = e2
  h1 = h1
  h2 = h2
  h3 = h3
  h4 = h4
  sigterm = sigterm
  sigint = sigint
  b1 = b1
  b2 = b2
  v1 = v1
  student = student
  superAdmin = superAdmin
  key1 = key1
  oldKey = oldKey
  extra = extra
  g1 = g1
  g2 = g2
  NoEntry = NoEntry
  NoCopy = NoCopy
  Uploads = {g1, g2}
  Entries = {e1, e2}
  MediaRequests = {q1, q2}
  MaxRequests = 6
  Every = Every
  NoServer = NoServer
  NoTicket = NoTicket
  Nobody = Nobody
  NoRow = NoRow
  NoList = NoList
  Kept = Kept
  University = University
  NoTarget = NoTarget
  Same = Same
  Endless = Endless
  Fanouts = {news, verdict}
  Mandatory = {verdict}
  Large = {news}
  ClubOf <- SomeClubs
  TypeOf <- SomeTypes
  TypeNames = {newsType, verdictType}
  ClubNames = {club}
  Recipients = {a, b}
  InsertChunk = 1
  MaxStalls = 1
  MaxMuteChanges = 2
  Servers = {i1, i2}
  SocketIds = {s1, s2, s3}
  WsTickets = {k1, k2}
  PingsMissed = 3
  Devices = {d1, d2}
  Owners = {o1, o2}
  Sends = {s1, s2}
  Rows = {1, 2, 3}
  Ticks = 2
  MaxInstant = 2
  Kinds = {0, 1}
  Limits = {1, 2}
  Posts = {n1, n2, n3}
  OldPost = n1
  DraftPost = n2
  BoardRequests = {q1, q2}
  PinLimits = {0, 1, 2}
  PosterClubs = {qa}
  PosterActs = {act1}
  PosterHosts <- SomeHosts
  Scans = {s1, s2}
  Updates = {e1}
  Cancels = {e2}
  MaxVersion = 3
  Hits = {h1, h2, h3, h4}
  Limit = 2
  Window = 2
  MaxDelay = 1
  LastMoment = 6
  Signals = {sigterm, sigint}
  Bootstraps = {b1, b2}
  Replicas = {v1}
  CatalogueRoles = {student, superAdmin}
  Super = superAdmin
  CatalogueKeys = {key1}
  Bundles <- SomeBundles
  LegacyKeys = {oldKey}
  ExtraKeys = {extra}
  MaxChoices = 3
INVARIANTS
  DeliverySound
  ListsSound
  LimitsSound
CHECK_DEADLOCK FALSE
