CONSTANTS
  None = None
  Tenants = {1, 2}
  Handlers = {h1, h2}
  MaxRequests = 2
  Users = {1, 2, 3}
  GivenRoles = {"admin", "engineer"}
  Members = {1, 2, 3}
  First = 1
  Clients = {c1}
  Days <- MCDays
  Given = {"off", "weekly"}
  MaxDay = 2
  MaxFaults = 1
  Items = {e1, e2}
  ControlIds = {k1}
  GivenStatuses = {"gap", "satisfied"}
  MaxReviews = 3
  MaxBreaks = 1
  Sockets = {s1, s2}
  MaxScans = 2
  Hosts = {a1, a2}
  Timed = {a1}
  Scans = 2
  MaxTokens = 6
  MaxMishaps = 2
  MaxGaps = 1
  MaxRecords = 2
  MaxRules = 2
  Resources = {r1, r2}
  Hints = {"all", "soc2", "nist_csf"}
  Keys = {"f1", "f2"}
  Ids = {"i1", "i2"}
  Alarms = {1, 2}
  Concerns <- MCConcerns
  Deduction <- MCDeduction
  Code <- MCCode
  MaxMoves = 1
  Owners = {1, 2}
  Shared = Shared
  Releases <- MCReleases
  Names = {"n"}
  ControlNames = {k1}
  Editors = {1, 2}
  MaxEdits = 3
  MaxSecond = 1
  PolicyIds = {1, 2}
  Evaluators = {1, 2}
  Sources = {n1}
  Values <- MCValues
  PartOf <- MCPartOf
  GivenWorlds <- MCWorlds
  GivenRules <- MCRules
  MaxEvaluations = 2
  MaxScanned = 2
  Criteria = {x, y}
  Mandatory = {x}
  Askers = {1, 2}
  MaxAsks = 3
SPECIFICATION Spec
INVARIANTS
  TypesOK
  AdminLeft
  SuperLeft
  OncePerPeriod
  RunsWithinPeriod
  StatusAgrees
  FilesThere
  SocketsServed
  EnrollmentsExplained
  ScansFaithful
  PostureFaithful
  CatalogSound
  PoliciesHonest
  ReadinessTold
PROPERTIES
  DueIsDelivered
  EveryAgentEnrolls
\* The bounds on ids, requests and faults are reached, and every part but the
\* loops of the engine and the agents may then have nothing left to do.
CHECK_DEADLOCK FALSE
