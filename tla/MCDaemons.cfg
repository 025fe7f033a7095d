SPECIFICATION FairFollowedSpec
CONSTANTS
  a = a
  b = b
  c = c
  f1 = f1
  f2 = f2
  empty = empty
  bare = bare
  KeyIds = {a, b, c, empty}
  Files = {f1, f2, bare}
  FileOf <- MCFileOf
  Bare = bare
  Secrets = {1, 2}
  Keks = {1, 2}
  Absent = Absent
  Torn = Torn
  boot = boot
  other = other
  strict = strict
  lax = lax
  Keys = {boot, other}
  BootKeys = {boot}
  Values = {strict, lax}
  Default = strict
  Provisioned <- MCProvisioned
  Servers = {"s", "t"}
  Certs = {1}
  KnownDaemons = {"d"}
  Paths = {"own", "other"}
  NamedIn <- MCNamedIn
  Uids = {1, 2}
  Destinations <- MCDestinations
  RuleFiles <- MCRules
  Unreadable = Unreadable
  Sensors = {"camera"}
  PermissionFiles <- MCPermissions
  MaxTtl = 2
  MaxToken = 3
  NoAnswer = NoAnswer
  Pids = {1, 2}
  MaxRestarts = 1
  MaxId = 3
  Profiles = {"e", "f"}
  PrefixOf <- MCPrefixOf
  Configured <- MCConfigured
  MaxProfiles = 3
  NoRecord = NoRecord
  Prefixes = {"p", "q"}
  StreakLimit = 1
  SilenceLimit = 2
  MaxHistory = 4
  Words <- MCWords
  Upper <- MCUpper
  Allowlist <- MCAllowlist
  Blocklist <- MCBlocklist
  MaxLength = 4
  Pins = {1, 2}
  PanicPin = 2
  WipeTasks = {1, 2}
  Size = 3
  Clients = {"c"}
  Blobs = 2
  Readings = {"ok", "tampered", "missing"}
  Observations <- MCCells
  MAX_HISTORY = 4
  RAPID_CHANGE_COUNT = 3
  RAPID_CHANGE_WINDOW_SECS = 0
  Endpoints <- MCEndpoints
  GmsAllowlist = {"log"}
  GmsBlocklist = {"batch"}
  Fields = {"gaid", "Gaid", "note"}
  Positions = {"0"}
  TELEMETRY_FIELDS = {"gaid"}
  SameText <- MCSameText
  Depth = 2
INVARIANTS
  DaemonsTypeOK
  KeysLast
  DeletedStayGone
  AcknowledgedIsKept
  LocksHold
  ServersLast
  ReportCovers
  CodecsAreWanted
  RecordFollows
  FormDoesNotMatter
  StripIsComplete
PROPERTIES
  KeepsTheBook
  LongStayIsRemembered
  KnownWhileInWindow
  ComesBack
  EditTakesEffect
  DeadAreNoticed
  DueIsRotated
  DuressWipes
  TamperIsReported
