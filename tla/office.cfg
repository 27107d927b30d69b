SPECIFICATION OfficeSpec
CONSTANTS
  Applicants = {u1}
  BotTokens = {t1, t2}
  Clerks = {c1, c2}
  MaxRequests = 2
  MaxCalls = 7
  Workers = {w1, w2}
  MaxServers = 2
  MaxJobs = 2
  MaxCredit = 2
  MaxOrders = 2
  TgAdmins = {a1, a2}
  Owner = owner
  WebAdmins = {web}
  MaxTickets = 2
  MaxAnswers = 2
  MaxMessages = 2
  Checks = {k1, k2}
  Chief = chief
  Deputies = {dep}
  Roles = {"admin"}
  AdminCacheTTL = 1
  MaxCheckTime = 1
  MaxRoleWrites = 1
  Requests = {r1, r2}
  MaxAccounts = 2
  MaxLinks = 2
  Servers = {srv1, srv2}
  MaxStreak = 2
  MaxMisfortunes = 2
  ConfigIds = {1}
  MaxHitches = 2
  Savers = {s1, s2}
  MaxSaves <- SavesOf
INVARIANTS OfficeTypeOK GrantsAreBacked ListedHasServer ChargeFollowsBuild NoOverdraftAlone OneVoice NoneMissed OwnerStays RemovedIsForgotten FoundersStay OutageToldOnce RemindedOnce StoredIsReadable SwitchesAreBacked
PROPERTIES NoConfigLost
CHECK_DEADLOCK FALSE
