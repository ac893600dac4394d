SPECIFICATION AllSpec
CONSTANTS
  Parts = {"auth", "portal", "credentials", "disk", "start"}
  Clients = {c1, c2}
  AuthTogether = {"login", "refresh", "logout", "changePassword", "update", "deactivate"}
  Passwords = {p1, p2}
  NoToken = NoToken
  NoSecret = NoSecret
  MaxSecond = 2
  MaxSecret = 1
  PortalTogether = {"runSetup", "register", "invite"}
  Orgs = {o1, o2}
  Users = {u1, u2}
  Dealers = {d1}
  Slugs = {s1, s2}
  Emails = {e1, e2}
  None = None
  MaxOrganizations = 1
  MaxPortalFaults = 1
  KeyTogether = {"getClient", "testConnection"}
  Accounts = {a1, a2}
  Numbers = {n1}
  Keys = {k1, k2}
  MaxChanges = 1
  Files = {f1, f2, f3}
  HasPgDump = TRUE
  MaxNights = 2
  MaxFails = 1
  MaxCrashes = 1
  Global <- AsWritten
  Scope <- Everything
  MaxFaults = 0
INVARIANTS
  AllTypeOK
  
  
  BackupsAreWhole
  OnlyTheGatewayIsMissing
PROPERTIES
  SessionImplemented
  AnswersHold
CHECK_DEADLOCK FALSE
