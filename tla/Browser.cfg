SPECIFICATION AllSpec
CONSTANTS
  Parts = {"web", "sockets", "phone", "cards", "forms", "inbox"}
  Tabs = {t1, t2}
  Requests = {r1, r2}
  MaxLogins = 2
  MaxExpiries = 2
  MaxRivals = 1
  MaxFaults = 1
  TwoFactor = FALSE
  None = None
  Known = {a}
  Strangers = {s}
  Lines = 2
  MaxMessages = 2
  MaxTexts = 1
  MaxSends = 1
  MaxAsks = 1
  MaxFails = 1
  Users = {"u1", "u2"}
  Orgs = {"o1", "o2"}
  OrgOf <- UserOrg
  MaxTokens = 3
  MaxSockets = 2
  MaxEvents = 1
  Calls = {c1, c2}
  Numbers = {n1}
  Identity = "user"
  Dialled = "user"
  Registered = TRUE
  MaxDials = 2
  Contacts = {c1, c2}
  Texts = {x1}
  MaxOffline = 1
  MaxLost = 1
  Forms = {"login", "register", "forgot", "setup", "invite", "profile", "password", "webhook", "apiKey", "twilio", "organization", "campaign"}
  MaxTyped = 3
CONSTRAINTS OneTabInTrouble OneThingOnThePage
INVARIANTS
  AllTypeOK
  TabsKeepTheirSession
  EventsFindTheirUser
  ToldAreListed
  CallsAreWhatTheBannerSays
  HeldBackOnly
  
CHECK_DEADLOCK FALSE
