SPECIFICATION AllSpec
CONSTANTS
  Parts = {"voice", "outgoing", "people"}
  Clients = {q1, q2}
  Webhooks = {w1, w2}
  NoWebhook = NoWebhook
  Deliveries = {d1, d2}
  Events = {e1}
  Star = Star
  MaxUpdates = 0
  Contacts = {p1, p2}
  Messages = {m1}
  Phones = {f1, f2}
  Details = {any}
  None = None
  Together = {"update", "remove", "optOut"}
  MaxRows = 2
  Requests = {r1}
  Sids = {s1, s2}
  NoSid = NoSid
  RowIds = {i1, i2, i3}
  NoId = NoId
  Hooks = {h1, h2}
  MaxNet = 1
  MaxCrashes = 1
  MaxFaults = 1
CONSTRAINT OneThingAtATime
INVARIANTS
  AllTypeOK
  CallHistoryIsTrue
  WebhookLogIsTrue
PROPERTIES
  NothingIsTakenBack
CHECK_DEADLOCK FALSE
