SPECIFICATION FairSpec
CONSTANTS
  Parts = {"web", "code", "webhooks", "inbox", "start"}
  NoWebhook = NoWebhook
  Star = Star
  None = None
  Global <- GatewayShared
  Scope <- Core
  MaxFaults = 2
PROPERTIES
  RequestsSettle
  PendingSettles
  ToldIsListed
  SystemComesUp
CHECK_DEADLOCK FALSE
