SPECIFICATION FairSpec
CONSTANTS
  Messages = {m1}
  Jobs = {m1}
  NoJob = NoJob
  Sids = {s1}
  NoSid = NoSid
  Hooks = {h1}
  Attempts = 2
  MaxStalled = 1
  MaxCrashes = 1
  MaxFaults = 1
  MaxNet = 1
PROPERTIES
  SendsSettle
  QueueSpec
CHECK_DEADLOCK FALSE
