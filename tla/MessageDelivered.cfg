SPECIFICATION Spec
CONSTANTS
  Messages = {m1}
  Jobs = {m1}
  NoJob = NoJob
  Sids = {s1}
  NoSid = NoSid
  Hooks = {h1}
  Attempts = 2
  MaxStalled = 1
  MaxCrashes = 0
  MaxFaults = 0
  MaxNet = 2
PROPERTIES
  DeliveredIsKept
CHECK_DEADLOCK FALSE
