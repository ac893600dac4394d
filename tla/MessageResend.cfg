SPECIFICATION Spec
CONSTANTS
  Messages = {m1, m2}
  Jobs = {m1, m2}
  NoJob = NoJob
  Sids = {s1, s2}
  NoSid = NoSid
  Hooks = {h1}
  Attempts = 2
  MaxStalled = 1
  MaxCrashes = 1
  MaxFaults = 1
  MaxNet = 2
SYMMETRY Symmetry
CONSTRAINT TroubleWithOneMessage
INVARIANTS
  TypeOK
  OutcomeIsReported
  SentIsAccepted
  
CHECK_DEADLOCK FALSE
