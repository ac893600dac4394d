SPECIFICATION Spec
CONSTANTS
  Requests = {r1, r2}
  Jobs = {r1, r2}
  Contacts = {c1, c2}
  NoJob = NoJob
  NoContact = NoContact
  Attempts = 2
  MaxStalled = 1
  MaxCrashes = 1
  MaxFaults = 1
SYMMETRY Symmetry
CONSTRAINT TroubleWithOneContact
INVARIANTS
  TypeOK
  OncePerStart
  SentCountBacked
  
  RunningIsBacked
  HaltStopsSending
  OptOutStopsSending
  StartsBounded
PROPERTIES
  SettledIsFinal
