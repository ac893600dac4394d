SPECIFICATION Spec
CONSTANTS
  Requests = {r1, r2}
  Jobs = {r1, r2}
  Contacts = {c1}
  NoJob = NoJob
  NoContact = NoContact
  Attempts = 1
  MaxStalled = 0
  MaxCrashes = 0
  MaxFaults = 0
INVARIANTS
  LaunchedOnce
