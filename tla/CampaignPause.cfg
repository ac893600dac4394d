SPECIFICATION Spec
CONSTANTS
  Requests = {r1}
  Jobs = {r1}
  Contacts = {c1, c2}
  NoJob = NoJob
  NoContact = NoContact
  Attempts = 1
  MaxStalled = 0
  MaxCrashes = 0
  MaxFaults = 0
PROPERTIES
  PausedIsNotCompleted
