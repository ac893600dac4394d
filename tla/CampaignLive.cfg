SPECIFICATION FairSpec
CONSTANTS
  Requests = {r1, r2}
  Jobs = {r1, r2}
  Contacts = {c1}
  NoJob = NoJob
  NoContact = NoContact
  Attempts = 2
  MaxStalled = 1
  MaxCrashes = 1
  MaxFaults = 0
PROPERTIES
  JobsSettle
  LaunchConcludes
  QueueSpec
