CONSTANTS
  Keys = 2
  Entries = 3
  MaxWrites = 2
  Written = {"Value", "Deletion"}
  MaxFailures = 1
SPECIFICATION MCSpec
INVARIANT WalksExact
PROPERTY CallsEnd
