SPECIFICATION Spec
CONSTANTS
  a1 = a1
  a2 = a2
  Addresses = {a1, a2}
  Names = {"k", "w"}
  Files <- TwoFiles
  QueueBound = 1
INVARIANTS TypeOK OneEntryPerAddress RestartKeepsTheHousehold MarksAreTakenBack SetAsideStaysAside
PROPERTIES OfflineDecidesNothing
