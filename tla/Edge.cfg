SPECIFICATION EdgeFairSpec
CONSTANTS
  Types = {ble}
  Socks = {s1}
  Calls = {c1}
  Ids <- MCIds
  TypeOf <- MCTypeOf
  TargetOf <- MCTargetOf
  IdOf <- MCIdOf
  Malformed = {}
  NullId = null
  WireCap = 2
  MaxNotes = 3
  None = None
  Reads = {c1}
  BadNotes = {2}
  DbFails = TRUE
CHECK_DEADLOCK FALSE
INVARIANTS PublishedOnceInOrder StoredIsPublished
PROPERTIES TakenIsPublished EveryReadReturns
