SPECIFICATION Spec
CONSTANTS
  Types = {ble}
  Socks = {s1, s2}
  Calls = {c1}
  Ids <- MCIds
  TypeOf <- MCTypeOf
  TargetOf <- MCTargetOf
  IdOf <- MCIdOf
  Malformed = {}
  NullId = null
  WireCap = 1
  MaxNotes = 0
  None = None
CHECK_DEADLOCK FALSE
INVARIANT LiveIsListed
