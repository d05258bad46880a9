SPECIFICATION FairSpec
CONSTANTS
  Types = {ble}
  Socks = {s1, s2}
  Calls = {c1, c2}
  Ids <- MCIds
  TypeOf <- MCTypeOf
  TargetOf <- MCTargetOf
  IdOf <- MCIdOf
  Malformed = {c2}
  NullId = null
  WireCap = 1
  MaxNotes = 0
  None = None
CHECK_DEADLOCK FALSE
INVARIANTS TypeOK AnswerIsOwn ReplyNeverBlocks ListedIsRead
PROPERTIES PanicHasReason KeepsPromise EveryCallReturns BrokenIsForgotten
