SPECIFICATION FillSpec
CONSTANTS
  Longest = 6
  Chars <- MCChars
  Payloads <- MCPayloads
  Configs <- MCConfigs
  MaxTicks = 2
  MaxSlack = 1
CHECK_DEADLOCK FALSE
INVARIANTS BeforeIsKept FillIsExact
PROPERTIES Expands FillEnds
