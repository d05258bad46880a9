SPECIFICATION BleFairSpec
CONSTANTS
  Devices = {d1}
  Chars = {c1, c2}
  Absent = {c2}
  Nothing = Nothing
  MaxSubs = 2
CHECK_DEADLOCK FALSE
PROPERTY DeadIsRemoved
