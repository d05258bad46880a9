SPECIFICATION BleSpec
CONSTANTS
  Devices = {d1, d2}
  Chars = {c1, c2, c3}
  Absent = {c3}
  Nothing = Nothing
  MaxSubs = 3
SYMMETRY Symmetry
CHECK_DEADLOCK FALSE
INVARIANTS OnlySubscribeLeaks NotifiedIsPromised FirstPromiseIsServed
PROPERTY WrongIsPromised
