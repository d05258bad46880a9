SPECIFICATION ReadingsSpec
CONSTANTS
  a = a
  b = b
  a1 = a1
  b1 = b1
  b2 = b2
  ca1 = ca1
  cb1 = cb1
  sixDecimals = sixDecimals
  base64 = base64
  Names = {a, b}
  Keys <- MCKeys
  Readings = {a1, b1, b2}
  Opaque = {b2}
  Coded = {a1, b1}
  Code <- MCCode
  Stored <- MCStored
  KeyOf <- MCKeyOf
  Values <- MCValues
  Writers = {w1, w2}
  Workers = {w1, w2}
  CleanChoices = {TRUE, FALSE}
  None = None
  NoValue = NoValue
INVARIANTS StoreTypeOK AgreedIsStored OwnUnlessMixed
