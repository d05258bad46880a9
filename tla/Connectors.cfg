SPECIFICATION Spec
CONSTANTS
  ByteBits = 2
  MaxBits = 4
  MaxWords = 2
  Bits = 4
  Words = 2
  Numbers <- MCNumbers
  Slaves = {0, 4}
  Lists <- MCLists
  MaxOid = 2
  ReadOnly = {2}
  MaxOids = 2
  Limit = 2
  n1 = n1
  n2 = n2
  Nodes = {n1, n2}
  Servers <- MCServers
  MaxLevel = 2
  Top = 1
  Cuts <- MCCuts
  Rounded <- MCRounded
CHECK_DEADLOCK FALSE
INVARIANT AnswersAreExact
PROPERTY WritesAreExact
