SPECIFICATION PeerFairSpec
CONSTANTS
  MaxRequests = 1
  Malformed = {}
  Panics = {}
  Nils = {}
  Big = {}
  NoJson = {}
  s1 = s1
  CatchPanic = TRUE
  OneLock = TRUE
  Subs = {s1}
  MaxNotes = 2
  MaxConns = 2
CHECK_DEADLOCK FALSE
PROPERTY SendReturns
