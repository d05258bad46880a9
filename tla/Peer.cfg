SPECIFICATION PeerFairSpec
CONSTANTS
  MaxRequests = 4
  Malformed = {2}
  Panics = {1}
  Nils = {4}
  Big <- MCBig
  NoJson <- MCNoJson
  s1 = s1
  CatchPanic = TRUE
  OneLock = FALSE
  Subs = {s1}
  MaxNotes = 2
  MaxConns = 3
CHECK_DEADLOCK FALSE
INVARIANTS PeerTypeOK AnswersGoBack NotesOnceInOrder
PROPERTIES Reconnects SendReturns RequestIsAnswered
