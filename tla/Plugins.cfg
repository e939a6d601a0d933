SPECIFICATION Spec
CONSTANTS
  Servers = 1
  Attempts = 1
  Periodic = TRUE
  Callsign = {c1, c2}
  Processes = 3
  ExitTimeout = 1
  LastTime = 5
  Caller = {a1, a2}
  Client = {p1}
  Retries = 1
  Endless = FALSE
  Networks = 2
  LastPiece = 4
  Size = 3
  MaxSend = 1
  LastByte = 5
SYMMETRY Symmetry
CHECK_DEADLOCK FALSE

INVARIANTS
  TypeOK
  GoesOn
  InstalledIsWhole NextIsAccepted
  NextIsScheduled
  NobodyForgotten PersistedIsCurrent
  KeepsTrying 
  ArrivesInOrder
