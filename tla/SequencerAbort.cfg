SPECIFICATION Spec
CONSTANTS
  Put = {p1}
  Delete = {d1}
  NoLabel = NoLabel
  NoStep = NoStep
  Commands <- WaitingCommands
  Lists <- WaitingLists
INVARIANTS AbortReaches
CHECK_DEADLOCK FALSE
