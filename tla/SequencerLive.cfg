SPECIFICATION FairSpec
CONSTANTS
  Put = {p1, p2}
  Delete = {d1}
  NoLabel = NoLabel
  NoStep = NoStep
  Commands <- EndingCommands
  Lists <- EndingLists
CHECK_DEADLOCK FALSE

PROPERTIES RunEnds WaitsEnd
