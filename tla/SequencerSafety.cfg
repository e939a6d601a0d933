SPECIFICATION Spec
CONSTANTS
  Put = {p1, p2}
  Delete = {d1, d2}
  NoLabel = NoLabel
  NoStep = NoStep
  Commands <- SomeCommands
  Lists <- SomeLists
CHECK_DEADLOCK FALSE

INVARIANTS CurrentStep RunHasJob
PROPERTIES AbortIsFinal JumpsToNearest
