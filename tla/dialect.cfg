CONSTANTS
  Strings <- MCStrings
  Modules <- MCModules
  Home = "app/m"
  Shapes = {"bodies", "types"}
SPECIFICATION Spec
INVARIANTS
  ProjectionHolds
  RenamingKeepsAddress
  CapturesAreSettled
CHECK_DEADLOCK FALSE
