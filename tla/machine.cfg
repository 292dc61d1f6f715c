CONSTANTS
  Defs <- Programs
  Job <- Jobs
  Granted = {"mail.send"}
  Grant = {0, 2, 5}
  DefaultFuel = 300
  GovEvery = 6
  GovCeiling = 40
  MaxCrashes = 1
SPECIFICATION Spec
INVARIANTS RunsAsWritten EffectsInOrder ScopeAgrees
PROPERTY EveryGrantMoves
