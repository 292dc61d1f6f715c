CONSTANTS
  e = e  a1 = a1  a2 = a2
  None = None
  Client = {e, a1, a2}
  Principal <- WhoIs
  Agents = {"agent"}
  Metered = {"agent"}
  Name = {"lib", "app"}
  Source = {"v1", "v2", "bad"}
  Imports <- AppOnLib
  Flawed = {"bad"}
  Patch <- Patches
  Token = {"t1"}
  Capacity = 1
  Slots = 2
  MaxRetries = 2
  MaxSubmits = 3
  MaxRefills = 1
  MaxFaults = 1
SPECIFICATION Spec
INVARIANTS HistoryIsExact ApprovedLands OneOutcome FuelBoundsRuns
PROPERTY ImplementsLedger
SYMMETRY Symmetry
CHECK_DEADLOCK FALSE
