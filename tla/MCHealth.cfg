SPECIFICATION FairSpec
CONSTANTS
  Managers = {health, web}
  Changing = {"indexer", "docker"}
  Alerts = {a1, a2, a3}
  Loads = {1}
  MaxErrors = 1
  MaxOld = 1
  None = None
INVARIANTS TypeOK OneOpenPerManager
PROPERTIES EndedIsClosed PersistingIsShown
