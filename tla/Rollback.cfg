SPECIFICATION Spec
CONSTANTS
  None = None
  r1 = r1
  r2 = r2
  t1 = t1
  TitleOf <- OneTitle
  Requests = {r1}
  Titles = {t1}
  Series = {}
  Pin <- AnyAndPlex
  Disabled = {}
  Configured = {"plex"}
  Executes = {}
  MaxAborts = 0
  Hooks = {}
  Resyncs = {}
  Owner <- OwnOwner
  AutoApproved = {}
  Desks = {a1, a2}
  Syncing = FALSE
  Start = {"PENDING"}
  MaxChurn = 0
PROPERTIES
  RollbackMeansRefused
CHECK_DEADLOCK FALSE
