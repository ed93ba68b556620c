SPECIFICATION Spec
CONSTANTS
  None = None
  r1 = r1
  r2 = r2
  t1 = t1
  TitleOf <- OneTitle
  Requests = {r1}
  Titles = {t1}
  Series = {}
  Pin <- AnyAndPlex
  Disabled = {}
  Configured = {"plex"}
  Executes = {e1, e2}
  MaxAborts = 0
  Hooks = {}
  Resyncs = {}
  Owner <- OwnOwner
  AutoApproved = {}
  Desks = {}
  Syncing = TRUE
  Start = {"AVAILABLE"}
  MaxChurn = 0
INVARIANT SettledKeepsStamp
PROPERTIES
  SettledNotDemoted
SYMMETRY OneExecOrOther
