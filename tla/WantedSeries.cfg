SPECIFICATION Spec
CONSTANTS
  None = None
  r1 = r1
  r2 = r2
  t1 = t1
  TitleOf <- OneTitle
  Requests = {r1}
  Titles = {t1}
  Series = {t1}
  Pin <- AnyAndPlex
  Disabled = {}
  Configured = {"plex"}
  Executes = {}
  MaxAborts = 0
  Hooks = {}
  Resyncs = {"plex"}
  Owner <- OwnOwner
  AutoApproved = {}
  Desks = {}
  Syncing = TRUE
  Start = {"PENDING"}
  MaxChurn = 1
PROPERTIES
  WantedSeriesNotMarked
