SPECIFICATION CastSpec
CONSTANTS
  None = None
  r1 = r1
  r2 = r2
  t1 = t1
  a1 = a1
  a2 = a2
  TitleOf <- OneTitle
  Requests = {r1, r2}
  Titles = {t1}
  Series = {}
  Pin <- AnyPin
  Disabled = {}
  Configured = {"plex"}
  Executes = {}
  MaxAborts = 0
  Hooks = {}
  Resyncs = {}
  Owner <- SameOwner
  AutoApproved = {r1}
  Desks = {a1, a2}
  Syncing = TRUE
  Start = {"NONE"}
  MaxChurn = 0
INVARIANTS
  NotifiedAtMostOnce
  BackstopOnlyOnLiveApproval
  BanOnlyOnDeclined
  OneRowPerRequester
PROPERTIES
  BanNotEvaded
  RefinesBoard
CHECK_DEADLOCK FALSE
SYMMETRY OneDeskOrOther
