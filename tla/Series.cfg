SPECIFICATION EvidenceSpec
CONSTANTS
  None = None
  r1 = r1
  r2 = r2
  t1 = t1
  TitleOf <- OneTitle
  Requests = {r1}
  Titles = {t1}
  Series = {t1}
  Pin <- AnyAndJellyfin
  Disabled = {}
  Configured = {"plex"}
  Executes = {}
  MaxAborts = 0
  Hooks = {h1}
  Resyncs = {"plex"}
  Owner <- OwnOwner
  AutoApproved = {}
  Desks = {}
  Syncing = TRUE
  Start = {"PENDING", "APPROVED"}
  MaxChurn = 1
INVARIANTS
  TypeOK
PROPERTIES
  ListedSeriesIsHeld
  RefinesBoard
