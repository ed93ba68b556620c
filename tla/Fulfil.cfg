SPECIFICATION EvidenceSpec
CONSTANTS
  None = None
  r1 = r1
  r2 = r2
  t1 = t1
  TitleOf <- OneTitle
  Requests = {r1, r2}
  Titles = {t1}
  Series = {}
  Pin <- AnyAndJellyfin
  Disabled = {}
  Configured = {"plex"}
  Executes = {}
  MaxAborts = 0
  Hooks = {h1}
  Resyncs = {}
  Owner <- OwnOwner
  AutoApproved = {}
  Desks = {}
  Syncing = TRUE
  Start = {"APPROVED", "AVAILABLE"}
  MaxChurn = 2
INVARIANTS
  NotifiedAtMostOnce
  BackstopOnlyOnLiveApproval
PROPERTIES
  DemotionNeedsEvidence
  RefinesBoard
