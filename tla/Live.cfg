SPECIFICATION FairSpec
CONSTANTS
  None = None
  r1 = r1
  r2 = r2
  r3 = r3
  t1 = t1
  TitleOf <- OneTitle
  Requests = {r1, r2, r3}
  Titles = {t1}
  Series = {}
  Pin <- EachPin
  Disabled = {}
  Configured = {"plex"}
  Executes = {}
  MaxAborts = 1
  Hooks = {h1}
  Resyncs = {}
  Owner <- OwnOwner
  AutoApproved = {}
  Desks = {}
  Syncing = TRUE
  Start = {"APPROVED"}
  MaxChurn = 1
PROPERTIES
  ApprovedTitleArrives
  AvailableIsAnnounced
