SPECIFICATION ImportSpec
CONSTANTS
  Uploads = {u1}
  NChunks = 2
  NoSession = NoSession
INVARIANT ImportKeepsSlot
CHECK_DEADLOCK FALSE
