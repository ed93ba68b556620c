SPECIFICATION ServerFairSpec
CONSTANTS
  r1 = r1
  r2 = r2
  c1 = c1
  c2 = c2
  e1 = e1
  e2 = e2
  e3 = e3
  d1 = d1
  d2 = d2
  d3 = d3
  p1 = p1
  p2 = p2
  u1 = u1
  u2 = u2
  ch1 = ch1
  ch2 = ch2
  v1 = v1
  v2 = v2
  v3 = v3
  a1 = a1
  a2 = a2
  a3 = a3
  k1 = k1
  k2 = k2
  h1 = h1
  h2 = h2
  h3 = h3
  Sweep = Sweep
  NoRow = NoRow
  NoAgent = NoAgent
  NoEntry = NoEntry
  NoSession = NoSession
  Requests = {r1, r2}
  Checks = {c1, c2}
  Muted = {r2}
  MaxFaults = 1
  Jobs <- OneJobPerCheck
  MaxPending = 2
  MaxQueue = 1
  MaxConcurrency = 1
  Events = {e1, e2, e3}
  MaxAttempts = 1
  MaxEdits = 2
  Deliveries = {d1, d2, d3}
  Payloads = {p1, p2}
  Payload <- PayloadOf
  AutoResolve = TRUE
  Callers = {d1, d2, d3}
  MaxRetries = 1
  Handles = {1, 2, 3}
  Uploads = {u1, u2}
  NChunks = 2
  Challenges = {ch1, ch2}
  Verifiers = {v1, v2, v3}
  Codes = {1, 2}
  MaxLive = 1
  MaxFailures = 2
  LockThreshold = 2
  MaxThrows = 1
  NoChallenge = NoChallenge
  WrongCode = 0
  Users = {a1, a2, a3}
  Desks = {k1, k2}
  Hits = {h1, h2, h3}
  NoHit = NoHit
  Workloads <- Few
CHECK_DEADLOCK FALSE
PROPERTIES
  BackstopSettled
  DeliveryEnds
  CallersServed
  SlotReopens
