SPECIFICATION Spec
CONSTANTS
  Parts = {"Feed"}
  ConnIds = {1, 2}
  ConnReqs = {q1, q2}
  MaxConnSeq = 2
  AccIds = {1, 2}
  Editors = {e1}
  Delisted = 2
  MaxHead = 2
  MaxInstalls = 2
  MaxCeilVer = 1
  PoolTurns = {q1, q2}
  Scopes = {"x", "y"}
  PoolTTL = 1
  RetryAfter = 1
  MaxCreds = 2
  MaxSessions = 1
  SpendTurns = {q1, q2}
  SpendReplicas = {r1}
  MaxKeys = 2
  MaxPoints = 1
  Caps = {1}
  MeterStale = 2
  Msgs = {1}
  TurnRuns = {1, 2}
  Clients = {c1}
  Drains = {q1, q2}
  MaxVer = 1
  FeedRuns = {1, 2}
  ThreadOf <- MCThreadOf
  Batches <- MCBatches
  OwnRun = 1
  RetainMax = 3
  FeedPage = 3
  WakeRoom = 1
  MaxNotes = 3
  Artifacts = {1}
  Owners = {"x", "y"}
  Sends = {s1}
  MaxImages = 1
  MaxEdits = 2
  MaxDocV = 5
  CwReqs = {q1, q2}
  MaxCwSeq = 3
  MaxCwMoves = 1
  Verbs = {q1, q2}
  Proposals = {1}
  MaxDocs = 1
  MaxDocVer = 1
  MaxTouches = 1
INVARIANTS FollowedWithNoGap
CHECK_DEADLOCK FALSE
