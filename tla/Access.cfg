SPECIFICATION Spec
CONSTANTS
  Replicas = {r1, r2}
  Requests = {q1, q2}
  Sids = {1}
  MaxTok = 3
  Grace = 1
  MaxNow = 2
  MaxOther = 1
  Handlers = {q1, q2}
  Emails = {"e1", "e2"}
  Codes = {"c1"}
  Domains = {"home", "other"}
  HomeDomain = "home"
  DomainOf <- MCDomainOf
  MaxAcct = 3
  MaxOrg = 5
  MaxLinks = 1
  RedeemAttempts = 2
  TokenReqs = {q1, q2}
  AuthCodes = {"c1", "c2"}
  MaxPair = 3
  DcrCeiling = 1
  DoorReplicas = {r1, r2}
  Callers = {q1, q2}
  MaxAsk = 2
  OnceTTL = 1
  MaxDoorNow = 1
  PerWindow = 2
  Window = 2
  Tries = {q1, q2}
  DocUrls = {"u1", "u2"}
  DocTTL = 1
  DocMax = 1
  MaxBudNow = 2
  LoginIds = {1, 2}
  Bots = {b1}
  KeyIds = {1, 2, 3}
  MaxSave = 3
  PurgeAccounts = {"a1", "a2"}
  PurgeOrgs = {"o1"}
  PurgeBots = {"c1"}
  Things = {"x1"}
  Operators = {q1, q2}
  MaxDbRows = 1
  SkillIds = {1, 2}
  SkillNames = {"n"}
  SkillReqs = {q1, q2}
  MaxVersions = 2
  MaxAttaches = 1
  PlayIds = {1, 2}
  RunsKept = 1
  MaxShares = 1
INVARIANTS SessionsHold ChainsStayLines YesAllowsOnce WindowsHold SecretsKept   
PROPERTIES ClaimsHold
SYMMETRY Alike
CHECK_DEADLOCK FALSE
