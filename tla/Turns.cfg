SPECIFICATION TurnSpec
CONSTANTS
  Recipe = {r1}
  Command = {}
  Listing = {}
  Walk = {}
  Look = {k1}
  Paint = {}
  NoAsk = NoAsk
  MaxCalls = 2
  MaxRounds = 2
  MaxComputerRounds = 2
  MaxFailedRounds = 2
  SameScreenLimit = 4
  MaxResumes = 1
  MaxCards = 1
  MaxFaults = 2
  JudgeDownAfter = 1
  MaxRebuilds = 1
  StepBudget = 4
  SamePlaceAllowed = 2
  AnsCalls = {1, 2}
  MaxHistory = 4
  MaxFrames = 5
  AnyOrder = FALSE
  Paras = {1, 2}
  Units = {"a", "b"}
  TextLen = 2
  PageLimit = 2
  MaxChanges = 2
  Macs = {1, 2}
  Openers = {o1}
  Clerks = {q1, q2}
  RelayTurns = {t1}
  MaxInFlight = 1
  MaxEnrol = 2
  MaxOpened = 1
  Cmds = {c1}
  Polls = {p1}
  MaxLxTok = 2
  MaxSettings = 3
  CharClasses = {"a", "b", "o", "s", "d", "e", "v", "p", "t", "h", "g", "w"}
  MaxLine = 4
INVARIANTS LoopIsHonest GatesHold NeverLost WordsHold RelayHolds CommandsHold
SYMMETRY Alike
CHECK_DEADLOCK FALSE
