SPECIFICATION FairSpec
CONSTANTS
  Recipe = {r1}
  Command = {c1}
  Listing = {q1}
  Walk = {w1}
  Look = {k1}
  Paint = {u1}
  NoAsk = NoAsk
  MaxCalls = 1
  MaxRounds = 3
  MaxComputerRounds = 1
  MaxFailedRounds = 2
  SameScreenLimit = 2
  MaxResumes = 1
  MaxCards = 1
  MaxFaults = 1
PROPERTIES LoopComesDown
CHECK_DEADLOCK FALSE
