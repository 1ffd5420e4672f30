SPECIFICATION FairSpec
CONSTANTS
  Call = {c1}
  FormCall = {}
  NoCall = NoCall
  MaxResumes = 1
  Post = {p1}
  Loop = {l1}
  Person = {w1}
  Sweeper = {s1}
  MaxFaults = 2
PROPERTIES RunComesToRest
CHECK_DEADLOCK FALSE
