SPECIFICATION Spec
CONSTANTS
  Call = {c1}
  FormCall = {}
  NoCall = NoCall
  MaxResumes = 2
  Post = {p1}
  Loop = {l1, l2, l3}
  Person = {w1}
  Sweeper = {s1}
  MaxFaults = 3
PROPERTY ReplacedLoopNeverWrites
CHECK_DEADLOCK FALSE
