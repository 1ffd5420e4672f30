SPECIFICATION MCSpec
CONSTANTS
  Call = {c1, c2}
  FormCall = {c2}
  NoCall = NoCall
  MaxResumes = 1
  Post = {p1, p2}
  Loop = {l1, l2}
  Person = {w1}
  Sweeper = {s1}
  MaxFaults = 1
  BoxIds = {1, 2, 3, 4}
  BoxJobs = {p1, p2}
  MaxResets = 1
INVARIANTS RunsAtMostOnce ActsOnRecord DeniedNeverRuns NoSweepOfTheLiving OneDriver BoxesHold
PROPERTIES KeepsContract EndingIsFinal
SYMMETRY Symmetry
CHECK_DEADLOCK FALSE
