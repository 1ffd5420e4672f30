CONSTANTS
    c1 = c1
    p1 = p1
    w1 = w1
    w2 = w2
    Crons <- MCOneCron
    Coworkers = {c1, c2}
    Keys = {k1, k2}
    None = None
    People = {w1, w2}
    Asking = {"update", "pause", "delete", "bot", "rotate", "webhook"}
    Replicas = {r1}
    MaxTime = 1
    MaxLog = 2
    MaxFaults = 1
SPECIFICATION MCSpec
CHECK_DEADLOCK FALSE
SYMMETRY Alike
INVARIANTS ClockFiresRightly PeopleAreHeeded
