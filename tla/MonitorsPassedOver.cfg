CONSTANTS
    Monitors = {m1}
    Turns = {t1, t2}
    OwnerOf <- OneOwner
    Replicas = {r1}
    People = {w1}
    Asking = {"manual"}
    Batch = 2
    MaxInFlight = 1
    MaxFirings = 1
    MaxEvents = 2
    MaxChanges = 0
    MaxFaults = 0
SPECIFICATION Spec
CHECK_DEADLOCK FALSE
INVARIANT NothingPassedOver
