CONSTANTS
    Monitors = {m1}
    Turns = {t1, t2}
    OwnerOf <- TwoOwners
    Replicas = {r1, r2}
    People = {w1}
    Asking = {"pause", "resume", "delete", "edit", "manual"}
    Batch = 2
    MaxInFlight = 1
    MaxFirings = 2
    MaxEvents = 3
    MaxChanges = 1
    MaxFaults = 1
SPECIFICATION Spec
CHECK_DEADLOCK FALSE
SYMMETRY Alike
PROPERTY MonitorsHold
