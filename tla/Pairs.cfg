SPECIFICATION WaitsSpec
CONSTANTS
    Bots = {a, b}
    a = a
    b = b
    Chats = {a}
    MaxMsgs = 3
    MaxCalls = 2
    MaxHops = 2
    PerChain = 2
    PerHour = 1
    Hour = 1
    MaxTime = 1
    Batch = 4
    MaxTasks = 2
    MaxFaults = 1
    FormIds = {1}
    People = {p1}
    Sweeps = {s1}
INVARIANTS PairsHold
PROPERTIES Delivered FormsSettle
CHECK_DEADLOCK FALSE
