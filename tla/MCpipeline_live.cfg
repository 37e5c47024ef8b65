SPECIFICATION FairSpec
CONSTANTS
    t1 = t1
    t2 = t2
    g1 = g1
    g2 = g2
    s1 = s1
    Targets = {t1, t2}
    Rows = {t1, t2}
    RowOf <- OwnRows
    PlatformOf <- OwnPlatforms
    GatewayWorkers = {g1}
    StandaloneWorkers = {}
    Dispatches = {d1}
    Retries = {}
    Operations = {"pause"}
    FaultKinds = {"telemetry_crash"}
    MaxFaults = 1
    MaxDelivered = 3
    NoTarget = NoTarget
    NoCopy = NoCopy
    NoReceipt = NoReceipt
CHECK_DEADLOCK FALSE
PROPERTIES StreamDrains MarkedInTimeCompletes CompletionIsNotified
