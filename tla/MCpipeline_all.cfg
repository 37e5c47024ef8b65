SPECIFICATION AllSpec
CONSTANTS
    t1 = t1
    t2 = t2
    g1 = g1
    g2 = g2
    s1 = s1
    Targets = {t1}
    Rows = {t1}
    RowOf <- OwnRows
    PlatformOf <- OwnPlatforms
    GatewayWorkers = {g1}
    StandaloneWorkers = {}
    Dispatches = {d1}
    Retries = {x1}
    Operations = {"expiry"}
    FaultKinds = {"task_publish", "dispatch_abort", "consent_lookup", "status_lookup", "campaign_lookup", "dedup_lookup", "reply_lost", "result_publish", "expiry_publish", "worker_crash", "notification", "telemetry_crash", "reopen", "release", "retry_abort"}
    MaxFaults = 2
    MaxDelivered = 3
    NoTarget = NoTarget
    NoCopy = NoCopy
    NoReceipt = NoReceipt
CHECK_DEADLOCK FALSE
INVARIANTS TypeOK AckedIsAccounted
PROPERTY KeepsContract
