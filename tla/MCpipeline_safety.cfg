SPECIFICATION SafetySpec
CONSTANTS
    t1 = t1
    t2 = t2
    g1 = g1
    s1 = s1
    x1 = x1
    x2 = x2
    Targets = {t1, t2}
    Rows = {t1, t2}
    RowOf <- OwnRows
    PlatformOf <- OwnPlatforms
    GatewayWorkers = {g1}
    StandaloneWorkers = {s1}
    Dispatches = {d1}
    Retries = {x1, x2}
    Operations = {"pause", "cancel", "unschedule", "opt_out"}
    FaultKinds = {"worker_crash", "reply_lost", "result_publish", "ack_wait", "consent_lookup", "task_publish", "telemetry_crash", "dedup_lookup", "status_lookup"}
    MaxFaults = 1
    MaxDelivered = 3
    FirstCopies = 1
    RetryCopies = 2
    NoTarget = NoTarget
    NoCopy = NoCopy
    NoReceipt = NoReceipt
SYMMETRY Symmetric
CHECK_DEADLOCK FALSE
INVARIANTS PauseStopsSending FaultlessIsOnce FaultyIsSettled RetriedIsServedOnce
