SPECIFICATION AssistantSpec
CONSTANTS
    a1 = a1
    b1 = b1
    k1 = k1
    k2 = k2
    t1 = t1
    t2 = t2
    t3 = t3
    c1 = c1
    Agent = {a1}
    Body = {b1}
    MaxOut = 2
    MaxIn = 2
    MaxEdits = 2
    MaxFaults = 1
    Topic = {k1, k2}
    ItemLimit = 2
    VersionLimit = 2
    AskLimit = 2
    SearchLimit = 2
    BaseFaultLimit = 1
    HoursPerDay = 3
    Confidence = {5, 9}
    Length = {0, 1, 4, 9}
    MaxChars = 3
    Overlap = 1
    PaidPlan = {"growth"}
    Handler = {"h1", "h2"}
    NoticeLimit = 3
    DeliveryLimit = 2
    BillingFaultLimit = 1
    Targets = {t1, t2, t3}
    Rows = {t1, t2, t3}
    RowOf <- OwnRows
    Consumers = {c1}
    Dispatches = {}
    Retries = {}
    MaxDelivered = 1
    NoTarget = NoTarget
    NoResult = NoResult
SYMMETRY Same
CHECK_DEADLOCK FALSE
INVARIANTS AssistantTypeOK UnreadCovers SearchIsFull LimitsMatchPlan PlanFollowsPurchases PaidMeansCharged CountIsExact AllReportedCompletes
PROPERTIES InboxIsFaithful KnowledgeIsKept RepliesAsConfigured SectionsCover
