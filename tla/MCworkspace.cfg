SPECIFICATION WorkspaceSpec
CONSTANTS
    x1 = x1
    p1 = p1
    p2 = p2
    a1 = a1
    u1 = u1
    u2 = u2
    w1 = w1
    w2 = w2
    b1 = b1
    b2 = b2
    c1 = c1
    Person = {x1}
    Proc = {p1, p2}
    ContactsLimit = 1
    MaxRows = 2
    MaxWords = 2
    MaxRequests = 5
    MaxFaults = 1
    MaxSyncs = 2
    Member = {u1, u2}
    Team = {w1, w2}
    TeamRequest = {"q1", "q2"}
    InviteLimit = 1
    WorkspaceLimit = 2
    TurnLimit = 5
    TeamFaultLimit = 1
    Tenant = {w1, w2}
    Bot = {b1, b2}
    OtherPlatform = {"instagram", "whatsapp", "x"}
    ChannelRequest = {"q1", "q2"}
    ChannelsLimit = 1
    RegistryFaultLimit = 1
    Workspace = {w1, w2}
    Account = {a1}
    Slot = {1, 2}
    PairingLimit = 2
    ChannelFaultLimit = 1
    Calls = {c1}
    Roles = {"approver", "operator"}
    RequireApproval = TRUE
    LookupMayFail = FALSE
    BrandReloads = TRUE
    MaxVersion = 4
SYMMETRY Same
CHECK_DEADLOCK FALSE
INVARIANTS WorkspaceTypeOK KeywordRecordedOnce OwnersRemain ActsAsGranted OverByRequestsAtMost WebhookComesBack LiveSessionOwnsAccount DecisionsAreCurrent OnlyClearedIsSent
PROPERTIES AudienceIsKept BrandHasAgreed
