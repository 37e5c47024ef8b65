SPECIFICATION ReviewSpec
CONSTANTS
    Calls = {c1, c2}
    Roles = {"approver", "operator"}
    RequireApproval = TRUE
    LookupMayFail = FALSE
    BrandReloads = TRUE
    MaxVersion = 2
CHECK_DEADLOCK FALSE
INVARIANT ApprovedIsCurrent
