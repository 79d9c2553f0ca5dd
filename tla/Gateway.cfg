SPECIFICATION Spec
CONSTANTS
    r1 = r1
    r2 = r2
    Requests = {r1, r2}
    Tenants = {"open", "closed"}
    OpenTenants = {"open"}
    MaxConcurrent <- OneSlot
    Models = {"m"}
    IDs <- OneID
    Weight <- OneWeight
    Serves <- OneServes
SYMMETRY Interchangeable
INVARIANTS SlotsSound RejectionHolds
CHECK_DEADLOCK FALSE
