\* A commit whose reply is lost.
CONSTANTS
    u1 = u1
    u2 = u2
    s1 = s1
    s2 = s2
    d1 = d1
    Reqs = {u1}
    OpsOf <- MCUploadOps
    UploadKinds = {"source"}
    Env = {}
    Faults = {"lost_reply"}
    MaxDocs = 1
    Persons = {alice}
    Products = {}
    Tenants = {}
    TenantOf <- MCTenantOf
    NoTenant = NoTenant
    NoOne = NoOne
    Refs <- MCRefs
    NoRef = NoRef
    Hashes <- MCHashes
    NoHash <- MCNoHash
    TTL = 1
    HistoryKeep = 0
    Batch = 1
    MaxTime = 0
    Procs <- AllProcs
SPECIFICATION Spec
INVARIANTS Backed
CHECK_DEADLOCK FALSE
