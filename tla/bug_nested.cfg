\* A container made of a signed PDF, a grant on it and a departure.
CONSTANTS
    u1 = u1
    u2 = u2
    s1 = s1
    s2 = s2
    d1 = d1
    Reqs = {u1, s1, s2, d1}
    OpsOf <- MCSweepOps
    UploadKinds = {"source"}
    Env = {"grant"}
    Faults = {}
    MaxDocs = 3
    Persons = {alice, bob}
    Products = {}
    Tenants = {}
    TenantOf <- MCTenantOf
    NoTenant = NoTenant
    NoOne = NoOne
    Refs <- MCRefs
    NoRef = NoRef
    Hashes <- MCHashes
    NoHash <- MCNoHash
    TTL = 1
    HistoryKeep = 0
    Batch = 1
    MaxTime = 0
    Procs <- AllProcs
SYMMETRY MCSymmetry
SPECIFICATION Spec
PROPERTIES OthersKeepTheirs
CHECK_DEADLOCK FALSE
