\* The co-signing race under every failure: puts, deletes and commits that
\* fail, commits whose reply is lost and requests that die half way.
CONSTANTS
    u1 = u1
    u2 = u2
    s1 = s1
    s2 = s2
    d1 = d1
    Reqs = {u1, s1, s2, d1}
    OpsOf <- MCFaultOps
    UploadKinds = {"source", "container"}
    Env = {}
    Faults = {"put", "delete", "db", "abort", "lost_reply"}
    MaxDocs = 2
    Persons = {alice}
    Products = {}
    Tenants = {}
    TenantOf <- MCTenantOf
    NoTenant = NoTenant
    NoOne = NoOne
    Refs <- MCRefs
    NoRef = NoRef
    Hashes <- MCHashes
    NoHash <- MCNoHash
    TTL = 1
    HistoryKeep = 0
    Batch = 1
    MaxTime = 0
    Procs <- AllProcs
SYMMETRY MCSymmetry
SPECIFICATION Spec
INVARIANTS LossIsReported ReadsMatchHash
PROPERTIES CoSignAdds
CHECK_DEADLOCK FALSE
