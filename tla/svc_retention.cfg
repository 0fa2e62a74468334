\* Signing and the sweeps while time passes and the service is shut down.
CONSTANTS
    u1 = u1
    u2 = u2
    s1 = s1
    s2 = s2
    d1 = d1
    Reqs = {u1, s1}
    OpsOf <- MCSweepOps
    UploadKinds = {"source", "pdf"}
    Env = {"sweep", "tick", "stop"}
    Faults = {}
    MaxDocs = 3
    Persons = {alice}
    Products = {}
    Tenants = {}
    TenantOf <- MCTenantOf
    NoTenant = NoTenant
    NoOne = NoOne
    Refs <- MCRefs
    NoRef = NoRef
    Hashes <- MCHashes
    NoHash <- MCNoHash
    TTL = 1
    HistoryKeep = 1
    Batch = 1
    MaxTime = 3
    Procs <- AllProcs
SPECIFICATION FairSpec
INVARIANT Backed
PROPERTIES DueRowsPurged UnnamedBytesDestroyed RequestsAnswered StopCompletes ImplementsMeta
CHECK_DEADLOCK FALSE
