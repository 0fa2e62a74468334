\* The life of one document of a person or a product: reads, the archive form,
\* removal, holds, the sweeps and the removal of its record.
CONSTANTS
    u1 = u1
    u2 = u2
    s1 = s1
    s2 = s2
    d1 = d1
    Reqs = {u1, s1, d1}
    OpsOf <- MCLifeOps
    UploadKinds = {"container"}
    Env = {"sweep", "tick", "unlist", "hold"}
    Faults = {"db", "abort"}
    MaxDocs = 1
    Persons = {alice}
    Products = {crm}
    Tenants = {acme}
    TenantOf <- MCTenantOf
    NoTenant = NoTenant
    NoOne = NoOne
    Refs <- MCRefs
    NoRef = NoRef
    Hashes <- MCHashes
    NoHash <- MCNoHash
    TTL = 1
    HistoryKeep = 1
    Batch = 1
    MaxTime = 2
    Procs <- AllProcs
SPECIFICATION Spec
INVARIANTS ServiceTypeOK Backed BytesIffLive
PROPERTIES HeldRowKept DeletedIsFinal ImplementsLedger
CHECK_DEADLOCK FALSE
