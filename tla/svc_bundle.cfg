\* Bundles and edits of a bundle, of two files and of one, race with a first
\* signature, an extraction and the workflow's freeze.
CONSTANTS
    u1 = u1
    u2 = u2
    s1 = s1
    s2 = s2
    d1 = d1
    Reqs = {u1, s1, s2, d1}
    OpsOf <- MCBundleOps
    UploadKinds = {"source"}
    Env = {"freeze"}
    Faults = {}
    MaxDocs = 3
    Persons = {alice}
    Products = {}
    Tenants = {}
    TenantOf <- MCTenantOf
    NoTenant = NoTenant
    NoOne = NoOne
    Refs <- MCRefs
    NoRef = NoRef
    Hashes <- MCHashes
    NoHash <- MCNoHash
    TTL = 1
    HistoryKeep = 0
    Batch = 1
    MaxTime = 0
    Procs <- AllProcs
SYMMETRY MCSymmetry
SPECIFICATION Spec
CONSTRAINT OneFrozen
INVARIANTS Backed NothingLeaks AckedSignatureKept
PROPERTIES ImplementsLedger
CHECK_DEADLOCK FALSE
