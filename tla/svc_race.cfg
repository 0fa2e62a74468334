\* Two signers, one of them perhaps invited, race on one uploaded file, in a
\* container or in place, while the owner may leave.
CONSTANTS
    u1 = u1
    u2 = u2
    s1 = s1
    s2 = s2
    d1 = d1
    Reqs = {u1, s1, s2, d1}
    OpsOf <- MCRaceOps
    UploadKinds = {"source", "container"}
    Env = {"grant"}
    Faults = {}
    MaxDocs = 3
    Persons = {alice, bob}
    Products = {}
    Tenants = {}
    TenantOf <- MCTenantOf
    NoTenant = NoTenant
    NoOne = NoOne
    Refs <- MCRefs
    NoRef = NoRef
    Hashes <- MCHashes
    NoHash <- MCNoHash
    TTL = 1
    HistoryKeep = 0
    Batch = 1
    MaxTime = 0
    Procs <- AllProcs
SYMMETRY MCSymmetry
SPECIFICATION Spec
INVARIANTS Backed NothingLeaks OneContainerPerParent OneSignedPdfPerTree
PROPERTIES CoSignAdds ImplementsLedger
CHECK_DEADLOCK FALSE
