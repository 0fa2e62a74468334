\* Three chains, or fewer with signed forms, are read two to a page while files are
\* uploaded, bundled, signed in and below the root, and frozen.
CONSTANTS
    MaxDocs = 3
    Persons = {alice}
    Products = {}
    Tenants = {}
    TenantOf <- MCTenantOf
    NoTenant = NoTenant
    NoOne = NoOne
    Refs = {r1}
    NoRef = NoRef
    Hashes = {h1}
    NoHash = NoHash
    TTL = 1
    HistoryKeep = 0
    Batch = 1
    MaxTime = 1
    Procs = {"insert", "replace", "freeze", "bundle", "rebundle"}
    Viewer = alice
    PageSize = 2
SPECIFICATION WalkSpec
INVARIANTS WalkIsComplete HeadsAgree SigningIsShown OneSignedPdfPerTree
