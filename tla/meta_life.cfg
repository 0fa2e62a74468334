\* The life of a row and of its access list: two ids, a person and a product,
\* grants, departures, bundles, extensions, holds, late replaces and both sweeps.
CONSTANTS
    MaxDocs = 2
    Persons = {alice}
    Products = {crm}
    Tenants = {acme}
    TenantOf <- MCTenantOf
    NoTenant = NoTenant
    NoOne = NoOne
    Refs = {r1}
    NoRef = NoRef
    Hashes = {h1}
    NoHash = NoHash
    TTL = 1
    HistoryKeep = 0
    Batch = 1
    MaxTime = 2
    Procs = {"insert", "bundle", "grant", "extend", "remove", "sweep", "history", "unlist", "hold", "replace", "rebundle"}
SPECIFICATION LifeSpec
INVARIANTS TypeOK OrphansExpire HeadsAgree HistoryShowsSigning HistoryMeansDestroyed HorizonIsRight
PROPERTIES OnlyDueRowsExpire RootsStayListed RootOutlivesDepartures
