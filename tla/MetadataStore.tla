--------------------------- MODULE MetadataStore ---------------------------
(***************************************************************************)
(* The metadata layer of the document store (store/memory.go, the double   *)
(* of the database procedures): document rows, the chain access list and   *)
(* the clock they are dated by.  Every procedure runs under one lock (one  *)
(* transaction), so each is one atomic action.                             *)
(*                                                                         *)
(* Ids are ULIDs: 1..MaxDocs in creation order, never reused.  A row is a  *)
(* total record; an id not yet handed out has status "unused", one whose   *)
(* row was hard-deleted has status "erased".  StorageRef and               *)
(* EncryptionKeyRef are always written and cleared together, so they are   *)
(* one field, ref.  A content hash stands for the bytes it was taken of.   *)
(* Names, sizes, media types and the preservation class decide nothing.    *)
(***************************************************************************)
EXTENDS Integers, FiniteSets

CONSTANTS
    MaxDocs,        \* how many ids the run may hand out
    Persons,        \* subjects; each also carries an eIDAS serial
    Products,       \* product credentials, each acting for one organisation
    Tenants,        \* organisations
    TenantOf,       \* the organisation of each product's token
    NoTenant,       \* the empty tenant_id of a row owned by a subject
    NoOne,          \* owner of an id without a row
    Refs, NoRef,    \* object keys, and the empty reference of purged bytes
    Hashes, NoHash, \* content hashes, and the hash of an id without a row
    TTL,            \* the service's retention period
    HistoryKeep,    \* how long a terminal record is kept
    Batch,          \* sweep batch size
    MaxTime,        \* bound on the clock
    Procs           \* the procedures the general client of MetaNext calls

ASSUME MetaAssumption ==
    /\ MaxDocs \in Nat \ {0}
    /\ Persons \cap Products = {}
    /\ TenantOf \in [Products -> Tenants]
    /\ NoTenant \notin Tenants
    /\ NoOne \notin Persons \cup Products
    /\ NoRef \notin Refs
    /\ TTL \in Nat \ {0} /\ HistoryKeep \in Nat
    /\ Batch \in Nat \ {0} /\ MaxTime \in Nat

VARIABLES
    rows,   \* DocIds -> row
    acl,    \* the set of standing access entries
    now     \* the clock

metaVars == <<rows, acl, now>>

DocIds == 1..MaxDocs
NoParent == 0
NoDate == -1        \* retention_until = nil: nothing is scheduled
Callers == Persons \cup Products
Kinds == {"source", "container", "pdf"}
Statuses == {"unused", "received", "signed", "expired", "deleted", "erased"}

Row == [owner   : Callers \cup {NoOne},
        tenant  : Tenants \cup {NoTenant},
        kind    : Kinds,
        parent  : 0..MaxDocs,
        ref     : Refs \cup {NoRef},
        hash    : Hashes \cup {NoHash},
        status  : Statuses,
        until   : Nat \cup {NoDate},
        hold    : BOOLEAN,
        signed  : BOOLEAN,               \* signed_at is set
        frozen  : BOOLEAN,
        updated : Nat]

\* An id with no row behind it.
Blank(status) ==
    [owner |-> NoOne, tenant |-> NoTenant, kind |-> "source",
     parent |-> NoParent, ref |-> NoRef, hash |-> NoHash, status |-> status,
     until |-> NoDate, hold |-> FALSE, signed |-> FALSE,
     frozen |-> FALSE, updated |-> 0]

\* One standing access entry.  `read` says whether its rights include "read",
\* the only right any procedure asks for.
AclEntry == [root: DocIds, kind: {"sub", "serial", "product"},
             who: Callers, read: BOOLEAN]

TypeOK ==
    /\ rows \in [DocIds -> Row]
    /\ acl \subseteq AclEntry
    /\ now \in Nat

Init ==
    /\ rows = [d \in DocIds |-> Blank("unused")]
    /\ acl = {}
    /\ now = 0

----------------------------------------------------------------------------
(* Reading the state.                                                      *)

Stored(d) == rows[d].status \notin {"unused", "erased"}
Live(d) == rows[d].status \in {"received", "signed"}
Standing(d) == rows[d].status \in {"received", "signed", "expired"}
Terminal(d) == rows[d].status \in {"expired", "deleted"}

\* The next id: the smallest that was never handed out.
Fresh(d) ==
    /\ rows[d].status = "unused"
    /\ \A e \in DocIds : e < d => rows[e].status # "unused"

ChainRoot(d) == IF rows[d].parent # NoParent THEN rows[d].parent ELSE d

\* Rows whose chain root is r.
Chain(r) == {d \in DocIds : Stored(d) /\ ChainRoot(d) = r}

\* Somebody is on the access list of the chain rooted at r.
Listed(r) == \E g \in acl : g.root = r

\* What a caller presents: a person subject and serial, a product credential
\* subject and product principal.  Some calls present only part of it.
FullId(c) == IF c \in Products THEN {"sub", "product"} ELSE {"sub", "serial"}

\* memory.go: allows.  The principal is compared whole, whatever its kind.
Allows(r, c, ids) ==
    \E e \in acl : e.root = r /\ e.who = c /\ e.kind \in ids /\ e.read

\* A product only reaches rows of the organisation its token names.
TenantMatches(d, c, ids) ==
    "product" \in ids => rows[d].tenant = TenantOf[c]

\* Get succeeds.
Readable(d, c, ids) ==
    Stored(d) /\ Allows(ChainRoot(d), c, ids) /\ TenantMatches(d, c, ids)

\* The freeze flag Get projects on the row: the root's, or the row's own when
\* the root has no row any more.
Frozen(d) ==
    IF Stored(ChainRoot(d)) THEN rows[ChainRoot(d)].frozen ELSE rows[d].frozen

\* Owner-scoped procedures compare the owner column with the caller's subject;
\* a product-owned row names its principal there and matches no subject.
OwnedBy(d, c) == rows[d].owner = c /\ rows[d].tenant = NoTenant

\* GetContainerByParent's candidates (expired rows included).
ContainersOf(par) ==
    {d \in DocIds : /\ Stored(d) /\ rows[d].kind = "container"
                    /\ rows[d].parent = par /\ rows[d].status # "deleted"}

\* GetLatestSignedPdfByChain: the newest signed pdf of the tree (expired rows
\* included), as a set of at most one id.
LatestSignedPdf(r) ==
    LET pdfs == {d \in DocIds : /\ Stored(d) /\ rows[d].kind = "pdf"
                                /\ rows[d].parent = r \/ d = r
                                /\ rows[d].status # "deleted"}
    IN  {d \in pdfs : \A e \in pdfs : e <= d}

Bundleable(d) ==
    \/ rows[d].kind = "source" /\ rows[d].status = "received"
    \/ rows[d].kind \in {"pdf", "container"} /\ rows[d].status = "signed"

----------------------------------------------------------------------------
(* The procedures.  X_Result names the outcome, X is the successful call.  *)

\* Mutants of InsertResult: a signed root does not count as the tree's signed pdf;
\* one of the two rules is missing.
InsertResultPerParent(kind, par) ==
    IF /\ kind # "source" /\ par # NoParent
       /\ \E d \in DocIds :
             /\ Stored(d) /\ rows[d].kind = kind /\ rows[d].status # "deleted"
             /\ rows[d].parent = par
    THEN "chain_advanced" ELSE "ok"
InsertResultPdfOnly(kind, par) ==
    IF kind = "pdf" THEN InsertResultPerParent(kind, par) ELSE "ok"
InsertResultContainerOnly(kind, par) ==
    IF kind = "container" THEN InsertResultPerParent(kind, par) ELSE "ok"

\* Insert keeps one live container per parent and one live signed pdf per tree.
InsertResult(kind, par) ==
    IF /\ kind # "source" /\ par # NoParent
       /\ \E d \in DocIds :
             /\ Stored(d) /\ rows[d].kind = kind /\ rows[d].status # "deleted"
             /\ rows[d].parent = par \/ (kind = "pdf" /\ d = par)
    THEN "chain_advanced"
    ELSE "ok"

\* in: owner, tenant, kind, parent, ref, hash, status, until.
NewRow(in) ==
    [owner |-> in.owner, tenant |-> in.tenant, kind |-> in.kind,
     parent |-> in.parent, ref |-> in.ref, hash |-> in.hash,
     status |-> in.status, until |-> in.until,
     hold |-> FALSE, signed |-> FALSE, frozen |-> FALSE, updated |-> now]

\* Mutant of SeedAcl: the entry is keyed by the parent, not by the root.
SeedAclParent(d, in) ==
    {[root |-> in.parent, who |-> in.owner, read |-> TRUE,
      kind |-> IF in.tenant = NoTenant THEN "sub" ELSE "product"]}

\* A new root seeds its creator's access; a child inherits the root's list.
SeedAcl(d, in) ==
    IF in.parent # NoParent THEN {}
    ELSE {[root |-> d, who |-> in.owner, read |-> TRUE,
           kind |-> IF in.tenant = NoTenant THEN "sub" ELSE "product"]}

Insert(d, in) ==
    /\ Fresh(d)
    /\ InsertResult(in.kind, in.parent) = "ok"
    /\ rows' = [rows EXCEPT ![d] = NewRow(in)]
    /\ acl' = acl \cup SeedAcl(d, in)
    /\ UNCHANGED now

\* Mutants of ReplaceResult: no compare-and-set; deleted rows accepted.
ReplaceResultNoCas(d, exp) ==
    IF ~Stored(d) \/ rows[d].status = "deleted" \/ rows[d].kind = "source"
    THEN "not_found" ELSE "ok"
ReplaceResultAnyStatus(d, exp) ==
    IF ~Stored(d) \/ rows[d].kind = "source" THEN "not_found"
    ELSE IF rows[d].hash # exp THEN "chain_advanced" ELSE "ok"

ReplaceResult(d, exp) ==
    IF ~Stored(d) \/ rows[d].status = "deleted" \/ rows[d].kind = "source"
    THEN "not_found"
    ELSE IF rows[d].hash # exp THEN "chain_advanced" ELSE "ok"

\* ReplaceContainerBlob: the keep-latest swap, a compare-and-set on the hash.
ReplaceContainerBlob(d, exp, ref, hash) ==
    /\ ReplaceResult(d, exp) = "ok"
    /\ rows' = [rows EXCEPT ![d] =
          [@ EXCEPT !.ref = ref, !.hash = hash, !.status = "signed",
                    !.signed = TRUE, !.updated = now]]
    /\ UNCHANGED <<acl, now>>

AbsorbResult(s, c) ==
    IF ~Stored(s) \/ ~OwnedBy(s, c) \/ Terminal(s) THEN "not_found"
    ELSE IF ~Bundleable(s) THEN "not_bundleable"
    ELSE IF rows[s].hold THEN "legal_hold" ELSE "ok"

\* The possible refusals of a source list: the first bad source in the
\* client's order decides, and every order is a possible request.
AbsorbErrors(srcs, c) == {AbsorbResult(s, c) : s \in srcs} \ {"ok"}

\* Absorbed rows are hard-deleted, and their own access entries with them.
DropChains(roots) == {e \in acl : e.root \notin roots}

Bundle(d, c, srcs, ref, hash) ==
    /\ Fresh(d)
    /\ srcs # {} /\ AbsorbErrors(srcs, c) = {}
    /\ LET in == [owner |-> c, tenant |-> NoTenant, kind |-> "container",
                  parent |-> NoParent, ref |-> ref, hash |-> hash,
                  status |-> "received", until |-> now + TTL]
       IN  /\ rows' = [e \in DocIds |-> IF e = d THEN NewRow(in)
                                        ELSE IF e \in srcs THEN Blank("erased")
                                        ELSE rows[e]]
           /\ acl' = DropChains(srcs) \cup SeedAcl(d, in)
    /\ UNCHANGED now

\* Mutant of RebundleErrors: the service's own check of the draft is trusted.
RebundleErrorsTrusting(d, c, exp, srcs) ==
    IF ~Stored(d) \/ ~OwnedBy(d, c) \/ Terminal(d) THEN {"not_found"}
    ELSE AbsorbErrors(srcs, c)

\* The refusals of Rebundle, in the order the procedure tests them.
RebundleErrors(d, c, exp, srcs) ==
    IF ~Stored(d) \/ ~OwnedBy(d, c) \/ Terminal(d) THEN {"not_found"}
    ELSE IF rows[d].kind # "container" \/ rows[d].status # "received"
         THEN {"not_bundleable"}
    ELSE IF rows[d].hold THEN {"legal_hold"}
    ELSE IF rows[d].hash # exp THEN {"chain_advanced"}
    ELSE AbsorbErrors(srcs, c)

Rebundle(d, c, exp, srcs, ref, hash) ==
    /\ RebundleErrors(d, c, exp, srcs) = {}
    /\ rows' = [e \in DocIds |->
          IF e \in srcs THEN Blank("erased")
          ELSE IF e = d
               THEN [rows[d] EXCEPT !.ref = ref, !.hash = hash, !.updated = now]
               ELSE rows[e]]
    /\ acl' = DropChains(srcs)
    /\ UNCHANGED now

\* Grant only asks that the row exists: a deleted one will do.
Grant(d, c, read) ==
    /\ Stored(d)
    /\ acl' = {e \in acl : ~(/\ e.root = ChainRoot(d)
                             /\ e.kind = "serial" /\ e.who = c)}
              \cup {[root |-> ChainRoot(d), kind |-> "serial",
                     who |-> c, read |-> read]}
    /\ UNCHANGED <<rows, now>>

\* SetResultFreeze writes the root row, and fails when there is none.
SetResultFreeze(d, frozen) ==
    /\ Stored(d) /\ Stored(ChainRoot(d))
    /\ rows' = [rows EXCEPT ![ChainRoot(d)] =
          [@ EXCEPT !.frozen = frozen, !.updated = now]]
    /\ UNCHANGED <<acl, now>>

\* The date moves forward only; no date is further than any.
Later(old, new) == IF old # NoDate /\ new > old THEN new ELSE old

ExtendRetention(d, c, until) ==
    /\ Stored(d) /\ OwnedBy(d, c)
    /\ rows' = [rows EXCEPT ![d] =
          [@ EXCEPT !.until = Later(rows[d].until, until), !.updated = now]]
    /\ UNCHANGED <<acl, now>>

\* The rows RemoveAccess considers the chain of r.
Members(r) == {d \in DocIds : Stored(d) /\ (d = r \/ rows[d].parent = r)}

RemoveAccessResult(d, c) ==
    IF ~Readable(d, c, FullId(c)) THEN "not_found"
    ELSE IF \E e \in Members(ChainRoot(d)) : rows[e].hold THEN "legal_hold"
    ELSE "ok"

\* The access list without the caller's own entries on the chain.
WithoutMine(r, c) ==
    {e \in acl : ~(e.root = r /\ e.who = c /\ e.kind \in FullId(c))}

\* Mutants of PurgedBy: not what has expired; whoever else is on the chain.
PurgedByLive(d, c) ==
    IF \E e \in WithoutMine(ChainRoot(d), c) : e.root = ChainRoot(d) THEN {}
    ELSE {e \in Members(ChainRoot(d)) : Live(e)}
PurgedByAnyone(d, c) ==
    {e \in Members(ChainRoot(d)) : rows[e].status # "deleted"}

\* The rows purged when the caller leaves: all of the chain's, and only when
\* the caller was the last on it.
PurgedBy(d, c) ==
    LET r == ChainRoot(d)
    IN  IF \E e \in WithoutMine(r, c) : e.root = r THEN {}
        ELSE {e \in Members(r) : rows[e].status # "deleted"}

\* Mutant of Purge: the reference stays on the row.
PurgeKeepsRef(V, status) ==
    [e \in DocIds |->
        IF e \in V THEN [rows[e] EXCEPT !.status = status, !.updated = now]
        ELSE rows[e]]

\* Rows that lose their bytes: refs cleared, dated by the act.
Purge(V, status) ==
    [e \in DocIds |->
        IF e \in V
        THEN [rows[e] EXCEPT !.status = status, !.ref = NoRef, !.updated = now]
        ELSE rows[e]]

RemoveAccess(d, c) ==
    /\ RemoveAccessResult(d, c) = "ok"
    /\ rows' = Purge(PurgedBy(d, c), "deleted")
    /\ acl' = WithoutMine(ChainRoot(d), c)
    /\ UNCHANGED now

\* A batch: any min(Batch, |S|) of the candidates, in map order.
Batches(S) ==
    {V \in SUBSET S : IF Cardinality(S) <= Batch THEN V = S
                      ELSE Cardinality(V) = Batch}

\* Mutants of DueRows: a row without a date is overdue; holds are ignored.
DueRowsUndated(cutoff) ==
    {d \in DocIds : Live(d) /\ ~rows[d].hold /\ rows[d].until < cutoff}
DueRowsHeld(cutoff) ==
    {d \in DocIds : /\ Live(d) /\ rows[d].until # NoDate
                    /\ rows[d].until < cutoff}

DueRows(cutoff) ==
    {d \in DocIds : /\ Live(d) /\ ~rows[d].hold
                    /\ rows[d].until # NoDate /\ rows[d].until < cutoff}

SweepRetention(cutoff, V) ==
    /\ V \in Batches(DueRows(cutoff))
    /\ rows' = Purge(V, "expired")
    /\ UNCHANGED <<acl, now>>

\* Terminal records last touched more than HistoryKeep before the cutoff.
OldRecords(cutoff) ==
    {d \in DocIds : /\ Terminal(d) /\ ~rows[d].hold
                    /\ rows[d].updated + HistoryKeep < cutoff}

SweepHistory(cutoff, V) ==
    /\ V \in Batches(OldRecords(cutoff))
    /\ rows' = [d \in DocIds |-> IF d \in V THEN Blank("erased") ELSE rows[d]]
    /\ acl' = {e \in acl : Chain(e.root) \ V # {}}
    /\ UNCHANGED now

DeleteHistoryResult(c, r) ==
    IF \E d \in Chain(r) : ~Terminal(d) \/ rows[d].hold THEN "chain_live"
    ELSE IF ~\E d \in Chain(r) : OwnedBy(d, c) THEN "not_found" ELSE "ok"

DeleteHistoryChain(c, r) ==
    /\ DeleteHistoryResult(c, r) = "ok"
    /\ rows' = [d \in DocIds |-> IF d \in Chain(r) /\ OwnedBy(d, c)
                                 THEN Blank("erased") ELSE rows[d]]
    /\ acl' = DropChains({r})
    /\ UNCHANGED now

\* legal_hold has no setter in this service: an operator writes the column.
SetLegalHold(d, hold) ==
    /\ Stored(d)
    /\ rows' = [rows EXCEPT ![d].hold = hold]
    /\ UNCHANGED <<acl, now>>

Tick ==
    /\ now < MaxTime
    /\ now' = now + 1
    /\ UNCHANGED <<rows, acl>>

----------------------------------------------------------------------------
(* The layer on its own, under the most general client: any procedure with *)
(* any argument the service could build, in any order.                     *)

\* An upload: received when it is a plain source, else it arrived signed.
Uploads(owner, tenant, dates) ==
    [owner: {owner}, tenant: {tenant}, kind: {"source"}, parent: {NoParent},
     ref: Refs, hash: Hashes, status: {"received"}, until: dates]
    \cup
    [owner: {owner}, tenant: {tenant}, kind: {"container", "pdf"},
     parent: {NoParent}, ref: Refs, hash: Hashes, status: {"signed"},
     until: dates]

\* Mutant of SignedForms: they take over the durable class of their source.
SignedFormsUndated(owner) ==
    {in \in [owner: {owner}, tenant: {NoTenant}, kind: {"container", "pdf"},
             parent: DocIds, ref: Refs, hash: Hashes, status: {"signed"},
             until: {now + TTL, NoDate}] :
        /\ rows[in.parent].status # "unused"
        /\ in.kind = "container" => rows[in.parent].kind # "container"}

\* The first signed form of a chain, below a row that was there when it was
\* read.  A container is signed in place and never gets one below it.
SignedForms(owner) ==
    {in \in [owner: {owner}, tenant: {NoTenant}, kind: {"container", "pdf"},
             parent: DocIds, ref: Refs, hash: Hashes, status: {"signed"},
             until: {now + TTL}] :
        /\ rows[in.parent].status # "unused"
        /\ in.kind = "container" => rows[in.parent].kind # "container"}

\* What Ingest hands to Insert: an upload, a durable upload of a product, with no
\* date or one that was in the future when the request came in, a signed form.
InsertInputs(c) ==
    Uploads(c, NoTenant, {now + TTL}) \cup SignedForms(c) \cup
    (IF c \in Products
     THEN Uploads(c, TenantOf[c], {NoDate} \cup 1..(now + 1)) ELSE {})

InsertAny ==
    \E d \in {e \in DocIds : Fresh(e)}, c \in Callers :
       \E in \in InsertInputs(c) : Insert(d, in)

ReplaceAny ==
    \E d \in DocIds, exp \in Hashes, ref \in Refs, h \in Hashes :
       ReplaceContainerBlob(d, exp, ref, h)

BundleAny ==
    \E d \in DocIds, c \in Callers, srcs \in SUBSET DocIds, ref \in Refs,
       h \in Hashes : Bundle(d, c, srcs, ref, h)

RebundleAny ==
    \E d \in DocIds, c \in Callers, exp \in Hashes, srcs \in SUBSET DocIds,
       ref \in Refs, h \in Hashes : Rebundle(d, c, exp, srcs, ref, h)

\* What creates, shares, keeps and ends rows.
LifeNext ==
    \/ "sweep" \in Procs
          /\ \E V \in SUBSET DocIds, cutoff \in 0..now : SweepRetention(cutoff, V)
    \/ "history" \in Procs
          /\ \E V \in SUBSET DocIds, cutoff \in 0..now : SweepHistory(cutoff, V)
    \/ "insert" \in Procs /\ InsertAny
    \/ "bundle" \in Procs /\ BundleAny
    \/ "rebundle" \in Procs /\ RebundleAny
    \/ "grant" \in Procs
          /\ \E d \in DocIds, c \in Persons, read \in BOOLEAN : Grant(d, c, read)
    \/ "extend" \in Procs
          /\ \E d \in DocIds, c \in Callers : ExtendRetention(d, c, now + TTL)
    \/ "remove" \in Procs /\ \E d \in DocIds, c \in Callers : RemoveAccess(d, c)
    \/ "unlist" \in Procs
          /\ \E r \in DocIds, c \in Callers : DeleteHistoryChain(c, r)
    \/ Tick

\* What rewrites a row where it stands.
RewriteNext ==
    \/ "replace" \in Procs /\ ReplaceAny
    \/ "freeze" \in Procs
          /\ \E d \in DocIds, frozen \in BOOLEAN : SetResultFreeze(d, frozen)

\* What an operator does.
HoldNext ==
    /\ "hold" \in Procs
    /\ \E d \in DocIds, hold \in BOOLEAN : SetLegalHold(d, hold)

MetaNext == LifeNext \/ RewriteNext \/ HoldNext

MetaSpec == Init /\ [][MetaNext]_metaVars

----------------------------------------------------------------------------
(* Properties of the layer.                                                *)

\* Insert's two uniqueness rules survive every later act on the chain: no
\* in-place replace, bundle, sweep or delete brings a second live container
\* under one parent.
OneContainerPerParent ==
    \A d, e \in DocIds :
        /\ Stored(d) /\ rows[d].kind = "container" /\ rows[d].status # "deleted"
        /\ Stored(e) /\ rows[e].kind = "container" /\ rows[e].status # "deleted"
        /\ rows[d].parent = rows[e].parent /\ rows[d].parent # NoParent
        => d = e

\* An uploaded signed pdf and a signed child of it, or two signed children,
\* are never both standing (README: one live signed PDF per chain tree).
OneSignedPdfPerTree ==
    \A d, e \in DocIds :
        /\ Stored(d) /\ rows[d].kind = "pdf" /\ rows[d].status # "deleted"
        /\ Stored(e) /\ rows[e].kind = "pdf" /\ rows[e].status # "deleted"
        /\ rows[d].parent # NoParent
        /\ rows[e].parent = rows[d].parent \/ e = rows[d].parent
        => d = e

\* A row names bytes exactly while it is live: purging always clears the
\* reference, and the replace that can bring an expired row back restores it.
BytesIffLive ==
    \A d \in DocIds : Live(d) <=> rows[d].ref # NoRef

\* A chain root that stands, and so may be live again after a late replace, keeps
\* somebody on its access list: the last departure ends it (RemoveAccess purges
\* expired rows too).  The one way to lose the list is while all of the chain is over:
\* the owner of another of its rows removes the chain from the history.  So a live
\* root nobody is on was brought back from expiry after that, whatever its mark.
KeepsRootsListed ==
    \A d \in DocIds :
        Standing(d)' /\ rows'[d].parent = NoParent /\ ~Listed(d)' =>
            \/ Standing(d) /\ ~Listed(d)
            \/ /\ \A e \in Chain(d) : Terminal(e)
               /\ rows'[d] = rows[d]
               /\ \E e \in Chain(d) : rows'[e].status = "erased"
RootsStayListed == [][KeepsRootsListed]_metaVars

\* Leaving is reference-counted: a departure destroys a live row only when it
\* leaves nobody on the row's chain, so nobody loses a document to somebody
\* else's departure (service.go, Delete: "only when the caller was the last
\* participant are the chain's S3 objects + data keys destroyed").
OthersKeepTheirs ==
    [][\A d \in DocIds :
          Live(d) /\ rows'[d].status = "deleted" =>
              ~\E e \in acl' : e.root = ChainRoot(d)]_metaVars

\* The same for the documents people hold themselves, the chain roots: whatever
\* grants and departures come before, on the root or on its signed forms.
RootPurgedByLast ==
    \A d \in DocIds :
        Live(d) /\ rows[d].parent = NoParent /\ rows'[d].status = "deleted" =>
            ~\E e \in acl' : e.root = d
RootOutlivesDepartures == [][RootPurgedByLast]_metaVars

\* Legal hold: no act of any caller, and neither sweep, ends the life of a
\* held row, or erases its record (README: legal hold blocks the sweep and
\* the delete).
SparesHeld ==
    \A d \in DocIds : rows[d].hold /\ Stored(d) =>
        Stored(d)' /\ (Live(d) => Live(d)')
HeldRowKept == [][SparesHeld]_metaVars

\* Deletion is final: the late replace that may bring an expired row back
\* never brings back a deleted one, and an erased id never gets a row again.
KeepsDeleted ==
    \A d \in DocIds : rows[d].status \in {"deleted", "erased"} =>
        rows'[d].status \in {rows[d].status, "erased"}
DeletedIsFinal == [][KeepsDeleted]_metaVars

\* The clock only destroys what is due: an undated row is never expired, a
\* dated one not before its date, and no act brings a date forward in time.
ExpiresDue ==
    \A d \in DocIds :
        /\ rows[d].status # "expired" /\ rows'[d].status = "expired"
              => rows[d].until # NoDate /\ rows[d].until < now
        /\ Stored(d) /\ Stored(d)' =>
              \/ rows'[d].until = rows[d].until
              \/ rows[d].until # NoDate /\ rows'[d].until > rows[d].until
OnlyDueRowsExpire == [][ExpiresDue]_metaVars
=============================================================================
