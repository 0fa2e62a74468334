-------------------------- MODULE DocumentService --------------------------
(***************************************************************************)
(* The document service: HTTP requests (routes/documents.go) driving the   *)
(* byte-storage layer (documents/service.go) over the metadata layer and   *)
(* the object store, beside the retention task (tasks/retention.go).       *)
(*                                                                         *)
(* Requests run concurrently and hold no lock between calls, so one call   *)
(* on the metadata layer or the object store is one step.  A request is a  *)
(* record: where it is (pc), what it was asked, the row it last read (a    *)
(* clone, stale from then on) and what it is about to write.               *)
(*                                                                         *)
(* The bytes of a document are the set of requests that contributed to     *)
(* them: an upload its own file, a signing request its own signature.  Two *)
(* writes never produce the same bytes, and a hash stands for its bytes.   *)
(* Sealing and opening under a data key is lossless and left out; the key  *)
(* lives and dies with the reference.                                      *)
(***************************************************************************)
EXTENDS MetadataStore

CONSTANTS
    Reqs,       \* requests; each runs once
    OpsOf,      \* the operations each request may be
    UploadKinds,\* the kinds of file the run uploads
    Env,        \* which other actors run
    Faults      \* which failures happen

\* The procedures of the metadata layer, each called by some handler or task.
AllProcs == {"insert", "replace", "bundle", "rebundle", "grant", "freeze", "extend",
             "remove", "sweep", "history", "unlist", "hold"}

ASSUME ServiceAssumption ==
    /\ Refs = Reqs \X {1, 2}      \* the first and second object key of a request
    /\ Hashes = SUBSET Reqs /\ NoHash = {}
    /\ UploadKinds \subseteq Kinds
    /\ Procs = AllProcs

VARIABLES
    blobs,      \* the object store: Refs -> bytes, {} when absent
    req,        \* the requests
    sweeper,    \* the retention task
    app         \* the application: up, its store closed, its task told to stop, down

vars == <<rows, acl, now, blobs, req, sweeper, app>>

Results == {"none", "ok", "not_found", "gone", "chain_advanced", "legal_hold",
            "not_bundleable", "unprocessable", "frozen", "error"}
OpNames == {"none", "upload", "read", "extract", "complete", "addsig", "signed", "archive",
            "bundle", "rebundle", "delete"}
CommitPcs == {"insert", "replace", "bundle", "rebundle"}
Pcs == {"idle", "view", "get", "fetch", "resolve", "put", "rollback", "purge",
        "readback", "extend", "remove", "done"} \cup CommitPcs

Request ==
    [pc: Pcs, op: OpNames, by: Callers \cup {NoOne},
     doc: 0..MaxDocs,                \* the row addressed now
     root: 0..MaxDocs,               \* chain root, or the bundle being edited
     srcs: SUBSET DocIds, todo: SUBSET DocIds,     \* bundle sources, unread ones
     kind: Kinds, durable: BOOLEAN, date: Nat \cup {NoDate},   \* an upload
     snap: Row, exp: SUBSET Reqs, data: SUBSET Reqs,
     n: 0..2, then: CommitPcs, purge: SUBSET Refs, out: Results]

Idle == [pc |-> "idle", op |-> "none", by |-> NoOne, doc |-> 0, root |-> 0,
         srcs |-> {}, todo |-> {}, kind |-> "source", durable |-> FALSE,
         date |-> NoDate, snap |-> Blank("unused"), exp |-> {}, data |-> {},
         n |-> 0, then |-> "insert", purge |-> {}, out |-> "none"]

SweeperState == [pc: {"idle", "sweep", "destroy", "history"}, cutoff: Nat,
                 refs: SUBSET Refs, full: BOOLEAN]

ServiceTypeOK ==
    /\ TypeOK
    /\ blobs \in [Refs -> SUBSET Reqs]
    /\ req \in [Reqs -> Request]
    /\ sweeper \in SweeperState
    /\ app \in {"up", "closed", "stopping", "down"}

ServiceInit ==
    /\ Init
    /\ blobs = [r \in Refs |-> {}]
    /\ req = [p \in Reqs |-> Idle]
    /\ sweeper = [pc |-> "idle", cutoff |-> 0, refs |-> {}, full |-> FALSE]
    /\ app = "up"

----------------------------------------------------------------------------
(* Moving a request along.                                                 *)

\* The object key of the request's latest Put.
RefOf(p) == <<p, req[p].n>>

\* The response is written; nothing of the request is left but its outcome.
Answered(q, out) ==
    [q EXCEPT !.pc = "done", !.out = out, !.srcs = {}, !.todo = {},
              !.snap = Blank("unused"), !.exp = {}, !.data = {}, !.purge = {}]

Answer(p, out) == req' = [req EXCEPT ![p] = Answered(@, out)]

\* Bundle and Rebundle read under the owner's subject alone.
IdsOf(p) ==
    IF req[p].op \in {"bundle", "rebundle"} THEN {"sub"} ELSE FullId(req[p].by)

\* The row as a read hands it out: a clone with the chain's freeze projected.
Clone(d) == [rows[d] EXCEPT !.frozen = Frozen(d)]

\* Calls on the metadata layer get through.
StoreOpen == app = "up"

\* An id a client can know.
Known(d) == rows[d].status # "unused"

----------------------------------------------------------------------------
(* Arrival of a request.                                                   *)

\* resolveRetention: a product may store durable documents, undated or dated in
\* the future; everybody else's are dated by the service and offer no date.
RetentionTerms(c) ==
    {[durable |-> FALSE, date |-> NoDate]} \cup
    (IF c \in Products THEN [durable: {TRUE}, date: {NoDate, now + 1}] ELSE {})

\* POST /documents, past its gate and its scan.
StartUpload(p, c, k) ==
    /\ req[p].pc = "idle" /\ "upload" \in OpsOf[p]
    /\ \E t \in RetentionTerms(c) :
          req' = [req EXCEPT ![p] =
             [Idle EXCEPT !.pc = "put", !.op = "upload", !.by = c, !.kind = k,
                          !.durable = t.durable, !.date = t.date, !.data = {p}]]
    /\ UNCHANGED <<metaVars, blobs, sweeper, app>>

\* POST /documents/assemble stores a container made of the files it was sent,
\* as an upload of a signed container would.
StartAssemble(p, c) ==
    /\ req[p].pc = "idle" /\ "assemble" \in OpsOf[p]
    /\ req' = [req EXCEPT ![p] =
          [Idle EXCEPT !.pc = "put", !.op = "upload", !.by = c,
                       !.kind = "container", !.data = {p}]]
    /\ UNCHANGED <<metaVars, blobs, sweeper, app>>

\* GET content or one inner file, complete, add-signature and DELETE go straight
\* to their row; a signed PDF or an archived form is made by a client that first fetched it.
StartOn(p, c, op, d) ==
    /\ req[p].pc = "idle" /\ op \in OpsOf[p] /\ Known(d)
    /\ op \in {"read", "extract", "complete", "addsig", "signed", "archive", "delete"}
    /\ req' = [req EXCEPT ![p] =
          [Idle EXCEPT !.op = op, !.by = c, !.doc = d,
                       !.pc = IF op \in {"signed", "archive"} THEN "view" ELSE "get"]]
    /\ UNCHANGED <<metaVars, blobs, sweeper, app>>

\* POST /documents/bundle reads its sources one after the other.
StartBundle(p, c, srcs, d) ==
    /\ req[p].pc = "idle" /\ "bundle" \in OpsOf[p]
    /\ d \in srcs /\ \A s \in srcs : Known(s)
    /\ req' = [req EXCEPT ![p] =
          [Idle EXCEPT !.pc = "get", !.op = "bundle", !.by = c, !.doc = d,
                       !.srcs = srcs, !.todo = srcs]]
    /\ UNCHANGED <<metaVars, blobs, sweeper, app>>

\* POST /documents/{id}/rebundle reads the bundle, then the new sources.
StartRebundle(p, c, d, srcs) ==
    /\ req[p].pc = "idle" /\ "rebundle" \in OpsOf[p]
    /\ Known(d) /\ d \notin srcs /\ \A s \in srcs : Known(s)
    /\ req' = [req EXCEPT ![p] =
          [Idle EXCEPT !.pc = "get", !.op = "rebundle", !.by = c, !.doc = d,
                       !.root = d, !.srcs = srcs, !.todo = srcs]]
    /\ UNCHANGED <<metaVars, blobs, sweeper, app>>

----------------------------------------------------------------------------
(* Reading.                                                                *)

\* The signing client fetches the bytes it will sign over (conduit=signing),
\* signs, and only then posts the result.
ClientView(p) ==
    /\ req[p].pc = "view" /\ StoreOpen
    /\ LET d == req[p].doc
       IN  IF Readable(d, req[p].by, FullId(req[p].by)) /\ Live(d)
                 /\ blobs[rows[d].ref] # {}
           THEN req' = [req EXCEPT ![p].pc = "get",
                                   ![p].data = blobs[rows[d].ref] \cup {p}]
           ELSE Answer(p, "gone")
    /\ UNCHANGED <<metaVars, blobs, sweeper, app>>

\* storeSigned: a target that is a signed PDF is superseded, any other gets a
\* signed form below the chain root.
ToSigned(q, row) ==
    [q EXCEPT !.snap = row,
              !.root = IF row.parent # NoParent THEN row.parent ELSE q.doc,
              !.pc = IF row.kind = "pdf" THEN "resolve" ELSE "put",
              !.then = "insert"]

\* storeArchived takes the hash its swap expects when the result comes in.
ToArchived(q, row) ==
    IF row.kind = "source" THEN Answered(q, "unprocessable")
    ELSE [q EXCEPT !.exp = row.hash, !.pc = "put", !.then = "replace"]

\* Content: a row without a reference is purged, any other has bytes to fetch.
ToContent(q, row) ==
    IF row.ref = NoRef THEN Answered(q, "gone")
    ELSE [q EXCEPT !.snap = row, !.pc = "fetch"]

\* Where a request goes with the row it has just read.
AfterGet(p, row) ==
    CASE req[p].op = "delete"  -> [req[p] EXCEPT !.pc = "remove"]
      [] req[p].op = "signed"  -> ToSigned(req[p], row)
      [] req[p].op = "archive" -> ToArchived(req[p], row)
      [] OTHER                 -> ToContent(req[p], row)

\* Mutant of GetRow: the hash of an earlier read outlives a second one.
GetRowStaleHash(p) ==
    /\ req[p].pc = "get" /\ StoreOpen
    /\ LET row == Clone(req[p].doc)
           snap == req[p].snap
       IN  IF Readable(req[p].doc, req[p].by, IdsOf(p))
           THEN req' = [req EXCEPT ![p] = AfterGet(p,
                    [row EXCEPT !.hash = IF snap.status = "unused"
                                         THEN @ ELSE snap.hash])]
           ELSE Answer(p, "not_found")
    /\ UNCHANGED <<metaVars, blobs, sweeper, app>>

\* store.Get under the caller's identity; Content also needs a reference.
GetRow(p) ==
    /\ req[p].pc = "get" /\ StoreOpen
    /\ IF Readable(req[p].doc, req[p].by, IdsOf(p))
       THEN req' = [req EXCEPT ![p] = AfterGet(p, Clone(req[p].doc))]
       ELSE Answer(p, "not_found")
    /\ UNCHANGED <<metaVars, blobs, sweeper, app>>

\* getContent: the chain's freeze closes its signed forms to everybody but the
\* conduits that declare their purpose.
Serve(q) ==
    {Answered(q, "ok")} \cup
    (IF q.snap.frozen /\ q.snap.kind # "source"
     THEN {Answered(q, "frozen")} ELSE {})

\* extractObject: one inner file of a container, under the same freeze.
Extract(q) ==
    IF q.snap.kind = "container" THEN Serve(q)
    ELSE {Answered(q, "unprocessable")}

\* A signature over the bytes just read, to be swapped in for them.
CoSigned(p, q, bytes) ==
    [q EXCEPT !.data = bytes \cup {p}, !.exp = q.snap.hash,
              !.pc = "put", !.then = "replace"]

\* complete: a container is co-signed in place, any other gets one below it.
Complete(p, q, bytes) ==
    {[CoSigned(p, q, bytes) EXCEPT
         !.then = IF q.snap.kind = "container" THEN "replace" ELSE "insert"]}

\* addSignature: only a container takes one; its parent's date is rolled later.
AddSignature(p, q, bytes) ==
    IF q.snap.kind = "container"
    THEN {[CoSigned(p, q, bytes) EXCEPT !.root = q.snap.parent]}
    ELSE {Answered(q, "unprocessable")}

\* The row read belongs to the caller's own subject.
SnapOwned(q) == q.snap.owner = q.by /\ q.snap.tenant = NoTenant

\* After a source was read: the next one in the client's order, or the write.
NextSource(q, todo, commit) ==
    IF todo = {} THEN {[q EXCEPT !.todo = {}, !.pc = "put", !.then = commit]}
    ELSE {[q EXCEPT !.todo = todo, !.doc = s, !.pc = "get"] : s \in todo}

\* A source goes into the bundle if it is the caller's and bundleable.
TakeSource(p, q, bytes, commit) ==
    IF /\ SnapOwned(q)
       /\ \/ q.snap.kind = "source" /\ q.snap.status = "received"
          \/ q.snap.kind \in {"pdf", "container"} /\ q.snap.status = "signed"
    THEN NextSource([q EXCEPT !.data = @ \cup bytes \cup {p}],
                    q.todo \ {q.doc}, commit)
    ELSE {Answered(q, "not_bundleable")}

\* Rebundle starts from the caller's unsigned bundle and keeps any of its files, or none
\* where there are new ones; a name the bundle does not have ends it.
TakeDraft(p, q, bytes) ==
    IF SnapOwned(q) /\ q.snap.kind = "container" /\ q.snap.status = "received"
    THEN {Answered(q, "not_found")} \cup
         UNION {NextSource([q EXCEPT !.data = kept \cup {p}, !.exp = q.snap.hash],
                           q.todo, "rebundle") :
                kept \in {K \in SUBSET bytes : K # {} \/ q.srcs # {}}}
    ELSE {Answered(q, "not_bundleable")}

\* What a request may do with the bytes it fetched.
AfterFetch(p, bytes) ==
    LET q == req[p]
    IN  CASE q.op = "read"     -> Serve(q)
          [] q.op = "extract"  -> Extract(q)
          [] q.op = "complete" -> Complete(p, q, bytes)
          [] q.op = "addsig"   -> AddSignature(p, q, bytes)
          [] q.op = "bundle"   -> TakeSource(p, q, bytes, "bundle")
          [] q.op = "rebundle" /\ q.doc = q.root -> TakeDraft(p, q, bytes)
          [] OTHER             -> TakeSource(p, q, bytes, "rebundle")

\* blob.Get on the reference read earlier; the object may be gone by now.
Fetch(p) ==
    /\ req[p].pc = "fetch"
    /\ LET bytes == blobs[req[p].snap.ref]
       IN  IF bytes = {} THEN Answer(p, "gone")
           ELSE \E q \in AfterFetch(p, bytes) : req' = [req EXCEPT ![p] = q]
    /\ UNCHANGED <<metaVars, blobs, sweeper, app>>

\* The chain has a signed form already: a lost /complete reads the winner's
\* container, /signed takes the current head and its hash as of now.
Resolve(p) ==
    /\ req[p].pc = "resolve" /\ StoreOpen
    /\ LET q == req[p]
           r == IF q.op = "complete" THEN q.doc ELSE q.root
           heads == IF q.op = "complete" THEN ContainersOf(r)
                    ELSE LatestSignedPdf(r)
       IN  IF ~Allows(r, q.by, FullId(q.by)) \/ heads = {}
           THEN Answer(p, "not_found")
           ELSE \E h \in heads :
                  req' = [req EXCEPT ![p] =
                     IF q.op = "complete"
                     THEN [q EXCEPT !.doc = h, !.pc = "get"]
                     ELSE [q EXCEPT !.doc = h, !.exp = rows[h].hash,
                                    !.pc = "put", !.then = "replace"]]
    /\ UNCHANGED <<metaVars, blobs, sweeper, app>>

----------------------------------------------------------------------------
(* Writing: seal and store the new bytes, commit the row, clean up.        *)

\* blob.Put under a fresh key.  Nothing is committed and nothing cleaned up if
\* it fails, whether the object was stored or not.
Put(p) ==
    /\ req[p].pc = "put"
    /\ LET stored == [blobs EXCEPT ![<<p, req[p].n + 1>>] = req[p].data]
       IN  \/ /\ blobs' = stored
              /\ req' = [req EXCEPT ![p].n = @ + 1, ![p].pc = req[p].then]
           \/ /\ "put" \in Faults
              /\ blobs' \in {blobs, stored}
              /\ Answer(p, "error")
    /\ UNCHANGED <<metaVars, sweeper, app>>

\* Mutants of Refused: the reason is lost on the way, always or for bundles.
RefusedAsOk(p, out) == req' = [req EXCEPT ![p].pc = "rollback", ![p].out = "ok"]
RefusedBundleAsOk(p, out) ==
    req' = [req EXCEPT ![p].pc = "rollback",
        ![p].out = IF req[p].op \in {"bundle", "rebundle"} THEN "ok" ELSE out]

\* The commit failed: remember why and drop the new object.
Refused(p, out) == req' = [req EXCEPT ![p].pc = "rollback", ![p].out = out]

\* The commit succeeded: objects to destroy, then on to the next call.
Committed(p, refs, d) ==
    req' = [req EXCEPT ![p].pc = "purge", ![p].purge = refs, ![p].doc = d]

\* Mutant of StoreFails: a failed commit or extension waits for the store
\* to come back.
StoreFailsWaits(p) ==
    /\ "db" \in Faults \/ ~StoreOpen
    /\ req[p].pc \in {"view", "get", "resolve", "readback", "remove"}
    /\ Answer(p, "error")
    /\ UNCHANGED <<metaVars, blobs, sweeper, app>>

\* A store call fails with nothing done: connection refused, rolled back, or the
\* pool is closed.  A failed commit is rolled back, the rolling extension is best
\* effort, and any other failure is the answer.
StoreFails(p) ==
    /\ "db" \in Faults \/ ~StoreOpen
    /\ \/ req[p].pc \in CommitPcs /\ Refused(p, "error")
       \/ req[p].pc = "extend" /\ Answer(p, "ok")
       \/ req[p].pc \in {"view", "get", "resolve", "readback", "remove"}
             /\ Answer(p, "error")
    /\ UNCHANGED <<metaVars, blobs, sweeper, app>>

\* Mutant of RetentionFor: the period runs from the start of the service.
RetentionForFixed(q) == IF q.durable THEN q.date ELSE TTL

\* retentionFor: the owner's date for a durable document, else the service's.
RetentionFor(q) == IF q.durable THEN q.date ELSE now + TTL

\* What Ingest hands to Insert: an upload, or the first signed form of a chain
\* (complete hangs it below its target, signed below the chain root).
InsertInput(p) ==
    LET q == req[p]
        upload == q.op = "upload"
    IN  [owner |-> q.by,
         tenant |-> IF q.durable THEN TenantOf[q.by] ELSE NoTenant,
         kind |-> IF upload THEN q.kind
                  ELSE IF q.op = "complete" THEN "container" ELSE "pdf",
         parent |-> IF upload THEN NoParent
                    ELSE IF q.op = "complete" THEN q.doc ELSE q.root,
         ref |-> RefOf(p), hash |-> q.data,
         status |-> IF upload /\ q.kind = "source" THEN "received" ELSE "signed",
         until |-> RetentionFor(q)]

InsertStep(p) ==
    /\ req[p].pc = "insert" /\ StoreOpen
    /\ LET in == InsertInput(p)
       IN  \/ \E d \in DocIds :
                /\ Insert(d, in)
                /\ req' = [req EXCEPT ![p].pc = "readback", ![p].doc = d]
           \/ /\ InsertResult(in.kind, in.parent) # "ok"
              /\ Refused(p, InsertResult(in.kind, in.parent))
              /\ UNCHANGED metaVars
    /\ UNCHANGED <<blobs, sweeper, app>>

ReplaceStep(p) ==
    /\ req[p].pc = "replace" /\ StoreOpen
    /\ LET q == req[p]
           res == ReplaceResult(q.doc, q.exp)
       IN  \/ /\ ReplaceContainerBlob(q.doc, q.exp, RefOf(p), q.data)
              /\ Committed(p, {rows[q.doc].ref} \ {NoRef}, q.doc)
           \/ /\ res # "ok" /\ Refused(p, res) /\ UNCHANGED metaVars
    /\ UNCHANGED <<blobs, sweeper, app>>

\* Mutants of RefsIn: purged rows are listed too; one object is forgotten.
RefsInAll(D) == {rows[d].ref : d \in D}
RefsInOne(D) == {rows[d].ref : d \in {e \in D : \A f \in D : e <= f}} \ {NoRef}

\* The references a set of rows holds.
RefsIn(D) == {rows[d].ref : d \in D} \ {NoRef}

BundleStep(p) ==
    /\ req[p].pc = "bundle" /\ StoreOpen
    /\ LET q == req[p]
       IN  \/ \E d \in DocIds :
                /\ Bundle(d, q.by, q.srcs, RefOf(p), q.data)
                /\ Committed(p, RefsIn(q.srcs), d)
           \/ \E res \in AbsorbErrors(q.srcs, q.by) :
                Refused(p, res) /\ UNCHANGED metaVars
    /\ UNCHANGED <<blobs, sweeper, app>>

RebundleStep(p) ==
    /\ req[p].pc = "rebundle" /\ StoreOpen
    /\ LET q == req[p]
       IN  \/ /\ Rebundle(q.root, q.by, q.exp, q.srcs, RefOf(p), q.data)
              /\ Committed(p, RefsIn(q.srcs \cup {q.root}), q.root)
           \/ \E res \in RebundleErrors(q.root, q.by, q.exp, q.srcs) :
                Refused(p, res) /\ UNCHANGED metaVars
    /\ UNCHANGED <<blobs, sweeper, app>>

\* The metadata change of the request's commit.
CommitRows(p) ==
    LET q == req[p]
    IN  \/ q.pc = "insert" /\ \E d \in DocIds : Insert(d, InsertInput(p))
        \/ /\ q.pc = "replace"
           /\ ReplaceContainerBlob(q.doc, q.exp, RefOf(p), q.data)
        \/ /\ q.pc = "bundle"
           /\ \E d \in DocIds : Bundle(d, q.by, q.srcs, RefOf(p), q.data)
        \/ /\ q.pc = "rebundle"
           /\ Rebundle(q.root, q.by, q.exp, q.srcs, RefOf(p), q.data)

\* A transaction commits but its reply is lost; the caller sees an error and
\* rolls back the object its row now names.
ReplyLost(p) ==
    /\ "lost_reply" \in Faults /\ StoreOpen
    /\ CommitRows(p)
    /\ Refused(p, "error")
    /\ UNCHANGED <<blobs, sweeper, app>>

\* blob.Delete: errors are dropped, so a failed one leaves the object behind.
DeleteBlob(r) ==
    \/ blobs' = [blobs EXCEPT ![r] = {}]
    \/ "delete" \in Faults /\ UNCHANGED blobs

\* Mutants of Rollback: nothing is deleted; the row's own object is.
RollbackKeeps(p) ==
    /\ req[p].pc = "rollback"
    /\ IF req[p].then = "insert" /\ req[p].out = "chain_advanced"
       THEN req' = [req EXCEPT ![p].pc = "resolve", ![p].out = "none"]
       ELSE Answer(p, req[p].out)
    /\ UNCHANGED <<metaVars, blobs, sweeper, app>>
RollbackDropsRow(p) ==
    /\ req[p].pc = "rollback"
    /\ LET d == req[p].doc
       IN  DeleteBlob(IF d \in DocIds /\ rows[d].ref # NoRef
                      THEN rows[d].ref ELSE RefOf(p))
    /\ IF req[p].then = "insert" /\ req[p].out = "chain_advanced"
       THEN req' = [req EXCEPT ![p].pc = "resolve", ![p].out = "none"]
       ELSE Answer(p, req[p].out)
    /\ UNCHANGED <<metaVars, sweeper, app>>

\* Roll back the new object.  A lost creation then resolves the chain's
\* current signed form; any other failure is the answer.
Rollback(p) ==
    /\ req[p].pc = "rollback"
    /\ DeleteBlob(RefOf(p))
    /\ IF req[p].then = "insert" /\ req[p].out = "chain_advanced"
       THEN req' = [req EXCEPT ![p].pc = "resolve", ![p].out = "none"]
       ELSE Answer(p, req[p].out)
    /\ UNCHANGED <<metaVars, sweeper, app>>

\* Destroy the superseded or absorbed objects one by one, then go on.
PurgeStep(p) ==
    /\ req[p].pc = "purge"
    /\ \/ \E r \in req[p].purge :
             /\ DeleteBlob(r)
             /\ req' = [req EXCEPT ![p].purge = @ \ {r}]
       \/ /\ req[p].purge = {}
          /\ CASE req[p].op = "bundle" -> req' = [req EXCEPT ![p].pc = "readback"]
               [] \/ req[p].op = "signed"
                  \/ req[p].op = "addsig" /\ req[p].root # NoParent ->
                    req' = [req EXCEPT ![p].pc = "extend"]
               [] OTHER -> Answer(p, "ok")
          /\ UNCHANGED blobs
    /\ UNCHANGED <<metaVars, sweeper, app>>

\* What a read-back presents: the product, where it is the owner; else the subject,
\* with the serial where the handler stores a form it made (assemble is an upload here).
ReadBackIds(q) ==
    IF q.durable THEN {{"product"}}
    ELSE IF q.op = "bundle" \/ (q.op = "upload" /\ q.kind # "container") THEN {{"sub"}}
    ELSE {{"sub", "serial"}} \cup (IF q.op = "upload" THEN {{"sub"}} ELSE {})

\* Ingest and Bundle read the committed row back.  The row stays even when nobody
\* may read it.
ReadBack(p) ==
    /\ req[p].pc = "readback" /\ StoreOpen
    /\ LET q == req[p]
       IN  \E ids \in ReadBackIds(q) :
              IF ~Readable(q.doc, q.by, ids) THEN Answer(p, "not_found")
              ELSE IF q.op = "signed" THEN req' = [req EXCEPT ![p].pc = "extend"]
              ELSE Answer(p, "ok")
    /\ UNCHANGED <<metaVars, blobs, sweeper, app>>

\* Rolling extension of the chain root, best effort: only an owner's signing
\* act moves the date, any other is refused and ignored.
Extend(p) ==
    /\ req[p].pc = "extend" /\ StoreOpen
    /\ LET q == req[p]
       IN  IF Stored(q.root) /\ OwnedBy(q.root, q.by)
           THEN ExtendRetention(q.root, q.by, now + TTL)
           ELSE UNCHANGED metaVars
    /\ Answer(p, "ok")
    /\ UNCHANGED <<blobs, sweeper, app>>

\* store.RemoveAccess; the purged rows' objects are destroyed afterwards.
Remove(p) ==
    /\ req[p].pc = "remove" /\ StoreOpen
    /\ LET q == req[p]
           res == RemoveAccessResult(q.doc, q.by)
       IN  \/ /\ RemoveAccess(q.doc, q.by)
              /\ Committed(p, RefsIn(PurgedBy(q.doc, q.by)), q.doc)
           \/ res # "ok" /\ Answer(p, res) /\ UNCHANGED metaVars
    /\ UNCHANGED <<blobs, sweeper, app>>

\* The request dies where it is: its instance crashes, its context ends or a
\* read fails.
Abort(p) ==
    /\ "abort" \in Faults
    /\ req[p].pc \notin {"idle", "done"}
    /\ Answer(p, "error")
    /\ UNCHANGED <<metaVars, blobs, sweeper, app>>

----------------------------------------------------------------------------
(* The retention task: one goroutine, one sweep after another.             *)

\* Mutant of SweepStart: the cutoff is taken when the task starts, once for all.
SweepStartStale ==
    /\ "sweep" \in Env /\ app \in {"up", "closed"}
    /\ sweeper.pc = "idle"
    /\ sweeper' = [sweeper EXCEPT !.pc = "sweep"]
    /\ UNCHANGED <<metaVars, blobs, req, app>>

\* runOnce takes its cutoff once and keeps it for every batch.
SweepStart ==
    /\ "sweep" \in Env /\ app \in {"up", "closed"}
    /\ sweeper.pc = "idle"
    /\ sweeper' = [sweeper EXCEPT !.pc = "sweep", !.cutoff = now]
    /\ UNCHANGED <<metaVars, blobs, req, app>>

\* Mutants of SweepBatch: objects are not destroyed; those of the whole chain
\* are destroyed with a due row.
SweepBatchForgets ==
    /\ sweeper.pc = "sweep" /\ StoreOpen
    /\ \E V \in SUBSET DocIds :
          /\ SweepRetention(sweeper.cutoff, V)
          /\ sweeper' = [sweeper EXCEPT !.pc = "destroy",
                                        !.full = (Cardinality(V) = Batch)]
    /\ UNCHANGED <<blobs, req, app>>
SweepBatchWholeChain ==
    /\ sweeper.pc = "sweep" /\ StoreOpen
    /\ \E V \in SUBSET DocIds :
          /\ SweepRetention(sweeper.cutoff, V)
          /\ sweeper' = [sweeper EXCEPT
                !.pc = "destroy", !.full = (Cardinality(V) = Batch),
                !.refs = RefsIn(UNION {Chain(ChainRoot(d)) : d \in V})]
    /\ UNCHANGED <<blobs, req, app>>

SweepBatch ==
    /\ sweeper.pc = "sweep" /\ StoreOpen
    /\ \E V \in SUBSET DocIds :
          /\ SweepRetention(sweeper.cutoff, V)
          /\ sweeper' = [sweeper EXCEPT !.pc = "destroy", !.refs = RefsIn(V),
                                        !.full = (Cardinality(V) = Batch)]
    /\ UNCHANGED <<blobs, req, app>>

\* Destroy the objects of the batch; a full batch is followed by another, and
\* history keeping may be switched off.
SweepDestroy ==
    /\ sweeper.pc = "destroy"
    /\ \/ \E r \in sweeper.refs :
             /\ DeleteBlob(r)
             /\ sweeper' = [sweeper EXCEPT !.refs = @ \ {r}]
       \/ /\ sweeper.refs = {}
          /\ sweeper' = [sweeper EXCEPT
                !.pc = IF sweeper.full THEN "sweep"
                       ELSE IF HistoryKeep > 0 THEN "history" ELSE "idle",
                !.full = FALSE]
          /\ UNCHANGED blobs
    /\ UNCHANGED <<metaVars, req, app>>

HistoryBatch ==
    /\ sweeper.pc = "history" /\ StoreOpen
    /\ \E V \in SUBSET DocIds :
          /\ SweepHistory(sweeper.cutoff, V)
          /\ sweeper' = [sweeper EXCEPT
                !.pc = IF Cardinality(V) = Batch THEN "history" ELSE "idle"]
    /\ UNCHANGED <<blobs, req, app>>

\* Mutant of SweepFails: a failed batch is tried again.
SweepFailsRetries ==
    /\ "db" \in Faults \/ ~StoreOpen
    /\ sweeper.pc \in {"sweep", "history"}
    /\ UNCHANGED vars

\* A sweep whose store call fails ends; the next tick starts another.
SweepFails ==
    /\ "db" \in Faults \/ ~StoreOpen
    /\ sweeper.pc \in {"sweep", "history"}
    /\ sweeper' = [sweeper EXCEPT !.pc = "idle"]
    /\ UNCHANGED <<metaVars, blobs, req, app>>

\* The instance restarts in the middle of a sweep: what it had yet to destroy is
\* forgotten.
SweepCrashes ==
    /\ "abort" \in Faults
    /\ sweeper.pc # "idle"
    /\ sweeper' = [sweeper EXCEPT !.pc = "idle", !.refs = {}, !.full = FALSE]
    /\ UNCHANGED <<metaVars, blobs, req, app>>

----------------------------------------------------------------------------
(* Shutting down: App.Stop closes the store, then stops the server, which   *)
(* stops the task.  Handlers under way run on to their answer.              *)

\* The pool waits for the calls in progress; every later one fails.
CloseStore ==
    /\ "stop" \in Env /\ app = "up"
    /\ app' = "closed"
    /\ UNCHANGED <<metaVars, blobs, req, sweeper>>

\* The task's Stop stops the ticker and waits at its channel.  A tick still in
\* the ticker's buffer is a sweep that started before.
StopTask ==
    /\ app = "closed"
    /\ app' = "stopping"
    /\ UNCHANGED <<metaVars, blobs, req, sweeper>>

\* The goroutine takes the stop between two sweeps, never inside one.
TaskStops ==
    /\ app = "stopping" /\ sweeper.pc = "idle"
    /\ app' = "down"
    /\ UNCHANGED <<metaVars, blobs, req, sweeper>>

Stop == CloseStore \/ StopTask \/ TaskStops

----------------------------------------------------------------------------
(* Everybody else: one-call requests, the operator and the clock.          *)

\* POST /documents/{id}/acl: the workflow service invites a person by serial.
GrantACL ==
    /\ "grant" \in Env /\ StoreOpen
    /\ \E d \in DocIds, c \in Persons : Grant(d, c, TRUE)
    /\ UNCHANGED <<blobs, req, sweeper, app>>

\* POST /documents/{id}/result-freeze, at the start and the end of a workflow.
ResultFreeze ==
    /\ "freeze" \in Env /\ StoreOpen
    /\ \E d \in DocIds, f \in BOOLEAN : SetResultFreeze(d, f)
    /\ UNCHANGED <<blobs, req, sweeper, app>>

\* DELETE /history/{chainRoot}: an owner removes a record early.
DeleteHistory ==
    /\ "unlist" \in Env /\ StoreOpen
    /\ \E r \in DocIds, c \in Callers : DeleteHistoryChain(c, r)
    /\ UNCHANGED <<blobs, req, sweeper, app>>

\* The operator and the clock.
Operator ==
    /\ "hold" \in Env
    /\ \E d \in DocIds, h \in BOOLEAN : SetLegalHold(d, h)
    /\ UNCHANGED <<blobs, req, sweeper, app>>
Clock == "tick" \in Env /\ Tick /\ UNCHANGED <<blobs, req, sweeper, app>>

Arrive(p) ==
    \E c \in Callers :
       \/ \E k \in UploadKinds : StartUpload(p, c, k)
       \/ StartAssemble(p, c)
       \/ \E op \in OpsOf[p], d \in DocIds : StartOn(p, c, op, d)
       \/ \E srcs \in SUBSET DocIds, d \in DocIds : StartBundle(p, c, srcs, d)
       \/ \E srcs \in SUBSET DocIds, d \in DocIds : StartRebundle(p, c, d, srcs)

\* The calls a request makes on its own.
Work(p) ==
    \/ GetRow(p) \/ Fetch(p) \/ Resolve(p) \/ Put(p)
    \/ InsertStep(p) \/ ReplaceStep(p) \/ BundleStep(p) \/ RebundleStep(p)
    \/ Rollback(p) \/ PurgeStep(p) \/ ReadBack(p) \/ Extend(p) \/ Remove(p)

Fail(p) == StoreFails(p) \/ ReplyLost(p) \/ Abort(p)

Sweep == SweepStart \/ SweepBatch \/ SweepDestroy \/ HistoryBatch

Next ==
    \/ \E p \in Reqs : Arrive(p) \/ ClientView(p) \/ Work(p) \/ Fail(p)
    \/ Sweep \/ SweepFails \/ SweepCrashes \/ Stop
    \/ GrantACL \/ ResultFreeze \/ DeleteHistory \/ Operator \/ Clock

Spec == ServiceInit /\ [][Next]_vars

\* Handlers run to their answer, failed calls included, the retention task's
\* goroutine keeps sweeping, and a shutdown once begun goes on; clients, operators
\* and the clock owe nothing.
FairSpec ==
    /\ Spec
    /\ \A p \in Reqs : WF_vars(Work(p) \/ (StoreFails(p) /\ ~StoreOpen))
    /\ WF_vars(Sweep \/ (SweepFails /\ ~StoreOpen))
    /\ WF_vars(StopTask) /\ WF_vars(TaskStops)

----------------------------------------------------------------------------
(* The service as its callers see it.                                      *)

\* What a reader of each document would get.
Contents == [d \in DocIds |-> IF Live(d) THEN blobs[rows[d].ref] ELSE {}]

\* What an answer says about the effect.
Told(out) ==
    CASE out = "ok"        -> "ok"
      [] out = "not_found" -> "unseen"
      [] out = "error"     -> "unknown"
      [] OTHER             -> "refused"

\* How far a caller may believe each request to be.
Fate(q) ==
    CASE q.pc = "idle"                            -> "none"
      [] q.pc \in {"purge", "readback", "extend"} -> "applied"
      [] q.pc = "done"                            -> Told(q.out)
      [] OTHER                                    -> "open"

Ledger == INSTANCE DocumentLedger WITH
    Docs <- DocIds, Ops <- OpNames, content <- Contents,
    op <- [p \in Reqs |-> req[p].op], fate <- [p \in Reqs |-> Fate(req[p])]

----------------------------------------------------------------------------
(* Properties.                                                             *)

\* Every live row names stored bytes, and they are the bytes its content hash
\* was taken of: whatever replaces, purges, rollbacks and sweeps are under way
\* (service.go: "never data loss").
Backed ==
    \A d \in DocIds : Live(d) => blobs[rows[d].ref] = rows[d].hash

\* A commit whose reply is lost is rolled back although it stands: a live row
\* may lose its bytes then, but only one whose last writer was told it failed.
LossIsReported ==
    \A d \in DocIds :
        Live(d) /\ blobs[rows[d].ref] # rows[d].hash =>
            \E p \in Reqs : rows[d].ref = RefOf(p) /\ req[p].out = "error"

\* Content reads the row and the object in two calls.  A row changed in between
\* makes the object missing, never other bytes than the hash handed out with
\* them: no stale row is ever served with new bytes.
ReadsMatchHash ==
    \A p \in Reqs : req[p].pc = "fetch" =>
        blobs[req[p].snap.ref] \in {{}, req[p].snap.hash}

\* A committed co-signature takes nothing out of any document.
CoSignStep ==
    \A p \in Reqs, d \in DocIds :
        /\ req[p].op \in {"complete", "addsig"}
        /\ req[p].pc = "replace" /\ req'[p].pc = "purge"
        => rows[d].hash \subseteq rows'[d].hash

\* A co-signature merged over bytes read several calls ago never loses what
\* the container holds by now: the swap goes through only if it adds to it
\* (coSignInto: "a concurrent co-sign that advanced the chain first yields
\* chain_advanced").
CoSignAdds == [][CoSignStep]_vars

\* Without failures nothing is left in the object store but what a row names
\* or some request or sweep is still going to destroy or to name ("a failed
\* insert leaves nothing behind", "a CAS rejection leaves nothing behind").
NothingLeaks ==
    \A r \in Refs : blobs[r] # {} =>
        \/ \E d \in DocIds : rows[d].ref = r
        \/ \E p \in Reqs :
              \/ req[p].pc \in CommitPcs \cup {"rollback"} /\ r = RefOf(p)
              \/ r \in req[p].purge
        \/ r \in sweeper.refs

\* A signature somebody was told is stored stays in the document while the
\* document lives, whoever else signs, edits, archives or bundles.
AckedSignatureKept ==
    \A p \in Reqs :
        /\ req[p].pc = "done" /\ req[p].out = "ok"
        /\ req[p].op \in {"complete", "addsig", "signed", "archive"}
        /\ Live(req[p].doc)
        => p \in rows[req[p].doc].hash

\* Bundling absorbs a signed file with its signatures (store.go, Bundleable:
\* "its own signatures stay intact inside it"): where nobody deletes, every
\* acknowledged signature is in some live document.
AbsorbedSignatureKept ==
    \A p \in Reqs :
        /\ req[p].pc = "done" /\ req[p].out = "ok"
        /\ req[p].op \in {"complete", "addsig"}
        => \E d \in DocIds : Live(d) /\ p \in rows[d].hash

\* The clock reaches every dated row: one past its date and not held is
\* eventually purged, unless its date moves, a hold is placed or the service is
\* shut down.
DueRowsPurged ==
    \A d \in DocIds :
        (d \in DueRows(now)) ~> (d \notin DueRows(now) \/ app # "up")

\* Where no delete fails, bytes no row names any more are eventually destroyed,
\* by the request or the sweep that took the last name off them.
UnnamedBytesDestroyed ==
    \A r \in Refs :
        (blobs[r] # {} /\ ~\E d \in DocIds : rows[d].ref = r)
            ~> (blobs[r] = {} \/ \E d \in DocIds : rows[d].ref = r)

\* The service implements the ledger: over all the calls a request is made of, and
\* whatever the others do between them, each write takes effect at one instant and
\* at most once, on its own document only, is confirmed only when in effect, and
\* never in effect when refused (service.go: "a CAS rejection leaves nothing
\* behind"; handlers answer 201 after the commit).
ImplementsLedger == Ledger!LedgerSpec

\* The service is a client of the metadata layer like the most general one: with
\* the arguments it builds from rows read calls ago, it never changes rows, access
\* list or clock but by one procedure of the layer.  So every theorem about
\* MetaSpec is one about the service.
ImplementsMeta == MetaSpec

\* Every request is answered, whatever it races with and also when the store is
\* closed under it.
RequestsAnswered ==
    \A p \in Reqs : (req[p].pc \notin {"idle", "view"}) ~> (req[p].pc = "done")

\* A shutdown comes to its end although the store is closed before the task that
\* uses it: the sweep under way fails, and its goroutine then takes the stop.
StopCompletes == (app = "closed") ~> (app = "down")
=============================================================================
