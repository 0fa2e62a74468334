# Document store: TLA+ models and proofs

This directory models the document store: what it keeps, how requests change it
concurrently, and what its retention task destroys. TLC checks the models on
small instances; TLAPS proves for every value of the constants what holds of the
metadata layer, of its views and of a walk through its listing, and of the service
over it: custody of objects, and that it implements the metadata layer and an
abstract ledger.

## 1. Inventory

The service stores documents for signing. Bytes are sealed under a per-object
data key and kept in an object store; a metadata row names the object. A *chain*
is a root row (an upload or a bundle) and the signed forms below it; standing
access is granted per chain root.

| Part | State | Operations | Interacts with |
|---|---|---|---|
| metadata store (`store/memory.go`, mirrored by database procedures behind `store/postgres.go`) | rows, access entries | Insert, ReplaceContainerBlob, Bundle, Rebundle, Grant, Get and the chain lookups, SetResultFreeze, ExtendRetention, RemoveAccess, SweepRetention, SweepHistory, DeleteHistoryChain; the chain listing, chain, history and retention reads | called by the document service; each procedure is one transaction |
| object store (`s3/s3.go`) | key → sealed bytes | Put, Get, Delete (idempotent) | called by the document service, no transaction with the rows |
| document service (`documents/service.go`) | none of its own | Ingest, Bundle, Rebundle, replaceContainer, Content, Delete, ExtendRetention, Sweep | sequences calls on both stores, cleans up after failures |
| HTTP handlers (`routes/documents.go`, `routes/router.go`) | none | uploads, reads, complete, add-signature, signed, archived, bundle, rebundle, delete, grant, freeze, history | sequence calls of the document service |
| retention task (`tasks/retention.go`) | ticker | sweep of due rows, then of old records, in batches | calls the document service beside the requests |
| application shell (`app.go`) | the store's pool, the task | Stop: closes the store, then the server and its task | ends what the others use under them |
| responses (`routes/response`) | – | projections of rows and chains | shown to clients, who act on them |
| envelope encryption, packaging, malware scan, audit | – | – | no effect on which rows and bytes exist |

What is hard here:

* requests hold no lock between calls: a row read by one call is stale by the
  next, and the only guard is the compare-and-set on the content hash;
* rows and objects change in different systems, in an order that must never
  leave a live row without bytes, under failing calls, lost replies and crashes;
* an upload, a signature, a bundle, a departure and the sweep may all address
  the same chain at the same time;
* departures are reference-counted over access entries keyed by chain root;
* a legal hold, a retention date and a deletion must be respected by every path;
* several views answer the same question (what is this chain now, is it signed,
  how long does it last) from different rows, and clients page through a listing
  whose order changes under them;
* a shutdown closes the store before the handlers and the task that use it.

For each part, what makes it correct: the metadata store keeps one container per
parent and one signed PDF per tree, bytes exactly on live rows, holds, final
deletions, justified expiry and counted departures; the document service keeps
every live row backed by the bytes its hash was taken of and leaks nothing
without failures; the handlers never lose an acknowledged signature; the
retention task reaches everything due and nothing else; the views agree with each
other and with what is stored; a shutdown ends and leaves nothing behind. `PROJECT.json` lists the
hazards line by line.

## 2. Plan

Done in this order: the metadata layer with its proofs; the service over it with
its concurrency, failures and retention task; the views of chains and a client's
walk through their listing; the abstract ledger and the two refinements; the
shutdown.

Then the proofs: the metadata layer; its views and the walk; the control and the
custody invariant of the service; the two refinements; signatures and leaks.

Left:

1. Confirmed co-signatures on a container next to requests that store signed PDFs.
   `SignaturesKept` excludes the latter altogether; it needs invariants on kinds
   (`/signed` replaces only PDFs, co-signers only containers).
2. The theorems about the views carried over to the service, as those about rows
   and lists are.
3. The upload gate and its fail-open scan. They end a request before it writes
   anything, so no property here depends on them.

## 3. Modules and how they correspond to the code

**`MetadataStore`** is the metadata layer. A row is a total record over all ids
`1..MaxDocs`, handed out in order as ULIDs are; `unused` and `erased` are ids
without a row. `StorageRef` and `EncryptionKeyRef` are written and cleared
together and are one field. Each procedure of `memory.go` is one action
(`Insert`, `ReplaceContainerBlob`, ...); `..Result` and `..Errors` operators give
the refusals in the order the code tests them. `memory.go` compares an owner with
a subject as strings; a product-owned row holds `product:<p>:<tenant>` there and
equals no subject, hence `OwnedBy`. Only the right `read` is ever asked for, so an
entry records whether it includes it. A batch of a sweep is any set of the right
size, since the map is ranged over in any order. `MetaNext` calls any procedure
with any argument the service could build; the set `Procs` restricts a run to
some of them, and `LifeSpec` bounds when the operator sets a hold (see Bounds).
Not in it: `SetStatus`, which has no caller, and the raw `List`.

**`ChainViews`** extends it with what the layer shows of its chains, each view a
function of the state since each is computed under the lock: `ListChains`,
`GetChain`, `ListHistory`, `ChainRetention`, and `SignedHead`, the answer of
`/head`. A chain is shown as its head (`HeadOf`, `Outranks`); an empty set stands
for "not found" or, for `/head`, the empty id. File names, sizes and times of
creation are left out.

**`ListingWalk`** extends that with one client that reads the chain listing page
by page (`walk`) while everybody else goes on (`Act` is any step of `MetaNext`).
It records the items that were there at the start and did not move since; a walk
that ends leaves behind which of them it never showed or showed twice. A cursor
is the place of the last item seen, (last action, root id).

**`DocumentLedger`** is the abstract specification: documents that are some bytes
or nothing, and requests that are sent, take effect at one instant or never, and
are answered. It has no rows, objects, retries or clean-up. `Effect` says what
each operation may do to the documents; `Reply` which answer is allowed when.

**`DocumentService`** extends `MetadataStore` with the object store (`blobs`), the
requests (`req`), the retention task (`sweeper`) and the application's shutdown
(`app`). A request runs through the calls its
handler makes: a program counter, the row it last read (`snap`), the hash its
swap expects (`exp`), the bytes it is going to store (`data`) and the objects it
has still to destroy (`purge`). One call on a store is one step, so everything
between two calls interleaves with everybody else.

Bytes are the set of requests that contributed to them: a co-signature is merged
(`bytes \cup {p}`), a signed PDF and an archive form contain what their client
fetched before (`ClientView`), a bundle the union of its sources. A hash stands
for its bytes. Sources of a bundle are a set; the client's order only decides
which refusal comes first, and every order is possible. An edit of a bundle keeps any
part of its files, named before the new sources. `/assemble` behaves as an upload
of a container. Packaging, gate and scan failures end a request before it
writes anything and are not distinguished from a request that never came.

Shutting down is three steps: the pool is closed (calls in progress finish, every
later one fails, as `StoreFails` and `SweepFails` then may), the task is told to
stop, and its goroutine takes the stop between two sweeps. The object store stays
reachable. That handlers under way run on to their answer after that is the external
azugo server's doing, stopped after both (`app.go:239`); `RequestsAnswered` assumes it.

Two refinements are stated in it. `Ledger` maps a document to the bytes a reader
would get (`Contents`) and a request to how far its caller may believe it to be
(`Fate`): a request is applied from its commit on. `ImplementsMeta` says that the
rows, lists and clock of the service behave as `MetaSpec`, the metadata layer under
its most general client, with all its procedures (`Procs = AllProcs`).

`Answered` forgets what a finished request held, to keep the state space small.

Failures, by name in `Faults`: `put` (an object may or may not be stored),
`delete` (the object stays), `db` (a store call fails with nothing done),
`lost_reply` (a transaction commits and the caller sees an error), `abort` (a
request dies anywhere; the instance restarts in a sweep). Only the four procedures
that name a new object have a `lost_reply` of their own: nothing is rolled back when
the reply of `RemoveAccess` or of a sweep is lost, so what it does to others is what a
request (`abort`) or a sweep that dies there does. Other actors, by name
in `Env`: `grant`, `freeze`, `unlist` (early removal of a record), `hold` (the
operator), `tick`, `sweep`, `stop` (a shutdown).

**`MCMetadata`, `MCWalk`, `MCService`** give the runs their constants, the operations
each request may be, and two bounds: `LifeSpec` on holds, `OneFrozen` on the freeze.

The proofs are in modules of their own: **`MetadataProofs`** about `MetadataStore`,
**`ViewProofs`** about `ChainViews`, **`WalkProofs`** about `ListingWalk`; about
`DocumentService`, **`ServiceProofs`** (the invariant and its control part),
**`CustodyProofs`** (its custody part and what follows from it), **`LedgerProofs`**
(the ledger and signatures) and **`LeakProofs`**.

Operators named as a mutant in a comment are deliberately wrong variants of the
definition after them; nothing uses them in the specification. They show that
each property fails when that piece of code is wrong.

## 4. Runs

Passing (distinct states):

| Run | What it shows |
|---|---|
| `meta_walk` (141,530) | three chains, or one with two signed forms, read two to a page while files are uploaded, bundled, signed below and in the root, and frozen: the walk is complete, the two answers for a chain's head agree, a signing is shown |
| `meta_life` (607,059) | a person's and a product's rows under grants, departures, bundles, holds, extension, late replaces, expiry and both sweeps: standing roots keep their access list, expiry is justified, and history, horizon and heads tell the truth, also of a row revived from expiry (the freeze is `meta_walk`'s) |
| `svc_race` (552,420) | two signers race to create and co-sign one container or one signed PDF, one of them perhaps invited, the owner may leave; implements the ledger |
| `svc_bundle` (526,635) | bundles and edits of a bundle, of two documents and of one, race with a first signature, an extraction and the freeze; implements the ledger |
| `svc_faults` (1,214,505) | the co-signing race under failing puts, deletes and commits, lost replies and dying requests |
| `svc_life` (721,464) | one document of a person or a product through reads, archiving, removal, holds, both sweeps, failing calls, crashes; implements the ledger |
| `svc_retention` (90,905) | liveness: due rows are purged, unnamed bytes destroyed, requests answered, a shutdown ends; implements the metadata layer |

Bounds. Three rows are a root and two rivals under it, the least that can break a
uniqueness rule; the two-row metadata run adds a second caller, grants, holds and the destruction of
rows instead. There one row is held at a time, when the clock stands at its bound, in a chain that is
live and not replaced in place (`LifeSpec`); holds at any time are
`svc_life`'s, and the theorems' in any combination. `svc_bundle` freezes one container at
a time (the constraint `OneFrozen`). Four
requests are an upload, two rivals and a disturber; a request makes at most two
Puts (a lost creation retries once as a swap), hence two object keys per request.
A page of two items makes a listing of three chains a walk of two requests, with a
shared instant inside a page and across its end. The failure run has two rows: a
root and its form, or a root and a bundle; both at once are `svc_bundle`'s.
One hash and one reference suffice at the metadata layer, where they are only
compared; in the service they are derived from the requests. `TTL = 1` and a
clock of one to three ticks give a row before, at and after its date, and a
record before and after `HistoryKeep`. `Batch = 1` makes every sweep of two rows a
sweep of two batches. Persons, and the two signing requests, are symmetric in
the safety runs; the liveness run uses no symmetry. In the service runs deadlock
is not checked, since every request runs once and the system comes to rest.

The ledger is not checked where a commit's reply may be lost (`svc_faults`): a
rolled-back commit that stands leaves a live row without bytes, which is the
behaviour of `bug_reply`, and `LossIsReported` says how far the damage goes.

Fairness (`FairSpec`, for `svc_retention`): each handler takes its next call, and
the failing one when the store is closed (`WF` on the request's own steps: a
handler is a goroutine that runs to its answer); the retention task keeps
sweeping (`WF` on its steps: a ticker in one goroutine); a shutdown once begun
goes on (`WF` on its second and third step: `App.Stop` is straight-line code, and
the goroutine's select takes the stop when no sweep runs, as the ticker is stopped
by then). Clients, operators, failures of an open store and the clock owe
nothing, and nobody owes a shutdown.

Violated, each by a behaviour of the code that contradicts what a comment or the
repository's README says (`findings` quotes the lines):

| Run | Behaviour |
|---|---|
| `bug_archive` | an archive form computed over old bytes replaces a co-signature: the hash compared is read when the form arrives |
| `bug_pdf` | the loser of two first PDF signatures supersedes the winner instead of a 409 |
| `bug_absorb` | a signature added after a bundle read its source vanishes with the source |
| `bug_reply` | a lost reply makes the service roll back a committed object |
| `bug_nested` | completing a signed PDF makes it a second root, and leaving that chain purges it for others |

More behaviours of the model that contradict a comment, or that two parts of the
code answer differently, are recorded here and have no run of their own:

* a reader that has read the row when a swap destroys the old object is told a
  live document is gone (`service.go:562`, against `router.go:173`);
* a first signature that commits after the last participant left stores bytes
  nobody may read or remove (`memory.go:118`, against `memory.go:947`);
* an object whose delete failed stays, as no sweep looks at the object store
  (`service.go:480`, against the comment two lines above it);
* `/head` of an uploaded container is empty, since only containers below the root
  are looked up (`documents.go:771`; `documents.go:740` says it "resolves to
  itself"), while `/chain` shows it;
* a chain can hold a container and a signed PDF (complete and signed on one
  source); `/head` then names the PDF, `/chain` the newer row (`documents.go:739`:
  "a chain is one or the other");
* the history takes its head from the caller's own rows (`memory.go:697`): an
  owner whose document was signed by somebody else sees the destroyed chain as an
  unsigned source (`memory.go:650`: the views "cannot tell one caller a chain is
  signed and another that it is not");
* a late replace revives an expired row whatever became of its access list
  (`memory.go:204` refuses deleted rows only): where an owner of another row of the
  expired chain removed it from the history first (`memory.go:786`), the chain is live
  again with nobody on its list until somebody is granted access or the sweep ends it.
  `RootsStayListed` shows that there is no other way to such a root;
* the horizon of a chain is the zero instant when all its rows with bytes are
  undated, and a past one when the latest dated row is held; the count of live
  rows is what tells these from a destroyed chain (`HorizonIsRight` names both);
* a cursor that is a bare chain root id filters by root id a page ordered by last
  action, so a walk with it skips chains (`memory.go:542`); the repository's README
  and `store.go:351` promise that cursor;
* a product's upload without the durable class has no organisation: the chain
  views show it to the credential that stored it, reads refuse it
  (`memory.go:49`).

## 5. Proofs

### The metadata layer

`MetadataProofs` proves about `MetaSpec`, from the assumption `MetaAssumption` on
the constants alone (TLC evaluates it in every run):

* `TypeCorrect`: `[]TypeOK`;
* `ChainsCorrect`: `[](OneContainerPerParent /\ OneSignedPdfPerTree /\ BytesIffLive)`;
* `HoldsRespected`, `DeletionFinal`, `ExpiryJustified`, `DeparturesCounted`: the
  action properties `HeldRowKept`, `DeletedIsFinal`, `OnlyDueRowsExpire`,
  `RootOutlivesDepartures`;
* `RootsKeepTheirList`: the action property `RootsStayListed`;
* `PdfsUnique`, `BytesFollowLife`: the second and third part of it on their own;
* `OrphansBounded`: `[]OrphansExpire`;
* `HistoryIsDestroyed`: `[]HistoryMeansDestroyed`.

The argument. Every step does one of three things to each row: it *keeps* it
(same kind and parent, never revived from deletion, dates only forward, and so
on), *erases* it, or *creates* it with Insert's rule satisfied (`RowStep`). One
lemma per procedure shows this, and every theorem follows from `RowStep` without
looking at the procedures again. Uniqueness is inductive only together with
`ParentsUsed`: the parent of a child was handed out before, so a fresh id has no
children; without it a created root PDF could already have a signed child. The
invariant is `ChainInv == TypeOK /\ ParentsUsed /\ OneContainerPerParent /\
OneSignedPdfPerTree /\ BytesIffLive`. `RootsStayListed` uses a second frame, `AclStep`: a
step that takes the last entry of a root that stands, live or expired, either ends it
or removes the record of a chain that is over. It is stated of steps and not of states,
since no state tells whether a live root without a list was revived after such a
removal; signed in place or not makes no difference.
`OrphansExpire` is not inductive: a late swap could revive an undated row whose
list is gone. `UndatedInv` excludes it: an undated row is a durable root, the
sweep never expires it, and so it is listed for as long as it stands. The history
theorem follows from `BytesIffLive` alone.

### Views and the walk

`ViewProofs`, about `MetaSpec`: `SigningShown` (`SigningIsShown`),
`HistorySigningShown` (`HistoryShowsSigning`), `HeadReadsAgree` (`HeadsAgree`),
`HorizonCorrect` (`HorizonIsRight`). The views are functions of the state, so these
need no induction of their own beyond `LineageCorrect`: ids are handed out in order
and a row below another is a signed form with a later id. Without it an old signed
root could outrank its signed child as the head. The latest date of a chain exists
because ids are bounded; that is shown without an induction over sets, by
the least-number principle for a set of naturals.

`WalkProofs`: `WalkComplete` proves `WalkSpec => []WalkIsComplete`, from
`MetaAssumption` and `WalkAssumption`, for any page size. The inductive invariant
`WalkInv`: what is still due is listed past the cursor, what was shown is not past
it, and nothing was missed or repeated. A page holds the nearest items past the
cursor (`PageIsNearest`), so no due item is jumped over; a short page is the last
(`ShortIsLast`). An item that moves in the listing is struck from `due` by the
step that moves it.

### The service

All theorems are about `Spec` and rest on `MetaAssumption` and `ServiceAssumption`
(object keys are made of the request and a counter, bytes are sets of
contributions, every procedure has a caller). `Reqs`, the ids, the callers, `OpsOf`,
`Env` and `Faults` are arbitrary unless a hypothesis says otherwise.

| Theorem | States | Hypothesis |
|---|---|---|
| `ServiceCorrect` | `[]ServiceInv`, the inductive invariant | – |
| `ServiceTypes` | `[]ServiceTypeOK` | – |
| `ServiceIsMetaClient` | `ImplementsMeta` | – |
| `MetaHoldsInService` | `[]` of `BytesIffLive`, `OneContainerPerParent`, `OneSignedPdfPerTree`, `OrphansExpire` | – |
| `MetaStepsInService` | `HeldRowKept`, `DeletedIsFinal`, `OnlyDueRowsExpire`, `RootOutlivesDepartures`, `RootsStayListed` | – |
| `LossesReported` | `[]LossIsReported` | – |
| `ReadsConsistent` | `[]ReadsMatchHash` | – |
| `CoSignsAdd` | `CoSignAdds` | – |
| `LiveRowsBacked` | `[]Backed` | no lost reply of a commit |
| `ServiceIsLedger` | `ImplementsLedger` | no lost reply of a commit |
| `SignaturesKept` | `[]AckedSignatureKept` | no request stores a signed PDF or an archive form |
| `NoLeaks` | `[]NothingLeaks` | no failing put or delete, no lost reply, no dying request |

Each hypothesis is needed. `bug_reply` violates `Backed` with one lost reply, and
the ledger with it; `bug_pdf` and `bug_archive` violate `AckedSignatureKept` with the
two operations left out. A failed put may store an object whose key is then
forgotten, a failed delete keeps one for ever, and a request that dies leaves
whatever it held. Failing database calls and a closed store remain possible in all
four.

`ServiceInv` is `ControlInv /\ KeyInv`.

* `ControlInv`: the types, `ChainInv` of the metadata layer, and for each request
  what its program counter says of its fields (which operation may be there, how
  many keys it has used, what bytes it has in hand, which row it addresses), the
  same for the sweep. Every call of a handler preserves it (`ControlStep`). From it
  follows that the arguments a handler builds from rows it read earlier are ones
  `MetaNext` admits (`StepIsMeta`); the theorems about `MetaSpec` then hold in the
  service.
* `KeyInv`, who has custody of an object key: a key is named by one row at most, and
  only after the commit it was written for (`NamesUnique`); what somebody is about
  to destroy was named once and is not named now (`PurgesUnnamed`); what is about to
  be committed is stored (`WritesHeld`); a live row has its bytes, or lost them to a
  rollback after a lost reply (`RowsBacked`); a row read earlier names bytes that
  are its own or gone (`SnapsGood`). `Backed` is not inductive without these: the
  destruction of a key must know that no row names it, and a commit that its object
  is still there. Keys are never reused, which is what makes a stale read harmless.

Every step is of one of three kinds (`EveryKind`): rows move and objects do not
(`RowKind`), one object is destroyed (`DestroyKind`), or one is written under a fresh
key (`WriteKind`). `KeyInv` is shown once per kind, not once per call.

For the ledger, a call of a request does one of four things (`Goes`): it goes on with
nothing visible done, commits, leaves unapplied, or settles after its commit. Each is
a step of the ledger or none. `Fate` was first written as a `CASE` whose arms
overlapped; TLC took the first, the proof had no way to, and `Fate` now
distinguishes its cases disjointly. `SignaturesKept` needs `SignedInv`: a confirmed
signature is in the row also while that is expired, since a late swap may bring it
back. `NoLeaks` shows that each step *hands over* (`HandsOver`) every key it lets go
of, to a row or to a list of things to destroy; records are erased only when their
bytes are gone.

### Only model-checked

Liveness under fairness (`DueRowsPurged`, `UnnamedBytesDestroyed`,
`RequestsAnswered`, `StopCompletes`), which is out of the provers' reach, and the
five violations. `Backed` and `ServiceIsLedger` say nothing of objects nobody names
after a crash or a failed delete; `NoLeaks` does, where neither happens. That a hold
stops a bundling of the row is in the theorems `HoldsRespected` and `MetaStepsInService`
and not in `svc_life`, which bundles nothing. Every safety property of a passing run is stated by a theorem.

## 6. Not modelled

Cryptography and key wrapping, the ASiC-E library (and with it whether a
co-signature over files edited meanwhile is refused), the upload gate and malware
scan, audit events, the formatting of responses, configuration and wiring; the raw
row listing, metadata, digest and data-object reads; `SetStatus`, which has no
caller; authorisation scopes, which are checked before a handler
does anything. The database procedures themselves are not in this repository:
they are modelled from `store/memory.go`, which mirrors them, and from what
`store/postgres.go` does with their answers.
