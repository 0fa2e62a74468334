--------------------------- MODULE ServiceProofs ---------------------------
(***************************************************************************)
(* Proofs about DocumentService, for every set of requests, documents,     *)
(* callers and faults: its types, that it uses the metadata layer as that  *)
(* layer's general client does, and the custody of object keys, from which *)
(* the safety of the stored bytes follows.                                 *)
(***************************************************************************)
EXTENDS DocumentService, MetadataProofs

----------------------------------------------------------------------------
(* The inductive invariant: the control of one request q of name p.        *)

WritePcs == {"put", "rollback"} \cup CommitPcs

\* Which commit ends which operation.
Writes(op, then) ==
    \/ then = "insert" /\ op \in {"upload", "complete", "signed"}
    \/ then = "replace" /\ op \in {"complete", "addsig", "signed", "archive"}
    \/ then = op /\ op \in {"bundle", "rebundle"}

\* Where each operation may be.
FlowOps(q) ==
    /\ q.pc # "idle" => q.by \in Callers
    /\ q.pc = "view" => q.op \in {"signed", "archive"}
    /\ q.pc = "get" => q.op \notin {"none", "upload"}
    /\ q.pc = "fetch" =>
          q.op \in {"read", "extract", "complete", "addsig", "bundle", "rebundle"}
    /\ q.pc = "resolve" => q.op \in {"complete", "signed"}
    /\ q.pc \in WritePcs => Writes(q.op, q.then)
    /\ q.pc \in CommitPcs => q.then = q.pc
    /\ q.pc = "rollback" =>
          /\ q.out \notin {"none", "ok"}
          /\ q.op = "upload" => q.out # "chain_advanced"
    /\ q.pc = "purge" => q.op \notin {"none", "upload", "read", "extract"}
    /\ q.pc = "readback" => q.op \in {"upload", "complete", "signed", "bundle"}
    /\ q.pc = "extend" => q.op \in {"addsig", "signed"} /\ q.root # NoParent
    /\ q.pc = "remove" => q.op = "delete"

\* How many object keys it has used: a creation has used one when it commits, and
\* only a creation that lost is followed by a second write.
FlowKeys(q) ==
    /\ q.pc \in {"idle", "view"} => q.n = 0
    /\ q.pc \in {"get", "fetch"} => q.n = 0 \/ (q.n = 1 /\ q.op = "complete")
    /\ q.pc = "resolve" => q.n <= 1
    /\ q.pc = "put" => q.n <= 1 /\ (q.then = "insert" => q.n = 0)
    /\ q.pc \in CommitPcs \cup {"rollback"} =>
          q.n >= 1 /\ (q.then = "insert" => q.n = 1)
    /\ q.pc # "purge" => q.purge = {}

\* What it carries: its own contribution, the date it was given, and, merged into
\* a container, all of what its swap expects to find there.
FlowData(p, q) ==
    /\ q.pc \in WritePcs => p \in q.data
    /\ q.op \in {"signed", "archive"} /\ q.pc \in {"get", "resolve"} => p \in q.data
    /\ q.op = "upload" /\ q.pc \in {"put", "insert"} => q.data = {p}
    /\ q.op \in {"complete", "addsig"} /\ q.pc \in {"put", "replace"}
          /\ q.then = "replace" => q.exp \subseteq q.data
    /\ q.durable => q.op = "upload" /\ q.by \in Products
    /\ q.date \in {NoDate} \cup 1..(now + 1)

\* What it addresses: ids that were handed out, and below which it may hang a
\* container if it is about to.
Addressed(q) ==
    /\ q.pc \notin {"idle", "done"} /\ q.op # "upload" =>
          q.doc \in DocIds /\ Known(q.doc)
    /\ \A s \in q.todo : Known(s)
    /\ q.pc \notin {"idle", "done"} /\ q.op = "rebundle" => q.root \in DocIds
    /\ q.pc \in WritePcs \cup {"resolve", "purge", "readback", "extend"}
          /\ q.op = "signed" => q.root \in DocIds /\ Known(q.root)
    /\ q.op = "complete" =>
          /\ q.pc = "get" /\ q.n = 1 =>
                rows[q.doc].kind = "container" \/ rows[q.doc].status = "erased"
          /\ q.pc = "fetch" =>
                /\ q.n = 1 => q.snap.kind = "container"
                /\ q.snap.kind = "container" \/ rows[q.doc].kind # "container"
          /\ q.pc \in {"put", "insert"} /\ q.then = "insert" =>
                rows[q.doc].kind # "container"

RequestInv ==
    \A p \in Reqs :
        /\ FlowOps(req[p]) /\ FlowKeys(req[p])
        /\ FlowData(p, req[p]) /\ Addressed(req[p])

SweeperInv ==
    /\ sweeper.cutoff <= now
    /\ sweeper.pc # "destroy" => sweeper.refs = {}

\* The control part of the invariant.
ControlInv == ServiceTypeOK /\ ChainInv /\ RequestInv /\ SweeperInv

----------------------------------------------------------------------------
(* The inductive invariant: the custody of object keys.                    *)

Named(r) == \E d \in DocIds : rows[d].ref = r

\* The key was written, and the commit it was written for is over.
Spent(r) ==
    /\ r[2] <= req[r[1]].n
    /\ req[r[1]].pc \in CommitPcs => r[2] # req[r[1]].n

\* The writer of the key was told that it failed, after a reply was lost.
Lost(r) ==
    /\ "lost_reply" \in Faults
    /\ r = RefOf(r[1]) /\ req[r[1]].pc = "done" /\ req[r[1]].out = "error"

\* A key is named by one row at most, and only once its commit is over.
NamesUnique ==
    /\ \A r \in Refs : Named(r) => Spent(r)
    /\ \A d, e \in DocIds : rows[d].ref = rows[e].ref /\ rows[d].ref # NoRef => d = e

\* What somebody is going to destroy was named once and is named no more.
PurgesUnnamed ==
    \A r \in Refs :
        r \in sweeper.refs \/ (\E p \in Reqs : r \in req[p].purge) =>
            Spent(r) /\ ~Named(r)

\* What is going to be committed is stored, and what is rolled back is not named
\* unless a reply was lost.
WritesHeld ==
    \A p \in Reqs :
        /\ req[p].pc \in CommitPcs => blobs[RefOf(p)] = req[p].data
        /\ req[p].pc = "rollback" =>
              ~Named(RefOf(p)) \/ ("lost_reply" \in Faults /\ req[p].out = "error")

\* A live row has its bytes, or lost them to such a rollback.
RowsBacked ==
    \A d \in DocIds : Live(d) =>
        \/ blobs[rows[d].ref] = rows[d].hash
        \/ blobs[rows[d].ref] = {} /\ Lost(rows[d].ref)

\* A row read earlier names a written key, whose bytes are the hash's or gone.
SnapsGood ==
    \A p \in Reqs : req[p].pc = "fetch" =>
        /\ req[p].snap.ref \in Refs /\ Spent(req[p].snap.ref)
        /\ blobs[req[p].snap.ref] \in {{}, req[p].snap.hash}

KeyInv == NamesUnique /\ PurgesUnnamed /\ WritesHeld /\ RowsBacked /\ SnapsGood

----------------------------------------------------------------------------
(* Requests and how they move.                                             *)

ReqOK(p, q) == FlowOps(q) /\ FlowKeys(q) /\ FlowData(p, q) /\ Addressed(q)

\* The request moves to a state that the invariant admits.
Moves(p) == \E q \in Request : req' = [req EXCEPT ![p] = q] /\ ReqOK(p, q)'

\* A request not yet sent is a request record.
LEMMA IdleType == Idle \in Request
<1>1. Blank("unused") \in Row
  BY BlankType DEF Statuses
<1> QED BY <1>1, MetaAssumption
        DEF Idle, Request, Pcs, OpNames, Callers, Kinds, CommitPcs, Results, NoDate

\* An answered request is one, and keeps nothing but its outcome.
LEMMA AnsweredType ==
    ASSUME NEW q \in Request, NEW out \in Results
    PROVE  /\ Answered(q, out) \in Request
           /\ Answered(q, out).pc = "done" /\ Answered(q, out).out = out
           /\ Answered(q, out).by = q.by /\ Answered(q, out).op = q.op
           /\ Answered(q, out).n = q.n /\ Answered(q, out).purge = {}
           /\ Answered(q, out).durable = q.durable /\ Answered(q, out).date = q.date
           /\ Answered(q, out).doc = q.doc /\ Answered(q, out).todo = {}
<1>1. Blank("unused") \in Row
  BY BlankType DEF Statuses
<1> QED BY <1>1 DEF Answered, Request, Pcs

\* An answer is always admissible.
LEMMA AnsweredOK ==
    ASSUME NEW p \in Reqs, NEW q \in Request, NEW out \in Results, q.pc # "idle",
           ReqOK(p, q)
    PROVE  ReqOK(p, Answered(q, out))
<1>1. /\ Answered(q, out).pc = "done" /\ Answered(q, out).out = out
      /\ Answered(q, out).by = q.by /\ Answered(q, out).op = q.op
      /\ Answered(q, out).n = q.n /\ Answered(q, out).purge = {}
      /\ Answered(q, out).durable = q.durable /\ Answered(q, out).date = q.date
      /\ Answered(q, out).todo = {}
  BY AnsweredType
<1> QED BY <1>1 DEF ReqOK, FlowOps, FlowKeys, FlowData, Addressed, WritePcs, CommitPcs

\* A request that moves leaves the others where they are.
LEMMA OneMoves ==
    ASSUME req \in [Reqs -> Request], NEW p \in Reqs, NEW q \in Request,
           req' = [req EXCEPT ![p] = q]
    PROVE  /\ req' \in [Reqs -> Request]
           /\ req'[p] = q
           /\ \A r \in Reqs : r # p => req'[r] = req[r]
OBVIOUS

\* An id that was handed out stays so, and its row keeps its kind or is erased.
LEMMA KnownStep ==
    ASSUME RowStep, NEW d \in DocIds, Known(d)
    PROVE  /\ Known(d)'
           /\ \/ rows'[d].kind = rows[d].kind
              \/ rows'[d].kind = "source" /\ rows'[d].status = "erased"
<1>1. ASSUME Kept(d) \/ Erased(d)
      PROVE  /\ Known(d)'
             /\ \/ rows'[d].kind = rows[d].kind
                \/ rows'[d].kind = "source" /\ rows'[d].status = "erased"
  BY <1>1 DEF Kept, Erased, Known, Blank
<1>2. ASSUME NEW in PROVE ~Created(d, in)
  BY DEF Created, Fresh, Known
<1> QED BY <1>1, <1>2 DEF RowStep

\* An erased row stays erased.
LEMMA ErasedStep ==
    ASSUME RowStep, NEW d \in DocIds, rows[d].status = "erased"
    PROVE  rows'[d].status = "erased"
<1>1. ASSUME Kept(d) \/ Erased(d) PROVE rows'[d].status = "erased"
  BY <1>1 DEF Kept, Erased, Blank
<1>2. ASSUME NEW in PROVE ~Created(d, in)
  BY DEF Created, Fresh
<1> QED BY <1>1, <1>2 DEF RowStep

\* What a waiting request relies on survives the steps of the others.
LEMMA StaysOK ==
    ASSUME RowStep, now \in Nat, now' \in Nat, now <= now',
           NEW p \in Reqs, NEW q \in Request, ReqOK(p, q)
    PROVE  ReqOK(p, q)'
<1>1. FlowOps(q)' /\ FlowKeys(q)'
  BY DEF ReqOK, FlowOps, FlowKeys
<1>2. FlowData(p, q)'
  <2>1. q.date \in {NoDate} \cup 1..(now' + 1)
    BY DEF ReqOK, FlowData
  <2> QED BY <2>1 DEF ReqOK, FlowData
<1>3. ASSUME q.pc \notin {"idle", "done"}, q.op # "upload"
      PROVE  /\ q.doc \in DocIds /\ Known(q.doc) /\ Known(q.doc)'
             /\ \/ rows'[q.doc].kind = rows[q.doc].kind
                \/ rows'[q.doc].kind = "source" /\ rows'[q.doc].status = "erased"
  BY <1>3, KnownStep DEF ReqOK, Addressed
<1>4. ASSUME q.pc \in WritePcs \cup {"resolve", "purge", "readback", "extend"},
             q.op = "signed"
      PROVE  q.root \in DocIds /\ Known(q.root)'
  BY <1>4, KnownStep DEF ReqOK, Addressed
<1>5. ASSUME q.op = "complete", q.pc = "get", q.n = 1
      PROVE  rows'[q.doc].kind = "container" \/ rows'[q.doc].status = "erased"
  <2>1. CASE rows[q.doc].kind = "container"
    BY <1>3, <1>5, <2>1
  <2>2. CASE rows[q.doc].status = "erased"
    BY <1>3, <1>5, <2>2, ErasedStep
  <2> QED BY <1>5, <2>1, <2>2 DEF ReqOK, Addressed
<1>6. ASSUME q.op = "complete", q.pc \in {"fetch", "put", "insert"},
             rows[q.doc].kind # "container"
      PROVE  rows'[q.doc].kind # "container"
  BY <1>3, <1>6
<1>7. ASSUME NEW s \in q.todo PROVE Known(s)'
  BY KnownStep DEF ReqOK, Addressed, Request
<1>8. Addressed(q)'
  BY <1>3, <1>4, <1>5, <1>6, <1>7 DEF ReqOK, Addressed
<1> QED BY <1>1, <1>2, <1>8 DEF ReqOK

\* So the invariant of the requests is kept by a step that moves at most one.
LEMMA MovesKeep ==
    ASSUME ControlInv, RowStep, now' \in Nat, now <= now',
           UNCHANGED req \/ \E p \in Reqs : Moves(p)
    PROVE  req' \in [Reqs -> Request] /\ RequestInv'
<1>1. req \in [Reqs -> Request] /\ now \in Nat
  BY DEF ControlInv, ServiceTypeOK, TypeOK
<1>2. \A p \in Reqs : ReqOK(p, req[p])
  BY DEF ControlInv, RequestInv, ReqOK
<1>3. ASSUME NEW p \in Reqs, NEW q, q = req[p] PROVE ReqOK(p, q)'
  BY <1>1, <1>2, <1>3, StaysOK
<1>4. CASE UNCHANGED req
  <2>1. ASSUME NEW r \in Reqs PROVE ReqOK(r, req[r])'
    <3> DEFINE q == req[r]
    <3>1. q \in Request /\ ReqOK(r, q)
      BY <1>1, <1>2
    <3>2. PICK c : c = req[r]
      OBVIOUS
    <3>3. ReqOK(r, c)'
      BY <1>3, <3>2
    <3> QED BY <1>4, <3>2, <3>3
  <2> QED BY <1>1, <1>4, <2>1 DEF RequestInv, ReqOK
<1>5. CASE \E p \in Reqs : Moves(p)
  <2>1. PICK p \in Reqs : Moves(p)
    BY <1>5
  <2>2. PICK q \in Request : req' = [req EXCEPT ![p] = q] /\ ReqOK(p, q)'
    BY <2>1 DEF Moves
  <2>3. /\ req' \in [Reqs -> Request] /\ req'[p] = q
        /\ \A r \in Reqs : r # p => req'[r] = req[r]
    BY <1>1, <2>2, OneMoves
  <2>4. ASSUME NEW r \in Reqs PROVE ReqOK(r, req[r])'
    <3>1. CASE r = p
      BY <2>2, <2>3, <3>1
    <3>2. CASE r # p
      <4>1. PICK c : c = req[r]
        OBVIOUS
      <4>2. ReqOK(r, c)' /\ c = req'[r]
        BY <1>3, <2>3, <3>2, <4>1
      <4> QED BY <4>2
    <3> QED BY <3>1, <3>2
  <2> QED BY <2>3, <2>4 DEF RequestInv, ReqOK
<1> QED BY <1>4, <1>5

\* While the metadata layer stands still, admissible now is admissible then.
LEMMA StillOK ==
    ASSUME UNCHANGED metaVars, NEW p, NEW q \in Request, ReqOK(p, q),
           req' = [req EXCEPT ![p] = q]
    PROVE  Moves(p)
<1>1. ReqOK(p, q)'
  BY DEF metaVars, ReqOK, FlowOps, FlowKeys, FlowData, Addressed, Known
<1> QED BY <1>1 DEF Moves

\* A request that is answered moves on.
LEMMA AnswerMoves ==
    ASSUME ControlInv, UNCHANGED metaVars, NEW p \in Reqs, req[p].pc # "idle",
           NEW out \in Results, Answer(p, out)
    PROVE  Moves(p)
<1>1. req[p] \in Request /\ ReqOK(p, req[p])
  BY DEF ControlInv, ServiceTypeOK, RequestInv, ReqOK
<1>2. Answered(req[p], out) \in Request /\ ReqOK(p, Answered(req[p], out))
  BY <1>1, AnsweredType, AnsweredOK
<1> QED BY <1>2, StillOK DEF Answer

----------------------------------------------------------------------------
(* Each step of a request that leaves the metadata layer alone.            *)

\* The retention terms of an upload are those the layer accepts.
LEMMA TermsTyped ==
    ASSUME now \in Nat, NEW c, NEW t \in RetentionTerms(c)
    PROVE  /\ t.durable \in BOOLEAN /\ t.date \in {NoDate} \cup 1..(now + 1)
           /\ t.durable => c \in Products
<1>1. CASE t = [durable |-> FALSE, date |-> NoDate]
  BY <1>1
<1>2. CASE c \in Products /\ t \in [durable: {TRUE}, date: {NoDate, now + 1}]
  <2>1. t.durable = TRUE /\ t.date \in {NoDate, now + 1}
    BY <1>2
  <2>2. 1 <= now + 1 /\ now + 1 \in 1..(now + 1)
    OBVIOUS
  <2>3. t.date \in {NoDate} \cup 1..(now + 1)
    BY <2>1, <2>2
  <2>4. t.durable \in BOOLEAN
    BY <2>1
  <2> QED BY <1>2, <2>3, <2>4
<1> QED BY <1>1, <1>2 DEF RetentionTerms

\* POST /documents.
LEMMA StartUploadMoves ==
    ASSUME ControlInv, NEW p \in Reqs, NEW c \in Callers, NEW k \in UploadKinds,
           StartUpload(p, c, k)
    PROVE  Moves(p)
<1>0. PICK t \in RetentionTerms(c) :
          req' = [req EXCEPT ![p] =
             [Idle EXCEPT !.pc = "put", !.op = "upload", !.by = c, !.kind = k,
                          !.durable = t.durable, !.date = t.date, !.data = {p}]]
  BY DEF StartUpload
<1> DEFINE q == [Idle EXCEPT !.pc = "put", !.op = "upload", !.by = c, !.kind = k,
                             !.durable = t.durable, !.date = t.date, !.data = {p}]
<1>1. /\ k \in Kinds /\ now \in Nat /\ UNCHANGED metaVars
      /\ t.durable \in BOOLEAN /\ t.date \in {NoDate} \cup 1..(now + 1)
      /\ t.durable => c \in Products
  BY ServiceAssumption, TermsTyped
     DEF ControlInv, ServiceTypeOK, TypeOK, StartUpload
<1>2. t.date \in Nat \cup {NoDate}
  BY <1>1
<1>3. q \in Request
  BY <1>1, <1>2, IdleType DEF Request, Pcs, OpNames
<1>4. /\ q.pc = "put" /\ q.op = "upload" /\ q.by = c /\ q.data = {p}
      /\ q.durable = t.durable /\ q.date = t.date
      /\ q.n = 0 /\ q.then = "insert" /\ q.purge = {} /\ q.todo = {}
  BY DEF Idle
<1> HIDE DEF q
<1>5. ReqOK(p, q)
  BY <1>1, <1>4 DEF ReqOK, FlowOps, FlowKeys, FlowData, Addressed, WritePcs, CommitPcs,
                    Writes
<1> QED BY <1>0, <1>1, <1>3, <1>5, StillOK DEF q

\* POST /documents/assemble.
LEMMA StartAssembleMoves ==
    ASSUME ControlInv, NEW p \in Reqs, NEW c \in Callers, StartAssemble(p, c)
    PROVE  Moves(p)
<1> DEFINE q == [Idle EXCEPT !.pc = "put", !.op = "upload", !.by = c,
                             !.kind = "container", !.data = {p}]
<1>1. q \in Request /\ UNCHANGED metaVars
  BY IdleType DEF Request, Pcs, OpNames, Kinds, StartAssemble
<1>2. /\ q.pc = "put" /\ q.op = "upload" /\ q.by = c /\ q.data = {p}
      /\ q.durable = FALSE /\ q.date = NoDate
      /\ q.n = 0 /\ q.then = "insert" /\ q.purge = {} /\ q.todo = {}
  BY DEF Idle
<1> HIDE DEF q
<1>3. ReqOK(p, q)
  BY <1>2 DEF ReqOK, FlowOps, FlowKeys, FlowData, Addressed, WritePcs, CommitPcs, Writes
<1> QED BY <1>1, <1>3, StillOK DEF q, StartAssemble

\* Requests on one document.
LEMMA StartOnMoves ==
    ASSUME ControlInv, NEW p \in Reqs, NEW c \in Callers, NEW op, NEW d \in DocIds,
           StartOn(p, c, op, d)
    PROVE  Moves(p)
<1> DEFINE pc == IF op \in {"signed", "archive"} THEN "view" ELSE "get"
           q == [Idle EXCEPT !.op = op, !.by = c, !.doc = d, !.pc = pc]
<1>0. /\ op \in {"read", "extract", "complete", "addsig", "signed", "archive", "delete"}
      /\ Known(d) /\ d \in 0..MaxDocs /\ UNCHANGED metaVars
  BY MetaAssumption DEF StartOn, DocIds
<1>1. q \in Request
  <2>1. pc \in Pcs
    BY DEF Pcs
  <2> HIDE DEF pc
  <2> QED BY <1>0, <2>1, IdleType DEF Request, OpNames
<1>2. /\ q.pc = IF op \in {"signed", "archive"} THEN "view" ELSE "get"
      /\ q.op = op /\ q.by = c /\ q.doc = d /\ q.durable = FALSE /\ q.date = NoDate
      /\ q.n = 0 /\ q.purge = {} /\ q.todo = {}
  BY DEF Idle
<1> HIDE DEF q
<1>3. FlowOps(q) /\ FlowKeys(q)
  BY <1>0, <1>2 DEF FlowOps, FlowKeys, WritePcs, CommitPcs
<1>4. FlowData(p, q) /\ Addressed(q)
  BY <1>0, <1>2 DEF FlowData, Addressed, WritePcs, CommitPcs
<1> QED BY <1>0, <1>1, <1>3, <1>4, StillOK DEF q, StartOn, ReqOK

\* POST /documents/bundle.
LEMMA StartBundleMoves ==
    ASSUME ControlInv, NEW p \in Reqs, NEW c \in Callers, NEW srcs \in SUBSET DocIds,
           NEW d \in DocIds, StartBundle(p, c, srcs, d)
    PROVE  Moves(p)
<1> DEFINE q == [Idle EXCEPT !.pc = "get", !.op = "bundle", !.by = c, !.doc = d,
                             !.srcs = srcs, !.todo = srcs]
<1>0. /\ Known(d) /\ d \in 0..MaxDocs /\ UNCHANGED metaVars
      /\ \A s \in srcs : Known(s)
  BY MetaAssumption DEF StartBundle, DocIds
<1>1. q \in Request
  BY <1>0, IdleType DEF Request, Pcs, OpNames
<1>2. /\ q.pc = "get" /\ q.op = "bundle" /\ q.by = c /\ q.doc = d
      /\ q.durable = FALSE /\ q.date = NoDate /\ q.n = 0 /\ q.purge = {}
      /\ q.todo = srcs
  BY DEF Idle
<1> HIDE DEF q
<1>3. ReqOK(p, q)
  BY <1>0, <1>2 DEF ReqOK, FlowOps, FlowKeys, FlowData, Addressed, WritePcs, CommitPcs
<1> QED BY <1>0, <1>1, <1>3, StillOK DEF q, StartBundle

\* POST /documents/{id}/rebundle.
LEMMA StartRebundleMoves ==
    ASSUME ControlInv, NEW p \in Reqs, NEW c \in Callers, NEW d \in DocIds,
           NEW srcs \in SUBSET DocIds, StartRebundle(p, c, d, srcs)
    PROVE  Moves(p)
<1> DEFINE q == [Idle EXCEPT !.pc = "get", !.op = "rebundle", !.by = c, !.doc = d,
                             !.root = d, !.srcs = srcs, !.todo = srcs]
<1>0. /\ Known(d) /\ d \in 0..MaxDocs /\ UNCHANGED metaVars
      /\ \A s \in srcs : Known(s)
  BY MetaAssumption DEF StartRebundle, DocIds
<1>1. q \in Request
  BY <1>0, IdleType DEF Request, Pcs, OpNames
<1>2. /\ q.pc = "get" /\ q.op = "rebundle" /\ q.by = c /\ q.doc = d /\ q.root = d
      /\ q.durable = FALSE /\ q.date = NoDate /\ q.n = 0 /\ q.purge = {}
      /\ q.todo = srcs
  BY DEF Idle
<1> HIDE DEF q
<1>3. ReqOK(p, q)
  BY <1>0, <1>2 DEF ReqOK, FlowOps, FlowKeys, FlowData, Addressed, WritePcs, CommitPcs
<1> QED BY <1>0, <1>1, <1>3, StillOK DEF q, StartRebundle

\* What the invariant says of the request that is about to move.
LEMMA ReqFacts ==
    ASSUME ControlInv, NEW p \in Reqs
    PROVE  /\ req \in [Reqs -> Request] /\ req[p] \in Request
           /\ ReqOK(p, req[p])
           /\ TypeOK /\ ChainInv /\ blobs \in [Refs -> SUBSET Reqs]
BY DEF ControlInv, ServiceTypeOK, RequestInv, ReqOK

\* The bytes and the hash of a row are sets of requests, and a live row names a key.
LEMMA RowBytes ==
    ASSUME ControlInv, NEW d \in DocIds
    PROVE  /\ rows[d] \in Row /\ rows[d].hash \in SUBSET Reqs
           /\ Live(d) => rows[d].ref \in Refs
           /\ rows[d].ref # NoRef => Live(d)
<1>1. rows[d] \in Row
  BY RowTypes DEF ControlInv, ChainInv
<1> QED BY <1>1, ServiceAssumption DEF Row, ControlInv, ChainInv, BytesIffLive

\* The signing client fetches what it signs.
LEMMA ClientViewMoves ==
    ASSUME ControlInv, NEW p \in Reqs, ClientView(p)
    PROVE  Moves(p)
<1> DEFINE d == req[p].doc
           bytes == blobs[rows[d].ref]
           q == [req[p] EXCEPT !.pc = "get", !.data = bytes \cup {p}]
<1>0. /\ req \in [Reqs -> Request] /\ req[p] \in Request /\ ReqOK(p, req[p])
      /\ req[p].pc = "view" /\ UNCHANGED metaVars
  BY ReqFacts DEF ClientView
<1>1. d \in DocIds /\ Known(d) /\ req[p].op \in {"signed", "archive"} /\ req[p].n = 0
  BY <1>0 DEF ReqOK, FlowOps, FlowKeys, Addressed
<1>2. CASE Answer(p, "gone")
  BY <1>0, <1>2, AnswerMoves DEF Results
<1>3. CASE /\ Live(d)
           /\ req' = [req EXCEPT ![p].pc = "get", ![p].data = bytes \cup {p}]
  <2>1. bytes \in SUBSET Reqs
    BY <1>1, <1>3, RowBytes, ReqFacts
  <2> HIDE DEF bytes
  <2>2. q \in Request
    BY <1>0, <2>1 DEF Request, Pcs
  <2>3. /\ q.pc = "get" /\ q.data = bytes \cup {p} /\ q.op = req[p].op
        /\ q.by = req[p].by /\ q.doc = req[p].doc /\ q.n = req[p].n
        /\ q.purge = req[p].purge /\ q.durable = req[p].durable
        /\ q.date = req[p].date /\ q.todo = req[p].todo
    BY <1>0 DEF Request
  <2>4. req' = [req EXCEPT ![p] = q]
    BY <1>0, <1>3
  <2> HIDE DEF q
  <2>5. ReqOK(p, q)
    BY <1>0, <1>1, <2>3 DEF ReqOK, FlowOps, FlowKeys, FlowData, Addressed, WritePcs,
                            CommitPcs
  <2> QED BY <1>0, <2>2, <2>4, <2>5, StillOK
<1> QED BY <1>2, <1>3 DEF ClientView

\* The clone a read hands out is a row, and only its freeze is projected.
LEMMA CloneType ==
    ASSUME ControlInv, NEW d \in DocIds
    PROVE  /\ Clone(d) \in Row
           /\ Clone(d).parent = rows[d].parent /\ Clone(d).kind = rows[d].kind
           /\ Clone(d).ref = rows[d].ref /\ Clone(d).hash = rows[d].hash
<1>1. rows[d] \in Row /\ ChainRoot(d) \in DocIds
  BY RowTypes, ParentIsId DEF ControlInv, ChainInv, ChainRoot
<1>2. Frozen(d) \in BOOLEAN
  BY <1>1, RowTypes DEF Frozen, Row, ControlInv, ChainInv
<1> QED BY <1>1, <1>2 DEF Clone, Row

\* A read of the row of a signed-pdf store.
LEMMA ToSignedOK ==
    ASSUME ControlInv, NEW p \in Reqs, NEW q \in Request, ReqOK(p, q),
           q.pc = "get", q.op = "signed"
    PROVE  ToSigned(q, Clone(q.doc)) \in Request /\ ReqOK(p, ToSigned(q, Clone(q.doc)))
<1> DEFINE d == q.doc
           row == Clone(d)
           root == IF row.parent # NoParent THEN row.parent ELSE q.doc
           pc == IF row.kind = "pdf" THEN "resolve" ELSE "put"
           new == [q EXCEPT !.snap = row, !.root = root, !.pc = pc, !.then = "insert"]
<1>1. d \in DocIds /\ Known(d) /\ q.n = 0 /\ p \in q.data
  BY DEF ReqOK, Addressed, FlowKeys, FlowData
<1>2. row \in Row /\ row.parent = rows[d].parent
  BY <1>1, CloneType
<1>3. root \in DocIds /\ Known(root)
  BY <1>1, <1>2, ParentIsId DEF ControlInv, ChainInv, ParentsUsed, Known
<1>4. pc \in {"resolve", "put"} /\ root \in 0..MaxDocs
  BY <1>3, MetaAssumption DEF DocIds
<1> HIDE DEF row, root, pc
<1>5. new \in Request
  BY <1>2, <1>4 DEF Request, Pcs, CommitPcs
<1>6. /\ new.pc = pc /\ new.then = "insert" /\ new.root = root /\ new.op = "signed"
      /\ new.by = q.by /\ new.doc = d /\ new.n = 0 /\ new.purge = q.purge
      /\ new.durable = q.durable /\ new.date = q.date /\ new.data = q.data
      /\ new.todo = q.todo
  BY <1>1 DEF Request
<1> HIDE DEF new
<1>7. FlowOps(new) /\ FlowKeys(new)
  BY <1>4, <1>6 DEF ReqOK, FlowOps, FlowKeys, WritePcs, CommitPcs, Writes
<1>8. FlowData(p, new) /\ Addressed(new)
  BY <1>1, <1>3, <1>4, <1>6 DEF ReqOK, FlowData, Addressed, WritePcs, CommitPcs
<1>9. ToSigned(q, Clone(q.doc)) = new
  BY DEF ToSigned, new, row, root, pc
<1> QED BY <1>5, <1>7, <1>8, <1>9 DEF ReqOK

\* A read of the row of an archive store.
LEMMA ToArchivedOK ==
    ASSUME ControlInv, NEW p \in Reqs, NEW q \in Request, ReqOK(p, q),
           q.pc = "get", q.op = "archive"
    PROVE  ToArchived(q, Clone(q.doc)) \in Request
           /\ ReqOK(p, ToArchived(q, Clone(q.doc)))
<1> DEFINE d == q.doc
           row == Clone(d)
           new == [q EXCEPT !.exp = row.hash, !.pc = "put", !.then = "replace"]
<1>1. d \in DocIds /\ Known(d) /\ q.n = 0 /\ p \in q.data
  BY DEF ReqOK, Addressed, FlowKeys, FlowData
<1>2. row.hash \in SUBSET Reqs
  BY <1>1, CloneType, RowBytes
<1> HIDE DEF row
<1>3. new \in Request
  BY <1>2 DEF Request, Pcs, CommitPcs
<1>4. /\ new.pc = "put" /\ new.then = "replace" /\ new.op = "archive"
      /\ new.by = q.by /\ new.doc = d /\ new.n = 0 /\ new.purge = q.purge
      /\ new.durable = q.durable /\ new.date = q.date /\ new.data = q.data
      /\ new.todo = q.todo
  BY <1>1 DEF Request
<1> HIDE DEF new
<1>5. ReqOK(p, new)
  BY <1>1, <1>4 DEF ReqOK, FlowOps, FlowKeys, FlowData, Addressed, WritePcs, CommitPcs,
                    Writes
<1>6. Answered(q, "unprocessable") \in Request /\ ReqOK(p, Answered(q, "unprocessable"))
  BY AnsweredType, AnsweredOK DEF Results
<1> QED BY <1>3, <1>5, <1>6 DEF ToArchived, new, row

\* A read of a row whose bytes come next.
LEMMA ToContentOK ==
    ASSUME ControlInv, NEW p \in Reqs, NEW q \in Request, ReqOK(p, q),
           q.pc = "get", Stored(q.doc),
           q.op \in {"read", "extract", "complete", "addsig", "bundle", "rebundle"}
    PROVE  ToContent(q, Clone(q.doc)) \in Request
           /\ ReqOK(p, ToContent(q, Clone(q.doc)))
<1> DEFINE d == q.doc
           row == Clone(d)
           new == [q EXCEPT !.snap = row, !.pc = "fetch"]
<1>1. d \in DocIds /\ Known(d)
  BY DEF ReqOK, Addressed
<1>2. row \in Row /\ row.kind = rows[d].kind
  BY <1>1, CloneType
<1> HIDE DEF row
<1>3. new \in Request
  BY <1>2 DEF Request, Pcs
<1>4. /\ new.pc = "fetch" /\ new.snap = row /\ new.op = q.op
      /\ new.by = q.by /\ new.doc = d /\ new.n = q.n /\ new.purge = q.purge
      /\ new.root = q.root /\ new.durable = q.durable /\ new.date = q.date
      /\ new.todo = q.todo
  BY DEF Request
<1> HIDE DEF new
<1>5. FlowOps(new) /\ FlowKeys(new) /\ FlowData(p, new)
  BY <1>4 DEF ReqOK, FlowOps, FlowKeys, FlowData, WritePcs, CommitPcs
<1>6. Addressed(new)
  BY <1>1, <1>2, <1>4 DEF ReqOK, Addressed, WritePcs, CommitPcs, Stored
<1>7. Answered(q, "gone") \in Request /\ ReqOK(p, Answered(q, "gone"))
  BY AnsweredType, AnsweredOK DEF Results
<1> QED BY <1>3, <1>5, <1>6, <1>7 DEF ToContent, new, row, ReqOK

\* store.Get.
LEMMA GetRowMoves ==
    ASSUME ControlInv, NEW p \in Reqs, GetRow(p)
    PROVE  Moves(p)
<1> DEFINE q == req[p]
           new == AfterGet(p, Clone(q.doc))
           del == [q EXCEPT !.pc = "remove"]
<1>0. /\ q \in Request /\ ReqOK(p, q) /\ q.pc = "get" /\ UNCHANGED metaVars
  BY ReqFacts DEF GetRow
<1>1. CASE Answer(p, "not_found")
  BY <1>0, <1>1, AnswerMoves DEF Results
<1>2. CASE Stored(q.doc) /\ req' = [req EXCEPT ![p] = new]
  <2>1. CASE q.op = "delete"
    <3>1. del \in Request
      BY <1>0 DEF Request, Pcs
    <3>2. /\ del.pc = "remove" /\ del.op = "delete" /\ del.by = q.by
          /\ del.doc = q.doc /\ del.n = q.n /\ del.purge = q.purge
          /\ del.durable = q.durable /\ del.date = q.date /\ del.todo = q.todo
      BY <1>0, <2>1 DEF Request
    <3>3. new = del
      BY <2>1 DEF AfterGet
    <3> HIDE DEF del, q
    <3>4. ReqOK(p, del)
      BY <1>0, <2>1, <3>2 DEF ReqOK, FlowOps, FlowKeys, FlowData, Addressed, WritePcs,
                              CommitPcs
    <3> QED BY <1>0, <1>2, <3>1, <3>3, <3>4, StillOK
  <2>2. CASE q.op = "signed"
    <3>1. new = ToSigned(q, Clone(q.doc))
      BY <2>2 DEF AfterGet
    <3> QED BY <1>0, <1>2, <2>2, <3>1, ToSignedOK, StillOK
  <2>3. CASE q.op = "archive"
    <3>1. new = ToArchived(q, Clone(q.doc))
      BY <2>3 DEF AfterGet
    <3> QED BY <1>0, <1>2, <2>3, <3>1, ToArchivedOK, StillOK
  <2>4. CASE q.op \notin {"delete", "signed", "archive"}
    <3>1. new = ToContent(q, Clone(q.doc))
      BY <2>4 DEF AfterGet
    <3>2. q.op \in {"read", "extract", "complete", "addsig", "bundle", "rebundle"}
      BY <1>0, <2>4 DEF ReqOK, FlowOps, Request, OpNames
    <3> QED BY <1>0, <1>2, <3>1, <3>2, ToContentOK, StillOK
  <2> QED BY <2>1, <2>2, <2>3, <2>4
<1> QED BY <1>1, <1>2 DEF GetRow, Readable

----------------------------------------------------------------------------
(* What a request does with the bytes it fetched.                          *)

\* A co-signature merged over the bytes its swap expects.
LEMMA CompleteOK ==
    ASSUME ControlInv, NEW p \in Reqs, NEW q \in Request, ReqOK(p, q),
           q.pc = "fetch", q.op = "complete", NEW bytes \in SUBSET Reqs,
           bytes = q.snap.hash, NEW new \in Complete(p, q, bytes)
    PROVE  new \in Request /\ ReqOK(p, new)
<1> DEFINE then == IF q.snap.kind = "container" THEN "replace" ELSE "insert"
           mid == [q EXCEPT !.data = bytes \cup {p}, !.exp = bytes,
                            !.pc = "put", !.then = "replace"]
<1>1. /\ q.doc \in DocIds /\ Known(q.doc)
      /\ q.n = 0 \/ (q.n = 1 /\ q.snap.kind = "container")
      /\ q.snap.kind = "container" \/ rows[q.doc].kind # "container"
  BY DEF ReqOK, Addressed, FlowKeys
<1>2. then \in {"replace", "insert"} /\ (then = "insert" => q.snap.kind # "container")
  OBVIOUS
<1>3. new = [mid EXCEPT !.then = then]
  BY DEF Complete, CoSigned
<1> HIDE DEF then
<1>4. mid \in Request
  BY DEF Request, Pcs, CommitPcs
<1>5. new \in Request
  BY <1>2, <1>3, <1>4 DEF Request, CommitPcs
<1>6. /\ new.pc = "put" /\ new.then = then /\ new.op = "complete" /\ new.exp = bytes
      /\ new.by = q.by /\ new.doc = q.doc /\ new.n = q.n /\ new.purge = q.purge
      /\ new.durable = q.durable /\ new.date = q.date /\ new.data = bytes \cup {p}
      /\ new.todo = q.todo
  BY <1>3 DEF Request
<1> HIDE DEF mid
<1>7. FlowOps(new) /\ FlowKeys(new)
  BY <1>1, <1>2, <1>6 DEF ReqOK, FlowOps, FlowKeys, WritePcs, CommitPcs, Writes
<1>8. FlowData(p, new) /\ Addressed(new)
  BY <1>1, <1>2, <1>6 DEF ReqOK, FlowData, Addressed, WritePcs, CommitPcs
<1> QED BY <1>5, <1>7, <1>8 DEF ReqOK

\* One more signature for a container.
LEMMA AddSignatureOK ==
    ASSUME ControlInv, NEW p \in Reqs, NEW q \in Request, ReqOK(p, q),
           q.pc = "fetch", q.op = "addsig", NEW bytes \in SUBSET Reqs,
           bytes = q.snap.hash, NEW new \in AddSignature(p, q, bytes)
    PROVE  new \in Request /\ ReqOK(p, new)
<1> DEFINE mid == [q EXCEPT !.data = bytes \cup {p}, !.exp = bytes,
                            !.pc = "put", !.then = "replace"]
<1>1. q.doc \in DocIds /\ Known(q.doc) /\ q.n = 0
  BY DEF ReqOK, Addressed, FlowKeys
<1>2. CASE new = Answered(q, "unprocessable")
  BY <1>2, AnsweredType, AnsweredOK DEF Results
<1>3. CASE new = [mid EXCEPT !.root = q.snap.parent]
  <2>1. mid \in Request /\ q.snap.parent \in 0..MaxDocs
    <3>1. bytes \cup {p} \in SUBSET Reqs
      OBVIOUS
    <3> QED BY <3>1 DEF Request, Pcs, CommitPcs, Row
  <2>2. new \in Request
    BY <1>3, <2>1 DEF Request
  <2>3. /\ new.pc = "put" /\ new.then = "replace" /\ new.op = "addsig"
        /\ new.exp = bytes /\ new.by = q.by /\ new.doc = q.doc /\ new.n = q.n
        /\ new.purge = q.purge /\ new.durable = q.durable /\ new.date = q.date
        /\ new.data = bytes \cup {p} /\ new.todo = q.todo
    BY <1>3 DEF Request
  <2> HIDE DEF mid
  <2>4. ReqOK(p, new)
    BY <1>1, <2>3 DEF ReqOK, FlowOps, FlowKeys, FlowData, Addressed, WritePcs, CommitPcs,
                      Writes
  <2> QED BY <2>2, <2>4
<1> QED BY <1>2, <1>3 DEF AddSignature, CoSigned

\* The next source of a bundle, or its write.
LEMMA NextSourceOK ==
    ASSUME ControlInv, NEW p \in Reqs, NEW q \in Request, ReqOK(p, q),
           q.pc = "fetch", q.op \in {"bundle", "rebundle"}, p \in q.data,
           NEW todo \in SUBSET q.todo, NEW new \in NextSource(q, todo, q.op)
    PROVE  new \in Request /\ ReqOK(p, new)
<1>1. /\ q.doc \in DocIds /\ Known(q.doc) /\ q.n = 0
      /\ \A s \in q.todo : s \in DocIds /\ Known(s)
  BY DEF ReqOK, Addressed, FlowKeys, Request
<1>2. CASE new = [q EXCEPT !.todo = {}, !.pc = "put", !.then = q.op]
  <2>1. new \in Request
    BY <1>2 DEF Request, Pcs, CommitPcs
  <2>2. /\ new.pc = "put" /\ new.then = q.op /\ new.op = q.op
        /\ new.by = q.by /\ new.doc = q.doc /\ new.n = q.n /\ new.root = q.root
        /\ new.purge = q.purge /\ new.durable = q.durable /\ new.date = q.date
        /\ new.data = q.data /\ new.todo = {}
    BY <1>2 DEF Request
  <2>3. ReqOK(p, new)
    BY <1>1, <2>2 DEF ReqOK, FlowOps, FlowKeys, FlowData, Addressed, WritePcs, CommitPcs,
                      Writes
  <2> QED BY <2>1, <2>3
<1>3. ASSUME NEW s \in todo, new = [q EXCEPT !.todo = todo, !.doc = s, !.pc = "get"]
      PROVE  new \in Request /\ ReqOK(p, new)
  <2>1. todo \in SUBSET DocIds /\ s \in 0..MaxDocs /\ s \in DocIds /\ Known(s)
    BY <1>1, <1>3, MetaAssumption DEF DocIds
  <2>2. new \in Request
    BY <1>3, <2>1 DEF Request, Pcs
  <2>3. /\ new.pc = "get" /\ new.op = q.op
        /\ new.by = q.by /\ new.doc = s /\ new.n = q.n /\ new.root = q.root
        /\ new.purge = q.purge /\ new.durable = q.durable /\ new.date = q.date
        /\ new.data = q.data /\ new.todo = todo
    BY <1>3 DEF Request
  <2>4. FlowOps(new) /\ FlowKeys(new) /\ FlowData(p, new)
    BY <1>1, <2>3 DEF ReqOK, FlowOps, FlowKeys, FlowData, WritePcs, CommitPcs
  <2>5. Addressed(new)
    BY <1>1, <2>1, <2>3 DEF ReqOK, Addressed, WritePcs, CommitPcs
  <2> QED BY <2>2, <2>4, <2>5 DEF ReqOK
<1> QED BY <1>2, <1>3 DEF NextSource

\* Two states of a request that differ at most in what it carries.
SameFlow(q, new) ==
    /\ new.pc = q.pc /\ new.op = q.op /\ new.by = q.by /\ new.doc = q.doc
    /\ new.n = q.n /\ new.root = q.root /\ new.purge = q.purge
    /\ new.durable = q.durable /\ new.date = q.date /\ new.todo = q.todo

\* Bytes taken into a bundle under construction.
LEMMA GatheredOK ==
    ASSUME NEW p \in Reqs, NEW q \in Request, ReqOK(p, q), q.pc = "fetch",
           q.op \in {"bundle", "rebundle"}, NEW new, SameFlow(q, new)
    PROVE  ReqOK(p, new)
BY DEF SameFlow, ReqOK, FlowOps, FlowKeys, FlowData, Addressed, WritePcs, CommitPcs

\* A source goes into the bundle, or the request is refused.
LEMMA TakeSourceOK ==
    ASSUME ControlInv, NEW p \in Reqs, NEW q \in Request, ReqOK(p, q),
           q.pc = "fetch", q.op \in {"bundle", "rebundle"},
           NEW bytes \in SUBSET Reqs, NEW new \in TakeSource(p, q, bytes, q.op)
    PROVE  new \in Request /\ ReqOK(p, new)
<1> DEFINE mid == [q EXCEPT !.data = @ \cup bytes \cup {p}]
<1>1. CASE new = Answered(q, "not_bundleable")
  BY <1>1, AnsweredType, AnsweredOK DEF Results
<1>2. CASE new \in NextSource(mid, q.todo \ {q.doc}, q.op)
  <2>1. mid \in Request /\ p \in mid.data
    BY DEF Request
  <2>2. SameFlow(q, mid)
    BY DEF Request, SameFlow
  <2> HIDE DEF mid
  <2>3. ReqOK(p, mid) /\ mid.pc = "fetch" /\ mid.op = q.op /\ mid.todo = q.todo
    BY <2>2, GatheredOK DEF SameFlow
  <2>4. q.todo \ {q.doc} \in SUBSET mid.todo
    BY <2>3
  <2> QED BY <1>2, <2>1, <2>3, <2>4, NextSourceOK
<1> QED BY <1>1, <1>2 DEF TakeSource

\* The draft a rebundle starts from.
LEMMA TakeDraftOK ==
    ASSUME ControlInv, NEW p \in Reqs, NEW q \in Request, ReqOK(p, q),
           q.pc = "fetch", q.op = "rebundle",
           NEW bytes \in SUBSET Reqs, NEW new \in TakeDraft(p, q, bytes)
    PROVE  new \in Request /\ ReqOK(p, new)
<1> DEFINE Draft(kept) == NextSource([q EXCEPT !.data = kept \cup {p}, !.exp = q.snap.hash],
                                     q.todo, "rebundle")
<1>1. CASE new \in {Answered(q, "not_bundleable"), Answered(q, "not_found")}
  BY <1>1, AnsweredType, AnsweredOK DEF Results
<1>2. ASSUME NEW kept \in SUBSET Reqs, new \in Draft(kept)
      PROVE  new \in Request /\ ReqOK(p, new)
  <2> DEFINE mid == [q EXCEPT !.data = kept \cup {p}, !.exp = q.snap.hash]
  <2>1. kept \cup {p} \in SUBSET Reqs /\ q.snap.hash \in SUBSET Reqs
    BY ServiceAssumption DEF Request, Row
  <2>2. mid \in Request /\ p \in mid.data
    BY <2>1 DEF Request
  <2>3. SameFlow(q, mid)
    BY DEF Request, SameFlow
  <2> HIDE DEF mid
  <2>4. ReqOK(p, mid) /\ mid.pc = "fetch" /\ mid.op = q.op /\ mid.todo = q.todo
    BY <2>3, GatheredOK DEF SameFlow
  <2>5. new \in NextSource(mid, q.todo, mid.op) /\ q.todo \in SUBSET mid.todo
    BY <1>2, <2>4 DEF mid
  <2> QED BY <2>2, <2>4, <2>5, NextSourceOK
<1>3. CASE new \in UNION {Draft(kept) : kept \in {K \in SUBSET bytes : K # {} \/ q.srcs # {}}}
  <2>1. PICK kept \in SUBSET bytes : new \in Draft(kept)
    BY <1>3
  <2>2. kept \in SUBSET Reqs /\ new \in Draft(kept)
    BY <2>1
  <2> QED BY <1>2, <2>2
<1> QED BY <1>1, <1>3 DEF TakeDraft

\* Reads are answered, whatever the freeze says.
LEMMA ServeOK ==
    ASSUME ControlInv, NEW p \in Reqs, NEW q \in Request, ReqOK(p, q),
           q.pc = "fetch", NEW new \in Serve(q) \cup Extract(q)
    PROVE  new \in Request /\ ReqOK(p, new)
<1>1. \E out \in Results : new = Answered(q, out)
  BY DEF Serve, Extract, Results
<1> QED BY <1>1, AnsweredType, AnsweredOK

\* blob.Get and what follows.
LEMMA FetchMoves ==
    ASSUME ControlInv, SnapsGood, NEW p \in Reqs, Fetch(p)
    PROVE  Moves(p)
<1> DEFINE q == req[p]
           bytes == blobs[q.snap.ref]
<1>0. /\ q \in Request /\ ReqOK(p, q) /\ q.pc = "fetch" /\ UNCHANGED metaVars
      /\ bytes \in SUBSET Reqs /\ bytes \in {{}, q.snap.hash}
  BY ReqFacts DEF Fetch, SnapsGood
<1>1. CASE Answer(p, "gone")
  BY <1>0, <1>1, AnswerMoves DEF Results
<1>2. CASE bytes # {} /\ \E new \in AfterFetch(p, bytes) : req' = [req EXCEPT ![p] = new]
  <2>1. PICK new \in AfterFetch(p, bytes) : req' = [req EXCEPT ![p] = new]
    BY <1>2
  <2>2. bytes = q.snap.hash
    BY <1>0, <1>2
  <2>3. q.op \in {"read", "extract", "complete", "addsig", "bundle", "rebundle"}
    BY <1>0 DEF ReqOK, FlowOps
  <2>4. \/ q.op = "read" /\ new \in Serve(q)
        \/ q.op = "extract" /\ new \in Extract(q)
        \/ q.op = "complete" /\ new \in Complete(p, q, bytes)
        \/ q.op = "addsig" /\ new \in AddSignature(p, q, bytes)
        \/ q.op \in {"bundle", "rebundle"} /\ new \in TakeSource(p, q, bytes, q.op)
        \/ q.op = "rebundle" /\ new \in TakeDraft(p, q, bytes)
    BY <2>1, <2>3 DEF AfterFetch
  <2> HIDE DEF q, bytes
  <2>5. new \in Request /\ ReqOK(p, new)
    BY <1>0, <2>2, <2>4, ServeOK, CompleteOK, AddSignatureOK, TakeSourceOK, TakeDraftOK
  <2> QED BY <1>0, <2>1, <2>5, StillOK
<1> QED BY <1>1, <1>2 DEF Fetch

\* The current signed form of the chain, to be read or superseded.
LEMMA ResolveMoves ==
    ASSUME ControlInv, NEW p \in Reqs, Resolve(p)
    PROVE  Moves(p)
<1> DEFINE q == req[p]
           r == IF q.op = "complete" THEN q.doc ELSE q.root
           heads == IF q.op = "complete" THEN ContainersOf(r) ELSE LatestSignedPdf(r)
<1>0. /\ q \in Request /\ ReqOK(p, q) /\ q.pc = "resolve" /\ UNCHANGED metaVars
  BY ReqFacts DEF Resolve
<1>1. q.op \in {"complete", "signed"} /\ q.n <= 1 /\ q.n \in 0..2
  BY <1>0 DEF ReqOK, FlowOps, FlowKeys, Request
<1>2. CASE Answer(p, "not_found")
  BY <1>0, <1>2, AnswerMoves DEF Results
<1>3. ASSUME q.op = "complete", NEW h \in ContainersOf(r),
             req' = [req EXCEPT ![p] = [q EXCEPT !.doc = h, !.pc = "get"]]
      PROVE  Moves(p)
  <2> DEFINE new == [q EXCEPT !.doc = h, !.pc = "get"]
  <2>1. h \in DocIds /\ h \in 0..MaxDocs /\ Known(h) /\ rows[h].kind = "container"
    BY MetaAssumption DEF ContainersOf, DocIds, Stored, Known
  <2>2. new \in Request
    BY <1>0, <2>1 DEF Request, Pcs
  <2>3. /\ new.pc = "get" /\ new.op = "complete" /\ new.by = q.by /\ new.doc = h
        /\ new.n = q.n /\ new.purge = q.purge /\ new.durable = q.durable
        /\ new.date = q.date /\ new.todo = q.todo
    BY <1>0, <1>3 DEF Request
  <2>4. req' = [req EXCEPT ![p] = new]
    BY <1>3
  <2> HIDE DEF new, q
  <2>5. FlowOps(new) /\ FlowKeys(new)
    BY <1>0, <1>1, <2>3 DEF ReqOK, FlowOps, FlowKeys, WritePcs, CommitPcs
  <2>6. FlowData(p, new)
    BY <1>0, <1>3, <2>3 DEF ReqOK, FlowData, WritePcs, CommitPcs, q
  <2>7. Addressed(new)
    BY <1>0, <2>1, <2>3 DEF ReqOK, Addressed, WritePcs, CommitPcs
  <2> QED BY <1>0, <2>2, <2>4, <2>5, <2>6, <2>7, StillOK DEF ReqOK
<1>4. ASSUME q.op = "signed", NEW h \in LatestSignedPdf(r),
             req' = [req EXCEPT ![p] = [q EXCEPT !.doc = h, !.exp = rows[h].hash,
                                                 !.pc = "put", !.then = "replace"]]
      PROVE  Moves(p)
  <2> DEFINE hash == rows[h].hash
             new == [q EXCEPT !.doc = h, !.exp = hash, !.pc = "put", !.then = "replace"]
  <2>1. h \in DocIds /\ h \in 0..MaxDocs /\ Known(h)
    BY MetaAssumption DEF LatestSignedPdf, DocIds, Stored, Known
  <2>2. hash \in SUBSET Reqs
    BY <2>1, RowBytes
  <2> HIDE DEF hash
  <2>3. new \in Request
    BY <1>0, <2>1, <2>2 DEF Request, Pcs, CommitPcs
  <2>4. /\ new.pc = "put" /\ new.op = "signed" /\ new.by = q.by /\ new.doc = h
        /\ new.then = "replace" /\ new.root = q.root /\ new.data = q.data
        /\ new.n = q.n /\ new.purge = q.purge /\ new.durable = q.durable
        /\ new.date = q.date /\ new.todo = q.todo
    BY <1>0, <1>4 DEF Request
  <2>5. req' = [req EXCEPT ![p] = new]
    BY <1>4 DEF hash
  <2> HIDE DEF new, q
  <2>6. FlowOps(new) /\ FlowKeys(new)
    BY <1>0, <1>1, <2>4 DEF ReqOK, FlowOps, FlowKeys, WritePcs, CommitPcs, Writes
  <2>7. FlowData(p, new) /\ Addressed(new)
    BY <1>0, <1>4, <2>1, <2>4 DEF ReqOK, FlowData, Addressed, WritePcs, CommitPcs
  <2> QED BY <1>0, <2>3, <2>5, <2>6, <2>7, StillOK DEF ReqOK
<1>5. Answer(p, "not_found") \/
      \E h \in heads :
          req' = [req EXCEPT ![p] =
             IF q.op = "complete" THEN [q EXCEPT !.doc = h, !.pc = "get"]
             ELSE [q EXCEPT !.doc = h, !.exp = rows[h].hash,
                            !.pc = "put", !.then = "replace"]]
  BY DEF Resolve
<1> QED
  <2>1. CASE q.op = "complete"
    BY <1>2, <1>3, <1>5, <2>1
  <2>2. CASE q.op = "signed"
    BY <1>2, <1>4, <1>5, <2>2
  <2> QED BY <1>1, <2>1, <2>2

\* blob.Put.
LEMMA PutMoves ==
    ASSUME ControlInv, NEW p \in Reqs, Put(p)
    PROVE  Moves(p)
<1> DEFINE q == req[p]
           new == [q EXCEPT !.n = q.n + 1, !.pc = q.then]
<1>0. /\ q \in Request /\ ReqOK(p, q) /\ q.pc = "put" /\ UNCHANGED metaVars
  BY ReqFacts DEF Put
<1>1. CASE Answer(p, "error")
  BY <1>0, <1>1, AnswerMoves DEF Results
<1>2. CASE req' = [req EXCEPT ![p].n = @ + 1, ![p].pc = req[p].then]
  <2>1. /\ q.n \in {0, 1} /\ (q.then = "insert" => q.n = 0) /\ Writes(q.op, q.then)
        /\ p \in q.data /\ q.then \in CommitPcs
    BY <1>0 DEF ReqOK, FlowKeys, FlowOps, FlowData, WritePcs, Request
  <2>2. new \in Request
    <3>1. q.n + 1 \in 0..2 /\ q.then \in Pcs
      BY <2>1 DEF Pcs
    <3> QED BY <1>0, <3>1 DEF Request
  <2>3. /\ new.pc = q.then /\ new.op = q.op /\ new.by = q.by /\ new.doc = q.doc
        /\ new.then = q.then /\ new.root = q.root /\ new.data = q.data
        /\ new.n = q.n + 1 /\ new.purge = q.purge /\ new.durable = q.durable
        /\ new.date = q.date /\ new.todo = q.todo /\ new.exp = q.exp
    BY <1>0 DEF Request
  <2>4. req' = [req EXCEPT ![p] = new]
    BY <1>0, <1>2, ReqFacts
  <2> HIDE DEF new, q
  <2>5. FlowOps(new)
    BY <1>0, <2>1, <2>3 DEF ReqOK, FlowOps, WritePcs, CommitPcs
  <2>6. FlowKeys(new)
    BY <1>0, <2>1, <2>3 DEF ReqOK, FlowKeys, CommitPcs
  <2>7. FlowData(p, new)
    BY <1>0, <2>1, <2>3 DEF ReqOK, FlowData, WritePcs, CommitPcs
  <2>8. Addressed(new)
    BY <1>0, <2>1, <2>3 DEF ReqOK, Addressed, WritePcs, CommitPcs
  <2> QED BY <1>0, <2>2, <2>4, <2>5, <2>6, <2>7, <2>8, StillOK DEF ReqOK
<1> QED BY <1>1, <1>2 DEF Put

\* What the commit of a request may be refused for.
Reasons(q) ==
    {out \in Results : /\ out \notin {"none", "ok"}
                       /\ q.op = "upload" => out # "chain_advanced"}

\* A commit that is refused leads to the rollback of its object.
LEMMA RefusedOK ==
    ASSUME NEW p \in Reqs, NEW q \in Request, ReqOK(p, q), q.pc \in CommitPcs,
           NEW out \in Reasons(q)
    PROVE  /\ [q EXCEPT !.pc = "rollback", !.out = out] \in Request
           /\ ReqOK(p, [q EXCEPT !.pc = "rollback", !.out = out])
<1> DEFINE new == [q EXCEPT !.pc = "rollback", !.out = out]
<1>1. out \in Results /\ out \notin {"none", "ok"}
      /\ (q.op = "upload" => out # "chain_advanced")
  BY DEF Reasons
<1>2. new \in Request
  BY <1>1 DEF Request, Pcs
<1>3. /\ new.pc = "rollback" /\ new.op = q.op /\ new.by = q.by /\ new.doc = q.doc
      /\ new.then = q.then /\ new.root = q.root /\ new.data = q.data
      /\ new.n = q.n /\ new.purge = q.purge /\ new.durable = q.durable
      /\ new.date = q.date /\ new.todo = q.todo /\ new.exp = q.exp /\ new.out = out
  BY DEF Request
<1> HIDE DEF new
<1>4. FlowOps(new) /\ FlowKeys(new)
  BY <1>1, <1>3 DEF ReqOK, FlowOps, FlowKeys, WritePcs, CommitPcs
<1>5. FlowData(p, new) /\ Addressed(new)
  BY <1>3 DEF ReqOK, FlowData, Addressed, WritePcs, CommitPcs
<1> QED BY <1>2, <1>4, <1>5 DEF ReqOK, new

\* The same as a step.
LEMMA RefusedMoves ==
    ASSUME ControlInv, UNCHANGED metaVars, NEW p \in Reqs, req[p].pc \in CommitPcs,
           NEW out \in Reasons(req[p]), Refused(p, out)
    PROVE  Moves(p)
<1>1. req[p] \in Request /\ ReqOK(p, req[p]) /\ req \in [Reqs -> Request]
  BY ReqFacts
<1>2. req' = [req EXCEPT ![p] = [req[p] EXCEPT !.pc = "rollback", !.out = out]]
  BY <1>1 DEF Refused
<1> QED BY <1>1, <1>2, RefusedOK, StillOK

\* A store call that fails.
LEMMA StoreFailsMoves ==
    ASSUME ControlInv, NEW p \in Reqs, StoreFails(p)
    PROVE  Moves(p)
<1>0. UNCHANGED metaVars
  BY DEF StoreFails
<1>1. CASE req[p].pc \in CommitPcs /\ Refused(p, "error")
  <2>1. "error" \in Reasons(req[p])
    BY DEF Reasons, Results
  <2> QED BY <1>0, <1>1, <2>1, RefusedMoves
<1>2. CASE req[p].pc = "extend" /\ Answer(p, "ok")
  BY <1>0, <1>2, AnswerMoves DEF Results
<1>3. CASE /\ req[p].pc \in {"view", "get", "resolve", "readback", "remove"}
           /\ Answer(p, "error")
  BY <1>0, <1>3, AnswerMoves DEF Results
<1> QED BY <1>1, <1>2, <1>3 DEF StoreFails

\* A request that dies.
LEMMA AbortMoves ==
    ASSUME ControlInv, NEW p \in Reqs, Abort(p)
    PROVE  Moves(p)
BY AnswerMoves DEF Abort, Results

\* A rollback is followed by the answer, or by the search for the winner.
LEMMA RollbackMoves ==
    ASSUME ControlInv, NEW p \in Reqs, Rollback(p)
    PROVE  Moves(p)
<1> DEFINE q == req[p]
           new == [q EXCEPT !.pc = "resolve", !.out = "none"]
<1>0. /\ q \in Request /\ ReqOK(p, q) /\ q.pc = "rollback" /\ UNCHANGED metaVars
      /\ q.out \in Results
  BY ReqFacts DEF Rollback, Request
<1>1. CASE Answer(p, q.out)
  BY <1>0, <1>1, AnswerMoves
<1>2. CASE /\ q.then = "insert" /\ q.out = "chain_advanced"
           /\ req' = [req EXCEPT ![p].pc = "resolve", ![p].out = "none"]
  <2>1. q.op \in {"complete", "signed"} /\ q.n = 1
    BY <1>0, <1>2 DEF ReqOK, FlowOps, FlowKeys, WritePcs, Writes
  <2>2. new \in Request
    BY <1>0 DEF Request, Pcs, Results
  <2>3. /\ new.pc = "resolve" /\ new.op = q.op /\ new.by = q.by /\ new.doc = q.doc
        /\ new.root = q.root /\ new.data = q.data
        /\ new.n = q.n /\ new.purge = q.purge /\ new.durable = q.durable
        /\ new.date = q.date /\ new.todo = q.todo
    BY <1>0 DEF Request
  <2>4. req' = [req EXCEPT ![p] = new]
    BY <1>0, <1>2, ReqFacts
  <2> HIDE DEF new, q
  <2>5. FlowOps(new) /\ FlowKeys(new)
    BY <1>0, <2>1, <2>3 DEF ReqOK, FlowOps, FlowKeys, WritePcs, CommitPcs
  <2>6. FlowData(p, new) /\ Addressed(new)
    BY <1>0, <2>1, <2>3 DEF ReqOK, FlowData, Addressed, WritePcs, CommitPcs
  <2> QED BY <1>0, <2>2, <2>4, <2>5, <2>6, StillOK DEF ReqOK
<1> QED BY <1>1, <1>2 DEF Rollback

\* After a purge the request goes on or is answered.
LEMMA PurgeStepMoves ==
    ASSUME ControlInv, NEW p \in Reqs, PurgeStep(p)
    PROVE  Moves(p)
<1> DEFINE q == req[p]
<1>0. /\ q \in Request /\ ReqOK(p, q) /\ q.pc = "purge" /\ UNCHANGED metaVars
      /\ req \in [Reqs -> Request]
  BY ReqFacts DEF PurgeStep
<1>1. ASSUME NEW r \in q.purge, req' = [req EXCEPT ![p].purge = @ \ {r}]
      PROVE  Moves(p)
  <2> DEFINE new == [q EXCEPT !.purge = q.purge \ {r}]
  <2>1. new \in Request
    BY <1>0 DEF Request
  <2>2. /\ new.pc = "purge" /\ new.op = q.op /\ new.by = q.by /\ new.doc = q.doc
        /\ new.root = q.root /\ new.durable = q.durable
        /\ new.date = q.date /\ new.todo = q.todo
    BY <1>0 DEF Request
  <2>3. req' = [req EXCEPT ![p] = new]
    BY <1>0, <1>1
  <2> HIDE DEF new, q
  <2>4. ReqOK(p, new)
    BY <1>0, <2>2 DEF ReqOK, FlowOps, FlowKeys, FlowData, Addressed, WritePcs, CommitPcs
  <2> QED BY <1>0, <2>1, <2>3, <2>4, StillOK
<1>2. ASSUME q.purge = {}, NEW pc \in {"readback", "extend"},
             req' = [req EXCEPT ![p].pc = pc], pc = "readback" => q.op = "bundle",
             pc = "extend" => q.op \in {"addsig", "signed"} /\ q.root # NoParent
      PROVE  Moves(p)
  <2> DEFINE new == [q EXCEPT !.pc = pc]
  <2>1. new \in Request
    BY <1>0, <1>2 DEF Request, Pcs
  <2>2. /\ new.pc = pc /\ new.op = q.op /\ new.by = q.by /\ new.doc = q.doc
        /\ new.root = q.root /\ new.durable = q.durable /\ new.purge = {}
        /\ new.date = q.date /\ new.todo = q.todo
    BY <1>0, <1>2 DEF Request
  <2>3. req' = [req EXCEPT ![p] = new]
    BY <1>0, <1>2
  <2>a. /\ pc = "readback" => q.op = "bundle"
        /\ pc = "extend" => q.op \in {"addsig", "signed"} /\ q.root # NoParent
    BY <1>2
  <2> HIDE DEF new, q
  <2>4. FlowOps(new) /\ FlowKeys(new)
    BY <1>0, <2>2, <2>a DEF ReqOK, FlowOps, FlowKeys, WritePcs, CommitPcs
  <2>5. FlowData(p, new) /\ Addressed(new)
    BY <1>0, <2>2, <2>a DEF ReqOK, FlowData, Addressed, WritePcs, CommitPcs
  <2> QED BY <1>0, <2>1, <2>3, <2>4, <2>5, StillOK DEF ReqOK
<1>3. CASE Answer(p, "ok")
  BY <1>0, <1>3, AnswerMoves DEF Results
<1>4. q.op = "signed" => q.root # NoParent
  BY <1>0 DEF ReqOK, Addressed, DocIds, NoParent
<1> QED BY <1>1, <1>2, <1>3, <1>4 DEF PurgeStep

\* The committed row is read back.
LEMMA ReadBackMoves ==
    ASSUME ControlInv, NEW p \in Reqs, ReadBack(p)
    PROVE  Moves(p)
<1> DEFINE q == req[p]
           new == [q EXCEPT !.pc = "extend"]
<1>0. /\ q \in Request /\ ReqOK(p, q) /\ q.pc = "readback" /\ UNCHANGED metaVars
      /\ req \in [Reqs -> Request]
  BY ReqFacts DEF ReadBack
<1>1. CASE Answer(p, "not_found") \/ Answer(p, "ok")
  BY <1>0, <1>1, AnswerMoves DEF Results
<1>2. CASE q.op = "signed" /\ req' = [req EXCEPT ![p].pc = "extend"]
  <2>1. new \in Request
    BY <1>0 DEF Request, Pcs
  <2>2. /\ new.pc = "extend" /\ new.op = "signed" /\ new.by = q.by /\ new.doc = q.doc
        /\ new.root = q.root /\ new.durable = q.durable /\ new.purge = q.purge
        /\ new.date = q.date /\ new.todo = q.todo
    BY <1>0, <1>2 DEF Request
  <2>3. req' = [req EXCEPT ![p] = new]
    BY <1>0, <1>2
  <2>4. q.root \in DocIds /\ Known(q.root) /\ q.root # NoParent
    BY <1>0, <1>2 DEF ReqOK, Addressed, DocIds, NoParent
  <2> HIDE DEF new
  <2>5. FlowOps(new) /\ FlowKeys(new)
    BY <1>0, <2>2, <2>4 DEF ReqOK, FlowOps, FlowKeys, WritePcs, CommitPcs
  <2>6. FlowData(p, new) /\ Addressed(new)
    BY <1>0, <1>2, <2>2, <2>4 DEF ReqOK, FlowData, Addressed, WritePcs, CommitPcs
  <2> QED BY <1>0, <2>1, <2>3, <2>5, <2>6, StillOK DEF ReqOK
<1> QED BY <1>1, <1>2 DEF ReadBack

----------------------------------------------------------------------------
(* The service as a client of the metadata layer.                          *)

\* The key a commit writes into its row is one of the request's own two.
LEMMA CommitArgs ==
    ASSUME ControlInv, NEW p \in Reqs, req[p].pc \in CommitPcs
    PROVE  /\ RefOf(p) \in Refs /\ RefOf(p) # NoRef
           /\ req[p].by \in Callers /\ req[p].data \in Hashes /\ req[p].exp \in Hashes
           /\ req[p].srcs \in SUBSET DocIds
<1>1. req[p] \in Request /\ ReqOK(p, req[p])
  BY ReqFacts
<1>2. req[p].n \in {1, 2} /\ req[p].by \in Callers
  BY <1>1 DEF ReqOK, FlowKeys, FlowOps, Request, CommitPcs
<1>3. RefOf(p) \in Refs
  BY <1>2, ServiceAssumption DEF RefOf
<1> QED BY <1>1, <1>2, <1>3, ServiceAssumption, MetaAssumption DEF Request

\* What Ingest hands to Insert is what the general client may hand to it.
LEMMA IngestArgs ==
    ASSUME ControlInv, NEW p \in Reqs, req[p].pc = "insert"
    PROVE  InsertInput(p) \in InsertInputs(req[p].by)
<1> DEFINE q == req[p]
           in == InsertInput(p)
<1>0. /\ q \in Request /\ ReqOK(p, q) /\ now \in Nat
      /\ RefOf(p) \in Refs /\ q.by \in Callers /\ q.data \in Hashes
  BY ReqFacts, CommitArgs DEF CommitPcs, TypeOK
<1>1. Writes(q.op, "insert")
  BY <1>0 DEF ReqOK, FlowOps, WritePcs, CommitPcs
<1>2. q.op \in {"upload", "complete", "signed"}
  BY <1>1 DEF Writes
<1>3. q.kind \in Kinds /\ (q.durable => q.op = "upload" /\ q.by \in Products)
      /\ q.durable \in BOOLEAN /\ q.date \in {NoDate} \cup 1..(now + 1)
  BY <1>0 DEF ReqOK, FlowData, Request
<1>4. CASE q.op = "upload"
  <2>1. in = [owner |-> q.by, tenant |-> IF q.durable THEN TenantOf[q.by] ELSE NoTenant,
              kind |-> q.kind, parent |-> NoParent, ref |-> RefOf(p), hash |-> q.data,
              status |-> IF q.kind = "source" THEN "received" ELSE "signed",
              until |-> IF q.durable THEN q.date ELSE now + TTL]
    BY <1>4 DEF InsertInput, RetentionFor
  <2> DEFINE t == IF q.durable THEN TenantOf[q.by] ELSE NoTenant
             u == IF q.durable THEN q.date ELSE now + TTL
             dates == IF q.durable THEN {NoDate} \cup 1..(now + 1) ELSE {now + TTL}
  <2>2. u \in dates
    BY <1>3
  <2>3. in \in Uploads(q.by, t, dates)
    <3> HIDE DEF t, u, dates
    <3>1. CASE q.kind = "source"
      <4>1. in = [owner |-> q.by, tenant |-> t, kind |-> "source", parent |-> NoParent,
                  ref |-> RefOf(p), hash |-> q.data, status |-> "received", until |-> u]
        BY <2>1, <3>1 DEF t, u
      <4> HIDE DEF in
      <4> QED BY <1>0, <2>2, <4>1 DEF Uploads
    <3>2. CASE q.kind \in {"container", "pdf"}
      <4>1. in = [owner |-> q.by, tenant |-> t, kind |-> q.kind, parent |-> NoParent,
                  ref |-> RefOf(p), hash |-> q.data, status |-> "signed", until |-> u]
        BY <2>1, <3>2 DEF t, u
      <4> HIDE DEF in
      <4> QED BY <1>0, <2>2, <3>2, <4>1 DEF Uploads
    <3> QED BY <1>3, <3>1, <3>2 DEF Kinds
  <2>4. CASE q.durable
    <3>1. in \in Uploads(q.by, TenantOf[q.by], {NoDate} \cup 1..(now + 1))
      BY <2>3, <2>4
    <3> QED BY <1>3, <2>4, <3>1 DEF InsertInputs
  <2>5. CASE ~q.durable
    <3>1. in \in Uploads(q.by, NoTenant, {now + TTL})
      BY <2>3, <2>5
    <3> QED BY <3>1 DEF InsertInputs
  <2> QED BY <2>4, <2>5
<1>5. CASE q.op \in {"complete", "signed"}
  <2> DEFINE k == IF q.op = "complete" THEN "container" ELSE "pdf"
             par == IF q.op = "complete" THEN q.doc ELSE q.root
  <2>1. in = [owner |-> q.by, tenant |-> NoTenant, kind |-> k, parent |-> par,
              ref |-> RefOf(p), hash |-> q.data, status |-> "signed",
              until |-> now + TTL]
    BY <1>3, <1>5 DEF InsertInput, RetentionFor
  <2>2. /\ par \in DocIds /\ rows[par].status # "unused"
        /\ k = "container" => rows[par].kind # "container"
        /\ k \in {"container", "pdf"}
    <3>1. q.then = "insert"
      BY <1>0 DEF ReqOK, FlowOps, CommitPcs
    <3>2. CASE q.op = "complete"
      BY <1>0, <3>1, <3>2 DEF ReqOK, Addressed, Known
    <3>3. CASE q.op = "signed"
      BY <1>0, <3>1, <3>3 DEF ReqOK, Addressed, Known, WritePcs, CommitPcs
    <3> QED BY <1>5, <3>2, <3>3
  <2> HIDE DEF k, par, in
  <2>3. in \in [owner: {q.by}, tenant: {NoTenant}, kind: {"container", "pdf"},
                parent: DocIds, ref: Refs, hash: Hashes, status: {"signed"},
                until: {now + TTL}]
    BY <1>0, <2>1, <2>2
  <2>4. in.parent = par /\ in.kind = k
    BY <2>1
  <2>5. in \in SignedForms(q.by)
    BY <2>2, <2>3, <2>4 DEF SignedForms
  <2> QED BY <2>5 DEF InsertInputs, in
<1> QED BY <1>2, <1>4, <1>5

\* Every commit of a request is a call the general client makes.
LEMMA CommitIsMeta ==
    ASSUME ControlInv, NEW p \in Reqs, CommitRows(p)
    PROVE  MetaNext
<1> DEFINE q == req[p]
<1>0. q \in Request /\ ReqOK(p, q) /\ q.pc \in CommitPcs
  BY ReqFacts DEF CommitRows, CommitPcs
<1>1. /\ RefOf(p) \in Refs /\ q.by \in Callers /\ q.data \in Hashes /\ q.exp \in Hashes
      /\ q.srcs \in SUBSET DocIds
  BY <1>0, CommitArgs
<1>2. q.pc = q.then /\ Writes(q.op, q.then)
  BY <1>0 DEF ReqOK, FlowOps, WritePcs
<1>3. CASE q.pc = "insert" /\ \E d \in DocIds : Insert(d, InsertInput(p))
  <2>1. InsertInput(p) \in InsertInputs(q.by)
    BY <1>3, IngestArgs
  <2>2. InsertAny
    BY <1>1, <1>3, <2>1 DEF InsertAny, Insert
  <2> QED BY <2>2, ServiceAssumption DEF MetaNext, LifeNext, AllProcs
<1>4. CASE q.pc = "replace" /\ ReplaceContainerBlob(q.doc, q.exp, RefOf(p), q.data)
  <2>1. q.doc \in DocIds
    BY <1>0, <1>2, <1>4 DEF ReqOK, Addressed, Writes
  <2>2. ReplaceAny
    BY <1>1, <1>4, <2>1 DEF ReplaceAny
  <2> QED BY <2>2, ServiceAssumption DEF MetaNext, RewriteNext, AllProcs
<1>5. CASE q.pc = "bundle" /\ \E d \in DocIds : Bundle(d, q.by, q.srcs, RefOf(p), q.data)
  <2>1. BundleAny
    BY <1>1, <1>5 DEF BundleAny
  <2> QED BY <2>1, ServiceAssumption DEF MetaNext, LifeNext, AllProcs
<1>6. CASE /\ q.pc = "rebundle"
           /\ Rebundle(q.root, q.by, q.exp, q.srcs, RefOf(p), q.data)
  <2>1. q.root \in DocIds
    BY <1>0, <1>2, <1>6 DEF ReqOK, Addressed, Writes
  <2>2. RebundleAny
    BY <1>1, <1>6, <2>1 DEF RebundleAny
  <2> QED BY <2>2, ServiceAssumption DEF MetaNext, LifeNext, AllProcs
<1> QED BY <1>3, <1>4, <1>5, <1>6 DEF CommitRows

\* A request that the old rows admit moves on while the rows change.
LEMMA StepOK ==
    ASSUME ControlInv, [MetaNext]_metaVars, now' \in Nat, now <= now',
           NEW p \in Reqs, NEW q \in Request, ReqOK(p, q), req' = [req EXCEPT ![p] = q]
    PROVE  Moves(p)
<1>1. TypeOK /\ now \in Nat
  BY DEF ControlInv, ServiceTypeOK, TypeOK
<1>2. RowStep
  BY <1>1, EveryRowStep
<1>3. ReqOK(p, q)'
  BY <1>1, <1>2, StaysOK
<1> QED BY <1>3 DEF Moves

\* The clock never runs back.
LEMMA ClockForward ==
    ASSUME TypeOK, [MetaNext]_metaVars
    PROVE  now' \in Nat /\ now <= now'
<1>1. TypeOK'
  BY TypeInvariance
<1>2. ASSUME now' = now \/ now' = now + 1 PROVE now <= now'
  BY <1>2 DEF TypeOK
<1>3. now' = now \/ now' = now + 1
  BY DEF MetaNext, LifeNext, RewriteNext, HoldNext, SweepRetention, SweepHistory,
         InsertAny, Insert,
         BundleAny, Bundle, RebundleAny, Rebundle, Grant, ExtendRetention, RemoveAccess,
         DeleteHistoryChain, SetLegalHold, Tick, ReplaceAny, ReplaceContainerBlob,
         SetResultFreeze, metaVars
<1> QED BY <1>1, <1>2, <1>3 DEF TypeOK

\* A commit that stands takes the request to its clean-up or its read-back.
LEMMA CommittedOK ==
    ASSUME ControlInv, NEW p \in Reqs, CommitRows(p), NEW d \in DocIds, Known(d)',
           NEW refs \in SUBSET Refs, NEW pc \in {"purge", "readback"},
           pc = "purge" => req[p].pc # "insert",
           pc = "readback" => req[p].pc = "insert" /\ refs = {},
           NEW new, new = [req[p] EXCEPT !.pc = pc, !.purge = refs, !.doc = d],
           req' = [req EXCEPT ![p] = new]
    PROVE  Moves(p)
<1> DEFINE q == req[p]
<1>0. q \in Request /\ ReqOK(p, q) /\ q.pc \in CommitPcs /\ TypeOK
  BY ReqFacts DEF CommitRows, CommitPcs
<1>1. [MetaNext]_metaVars
  BY CommitIsMeta
<1>2. RowStep /\ now \in Nat /\ now' \in Nat /\ now <= now'
  BY <1>0, <1>1, EveryRowStep, ClockForward DEF TypeOK
<1>a. PICK c : c = req[p]
  OBVIOUS
<1>b. c \in Request /\ ReqOK(p, c) /\ c.pc \in CommitPcs
      /\ new = [c EXCEPT !.pc = pc, !.purge = refs, !.doc = d]
      /\ (pc = "purge" => c.pc # "insert") /\ (pc = "readback" => c.pc = "insert" /\ refs = {})
  BY <1>0, <1>a
<1>3. ReqOK(p, c)'
  BY <1>2, <1>b, StaysOK
<1>4. new \in Request
  <2>1. d \in 0..MaxDocs /\ pc \in Pcs
    BY MetaAssumption DEF DocIds, Pcs
  <2> QED BY <1>b, <2>1 DEF Request
<1>5. /\ new.pc = pc /\ new.op = c.op /\ new.by = c.by /\ new.doc = d
      /\ new.root = c.root /\ new.durable = c.durable /\ new.purge = refs
      /\ new.date = c.date /\ new.todo = c.todo
  BY <1>b DEF Request
<1>6. Writes(c.op, c.pc)
  BY <1>b DEF ReqOK, FlowOps, WritePcs
<1>7. FlowOps(new)' /\ FlowKeys(new)'
  BY <1>b, <1>3, <1>5, <1>6 DEF ReqOK, FlowOps, FlowKeys, WritePcs, CommitPcs, Writes
<1>8. FlowData(p, new)'
  BY <1>3, <1>5 DEF ReqOK, FlowData, WritePcs, CommitPcs
<1>9. Addressed(new)'
  BY <1>b, <1>3, <1>5 DEF ReqOK, Addressed, WritePcs, CommitPcs
<1> QED BY <1>4, <1>7, <1>8, <1>9 DEF Moves, ReqOK

\* The references of rows are object keys.
LEMMA RefsInTyped ==
    ASSUME ControlInv, NEW D \in SUBSET DocIds
    PROVE  RefsIn(D) \in SUBSET Refs
BY RowBytes DEF RefsIn, Row

\* An insert, a swap, a bundle, an edit of one: committed or refused.
LEMMA InsertStepMoves ==
    ASSUME ControlInv, NEW p \in Reqs, InsertStep(p)
    PROVE  [MetaNext]_metaVars /\ Moves(p)
<1> DEFINE q == req[p]
           in == InsertInput(p)
<1>0. q \in Request /\ ReqOK(p, q) /\ q.pc = "insert" /\ req \in [Reqs -> Request]
  BY ReqFacts DEF InsertStep
<1>1. ASSUME NEW d \in DocIds, Insert(d, in),
             req' = [req EXCEPT ![p].pc = "readback", ![p].doc = d]
      PROVE  [MetaNext]_metaVars /\ Moves(p)
  <2>1. CommitRows(p)
    BY <1>0, <1>1 DEF CommitRows
  <2>2. Known(d)'
    <3>1. in.status \in {"received", "signed"}
      BY DEF InsertInput
    <3>2. rows'[d] = NewRow(in)
      BY <1>1, ReqFacts DEF Insert, TypeOK
    <3> QED BY <3>1, <3>2 DEF NewRow, Known
  <2> DEFINE new == [q EXCEPT !.pc = "readback", !.purge = {}, !.doc = d]
  <2>3. req' = [req EXCEPT ![p] = new]
    <3>1. q.purge = {}
      BY <1>0 DEF ReqOK, FlowKeys
    <3>2. new = [q EXCEPT !.pc = "readback", !.doc = d]
      BY <1>0, <3>1 DEF Request
    <3> QED BY <1>0, <1>1, <3>2
  <2>4. Moves(p)
    BY <1>0, <2>1, <2>2, <2>3, CommittedOK
  <2> QED BY <2>1, <2>4, CommitIsMeta
<1>2. CASE /\ InsertResult(in.kind, in.parent) # "ok"
           /\ Refused(p, InsertResult(in.kind, in.parent)) /\ UNCHANGED metaVars
  <2>1. InsertResult(in.kind, in.parent) = "chain_advanced" /\ in.parent # NoParent
    BY <1>2 DEF InsertResult
  <2>2. q.op # "upload"
    BY <2>1 DEF InsertInput
  <2>3. InsertResult(in.kind, in.parent) \in Reasons(q)
    BY <2>1, <2>2 DEF Reasons, Results
  <2> QED BY <1>0, <1>2, <2>3, RefusedMoves DEF CommitPcs
<1> QED BY <1>1, <1>2 DEF InsertStep

\* The swap of a document's bytes.
LEMMA ReplaceStepMoves ==
    ASSUME ControlInv, NEW p \in Reqs, ReplaceStep(p)
    PROVE  [MetaNext]_metaVars /\ Moves(p)
<1> DEFINE q == req[p]
           refs == {rows[q.doc].ref} \ {NoRef}
<1>0. q \in Request /\ ReqOK(p, q) /\ q.pc = "replace" /\ req \in [Reqs -> Request]
  BY ReqFacts DEF ReplaceStep
<1>1. q.op \in {"complete", "addsig", "signed", "archive"} /\ q.doc \in DocIds
  BY <1>0 DEF ReqOK, Addressed, FlowOps, WritePcs, CommitPcs, Writes
<1>2. CASE ReplaceContainerBlob(q.doc, q.exp, RefOf(p), q.data) /\ Committed(p, refs, q.doc)
  <2>1. CommitRows(p)
    BY <1>0, <1>2 DEF CommitRows
  <2>2. PICK d : d = q.doc
    OBVIOUS
  <2>3. rows'[d].status = "signed" /\ d \in DocIds
    BY <1>1, <1>2, <2>2, ReqFacts, RowTypes DEF ReplaceContainerBlob, TypeOK, Row
  <2>4. Known(d)'
    BY <2>3 DEF Known
  <2>5. refs \in SUBSET Refs
    BY <1>1, RowBytes DEF Row
  <2> DEFINE new == [q EXCEPT !.pc = "purge", !.purge = refs, !.doc = d]
  <2>6. req' = [req EXCEPT ![p] = new]
    BY <1>0, <1>2, <2>2 DEF Committed
  <2> HIDE DEF refs
  <2>7. Moves(p)
    BY <1>0, <2>1, <2>3, <2>4, <2>5, <2>6, CommittedOK
  <2> QED BY <2>1, <2>7, CommitIsMeta
<1>3. CASE /\ ReplaceResult(q.doc, q.exp) # "ok"
           /\ Refused(p, ReplaceResult(q.doc, q.exp)) /\ UNCHANGED metaVars
  <2>1. ReplaceResult(q.doc, q.exp) \in Reasons(q)
    BY <1>1, <1>3 DEF ReplaceResult, Reasons, Results
  <2> QED BY <1>0, <1>3, <2>1, RefusedMoves DEF CommitPcs
<1> QED BY <1>2, <1>3 DEF ReplaceStep

\* The commit of a bundle.
LEMMA BundleStepMoves ==
    ASSUME ControlInv, NEW p \in Reqs, BundleStep(p)
    PROVE  [MetaNext]_metaVars /\ Moves(p)
<1> DEFINE q == req[p]
<1>0. q \in Request /\ ReqOK(p, q) /\ q.pc = "bundle" /\ req \in [Reqs -> Request]
  BY ReqFacts DEF BundleStep
<1>1. q.op = "bundle" /\ q.srcs \in SUBSET DocIds
  BY <1>0 DEF ReqOK, FlowOps, WritePcs, CommitPcs, Writes, Request
<1>2. ASSUME NEW d \in DocIds, Bundle(d, q.by, q.srcs, RefOf(p), q.data),
             Committed(p, RefsIn(q.srcs), d)
      PROVE  [MetaNext]_metaVars /\ Moves(p)
  <2> DEFINE refs == RefsIn(q.srcs)
             new == [q EXCEPT !.pc = "purge", !.purge = refs, !.doc = d]
  <2>1. CommitRows(p)
    BY <1>0, <1>2 DEF CommitRows
  <2>2. Known(d)'
    BY <1>2, ReqFacts DEF Bundle, NewRow, Known
  <2>3. refs \in SUBSET Refs
    BY <1>1, RefsInTyped
  <2>4. req' = [req EXCEPT ![p] = new]
    BY <1>0, <1>2 DEF Committed
  <2> HIDE DEF refs
  <2>5. Moves(p)
    BY <1>0, <2>1, <2>2, <2>3, <2>4, CommittedOK
  <2> QED BY <2>1, <2>5, CommitIsMeta
<1>3. ASSUME NEW res \in AbsorbErrors(q.srcs, q.by), Refused(p, res), UNCHANGED metaVars
      PROVE  [MetaNext]_metaVars /\ Moves(p)
  <2>1. res \in Reasons(q)
    BY <1>1, <1>3 DEF AbsorbErrors, AbsorbResult, Reasons, Results
  <2> QED BY <1>0, <1>3, <2>1, RefusedMoves DEF CommitPcs
<1> QED BY <1>2, <1>3 DEF BundleStep

\* The commit of an edited bundle.
LEMMA RebundleStepMoves ==
    ASSUME ControlInv, NEW p \in Reqs, RebundleStep(p)
    PROVE  [MetaNext]_metaVars /\ Moves(p)
<1> DEFINE q == req[p]
<1>0. q \in Request /\ ReqOK(p, q) /\ q.pc = "rebundle" /\ req \in [Reqs -> Request]
  BY ReqFacts DEF RebundleStep
<1>1. q.op = "rebundle" /\ q.root \in DocIds /\ q.srcs \in SUBSET DocIds
  BY <1>0 DEF ReqOK, FlowOps, Addressed, WritePcs, CommitPcs, Writes, Request
<1>2. CASE /\ Rebundle(q.root, q.by, q.exp, q.srcs, RefOf(p), q.data)
           /\ Committed(p, RefsIn(q.srcs \cup {q.root}), q.root)
  <2>1. CommitRows(p)
    BY <1>0, <1>2 DEF CommitRows
  <2>2. PICK d : d = q.root
    OBVIOUS
  <2> DEFINE refs == RefsIn(q.srcs \cup {d})
             new == [q EXCEPT !.pc = "purge", !.purge = refs, !.doc = d]
  <2>3. d \in DocIds /\ Known(d)
    <3>1. Stored(q.root)
      BY <1>2 DEF Rebundle, RebundleErrors
    <3> QED BY <1>1, <2>2, <3>1 DEF Stored, Known
  <2>4. Known(d)'
    BY <2>1, <2>3, KnownStep, CommitIsMeta, EveryRowStep, ReqFacts
  <2>5. refs \in SUBSET Refs
    BY <1>1, <2>3, RefsInTyped
  <2>6. req' = [req EXCEPT ![p] = new]
    BY <1>0, <1>2, <2>2 DEF Committed
  <2> HIDE DEF refs
  <2>7. Moves(p)
    BY <1>0, <2>1, <2>3, <2>4, <2>5, <2>6, CommittedOK
  <2> QED BY <2>1, <2>7, CommitIsMeta
<1>3. ASSUME NEW res \in RebundleErrors(q.root, q.by, q.exp, q.srcs),
             Refused(p, res), UNCHANGED metaVars
      PROVE  [MetaNext]_metaVars /\ Moves(p)
  <2>1. res \in Reasons(q)
    BY <1>1, <1>3 DEF RebundleErrors, AbsorbErrors, AbsorbResult, Reasons, Results
  <2> QED BY <1>0, <1>3, <2>1, RefusedMoves DEF CommitPcs
<1> QED BY <1>2, <1>3 DEF RebundleStep

\* A commit whose reply is lost.
LEMMA ReplyLostMoves ==
    ASSUME ControlInv, NEW p \in Reqs, ReplyLost(p)
    PROVE  [MetaNext]_metaVars /\ Moves(p)
<1> DEFINE q == req[p]
           new == [q EXCEPT !.pc = "rollback", !.out = "error"]
<1>0. /\ q \in Request /\ ReqOK(p, q) /\ req \in [Reqs -> Request] /\ TypeOK
      /\ CommitRows(p) /\ q.pc \in CommitPcs
  BY ReqFacts DEF ReplyLost, CommitRows, CommitPcs
<1>1. [MetaNext]_metaVars
  BY <1>0, CommitIsMeta
<1>2. "error" \in Reasons(q)
  BY DEF Reasons, Results
<1>3. new \in Request /\ ReqOK(p, new)
  BY <1>0, <1>2, RefusedOK
<1>4. req' = [req EXCEPT ![p] = new]
  BY <1>0 DEF ReplyLost, Refused
<1> QED BY <1>0, <1>1, <1>3, <1>4, ClockForward, StepOK

\* The rolling extension.
LEMMA ExtendMoves ==
    ASSUME ControlInv, NEW p \in Reqs, Extend(p)
    PROVE  [MetaNext]_metaVars /\ Moves(p)
<1> DEFINE q == req[p]
<1>0. /\ q \in Request /\ ReqOK(p, q) /\ req \in [Reqs -> Request] /\ TypeOK
      /\ q.pc = "extend"
  BY ReqFacts DEF Extend
<1>1. q.root \in DocIds /\ q.by \in Callers
  BY <1>0, MetaAssumption DEF ReqOK, FlowOps, Request, DocIds, NoParent
<1>2. [MetaNext]_metaVars
  <2>1. CASE ExtendRetention(q.root, q.by, now + TTL)
    BY <1>1, <2>1, ServiceAssumption DEF MetaNext, LifeNext, AllProcs
  <2> QED BY <2>1 DEF Extend
<1>3. /\ Answered(q, "ok") \in Request /\ ReqOK(p, Answered(q, "ok"))
      /\ req' = [req EXCEPT ![p] = Answered(q, "ok")]
  BY <1>0, AnsweredType, AnsweredOK DEF Results, Extend, Answer
<1> QED BY <1>0, <1>2, <1>3, ClockForward, StepOK

\* store.RemoveAccess.
LEMMA RemoveMoves ==
    ASSUME ControlInv, NEW p \in Reqs, Remove(p)
    PROVE  [MetaNext]_metaVars /\ Moves(p)
<1> DEFINE q == req[p]
<1>0. /\ q \in Request /\ ReqOK(p, q) /\ req \in [Reqs -> Request] /\ TypeOK
      /\ q.pc = "remove"
  BY ReqFacts DEF Remove
<1>1. q.doc \in DocIds /\ q.by \in Callers /\ q.op = "delete"
  BY <1>0 DEF ReqOK, FlowOps, Addressed
<1>2. CASE RemoveAccess(q.doc, q.by) /\ Committed(p, RefsIn(PurgedBy(q.doc, q.by)), q.doc)
  <2> DEFINE refs == RefsIn(PurgedBy(q.doc, q.by))
             new == [q EXCEPT !.pc = "purge", !.purge = refs, !.doc = q.doc]
  <2>1. [MetaNext]_metaVars
    BY <1>1, <1>2, ServiceAssumption DEF MetaNext, LifeNext, AllProcs
  <2>2. refs \in SUBSET Refs
    BY RefsInTyped DEF PurgedBy, Members
  <2>3. req' = [req EXCEPT ![p] = new]
    BY <1>0, <1>2 DEF Committed
  <2> HIDE DEF refs
  <2>4. new \in Request
    BY <1>0, <2>2 DEF Request, Pcs
  <2>5. /\ new.pc = "purge" /\ new.op = "delete" /\ new.by = q.by /\ new.doc = q.doc
        /\ new.root = q.root /\ new.durable = q.durable
        /\ new.date = q.date /\ new.todo = q.todo
    BY <1>0, <1>1 DEF Request
  <2> HIDE DEF new
  <2>6. ReqOK(p, new)
    BY <1>0, <1>1, <2>5 DEF ReqOK, FlowOps, FlowKeys, FlowData, Addressed, WritePcs,
                            CommitPcs
  <2> QED BY <1>0, <2>1, <2>3, <2>4, <2>6, ClockForward, StepOK
<1>3. CASE /\ RemoveAccessResult(q.doc, q.by) # "ok"
           /\ Answer(p, RemoveAccessResult(q.doc, q.by)) /\ UNCHANGED metaVars
  <2>1. RemoveAccessResult(q.doc, q.by) \in Results
    BY DEF RemoveAccessResult, Results
  <2> QED BY <1>0, <1>3, <2>1, AnswerMoves
<1> QED BY <1>2, <1>3 DEF Remove

\* Whatever a request does, it moves on and calls the metadata layer properly.
LEMMA RequestMoves ==
    ASSUME ControlInv, SnapsGood, NEW p \in Reqs,
           Arrive(p) \/ ClientView(p) \/ Work(p) \/ Fail(p)
    PROVE  [MetaNext]_metaVars /\ Moves(p) /\ UNCHANGED <<sweeper, app>>
<1>1. CASE Arrive(p)
  <2>1. UNCHANGED metaVars /\ UNCHANGED <<sweeper, app>>
    BY <1>1 DEF Arrive, StartUpload, StartAssemble, StartOn, StartBundle, StartRebundle
  <2>2. Moves(p)
    BY <1>1, StartUploadMoves, StartAssembleMoves, StartOnMoves, StartBundleMoves,
       StartRebundleMoves DEF Arrive
  <2> QED BY <2>1, <2>2
<1>2. CASE ClientView(p)
  BY <1>2, ClientViewMoves DEF ClientView
<1>3. CASE GetRow(p)
  BY <1>3, GetRowMoves DEF GetRow
<1>4. CASE Fetch(p)
  BY <1>4, FetchMoves DEF Fetch
<1>5. CASE Resolve(p)
  BY <1>5, ResolveMoves DEF Resolve
<1>6. CASE Put(p)
  BY <1>6, PutMoves DEF Put
<1>7. CASE InsertStep(p)
  BY <1>7, InsertStepMoves DEF InsertStep
<1>8. CASE ReplaceStep(p)
  BY <1>8, ReplaceStepMoves DEF ReplaceStep
<1>9. CASE BundleStep(p)
  BY <1>9, BundleStepMoves DEF BundleStep
<1>10. CASE RebundleStep(p)
  BY <1>10, RebundleStepMoves DEF RebundleStep
<1>11. CASE Rollback(p)
  BY <1>11, RollbackMoves DEF Rollback
<1>12. CASE PurgeStep(p)
  BY <1>12, PurgeStepMoves DEF PurgeStep
<1>13. CASE ReadBack(p)
  BY <1>13, ReadBackMoves DEF ReadBack
<1>14. CASE Extend(p)
  BY <1>14, ExtendMoves DEF Extend
<1>15. CASE Remove(p)
  BY <1>15, RemoveMoves DEF Remove
<1>16. CASE StoreFails(p)
  BY <1>16, StoreFailsMoves DEF StoreFails
<1>17. CASE ReplyLost(p)
  BY <1>17, ReplyLostMoves DEF ReplyLost
<1>18. CASE Abort(p)
  BY <1>18, AbortMoves DEF Abort
<1> QED BY <1>1, <1>2, <1>3, <1>4, <1>5, <1>6, <1>7, <1>8, <1>9, <1>10, <1>11, <1>12,
           <1>13, <1>14, <1>15, <1>16, <1>17, <1>18 DEF Work, Fail

----------------------------------------------------------------------------
(* The retention task and everybody else.                                  *)

\* Steps of the retention task, the shutdown included.
Background == Sweep \/ SweepFails \/ SweepCrashes \/ Stop

Bystanders == GrantACL \/ ResultFreeze \/ DeleteHistory \/ Operator \/ Clock

\* The retention task keeps its cutoff behind the clock, lists object keys only,
\* and sweeps as the general client may.
LEMMA BackgroundOK ==
    ASSUME ControlInv, Background
    PROVE  /\ [MetaNext]_metaVars /\ UNCHANGED req
           /\ sweeper' \in SweeperState
           /\ sweeper'.cutoff <= now
           /\ sweeper'.pc # "destroy" => sweeper'.refs = {}
           /\ app' \in {"up", "closed", "stopping", "down"}
<1>0. /\ sweeper \in SweeperState /\ now \in Nat /\ sweeper.cutoff <= now
      /\ sweeper.pc # "destroy" => sweeper.refs = {}
      /\ app \in {"up", "closed", "stopping", "down"}
  BY DEF ControlInv, ServiceTypeOK, TypeOK, SweeperInv
<1>1. sweeper.cutoff \in 0..now
  BY <1>0 DEF SweeperState
<1>2. CASE SweepStart
  <2>1. sweeper.refs = {} /\ sweeper' = [sweeper EXCEPT !.pc = "sweep", !.cutoff = now]
    BY <1>0, <1>2 DEF SweepStart
  <2>2. /\ sweeper' \in SweeperState /\ sweeper'.cutoff = now /\ sweeper'.refs = {}
    BY <1>0, <2>1 DEF SweeperState
  <2> QED BY <1>0, <1>2, <2>2 DEF SweepStart
<1>3. CASE SweepBatch
  <2>1. PICK V \in SUBSET DocIds :
            /\ SweepRetention(sweeper.cutoff, V)
            /\ sweeper' = [sweeper EXCEPT !.pc = "destroy", !.refs = RefsIn(V),
                                          !.full = (Cardinality(V) = Batch)]
    BY <1>3 DEF SweepBatch
  <2>2. MetaNext
    BY <1>1, <2>1, ServiceAssumption DEF MetaNext, LifeNext, AllProcs
  <2>3. RefsIn(V) \in SUBSET Refs
    BY RefsInTyped
  <2>4. (Cardinality(V) = Batch) \in BOOLEAN
    OBVIOUS
  <2>5. sweeper' \in SweeperState
    BY <1>0, <2>1, <2>3, <2>4 DEF SweeperState
  <2>6. sweeper'.cutoff = sweeper.cutoff /\ sweeper'.pc = "destroy"
    BY <1>0, <2>1 DEF SweeperState
  <2> QED BY <1>0, <1>3, <2>2, <2>5, <2>6 DEF SweepBatch
<1>4. CASE SweepDestroy
  <2>1. ASSUME NEW r \in sweeper.refs, sweeper' = [sweeper EXCEPT !.refs = @ \ {r}]
        PROVE  /\ sweeper' \in SweeperState /\ sweeper'.cutoff = sweeper.cutoff
               /\ sweeper'.pc = sweeper.pc
    BY <1>0, <2>1 DEF SweeperState
  <2>2. ASSUME NEW pc \in {"sweep", "history", "idle"}, sweeper.refs = {},
               sweeper' = [sweeper EXCEPT !.pc = pc, !.full = FALSE]
        PROVE  /\ sweeper' \in SweeperState /\ sweeper'.cutoff = sweeper.cutoff
               /\ sweeper'.refs = {}
    BY <1>0, <2>2 DEF SweeperState
  <2> QED BY <1>0, <1>4, <2>1, <2>2 DEF SweepDestroy
<1>5. CASE HistoryBatch
  <2>1. PICK V \in SUBSET DocIds :
            /\ SweepHistory(sweeper.cutoff, V)
            /\ sweeper' = [sweeper EXCEPT
                  !.pc = IF Cardinality(V) = Batch THEN "history" ELSE "idle"]
    BY <1>5 DEF HistoryBatch
  <2>2. MetaNext
    BY <1>1, <2>1, ServiceAssumption DEF MetaNext, LifeNext, AllProcs
  <2>3. ASSUME NEW pc \in {"history", "idle"}, sweeper' = [sweeper EXCEPT !.pc = pc]
        PROVE  /\ sweeper' \in SweeperState /\ sweeper'.cutoff = sweeper.cutoff
               /\ sweeper'.refs = sweeper.refs
    BY <1>0, <2>3 DEF SweeperState
  <2>4. sweeper.refs = {}
    BY <1>0, <1>5 DEF HistoryBatch
  <2> QED BY <1>0, <1>5, <2>1, <2>2, <2>3, <2>4 DEF HistoryBatch
<1>6. CASE SweepFails
  <2>1. sweeper.refs = {}
    BY <1>0, <1>6 DEF SweepFails
  <2> QED BY <1>0, <1>6, <2>1 DEF SweepFails, SweeperState
<1>7. CASE SweepCrashes
  BY <1>0, <1>7 DEF SweepCrashes, SweeperState
<1>8. CASE Stop
  BY <1>0, <1>8 DEF Stop, CloseStore, StopTask, TaskStops
<1> QED BY <1>2, <1>3, <1>4, <1>5, <1>6, <1>7, <1>8 DEF Background, Sweep

\* Everybody else calls one procedure of the layer.
LEMMA BystandersOK ==
    ASSUME Bystanders
    PROVE  [MetaNext]_metaVars /\ UNCHANGED <<blobs, req, sweeper, app>>
<1>1. CASE GrantACL
  BY <1>1, ServiceAssumption DEF GrantACL, MetaNext, LifeNext, AllProcs
<1>2. CASE ResultFreeze
  BY <1>2, ServiceAssumption DEF ResultFreeze, MetaNext, RewriteNext, AllProcs
<1>3. CASE DeleteHistory
  BY <1>3, ServiceAssumption DEF DeleteHistory, MetaNext, LifeNext, AllProcs
<1>4. CASE Operator
  BY <1>4, ServiceAssumption DEF Operator, MetaNext, HoldNext, AllProcs
<1>5. CASE Clock
  BY <1>5 DEF Clock, MetaNext, LifeNext
<1> QED BY <1>1, <1>2, <1>3, <1>4, <1>5 DEF Bystanders

\* The steps of the service.
LEMMA NextSteps ==
    ASSUME [Next]_vars
    PROVE  \/ \E p \in Reqs : Arrive(p) \/ ClientView(p) \/ Work(p) \/ Fail(p)
           \/ Background \/ Bystanders \/ UNCHANGED vars
BY DEF Next, Background, Bystanders

\* The object store holds bytes under object keys, whoever writes or deletes.
LEMMA BlobsTyped ==
    ASSUME ControlInv, [Next]_vars
    PROVE  blobs' \in [Refs -> SUBSET Reqs]
<1>0. blobs \in [Refs -> SUBSET Reqs] /\ req \in [Reqs -> Request]
  BY DEF ControlInv, ServiceTypeOK
<1>1. ASSUME NEW r, DeleteBlob(r) PROVE blobs' \in [Refs -> SUBSET Reqs]
  BY <1>0, <1>1 DEF DeleteBlob
<1>2. ASSUME NEW p \in Reqs, Put(p) PROVE blobs' \in [Refs -> SUBSET Reqs]
  <2>1. req[p].data \in SUBSET Reqs
    BY <1>0 DEF Request
  <2> QED BY <1>0, <1>2, <2>1 DEF Put
<1>3. CASE UNCHANGED blobs
  BY <1>0, <1>3
<1>4. \/ UNCHANGED blobs \/ (\E p \in Reqs : Put(p)) \/ (\E r : DeleteBlob(r))
  <2>1. ASSUME NEW p \in Reqs, Arrive(p)
        PROVE  UNCHANGED blobs
    BY <2>1 DEF Arrive, StartUpload, StartAssemble, StartOn, StartBundle, StartRebundle
  <2>2. ASSUME NEW p \in Reqs, ClientView(p) \/ Work(p) \/ Fail(p)
        PROVE  UNCHANGED blobs \/ Put(p) \/ (\E r : DeleteBlob(r))
    BY <2>2 DEF ClientView, Work, Fail, GetRow, Fetch, Resolve, InsertStep, ReplaceStep,
                BundleStep, RebundleStep, Rollback, PurgeStep, ReadBack, Extend, Remove,
                StoreFails, ReplyLost, Abort
  <2>3. CASE Background
    BY <2>3 DEF Background, Sweep, SweepStart, SweepBatch, SweepDestroy, HistoryBatch,
                SweepFails, SweepCrashes, Stop, CloseStore, StopTask, TaskStops
  <2>4. CASE Bystanders
    BY <2>4, BystandersOK
  <2>5. CASE UNCHANGED vars
    BY <2>5 DEF vars
  <2> QED BY <2>1, <2>2, <2>3, <2>4, <2>5, NextSteps
<1> QED BY <1>1, <1>2, <1>3, <1>4

\* The step simulation: every step of the service is one of the general client of
\* the metadata layer, or leaves the layer alone.
LEMMA StepIsMeta ==
    ASSUME ControlInv, SnapsGood, [Next]_vars
    PROVE  [MetaNext]_metaVars
<1>1. CASE UNCHANGED vars
  BY <1>1 DEF vars, metaVars
<1> QED BY <1>1, NextSteps, RequestMoves, BackgroundOK, BystandersOK

\* The control part of the invariant is kept by every step.
LEMMA ControlStep ==
    ASSUME ControlInv, SnapsGood, [Next]_vars
    PROVE  ControlInv'
<1>1. [MetaNext]_metaVars /\ TypeOK /\ ChainInv
  BY StepIsMeta DEF ControlInv, ServiceTypeOK
<1>2. TypeOK' /\ ChainInv' /\ RowStep /\ now' \in Nat /\ now <= now'
  BY <1>1, TypeInvariance, ChainInvariance, EveryRowStep, ClockForward
<1>3. UNCHANGED req \/ \E p \in Reqs : Moves(p)
  <2>1. UNCHANGED vars => UNCHANGED req
    BY DEF vars
  <2> QED BY <2>1, NextSteps, RequestMoves, BackgroundOK, BystandersOK
<1>4. req' \in [Reqs -> Request] /\ RequestInv'
  BY <1>2, <1>3, MovesKeep
<1>5. /\ sweeper' \in SweeperState /\ sweeper'.cutoff <= now
      /\ sweeper'.pc # "destroy" => sweeper'.refs = {}
      /\ app' \in {"up", "closed", "stopping", "down"}
  <2>1. ASSUME UNCHANGED <<sweeper, app>>
        PROVE  /\ sweeper' \in SweeperState /\ sweeper'.cutoff <= now
               /\ sweeper'.pc # "destroy" => sweeper'.refs = {}
               /\ app' \in {"up", "closed", "stopping", "down"}
    BY <2>1 DEF ControlInv, ServiceTypeOK, SweeperInv
  <2>2. UNCHANGED vars => UNCHANGED <<sweeper, app>>
    BY DEF vars
  <2> QED BY <2>1, <2>2, NextSteps, RequestMoves, BackgroundOK, BystandersOK
<1>6. SweeperInv'
  <2>1. sweeper'.cutoff <= now'
    BY <1>1, <1>2, <1>5 DEF TypeOK, SweeperState
  <2> QED BY <1>5, <2>1 DEF SweeperInv
<1> QED BY <1>2, <1>4, <1>5, <1>6, BlobsTyped DEF ControlInv, ServiceTypeOK
=============================================================================
