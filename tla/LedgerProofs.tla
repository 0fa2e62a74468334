---------------------------- MODULE LedgerProofs ----------------------------
(***************************************************************************)
(* What callers are told, for every set of requests, documents and         *)
(* callers: the service implements DocumentLedger, a committed             *)
(* co-signature takes nothing out of a document, and an acknowledged one   *)
(* stays in it.                                                            *)
(*                                                                         *)
(* A request is open until the one step that commits its rows, applied     *)
(* until it is answered.  With every live row backed by the bytes of its   *)
(* hash, what readers get changes in that step and in sweeps only.         *)
(***************************************************************************)
EXTENDS CustodyProofs

\* A request under way whose effect is still to come, or has come.
OpenPcs == {"view", "get", "fetch", "resolve", "put", "rollback", "remove"} \cup CommitPcs
AppliedPcs == {"purge", "readback", "extend"}

\* How a request under way may go on: still open; answered with nothing done;
\* committed; its access removed; from there to the answer.
GoesOn(p) ==
    /\ UNCHANGED rows /\ req[p].pc \in OpenPcs
    /\ \/ req'[p].pc \in OpenPcs
       \/ /\ req'[p].pc = "done"
          /\ req'[p].out = "ok" => req[p].op \in {"read", "extract"}

Commits(p) ==
    /\ CommitRows(p) /\ req[p].pc \in CommitPcs
    /\ \/ /\ req'[p].pc \in AppliedPcs
          /\ req'[p].doc \in DocIds /\ rows'[req'[p].doc].hash = req[p].data
          /\ req[p].op \in {"complete", "addsig"} => rows'[req'[p].doc].status = "signed"
       \/ "lost_reply" \in Faults /\ req'[p].pc = "rollback"

Leaves(p) ==
    /\ req[p].pc = "remove" /\ req[p].op = "delete" /\ req'[p].pc = "purge"
    /\ req[p].doc \in DocIds /\ RemoveAccess(req[p].doc, req[p].by)

Settles(p) ==
    /\ req[p].pc \in AppliedPcs /\ req'[p].doc = req[p].doc
    /\ \/ req'[p].pc \in AppliedPcs
       \/ req'[p].pc = "done" /\ req'[p].out \in {"ok", "not_found", "error"}
    /\ UNCHANGED rows \/ \E d \in DocIds : \E c, u : ExtendRetention(d, c, u)

Goes(p) ==
    /\ req'[p].op = req[p].op
    /\ GoesOn(p) \/ Commits(p) \/ Leaves(p) \/ Settles(p)

----------------------------------------------------------------------------
(* The calls of a request.                                                 *)

\* A request that changes place, still open.
LEMMA OnGoes ==
    ASSUME ControlInv, UNCHANGED rows, NEW p \in Reqs, req[p].pc \in OpenPcs,
           NEW q, req' = [req EXCEPT ![p] = q], q.op = req[p].op, q.pc \in OpenPcs
    PROVE  Goes(p)
<1>1. req'[p] = q
  BY ReqFacts
<1> QED BY <1>1 DEF Goes, GoesOn

\* A request that is answered before anything was done.
LEMMA AnswerGoes ==
    ASSUME ControlInv, UNCHANGED rows, NEW p \in Reqs, req[p].pc \in OpenPcs,
           NEW out \in Results, Answer(p, out),
           out = "ok" => req[p].op \in {"read", "extract"}
    PROVE  Goes(p)
<1>1. req'[p] = Answered(req[p], out) /\ req[p] \in Request
  BY ReqFacts DEF Answer
<1>2. req'[p].pc = "done" /\ req'[p].out = out /\ req'[p].op = req[p].op
  BY <1>1, AnsweredType
<1> QED BY <1>2 DEF Goes, GoesOn

\* A request that is answered after its effect.
LEMMA AnswerSettles ==
    ASSUME ControlInv, NEW p \in Reqs, req[p].pc \in AppliedPcs,
           UNCHANGED rows \/ \E d \in DocIds : \E c, u : ExtendRetention(d, c, u),
           NEW out \in {"ok", "not_found", "error"}, Answer(p, out)
    PROVE  Goes(p)
<1>1. req'[p] = Answered(req[p], out) /\ req[p] \in Request /\ out \in Results
  BY ReqFacts DEF Answer, Results
<1>2. /\ req'[p].pc = "done" /\ req'[p].out = out /\ req'[p].op = req[p].op
      /\ req'[p].doc = req[p].doc
  BY <1>1, AnsweredType
<1> QED BY <1>2 DEF Goes, Settles

\* The signing client's fetch.
LEMMA ClientViewGoes ==
    ASSUME ControlInv, NEW p \in Reqs, ClientView(p)
    PROVE  Goes(p)
<1> DEFINE data == blobs[rows[req[p].doc].ref] \cup {p}
           new == [req[p] EXCEPT !.pc = "get", !.data = data]
<1>0. /\ req[p] \in Request /\ req[p].pc \in OpenPcs /\ UNCHANGED rows
      /\ req \in [Reqs -> Request]
  BY ReqFacts DEF ClientView, metaVars, OpenPcs
<1>1. CASE Answer(p, "gone")
  BY <1>0, <1>1, AnswerGoes DEF Results
<1>2. CASE req' = [req EXCEPT ![p].pc = "get", ![p].data = data]
  <2>1. req' = [req EXCEPT ![p] = new]
    BY <1>0, <1>2
  <2>2. new.op = req[p].op /\ new.pc \in OpenPcs
    BY <1>0 DEF Request, OpenPcs
  <2> HIDE DEF new
  <2> QED BY <1>0, <2>1, <2>2, OnGoes
<1> QED BY <1>1, <1>2 DEF ClientView

\* store.Get.
LEMMA GetRowGoes ==
    ASSUME ControlInv, NEW p \in Reqs, GetRow(p)
    PROVE  Goes(p)
<1> DEFINE q == req[p]
           row == Clone(q.doc)
           new == AfterGet(p, row)
<1>0. q \in Request /\ q.pc \in OpenPcs /\ UNCHANGED rows
  BY ReqFacts DEF GetRow, metaVars, OpenPcs
<1>1. CASE Answer(p, "not_found")
  BY <1>0, <1>1, AnswerGoes DEF Results
<1>2. CASE req' = [req EXCEPT ![p] = new]
  <2> HIDE DEF row
  <2>1. ASSUME NEW out \in {"gone", "unprocessable"}, new = Answered(q, out)
        PROVE  Goes(p)
    <3>1. Answer(p, out) /\ out \in Results
      BY <1>2, <2>1 DEF Answer, Results
    <3> QED BY <1>0, <3>1, AnswerGoes
  <2>2. CASE q.op = "delete"
    <3> DEFINE del == [q EXCEPT !.pc = "remove"]
    <3>1. del.op = q.op /\ del.pc \in OpenPcs /\ new = del
      BY <1>0, <2>2 DEF AfterGet, Request, OpenPcs
    <3> HIDE DEF del, new
    <3> QED BY <1>0, <1>2, <3>1, OnGoes
  <2>3. CASE q.op = "signed"
    <3> DEFINE pc == IF row.kind = "pdf" THEN "resolve" ELSE "put"
               root == IF row.parent # NoParent THEN row.parent ELSE q.doc
               sgn == [q EXCEPT !.snap = row, !.root = root, !.pc = pc, !.then = "insert"]
    <3>1. new = sgn /\ pc \in OpenPcs
      BY <2>3 DEF AfterGet, ToSigned, OpenPcs
    <3> HIDE DEF pc, root
    <3>2. sgn.op = q.op /\ sgn.pc = pc
      BY <1>0 DEF Request
    <3> HIDE DEF sgn, new
    <3> QED BY <1>0, <1>2, <3>1, <3>2, OnGoes
  <2>4. CASE q.op = "archive"
    <3> DEFINE arc == [q EXCEPT !.exp = row.hash, !.pc = "put", !.then = "replace"]
    <3>1. arc.op = q.op /\ arc.pc \in OpenPcs
      BY <1>0 DEF Request, OpenPcs
    <3>2. new = arc \/ new = Answered(q, "unprocessable")
      BY <2>4 DEF AfterGet, ToArchived
    <3> HIDE DEF arc, new
    <3> QED BY <1>0, <1>2, <2>1, <3>1, <3>2, OnGoes
  <2>5. CASE q.op \notin {"delete", "signed", "archive"}
    <3> DEFINE con == [q EXCEPT !.snap = row, !.pc = "fetch"]
    <3>1. con.op = q.op /\ con.pc \in OpenPcs
      BY <1>0 DEF Request, OpenPcs
    <3>2. new = con \/ new = Answered(q, "gone")
      BY <2>5 DEF AfterGet, ToContent
    <3> HIDE DEF con, new
    <3> QED BY <1>0, <1>2, <2>1, <3>1, <3>2, OnGoes
  <2> QED BY <2>2, <2>3, <2>4, <2>5
<1> QED BY <1>1, <1>2 DEF GetRow

\* blob.Get: only reads end here with success.
LEMMA FetchGoes ==
    ASSUME ControlInv, NEW p \in Reqs, Fetch(p), req[p].snap.ref \in Refs
    PROVE  Goes(p)
<1> DEFINE bytes == blobs[req[p].snap.ref]
<1>0. /\ req[p].pc = "fetch" /\ req[p].pc \in OpenPcs /\ UNCHANGED rows
      /\ bytes \in SUBSET Reqs
  BY ReqFacts DEF Fetch, metaVars, OpenPcs
<1>1. CASE Answer(p, "gone")
  BY <1>0, <1>1, AnswerGoes DEF Results
<1>2. ASSUME NEW new \in AfterFetch(p, bytes), req' = [req EXCEPT ![p] = new]
      PROVE  Goes(p)
  <2>1. FetchLeads(p, new)
    BY <1>0, AfterFetchParts
  <2>2. ASSUME NEW out \in Results, new = Answered(req[p], out),
               out = "ok" => req[p].op \in {"read", "extract"}
        PROVE  Goes(p)
    BY <1>0, <1>2, <2>2, AnswerGoes DEF Answer
  <2>3. CASE new.pc \in {"put", "get"} /\ new.op = req[p].op
    BY <1>0, <1>2, <2>3, OnGoes DEF OpenPcs
  <2> QED BY <2>1, <2>2, <2>3 DEF FetchLeads
<1> QED BY <1>1, <1>2 DEF Fetch

\* The search for the chain's signed form.
LEMMA ResolveGoes ==
    ASSUME ControlInv, NEW p \in Reqs, Resolve(p)
    PROVE  Goes(p)
<1> DEFINE q == req[p]
<1>0. q \in Request /\ q.pc \in OpenPcs /\ UNCHANGED rows
  BY ReqFacts DEF Resolve, metaVars, OpenPcs
<1>1. CASE Answer(p, "not_found")
  BY <1>0, <1>1, AnswerGoes DEF Results
<1>2. ASSUME NEW h, req' = [req EXCEPT ![p] = [q EXCEPT !.doc = h, !.pc = "get"]]
      PROVE  Goes(p)
  <2> DEFINE new == [q EXCEPT !.doc = h, !.pc = "get"]
  <2>1. new.op = q.op /\ new.pc \in OpenPcs
    BY <1>0 DEF Request, OpenPcs
  <2>2. req' = [req EXCEPT ![p] = new]
    BY <1>2
  <2> HIDE DEF new
  <2> QED BY <1>0, <2>1, <2>2, OnGoes
<1>3. ASSUME NEW h, req' = [req EXCEPT ![p] = [q EXCEPT !.doc = h, !.exp = rows[h].hash,
                                                        !.pc = "put", !.then = "replace"]]
      PROVE  Goes(p)
  <2> DEFINE new == [q EXCEPT !.doc = h, !.exp = rows[h].hash, !.pc = "put",
                              !.then = "replace"]
  <2>1. new.op = q.op /\ new.pc \in OpenPcs
    BY <1>0 DEF Request, OpenPcs
  <2>2. req' = [req EXCEPT ![p] = new]
    BY <1>3
  <2> HIDE DEF new
  <2> QED BY <1>0, <2>1, <2>2, OnGoes
<1> QED BY <1>1, <1>2, <1>3 DEF Resolve

\* blob.Put.
LEMMA PutGoes ==
    ASSUME ControlInv, NEW p \in Reqs, Put(p)
    PROVE  Goes(p)
<1> DEFINE q == req[p]
           new == [q EXCEPT !.n = q.n + 1, !.pc = q.then]
<1>0. /\ q \in Request /\ req \in [Reqs -> Request] /\ q.pc \in OpenPcs /\ UNCHANGED rows
  BY ReqFacts DEF Put, metaVars, OpenPcs
<1>1. CASE Answer(p, "error")
  BY <1>0, <1>1, AnswerGoes DEF Results
<1>2. CASE req' = [req EXCEPT ![p].n = @ + 1, ![p].pc = req[p].then]
  <2>1. req' = [req EXCEPT ![p] = new]
    BY <1>0, <1>2
  <2>2. new.op = q.op /\ new.pc \in OpenPcs
    BY <1>0 DEF Request, OpenPcs
  <2> HIDE DEF new
  <2> QED BY <1>0, <2>1, <2>2, OnGoes
<1> QED BY <1>1, <1>2 DEF Put

\* A commit refused.
LEMMA RefusedGoes ==
    ASSUME ControlInv, UNCHANGED rows, NEW p \in Reqs, req[p].pc \in CommitPcs,
           NEW out, Refused(p, out)
    PROVE  Goes(p)
<1> DEFINE new == [req[p] EXCEPT !.pc = "rollback", !.out = out]
<1>0. req[p] \in Request /\ req \in [Reqs -> Request] /\ req[p].pc \in OpenPcs
  BY ReqFacts DEF OpenPcs
<1>1. req' = [req EXCEPT ![p] = new]
  BY <1>0 DEF Refused
<1>2. new.op = req[p].op /\ new.pc \in OpenPcs
  BY <1>0 DEF Request, OpenPcs
<1> HIDE DEF new
<1> QED BY <1>0, <1>1, <1>2, OnGoes

\* A commit that stands, and the row it wrote.
LEMMA CommitGoes ==
    ASSUME ControlInv, NEW p \in Reqs, CommitRows(p), req[p].pc \in CommitPcs,
           NEW pc \in {"purge", "readback"}, NEW purge, NEW d \in DocIds,
           req' = [req EXCEPT ![p] = [req[p] EXCEPT !.pc = pc, !.purge = purge, !.doc = d]],
           rows'[d].hash = req[p].data,
           req[p].op \in {"complete", "addsig"} => rows'[d].status = "signed"
    PROVE  Goes(p)
<1> DEFINE new == [req[p] EXCEPT !.pc = pc, !.purge = purge, !.doc = d]
<1>0. req[p] \in Request
  BY ReqFacts
<1>1. req'[p] = new
  BY ReqFacts
<1>2. new.op = req[p].op /\ new.pc = pc /\ new.doc = d
  BY <1>0 DEF Request
<1> HIDE DEF new
<1> QED BY <1>1, <1>2 DEF Goes, Commits, AppliedPcs

\* A commit that is followed by a purge.
LEMMA CommittedGoes ==
    ASSUME ControlInv, NEW p \in Reqs, CommitRows(p), req[p].pc \in CommitPcs,
           NEW refs, NEW d \in DocIds, Committed(p, refs, d), rows'[d].hash = req[p].data,
           req[p].op \in {"complete", "addsig"} => rows'[d].status = "signed"
    PROVE  Goes(p)
<1>1. req' = [req EXCEPT ![p] = [req[p] EXCEPT !.pc = "purge", !.purge = refs, !.doc = d]]
  BY ReqFacts DEF Committed
<1> QED BY <1>1, CommitGoes

\* The edited bundle is not among the files it absorbs.
LEMMA RebundleWrites ==
    ASSUME TypeOK, NEW d \in DocIds, NEW c, NEW exp, NEW srcs, NEW ref, NEW hash,
           Rebundle(d, c, exp, srcs, ref, hash)
    PROVE  /\ d \notin srcs /\ rows'[d].ref = ref /\ rows'[d].hash = hash
           /\ rows'[d].status = "received" /\ rows[d].status = "received"
           /\ rows[d].hash = exp
           /\ \A e \in DocIds \ {d} : rows'[e] = rows[e] \/ rows'[e] = Blank("erased")
<1>1. /\ rows[d].status = "received" /\ rows[d].kind = "container"
      /\ AbsorbErrors(srcs, c) = {} /\ rows[d].hash = exp
  BY DEF Rebundle, RebundleErrors
<1>2. d \notin srcs
  BY <1>1, AbsorbedStored DEF Bundleable
<1>3. rows[d] \in Row
  BY DEF TypeOK
<1> QED BY <1>1, <1>2, <1>3 DEF Rebundle, Row

\* An insert.
LEMMA InsertGoes ==
    ASSUME ControlInv, NEW p \in Reqs, InsertStep(p)
    PROVE  Goes(p)
<1>0. /\ req[p] \in Request /\ req \in [Reqs -> Request] /\ req[p].pc = "insert"
      /\ rows \in [DocIds -> Row] /\ req[p].pc \in CommitPcs
  BY ReqFacts DEF InsertStep, TypeOK, CommitPcs
<1>1. ASSUME NEW d \in DocIds, Insert(d, InsertInput(p)),
             req' = [req EXCEPT ![p].pc = "readback", ![p].doc = d]
      PROVE  Goes(p)
  <2>1. CommitRows(p)
    BY <1>0, <1>1 DEF CommitRows
  <2>2. /\ rows'[d].hash = req[p].data
        /\ req[p].op \in {"complete", "addsig"} => rows'[d].status = "signed"
    BY <1>0, <1>1 DEF Insert, NewRow, InsertInput
  <2>3. req' = [req EXCEPT ![p] = [req[p] EXCEPT !.pc = "readback", !.purge = req[p].purge,
                                                 !.doc = d]]
    BY <1>0, <1>1 DEF Request
  <2> QED BY <1>0, <2>1, <2>2, <2>3, CommitGoes
<1>2. ASSUME NEW out, Refused(p, out), UNCHANGED metaVars
      PROVE  Goes(p)
  BY <1>0, <1>2, RefusedGoes DEF metaVars
<1> QED BY <1>1, <1>2 DEF InsertStep

\* A swap.
LEMMA ReplaceGoes ==
    ASSUME ControlInv, NEW p \in Reqs, ReplaceStep(p)
    PROVE  Goes(p)
<1> DEFINE q == req[p]
<1>0. /\ q \in Request /\ q.pc = "replace" /\ rows \in [DocIds -> Row] /\ q.pc \in CommitPcs
      /\ ReqOK(p, q)
  BY ReqFacts DEF ReplaceStep, TypeOK, CommitPcs
<1>1. q.doc \in DocIds
  BY <1>0 DEF ReqOK, Addressed, FlowOps, WritePcs, CommitPcs, Writes
<1>2. CASE /\ ReplaceContainerBlob(q.doc, q.exp, RefOf(p), q.data)
           /\ Committed(p, {rows[q.doc].ref} \ {NoRef}, q.doc)
  <2>1. CommitRows(p)
    BY <1>0, <1>2 DEF CommitRows
  <2>2. rows'[q.doc].hash = q.data /\ rows'[q.doc].status = "signed"
    BY <1>0, <1>1, <1>2 DEF ReplaceContainerBlob, Row
  <2> QED BY <1>0, <1>1, <1>2, <2>1, <2>2, CommittedGoes
<1>3. ASSUME NEW out, Refused(p, out), UNCHANGED metaVars
      PROVE  Goes(p)
  BY <1>0, <1>3, RefusedGoes DEF metaVars
<1> QED BY <1>2, <1>3 DEF ReplaceStep

\* A bundle.
LEMMA BundleGoes ==
    ASSUME ControlInv, NEW p \in Reqs, BundleStep(p)
    PROVE  Goes(p)
<1> DEFINE q == req[p]
<1>0. q \in Request /\ q.pc = "bundle" /\ q.pc \in CommitPcs /\ q.op = "bundle"
  BY ReqFacts DEF BundleStep, CommitPcs, ReqOK, FlowOps, WritePcs, Writes
<1>1. ASSUME NEW d \in DocIds, Bundle(d, q.by, q.srcs, RefOf(p), q.data),
             Committed(p, RefsIn(q.srcs), d)
      PROVE  Goes(p)
  <2>1. CommitRows(p)
    BY <1>0, <1>1 DEF CommitRows
  <2>2. rows'[d].hash = q.data
    BY <1>1 DEF Bundle, NewRow
  <2> QED BY <1>0, <1>1, <2>1, <2>2, CommittedGoes
<1>2. ASSUME NEW out, Refused(p, out), UNCHANGED metaVars
      PROVE  Goes(p)
  BY <1>0, <1>2, RefusedGoes DEF metaVars
<1> QED BY <1>1, <1>2 DEF BundleStep

\* The edit of a bundle.
LEMMA RebundleGoes ==
    ASSUME ControlInv, NEW p \in Reqs, RebundleStep(p)
    PROVE  Goes(p)
<1> DEFINE q == req[p]
<1>0. /\ q \in Request /\ q.pc = "rebundle" /\ q.pc \in CommitPcs /\ ReqOK(p, q) /\ TypeOK
  BY ReqFacts DEF RebundleStep, CommitPcs
<1>1. q.root \in DocIds /\ q.op = "rebundle"
  BY <1>0 DEF ReqOK, Addressed, FlowOps, WritePcs, CommitPcs, Writes
<1>2. CASE /\ Rebundle(q.root, q.by, q.exp, q.srcs, RefOf(p), q.data)
           /\ Committed(p, RefsIn(q.srcs \cup {q.root}), q.root)
  <2>1. CommitRows(p)
    BY <1>0, <1>2 DEF CommitRows
  <2>2. rows'[q.root].hash = q.data
    BY <1>0, <1>1, <1>2, RebundleWrites
  <2> QED BY <1>0, <1>1, <1>2, <2>1, <2>2, CommittedGoes
<1>3. ASSUME NEW out, Refused(p, out), UNCHANGED metaVars
      PROVE  Goes(p)
  BY <1>0, <1>3, RefusedGoes DEF metaVars
<1> QED BY <1>2, <1>3 DEF RebundleStep

\* A commit whose reply is lost.
LEMMA ReplyLostGoes ==
    ASSUME ControlInv, NEW p \in Reqs, ReplyLost(p)
    PROVE  Goes(p)
<1> DEFINE new == [req[p] EXCEPT !.pc = "rollback", !.out = "error"]
<1>0. /\ req[p] \in Request /\ req \in [Reqs -> Request] /\ CommitRows(p)
      /\ "lost_reply" \in Faults /\ req[p].pc \in CommitPcs
  BY ReqFacts DEF ReplyLost, CommitRows, CommitPcs
<1>1. req'[p] = new
  BY <1>0 DEF ReplyLost, Refused
<1>2. new.op = req[p].op /\ new.pc = "rollback"
  BY <1>0 DEF Request
<1> HIDE DEF new
<1> QED BY <1>0, <1>1, <1>2 DEF Goes, Commits

\* The failures that are answered.
LEMMA FailGoes ==
    ASSUME ControlInv, NEW p \in Reqs, StoreFails(p) \/ Abort(p)
    PROVE  Goes(p)
<1>0. UNCHANGED rows /\ req[p] \in Request
  BY ReqFacts DEF StoreFails, Abort, metaVars
<1>1. CASE req[p].pc \in CommitPcs /\ Refused(p, "error")
  BY <1>0, <1>1, RefusedGoes
<1>2. CASE req[p].pc \in OpenPcs /\ Answer(p, "error")
  BY <1>0, <1>2, AnswerGoes DEF Results
<1>3. CASE req[p].pc \in AppliedPcs /\ (Answer(p, "ok") \/ Answer(p, "error"))
  BY <1>0, <1>3, AnswerSettles
<1>4. req[p].pc \notin {"idle", "done"} => req[p].pc \in OpenPcs \cup AppliedPcs
  BY <1>0 DEF Request, Pcs, OpenPcs, AppliedPcs
<1> QED BY <1>1, <1>2, <1>3, <1>4 DEF StoreFails, Abort, OpenPcs, AppliedPcs

\* The rollback of a commit that failed, with the reason it failed.
LEMMA RollbackGoes ==
    ASSUME ControlInv, NEW p \in Reqs, Rollback(p)
    PROVE  Goes(p)
<1> DEFINE q == req[p]
           new == [q EXCEPT !.pc = "resolve", !.out = "none"]
<1>0. /\ q \in Request /\ req \in [Reqs -> Request] /\ q.pc \in OpenPcs
      /\ UNCHANGED rows /\ q.out \in Results /\ q.out # "ok"
  BY ReqFacts DEF Rollback, metaVars, Request, OpenPcs, ReqOK, FlowOps
<1>1. CASE req' = [req EXCEPT ![p].pc = "resolve", ![p].out = "none"]
  <2>1. req' = [req EXCEPT ![p] = new]
    BY <1>0, <1>1
  <2>2. new.op = q.op /\ new.pc \in OpenPcs
    BY <1>0 DEF Request, OpenPcs
  <2> HIDE DEF new
  <2> QED BY <1>0, <2>1, <2>2, OnGoes
<1>2. CASE Answer(p, q.out)
  BY <1>0, <1>2, AnswerGoes
<1> QED BY <1>1, <1>2 DEF Rollback

\* A request that changes place after its effect.
LEMMA OnSettles ==
    ASSUME ControlInv, UNCHANGED rows, NEW p \in Reqs, req[p].pc \in AppliedPcs,
           NEW q, req' = [req EXCEPT ![p] = q], q.op = req[p].op, q.doc = req[p].doc,
           q.pc \in AppliedPcs
    PROVE  Goes(p)
<1>1. req'[p] = q
  BY ReqFacts
<1> QED BY <1>1 DEF Goes, Settles

\* The purge of what a commit or a departure left.
LEMMA PurgeGoes ==
    ASSUME ControlInv, NEW p \in Reqs, PurgeStep(p)
    PROVE  Goes(p)
<1> DEFINE q == req[p]
<1>0. /\ q \in Request /\ req \in [Reqs -> Request] /\ q.pc = "purge"
      /\ q.pc \in AppliedPcs /\ UNCHANGED rows
  BY ReqFacts DEF PurgeStep, metaVars, AppliedPcs
<1>1. ASSUME NEW r, req' = [req EXCEPT ![p].purge = @ \ {r}]
      PROVE  Goes(p)
  <2> DEFINE new == [q EXCEPT !.purge = q.purge \ {r}]
  <2>1. new.op = q.op /\ new.doc = q.doc /\ new.pc \in AppliedPcs
    BY <1>0 DEF Request
  <2>2. req' = [req EXCEPT ![p] = new]
    BY <1>0, <1>1
  <2> HIDE DEF new
  <2> QED BY <1>0, <2>1, <2>2, OnSettles
<1>2. ASSUME NEW pc \in {"readback", "extend"}, req' = [req EXCEPT ![p].pc = pc]
      PROVE  Goes(p)
  <2> DEFINE new == [q EXCEPT !.pc = pc]
  <2>1. new.op = q.op /\ new.doc = q.doc /\ new.pc \in AppliedPcs
    BY <1>0 DEF Request, AppliedPcs
  <2>2. req' = [req EXCEPT ![p] = new]
    BY <1>0, <1>2
  <2> HIDE DEF new
  <2> QED BY <1>0, <2>1, <2>2, OnSettles
<1>3. CASE Answer(p, "ok")
  BY <1>0, <1>3, AnswerSettles
<1> QED BY <1>1, <1>2, <1>3 DEF PurgeStep

\* The read-back: a row nobody may read any more is in effect all the same.
LEMMA ReadBackGoes ==
    ASSUME ControlInv, NEW p \in Reqs, ReadBack(p)
    PROVE  Goes(p)
<1> DEFINE new == [req[p] EXCEPT !.pc = "extend"]
<1>0. /\ req[p] \in Request /\ req \in [Reqs -> Request] /\ UNCHANGED rows
      /\ req[p].pc \in AppliedPcs
  BY ReqFacts DEF ReadBack, metaVars, AppliedPcs
<1>1. CASE Answer(p, "not_found") \/ Answer(p, "ok")
  BY <1>0, <1>1, AnswerSettles
<1>2. CASE req' = [req EXCEPT ![p].pc = "extend"]
  <2>1. req' = [req EXCEPT ![p] = new]
    BY <1>0, <1>2
  <2>2. new.op = req[p].op /\ new.doc = req[p].doc /\ new.pc \in AppliedPcs
    BY <1>0 DEF Request, AppliedPcs
  <2> HIDE DEF new
  <2> QED BY <1>0, <2>1, <2>2, OnSettles
<1> QED BY <1>1, <1>2 DEF ReadBack

\* The rolling extension.
LEMMA ExtendGoes ==
    ASSUME ControlInv, NEW p \in Reqs, Extend(p)
    PROVE  Goes(p)
<1>0. /\ req[p] \in Request /\ ReqOK(p, req[p]) /\ req[p].pc = "extend"
      /\ req[p].pc \in AppliedPcs /\ Answer(p, "ok")
  BY ReqFacts DEF Extend, AppliedPcs
<1>1. req[p].root \in DocIds
  BY <1>0, MetaAssumption DEF ReqOK, FlowOps, Request, DocIds, NoParent
<1>2. UNCHANGED rows \/ \E d \in DocIds : \E c, u : ExtendRetention(d, c, u)
  BY <1>1 DEF Extend, metaVars
<1> QED BY <1>0, <1>2, AnswerSettles

\* store.RemoveAccess.
LEMMA RemoveGoes ==
    ASSUME ControlInv, NEW p \in Reqs, Remove(p)
    PROVE  Goes(p)
<1> DEFINE q == req[p]
<1>0. /\ q \in Request /\ ReqOK(p, q) /\ q.pc = "remove" /\ req \in [Reqs -> Request]
      /\ q.pc \in OpenPcs
  BY ReqFacts DEF Remove, OpenPcs
<1>1. q.doc \in DocIds /\ q.op = "delete"
  BY <1>0 DEF ReqOK, FlowOps, Addressed
<1>2. ASSUME NEW refs, RemoveAccess(q.doc, q.by), Committed(p, refs, q.doc)
      PROVE  Goes(p)
  <2> DEFINE new == [q EXCEPT !.pc = "purge", !.purge = refs, !.doc = q.doc]
  <2>1. req'[p] = new
    BY <1>0, <1>2 DEF Committed
  <2>2. new.op = q.op /\ new.pc = "purge"
    BY <1>0 DEF Request
  <2> HIDE DEF new
  <2> QED BY <1>0, <1>1, <1>2, <2>1, <2>2 DEF Goes, Leaves
<1>3. CASE /\ RemoveAccessResult(q.doc, q.by) # "ok" /\ UNCHANGED metaVars
           /\ Answer(p, RemoveAccessResult(q.doc, q.by))
  <2>1. RemoveAccessResult(q.doc, q.by) \in Results
    BY DEF RemoveAccessResult, Results
  <2> QED BY <1>0, <1>3, <2>1, AnswerGoes DEF metaVars
<1> QED BY <1>2, <1>3 DEF Remove

\* Every call of a request.
LEMMA RequestGoes ==
    ASSUME ControlInv, KeyInv, NEW p \in Reqs, ClientView(p) \/ Work(p) \/ Fail(p)
    PROVE  Goes(p)
<1>1. ASSUME Fetch(p) PROVE Goes(p)
  BY <1>1, FetchGoes DEF KeyInv, SnapsGood, Fetch
<1>2. ASSUME Work(p) PROVE Goes(p)
  BY <1>1, <1>2, GetRowGoes, ResolveGoes, PutGoes, InsertGoes, ReplaceGoes, BundleGoes,
     RebundleGoes, RollbackGoes, PurgeGoes, ReadBackGoes, ExtendGoes, RemoveGoes DEF Work
<1>3. ASSUME Fail(p) PROVE Goes(p)
  BY <1>3, FailGoes, ReplyLostGoes DEF Fail
<1> QED BY <1>2, <1>3, ClientViewGoes

\* The arrival of a request: it is open, and nothing happened yet.
LEMMA ArriveGoes ==
    ASSUME ControlInv, NEW p \in Reqs, Arrive(p)
    PROVE  /\ req[p].pc = "idle" /\ req'[p].pc \in OpenPcs /\ UNCHANGED rows
           /\ req'[p].op \in OpNames
           /\ req'[p].op \in OpsOf[p] \/ req'[p].op = "upload"
<1>1. req[p].pc = "idle" /\ UNCHANGED rows
  BY DEF Arrive, StartUpload, StartAssemble, StartOn, StartBundle, StartRebundle, metaVars
<1>2. PICK q : /\ req' = [req EXCEPT ![p] = q] /\ q.pc \in {"put", "view", "get"}
               /\ q.op \in OpNames /\ (q.op \in OpsOf[p] \/ q.op = "upload")
  BY ArriveNew DEF Arrived
<1>3. req'[p] = q
  BY <1>2, ReqFacts
<1> QED BY <1>1, <1>2, <1>3 DEF OpenPcs

----------------------------------------------------------------------------
(* Steps of the whole service.                                             *)

\* One request arrives or goes on and the others wait, or all wait while rows at
\* most lose their references.
LEMMA WhoSteps ==
    ASSUME ControlInv, KeyInv, [Next]_vars
    PROVE  \/ \E p \in Reqs : /\ Arrive(p) \/ Goes(p)
                              /\ \A r \in Reqs \ {p} : req'[r] = req[r]
           \/ UNCHANGED req /\ \A e \in DocIds : Drops(e)
<1>1. ASSUME NEW p \in Reqs, Arrive(p) \/ ClientView(p) \/ Work(p) \/ Fail(p)
      PROVE  Arrive(p) \/ Goes(p)
  BY <1>1, RequestGoes
<1>2. ASSUME NEW p \in Reqs, Arrive(p) \/ ClientView(p) \/ Work(p) \/ Fail(p)
      PROVE  \A r \in Reqs \ {p} : req'[r] = req[r]
  <2>1. Moves(p) /\ req \in [Reqs -> Request]
    BY <1>2, RequestMoves, ReqFacts DEF KeyInv
  <2> QED BY <2>1 DEF Moves
<1>3. ASSUME UNCHANGED req PROVE \A e \in DocIds : Drops(e)
  <2>1. ASSUME NEW p, NEW d, RowKind(p, d) PROVE \A e \in DocIds : Drops(e)
    <3>1. d \notin DocIds
      BY <1>3, <2>1 DEF RowKind, TakenBy
    <3> QED BY <2>1, <3>1 DEF RowKind
  <2>2. CASE UNCHANGED rows
    BY <2>2 DEF Drops
  <2> QED BY <2>1, <2>2, EveryKind DEF SomeKind, DestroyKind, WriteKind
<1>4. Background \/ Bystanders \/ UNCHANGED vars => UNCHANGED req
  BY BackgroundOK, BystandersOK DEF vars
<1> QED BY <1>1, <1>2, <1>3, <1>4, NextSteps

\* What the commit of a request does to row d, which it writes.
WritesRow(p, d) ==
    /\ Live(d)' /\ rows'[d].hash = req[p].data
    /\ \/ req[p].pc \in {"insert", "bundle"} /\ Fresh(d)
       \/ /\ req[p].pc = "replace" /\ d = req[p].doc /\ rows[d].hash = req[p].exp
          /\ rows[d].status # "deleted" /\ Stored(d)
          /\ rows'[d].status = "signed" /\ rows'[d].kind = rows[d].kind
       \/ req[p].pc = "rebundle" /\ rows[d].status = "received"
    /\ \A e \in DocIds \ {d} :
          \/ rows'[e] = rows[e]
          \/ req[p].pc \in {"bundle", "rebundle"} /\ rows'[e] = Blank("erased")

\* Every commit writes one row.
LEMMA CommitWrites ==
    ASSUME ControlInv, NEW p \in Reqs, CommitRows(p)
    PROVE  \E d \in DocIds : WritesRow(p, d)
<1> DEFINE q == req[p]
<1>0. /\ q \in Request /\ ReqOK(p, q) /\ TypeOK /\ rows \in [DocIds -> Row]
  BY ReqFacts DEF TypeOK
<1>1. ASSUME q.pc = "insert", NEW d \in DocIds, Insert(d, InsertInput(p))
      PROVE  WritesRow(p, d)
  <2>1. InsertInput(p).hash = q.data /\ InsertInput(p).status \in {"received", "signed"}
    BY DEF InsertInput
  <2>2. rows'[d] = NewRow(InsertInput(p)) /\ \A e \in DocIds \ {d} : rows'[e] = rows[e]
    BY <1>0, <1>1 DEF Insert
  <2> QED BY <1>1, <2>1, <2>2 DEF NewRow, Insert, WritesRow, Live
<1>2. CASE q.pc = "replace" /\ ReplaceContainerBlob(q.doc, q.exp, RefOf(p), q.data)
  <2>1. q.doc \in DocIds
    BY <1>0, <1>2 DEF ReqOK, Addressed, FlowOps, WritePcs, CommitPcs, Writes
  <2>2. /\ rows'[q.doc].hash = q.data /\ rows'[q.doc].status = "signed"
        /\ rows'[q.doc].kind = rows[q.doc].kind
        /\ \A e \in DocIds \ {q.doc} : rows'[e] = rows[e]
    BY <1>0, <1>2, <2>1 DEF ReplaceContainerBlob, Row
  <2>3. rows[q.doc].hash = q.exp /\ Stored(q.doc) /\ rows[q.doc].status # "deleted"
    BY <1>2 DEF ReplaceContainerBlob, ReplaceResult
  <2>4. PICK d : d = q.doc
    OBVIOUS
  <2>5. WritesRow(p, d)
    BY <1>2, <2>2, <2>3, <2>4 DEF WritesRow, Live
  <2> QED BY <2>1, <2>4, <2>5
<1>3. ASSUME q.pc = "bundle", NEW d \in DocIds, Bundle(d, q.by, q.srcs, RefOf(p), q.data)
      PROVE  WritesRow(p, d)
  <2>1. /\ rows'[d].hash = q.data /\ rows'[d].status = "received" /\ Fresh(d)
        /\ \A e \in DocIds \ {d} : rows'[e] = rows[e] \/ rows'[e] = Blank("erased")
    BY <1>3 DEF Bundle, NewRow
  <2> QED BY <1>3, <2>1 DEF WritesRow, Live
<1>4. CASE /\ q.pc = "rebundle"
           /\ Rebundle(q.root, q.by, q.exp, q.srcs, RefOf(p), q.data)
  <2>1. q.root \in DocIds
    BY <1>0, <1>4 DEF ReqOK, Addressed, FlowOps, WritePcs, CommitPcs, Writes
  <2>2. PICK d : d = q.root
    OBVIOUS
  <2>3. WritesRow(p, d)
    BY <1>0, <1>4, <2>1, <2>2, RebundleWrites DEF WritesRow, Live
  <2> QED BY <2>1, <2>2, <2>3
<1> QED BY <1>1, <1>2, <1>3, <1>4 DEF CommitRows

\* A step that takes a request from its swap to its purge is the swap.
LEMMA SwapIsCommit ==
    ASSUME ControlInv, KeyInv, [Next]_vars, NEW p \in Reqs,
           req[p].pc = "replace", req'[p].pc = "purge"
    PROVE  CommitRows(p)
<1>1. Arrive(p) \/ Goes(p)
  BY WhoSteps
<1>2. ~Arrive(p)
  BY ArriveGoes
<1> QED BY <1>1, <1>2
        DEF Goes, GoesOn, Commits, Leaves, Settles, OpenPcs, AppliedPcs, CommitPcs

\* A committed co-signature takes nothing out of any document, in any interleaving
\* and with any faults.
THEOREM CoSignsAdd == Spec => CoSignAdds
<1>1. ServiceInv /\ [Next]_vars => CoSignStep
  <2> SUFFICES ASSUME ControlInv, KeyInv, [Next]_vars, NEW p \in Reqs, NEW e \in DocIds,
                      req[p].op \in {"complete", "addsig"},
                      req[p].pc = "replace", req'[p].pc = "purge"
               PROVE  rows[e].hash \subseteq rows'[e].hash
    BY DEF ServiceInv, CoSignStep
  <2>1. PICK d \in DocIds : WritesRow(p, d)
    BY SwapIsCommit, CommitWrites
  <2>2. req[p].exp \subseteq req[p].data
    BY ReqFacts DEF ReqOK, FlowOps, FlowData, CommitPcs
  <2> QED BY <2>1, <2>2 DEF WritesRow
<1> QED BY <1>1, ServiceCorrect, PTL DEF Spec, CoSignAdds

----------------------------------------------------------------------------
(* The refinement of the ledger.                                           *)

\* What readers get, where every live row is backed.
LEMMA ContentsAre ==
    ASSUME ControlInv, ControlInv', Backed, Backed', NEW d \in DocIds
    PROVE  /\ Contents[d] = IF Live(d) THEN rows[d].hash ELSE {}
           /\ Contents'[d] = IF Live(d)' THEN rows'[d].hash ELSE {}
           /\ Contents'[d] \in SUBSET Reqs
<1>1. rows'[d] \in Row
  BY DEF ControlInv, ServiceTypeOK, TypeOK
<1>2. rows'[d].hash \in SUBSET Reqs
  BY <1>1, ServiceAssumption DEF Row
<1>3. /\ Contents[d] = IF Live(d) THEN blobs[rows[d].ref] ELSE {}
      /\ Contents'[d] = IF Live(d)' THEN blobs'[rows'[d].ref] ELSE {}
  BY DEF Contents
<1> QED BY <1>2, <1>3 DEF Backed

\* A row that drops its reference has nothing to read any more; one that keeps it
\* has what it had.
LEMMA DropsContents ==
    ASSUME ControlInv, ControlInv', Backed, Backed', NEW e \in DocIds, Drops(e)
    PROVE  Contents'[e] = Contents[e] \/ Contents'[e] = {}
<1>1. (Live(e) <=> rows[e].ref # NoRef) /\ (Live(e)' <=> rows'[e].ref # NoRef)
  BY DEF ControlInv, ChainInv, BytesIffLive
<1> QED BY <1>1, ContentsAre DEF Drops, Blank

\* Rows that keep life and hash are read as before.
LEMMA ContentsStay ==
    ASSUME ControlInv, ControlInv', Backed, Backed',
           UNCHANGED rows \/ \E d \in DocIds : \E c, u : ExtendRetention(d, c, u)
    PROVE  UNCHANGED Contents
<1>1. ASSUME NEW e \in DocIds PROVE (Live(e)' <=> Live(e)) /\ rows'[e].hash = rows[e].hash
  <2>1. rows \in [DocIds -> Row] /\ rows[e] \in Row
    BY DEF ControlInv, ServiceTypeOK, TypeOK
  <2>2. CASE UNCHANGED rows
    BY <2>2 DEF Live
  <2>3. ASSUME NEW d \in DocIds, NEW c, NEW u, ExtendRetention(d, c, u)
        PROVE  (Live(e)' <=> Live(e)) /\ rows'[e].hash = rows[e].hash
    <3>1. CASE e = d
      <4>1. rows'[e].status = rows[e].status /\ rows'[e].hash = rows[e].hash
        BY <2>1, <2>3, <3>1 DEF ExtendRetention, Row
      <4> QED BY <4>1 DEF Live
    <3>2. CASE e # d
      BY <2>1, <2>3, <3>2 DEF ExtendRetention, Live
    <3> QED BY <3>1, <3>2
  <2> QED BY <2>2, <2>3
<1>2. \A e \in DocIds : Contents'[e] = Contents[e]
  BY <1>1, ContentsAre
<1> QED BY <1>2 DEF Contents

\* How far a caller may believe a request to be, by where it is.
LEMMA FateOf ==
    ASSUME NEW q
    PROVE  /\ q.pc = "idle" => Fate(q) = "none"
           /\ q.pc \in OpenPcs => Fate(q) = "open"
           /\ q.pc \in AppliedPcs => Fate(q) = "applied"
           /\ q.pc = "done" =>
                 /\ q.out = "ok" => Fate(q) = "ok"
                 /\ q.out = "not_found" => Fate(q) = "unseen"
                 /\ q.out = "error" => Fate(q) = "unknown"
                 /\ q.out \notin {"ok", "not_found", "error"} => Fate(q) = "refused"
BY DEF Fate, Told, OpenPcs, AppliedPcs, CommitPcs

\* The ledger's variables when one request moves.
LEMMA OneFate ==
    ASSUME NEW p \in Reqs, \A r \in Reqs \ {p} : req'[r] = req[r]
    PROVE  /\ [r \in Reqs |-> Fate(req[r])]' =
                 [[r \in Reqs |-> Fate(req[r])] EXCEPT ![p] = Fate(req'[p])]
           /\ [r \in Reqs |-> req[r].op]' =
                 [[r \in Reqs |-> req[r].op] EXCEPT ![p] = req'[p].op]
OBVIOUS

\* The effect of a commit on the ledger.
LEMMA CommitEffect ==
    ASSUME ControlInv, ControlInv', Backed, Backed', NEW p \in Reqs, CommitRows(p),
           req[p].pc \in CommitPcs
    PROVE  Ledger!Effect(p)
<1> DEFINE q == req[p]
<1>0. q \in Request /\ ReqOK(p, q)
  BY ReqFacts
<1>1. PICK d \in DocIds : WritesRow(p, d)
  BY CommitWrites
<1>2. /\ p \in q.data /\ Writes(q.op, q.then) /\ q.then = q.pc
      /\ q.op = "upload" /\ q.pc = "insert" => q.data = {p}
      /\ q.op \in {"complete", "addsig"} /\ q.pc = "replace" => q.exp \subseteq q.data
  BY <1>0 DEF ReqOK, FlowOps, FlowData, WritePcs, CommitPcs
<1>3. Contents'[d] = q.data
  BY <1>1, ContentsAre DEF WritesRow
<1>4. Fresh(d) => Contents[d] = {}
  BY ContentsAre DEF Fresh, Live
<1>5. q.pc = "replace" => Contents[d] \in {{}, q.exp}
  BY <1>1, ContentsAre DEF WritesRow
<1>6. ASSUME NEW e \in DocIds \ {d}
      PROVE  \/ Contents'[e] = Contents[e]
             \/ q.op \in {"bundle", "rebundle"} /\ Contents'[e] = {}
  <2>1. CASE rows'[e] = rows[e]
    BY <2>1, ContentsAre DEF Live
  <2>2. CASE q.pc \in {"bundle", "rebundle"} /\ rows'[e] = Blank("erased")
    <3>1. ~Live(e)'
      BY <2>2 DEF Live, Blank
    <3> QED BY <1>2, <2>2, <3>1, ContentsAre DEF Writes
  <2> QED BY <1>1, <2>1, <2>2 DEF WritesRow
<1>7. Contents' \in [DocIds -> SUBSET Reqs]
  <2>1. Contents' = [e \in DocIds |-> Contents'[e]]
    BY DEF Contents
  <2> QED BY <2>1, ContentsAre
<1>8. [r \in Reqs |-> req[r].op][p] = q.op
  OBVIOUS
<1>9. /\ q.op \notin {"delete", "read", "extract", "none"}
      /\ q.op = "upload" => Contents'[d] = {p}
      /\ q.op \in {"upload", "bundle"} => Contents[d] = {}
      /\ q.op \in {"complete", "addsig"} => Contents[d] \subseteq Contents'[d]
  BY <1>1, <1>2, <1>3, <1>4, <1>5 DEF Writes, WritesRow
<1> QED BY <1>2, <1>3, <1>6, <1>7, <1>8, <1>9 DEF Ledger!Effect, Ledger!Others

\* Rows that at most drop their references are what a delete, or the end of a
\* retention period, does to the ledger.
LEMMA DropsAll ==
    ASSUME ControlInv, ControlInv', Backed, Backed', \A e \in DocIds : Drops(e)
    PROVE  Contents' \in [DocIds -> SUBSET Reqs] /\ Ledger!Others({}, TRUE)
<1>1. \A e \in DocIds : Contents'[e] = Contents[e] \/ Contents'[e] = {}
  BY DropsContents
<1>2. Contents' = [e \in DocIds |-> Contents'[e]]
  BY DEF Contents
<1> QED BY <1>1, <1>2, ContentsAre DEF Ledger!Others

\* The step simulation.
LEMMA StepIsLedger ==
    ASSUME "lost_reply" \notin Faults, ControlInv, ControlInv', KeyInv, Backed, Backed',
           [Next]_vars
    PROVE  [Ledger!LedgerNext]_(Ledger!ledgerVars)
<1> DEFINE ops == [r \in Reqs |-> req[r].op]
           fates == [r \in Reqs |-> Fate(req[r])]
<1>1. CASE UNCHANGED req /\ \A e \in DocIds : Drops(e)
  BY <1>1, DropsAll DEF Ledger!LedgerNext, Ledger!Expire
<1>2. ASSUME NEW p \in Reqs, Arrive(p), \A r \in Reqs \ {p} : req'[r] = req[r]
      PROVE  Ledger!LedgerNext
  <2>1. req[p].pc = "idle" /\ req'[p].pc \in OpenPcs /\ UNCHANGED rows /\ req'[p].op \in OpNames
    BY <1>2, ArriveGoes
  <2>2. Fate(req[p]) = "none" /\ Fate(req'[p]) = "open" /\ UNCHANGED Contents
    BY <2>1, FateOf, ContentsStay
  <2>3. /\ fates' = [fates EXCEPT ![p] = Fate(req'[p])]
        /\ ops' = [ops EXCEPT ![p] = req'[p].op] /\ fates[p] = Fate(req[p])
    BY <1>2, OneFate
  <2>4. Ledger!Submit(p)
    BY <2>1, <2>2, <2>3 DEF Ledger!Submit, Ledger!Becomes
  <2> QED BY <2>4 DEF Ledger!LedgerNext
<1>3. ASSUME NEW p \in Reqs, Goes(p), \A r \in Reqs \ {p} : req'[r] = req[r]
      PROVE  Ledger!LedgerNext \/ UNCHANGED Ledger!ledgerVars
  <2>1. /\ fates' = [fates EXCEPT ![p] = Fate(req'[p])]
        /\ ops' = [ops EXCEPT ![p] = req'[p].op] /\ fates[p] = Fate(req[p])
        /\ ops[p] = req[p].op
    BY <1>3, OneFate
  <2>2. UNCHANGED ops
    BY <1>3, <2>1 DEF Goes
  <2>3. ASSUME Fate(req'[p]) = Fate(req[p]), UNCHANGED Contents
        PROVE  UNCHANGED Ledger!ledgerVars
    BY <2>1, <2>2, <2>3 DEF Ledger!ledgerVars
  <2>4. ASSUME UNCHANGED Contents,
               \/ /\ Fate(req[p]) \in {"open", "applied"}
                  /\ Fate(req'[p]) \in {"unseen", "unknown"}
               \/ Fate(req[p]) = "open" /\ Fate(req'[p]) = "refused"
               \/ /\ Fate(req[p]) = "applied" \/ (Fate(req[p]) = "open"
                                                  /\ req[p].op \in {"read", "extract"})
                  /\ Fate(req'[p]) = "ok"
        PROVE  Ledger!LedgerNext
    <3>1. Ledger!Reply(p)
      BY <2>1, <2>2, <2>4 DEF Ledger!Reply, Ledger!Becomes
    <3> QED BY <3>1 DEF Ledger!LedgerNext
  <2>5. ASSUME Fate(req[p]) = "open", Fate(req'[p]) = "applied", Ledger!Effect(p)
        PROVE  Ledger!LedgerNext
    <3>1. Ledger!Apply(p)
      BY <2>1, <2>2, <2>5 DEF Ledger!Apply, Ledger!Becomes
    <3> QED BY <3>1 DEF Ledger!LedgerNext
  <2>6. CASE GoesOn(p)
    <3>1. UNCHANGED Contents /\ Fate(req[p]) = "open"
      BY <2>6, ContentsStay, FateOf DEF GoesOn
    <3>2. CASE req'[p].pc \in OpenPcs
      BY <2>3, <3>1, <3>2, FateOf
    <3>3. CASE req'[p].pc = "done" /\ (req'[p].out = "ok" => req[p].op \in {"read", "extract"})
      <4>1. \/ Fate(req'[p]) \in {"unseen", "unknown", "refused"}
            \/ Fate(req'[p]) = "ok" /\ req'[p].out = "ok"
        BY <3>3, FateOf
      <4> QED BY <2>4, <3>1, <3>3, <4>1
    <3> QED BY <2>6, <3>2, <3>3 DEF GoesOn
  <2>7. CASE Commits(p)
    <3>1. req'[p].pc \in AppliedPcs /\ req[p].pc \in OpenPcs /\ Ledger!Effect(p)
      BY <2>7, CommitEffect DEF Commits, OpenPcs
    <3> QED BY <2>5, <3>1, FateOf
  <2>8. CASE Leaves(p)
    <3>1. \A e \in DocIds : Drops(e)
      BY <2>8, ProcedureDrops DEF Leaves, ControlInv, ServiceTypeOK
    <3>2. Ledger!Effect(p)
      BY <2>1, <2>8, <3>1, DropsAll DEF Ledger!Effect, Leaves
    <3>3. Fate(req[p]) = "open" /\ Fate(req'[p]) = "applied"
      BY <2>8, FateOf DEF Leaves, OpenPcs, AppliedPcs
    <3> QED BY <2>5, <3>2, <3>3
  <2>9. CASE Settles(p)
    <3>1. UNCHANGED Contents /\ Fate(req[p]) = "applied"
      BY <2>9, ContentsStay, FateOf DEF Settles
    <3>2. CASE req'[p].pc \in AppliedPcs
      BY <2>3, <3>1, <3>2, FateOf
    <3>3. CASE req'[p].pc = "done" /\ req'[p].out \in {"ok", "not_found", "error"}
      BY <2>4, <3>1, <3>3, FateOf
    <3> QED BY <2>9, <3>2, <3>3 DEF Settles
  <2> QED BY <1>3, <2>6, <2>7, <2>8, <2>9 DEF Goes
<1> QED BY <1>1, <1>2, <1>3, WhoSteps

\* Where no reply of a commit is lost, the service implements the ledger: over all the
\* calls a request is made of, and whatever the others do between them, it takes
\* effect at one instant and at most once, on its own document, before it is
\* confirmed, and not at all if it is refused.
THEOREM ServiceIsLedger ==
    ASSUME "lost_reply" \notin Faults
    PROVE  Spec => ImplementsLedger
<1>1. ServiceInit => Ledger!LedgerInit
  <2> SUFFICES ASSUME ServiceInit PROVE Ledger!LedgerInit
    OBVIOUS
  <2>1. \A d \in DocIds : ~Live(d)
    BY DEF ServiceInit, Init, Blank, Live
  <2>2. \A p \in Reqs : req[p].pc = "idle" /\ req[p].op = "none"
    BY DEF ServiceInit, Idle
  <2>3. \A p \in Reqs : Fate(req[p]) = "none"
    BY <2>2, FateOf
  <2> QED BY <2>1, <2>2, <2>3 DEF Ledger!LedgerInit, Contents, OpNames
<1>2. ServiceInv /\ ServiceInv' /\ Backed /\ Backed' /\ [Next]_vars =>
          [Ledger!LedgerNext]_(Ledger!ledgerVars)
  BY StepIsLedger DEF ServiceInv
<1>3. Spec => []Backed
  BY LiveRowsBacked
<1> QED BY <1>1, <1>2, <1>3, ServiceCorrect, PTL DEF Spec, ImplementsLedger, Ledger!LedgerSpec

----------------------------------------------------------------------------
(* Acknowledged signatures.                                                *)

\* A co-signature is in effect, and not reported otherwise.
CoSigns(q) ==
    /\ q.op \in {"complete", "addsig"}
    /\ q.pc \in AppliedPcs \/ (q.pc = "done" /\ q.out = "ok")

\* The row was handed out and, while it is there, has the bytes of p and is no draft.
HoldsSignature(p, d) ==
    /\ d \in DocIds /\ Known(d)
    /\ Stored(d) => p \in rows[d].hash /\ rows[d].status # "received"

\* Nobody swaps bytes but co-signers, and their signatures stay.  A row that expired
\* is included: a late swap may bring it back.
SignedInv ==
    \A p \in Reqs :
        /\ req[p].op \notin {"signed", "archive"}
        /\ CoSigns(req[p]) => HoldsSignature(p, req[p].doc)

\* A row that is no draft only gains bytes, whoever commits: only drafts are edited,
\* and a swap adds to what it replaces.
LEMMA SignedRowsGrow ==
    ASSUME ControlInv, KeyInv, SignedInv, [Next]_vars, NEW d \in DocIds,
           rows[d].status \notin {"unused", "received"}, Stored(d)'
    PROVE  /\ Stored(d) /\ rows[d].hash \subseteq rows'[d].hash
           /\ rows'[d].status # "received"
<1>0. /\ RowStep /\ TypeOK
  BY StepIsMeta, EveryRowStep DEF KeyInv, ControlInv, ServiceTypeOK
<1>1. Stored(d)
  BY <1>0, ErasedStep DEF Stored
<1>2. CASE Drops(d)
  BY <1>1, <1>2 DEF Drops, Blank, Stored
<1>3. CASE rows'[d] = rows[d]
  BY <1>1, <1>3
<1>4. ASSUME NEW p \in Reqs, CommitRows(p)
      PROVE  /\ rows[d].hash \subseteq rows'[d].hash /\ rows'[d].status # "received"
  <2>1. PICK e \in DocIds : WritesRow(p, e)
    BY <1>4, CommitWrites
  <2>2. CASE d # e
    <3>1. rows'[d] = rows[d]
      BY <2>1, <2>2 DEF WritesRow, Blank, Stored
    <3> QED BY <1>3, <3>1
  <2>3. CASE d = e
    <3>1. req[p].pc = "replace" /\ rows[d].hash = req[p].exp /\ rows'[d].status = "signed"
      BY <2>1, <2>3 DEF WritesRow, Fresh
    <3>2. req[p].op \in {"complete", "addsig"}
      BY <3>1, ReqFacts DEF SignedInv, ReqOK, FlowOps, WritePcs, CommitPcs, Writes
    <3>3. req[p].exp \subseteq req[p].data
      BY <3>1, <3>2, ReqFacts DEF ReqOK, FlowOps, FlowData, CommitPcs
    <3> QED BY <2>1, <2>3, <3>1, <3>3 DEF WritesRow
  <2> QED BY <2>2, <2>3
<1>5. ASSUME NEW p \in Reqs, Goes(p)
      PROVE  /\ rows[d].hash \subseteq rows'[d].hash /\ rows'[d].status # "received"
  <2>1. CASE GoesOn(p)
    BY <1>3, <2>1 DEF GoesOn
  <2>2. CASE Commits(p)
    BY <1>4, <2>2 DEF Commits
  <2>3. CASE Leaves(p)
    BY <1>0, <1>2, <2>3, ProcedureDrops DEF Leaves
  <2>4. CASE Settles(p)
    BY <1>0, <1>2, <2>4, ProcedureDrops DEF Settles
  <2> QED BY <1>5, <2>1, <2>2, <2>3, <2>4 DEF Goes
<1> QED BY <1>1, <1>2, <1>3, <1>5, WhoSteps, ArriveGoes

\* Every step keeps the signatures that are in effect, where nobody may store a signed
\* pdf or an archived form.
LEMMA SignedInvariance ==
    ASSUME \A p \in Reqs : OpsOf[p] \cap {"signed", "archive"} = {},
           ControlInv, ControlInv', KeyInv, SignedInv, [Next]_vars
    PROVE  SignedInv'
<1>1. ASSUME NEW p \in Reqs, NEW d, HoldsSignature(p, d)
      PROVE  HoldsSignature(p, d)'
  <2>1. RowStep
    BY StepIsMeta, EveryRowStep DEF KeyInv, ControlInv, ServiceTypeOK
  <2>2. d \in DocIds /\ Known(d)'
    BY <1>1, <2>1, KnownStep DEF HoldsSignature
  <2>3. ASSUME Stored(d)' PROVE p \in rows'[d].hash /\ rows'[d].status # "received"
    <3>1. rows[d].status # "received" /\ rows[d].status # "unused"
      <4>1. Stored(d)
        BY <1>1, <2>1, <2>2, <2>3, ErasedStep DEF HoldsSignature, Known, Stored
      <4> QED BY <1>1, <4>1 DEF HoldsSignature, Known
    <3> QED BY <1>1, <2>2, <2>3, <3>1, SignedRowsGrow DEF HoldsSignature
  <2> QED BY <2>2, <2>3 DEF HoldsSignature
<1>2. ASSUME NEW p \in Reqs, req'[p] = req[p]
      PROVE  /\ req'[p].op \notin {"signed", "archive"}
             /\ CoSigns(req[p])' => HoldsSignature(p, req[p].doc)'
  <2>1. CoSigns(req[p])' => CoSigns(req[p])
    BY <1>2 DEF CoSigns
  <2>2. PICK d : d = req[p].doc
    OBVIOUS
  <2>3. HoldsSignature(p, d)' => HoldsSignature(p, req[p].doc)'
    BY <1>2, <2>2 DEF HoldsSignature, Known, Stored
  <2> QED BY <1>1, <1>2, <2>1, <2>2, <2>3 DEF SignedInv
<1>3. ASSUME NEW p \in Reqs, Arrive(p)
      PROVE  /\ req'[p].op \notin {"signed", "archive"}
             /\ CoSigns(req[p])' => HoldsSignature(p, req[p].doc)'
  BY <1>3, ArriveGoes DEF CoSigns, OpenPcs, AppliedPcs, CommitPcs
<1>4. ASSUME NEW p \in Reqs, Goes(p), NEW d, d = req'[p].doc, CoSigns(req[p])'
      PROVE  HoldsSignature(p, d)'
  <2>0. req'[p].op = req[p].op /\ req[p].op \in {"complete", "addsig"}
    BY <1>4 DEF Goes, CoSigns
  <2>1. CASE GoesOn(p)
    BY <1>4, <2>0, <2>1 DEF GoesOn, CoSigns, OpenPcs, AppliedPcs, CommitPcs
  <2>2. CASE Commits(p)
    <3>1. /\ d \in DocIds /\ rows'[d].hash = req[p].data /\ rows'[d].status = "signed"
      BY <1>4, <2>0, <2>2 DEF Commits, CoSigns, AppliedPcs
    <3>2. p \in req[p].data
      BY <2>2, ReqFacts DEF Commits, ReqOK, FlowData, WritePcs
    <3> QED BY <3>1, <3>2 DEF HoldsSignature, Known
  <2>3. CASE Leaves(p)
    BY <2>0, <2>3 DEF Leaves
  <2>4. CASE Settles(p)
    <3>1. CoSigns(req[p]) /\ d = req[p].doc
      BY <1>4, <2>0, <2>4 DEF Settles, CoSigns
    <3> QED BY <1>1, <3>1 DEF SignedInv
  <2> QED BY <1>4, <2>1, <2>2, <2>3, <2>4 DEF Goes
<1>5. ASSUME NEW p \in Reqs, Goes(p)
      PROVE  /\ req'[p].op \notin {"signed", "archive"}
             /\ CoSigns(req[p])' => HoldsSignature(p, req[p].doc)'
  <2>1. PICK d : d = req'[p].doc
    OBVIOUS
  <2>2. HoldsSignature(p, d)' => HoldsSignature(p, req[p].doc)'
    BY <2>1 DEF HoldsSignature, Known, Stored
  <2>3. req'[p].op \notin {"signed", "archive"}
    BY <1>5 DEF Goes, SignedInv
  <2> QED BY <1>4, <1>5, <2>1, <2>2, <2>3
<1> QED BY <1>2, <1>3, <1>5, WhoSteps DEF SignedInv

\* A signature whose storing was confirmed is in the document for as long as it lives,
\* whoever else co-signs, bundles, edits, expires or deletes, and with any faults.
\* Signed pdfs and archived forms are left out: they overwrite what was stored since
\* their client fetched the file.
THEOREM SignaturesKept ==
    ASSUME \A p \in Reqs : OpsOf[p] \cap {"signed", "archive"} = {}
    PROVE  Spec => []AckedSignatureKept
<1>1. ServiceInit => SignedInv
  <2>1. ServiceInit => \A p \in Reqs : req[p].op = "none"
    BY DEF ServiceInit, Idle
  <2> QED BY <2>1 DEF SignedInv, CoSigns
<1>2. ServiceInv /\ ServiceInv' /\ SignedInv /\ [Next]_vars => SignedInv'
  BY SignedInvariance DEF ServiceInv
<1>3. SignedInv => AckedSignatureKept
  BY DEF SignedInv, CoSigns, HoldsSignature, AckedSignatureKept, Live, Stored
<1> QED BY <1>1, <1>2, <1>3, ServiceCorrect, PTL DEF Spec
=============================================================================
