----------------------------- MODULE LeakProofs -----------------------------
(***************************************************************************)
(* That nothing is left behind in the object store, for every set of       *)
(* requests, documents and callers, where calls on the object store        *)
(* succeed and nobody dies half way: every stored object is named by a     *)
(* row, about to be, or on the list of somebody who will destroy it.       *)
(*                                                                         *)
(* CustodyProofs shows that nobody destroys what a row names; here it is   *)
(* the converse, that each step hands over every key it lets go of.        *)
(***************************************************************************)
EXTENDS CustodyProofs

\* The failures that may happen here: those of the database, with a reply.
Tidy == {"put", "delete", "abort", "lost_reply"} \cap Faults = {}

\* The request, of name p and now q, is going to name, roll back or destroy the key.
Holds(p, q, r) ==
    \/ q.pc \in CommitPcs \cup {"rollback"} /\ r = <<p, q.n>>
    \/ r \in q.purge

\* A step of one request that lets go of nothing: what rows lose is on its list, and
\* an object that stays is held by it still or by a row, as is one it writes.
HandsOver(p) ==
    /\ Cleared \subseteq req'[p].purge
    /\ \A r \in Refs : blobs'[r] # {} =>
          /\ Holds(p, req[p], r) => Holds(p, req'[p], r) \/ Named(r)'
          /\ blobs'[r] = blobs[r] \/ Holds(p, req'[p], r)

\* Who else has a key, in the terms of the property.
LEMMA LeakFree ==
    NothingLeaks <=>
        \A r \in Refs : blobs[r] # {} =>
            \/ Named(r) \/ r \in sweeper.refs
            \/ \E p \in Reqs : Holds(p, req[p], r)
BY DEF NothingLeaks, Named, Holds, RefOf

\* The same after a step.
LEMMA LeakFreeNext ==
    NothingLeaks' <=>
        \A r \in Refs : blobs'[r] # {} =>
            \/ Named(r)' \/ r \in sweeper'.refs
            \/ \E p \in Reqs : Holds(p, req'[p], r)
BY DEF NothingLeaks, Named, Holds, RefOf

\* A key that a row names is named afterwards or lost in this step.
LEMMA NamedOrCleared ==
    ASSUME NEW r \in Refs, Named(r)
    PROVE  Named(r)' \/ r \in Cleared
BY DEF Named, Cleared

\* A request that lets go of nothing leaks nothing.
LEMMA HandsOverKeeps ==
    ASSUME NothingLeaks, NEW p \in Reqs, HandsOver(p), UNCHANGED sweeper,
           \A s \in Reqs \ {p} : req'[s] = req[s]
    PROVE  NothingLeaks'
<1> SUFFICES ASSUME NEW r \in Refs, blobs'[r] # {}
             PROVE  \/ Named(r)' \/ r \in sweeper'.refs
                    \/ \E s \in Reqs : Holds(s, req'[s], r)
  BY LeakFreeNext
<1>1. CASE Holds(p, req'[p], r)
  BY <1>1
<1>2. CASE blobs[r] # {}
  <2>1. CASE Named(r)
    <3>1. Named(r)' \/ r \in req'[p].purge
      BY <2>1, NamedOrCleared DEF HandsOver
    <3> QED BY <3>1 DEF Holds
  <2>2. CASE r \in sweeper.refs
    BY <2>2
  <2>3. ASSUME NEW s \in Reqs, Holds(s, req[s], r)
        PROVE  Named(r)' \/ \E t \in Reqs : Holds(t, req'[t], r)
    <3>1. CASE s = p
      BY <2>3, <3>1 DEF HandsOver
    <3>2. CASE s # p
      <4>1. Holds(s, req'[s], r)
        BY <2>3, <3>2
      <4> QED BY <4>1
    <3> QED BY <3>1, <3>2
  <2> QED BY <1>2, <2>1, <2>2, <2>3, LeakFree
<1> QED BY <1>1, <1>2 DEF HandsOver

----------------------------------------------------------------------------
(* References that rows lose.                                              *)

\* A row that keeps its reference, or has none, loses nothing.
LEMMA KeepsClear ==
    ASSUME \A e \in DocIds : rows'[e].ref = rows[e].ref \/ rows[e].ref = NoRef
    PROVE  Cleared = {}
BY MetaAssumption DEF Cleared

\* A row that is not live has no reference to lose.
LEMMA NotLive ==
    ASSUME ControlInv, NEW d \in DocIds, ~Live(d)
    PROVE  rows[d].ref = NoRef
BY RowBytes

\* Extending, holding, freezing and forgetting rows loses no reference: records are
\* erased only once their bytes are gone.
LEMMA ProcedureClears ==
    ASSUME ControlInv,
           \/ \E d \in DocIds : \E c, u : ExtendRetention(d, c, u)
           \/ \E V, u : SweepHistory(u, V)
           \/ \E c, r : DeleteHistoryChain(c, r)
           \/ \E d \in DocIds, h \in BOOLEAN : SetLegalHold(d, h) \/ SetResultFreeze(d, h)
           \/ UNCHANGED rows
    PROVE  Cleared = {}
<1>0. /\ \A e \in DocIds : rows[e] \in Row
      /\ rows \in [DocIds -> Row]
  BY RowBytes DEF ControlInv, ServiceTypeOK, TypeOK
<1>1. ASSUME NEW d, NEW new, rows' = [rows EXCEPT ![d] = new],
             d \in DocIds => new.ref = rows[d].ref
      PROVE  Cleared = {}
  <2>1. \A e \in DocIds : rows'[e].ref = rows[e].ref
    BY <1>0, <1>1
  <2> QED BY <2>1, KeepsClear
<1>2. ASSUME NEW d \in DocIds, NEW c, NEW u, ExtendRetention(d, c, u)
      PROVE  Cleared = {}
  <2> DEFINE new == [rows[d] EXCEPT !.until = Later(rows[d].until, u), !.updated = now]
  <2>1. rows' = [rows EXCEPT ![d] = new]
    BY <1>2 DEF ExtendRetention
  <2>2. new.ref = rows[d].ref
    BY <1>0 DEF Row
  <2> HIDE DEF new
  <2> QED BY <1>1, <2>1, <2>2
<1>3. ASSUME NEW V, \A e \in DocIds : e \in V => Terminal(e),
             rows' = [d \in DocIds |-> IF d \in V THEN Blank("erased") ELSE rows[d]]
      PROVE  Cleared = {}
  <2>1. ASSUME NEW e \in DocIds PROVE rows'[e].ref = rows[e].ref \/ rows[e].ref = NoRef
    <3>1. CASE e \in V
      BY <1>3, <3>1, NotLive DEF Terminal, Live
    <3> QED BY <1>3, <3>1
  <2> QED BY <2>1, KeepsClear
<1>4. ASSUME NEW V, NEW u, SweepHistory(u, V) PROVE Cleared = {}
  <2>1. \A e \in DocIds : e \in V => Terminal(e)
    BY <1>4 DEF SweepHistory, Batches, OldRecords
  <2> QED BY <1>3, <1>4, <2>1 DEF SweepHistory
<1>5. ASSUME NEW c, NEW r, DeleteHistoryChain(c, r) PROVE Cleared = {}
  <2> DEFINE V == {d \in Chain(r) : OwnedBy(d, c)}
  <2>1. \A e \in DocIds : e \in V => Terminal(e)
    BY <1>5 DEF DeleteHistoryChain, DeleteHistoryResult
  <2>2. rows' = [d \in DocIds |-> IF d \in V THEN Blank("erased") ELSE rows[d]]
    BY <1>5 DEF DeleteHistoryChain
  <2> HIDE DEF V
  <2> QED BY <1>3, <2>1, <2>2
<1>6. ASSUME NEW d \in DocIds, NEW h \in BOOLEAN, SetLegalHold(d, h) PROVE Cleared = {}
  <2> DEFINE new == [rows[d] EXCEPT !.hold = h]
  <2>1. rows' = [rows EXCEPT ![d] = new]
    BY <1>0, <1>6 DEF SetLegalHold
  <2>2. new.ref = rows[d].ref
    BY <1>0 DEF Row
  <2> HIDE DEF new
  <2> QED BY <1>1, <2>1, <2>2
<1>7. ASSUME NEW d \in DocIds, NEW h \in BOOLEAN, SetResultFreeze(d, h) PROVE Cleared = {}
  <2> DEFINE r == ChainRoot(d)
             new == [rows[r] EXCEPT !.frozen = h, !.updated = now]
  <2>1. rows' = [rows EXCEPT ![r] = new]
    BY <1>7 DEF SetResultFreeze
  <2>2. r \in DocIds => new.ref = rows[r].ref
    BY <1>0 DEF Row
  <2> HIDE DEF new, r
  <2> QED BY <1>1, <2>1, <2>2
<1>8. CASE UNCHANGED rows
  BY <1>8, KeepsClear
<1> QED BY <1>2, <1>4, <1>5, <1>6, <1>7, <1>8

\* Purged rows lose no more than what is listed of them.
LEMMA PurgeLists ==
    ASSUME NEW V, NEW status, rows' = Purge(V, status)
    PROVE  Cleared \subseteq RefsIn(V)
<1> SUFFICES ASSUME NEW r \in Refs, NEW e \in DocIds, rows[e].ref = r, rows'[e].ref # r
             PROVE  r \in RefsIn(V)
  BY DEF Cleared
<1>1. e \in V
  BY DEF Purge
<1> QED BY <1>1, MetaAssumption DEF RefsIn

----------------------------------------------------------------------------
(* The steps of a request.                                                 *)

\* A request that holds no key and touches neither rows nor objects.
LEMMA EmptyHanded ==
    ASSUME ControlInv, NEW p \in Reqs, UNCHANGED <<rows, blobs>>, req[p].purge = {},
           req[p].pc \notin CommitPcs \cup {"rollback"}
    PROVE  HandsOver(p)
<1>1. Cleared = {}
  BY KeepsClear
<1> QED BY <1>1 DEF HandsOver, Holds

\* So are requests before their write and after their purge.
LEMMA ReadsHandOver ==
    ASSUME ControlInv, NEW p \in Reqs,
           \/ Arrive(p) \/ ClientView(p) \/ GetRow(p) \/ Fetch(p) \/ Resolve(p) \/ ReadBack(p)
    PROVE  HandsOver(p)
<1>1. /\ UNCHANGED <<rows, blobs>>
      /\ req[p].pc \in {"idle", "view", "get", "fetch", "resolve", "readback"}
  BY DEF Arrive, StartUpload, StartAssemble, StartOn, StartBundle, StartRebundle,
         ClientView, GetRow, Fetch, Resolve, ReadBack, metaVars
<1>2. req[p].purge = {}
  BY <1>1, ReqFacts DEF ReqOK, FlowKeys
<1> QED BY <1>1, <1>2, EmptyHanded DEF CommitPcs

\* The rolling extension holds no key, and moves a date.
LEMMA ExtendHandsOver ==
    ASSUME ControlInv, NEW p \in Reqs, Extend(p)
    PROVE  HandsOver(p)
<1>0. /\ req[p].pc = "extend" /\ UNCHANGED blobs /\ ReqOK(p, req[p]) /\ req[p] \in Request
  BY ReqFacts DEF Extend
<1>1. req[p].purge = {} /\ req[p].root \in DocIds
  BY <1>0, MetaAssumption DEF ReqOK, FlowKeys, FlowOps, Request, DocIds, NoParent
<1>2. Cleared = {}
  BY <1>1, ProcedureClears DEF Extend, metaVars
<1> QED BY <1>0, <1>1, <1>2 DEF HandsOver, Holds, CommitPcs

\* blob.Put stores under the key that the request is going to commit.
LEMMA PutHandsOver ==
    ASSUME ControlInv, Tidy, NEW p \in Reqs, Put(p)
    PROVE  HandsOver(p)
<1> DEFINE q == req[p]
           new == [q EXCEPT !.n = q.n + 1, !.pc = q.then]
<1>0. /\ q \in Request /\ req \in [Reqs -> Request] /\ q.pc = "put" /\ q.purge = {}
      /\ UNCHANGED rows /\ q.then \in CommitPcs /\ blobs \in [Refs -> SUBSET Reqs]
  BY ReqFacts DEF Put, metaVars, ReqOK, FlowKeys, Request
<1>1. /\ blobs' = [blobs EXCEPT ![<<p, q.n + 1>>] = q.data]
      /\ req' = [req EXCEPT ![p].n = @ + 1, ![p].pc = q.then]
  BY DEF Put, Tidy
<1>2. req'[p] = new
  BY <1>0, <1>1
<1>3. new.n = q.n + 1 /\ new.pc = q.then
  BY <1>0 DEF Request
<1> HIDE DEF new
<1>4. Cleared = {}
  BY <1>0, KeepsClear
<1>5. ASSUME NEW r \in Refs, blobs'[r] # blobs[r] PROVE Holds(p, req'[p], r)
  <2>1. r = <<p, q.n + 1>>
    BY <1>0, <1>1, <1>5
  <2> QED BY <1>0, <1>2, <1>3, <2>1 DEF Holds
<1> QED BY <1>0, <1>4, <1>5 DEF HandsOver, Holds, CommitPcs

\* A refused commit goes on to roll its object back.
LEMMA RefusedHandsOver ==
    ASSUME ControlInv, NEW p \in Reqs, UNCHANGED <<rows, blobs>>, req[p].pc \in CommitPcs,
           NEW out, Refused(p, out)
    PROVE  HandsOver(p)
<1> DEFINE new == [req[p] EXCEPT !.pc = "rollback", !.out = out]
<1>0. req[p] \in Request /\ req \in [Reqs -> Request] /\ req[p].purge = {}
  BY ReqFacts DEF ReqOK, FlowKeys, CommitPcs
<1>1. req'[p] = new
  BY <1>0 DEF Refused
<1>2. new.n = req[p].n /\ new.pc = "rollback"
  BY <1>0 DEF Request
<1>3. Cleared = {}
  BY KeepsClear
<1> HIDE DEF new
<1> QED BY <1>0, <1>1, <1>2, <1>3 DEF HandsOver, Holds

\* A store call that fails: a commit is rolled back, any other held nothing.
LEMMA FailHandsOver ==
    ASSUME ControlInv, Tidy, NEW p \in Reqs, Fail(p)
    PROVE  HandsOver(p)
<1>1. StoreFails(p) /\ UNCHANGED <<rows, blobs>>
  BY DEF Fail, ReplyLost, Abort, Tidy, StoreFails, metaVars
<1>2. CASE req[p].pc \in CommitPcs /\ Refused(p, "error")
  BY <1>1, <1>2, RefusedHandsOver
<1>3. CASE req[p].pc \in {"extend", "view", "get", "resolve", "readback", "remove"}
  <2>1. req[p].purge = {}
    BY <1>3, ReqFacts DEF ReqOK, FlowKeys
  <2> QED BY <1>1, <1>3, <2>1, EmptyHanded DEF CommitPcs
<1> QED BY <1>1, <1>2, <1>3 DEF StoreFails

\* A commit names the object it was holding, and takes over what rows lose.
LEMMA CommitHandsOver ==
    ASSUME ControlInv, NEW p \in Reqs, CommitRows(p), UNCHANGED blobs,
           Cleared \subseteq req'[p].purge
    PROVE  HandsOver(p)
<1>1. req[p].purge = {}
  BY ReqFacts DEF CommitRows, ReqOK, FlowKeys
<1>2. ASSUME NEW r, r = RefOf(p) PROVE Named(r)'
  <2>1. \E d \in DocIds : rows'[d].ref = r
    BY <1>2, CommitTakes
  <2> QED BY <2>1 DEF Named
<1> QED BY <1>1, <1>2 DEF HandsOver, Holds, RefOf

\* A creation loses no reference.
LEMMA InsertHandsOver ==
    ASSUME ControlInv, NEW p \in Reqs, InsertStep(p)
    PROVE  HandsOver(p)
<1>0. /\ req[p].pc = "insert" /\ UNCHANGED blobs /\ rows \in [DocIds -> Row]
  BY DEF InsertStep, ControlInv, ServiceTypeOK, TypeOK
<1>1. ASSUME NEW d \in DocIds, Insert(d, InsertInput(p))
      PROVE  HandsOver(p)
  <2>1. ASSUME NEW e \in DocIds PROVE rows'[e].ref = rows[e].ref \/ rows[e].ref = NoRef
    <3>1. CASE e = d
      BY <1>1, <3>1, NotLive DEF Insert, Fresh, Live
    <3> QED BY <1>0, <1>1, <3>1 DEF Insert
  <2>2. Cleared = {}
    BY <2>1, KeepsClear
  <2>3. CommitRows(p)
    BY <1>0, <1>1 DEF CommitRows
  <2> QED BY <1>0, <2>2, <2>3, CommitHandsOver
<1>2. ASSUME NEW out, Refused(p, out), UNCHANGED metaVars
      PROVE  HandsOver(p)
  BY <1>0, <1>2, RefusedHandsOver DEF metaVars, CommitPcs
<1> QED BY <1>1, <1>2 DEF InsertStep

\* What a commit lists is what the request has to destroy then.
LEMMA CommittedLists ==
    ASSUME ControlInv, NEW p \in Reqs, NEW refs, NEW d, Committed(p, refs, d)
    PROVE  req'[p].purge = refs
<1> DEFINE new == [req[p] EXCEPT !.pc = "purge", !.purge = refs, !.doc = d]
<1>0. req[p] \in Request /\ req \in [Reqs -> Request]
  BY ReqFacts
<1>1. req'[p] = new
  BY <1>0 DEF Committed
<1>2. new.purge = refs
  BY <1>0 DEF Request
<1> QED BY <1>1, <1>2

\* A swap takes over the object it supersedes.
LEMMA ReplaceHandsOver ==
    ASSUME ControlInv, NEW p \in Reqs, ReplaceStep(p)
    PROVE  HandsOver(p)
<1> DEFINE q == req[p]
<1>0. q.pc = "replace" /\ UNCHANGED blobs /\ rows \in [DocIds -> Row]
  BY DEF ReplaceStep, ControlInv, ServiceTypeOK, TypeOK
<1>1. CASE /\ ReplaceContainerBlob(q.doc, q.exp, RefOf(p), q.data)
           /\ Committed(p, {rows[q.doc].ref} \ {NoRef}, q.doc)
  <2>1. Cleared \subseteq {rows[q.doc].ref} \ {NoRef}
    BY <1>0, <1>1, MetaAssumption DEF Cleared, ReplaceContainerBlob
  <2>2. req'[p].purge = {rows[q.doc].ref} \ {NoRef}
    BY <1>1, CommittedLists
  <2>3. CommitRows(p)
    BY <1>0, <1>1 DEF CommitRows
  <2> QED BY <1>0, <2>1, <2>2, <2>3, CommitHandsOver
<1>2. ASSUME NEW out, Refused(p, out), UNCHANGED metaVars
      PROVE  HandsOver(p)
  BY <1>0, <1>2, RefusedHandsOver DEF metaVars, CommitPcs
<1> QED BY <1>1, <1>2 DEF ReplaceStep

\* A bundle takes over the objects of the files it absorbs.
LEMMA BundleHandsOver ==
    ASSUME ControlInv, NEW p \in Reqs, BundleStep(p)
    PROVE  HandsOver(p)
<1> DEFINE q == req[p]
<1>0. q.pc = "bundle" /\ UNCHANGED blobs
  BY DEF BundleStep
<1>1. ASSUME NEW d \in DocIds, Bundle(d, q.by, q.srcs, RefOf(p), q.data),
             Committed(p, RefsIn(q.srcs), d)
      PROVE  HandsOver(p)
  <2>1. ASSUME NEW r \in Refs, NEW e \in DocIds, rows[e].ref = r, rows'[e].ref # r
        PROVE  r \in RefsIn(q.srcs)
    <3>1. rows[d].ref = NoRef /\ r # NoRef
      BY <1>1, NotLive, MetaAssumption DEF Bundle, Fresh, Live
    <3>2. e \in q.srcs
      BY <1>1, <2>1, <3>1 DEF Bundle
    <3> QED BY <2>1, <3>1, <3>2 DEF RefsIn
  <2>2. req'[p].purge = RefsIn(q.srcs)
    BY <1>1, CommittedLists
  <2>3. Cleared \subseteq RefsIn(q.srcs)
    BY <2>1 DEF Cleared
  <2>4. CommitRows(p)
    BY <1>0, <1>1 DEF CommitRows
  <2> QED BY <1>0, <2>2, <2>3, <2>4, CommitHandsOver
<1>2. ASSUME NEW out, Refused(p, out), UNCHANGED metaVars
      PROVE  HandsOver(p)
  BY <1>0, <1>2, RefusedHandsOver DEF metaVars, CommitPcs
<1> QED BY <1>1, <1>2 DEF BundleStep

\* So does the edit of a bundle, with the bundle's own.
LEMMA RebundleHandsOver ==
    ASSUME ControlInv, NEW p \in Reqs, RebundleStep(p)
    PROVE  HandsOver(p)
<1> DEFINE q == req[p]
<1>0. q.pc = "rebundle" /\ UNCHANGED blobs
  BY DEF RebundleStep
<1>1. CASE /\ Rebundle(q.root, q.by, q.exp, q.srcs, RefOf(p), q.data)
           /\ Committed(p, RefsIn(q.srcs \cup {q.root}), q.root)
  <2>1. ASSUME NEW r \in Refs, NEW e \in DocIds, rows[e].ref = r, rows'[e].ref # r
        PROVE  r \in RefsIn(q.srcs \cup {q.root})
    <3>1. e \in q.srcs \cup {q.root} /\ r # NoRef
      BY <1>1, <2>1, MetaAssumption DEF Rebundle
    <3> QED BY <2>1, <3>1 DEF RefsIn
  <2>2. req'[p].purge = RefsIn(q.srcs \cup {q.root})
    BY <1>1, CommittedLists
  <2>3. Cleared \subseteq RefsIn(q.srcs \cup {q.root})
    BY <2>1 DEF Cleared
  <2>4. CommitRows(p)
    BY <1>0, <1>1 DEF CommitRows
  <2> QED BY <1>0, <2>2, <2>3, <2>4, CommitHandsOver
<1>2. ASSUME NEW out, Refused(p, out), UNCHANGED metaVars
      PROVE  HandsOver(p)
  BY <1>0, <1>2, RefusedHandsOver DEF metaVars, CommitPcs
<1> QED BY <1>1, <1>2 DEF RebundleStep

\* A removal takes over the objects of the rows it purges.
LEMMA RemoveHandsOver ==
    ASSUME ControlInv, NEW p \in Reqs, Remove(p)
    PROVE  HandsOver(p)
<1> DEFINE q == req[p]
<1>0. q.pc = "remove" /\ UNCHANGED blobs /\ q.purge = {}
  BY ReqFacts DEF Remove, ReqOK, FlowKeys
<1>1. CASE /\ RemoveAccess(q.doc, q.by)
           /\ Committed(p, RefsIn(PurgedBy(q.doc, q.by)), q.doc)
  <2>1. Cleared \subseteq RefsIn(PurgedBy(q.doc, q.by))
    BY <1>1, PurgeLists DEF RemoveAccess
  <2>2. req'[p].purge = RefsIn(PurgedBy(q.doc, q.by))
    BY <1>1, CommittedLists
  <2> QED BY <1>0, <2>1, <2>2 DEF HandsOver, Holds, CommitPcs
<1>2. CASE UNCHANGED metaVars
  BY <1>0, <1>2, EmptyHanded DEF metaVars, CommitPcs
<1> QED BY <1>1, <1>2 DEF Remove

\* A rollback destroys the one object the request held.
LEMMA RollbackHandsOver ==
    ASSUME ControlInv, Tidy, NEW p \in Reqs, Rollback(p)
    PROVE  HandsOver(p)
<1>0. /\ UNCHANGED rows /\ blobs' = [blobs EXCEPT ![RefOf(p)] = {}] /\ req[p].purge = {}
      /\ blobs \in [Refs -> SUBSET Reqs]
  BY ReqFacts DEF Rollback, metaVars, DeleteBlob, Tidy, ReqOK, FlowKeys
<1>1. Cleared = {}
  BY <1>0, KeepsClear
<1>2. ASSUME NEW r \in Refs, blobs'[r] # {}
      PROVE  blobs'[r] = blobs[r] /\ r # RefOf(p)
  BY <1>0, <1>2
<1> QED BY <1>0, <1>1, <1>2 DEF HandsOver, Holds, RefOf

\* A purge strikes the object it destroys off its list, and no other.
LEMMA PurgeHandsOver ==
    ASSUME ControlInv, Tidy, NEW p \in Reqs, PurgeStep(p)
    PROVE  HandsOver(p)
<1> DEFINE q == req[p]
<1>0. /\ q \in Request /\ req \in [Reqs -> Request] /\ q.pc = "purge" /\ UNCHANGED rows
      /\ blobs \in [Refs -> SUBSET Reqs] /\ Cleared = {}
  BY ReqFacts, KeepsClear DEF PurgeStep, metaVars
<1>1. ASSUME NEW x \in q.purge, DeleteBlob(x), req' = [req EXCEPT ![p].purge = @ \ {x}]
      PROVE  HandsOver(p)
  <2> DEFINE new == [q EXCEPT !.purge = q.purge \ {x}]
  <2>1. req'[p] = new
    BY <1>0, <1>1
  <2>2. new.purge = q.purge \ {x}
    BY <1>0 DEF Request
  <2>3. blobs' = [blobs EXCEPT ![x] = {}]
    BY <1>1 DEF DeleteBlob, Tidy
  <2> HIDE DEF new
  <2>4. ASSUME NEW r \in Refs, blobs'[r] # {}
        PROVE  blobs'[r] = blobs[r] /\ r # x
    BY <1>0, <2>3, <2>4
  <2> QED BY <1>0, <2>1, <2>2, <2>4 DEF HandsOver, Holds, CommitPcs
<1>2. CASE q.purge = {} /\ UNCHANGED blobs
  BY <1>0, <1>2, EmptyHanded DEF CommitPcs
<1> QED BY <1>1, <1>2 DEF PurgeStep

\* Whatever a request does, it lets go of nothing.
LEMMA RequestHandsOver ==
    ASSUME ControlInv, Tidy, NEW p \in Reqs,
           Arrive(p) \/ ClientView(p) \/ Work(p) \/ Fail(p)
    PROVE  HandsOver(p)
BY ReadsHandOver, ExtendHandsOver, PutHandsOver, FailHandsOver, InsertHandsOver,
   ReplaceHandsOver, BundleHandsOver, RebundleHandsOver, RemoveHandsOver,
   RollbackHandsOver, PurgeHandsOver DEF Work

----------------------------------------------------------------------------
(* The steps of the retention task and of everybody else.                  *)

\* No request moves and what rows lose is on the task's list; an object taken off
\* the list is gone.
LEMMA TaskKeeps ==
    ASSUME NothingLeaks, UNCHANGED req, Cleared \subseteq sweeper'.refs,
           \A r \in Refs : blobs'[r] # {} =>
               blobs'[r] = blobs[r] /\ (r \in sweeper.refs => r \in sweeper'.refs)
    PROVE  NothingLeaks'
<1> SUFFICES ASSUME NEW r \in Refs, blobs'[r] # {}
             PROVE  \/ Named(r)' \/ r \in sweeper'.refs
                    \/ \E s \in Reqs : Holds(s, req'[s], r)
  BY LeakFreeNext
<1> QED BY LeakFree, NamedOrCleared

\* The retention task destroys what it lists, and forgets a list only when done.
LEMMA BackgroundKeeps ==
    ASSUME ControlInv, Tidy, NothingLeaks, Background
    PROVE  NothingLeaks'
<1>0. /\ UNCHANGED req /\ sweeper \in SweeperState /\ blobs \in [Refs -> SUBSET Reqs]
      /\ sweeper.pc # "destroy" => sweeper.refs = {}
  BY BackgroundOK DEF ControlInv, ServiceTypeOK, SweeperInv
<1>1. CASE SweepBatch
  <2>1. PICK V \in SUBSET DocIds :
            /\ SweepRetention(sweeper.cutoff, V)
            /\ sweeper' = [sweeper EXCEPT !.pc = "destroy", !.refs = RefsIn(V),
                                          !.full = (Cardinality(V) = Batch)]
    BY <1>1 DEF SweepBatch
  <2>2. sweeper'.refs = RefsIn(V)
    BY <1>0, <2>1 DEF SweeperState
  <2>3. Cleared \subseteq RefsIn(V)
    BY <2>1, PurgeLists DEF SweepRetention
  <2> QED BY <1>0, <1>1, <2>2, <2>3, TaskKeeps DEF SweepBatch
<1>2. CASE SweepDestroy
  <2>0. Cleared = {}
    BY <1>2, KeepsClear DEF SweepDestroy, metaVars
  <2>1. ASSUME NEW x \in sweeper.refs, DeleteBlob(x),
               sweeper' = [sweeper EXCEPT !.refs = @ \ {x}]
        PROVE  NothingLeaks'
    <3>1. sweeper'.refs = sweeper.refs \ {x} /\ blobs' = [blobs EXCEPT ![x] = {}]
      BY <1>0, <2>1 DEF SweeperState, DeleteBlob, Tidy
    <3>2. ASSUME NEW r \in Refs, blobs'[r] # {}
          PROVE  blobs'[r] = blobs[r] /\ r # x
      BY <1>0, <3>1, <3>2
    <3> QED BY <1>0, <2>0, <3>1, <3>2, TaskKeeps
  <2>2. ASSUME sweeper.refs = {}, UNCHANGED blobs
        PROVE  NothingLeaks'
    BY <1>0, <2>0, <2>2, TaskKeeps
  <2> QED BY <1>2, <2>1, <2>2 DEF SweepDestroy
<1>3. CASE HistoryBatch
  <2>1. Cleared = {} /\ sweeper.refs = {} /\ UNCHANGED blobs
    BY <1>0, <1>3, ProcedureClears DEF HistoryBatch
  <2> QED BY <1>0, <2>1, TaskKeeps
<1>4. CASE SweepStart \/ SweepFails
  <2>1. Cleared = {} /\ sweeper.refs = {} /\ UNCHANGED blobs
    BY <1>0, <1>4, KeepsClear DEF SweepStart, SweepFails, metaVars
  <2> QED BY <1>0, <2>1, TaskKeeps
<1>5. CASE Stop
  <2>1. Cleared = {} /\ UNCHANGED <<blobs, sweeper>>
    BY <1>5, KeepsClear DEF Stop, CloseStore, StopTask, TaskStops, metaVars
  <2> QED BY <1>0, <2>1, TaskKeeps
<1>6. ~SweepCrashes
  BY DEF SweepCrashes, Tidy
<1> QED BY <1>1, <1>2, <1>3, <1>4, <1>5, <1>6 DEF Background, Sweep

\* Everybody else loses no reference.
LEMMA BystandersKeep ==
    ASSUME ControlInv, NothingLeaks, Bystanders \/ UNCHANGED vars
    PROVE  NothingLeaks'
<1>1. UNCHANGED <<blobs, req, sweeper>>
  BY BystandersOK DEF vars
<1>2. Cleared = {}
  BY ProcedureClears DEF Bystanders, GrantACL, Grant, ResultFreeze, DeleteHistory,
     Operator, Clock, Tick, vars
<1> QED BY <1>1, <1>2, TaskKeeps

\* Where no call on the object store fails, no reply is lost and nobody dies half way,
\* nothing is left in the object store but what a row names or somebody is going to
\* name or destroy, although any call on the database may fail and the store may be
\* closed under the handlers.
THEOREM NoLeaks ==
    ASSUME {"put", "delete", "abort", "lost_reply"} \cap Faults = {}
    PROVE  Spec => []NothingLeaks
<1>0. Tidy
  BY DEF Tidy
<1>1. ServiceInit => NothingLeaks
  BY DEF ServiceInit, NothingLeaks
<1>2. ServiceInv /\ NothingLeaks /\ [Next]_vars => NothingLeaks'
  <2> SUFFICES ASSUME ControlInv, KeyInv, NothingLeaks, [Next]_vars PROVE NothingLeaks'
    BY DEF ServiceInv
  <2>1. ASSUME NEW p \in Reqs, Arrive(p) \/ ClientView(p) \/ Work(p) \/ Fail(p)
        PROVE  NothingLeaks'
    <3>1. Moves(p) /\ UNCHANGED sweeper /\ req \in [Reqs -> Request]
      BY <2>1, RequestMoves, ReqFacts DEF KeyInv
    <3>2. \A s \in Reqs \ {p} : req'[s] = req[s]
      BY <3>1 DEF Moves
    <3> QED BY <1>0, <2>1, <3>1, <3>2, RequestHandsOver, HandsOverKeeps
  <2> QED BY <1>0, <2>1, NextSteps, BackgroundKeeps, BystandersKeep
<1> QED BY <1>1, <1>2, ServiceCorrect, PTL DEF Spec
=============================================================================
