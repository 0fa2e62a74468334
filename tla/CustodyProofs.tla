--------------------------- MODULE CustodyProofs ---------------------------
(***************************************************************************)
(* Who may write, name and destroy an object key, for every set of         *)
(* requests, documents, callers and faults: the custody part of the        *)
(* inductive invariant of ServiceProofs, and what follows for the bytes of *)
(* live documents.                                                         *)
(*                                                                         *)
(* Every step is of one of three kinds.  It may move rows, then no object  *)
(* is touched: rows only drop their references, but for the one row a      *)
(* commit writes.  It may destroy one object, or write one, and then no    *)
(* row is touched.                                                         *)
(***************************************************************************)
EXTENDS ServiceProofs

\* The references that rows lose in this step.
Cleared == {r \in Refs : \E e \in DocIds : rows[e].ref = r /\ rows'[e].ref # r}

\* The row is hard-deleted, or keeps its hash and at most drops its reference.
Drops(e) ==
    \/ rows'[e] = Blank("erased")
    \/ /\ rows'[e].hash = rows[e].hash /\ rows'[e].ref \in {NoRef, rows[e].ref}
       /\ rows'[e].status \in {rows[e].status, "expired", "deleted"}

\* The row gets the object of the request's commit.
TakenBy(p, e) ==
    /\ p \in Reqs /\ req[p].pc \in CommitPcs /\ req'[p].pc \notin CommitPcs
    /\ rows'[e].ref = RefOf(p) /\ rows'[e].hash = req[p].data
    /\ req'[p].pc = "rollback" => "lost_reply" \in Faults /\ req'[p].out = "error"

\* The request goes on without writing: it may only plan to destroy what rows
\* lose in this step, and to read what a row names now.
Calm(p) ==
    /\ req[p].pc # "done" /\ req'[p].n = req[p].n /\ req'[p].pc \notin CommitPcs
    /\ req'[p].purge \subseteq req[p].purge \cup Cleared
    /\ req'[p].pc = "fetch" =>
          \E d \in DocIds : /\ Live(d) /\ req'[p].snap.ref = rows[d].ref
                            /\ req'[p].snap.hash = rows[d].hash
    /\ req'[p].pc = "rollback" => req[p].pc \in CommitPcs

\* Rows move, at most d0 takes an object, none is touched.
RowKind(p0, d0) ==
    /\ UNCHANGED blobs
    /\ \A p \in Reqs : req'[p] = req[p] \/ Calm(p)
    /\ sweeper'.refs \subseteq sweeper.refs \cup Cleared
    /\ \A e \in DocIds \ {d0} : Drops(e)
    /\ d0 \in DocIds => TakenBy(p0, d0)

\* One object is destroyed, by whoever was going to.
DestroyKind(r) ==
    /\ UNCHANGED rows /\ blobs' = [blobs EXCEPT ![r] = {}]
    /\ \A p \in Reqs : req'[p] = req[p] \/ Calm(p)
    /\ sweeper'.refs \subseteq sweeper.refs
    /\ \/ r \in sweeper.refs
       \/ \E p \in Reqs : r \in req[p].purge
       \/ \E p \in Reqs :
             /\ req[p].pc = "rollback" /\ r = RefOf(p)
             /\ req'[p].pc # "rollback"
             /\ req[p].out = "error" => req'[p].pc = "done" /\ req'[p].out = "error"

\* One object is written under a key never used before.
WriteKind(p) ==
    /\ UNCHANGED <<rows, sweeper>>
    /\ req[p].pc = "put" /\ blobs' = [blobs EXCEPT ![<<p, req[p].n + 1>>] = req[p].data]
    /\ \A q \in Reqs \ {p} : req'[q] = req[q]
    /\ req'[p].pc \notin {"fetch", "rollback"} /\ req'[p].purge = {}
    /\ \/ req'[p].n = req[p].n /\ req'[p].pc = "done"
       \/ /\ req'[p].n = req[p].n + 1 /\ req'[p].pc \in CommitPcs
          /\ req'[p].data = req[p].data

----------------------------------------------------------------------------
(* What all kinds have in common.                                          *)

Advances(p) ==
    /\ req[p].pc # "done"
    /\ \/ req'[p].n = req[p].n /\ req'[p].pc \notin CommitPcs
       \/ req'[p].n = req[p].n + 1

\* A key is of one request, its first or its second.
LEMMA KeyParts ==
    ASSUME NEW r \in Refs
    PROVE  r[1] \in Reqs /\ r[2] \in {1, 2} /\ r = <<r[1], r[2]>> /\ r # NoRef
BY ServiceAssumption, MetaAssumption

\* A key whose commit is over stays so.
LEMMA SpentStays ==
    ASSUME ControlInv, \A p \in Reqs : req'[p] = req[p] \/ Advances(p),
           NEW r \in Refs, Spent(r)
    PROVE  Spent(r)'
<1>1. r[1] \in Reqs /\ r[2] \in {1, 2} /\ req[r[1]].n \in 0..2
  BY KeyParts, ReqFacts DEF Request
<1> QED BY <1>1 DEF Spent, Advances

\* So does one that was lost.
LEMMA LostStays ==
    ASSUME \A p \in Reqs : req'[p] = req[p] \/ Advances(p), NEW r \in Refs, Lost(r)
    PROVE  Lost(r)'
<1>1. r[1] \in Reqs /\ req'[r[1]] = req[r[1]]
  BY KeyParts DEF Lost, Advances
<1> QED BY <1>1 DEF Lost, RefOf

\* A key about to be committed is not named, nor is anybody going to destroy it.
LEMMA Unspent ==
    ASSUME ControlInv, KeyInv, NEW p \in Reqs, req[p].pc \in CommitPcs
    PROVE  /\ RefOf(p) \in Refs /\ ~Spent(RefOf(p)) /\ ~Named(RefOf(p))
<1>1. RefOf(p) \in Refs
  BY CommitArgs
<1>2. ~Spent(RefOf(p))
  BY DEF Spent, RefOf
<1> QED BY <1>1, <1>2 DEF KeyInv, NamesUnique

----------------------------------------------------------------------------
(* Steps that move rows.                                                   *)

\* A key is only named anew by the row that takes it.
LEMMA NamedBack ==
    ASSUME NEW p0, NEW d0, RowKind(p0, d0), NEW r \in Refs, Named(r)'
    PROVE  Named(r) \/ (d0 \in DocIds /\ r = RefOf(p0))
<1>1. PICK e \in DocIds : rows'[e].ref = r
  BY DEF Named
<1>2. CASE e = d0
  BY <1>1, <1>2 DEF RowKind, TakenBy
<1>3. CASE e # d0
  <2>1. Drops(e) /\ r # NoRef
    BY <1>3, KeyParts DEF RowKind
  <2> QED BY <1>1, <2>1 DEF Drops, Blank, Named
<1> QED BY <1>2, <1>3

\* A reference a row loses was named, and nobody names it any more.
LEMMA ClearedUnnamed ==
    ASSUME ControlInv, KeyInv, NEW p0, NEW d0, RowKind(p0, d0), NEW r \in Cleared
    PROVE  r \in Refs /\ Named(r) /\ Spent(r) /\ ~Named(r)'
<1>1. r \in Refs /\ r # NoRef /\ \E e \in DocIds : rows[e].ref = r /\ rows'[e].ref # r
  BY KeyParts DEF Cleared
<1>2. PICK e \in DocIds : rows[e].ref = r /\ rows'[e].ref # r
  BY <1>1
<1>3. Named(r) /\ Spent(r)
  BY <1>1, <1>2 DEF Named, KeyInv, NamesUnique
<1>4. ASSUME NEW f \in DocIds, rows'[f].ref = r PROVE FALSE
  <2>1. CASE f = d0
    <3>1. TakenBy(p0, d0) /\ r = RefOf(p0)
      BY <1>4, <2>1 DEF RowKind, TakenBy
    <3> QED BY <1>3, <3>1, Unspent DEF TakenBy
  <2>2. CASE f # d0
    <3>1. rows[f].ref = r
      BY <1>1, <1>4, <2>2 DEF RowKind, Drops, Blank
    <3>2. f = e
      BY <1>1, <1>2, <3>1 DEF KeyInv, NamesUnique
    <3> QED BY <1>2, <1>4, <3>2
  <2> QED BY <2>1, <2>2
<1> QED BY <1>1, <1>3, <1>4 DEF Named

\* Rows move and requests advance: the custody of the keys is kept.
LEMMA RowKindKeeps ==
    ASSUME ControlInv, ControlInv', KeyInv, NEW p0, NEW d0, RowKind(p0, d0)
    PROVE  KeyInv'
<1>1. \A p \in Reqs : req'[p] = req[p] \/ Advances(p)
  BY DEF RowKind, Calm, Advances
<1>2. ASSUME NEW r \in Refs, Spent(r) PROVE Spent(r)'
  BY <1>1, <1>2, SpentStays
<1>3. ASSUME d0 \in DocIds
      PROVE  /\ p0 \in Reqs /\ RefOf(p0) \in Refs /\ ~Spent(RefOf(p0))
             /\ ~Named(RefOf(p0)) /\ TakenBy(p0, d0) /\ req[p0].pc \in CommitPcs
             /\ req'[p0].n = req[p0].n
  BY <1>3, Unspent DEF RowKind, TakenBy, Calm
<1>4. ASSUME d0 \in DocIds, NEW r, r = RefOf(p0) PROVE Spent(r)' /\ r \in Refs
  <2>1. r[1] = p0 /\ r[2] = req[p0].n /\ req'[p0].pc \notin CommitPcs /\ r \in Refs
    BY <1>3, <1>4 DEF RefOf, TakenBy
  <2>2. req[p0].n \in 0..2
    BY <1>3, <1>4, ReqFacts DEF Request
  <2> QED BY <1>3, <1>4, <2>1, <2>2 DEF Spent
<1>5. NamesUnique'
  <2>1. ASSUME NEW r \in Refs, Named(r)' PROVE Spent(r)'
    BY <1>2, <1>4, <2>1, NamedBack DEF KeyInv, NamesUnique
  <2>2. ASSUME NEW d \in DocIds, NEW e \in DocIds, rows'[d].ref = rows'[e].ref,
               rows'[d].ref # NoRef, d # d0
        PROVE  d = e
    <3>1. rows[d].ref = rows'[d].ref
      BY <2>2 DEF RowKind, Drops, Blank
    <3>2. CASE e = d0
      <4>1. rows[d].ref = RefOf(p0)
        BY <2>2, <3>1, <3>2 DEF RowKind, TakenBy
      <4> QED BY <1>3, <3>2, <4>1 DEF Named
    <3>3. CASE e # d0
      <4>1. rows[e].ref = rows'[e].ref
        BY <2>2, <3>3 DEF RowKind, Drops, Blank
      <4> QED BY <2>2, <3>1, <4>1 DEF KeyInv, NamesUnique
    <3> QED BY <3>2, <3>3
  <2> QED BY <2>1, <2>2 DEF NamesUnique
<1>6. PurgesUnnamed'
  <2>1. ASSUME NEW r \in Refs, Spent(r), ~Named(r) PROVE Spent(r)' /\ ~Named(r)'
    BY <1>2, <1>3, <2>1, NamedBack
  <2>2. ASSUME NEW r \in Cleared PROVE Spent(r)' /\ ~Named(r)'
    BY <1>2, ClearedUnnamed
  <2>3. ASSUME NEW r \in Refs, r \in sweeper'.refs
        PROVE  Spent(r)' /\ ~Named(r)'
    BY <2>1, <2>2, <2>3 DEF RowKind, KeyInv, PurgesUnnamed
  <2>4. ASSUME NEW r \in Refs, NEW p \in Reqs, r \in req'[p].purge
        PROVE  Spent(r)' /\ ~Named(r)'
    BY <2>1, <2>2, <2>4 DEF RowKind, Calm, KeyInv, PurgesUnnamed
  <2> QED BY <2>3, <2>4 DEF PurgesUnnamed
<1>7. WritesHeld'
  <2>1. ASSUME NEW p \in Reqs, req'[p].pc \in CommitPcs
        PROVE  blobs'[RefOf(p)'] = req'[p].data
    <3>1. req'[p] = req[p]
      BY <2>1 DEF RowKind, Calm
    <3> QED BY <2>1, <3>1 DEF RowKind, RefOf, KeyInv, WritesHeld
  <2>2. ASSUME NEW p \in Reqs, req'[p].pc = "rollback"
        PROVE  ~Named(RefOf(p))' \/ ("lost_reply" \in Faults /\ req'[p].out = "error")
    <3>1. PICK r : r = RefOf(p)
      OBVIOUS
    <3>2. r = RefOf(p)'
      BY <2>2, <3>1 DEF RowKind, Calm, RefOf
    <3>3. r \in Refs
      <4>1. req'[p] \in Request /\ ReqOK(p, req[p])' /\ req'[p].n \in 1..2
        BY <2>2 DEF ControlInv, ServiceTypeOK, RequestInv, ReqOK, FlowKeys, Request
      <4> QED BY <3>2, <4>1, ServiceAssumption DEF RefOf
    <3>4. CASE req'[p] = req[p]
      <4>1. p0 # p \/ d0 \notin DocIds
        BY <1>3, <2>2, <3>4 DEF CommitPcs
      <4>2. ~Named(r) => ~Named(r)'
        BY <3>1, <3>3, <4>1, NamedBack DEF RefOf
      <4> QED BY <2>2, <3>1, <3>2, <3>4, <4>2 DEF KeyInv, WritesHeld
    <3>5. CASE Calm(p)
      <4>1. req[p].pc \in CommitPcs /\ ~Named(r)
        BY <2>2, <3>1, <3>5, Unspent DEF Calm
      <4>2. CASE Named(r)'
        <5>1. d0 \in DocIds /\ r = RefOf(p0)
          BY <3>3, <4>1, <4>2, NamedBack
        <5>2. p0 = p
          BY <3>1, <5>1 DEF RefOf
        <5> QED BY <1>3, <2>2, <5>1, <5>2 DEF TakenBy
      <4> QED BY <3>2, <4>2
    <3> QED BY <3>4, <3>5 DEF RowKind
  <2> QED BY <2>1, <2>2 DEF WritesHeld
<1>8. RowsBacked'
  <2> SUFFICES ASSUME NEW d \in DocIds, Live(d)'
               PROVE  \/ blobs[rows'[d].ref] = rows'[d].hash
                      \/ blobs[rows'[d].ref] = {} /\ Lost(rows[d].ref)'
    BY DEF RowsBacked, RowKind
  <2>1. rows'[d].ref \in Refs /\ rows'[d].ref # NoRef
    BY RowBytes, MetaAssumption
       DEF ControlInv, ChainInv, BytesIffLive, ServiceTypeOK, TypeOK, Row
  <2>2. CASE d = d0
    BY <1>3, <2>2 DEF TakenBy, KeyInv, WritesHeld
  <2>3. CASE d # d0
    <3>1. rows'[d].ref = rows[d].ref /\ rows'[d].hash = rows[d].hash
      BY <2>1, <2>3 DEF RowKind, Drops, Blank
    <3>2. Live(d)
      BY <2>1, <3>1, RowBytes
    <3>3. PICK r : r = rows[d].ref
      OBVIOUS
    <3>4. Lost(r) => Lost(r)'
      BY <1>1, <2>1, <3>1, <3>3, LostStays
    <3> QED BY <3>1, <3>2, <3>3, <3>4 DEF KeyInv, RowsBacked
  <2> QED BY <2>2, <2>3
<1>9. SnapsGood'
  <2> SUFFICES ASSUME NEW p \in Reqs, req'[p].pc = "fetch"
               PROVE  /\ req'[p].snap.ref \in Refs /\ Spent(req[p].snap.ref)'
                      /\ blobs[req'[p].snap.ref] \in {{}, req'[p].snap.hash}
    BY DEF SnapsGood, RowKind
  <2>1. PICK r : r = req'[p].snap.ref
    OBVIOUS
  <2>2. CASE req'[p] = req[p]
    <3>1. r \in Refs /\ Spent(r) /\ blobs[r] \in {{}, req'[p].snap.hash}
      BY <2>1, <2>2 DEF KeyInv, SnapsGood
    <3> QED BY <1>2, <2>1, <3>1
  <2>3. CASE Calm(p)
    <3>1. PICK d \in DocIds : Live(d) /\ r = rows[d].ref /\ req'[p].snap.hash = rows[d].hash
      BY <2>1, <2>3 DEF Calm
    <3>2. r \in Refs /\ Spent(r)
      BY <3>1, RowBytes DEF KeyInv, NamesUnique, Named
    <3>3. blobs[r] \in {{}, req'[p].snap.hash}
      BY <3>1 DEF KeyInv, RowsBacked
    <3> QED BY <1>2, <2>1, <3>2, <3>3
  <2> QED BY <2>2, <2>3 DEF RowKind
<1> QED BY <1>5, <1>6, <1>7, <1>8, <1>9 DEF KeyInv

----------------------------------------------------------------------------
(* Steps on the object store.                                              *)

\* While rows stay, their keys are named as before.
LEMMA RowsStay ==
    ASSUME UNCHANGED rows, NEW r
    PROVE  Named(r)' <=> Named(r)
BY DEF Named

\* One object destroyed: only what nobody names, or what a lost reply gave up.
LEMMA DestroyKindKeeps ==
    ASSUME ControlInv, ControlInv', KeyInv, NEW r0, DestroyKind(r0)
    PROVE  KeyInv'
<1>1. \A p \in Reqs : req'[p] = req[p] \/ Advances(p)
  BY DEF DestroyKind, Calm, Advances
<1>2. ASSUME NEW r \in Refs, Spent(r) PROVE Spent(r)'
  BY <1>1, <1>2, SpentStays
<1>3. Cleared = {}
  BY DEF DestroyKind, Cleared
<1>4. /\ r0 \in Refs /\ Spent(r0)
      /\ \/ ~Named(r0)
         \/ /\ "lost_reply" \in Faults /\ r0[1] \in Reqs /\ r0 = RefOf(r0[1])
            /\ req[r0[1]].n = req'[r0[1]].n
            /\ req'[r0[1]].pc = "done" /\ req'[r0[1]].out = "error"
  <2>1. CASE r0 \in sweeper.refs \/ \E p \in Reqs : r0 \in req[p].purge
    <3>1. r0 \in Refs
      BY <2>1 DEF ControlInv, ServiceTypeOK, SweeperState, Request
    <3> QED BY <2>1, <3>1 DEF KeyInv, PurgesUnnamed
  <2>2. ASSUME NEW p \in Reqs, req[p].pc = "rollback", r0 = RefOf(p), req'[p].pc # "rollback",
               req[p].out = "error" => req'[p].pc = "done" /\ req'[p].out = "error"
        PROVE  /\ r0 \in Refs /\ Spent(r0)
               /\ \/ ~Named(r0)
                  \/ /\ "lost_reply" \in Faults /\ r0[1] \in Reqs /\ r0 = RefOf(r0[1])
                     /\ req[r0[1]].n = req'[r0[1]].n
                     /\ req'[r0[1]].pc = "done" /\ req'[r0[1]].out = "error"
    <3>1. req[p].n \in {1, 2}
      BY <2>2, ReqFacts DEF ReqOK, FlowKeys, Request
    <3>2. r0[1] = p /\ r0[2] = req[p].n /\ r0 \in Refs
      BY <2>2, <3>1, ServiceAssumption DEF RefOf
    <3>3. Spent(r0)
      BY <2>2, <3>1, <3>2 DEF Spent, CommitPcs
    <3>4. req'[p].n = req[p].n
      BY <2>2 DEF DestroyKind, Calm
    <3> QED BY <2>2, <3>2, <3>3, <3>4 DEF KeyInv, WritesHeld
  <2> QED BY <2>1, <2>2 DEF DestroyKind
<1>5. /\ blobs \in [Refs -> SUBSET Reqs] /\ blobs'[r0] = {}
      /\ \A r \in Refs : r # r0 => blobs'[r] = blobs[r]
  BY <1>4 DEF DestroyKind, ControlInv, ServiceTypeOK
<1>6. NamesUnique'
  BY <1>2, RowsStay DEF DestroyKind, KeyInv, NamesUnique
<1>7. PurgesUnnamed'
  <2>1. ASSUME NEW r \in Refs, r \in sweeper'.refs \/ \E p \in Reqs : r \in req'[p].purge
        PROVE  Spent(r) /\ ~Named(r)
    BY <1>3, <2>1 DEF DestroyKind, Calm, KeyInv, PurgesUnnamed
  <2> QED BY <1>2, <2>1, RowsStay DEF DestroyKind, PurgesUnnamed
<1>8. WritesHeld'
  <2>1. ASSUME NEW p \in Reqs, req'[p].pc \in CommitPcs
        PROVE  blobs'[RefOf(p)'] = req'[p].data
    <3>1. req'[p] = req[p]
      BY <2>1 DEF DestroyKind, Calm
    <3>2. RefOf(p)' = RefOf(p) /\ RefOf(p) # r0 /\ RefOf(p) \in Refs
      BY <1>4, <2>1, <3>1, Unspent DEF RefOf
    <3> QED BY <1>5, <2>1, <3>1, <3>2 DEF KeyInv, WritesHeld
  <2>2. ASSUME NEW p \in Reqs, req'[p].pc = "rollback"
        PROVE  ~Named(RefOf(p))' \/ ("lost_reply" \in Faults /\ req'[p].out = "error")
    <3>1. CASE req'[p] = req[p]
      <4>1. RefOf(p)' = RefOf(p)
        BY <3>1 DEF RefOf
      <4> QED BY <2>2, <3>1, <4>1 DEF DestroyKind, KeyInv, WritesHeld, Named
    <3>2. CASE Calm(p)
      <4>1. RefOf(p)' = RefOf(p) /\ ~Named(RefOf(p))
        BY <2>2, <3>2, Unspent DEF Calm, RefOf
      <4> QED BY <4>1 DEF DestroyKind, Named
    <3> QED BY <3>1, <3>2 DEF DestroyKind
  <2> QED BY <2>1, <2>2 DEF WritesHeld
<1>9. RowsBacked'
  <2> SUFFICES ASSUME NEW d \in DocIds, Live(d)
               PROVE  \/ blobs'[rows[d].ref] = rows[d].hash
                      \/ blobs'[rows[d].ref] = {} /\ Lost(rows[d].ref)'
    BY DEF RowsBacked, DestroyKind, Live
  <2>1. PICK r : r = rows[d].ref
    OBVIOUS
  <2>2. r \in Refs /\ Named(r) /\ r = rows'[d].ref
    BY <2>1, RowBytes DEF Named, DestroyKind
  <2>3. CASE r = r0
    <3>1. Lost(r)'
      BY <1>4, <2>2, <2>3 DEF Lost, RefOf
    <3> QED BY <1>5, <2>1, <2>2, <2>3, <3>1
  <2>4. CASE r # r0
    <3>1. Lost(r) => Lost(r)'
      BY <1>1, <2>2, LostStays
    <3> QED BY <1>5, <2>1, <2>2, <2>4, <3>1 DEF KeyInv, RowsBacked
  <2> QED BY <2>3, <2>4
<1>10. SnapsGood'
  <2> SUFFICES ASSUME NEW p \in Reqs, req'[p].pc = "fetch"
               PROVE  /\ req'[p].snap.ref \in Refs /\ Spent(req[p].snap.ref)'
                      /\ blobs'[req'[p].snap.ref] \in {{}, req'[p].snap.hash}
    BY DEF SnapsGood
  <2>1. PICK r : r = req'[p].snap.ref
    OBVIOUS
  <2>2. r \in Refs /\ Spent(r) /\ blobs[r] \in {{}, req'[p].snap.hash}
    <3>1. CASE req'[p] = req[p]
      BY <2>1, <3>1 DEF KeyInv, SnapsGood
    <3>2. CASE Calm(p)
      <4>1. PICK d \in DocIds : Live(d) /\ r = rows[d].ref /\ req'[p].snap.hash = rows[d].hash
        BY <2>1, <3>2 DEF Calm
      <4>2. r \in Refs /\ Spent(r)
        BY <4>1, RowBytes DEF KeyInv, NamesUnique, Named
      <4> QED BY <4>1, <4>2 DEF KeyInv, RowsBacked
    <3> QED BY <3>1, <3>2 DEF DestroyKind
  <2> QED BY <1>2, <1>5, <2>1, <2>2
<1> QED BY <1>6, <1>7, <1>8, <1>9, <1>10 DEF KeyInv

\* One object written under a key nobody knows yet.
LEMMA WriteKindKeeps ==
    ASSUME ControlInv, ControlInv', KeyInv, NEW p0 \in Reqs, WriteKind(p0)
    PROVE  KeyInv'
<1> DEFINE k == <<p0, req[p0].n + 1>>
<1>0. PICK r0 : r0 = k
  OBVIOUS
<1>a. req[p0].n \in {0, 1} /\ req[p0].pc = "put"
  BY ReqFacts DEF WriteKind, ReqOK, FlowKeys, Request
<1>1. \A p \in Reqs : req'[p] = req[p] \/ Advances(p)
  BY DEF WriteKind, Advances, CommitPcs
<1>2. ASSUME NEW r \in Refs, Spent(r) PROVE Spent(r)'
  BY <1>1, <1>2, SpentStays
<1>3. r0 \in Refs /\ ~Spent(r0) /\ r0[1] = p0 /\ r0[2] = req[p0].n + 1
  BY <1>0, <1>a, ServiceAssumption DEF Spent
<1>4. /\ blobs \in [Refs -> SUBSET Reqs] /\ blobs'[r0] = req[p0].data
      /\ \A r \in Refs : r # r0 => blobs'[r] = blobs[r]
  BY <1>0, <1>3 DEF WriteKind, ControlInv, ServiceTypeOK
<1>5. NamesUnique'
  BY <1>2, RowsStay DEF WriteKind, KeyInv, NamesUnique
<1>6. PurgesUnnamed'
  <2>1. ASSUME NEW r \in Refs, r \in sweeper'.refs \/ \E p \in Reqs : r \in req'[p].purge
        PROVE  Spent(r) /\ ~Named(r)
    BY <2>1 DEF WriteKind, KeyInv, PurgesUnnamed
  <2> QED BY <1>2, <2>1, RowsStay DEF WriteKind, PurgesUnnamed
<1>7. WritesHeld'
  <2>1. ASSUME NEW p \in Reqs, p # p0, req'[p].pc \in CommitPcs
        PROVE  blobs'[RefOf(p)'] = req'[p].data
    <3>1. req'[p] = req[p]
      BY <2>1 DEF WriteKind
    <3>2. RefOf(p)' = RefOf(p) /\ RefOf(p) # r0 /\ RefOf(p) \in Refs
      BY <1>0, <2>1, <3>1, Unspent DEF RefOf
    <3> QED BY <1>4, <2>1, <3>1, <3>2 DEF KeyInv, WritesHeld
  <2>2. ASSUME req'[p0].pc \in CommitPcs
        PROVE  blobs'[RefOf(p0)'] = req'[p0].data
    <3>1. RefOf(p0)' = r0 /\ req'[p0].data = req[p0].data
      BY <1>0, <2>2 DEF WriteKind, RefOf, CommitPcs
    <3> QED BY <1>4, <3>1
  <2>3. ASSUME NEW p \in Reqs, req'[p].pc = "rollback"
        PROVE  ~Named(RefOf(p))' \/ ("lost_reply" \in Faults /\ req'[p].out = "error")
    <3>1. req'[p] = req[p] /\ RefOf(p)' = RefOf(p)
      BY <2>3 DEF WriteKind, RefOf
    <3> QED BY <2>3, <3>1 DEF WriteKind, KeyInv, WritesHeld, Named
  <2> QED BY <2>1, <2>2, <2>3 DEF WritesHeld
<1>8. RowsBacked'
  <2> SUFFICES ASSUME NEW d \in DocIds, Live(d)
               PROVE  \/ blobs'[rows[d].ref] = rows[d].hash
                      \/ blobs'[rows[d].ref] = {} /\ Lost(rows[d].ref)'
    BY DEF RowsBacked, WriteKind, Live
  <2>1. PICK r : r = rows[d].ref
    OBVIOUS
  <2>2. r \in Refs /\ Named(r) /\ r = rows'[d].ref
    BY <2>1, RowBytes DEF Named, WriteKind
  <2>3. r # r0
    BY <1>3, <2>2 DEF KeyInv, NamesUnique
  <2>4. Lost(r) => Lost(r)'
    BY <1>1, <2>2, LostStays
  <2> QED BY <1>4, <2>1, <2>2, <2>3, <2>4 DEF KeyInv, RowsBacked
<1>9. SnapsGood'
  <2> SUFFICES ASSUME NEW p \in Reqs, req'[p].pc = "fetch"
               PROVE  /\ req'[p].snap.ref \in Refs /\ Spent(req[p].snap.ref)'
                      /\ blobs'[req'[p].snap.ref] \in {{}, req'[p].snap.hash}
    BY DEF SnapsGood
  <2>1. PICK r : r = req'[p].snap.ref
    OBVIOUS
  <2>2. r \in Refs /\ Spent(r) /\ blobs[r] \in {{}, req'[p].snap.hash}
    BY <2>1 DEF WriteKind, KeyInv, SnapsGood
  <2>3. r # r0
    BY <1>3, <2>2
  <2> QED BY <1>2, <1>4, <2>1, <2>2, <2>3
<1> QED BY <1>5, <1>6, <1>7, <1>8, <1>9 DEF KeyInv

----------------------------------------------------------------------------
(* The kind of each step of a request.                                     *)

\* A step is of one of the three kinds.
SomeKind ==
    \/ \E p, d : RowKind(p, d)
    \/ \E r : DestroyKind(r)
    \/ \E p \in Reqs : WriteKind(p)

\* No id has the number of no parent.
LEMMA ZeroIsNoId == 0 \notin DocIds
BY DEF DocIds

\* How a request may go on for the step to be calm.
CalmTo(p, q) ==
    /\ q.n = req[p].n /\ q.pc \notin CommitPcs
    /\ q.purge \subseteq req[p].purge
    /\ q.pc = "fetch" =>
          \E d \in DocIds : /\ Live(d) /\ q.snap.ref = rows[d].ref
                            /\ q.snap.hash = rows[d].hash
    /\ q.pc = "rollback" => req[p].pc \in CommitPcs

\* A request that goes on so while nothing else changes.
LEMMA CalmStill ==
    ASSUME ControlInv, UNCHANGED <<rows, blobs, sweeper>>, NEW p \in Reqs,
           req[p].pc # "done", NEW q, CalmTo(p, q), req' = [req EXCEPT ![p] = q]
    PROVE  SomeKind
<1>1. req \in [Reqs -> Request]
  BY DEF ControlInv, ServiceTypeOK
<1>2. \A e \in DocIds : Drops(e)
  BY DEF Drops
<1>3. Calm(p) /\ \A r \in Reqs \ {p} : req'[r] = req[r]
  BY <1>1 DEF Calm, CalmTo
<1>4. RowKind(p, 0)
  BY <1>2, <1>3, ZeroIsNoId DEF RowKind
<1> QED BY <1>4 DEF SomeKind

\* An answer is calm.
LEMMA AnsweredCalm ==
    ASSUME ControlInv, NEW p \in Reqs, NEW out \in Results
    PROVE  CalmTo(p, Answered(req[p], out))
<1>1. /\ Answered(req[p], out).pc = "done" /\ Answered(req[p], out).n = req[p].n
      /\ Answered(req[p], out).purge = {}
  BY AnsweredType, ReqFacts
<1> QED BY <1>1 DEF CalmTo, CommitPcs

\* So a request that is answered takes a calm step.
LEMMA AnswerKind ==
    ASSUME ControlInv, UNCHANGED <<rows, blobs, sweeper>>, NEW p \in Reqs,
           req[p].pc # "done", NEW out \in Results, Answer(p, out)
    PROVE  SomeKind
BY AnsweredCalm, CalmStill DEF Answer

\* A request that only changes place takes a calm step.
LEMMA PcKind ==
    ASSUME ControlInv, UNCHANGED <<rows, blobs, sweeper>>, NEW p \in Reqs,
           req[p].pc # "done", NEW q, req' = [req EXCEPT ![p] = q],
           q.n = req[p].n, q.purge = req[p].purge,
           q.pc \notin CommitPcs \cup {"fetch", "rollback"}
    PROVE  SomeKind
<1>1. CalmTo(p, q)
  BY DEF CalmTo
<1> QED BY <1>1, CalmStill

\* A request that arrives: open, with an operation it may be and no key used.
Arrived(p) ==
    \E q : /\ req' = [req EXCEPT ![p] = q]
           /\ q.n = 0 /\ q.purge = {} /\ q.pc \in {"put", "view", "get"}
           /\ q.op \in OpNames /\ (q.op \in OpsOf[p] \/ q.op = "upload")

\* Every arrival is one.
LEMMA ArriveNew ==
    ASSUME NEW p \in Reqs, Arrive(p)
    PROVE  Arrived(p)
<1>1. ASSUME NEW c, NEW k, StartUpload(p, c, k)
      PROVE  Arrived(p)
  <2>1. PICK t \in RetentionTerms(c) :
            req' = [req EXCEPT ![p] =
               [Idle EXCEPT !.pc = "put", !.op = "upload", !.by = c, !.kind = k,
                            !.durable = t.durable, !.date = t.date, !.data = {p}]]
    BY <1>1 DEF StartUpload
  <2> DEFINE q == [Idle EXCEPT !.pc = "put", !.op = "upload", !.by = c, !.kind = k,
                            !.durable = t.durable, !.date = t.date, !.data = {p}]
  <2>2. q.n = 0 /\ q.purge = {} /\ q.pc = "put" /\ q.op = "upload"
    BY DEF Idle
  <2> HIDE DEF q
  <2> QED BY <2>1, <2>2 DEF q, Arrived, OpNames
<1>2. ASSUME NEW c, StartAssemble(p, c)
      PROVE  Arrived(p)
  <2> DEFINE q == [Idle EXCEPT !.pc = "put", !.op = "upload", !.by = c,
                     !.kind = "container", !.data = {p}]
  <2>1. q.n = 0 /\ q.purge = {} /\ q.pc = "put" /\ q.op = "upload"
    BY DEF Idle
  <2>2. req' = [req EXCEPT ![p] = q]
    BY <1>2 DEF StartAssemble
  <2> HIDE DEF q
  <2> QED BY <1>2, <2>1, <2>2 DEF StartAssemble, Arrived, OpNames
<1>3. ASSUME NEW c, NEW op, NEW d, StartOn(p, c, op, d)
      PROVE  Arrived(p)
  <2> DEFINE pc == IF op \in {"signed", "archive"} THEN "view" ELSE "get"
             q == [Idle EXCEPT !.op = op, !.by = c, !.doc = d, !.pc = pc]
  <2>1. pc \in {"view", "get"}
    OBVIOUS
  <2>2. req' = [req EXCEPT ![p] = q]
    BY <1>3 DEF StartOn
  <2> HIDE DEF pc
  <2>3. q.n = 0 /\ q.purge = {} /\ q.pc = pc /\ q.op = op
    BY DEF Idle
  <2> HIDE DEF q
  <2> QED BY <1>3, <2>1, <2>2, <2>3 DEF StartOn, Arrived, OpNames
<1>4. ASSUME NEW c, NEW srcs, NEW d, StartBundle(p, c, srcs, d)
      PROVE  Arrived(p)
  <2> DEFINE q == [Idle EXCEPT !.pc = "get", !.op = "bundle", !.by = c, !.doc = d,
                     !.srcs = srcs, !.todo = srcs]
  <2>1. q.n = 0 /\ q.purge = {} /\ q.pc = "get" /\ q.op = "bundle"
    BY DEF Idle
  <2>2. req' = [req EXCEPT ![p] = q]
    BY <1>4 DEF StartBundle
  <2> HIDE DEF q
  <2> QED BY <1>4, <2>1, <2>2 DEF StartBundle, Arrived, OpNames
<1>5. ASSUME NEW c, NEW srcs, NEW d, StartRebundle(p, c, d, srcs)
      PROVE  Arrived(p)
  <2> DEFINE q == [Idle EXCEPT !.pc = "get", !.op = "rebundle", !.by = c, !.doc = d,
                     !.root = d, !.srcs = srcs, !.todo = srcs]
  <2>1. q.n = 0 /\ q.purge = {} /\ q.pc = "get" /\ q.op = "rebundle"
    BY DEF Idle
  <2>2. req' = [req EXCEPT ![p] = q]
    BY <1>5 DEF StartRebundle
  <2> HIDE DEF q
  <2> QED BY <1>5, <2>1, <2>2 DEF StartRebundle, Arrived, OpNames
<1> QED BY <1>1, <1>2, <1>3, <1>4, <1>5 DEF Arrive

\* The arrival of a request is calm.
LEMMA ArriveKind ==
    ASSUME ControlInv, NEW p \in Reqs, Arrive(p)
    PROVE  SomeKind
<1>0. req[p].pc = "idle" /\ UNCHANGED <<rows, blobs, sweeper>>
  BY DEF Arrive, StartUpload, StartAssemble, StartOn, StartBundle, StartRebundle, metaVars
<1>1. req[p].n = 0 /\ req[p].purge = {}
  BY <1>0, ReqFacts DEF ReqOK, FlowKeys
<1>2. \E q : /\ req' = [req EXCEPT ![p] = q]
             /\ q.n = 0 /\ q.purge = {} /\ q.pc \in {"put", "view", "get"}
  BY ArriveNew DEF Arrived
<1> QED BY <1>0, <1>1, <1>2, PcKind DEF CommitPcs

\* Reading a row is calm, and what is read is what a live row names.
LEMMA GetRowKind ==
    ASSUME ControlInv, NEW p \in Reqs, GetRow(p)
    PROVE  SomeKind
<1> DEFINE q == req[p]
           row == Clone(q.doc)
           new == AfterGet(p, row)
<1>0. q \in Request /\ q.pc = "get" /\ UNCHANGED <<rows, blobs, sweeper>> /\ q.doc \in DocIds
  BY ReqFacts DEF GetRow, metaVars, ReqOK, FlowOps, Addressed
<1>1. CASE Answer(p, "not_found")
  BY <1>0, <1>1, AnswerKind DEF Results
<1>2. CASE req' = [req EXCEPT ![p] = new]
  <2>0. /\ row \in Row /\ row.ref = rows[q.doc].ref /\ row.hash = rows[q.doc].hash
    BY <1>0, CloneType
  <2> HIDE DEF row
  <2>1. CASE q.op = "delete"
    <3> DEFINE del == [q EXCEPT !.pc = "remove"]
    <3>1. del.n = q.n /\ del.purge = q.purge /\ del.pc = "remove" /\ new = del
      BY <1>0, <2>1 DEF AfterGet, Request
    <3> HIDE DEF del, new
    <3> QED BY <1>0, <1>2, <3>1, PcKind DEF CommitPcs
  <2>2. CASE q.op = "signed"
    <3> DEFINE pc == IF row.kind = "pdf" THEN "resolve" ELSE "put"
               root == IF row.parent # NoParent THEN row.parent ELSE q.doc
               sgn == [q EXCEPT !.snap = row, !.root = root, !.pc = pc, !.then = "insert"]
    <3>1. new = sgn /\ pc \in {"resolve", "put"}
      BY <2>2 DEF AfterGet, ToSigned
    <3> HIDE DEF pc, root
    <3>2. sgn.n = q.n /\ sgn.purge = q.purge /\ sgn.pc = pc
      BY <1>0 DEF Request
    <3> HIDE DEF sgn, new
    <3> QED BY <1>0, <1>2, <3>1, <3>2, PcKind DEF CommitPcs
  <2>3. CASE q.op = "archive"
    <3> DEFINE arc == [q EXCEPT !.exp = row.hash, !.pc = "put", !.then = "replace"]
    <3>1. arc.n = q.n /\ arc.purge = q.purge /\ arc.pc = "put"
      BY <1>0 DEF Request
    <3>2. new = arc \/ new = Answered(q, "unprocessable")
      BY <2>3 DEF AfterGet, ToArchived
    <3>3. CASE new = Answered(q, "unprocessable")
      BY <1>0, <1>2, <3>3, AnswerKind DEF Answer, Results
    <3> HIDE DEF arc, new
    <3> QED BY <1>0, <1>2, <3>1, <3>2, <3>3, PcKind DEF CommitPcs
  <2>4. CASE q.op \notin {"delete", "signed", "archive"}
    <3> DEFINE con == [q EXCEPT !.snap = row, !.pc = "fetch"]
    <3>1. con.n = q.n /\ con.purge = q.purge /\ con.pc = "fetch" /\ con.snap = row
      BY <1>0 DEF Request
    <3>2. (new = con /\ row.ref # NoRef) \/ new = Answered(q, "gone")
      BY <2>4 DEF AfterGet, ToContent
    <3>3. CASE new = Answered(q, "gone")
      BY <1>0, <1>2, <3>3, AnswerKind DEF Answer, Results
    <3>4. CASE new = con /\ row.ref # NoRef
      <4>1. Live(q.doc)
        BY <1>0, <2>0, <3>4, RowBytes
      <4> HIDE DEF con, new
      <4>2. CalmTo(p, new)
        BY <1>0, <2>0, <3>1, <3>4, <4>1 DEF CalmTo, CommitPcs
      <4> QED BY <1>0, <1>2, <4>2, CalmStill
    <3> QED BY <3>2, <3>3, <3>4
  <2> QED BY <2>1, <2>2, <2>3, <2>4
<1> QED BY <1>1, <1>2 DEF GetRow

\* Where bytes fetched lead: on, or to the answer, with the keys used so far; only
\* reads are answered with success here.
FetchLeads(p, new) ==
    \/ \E out \in Results : /\ new = Answered(req[p], out)
                            /\ out = "ok" => req[p].op \in {"read", "extract"}
    \/ /\ new.n = req[p].n /\ new.purge = req[p].purge
       /\ new.pc \in {"put", "get"} /\ new.op = req[p].op

\* That is so for every operation.
LEMMA AfterFetchParts ==
    ASSUME ControlInv, NEW p \in Reqs, req[p].pc = "fetch",
           NEW bytes \in SUBSET Reqs, NEW new \in AfterFetch(p, bytes)
    PROVE  FetchLeads(p, new)
<1> DEFINE q == req[p]
<1>0. q \in Request
  BY ReqFacts
<1>1. PICK c : c = q
  OBVIOUS
<1>2. c \in Request
  BY <1>0, <1>1
<1> DEFINE Same == /\ new.n = c.n /\ new.purge = c.purge
                   /\ new.pc \in {"put", "get"} /\ new.op = c.op
<1>3. ASSUME NEW mid, NEW todo, NEW commit, mid.n = c.n, mid.purge = c.purge,
             mid.op = c.op, mid \in Request, new \in NextSource(mid, todo, commit)
      PROVE  Same
  <2>1. CASE new = [mid EXCEPT !.todo = {}, !.pc = "put", !.then = commit]
    BY <1>3, <2>1 DEF Request
  <2>2. ASSUME NEW s \in todo, new = [mid EXCEPT !.todo = todo, !.doc = s, !.pc = "get"]
        PROVE  Same
    BY <1>3, <2>2 DEF Request
  <2> QED BY <1>3, <2>1, <2>2 DEF NextSource
<1> DEFINE Goal == \/ \E out \in Results : /\ new = Answered(c, out)
                                           /\ out = "ok" => c.op \in {"read", "extract"}
                   \/ Same
<1>4. ASSUME new \in Serve(c) \cup Extract(c), c.op \in {"read", "extract"} PROVE Goal
  BY <1>4 DEF Serve, Extract, Results
<1> DEFINE cs == [c EXCEPT !.data = bytes \cup {p}, !.exp = c.snap.hash,
                           !.pc = "put", !.then = "replace"]
<1>5. ASSUME NEW x, new = [cs EXCEPT !.then = x] \/ new = [cs EXCEPT !.root = x]
      PROVE Goal
  <2>1. CASE new = [cs EXCEPT !.then = x]
    <3>1. new.n = c.n /\ new.purge = c.purge /\ new.pc = "put" /\ new.op = c.op
      BY <1>2, <2>1 DEF Request
    <3> QED BY <3>1
  <2>2. CASE new = [cs EXCEPT !.root = x]
    <3>1. new.n = c.n /\ new.purge = c.purge /\ new.pc = "put" /\ new.op = c.op
      BY <1>2, <2>2 DEF Request
    <3> QED BY <3>1
  <2> QED BY <1>5, <2>1, <2>2
<1>6. ASSUME new \in Complete(p, c, bytes) PROVE Goal
  <2>1. \E x : new = [cs EXCEPT !.then = x]
    BY <1>6 DEF Complete, CoSigned
  <2> HIDE DEF cs
  <2> QED BY <1>5, <2>1
<1>7. ASSUME new \in AddSignature(p, c, bytes) PROVE Goal
  <2>1. new = Answered(c, "unprocessable") \/ new = [cs EXCEPT !.root = c.snap.parent]
    BY <1>7 DEF AddSignature, CoSigned
  <2> HIDE DEF cs
  <2> QED BY <1>5, <2>1 DEF Results
<1>8. ASSUME NEW commit, new \in TakeSource(p, c, bytes, commit) PROVE Goal
  <2> DEFINE mid == [c EXCEPT !.data = @ \cup bytes \cup {p}]
  <2>1. mid.n = c.n /\ mid.purge = c.purge /\ mid.op = c.op /\ mid \in Request
    BY <1>2 DEF Request
  <2>2. new = Answered(c, "not_bundleable") \/ new \in NextSource(mid, c.todo \ {c.doc}, commit)
    BY <1>8 DEF TakeSource
  <2> HIDE DEF mid
  <2> QED BY <1>3, <2>1, <2>2 DEF Results
<1>9. ASSUME new \in TakeDraft(p, c, bytes) PROVE Goal
  <2> DEFINE Draft(kept) == NextSource([c EXCEPT !.data = kept \cup {p},
                                                 !.exp = c.snap.hash], c.todo, "rebundle")
  <2>1. CASE new \in {Answered(c, "not_bundleable"), Answered(c, "not_found")}
    BY <2>1 DEF Results
  <2>2. ASSUME NEW kept \in SUBSET Reqs, new \in Draft(kept)
        PROVE  Goal
    <3> DEFINE mid == [c EXCEPT !.data = kept \cup {p}, !.exp = c.snap.hash]
    <3>1. kept \cup {p} \in SUBSET Reqs /\ c.snap.hash \in SUBSET Reqs
      BY <1>2, ServiceAssumption DEF Request, Row
    <3>2. mid.n = c.n /\ mid.purge = c.purge /\ mid.op = c.op /\ mid \in Request
      BY <1>2, <3>1 DEF Request
    <3>3. new \in NextSource(mid, c.todo, "rebundle")
      BY <2>2
    <3> HIDE DEF mid
    <3> QED BY <1>3, <3>2, <3>3
  <2>3. CASE new \in UNION {Draft(kept) :
                           kept \in {K \in SUBSET bytes : K # {} \/ c.srcs # {}}}
    <3>1. PICK kept \in SUBSET bytes : new \in Draft(kept)
      BY <2>3
    <3>2. kept \in SUBSET Reqs /\ new \in Draft(kept)
      BY <3>1
    <3> QED BY <2>2, <3>2
  <2> QED BY <1>9, <2>1, <2>3 DEF TakeDraft
<1>10. q.op \in {"read", "extract", "complete", "addsig", "bundle", "rebundle"}
  BY ReqFacts DEF ReqOK, FlowOps
<1>11. \/ new \in Serve(c) \cup Extract(c) /\ c.op \in {"read", "extract"}
       \/ new \in Complete(p, c, bytes)
       \/ new \in AddSignature(p, c, bytes) \/ new \in TakeDraft(p, c, bytes)
       \/ \E commit : new \in TakeSource(p, c, bytes, commit)
  BY <1>1, <1>10 DEF AfterFetch
<1>12. Goal
  BY <1>4, <1>6, <1>7, <1>8, <1>9, <1>11
<1> QED BY <1>1, <1>12 DEF FetchLeads

\* blob.Get and what follows is calm.
LEMMA FetchKind ==
    ASSUME ControlInv, NEW p \in Reqs, Fetch(p), req[p].snap.ref \in Refs
    PROVE  SomeKind
<1> DEFINE bytes == blobs[req[p].snap.ref]
<1>0. /\ req[p].pc = "fetch" /\ UNCHANGED <<rows, blobs, sweeper>> /\ bytes \in SUBSET Reqs
  BY ReqFacts DEF Fetch, metaVars
<1>1. CASE Answer(p, "gone")
  BY <1>0, <1>1, AnswerKind DEF Results
<1>2. ASSUME NEW new \in AfterFetch(p, bytes), req' = [req EXCEPT ![p] = new]
      PROVE  SomeKind
  <2>1. CASE \E out \in Results : new = Answered(req[p], out)
    BY <1>0, <1>2, <2>1, AnswerKind DEF Answer
  <2>2. CASE new.n = req[p].n /\ new.purge = req[p].purge /\ new.pc \in {"put", "get"}
    BY <1>0, <1>2, <2>2, PcKind DEF CommitPcs
  <2>3. FetchLeads(p, new)
    BY <1>0, AfterFetchParts
  <2> QED BY <2>1, <2>2, <2>3 DEF FetchLeads
<1> QED BY <1>1, <1>2 DEF Fetch

\* The signing client's fetch is calm.
LEMMA ClientViewKind ==
    ASSUME ControlInv, NEW p \in Reqs, ClientView(p)
    PROVE  SomeKind
<1> DEFINE data == blobs[rows[req[p].doc].ref] \cup {p}
           new == [req[p] EXCEPT !.pc = "get", !.data = data]
<1>0. /\ req[p] \in Request /\ req[p].pc = "view" /\ UNCHANGED <<rows, blobs, sweeper>>
      /\ req \in [Reqs -> Request]
  BY ReqFacts DEF ClientView, metaVars
<1>1. CASE Answer(p, "gone")
  BY <1>0, <1>1, AnswerKind DEF Results
<1>2. CASE req' = [req EXCEPT ![p].pc = "get", ![p].data = data]
  <2>1. req' = [req EXCEPT ![p] = new]
    BY <1>0, <1>2
  <2>2. new.n = req[p].n /\ new.purge = req[p].purge /\ new.pc = "get"
    BY <1>0 DEF Request
  <2> HIDE DEF new
  <2> QED BY <1>0, <2>1, <2>2, PcKind DEF CommitPcs
<1> QED BY <1>1, <1>2 DEF ClientView

\* So is the search for the chain's signed form.
LEMMA ResolveKind ==
    ASSUME ControlInv, NEW p \in Reqs, Resolve(p)
    PROVE  SomeKind
<1> DEFINE q == req[p]
<1>0. q \in Request /\ q.pc = "resolve" /\ UNCHANGED <<rows, blobs, sweeper>>
  BY ReqFacts DEF Resolve, metaVars
<1>1. CASE Answer(p, "not_found")
  BY <1>0, <1>1, AnswerKind DEF Results
<1>2. ASSUME NEW h, req' = [req EXCEPT ![p] = [q EXCEPT !.doc = h, !.pc = "get"]]
      PROVE  SomeKind
  <2> DEFINE new == [q EXCEPT !.doc = h, !.pc = "get"]
  <2>1. new.n = q.n /\ new.purge = q.purge /\ new.pc = "get"
    BY <1>0 DEF Request
  <2>2. req' = [req EXCEPT ![p] = new]
    BY <1>2
  <2> HIDE DEF new
  <2> QED BY <1>0, <2>1, <2>2, PcKind DEF CommitPcs
<1>3. ASSUME NEW h, req' = [req EXCEPT ![p] = [q EXCEPT !.doc = h, !.exp = rows[h].hash,
                                                        !.pc = "put", !.then = "replace"]]
      PROVE  SomeKind
  <2> DEFINE new == [q EXCEPT !.doc = h, !.exp = rows[h].hash, !.pc = "put",
                              !.then = "replace"]
  <2>1. new.n = q.n /\ new.purge = q.purge /\ new.pc = "put"
    BY <1>0 DEF Request
  <2>2. req' = [req EXCEPT ![p] = new]
    BY <1>3
  <2> HIDE DEF new
  <2> QED BY <1>0, <2>1, <2>2, PcKind DEF CommitPcs
<1> QED BY <1>1, <1>2, <1>3 DEF Resolve

\* A commit refused is calm too: nothing was named.
LEMMA RefusedKind ==
    ASSUME ControlInv, UNCHANGED <<rows, blobs, sweeper>>, NEW p \in Reqs,
           req[p].pc \in CommitPcs, NEW out, Refused(p, out)
    PROVE  SomeKind
<1> DEFINE new == [req[p] EXCEPT !.pc = "rollback", !.out = out]
<1>0. req[p] \in Request /\ req \in [Reqs -> Request]
  BY ReqFacts
<1>1. req' = [req EXCEPT ![p] = new]
  BY <1>0 DEF Refused
<1>2. new.n = req[p].n /\ new.purge = req[p].purge /\ new.pc = "rollback"
  BY <1>0 DEF Request
<1> HIDE DEF new
<1>3. CalmTo(p, new) /\ req[p].pc # "done"
  BY <1>2 DEF CalmTo, CommitPcs
<1> QED BY <1>1, <1>3, CalmStill

\* So are the failures that are answered.
LEMMA FailKind ==
    ASSUME ControlInv, NEW p \in Reqs, StoreFails(p) \/ Abort(p)
    PROVE  SomeKind
<1>1. UNCHANGED <<rows, blobs, sweeper>>
  BY DEF StoreFails, Abort, metaVars
<1>2. CASE req[p].pc \in CommitPcs /\ Refused(p, "error")
  BY <1>1, <1>2, RefusedKind
<1>3. CASE req[p].pc # "done" /\ (Answer(p, "ok") \/ Answer(p, "error"))
  BY <1>1, <1>3, AnswerKind DEF Results
<1> QED BY <1>2, <1>3 DEF StoreFails, Abort

\* The read-back is calm.
LEMMA ReadBackKind ==
    ASSUME ControlInv, NEW p \in Reqs, ReadBack(p)
    PROVE  SomeKind
<1> DEFINE new == [req[p] EXCEPT !.pc = "extend"]
<1>0. /\ req[p] \in Request /\ req \in [Reqs -> Request] /\ req[p].pc = "readback"
      /\ UNCHANGED <<rows, blobs, sweeper>>
  BY ReqFacts DEF ReadBack, metaVars
<1>1. CASE Answer(p, "not_found") \/ Answer(p, "ok")
  BY <1>0, <1>1, AnswerKind DEF Results
<1>2. CASE req' = [req EXCEPT ![p].pc = "extend"]
  <2>1. req' = [req EXCEPT ![p] = new]
    BY <1>0, <1>2
  <2>2. new.n = req[p].n /\ new.purge = req[p].purge /\ new.pc = "extend"
    BY <1>0 DEF Request
  <2> HIDE DEF new
  <2> QED BY <1>0, <2>1, <2>2, PcKind DEF CommitPcs
<1> QED BY <1>1, <1>2 DEF ReadBack

\* blob.Put writes, or changes nothing.
LEMMA PutKind ==
    ASSUME ControlInv, NEW p \in Reqs, Put(p)
    PROVE  SomeKind
<1> DEFINE q == req[p]
           stored == [blobs EXCEPT ![<<p, q.n + 1>>] = q.data]
<1>0. /\ q \in Request /\ req \in [Reqs -> Request] /\ q.pc = "put" /\ ReqOK(p, q)
      /\ UNCHANGED <<rows, sweeper>>
  BY ReqFacts DEF Put, metaVars
<1>1. CASE Answer(p, "error") /\ UNCHANGED blobs
  BY <1>0, <1>1, AnswerKind DEF Results
<1>2. CASE Answer(p, "error") /\ blobs' = stored
  <2>1. req'[p] = Answered(q, "error") /\ \A r \in Reqs \ {p} : req'[r] = req[r]
    BY <1>0, <1>2 DEF Answer
  <2>2. req'[p].pc = "done" /\ req'[p].n = q.n /\ req'[p].purge = {}
    BY <1>0, <2>1, AnsweredType DEF Results
  <2>3. WriteKind(p)
    BY <1>0, <1>2, <2>1, <2>2 DEF WriteKind
  <2> QED BY <2>3 DEF SomeKind
<1>3. CASE blobs' = stored /\ req' = [req EXCEPT ![p].n = @ + 1, ![p].pc = req[p].then]
  <2> DEFINE new == [q EXCEPT !.n = q.n + 1, !.pc = q.then]
  <2>1. req'[p] = new /\ \A r \in Reqs \ {p} : req'[r] = req[r]
    BY <1>0, <1>3
  <2>2. new.n = q.n + 1 /\ new.pc = q.then /\ new.purge = q.purge /\ new.data = q.data
    BY <1>0 DEF Request
  <2>3. q.then \in CommitPcs /\ q.purge = {}
    BY <1>0 DEF Request, ReqOK, FlowKeys
  <2> HIDE DEF new
  <2>4. WriteKind(p)
    BY <1>0, <1>3, <2>1, <2>2, <2>3 DEF WriteKind, CommitPcs
  <2> QED BY <2>4 DEF SomeKind
<1> QED BY <1>1, <1>2, <1>3 DEF Put

\* What a calm move looks like from the other requests.
LEMMA CalmMove ==
    ASSUME ControlInv, NEW p \in Reqs, req[p].pc # "done", NEW q, CalmTo(p, q),
           req' = [req EXCEPT ![p] = q]
    PROVE  /\ req'[p] = q
           /\ \A r \in Reqs : req'[r] = req[r] \/ Calm(r)
<1>1. req \in [Reqs -> Request]
  BY DEF ControlInv, ServiceTypeOK
<1>2. Calm(p) /\ req'[p] = q /\ \A r \in Reqs \ {p} : req'[r] = req[r]
  BY <1>1 DEF Calm, CalmTo
<1> QED BY <1>2

\* A rollback destroys the request's own object, or fails to.
LEMMA RollbackKind ==
    ASSUME ControlInv, NEW p \in Reqs, Rollback(p)
    PROVE  SomeKind
<1> DEFINE q == req[p]
           on == [q EXCEPT !.pc = "resolve", !.out = "none"]
<1>0. /\ q \in Request /\ req \in [Reqs -> Request] /\ q.pc = "rollback"
      /\ UNCHANGED <<rows, sweeper>> /\ DeleteBlob(RefOf(p)) /\ q.out \in Results
  BY ReqFacts DEF Rollback, metaVars, Request
<1>1. PICK new : /\ req' = [req EXCEPT ![p] = new] /\ CalmTo(p, new)
                 /\ new.pc \in {"resolve", "done"}
                 /\ q.out = "error" => new.pc = "done" /\ new.out = "error"
  <2>1. CASE q.then = "insert" /\ q.out = "chain_advanced"
    <3>1. req' = [req EXCEPT ![p] = on]
      BY <1>0, <2>1 DEF Rollback
    <3>2. on.n = q.n /\ on.purge = q.purge /\ on.pc = "resolve"
      BY <1>0 DEF Request
    <3> HIDE DEF on
    <3>3. CalmTo(p, on)
      BY <3>2 DEF CalmTo, CommitPcs
    <3> QED BY <2>1, <3>1, <3>2, <3>3
  <2>2. CASE Answer(p, q.out)
    <3>1. req' = [req EXCEPT ![p] = Answered(q, q.out)]
      BY <2>2 DEF Answer
    <3>2. Answered(q, q.out).pc = "done" /\ Answered(q, q.out).out = q.out
      BY <1>0, AnsweredType
    <3> QED BY <1>0, <3>1, <3>2, AnsweredCalm
  <2> QED BY <2>1, <2>2 DEF Rollback
<1>2. CASE UNCHANGED blobs
  BY <1>0, <1>1, <1>2, CalmStill
<1>3. CASE blobs' = [blobs EXCEPT ![RefOf(p)] = {}]
  <2>1. req'[p] = new /\ \A r \in Reqs : req'[r] = req[r] \/ Calm(r)
    BY <1>0, <1>1, CalmMove
  <2>2. DestroyKind(RefOf(p))
    BY <1>0, <1>1, <1>3, <2>1 DEF DestroyKind
  <2> QED BY <2>2 DEF SomeKind
<1> QED BY <1>0, <1>2, <1>3 DEF DeleteBlob

\* A purge destroys one of the objects on its list.
LEMMA PurgeKind ==
    ASSUME ControlInv, NEW p \in Reqs, PurgeStep(p)
    PROVE  SomeKind
<1> DEFINE q == req[p]
<1>0. /\ q \in Request /\ req \in [Reqs -> Request] /\ q.pc = "purge"
      /\ UNCHANGED <<rows, sweeper>>
  BY ReqFacts DEF PurgeStep, metaVars
<1>1. ASSUME NEW r \in q.purge, DeleteBlob(r), req' = [req EXCEPT ![p].purge = @ \ {r}]
      PROVE  SomeKind
  <2> DEFINE new == [q EXCEPT !.purge = q.purge \ {r}]
  <2>1. new.n = q.n /\ new.purge = q.purge \ {r} /\ new.pc = "purge"
    BY <1>0 DEF Request
  <2>2. req' = [req EXCEPT ![p] = new]
    BY <1>0, <1>1
  <2> HIDE DEF new
  <2>3. CalmTo(p, new)
    BY <2>1 DEF CalmTo, CommitPcs
  <2>4. CASE UNCHANGED blobs
    BY <1>0, <2>2, <2>3, <2>4, CalmStill
  <2>5. CASE blobs' = [blobs EXCEPT ![r] = {}]
    <3>1. \A s \in Reqs : req'[s] = req[s] \/ Calm(s)
      BY <1>0, <2>2, <2>3, CalmMove
    <3>2. DestroyKind(r)
      BY <1>0, <1>1, <2>5, <3>1 DEF DestroyKind
    <3> QED BY <3>2 DEF SomeKind
  <2> QED BY <1>1, <2>4, <2>5 DEF DeleteBlob
<1>2. ASSUME NEW pc \in {"readback", "extend"}, req' = [req EXCEPT ![p].pc = pc],
             UNCHANGED blobs
      PROVE  SomeKind
  <2> DEFINE new == [q EXCEPT !.pc = pc]
  <2>1. new.n = q.n /\ new.purge = q.purge /\ new.pc = pc
    BY <1>0 DEF Request
  <2>2. req' = [req EXCEPT ![p] = new]
    BY <1>0, <1>2
  <2> HIDE DEF new
  <2> QED BY <1>0, <1>2, <2>1, <2>2, PcKind DEF CommitPcs
<1>3. CASE Answer(p, "ok") /\ UNCHANGED blobs
  BY <1>0, <1>3, AnswerKind DEF Results
<1> QED BY <1>1, <1>2, <1>3 DEF PurgeStep

----------------------------------------------------------------------------
(* The kind of each step that moves rows.                                  *)

\* What the procedures do to references, apart from commits: nothing, or they
\* clear them.
LEMMA ProcedureDrops ==
    ASSUME TypeOK,
           \/ \E d \in DocIds : \E c, u : ExtendRetention(d, c, u)
           \/ \E d \in DocIds : \E c : RemoveAccess(d, c)
           \/ \E V, u : SweepRetention(u, V)
           \/ \E V, u : SweepHistory(u, V)
           \/ \E c, r : DeleteHistoryChain(c, r)
           \/ \E d \in DocIds, h \in BOOLEAN : SetLegalHold(d, h) \/ SetResultFreeze(d, h)
           \/ UNCHANGED rows
    PROVE  \A e \in DocIds : Drops(e)
<1>0. \A e \in DocIds : rows[e] \in Row
  BY RowTypes
<1>1. ASSUME NEW d, NEW new, rows' = [rows EXCEPT ![d] = new],
             d \in DocIds => /\ new.ref = rows[d].ref /\ new.hash = rows[d].hash
                             /\ new.status = rows[d].status
      PROVE  \A e \in DocIds : Drops(e)
  BY <1>1 DEF TypeOK, Drops
<1>2. ASSUME NEW d \in DocIds, NEW c, NEW u, ExtendRetention(d, c, u)
      PROVE  \A e \in DocIds : Drops(e)
  <2> DEFINE new == [rows[d] EXCEPT !.until = Later(rows[d].until, u), !.updated = now]
  <2>1. rows' = [rows EXCEPT ![d] = new]
    BY <1>2 DEF ExtendRetention
  <2>2. new.ref = rows[d].ref /\ new.hash = rows[d].hash /\ new.status = rows[d].status
    BY <1>0 DEF Row
  <2> HIDE DEF new
  <2> QED BY <1>1, <2>1, <2>2
<1>3. ASSUME NEW V, NEW status \in {"expired", "deleted"}, rows' = Purge(V, status)
      PROVE  \A e \in DocIds : Drops(e)
  BY <1>0, <1>3 DEF Purge, Row, Drops
<1>4. ASSUME NEW V, NEW u, SweepHistory(u, V)
      PROVE  \A e \in DocIds : Drops(e)
  BY <1>4 DEF SweepHistory, Blank, Drops
<1>5. ASSUME NEW c, NEW r, DeleteHistoryChain(c, r)
      PROVE  \A e \in DocIds : Drops(e)
  BY <1>5 DEF DeleteHistoryChain, Blank, Drops
<1>6. ASSUME NEW d \in DocIds, NEW h \in BOOLEAN, SetLegalHold(d, h)
      PROVE  \A e \in DocIds : Drops(e)
  <2> DEFINE new == [rows[d] EXCEPT !.hold = h]
  <2>1. rows' = [rows EXCEPT ![d] = new]
    BY <1>6 DEF SetLegalHold, TypeOK
  <2>2. new.ref = rows[d].ref /\ new.hash = rows[d].hash /\ new.status = rows[d].status
    BY <1>0 DEF Row
  <2> HIDE DEF new
  <2> QED BY <1>1, <2>1, <2>2
<1>7. ASSUME NEW d \in DocIds, NEW h \in BOOLEAN, SetResultFreeze(d, h)
      PROVE  \A e \in DocIds : Drops(e)
  <2> DEFINE r == ChainRoot(d)
             new == [rows[r] EXCEPT !.frozen = h, !.updated = now]
  <2>1. rows' = [rows EXCEPT ![r] = new]
    BY <1>7 DEF SetResultFreeze
  <2>2. r \in DocIds => /\ new.ref = rows[r].ref /\ new.hash = rows[r].hash
                        /\ new.status = rows[r].status
    BY <1>0 DEF Row
  <2> HIDE DEF new, r
  <2> QED BY <1>1, <2>1, <2>2
<1>8. CASE UNCHANGED rows
  BY <1>8 DEF Drops
<1> QED BY <1>2, <1>3, <1>4, <1>5, <1>6, <1>7, <1>8 DEF RemoveAccess, SweepRetention

\* Purged rows lose what they name.
LEMMA PurgeClears ==
    ASSUME ControlInv, NEW V \in SUBSET DocIds, NEW status, rows' = Purge(V, status)
    PROVE  RefsIn(V) \subseteq Cleared
<1> SUFFICES ASSUME NEW e \in V, rows[e].ref # NoRef PROVE rows[e].ref \in Cleared
  BY DEF RefsIn
<1>1. rows[e] \in Row /\ rows[e].ref \in Refs
  BY RowBytes
<1>2. rows'[e].ref = NoRef
  BY <1>1 DEF Purge, Row
<1> QED BY <1>1, <1>2, MetaAssumption DEF Cleared

\* A commit writes one row, and every other keeps its reference or drops it.
LEMMA CommitTakes ==
    ASSUME ControlInv, NEW p \in Reqs, CommitRows(p)
    PROVE  \E d \in DocIds :
              /\ rows'[d].ref = RefOf(p) /\ rows'[d].hash = req[p].data
              /\ \A e \in DocIds \ {d} : Drops(e)
<1> DEFINE q == req[p]
<1>0. /\ q \in Request /\ ReqOK(p, q) /\ rows \in [DocIds -> Row]
      /\ q.pc \in CommitPcs /\ Writes(q.op, q.pc)
  BY ReqFacts DEF TypeOK, CommitRows, CommitPcs, ReqOK, FlowOps, WritePcs
<1>1. ASSUME NEW d \in DocIds, Insert(d, InsertInput(p))
      PROVE  /\ rows'[d].ref = RefOf(p) /\ rows'[d].hash = req[p].data
             /\ \A e \in DocIds \ {d} : Drops(e)
  <2>1. InsertInput(p).ref = RefOf(p) /\ InsertInput(p).hash = q.data
    BY DEF InsertInput
  <2>2. rows'[d] = NewRow(InsertInput(p)) /\ \A e \in DocIds \ {d} : rows'[e] = rows[e]
    BY <1>0, <1>1 DEF Insert
  <2> QED BY <2>1, <2>2 DEF NewRow, Drops
<1>2. CASE q.pc = "replace" /\ ReplaceContainerBlob(q.doc, q.exp, RefOf(p), q.data)
  <2>1. q.doc \in DocIds
    BY <1>0, <1>2 DEF ReqOK, Addressed, Writes
  <2>2. /\ rows'[q.doc].ref = RefOf(p) /\ rows'[q.doc].hash = q.data
        /\ \A e \in DocIds \ {q.doc} : rows'[e] = rows[e]
    BY <1>0, <1>2, <2>1 DEF ReplaceContainerBlob, Row
  <2> QED BY <2>1, <2>2 DEF Drops
<1>3. ASSUME NEW d \in DocIds, Bundle(d, q.by, q.srcs, RefOf(p), q.data)
      PROVE  /\ rows'[d].ref = RefOf(p) /\ rows'[d].hash = req[p].data
             /\ \A e \in DocIds \ {d} : Drops(e)
  BY <1>3 DEF Bundle, NewRow, Blank, Drops
<1>4. CASE /\ q.pc = "rebundle"
           /\ Rebundle(q.root, q.by, q.exp, q.srcs, RefOf(p), q.data)
  <2>1. q.root \in DocIds
    BY <1>0, <1>4 DEF ReqOK, Addressed, Writes
  <2>2. rows[q.root].status = "received" /\ rows[q.root].kind = "container"
        /\ AbsorbErrors(q.srcs, q.by) = {}
    BY <1>4 DEF Rebundle, RebundleErrors
  <2>3. q.root \notin q.srcs
    <3>1. ~Bundleable(q.root)
      BY <2>2 DEF Bundleable
    <3>2. AbsorbResult(q.root, q.by) # "ok"
      BY <3>1 DEF AbsorbResult
    <3> QED BY <2>2, <3>2 DEF AbsorbErrors
  <2>4. /\ rows'[q.root].ref = RefOf(p) /\ rows'[q.root].hash = q.data
        /\ \A e \in DocIds \ {q.root} : rows'[e] = rows[e] \/ rows'[e] = Blank("erased")
    BY <1>0, <1>4, <2>1, <2>3 DEF Rebundle, Row
  <2> QED BY <2>1, <2>4 DEF Drops, Blank
<1> QED BY <1>1, <1>2, <1>3, <1>4 DEF CommitRows

\* A commit, its reply lost or not, moves rows and touches no object.
LEMMA CommitKind ==
    ASSUME ControlInv, KeyInv, NEW p \in Reqs, CommitRows(p), UNCHANGED <<blobs, sweeper>>,
           NEW new, req' = [req EXCEPT ![p] = new], new.n = req[p].n,
           new.pc \notin CommitPcs \cup {"fetch"}, new.purge \subseteq Cleared,
           new.pc = "rollback" => "lost_reply" \in Faults /\ new.out = "error"
    PROVE  SomeKind
<1>1. req \in [Reqs -> Request] /\ req[p].pc \in CommitPcs
  BY ReqFacts DEF CommitRows, CommitPcs
<1>2. PICK d \in DocIds : /\ rows'[d].ref = RefOf(p) /\ rows'[d].hash = req[p].data
                          /\ \A e \in DocIds \ {d} : Drops(e)
  BY CommitTakes
<1>3. req'[p] = new /\ \A r \in Reqs \ {p} : req'[r] = req[r]
  BY <1>1
<1>4. TakenBy(p, d)
  BY <1>1, <1>2, <1>3 DEF TakenBy
<1>5. Calm(p)
  BY <1>1, <1>3 DEF Calm, CommitPcs
<1>6. RowKind(p, d)
  BY <1>2, <1>3, <1>4, <1>5 DEF RowKind
<1> QED BY <1>6 DEF SomeKind

\* A commit that is followed by a purge.
LEMMA CommittedKind ==
    ASSUME ControlInv, KeyInv, NEW p \in Reqs, CommitRows(p), UNCHANGED <<blobs, sweeper>>,
           NEW refs \in SUBSET Cleared, NEW d, Committed(p, refs, d)
    PROVE  SomeKind
<1> DEFINE new == [req[p] EXCEPT !.pc = "purge", !.purge = refs, !.doc = d]
<1>0. req[p] \in Request /\ req \in [Reqs -> Request]
  BY ReqFacts
<1>1. req' = [req EXCEPT ![p] = new]
  BY <1>0 DEF Committed
<1>2. new.n = req[p].n /\ new.pc = "purge" /\ new.purge = refs
  BY <1>0 DEF Request
<1> HIDE DEF new
<1> QED BY <1>1, <1>2, CommitKind DEF CommitPcs

\* An insert.
LEMMA InsertKind ==
    ASSUME ControlInv, KeyInv, NEW p \in Reqs, InsertStep(p)
    PROVE  SomeKind
<1>0. /\ req[p] \in Request /\ req \in [Reqs -> Request] /\ req[p].pc = "insert"
      /\ req[p].purge = {} /\ UNCHANGED <<blobs, sweeper>>
  BY ReqFacts DEF InsertStep, ReqOK, FlowKeys
<1>1. ASSUME NEW d \in DocIds, Insert(d, InsertInput(p)),
             req' = [req EXCEPT ![p].pc = "readback", ![p].doc = d]
      PROVE  SomeKind
  <2> DEFINE new == [req[p] EXCEPT !.pc = "readback", !.doc = d]
  <2>1. CommitRows(p)
    BY <1>0, <1>1 DEF CommitRows
  <2>2. req' = [req EXCEPT ![p] = new]
    BY <1>0, <1>1
  <2>3. new.n = req[p].n /\ new.pc = "readback" /\ new.purge = {}
    BY <1>0 DEF Request
  <2> HIDE DEF new
  <2> QED BY <1>0, <2>1, <2>2, <2>3, CommitKind DEF CommitPcs
<1>2. ASSUME NEW out, Refused(p, out), UNCHANGED metaVars
      PROVE  SomeKind
  BY <1>0, <1>2, RefusedKind DEF metaVars, CommitPcs
<1> QED BY <1>1, <1>2 DEF InsertStep

\* A swap.
LEMMA ReplaceKind ==
    ASSUME ControlInv, KeyInv, NEW p \in Reqs, ReplaceStep(p)
    PROVE  SomeKind
<1> DEFINE q == req[p]
<1>0. /\ q \in Request /\ ReqOK(p, q) /\ q.pc = "replace" /\ UNCHANGED <<blobs, sweeper>>
      /\ rows \in [DocIds -> Row]
  BY ReqFacts DEF ReplaceStep, TypeOK
<1>1. q.doc \in DocIds
  BY <1>0 DEF ReqOK, Addressed, FlowOps, WritePcs, CommitPcs, Writes
<1>2. CASE /\ ReplaceContainerBlob(q.doc, q.exp, RefOf(p), q.data)
           /\ Committed(p, {rows[q.doc].ref} \ {NoRef}, q.doc)
  <2>1. CommitRows(p)
    BY <1>0, <1>2 DEF CommitRows
  <2>2. rows'[q.doc].ref = RefOf(p) /\ RefOf(p) # rows[q.doc].ref
    BY <1>0, <1>1, <1>2, Unspent DEF ReplaceContainerBlob, Row, CommitPcs, Named
  <2>3. {rows[q.doc].ref} \ {NoRef} \in SUBSET Cleared
    BY <1>0, <1>1, <2>2 DEF Row, Cleared
  <2> QED BY <1>0, <1>2, <2>1, <2>3, CommittedKind
<1>3. ASSUME NEW out, Refused(p, out), UNCHANGED metaVars
      PROVE  SomeKind
  BY <1>0, <1>3, RefusedKind DEF metaVars, CommitPcs
<1> QED BY <1>2, <1>3 DEF ReplaceStep

\* Absorbed rows were stored.
LEMMA AbsorbedStored ==
    ASSUME NEW srcs, NEW c, AbsorbErrors(srcs, c) = {}, NEW s \in srcs
    PROVE  Stored(s) /\ Bundleable(s)
<1>1. AbsorbResult(s, c) = "ok"
  BY DEF AbsorbErrors
<1> QED BY <1>1 DEF AbsorbResult

\* A bundle.
LEMMA BundleKind ==
    ASSUME ControlInv, KeyInv, NEW p \in Reqs, BundleStep(p)
    PROVE  SomeKind
<1> DEFINE q == req[p]
<1>0. /\ q \in Request /\ ReqOK(p, q) /\ q.pc = "bundle" /\ UNCHANGED <<blobs, sweeper>>
      /\ rows \in [DocIds -> Row] /\ q.srcs \in SUBSET DocIds
  BY ReqFacts DEF BundleStep, TypeOK, Request
<1>1. ASSUME NEW d \in DocIds, Bundle(d, q.by, q.srcs, RefOf(p), q.data),
             Committed(p, RefsIn(q.srcs), d)
      PROVE  SomeKind
  <2>1. CommitRows(p)
    BY <1>0, <1>1 DEF CommitRows
  <2>2. ASSUME NEW s \in q.srcs PROVE rows'[s].ref = NoRef
    <3>1. s \in DocIds /\ Stored(s) /\ Fresh(d)
      BY <1>0, <1>1, AbsorbedStored DEF Bundle
    <3>2. s # d
      BY <3>1 DEF Stored, Fresh
    <3> QED BY <1>1, <2>2, <3>1, <3>2 DEF Bundle, Blank
  <2>3. RefsIn(q.srcs) \in SUBSET Cleared
    BY <1>0, <2>2 DEF RefsIn, Row, Cleared
  <2> QED BY <1>0, <1>1, <2>1, <2>3, CommittedKind
<1>2. ASSUME NEW out, Refused(p, out), UNCHANGED metaVars
      PROVE  SomeKind
  BY <1>0, <1>2, RefusedKind DEF metaVars, CommitPcs
<1> QED BY <1>1, <1>2 DEF BundleStep

\* The edit of a bundle.
LEMMA RebundleKind ==
    ASSUME ControlInv, KeyInv, NEW p \in Reqs, RebundleStep(p)
    PROVE  SomeKind
<1> DEFINE q == req[p]
<1>0. /\ q \in Request /\ ReqOK(p, q) /\ q.pc = "rebundle" /\ UNCHANGED <<blobs, sweeper>>
      /\ rows \in [DocIds -> Row] /\ q.srcs \in SUBSET DocIds
  BY ReqFacts DEF RebundleStep, TypeOK, Request
<1>1. q.root \in DocIds
  BY <1>0 DEF ReqOK, Addressed, FlowOps, WritePcs, CommitPcs, Writes
<1>2. CASE /\ Rebundle(q.root, q.by, q.exp, q.srcs, RefOf(p), q.data)
           /\ Committed(p, RefsIn(q.srcs \cup {q.root}), q.root)
  <2>1. CommitRows(p)
    BY <1>0, <1>2 DEF CommitRows
  <2>2. ASSUME NEW s \in q.srcs \cup {q.root}
        PROVE  rows'[s].ref = NoRef \/ rows'[s].ref = RefOf(p)
    BY <1>0, <1>1, <1>2, <2>2 DEF Rebundle, Blank, Row
  <2>3. ~Named(RefOf(p))
    BY <1>0, Unspent DEF CommitPcs
  <2>4. RefsIn(q.srcs \cup {q.root}) \in SUBSET Cleared
    BY <1>0, <1>1, <2>2, <2>3 DEF RefsIn, Row, Cleared, Named
  <2> QED BY <1>0, <1>2, <2>1, <2>4, CommittedKind
<1>3. ASSUME NEW out, Refused(p, out), UNCHANGED metaVars
      PROVE  SomeKind
  BY <1>0, <1>3, RefusedKind DEF metaVars, CommitPcs
<1> QED BY <1>2, <1>3 DEF RebundleStep

\* A commit whose reply is lost.
LEMMA ReplyLostKind ==
    ASSUME ControlInv, KeyInv, NEW p \in Reqs, ReplyLost(p)
    PROVE  SomeKind
<1> DEFINE new == [req[p] EXCEPT !.pc = "rollback", !.out = "error"]
<1>0. /\ req[p] \in Request /\ req \in [Reqs -> Request] /\ CommitRows(p)
      /\ UNCHANGED <<blobs, sweeper>> /\ "lost_reply" \in Faults /\ req[p].pc \in CommitPcs
  BY ReqFacts DEF ReplyLost, CommitRows, CommitPcs
<1>1. req[p].purge = {}
  BY <1>0, ReqFacts DEF ReqOK, FlowKeys, CommitPcs
<1>2. req' = [req EXCEPT ![p] = new]
  BY <1>0 DEF ReplyLost, Refused
<1>3. new.n = req[p].n /\ new.pc = "rollback" /\ new.purge = {} /\ new.out = "error"
  BY <1>0, <1>1 DEF Request
<1> HIDE DEF new
<1> QED BY <1>0, <1>2, <1>3, CommitKind DEF CommitPcs

\* The rolling extension.
LEMMA ExtendKind ==
    ASSUME ControlInv, NEW p \in Reqs, Extend(p)
    PROVE  SomeKind
<1>0. /\ req[p] \in Request /\ ReqOK(p, req[p]) /\ TypeOK /\ req[p].pc = "extend"
      /\ UNCHANGED <<blobs, sweeper>>
  BY ReqFacts DEF Extend
<1>1. req[p].root \in DocIds
  BY <1>0, MetaAssumption DEF ReqOK, FlowOps, Request, DocIds, NoParent
<1>2. \A e \in DocIds : Drops(e)
  BY <1>0, <1>1, ProcedureDrops DEF Extend, metaVars
<1>3. /\ CalmTo(p, Answered(req[p], "ok"))
      /\ req' = [req EXCEPT ![p] = Answered(req[p], "ok")]
  BY AnsweredCalm DEF Results, Extend, Answer
<1>4. \A r \in Reqs : req'[r] = req[r] \/ Calm(r)
  BY <1>0, <1>3, CalmMove
<1>5. RowKind(p, 0)
  BY <1>0, <1>2, <1>4, ZeroIsNoId DEF RowKind
<1> QED BY <1>5 DEF SomeKind

\* store.RemoveAccess: what it lists for destruction is what rows lose.
LEMMA RemoveKind ==
    ASSUME ControlInv, NEW p \in Reqs, Remove(p)
    PROVE  SomeKind
<1> DEFINE q == req[p]
<1>0. /\ q \in Request /\ ReqOK(p, q) /\ TypeOK /\ q.pc = "remove"
      /\ UNCHANGED <<blobs, sweeper>> /\ req \in [Reqs -> Request]
  BY ReqFacts DEF Remove
<1>1. q.doc \in DocIds
  BY <1>0 DEF ReqOK, FlowOps, Addressed
<1>2. CASE RemoveAccess(q.doc, q.by) /\ Committed(p, RefsIn(PurgedBy(q.doc, q.by)), q.doc)
  <2> DEFINE V == PurgedBy(q.doc, q.by)
             refs == RefsIn(V)
             new == [q EXCEPT !.pc = "purge", !.purge = refs, !.doc = q.doc]
  <2>1. \A e \in DocIds : Drops(e)
    BY <1>0, <1>1, <1>2, ProcedureDrops
  <2>2. refs \subseteq Cleared
    <3>1. V \in SUBSET DocIds
      BY DEF PurgedBy, Members
    <3> QED BY <1>2, <3>1, PurgeClears DEF RemoveAccess
  <2> HIDE DEF refs
  <2>3. req'[p] = new /\ \A r \in Reqs \ {p} : req'[r] = req[r]
    BY <1>0, <1>2 DEF Committed, refs
  <2>4. new.n = q.n /\ new.pc = "purge" /\ new.purge = refs
    BY <1>0 DEF Request
  <2> HIDE DEF new
  <2>5. Calm(p)
    BY <1>0, <2>2, <2>3, <2>4 DEF Calm, CommitPcs
  <2>6. RowKind(p, 0)
    BY <1>0, <2>1, <2>3, <2>5, ZeroIsNoId DEF RowKind
  <2> QED BY <2>6 DEF SomeKind
<1>3. CASE /\ Answer(p, RemoveAccessResult(q.doc, q.by)) /\ UNCHANGED metaVars
  <2>1. RemoveAccessResult(q.doc, q.by) \in Results
    BY DEF RemoveAccessResult, Results
  <2> QED BY <1>0, <1>3, <2>1, AnswerKind DEF metaVars
<1> QED BY <1>2, <1>3 DEF Remove

\* Steps of the retention task: a sweep lists for destruction what rows lose.
LEMMA BackgroundKind ==
    ASSUME ControlInv, Background
    PROVE  SomeKind
<1>0. /\ UNCHANGED req /\ sweeper \in SweeperState /\ TypeOK
  BY BackgroundOK DEF ControlInv, ServiceTypeOK
<1>1. ASSUME UNCHANGED blobs, \A e \in DocIds : Drops(e),
             sweeper'.refs \subseteq sweeper.refs \cup Cleared
      PROVE  SomeKind
  <2>1. RowKind(0, 0)
    BY <1>0, <1>1, ZeroIsNoId DEF RowKind
  <2> QED BY <2>1 DEF SomeKind
<1>2. CASE SweepBatch
  <2>1. PICK V \in SUBSET DocIds :
            /\ SweepRetention(sweeper.cutoff, V)
            /\ sweeper' = [sweeper EXCEPT !.pc = "destroy", !.refs = RefsIn(V),
                                          !.full = (Cardinality(V) = Batch)]
    BY <1>2 DEF SweepBatch
  <2>2. \A e \in DocIds : Drops(e)
    BY <1>0, <2>1, ProcedureDrops
  <2>3. sweeper'.refs = RefsIn(V) /\ RefsIn(V) \subseteq Cleared
    BY <1>0, <2>1, PurgeClears DEF SweeperState, SweepRetention
  <2> QED BY <1>1, <1>2, <2>2, <2>3 DEF SweepBatch
<1>3. CASE SweepDestroy
  <2>0. UNCHANGED rows /\ \A e \in DocIds : Drops(e)
    BY <1>0, <1>3, ProcedureDrops DEF SweepDestroy, metaVars
  <2>1. ASSUME NEW r \in sweeper.refs, DeleteBlob(r),
               sweeper' = [sweeper EXCEPT !.refs = @ \ {r}]
        PROVE  SomeKind
    <3>1. sweeper'.refs = sweeper.refs \ {r}
      BY <1>0, <2>1 DEF SweeperState
    <3>2. CASE UNCHANGED blobs
      BY <1>1, <2>0, <3>1, <3>2
    <3>3. CASE blobs' = [blobs EXCEPT ![r] = {}]
      <4>1. DestroyKind(r)
        BY <1>0, <2>0, <2>1, <3>1, <3>3 DEF DestroyKind
      <4> QED BY <4>1 DEF SomeKind
    <3> QED BY <2>1, <3>2, <3>3 DEF DeleteBlob
  <2>2. ASSUME NEW pc, sweeper' = [sweeper EXCEPT !.pc = pc, !.full = FALSE], UNCHANGED blobs
        PROVE  SomeKind
    <3>1. sweeper'.refs = sweeper.refs
      BY <1>0, <2>2 DEF SweeperState
    <3> QED BY <1>1, <2>0, <2>2, <3>1
  <2> QED BY <1>3, <2>1, <2>2 DEF SweepDestroy
<1>4. CASE HistoryBatch
  <2>1. PICK V \in SUBSET DocIds :
               /\ SweepHistory(sweeper.cutoff, V)
               /\ \E pc : sweeper' = [sweeper EXCEPT !.pc = pc]
    BY <1>4 DEF HistoryBatch
  <2>2. \A e \in DocIds : Drops(e)
    BY <1>0, <2>1, ProcedureDrops
  <2>3. sweeper'.refs = sweeper.refs
    BY <1>0, <2>1 DEF SweeperState
  <2> QED BY <1>1, <1>4, <2>2, <2>3 DEF HistoryBatch
<1>5. CASE SweepStart \/ SweepFails \/ SweepCrashes \/ Stop
  <2>1. UNCHANGED <<rows, blobs>>
    BY <1>5 DEF SweepStart, SweepFails, SweepCrashes, Stop, CloseStore, StopTask,
                TaskStops, metaVars
  <2>2. sweeper'.refs \subseteq sweeper.refs
    BY <1>0, <1>5 DEF SweepStart, SweepFails, SweepCrashes, Stop, CloseStore, StopTask,
                      TaskStops, SweeperState
  <2>3. \A e \in DocIds : Drops(e)
    BY <1>0, <2>1, ProcedureDrops
  <2> QED BY <1>1, <2>1, <2>2, <2>3
<1> QED BY <1>2, <1>3, <1>4, <1>5 DEF Background, Sweep

\* Everybody else.
LEMMA BystandersKind ==
    ASSUME ControlInv, Bystanders \/ UNCHANGED vars
    PROVE  SomeKind
<1>0. UNCHANGED <<blobs, req, sweeper>> /\ TypeOK
  BY BystandersOK DEF ControlInv, ServiceTypeOK, vars
<1>1. \A e \in DocIds : Drops(e)
  BY <1>0, ProcedureDrops DEF Bystanders, GrantACL, Grant, ResultFreeze, DeleteHistory,
     Operator, Clock, Tick, vars
<1>2. RowKind(0, 0)
  BY <1>0, <1>1, ZeroIsNoId DEF RowKind
<1> QED BY <1>2 DEF SomeKind

\* Every step is of one of the three kinds.
LEMMA EveryKind ==
    ASSUME ControlInv, KeyInv, [Next]_vars
    PROVE  SomeKind
<1>1. ASSUME NEW p \in Reqs, Fetch(p) PROVE SomeKind
  BY <1>1, FetchKind DEF KeyInv, SnapsGood, Fetch
<1>2. ASSUME NEW p \in Reqs, Work(p) PROVE SomeKind
  BY <1>1, <1>2, GetRowKind, ResolveKind, PutKind, InsertKind, ReplaceKind, BundleKind,
     RebundleKind, RollbackKind, PurgeKind, ReadBackKind, ExtendKind, RemoveKind DEF Work
<1>3. ASSUME NEW p \in Reqs, Fail(p) PROVE SomeKind
  BY <1>3, FailKind, ReplyLostKind DEF Fail
<1> QED BY <1>2, <1>3, NextSteps, ArriveKind, ClientViewKind, BackgroundKind, BystandersKind

----------------------------------------------------------------------------
(* The theorems.                                                           *)

\* The inductive invariant.
ServiceInv == ControlInv /\ KeyInv

\* It holds when the service starts: nothing is stored, nobody has asked.
LEMMA InitServiceInv == ServiceInit => ServiceInv
<1> SUFFICES ASSUME ServiceInit PROVE ServiceInv
  OBVIOUS
<1>1. TypeOK /\ ChainInv /\ now = 0
  BY InitTypeOK, InitChainInv DEF ServiceInit, Init
<1>2. /\ \A p \in Reqs : req[p] = Idle
      /\ \A d \in DocIds : rows[d] = Blank("unused")
  BY DEF ServiceInit, Init
<1>3. ServiceTypeOK
  BY <1>1, IdleType DEF ServiceInit, ServiceTypeOK, SweeperState
<1>4. RequestInv
  <2> SUFFICES ASSUME NEW p \in Reqs, NEW q, q = Idle PROVE ReqOK(p, q)
    BY <1>2 DEF RequestInv, ReqOK
  <2>1. /\ q.pc = "idle" /\ q.op = "none" /\ q.n = 0 /\ q.purge = {} /\ q.todo = {}
        /\ q.durable = FALSE /\ q.date = NoDate
    BY DEF Idle
  <2> QED BY <2>1 DEF ReqOK, FlowOps, FlowKeys, FlowData, Addressed, WritePcs, CommitPcs
<1>5. SweeperInv
  BY <1>1 DEF ServiceInit, SweeperInv
<1>6. \A d \in DocIds : rows[d].ref = NoRef /\ ~Live(d)
  BY <1>2 DEF Blank, Live
<1>7. \A p \in Reqs : req[p].pc = "idle" /\ req[p].purge = {}
  BY <1>2 DEF Idle
<1>8. KeyInv
  BY <1>6, <1>7, MetaAssumption DEF ServiceInit, KeyInv, NamesUnique, PurgesUnnamed, WritesHeld,
     RowsBacked, SnapsGood, Named, CommitPcs
<1> QED BY <1>1, <1>3, <1>4, <1>5, <1>8 DEF ServiceInv, ControlInv

\* Every step keeps it.
LEMMA ServiceInvariance == ServiceInv /\ [Next]_vars => ServiceInv'
<1> SUFFICES ASSUME ControlInv, KeyInv, [Next]_vars PROVE ControlInv' /\ KeyInv'
  BY DEF ServiceInv
<1>1. ControlInv'
  BY ControlStep DEF KeyInv
<1> QED BY <1>1, EveryKind, RowKindKeeps, DestroyKindKeeps, WriteKindKeeps DEF SomeKind

\* So it always holds.
THEOREM ServiceCorrect == Spec => []ServiceInv
BY InitServiceInv, ServiceInvariance, PTL DEF Spec

\* Every request, the retention task and both stores keep their types, however the
\* handlers interleave and whatever fails under them.
THEOREM ServiceTypes == Spec => []ServiceTypeOK
<1>1. ServiceInv => ServiceTypeOK
  BY DEF ServiceInv, ControlInv
<1> QED BY <1>1, ServiceCorrect, PTL

\* The handlers and tasks, with arguments built from rows they read calls ago, drive
\* the metadata layer as its general client does: every behaviour of the service is
\* one of the metadata layer alone.
THEOREM ServiceIsMetaClient == Spec => ImplementsMeta
<1>1. ServiceInit => Init
  BY DEF ServiceInit
<1>2. ServiceInv /\ [Next]_vars => [MetaNext]_metaVars
  BY StepIsMeta DEF ServiceInv, KeyInv
<1> QED BY <1>1, <1>2, ServiceCorrect, PTL DEF Spec, ImplementsMeta, MetaSpec

\* So what holds of the metadata layer holds in the service, between any two calls of
\* its requests: a live row is never without a reference, nor a destroyed one with one;
\* a parent has one standing container and a tree one standing signed pdf; unlisted
\* bytes are dated.
THEOREM MetaHoldsInService ==
    Spec => [](/\ BytesIffLive
               /\ OneContainerPerParent
               /\ OneSignedPdfPerTree
               /\ OrphansExpire)
BY ServiceIsMetaClient, ChainsCorrect, OrphansBounded, PTL DEF ImplementsMeta

\* And what no step of the metadata layer may do, no request, sweep or operator does: end
\* a held row, revive a deleted one, expire one that is not due, purge a root that
\* somebody else is still listed on, or take the last entry of a root that stands,
\* unless its chain is over and removed from the history.
THEOREM MetaStepsInService ==
    Spec => /\ HeldRowKept
            /\ DeletedIsFinal
            /\ OnlyDueRowsExpire
            /\ RootOutlivesDepartures
            /\ RootsStayListed
BY ServiceIsMetaClient, HoldsRespected, DeletionFinal, ExpiryJustified, DeparturesCounted,
   RootsKeepTheirList, PTL DEF ImplementsMeta

\* A live row without its bytes is one whose last writer was told that it failed,
\* with any faults at all.
THEOREM LossesReported == Spec => []LossIsReported
<1>1. ServiceInv => LossIsReported
  <2> SUFFICES ASSUME ControlInv, KeyInv, NEW d \in DocIds, Live(d),
                      blobs[rows[d].ref] # rows[d].hash
               PROVE  \E p \in Reqs : rows[d].ref = RefOf(p) /\ req[p].out = "error"
    BY DEF ServiceInv, LossIsReported
  <2>1. Lost(rows[d].ref)
    BY DEF KeyInv, RowsBacked
  <2>2. rows[d].ref \in Refs
    BY RowBytes
  <2>3. rows[d].ref[1] \in Reqs
    BY <2>2, KeyParts
  <2> QED BY <2>1, <2>3 DEF Lost
<1> QED BY <1>1, ServiceCorrect, PTL

\* Where no reply of a commit is lost, every live document has exactly the bytes its
\* hash was taken of, whatever else fails.
THEOREM LiveRowsBacked ==
    ASSUME "lost_reply" \notin Faults
    PROVE  Spec => []Backed
<1>1. ServiceInv => Backed
  BY DEF ServiceInv, KeyInv, RowsBacked, Lost, Backed
<1> QED BY <1>1, ServiceCorrect, PTL

\* No row read earlier is ever served with other bytes than its own, with any faults.
THEOREM ReadsConsistent == Spec => []ReadsMatchHash
<1>1. ServiceInv => ReadsMatchHash
  BY DEF ServiceInv, KeyInv, SnapsGood, ReadsMatchHash
<1> QED BY <1>1, ServiceCorrect, PTL
=============================================================================
