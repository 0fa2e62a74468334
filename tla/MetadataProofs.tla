--------------------------- MODULE MetadataProofs ---------------------------
(***************************************************************************)
(* Proofs about MetadataStore and what ChainViews shows of it, for every   *)
(* number of ids, persons, products, organisations, every retention        *)
(* period, batch size and set of procedures.                               *)
(***************************************************************************)
EXTENDS ChainViews, TLAPS

\* Every id has a row record.
LEMMA RowTypes ==
    ASSUME TypeOK, NEW d \in DocIds
    PROVE  rows[d] \in Row
BY DEF TypeOK

\* An id without a row is a row record too.
LEMMA BlankType ==
    ASSUME NEW status \in Statuses
    PROVE  Blank(status) \in Row
BY MetaAssumption DEF Blank, Row, Statuses, Kinds, NoParent, NoDate, Callers

\* The empty store the service starts on is well typed.
THEOREM InitTypeOK == Init => TypeOK
BY BlankType DEF Init, TypeOK, Statuses

\* What every argument of Insert that MetaNext builds looks like.
InsertArg(in) ==
    /\ in.owner \in Callers /\ in.tenant \in Tenants \cup {NoTenant}
    /\ in.kind \in Kinds /\ in.parent \in 0..MaxDocs
    /\ in.ref \in Refs /\ in.hash \in Hashes
    /\ in.status \in {"received", "signed"} /\ in.until \in Nat \cup {NoDate}
    /\ in.parent # NoParent => rows[in.parent].status # "unused"
    /\ in.parent # NoParent => in.kind # "source"
    /\ in.until = NoDate => in.parent = NoParent

\* An upload, whatever its owner, is an argument Insert accepts.
LEMMA UploadsTyped ==
    ASSUME NEW c \in Callers, NEW t \in Tenants \cup {NoTenant},
           NEW dates \in SUBSET (Nat \cup {NoDate}), NEW in \in Uploads(c, t, dates)
    PROVE  InsertArg(in)
<1>1. in.owner \in Callers /\ in.tenant \in Tenants \cup {NoTenant}
  BY DEF Uploads
<1>2. in.kind \in Kinds
  BY DEF Uploads, Kinds
<1>3. in.parent = NoParent /\ in.parent \in 0..MaxDocs
  BY MetaAssumption DEF Uploads, NoParent
<1>4. in.ref \in Refs /\ in.hash \in Hashes
  BY DEF Uploads
<1>5. in.status \in {"received", "signed"}
  BY DEF Uploads
<1>6. in.until \in Nat \cup {NoDate}
  BY DEF Uploads
<1> QED BY <1>1, <1>2, <1>3, <1>4, <1>5, <1>6 DEF InsertArg

\* So is everything Ingest hands to Insert.
LEMMA InsertInputsTyped ==
    ASSUME now \in Nat, NEW c \in Callers, NEW in \in InsertInputs(c)
    PROVE  InsertArg(in)
<1>1. CASE in \in Uploads(c, NoTenant, {now + TTL})
  BY <1>1, UploadsTyped, MetaAssumption
<1>2. CASE in \in SignedForms(c)
  BY <1>2, MetaAssumption DEF SignedForms, InsertArg, Kinds, DocIds, NoDate
<1>3. CASE /\ c \in Products
           /\ in \in Uploads(c, TenantOf[c], {NoDate} \cup 1..(now + 1))
  <2>1. TenantOf[c] \in Tenants
    BY <1>3, MetaAssumption
  <2>2. {NoDate} \cup 1..(now + 1) \in SUBSET (Nat \cup {NoDate})
    OBVIOUS
  <2> QED BY <1>3, <2>1, <2>2, UploadsTyped
<1> QED BY <1>1, <1>2, <1>3 DEF InsertInputs

\* The row Insert builds from such an argument is well typed.
LEMMA NewRowTyped ==
    ASSUME now \in Nat, NEW in, InsertArg(in)
    PROVE  NewRow(in) \in Row
BY DEF NewRow, InsertArg, Row, Statuses

\* So is the access entry it seeds for a new root.
LEMMA SeedAclTyped ==
    ASSUME NEW d \in DocIds, NEW in, InsertArg(in)
    PROVE  SeedAcl(d, in) \subseteq AclEntry
<1>1. CASE in.parent # NoParent
  BY <1>1 DEF SeedAcl
<1>2. CASE in.parent = NoParent
  <2> DEFINE k == IF in.tenant = NoTenant THEN "sub" ELSE "product"
             e == [root |-> d, who |-> in.owner, read |-> TRUE, kind |-> k]
  <2>1. k \in {"sub", "serial", "product"}
    OBVIOUS
  <2>2. e \in AclEntry
    BY <2>1 DEF AclEntry, InsertArg
  <2>3. SeedAcl(d, in) = {e}
    BY <1>2 DEF SeedAcl
  <2> QED BY <2>2, <2>3
<1> QED BY <1>1, <1>2

----------------------------------------------------------------------------
(* Type correctness, procedure by procedure.                               *)

\* Insert keeps the types.
LEMMA InsertTyped ==
    ASSUME TypeOK, NEW d \in DocIds, NEW in, InsertArg(in), Insert(d, in)
    PROVE  TypeOK'
<1>1. NewRow(in) \in Row
  BY NewRowTyped DEF TypeOK
<1>2. SeedAcl(d, in) \subseteq AclEntry
  BY SeedAclTyped
<1> QED BY <1>1, <1>2 DEF TypeOK, Insert

\* The keep-latest swap keeps the types.
LEMMA ReplaceTyped ==
    ASSUME TypeOK, NEW d \in DocIds, NEW exp, NEW ref \in Refs,
           NEW hash \in Hashes, ReplaceContainerBlob(d, exp, ref, hash)
    PROVE  TypeOK'
<1> DEFINE new == [rows[d] EXCEPT !.ref = ref, !.hash = hash,
                      !.status = "signed", !.signed = TRUE, !.updated = now]
<1>1. new \in Row
  BY RowTypes DEF Row, Statuses, TypeOK
<1>2. rows' = [rows EXCEPT ![d] = new]
  BY DEF ReplaceContainerBlob
<1> QED BY <1>1, <1>2 DEF TypeOK, ReplaceContainerBlob

\* Bundle keeps the types.
LEMMA BundleTyped ==
    ASSUME TypeOK, NEW d \in DocIds, NEW c \in Callers,
           NEW srcs \in SUBSET DocIds, NEW ref \in Refs, NEW hash \in Hashes,
           Bundle(d, c, srcs, ref, hash)
    PROVE  TypeOK'
<1> DEFINE in == [owner |-> c, tenant |-> NoTenant, kind |-> "container",
                  parent |-> NoParent, ref |-> ref, hash |-> hash,
                  status |-> "received", until |-> now + TTL]
<1>1. InsertArg(in)
  BY MetaAssumption DEF InsertArg, Kinds, NoParent, TypeOK
<1>2. NewRow(in) \in Row /\ SeedAcl(d, in) \subseteq AclEntry
  BY <1>1, NewRowTyped, SeedAclTyped DEF TypeOK
<1>3. Blank("erased") \in Row
  BY BlankType DEF Statuses
<1> HIDE DEF in
<1>4. /\ rows' = [e \in DocIds |-> IF e = d THEN NewRow(in)
                                   ELSE IF e \in srcs THEN Blank("erased")
                                   ELSE rows[e]]
      /\ acl' = DropChains(srcs) \cup SeedAcl(d, in) /\ now' = now
  BY DEF Bundle, in
<1>5. rows' \in [DocIds -> Row]
  BY <1>2, <1>3, <1>4, RowTypes
<1> QED BY <1>2, <1>4, <1>5 DEF TypeOK, DropChains

\* Rebundle keeps the types.
LEMMA RebundleTyped ==
    ASSUME TypeOK, NEW d \in DocIds, NEW c, NEW exp,
           NEW srcs \in SUBSET DocIds, NEW ref \in Refs, NEW hash \in Hashes,
           Rebundle(d, c, exp, srcs, ref, hash)
    PROVE  TypeOK'
<1> DEFINE new == [rows[d] EXCEPT !.ref = ref, !.hash = hash, !.updated = now]
<1>1. Blank("erased") \in Row
  BY BlankType DEF Statuses
<1>2. new \in Row
  BY RowTypes DEF Row, TypeOK
<1> HIDE DEF new
<1>3. rows' = [e \in DocIds |-> IF e \in srcs THEN Blank("erased")
                                ELSE IF e = d THEN new ELSE rows[e]]
  BY DEF Rebundle, new
<1>4. rows' \in [DocIds -> Row]
  BY <1>1, <1>2, <1>3, RowTypes
<1> QED BY <1>4 DEF TypeOK, Rebundle, DropChains

\* Grant keeps the types.
LEMMA GrantTyped ==
    ASSUME TypeOK, NEW d \in DocIds, NEW c \in Persons, NEW read \in BOOLEAN,
           Grant(d, c, read)
    PROVE  TypeOK'
<1>1. ChainRoot(d) \in DocIds
  BY RowTypes, MetaAssumption DEF ChainRoot, Row, DocIds, NoParent
<1>2. [root |-> ChainRoot(d), kind |-> "serial", who |-> c, read |-> read]
        \in AclEntry
  BY <1>1 DEF AclEntry, Callers
<1> QED BY <1>2 DEF TypeOK, Grant

\* SetResultFreeze keeps the types.
LEMMA FreezeTyped ==
    ASSUME TypeOK, NEW d \in DocIds, NEW frozen \in BOOLEAN,
           SetResultFreeze(d, frozen)
    PROVE  TypeOK'
<1>1. ChainRoot(d) \in DocIds
  BY RowTypes, MetaAssumption DEF ChainRoot, Row, DocIds, NoParent
<1> DEFINE r == ChainRoot(d)
           new == [rows[r] EXCEPT !.frozen = frozen, !.updated = now]
<1>2. new \in Row
  BY <1>1, RowTypes DEF Row, TypeOK
<1>3. rows' = [rows EXCEPT ![r] = new]
  BY DEF SetResultFreeze
<1> QED BY <1>1, <1>2, <1>3 DEF TypeOK, SetResultFreeze

\* ExtendRetention keeps the types.
LEMMA ExtendTyped ==
    ASSUME TypeOK, NEW d \in DocIds, NEW c, NEW until \in Nat,
           ExtendRetention(d, c, until)
    PROVE  TypeOK'
<1> DEFINE new == [rows[d] EXCEPT !.until = Later(rows[d].until, until),
                      !.updated = now]
<1>1. Later(rows[d].until, until) \in Nat \cup {NoDate}
  BY RowTypes DEF Row, Later
<1>2. new \in Row
  BY <1>1, RowTypes DEF Row, TypeOK
<1>3. rows' = [rows EXCEPT ![d] = new]
  BY DEF ExtendRetention
<1> QED BY <1>2, <1>3 DEF TypeOK, ExtendRetention

\* Purging any set of rows leaves row records.
LEMMA PurgeTyped ==
    ASSUME TypeOK, NEW V, NEW status \in Statuses
    PROVE  Purge(V, status) \in [DocIds -> Row]
<1>1. ASSUME NEW e \in DocIds
      PROVE  [rows[e] EXCEPT !.status = status, !.ref = NoRef, !.updated = now]
                 \in Row
  BY RowTypes DEF Row, TypeOK
<1> QED BY <1>1, RowTypes DEF Purge

\* RemoveAccess keeps the types.
LEMMA RemoveTyped ==
    ASSUME TypeOK, NEW d \in DocIds, NEW c, RemoveAccess(d, c)
    PROVE  TypeOK'
BY PurgeTyped DEF TypeOK, RemoveAccess, WithoutMine, Statuses

\* The retention sweep keeps the types.
LEMMA SweepTyped ==
    ASSUME TypeOK, NEW cutoff, NEW V, SweepRetention(cutoff, V)
    PROVE  TypeOK'
BY PurgeTyped DEF TypeOK, SweepRetention, Statuses

\* The history sweep keeps the types.
LEMMA HistoryTyped ==
    ASSUME TypeOK, NEW cutoff, NEW V, SweepHistory(cutoff, V)
    PROVE  TypeOK'
BY BlankType, RowTypes DEF TypeOK, SweepHistory, Statuses

\* DeleteHistoryChain keeps the types.
LEMMA UnlistTyped ==
    ASSUME TypeOK, NEW c, NEW r, DeleteHistoryChain(c, r)
    PROVE  TypeOK'
BY BlankType, RowTypes DEF TypeOK, DeleteHistoryChain, DropChains, Statuses

\* Placing or lifting a hold keeps the types.
LEMMA HoldTyped ==
    ASSUME TypeOK, NEW d \in DocIds, NEW hold \in BOOLEAN, SetLegalHold(d, hold)
    PROVE  TypeOK'
<1>1. [rows[d] EXCEPT !.hold = hold] \in Row
  BY RowTypes DEF Row
<1> QED BY <1>1 DEF TypeOK, SetLegalHold

\* Types are preserved by every step of the layer.
LEMMA TypeInvariance == TypeOK /\ [MetaNext]_metaVars => TypeOK'
<1> SUFFICES ASSUME TypeOK, [MetaNext]_metaVars PROVE TypeOK'
  OBVIOUS
<1>1. CASE InsertAny
  BY <1>1, InsertInputsTyped, InsertTyped DEF InsertAny, TypeOK
<1>2. CASE ReplaceAny
  BY <1>2, ReplaceTyped DEF ReplaceAny
<1>3. CASE BundleAny
  BY <1>3, BundleTyped DEF BundleAny
<1>4. CASE RebundleAny
  BY <1>4, RebundleTyped DEF RebundleAny
<1>5. CASE \E d \in DocIds, c \in Persons, read \in BOOLEAN : Grant(d, c, read)
  BY <1>5, GrantTyped
<1>6. CASE \E d \in DocIds, frozen \in BOOLEAN : SetResultFreeze(d, frozen)
  BY <1>6, FreezeTyped
<1>7. CASE \E d \in DocIds, c \in Callers : ExtendRetention(d, c, now + TTL)
  <2>1. now + TTL \in Nat
    BY MetaAssumption DEF TypeOK
  <2> QED BY <1>7, <2>1, ExtendTyped
<1>8. CASE \E d \in DocIds, c \in Callers : RemoveAccess(d, c)
  BY <1>8, RemoveTyped
<1>9. CASE \E V \in SUBSET DocIds, cutoff \in 0..now : SweepRetention(cutoff, V)
  BY <1>9, SweepTyped
<1>10. CASE \E V \in SUBSET DocIds, cutoff \in 0..now : SweepHistory(cutoff, V)
  BY <1>10, HistoryTyped
<1>11. CASE \E r \in DocIds, c \in Callers : DeleteHistoryChain(c, r)
  BY <1>11, UnlistTyped
<1>12. CASE \E d \in DocIds, hold \in BOOLEAN : SetLegalHold(d, hold)
  BY <1>12, HoldTyped
<1>13. CASE Tick
  BY <1>13 DEF Tick, TypeOK
<1>14. CASE UNCHANGED metaVars
  BY <1>14 DEF metaVars, TypeOK
<1> QED BY <1>1, <1>2, <1>3, <1>4, <1>5, <1>6, <1>7, <1>8, <1>9, <1>10, <1>11,
           <1>12, <1>13, <1>14 DEF MetaNext, LifeNext, RewriteNext, HoldNext

\* Type correctness of the metadata layer, whatever procedures run on it.
THEOREM TypeCorrect == MetaSpec => []TypeOK
BY InitTypeOK, TypeInvariance, PTL DEF MetaSpec

----------------------------------------------------------------------------
(* What a step may do to a row.  Every invariant and action property below *)
(* follows from these three ways alone.                                    *)

\* The row is still there, or the id still has none.
Kept(e) ==
    /\ rows'[e].kind = rows[e].kind /\ rows'[e].parent = rows[e].parent
    /\ rows[e].status = "unused" <=> rows'[e].status = "unused"
    /\ Standing(e)' => Standing(e)
    /\ (Live(e) <=> rows[e].ref # NoRef) => (Live(e)' <=> rows'[e].ref # NoRef)
    /\ rows[e].status \in {"deleted", "erased"}
          => rows'[e].status = rows[e].status
    /\ rows[e].hold /\ Stored(e) => Stored(e)' /\ (Live(e) => Live(e)')
    /\ rows'[e].status = "expired" =>
          \/ rows[e].status = "expired"
          \/ rows[e].until # NoDate /\ rows[e].until < now
    /\ \/ rows'[e].until = rows[e].until
       \/ rows[e].until # NoDate /\ rows'[e].until > rows[e].until
    /\ Live(e) /\ rows[e].parent = NoParent /\ rows'[e].status = "deleted"
          => ~\E g \in acl' : g.root = e

\* The row is hard-deleted.
Erased(e) ==
    rows'[e] = Blank("erased") /\ Stored(e) /\ ~rows[e].hold

\* The id is handed out.
Created(e, in) ==
    /\ Fresh(e) /\ InsertArg(in) /\ InsertResult(in.kind, in.parent) = "ok"
    /\ rows'[e] = NewRow(in)

RowStep ==
    \/ \A e \in DocIds : Kept(e) \/ Erased(e)
    \/ \E d \in DocIds : \E in :
          Created(d, in) /\ \A e \in DocIds \ {d} : Kept(e) \/ Erased(e)

\* A row that does not change is kept.
LEMMA SameKept ==
    ASSUME NEW e \in DocIds, rows'[e] = rows[e]
    PROVE  Kept(e)
BY DEF Kept, Standing, Live, Stored

\* Insert creates one row and leaves the others.
LEMMA InsertRows ==
    ASSUME TypeOK, NEW d \in DocIds, NEW in, InsertArg(in), Insert(d, in)
    PROVE  RowStep
<1>1. Created(d, in)
  BY DEF Created, Insert, TypeOK
<1>2. \A e \in DocIds \ {d} : Kept(e)
  BY SameKept DEF Insert, TypeOK
<1> QED BY <1>1, <1>2 DEF RowStep

\* The swap rewrites one standing row and leaves the others.
LEMMA ReplaceRows ==
    ASSUME TypeOK, NEW d \in DocIds, NEW exp, NEW ref \in Refs,
           NEW hash \in Hashes, ReplaceContainerBlob(d, exp, ref, hash)
    PROVE  RowStep
<1>1. /\ Stored(d) /\ rows[d].status # "deleted"
      /\ rows'[d].kind = rows[d].kind /\ rows'[d].parent = rows[d].parent
      /\ rows'[d].status = "signed" /\ rows'[d].ref = ref
      /\ rows'[d].until = rows[d].until /\ rows'[d].signed
  BY DEF ReplaceContainerBlob, ReplaceResult, TypeOK, Row
<1>2. rows[d].status \in Statuses /\ ref # NoRef
  BY RowTypes, MetaAssumption DEF Row
<1>3. Kept(d)
  BY <1>1, <1>2 DEF Kept, Standing, Live, Stored, Statuses
<1>4. \A e \in DocIds \ {d} : Kept(e)
  BY SameKept DEF ReplaceContainerBlob, TypeOK
<1> QED BY <1>3, <1>4 DEF RowStep

\* A source a bundle may absorb is a stored row without a hold.
LEMMA AbsorbedErasable ==
    ASSUME NEW srcs, NEW c, AbsorbErrors(srcs, c) = {}, NEW e \in srcs
    PROVE  Stored(e) /\ ~rows[e].hold
<1>1. AbsorbResult(e, c) = "ok"
  BY DEF AbsorbErrors
<1> QED BY <1>1 DEF AbsorbResult

\* Bundle creates one root and erases its sources.
LEMMA BundleRows ==
    ASSUME TypeOK, NEW d \in DocIds, NEW c \in Callers,
           NEW srcs \in SUBSET DocIds, NEW ref \in Refs, NEW hash \in Hashes,
           Bundle(d, c, srcs, ref, hash)
    PROVE  RowStep
<1> DEFINE in == [owner |-> c, tenant |-> NoTenant, kind |-> "container",
                  parent |-> NoParent, ref |-> ref, hash |-> hash,
                  status |-> "received", until |-> now + TTL]
<1>1. InsertArg(in)
  BY MetaAssumption DEF InsertArg, Kinds, NoParent, TypeOK
<1>2. InsertResult(in.kind, in.parent) = "ok"
  BY DEF InsertResult
<1> HIDE DEF in
<1>3. rows' = [e \in DocIds |-> IF e = d THEN NewRow(in)
                                ELSE IF e \in srcs THEN Blank("erased")
                                ELSE rows[e]]
  BY DEF Bundle, in
<1>4. Created(d, in)
  BY <1>1, <1>2, <1>3 DEF Created, Bundle
<1>5. ASSUME NEW e \in DocIds \ {d} PROVE Kept(e) \/ Erased(e)
  <2>1. CASE e \in srcs
    BY <1>3, <2>1, AbsorbedErasable DEF Erased, Bundle
  <2>2. CASE e \notin srcs
    BY <1>3, <2>2, SameKept
  <2> QED BY <2>1, <2>2
<1> QED BY <1>4, <1>5 DEF RowStep

\* Rebundle rewrites the draft and erases its new sources.
LEMMA RebundleRows ==
    ASSUME TypeOK, NEW d \in DocIds, NEW c, NEW exp,
           NEW srcs \in SUBSET DocIds, NEW ref \in Refs, NEW hash \in Hashes,
           Rebundle(d, c, exp, srcs, ref, hash)
    PROVE  RowStep
<1>1. /\ AbsorbErrors(srcs, c) = {} /\ rows[d].status = "received"
      /\ ref # NoRef
  BY MetaAssumption DEF Rebundle, RebundleErrors
<1>2. ASSUME NEW e \in srcs PROVE Erased(e)
  BY <1>1, <1>2, AbsorbedErasable DEF Erased, Rebundle
<1>3. CASE d \notin srcs
  <2>1. /\ rows'[d].kind = rows[d].kind /\ rows'[d].parent = rows[d].parent
        /\ rows'[d].status = "received" /\ rows'[d].ref = ref
        /\ rows'[d].until = rows[d].until /\ rows'[d].signed = rows[d].signed
    BY <1>1, <1>3, RowTypes DEF Rebundle, Row
  <2>2. Kept(d)
    BY <1>1, <2>1 DEF Kept, Standing, Live, Stored
  <2>3. \A e \in DocIds : Kept(e) \/ Erased(e)
    <3>1. ASSUME NEW e \in DocIds, e \notin srcs, e # d PROVE Kept(e)
      BY <3>1, SameKept DEF Rebundle
    <3> QED BY <1>2, <2>2, <3>1
  <2> QED BY <2>3 DEF RowStep
<1>4. ASSUME NEW e \in DocIds, e \notin srcs, e # d PROVE Kept(e)
  BY <1>4, SameKept DEF Rebundle
<1> QED BY <1>2, <1>3, <1>4 DEF RowStep

\* A row purged with cause stays as a terminal record without bytes.
LEMMA PurgeRow ==
    ASSUME TypeOK, NEW V, NEW status \in {"expired", "deleted"},
           rows' = Purge(V, status), NEW e \in V, e \in DocIds, Stored(e),
           rows[e].status # "deleted", ~rows[e].hold,
           status = "expired" => rows[e].until # NoDate /\ rows[e].until < now,
           status = "deleted" => \/ rows[e].parent # NoParent
                                 \/ ~\E g \in acl' : g.root = e
    PROVE  Kept(e)
<1>1. /\ rows'[e].kind = rows[e].kind /\ rows'[e].parent = rows[e].parent
      /\ rows'[e].status = status /\ rows'[e].ref = NoRef
      /\ rows'[e].until = rows[e].until
  BY RowTypes DEF Purge, Row
<1>2. rows[e].status \in {"received", "signed", "expired"}
  BY RowTypes DEF Row, Statuses, Stored
<1> QED BY <1>1, <1>2 DEF Kept, Standing, Live, Stored

\* RemoveAccess only turns rows of the chain into deleted records.
LEMMA RemoveRows ==
    ASSUME TypeOK, NEW d \in DocIds, NEW c, RemoveAccess(d, c)
    PROVE  RowStep
<1> DEFINE V == PurgedBy(d, c)
<1>1. rows' = Purge(V, "deleted")
  BY DEF RemoveAccess
<1>2. \A e \in V : /\ e \in DocIds /\ Stored(e) /\ rows[e].status # "deleted"
                   /\ ~rows[e].hold
  BY DEF RemoveAccess, RemoveAccessResult, PurgedBy, Members
<1>3. ASSUME NEW e \in V
      PROVE  rows[e].parent # NoParent \/ ~\E g \in acl' : g.root = e
  <2>1. ChainRoot(d) \in DocIds
    BY RowTypes, MetaAssumption DEF ChainRoot, Row, DocIds, NoParent
  <2>2. e = ChainRoot(d) \/ rows[e].parent = ChainRoot(d)
    BY <1>3 DEF PurgedBy, Members
  <2>3. ~\E g \in acl' : g.root = ChainRoot(d)
    BY <1>3 DEF RemoveAccess, PurgedBy
  <2> QED BY <2>1, <2>2, <2>3 DEF DocIds, NoParent
<1> HIDE DEF V
<1>4. ASSUME NEW e \in DocIds PROVE Kept(e)
  <2>1. CASE e \in V
    BY <1>1, <1>2, <1>3, <2>1, PurgeRow
  <2>2. CASE e \notin V
    BY <1>1, <2>2, SameKept DEF Purge
  <2> QED BY <2>1, <2>2
<1> QED BY <1>4 DEF RowStep

\* The retention sweep only turns due rows into expired records.
LEMMA SweepRows ==
    ASSUME TypeOK, NEW V \in SUBSET DocIds, NEW cutoff \in 0..now,
           SweepRetention(cutoff, V)
    PROVE  RowStep
<1>1. rows' = Purge(V, "expired")
  BY DEF SweepRetention
<1>2. V \subseteq DueRows(cutoff)
  BY DEF SweepRetention, Batches
<1>3. \A e \in V : /\ Stored(e) /\ rows[e].status # "deleted" /\ ~rows[e].hold
                   /\ rows[e].until # NoDate /\ rows[e].until < cutoff
  BY <1>2 DEF DueRows, Live, Stored
<1>4. \A e \in V : rows[e].until < now
  <2>1. \A e \in V : rows[e].until \in Int
    BY RowTypes DEF Row, NoDate
  <2> QED BY <1>3, <2>1 DEF TypeOK
<1>5. ASSUME NEW e \in DocIds PROVE Kept(e)
  <2>1. CASE e \in V
    BY <1>1, <1>3, <1>4, <2>1, PurgeRow
  <2>2. CASE e \notin V
    BY <1>1, <2>2, SameKept DEF Purge
  <2> QED BY <2>1, <2>2
<1> QED BY <1>5 DEF RowStep

\* The history sweep only erases terminal records.
LEMMA HistoryRows ==
    ASSUME TypeOK, NEW V \in SUBSET DocIds, NEW cutoff, SweepHistory(cutoff, V)
    PROVE  RowStep
<1>1. V \subseteq OldRecords(cutoff)
  BY DEF SweepHistory, Batches
<1>2. ASSUME NEW e \in DocIds PROVE Kept(e) \/ Erased(e)
  <2>1. CASE e \in V
    BY <1>1, <2>1 DEF SweepHistory, Erased, OldRecords, Terminal, Stored
  <2>2. CASE e \notin V
    BY <2>2, SameKept DEF SweepHistory
  <2> QED BY <2>1, <2>2
<1> QED BY <1>2 DEF RowStep

\* DeleteHistoryChain only erases terminal records.
LEMMA UnlistRows ==
    ASSUME TypeOK, NEW c, NEW r, DeleteHistoryChain(c, r)
    PROVE  RowStep
<1>1. ASSUME NEW e \in DocIds PROVE Kept(e) \/ Erased(e)
  <2>1. CASE e \in Chain(r) /\ OwnedBy(e, c)
    BY <2>1 DEF DeleteHistoryChain, DeleteHistoryResult, Erased, Chain
  <2>2. CASE ~(e \in Chain(r) /\ OwnedBy(e, c))
    BY <2>2, SameKept DEF DeleteHistoryChain
  <2> QED BY <2>1, <2>2
<1> QED BY <1>1 DEF RowStep

\* Acts that only touch flags and dates of one row.
LEMMA TouchRows ==
    ASSUME TypeOK, NEW d \in DocIds, NEW row, rows' = [rows EXCEPT ![d] = row],
           Stored(d),
           row.kind = rows[d].kind, row.parent = rows[d].parent,
           row.status = rows[d].status, row.ref = rows[d].ref,
           row.signed = rows[d].signed,
           \/ row.until = rows[d].until
           \/ rows[d].until # NoDate /\ row.until > rows[d].until
    PROVE  RowStep
<1>1. rows'[d] = row
  BY DEF TypeOK
<1>2. Kept(d)
  BY <1>1 DEF Kept, Standing, Live, Stored
<1>3. \A e \in DocIds \ {d} : Kept(e)
  BY SameKept DEF TypeOK
<1> QED BY <1>2, <1>3 DEF RowStep

\* SetResultFreeze only touches a flag.
LEMMA FreezeRows ==
    ASSUME TypeOK, NEW d \in DocIds, NEW frozen \in BOOLEAN,
           SetResultFreeze(d, frozen)
    PROVE  RowStep
<1> DEFINE r == ChainRoot(d)
           row == [rows[r] EXCEPT !.frozen = frozen, !.updated = now]
<1>1. r \in DocIds
  BY RowTypes, MetaAssumption DEF ChainRoot, Row, DocIds, NoParent
<1>2. /\ row.kind = rows[r].kind /\ row.parent = rows[r].parent
      /\ row.status = rows[r].status /\ row.ref = rows[r].ref
      /\ row.until = rows[r].until /\ row.signed = rows[r].signed
  BY <1>1, RowTypes DEF Row
<1>3. rows' = [rows EXCEPT ![r] = row] /\ Stored(r)
  BY DEF SetResultFreeze
<1> HIDE DEF r, row
<1> QED BY <1>1, <1>2, <1>3, TouchRows

\* ExtendRetention only touches a date.
LEMMA ExtendRows ==
    ASSUME TypeOK, NEW d \in DocIds, NEW c, NEW until \in Nat,
           ExtendRetention(d, c, until)
    PROVE  RowStep
<1> DEFINE row == [rows[d] EXCEPT !.until = Later(rows[d].until, until),
                                  !.updated = now]
<1>1. /\ row.kind = rows[d].kind /\ row.parent = rows[d].parent
      /\ row.status = rows[d].status /\ row.ref = rows[d].ref
      /\ row.until = Later(rows[d].until, until)
      /\ row.signed = rows[d].signed
  BY RowTypes DEF Row
<1>2. \/ row.until = rows[d].until
      \/ rows[d].until # NoDate /\ row.until > rows[d].until
  BY <1>1 DEF Later
<1>3. rows' = [rows EXCEPT ![d] = row] /\ Stored(d)
  BY DEF ExtendRetention
<1> HIDE DEF row
<1> QED BY <1>1, <1>2, <1>3, TouchRows

\* Placing or lifting a hold only touches a flag.
LEMMA HoldRows ==
    ASSUME TypeOK, NEW d \in DocIds, NEW hold \in BOOLEAN, SetLegalHold(d, hold)
    PROVE  RowStep
<1> DEFINE row == [rows[d] EXCEPT !.hold = hold]
<1>1. /\ row.kind = rows[d].kind /\ row.parent = rows[d].parent
      /\ row.status = rows[d].status /\ row.ref = rows[d].ref
      /\ row.until = rows[d].until /\ row.signed = rows[d].signed
  BY RowTypes DEF Row
<1>2. rows' = [rows EXCEPT ![d] = row] /\ Stored(d)
  BY DEF SetLegalHold
<1> HIDE DEF row
<1> QED BY <1>1, <1>2, TouchRows

\* A step that leaves the rows alone keeps them all.
LEMMA NoRows == ASSUME UNCHANGED rows PROVE RowStep
BY SameKept DEF RowStep

\* Every step of the layer is one of the three ways.
LEMMA EveryRowStep == TypeOK /\ [MetaNext]_metaVars => RowStep
<1> SUFFICES ASSUME TypeOK, [MetaNext]_metaVars PROVE RowStep
  OBVIOUS
<1>1. CASE InsertAny
  BY <1>1, InsertInputsTyped, InsertRows DEF InsertAny, TypeOK
<1>2. CASE ReplaceAny
  BY <1>2, ReplaceRows DEF ReplaceAny
<1>3. CASE BundleAny
  BY <1>3, BundleRows DEF BundleAny
<1>4. CASE RebundleAny
  BY <1>4, RebundleRows DEF RebundleAny
<1>5. CASE \E d \in DocIds, c \in Persons, read \in BOOLEAN : Grant(d, c, read)
  BY <1>5, NoRows DEF Grant
<1>6. CASE \E d \in DocIds, frozen \in BOOLEAN : SetResultFreeze(d, frozen)
  BY <1>6, FreezeRows
<1>7. CASE \E d \in DocIds, c \in Callers : ExtendRetention(d, c, now + TTL)
  <2>1. now + TTL \in Nat
    BY MetaAssumption DEF TypeOK
  <2> QED BY <1>7, <2>1, ExtendRows
<1>8. CASE \E d \in DocIds, c \in Callers : RemoveAccess(d, c)
  BY <1>8, RemoveRows
<1>9. CASE \E V \in SUBSET DocIds, cutoff \in 0..now : SweepRetention(cutoff, V)
  BY <1>9, SweepRows
<1>10. CASE \E V \in SUBSET DocIds, cutoff \in 0..now : SweepHistory(cutoff, V)
  BY <1>10, HistoryRows
<1>11. CASE \E r \in DocIds, c \in Callers : DeleteHistoryChain(c, r)
  BY <1>11, UnlistRows
<1>12. CASE \E d \in DocIds, hold \in BOOLEAN : SetLegalHold(d, hold)
  BY <1>12, HoldRows
<1>13. CASE Tick
  BY <1>13, NoRows DEF Tick
<1>14. CASE UNCHANGED metaVars
  BY <1>14, NoRows DEF metaVars
<1> QED BY <1>1, <1>2, <1>3, <1>4, <1>5, <1>6, <1>7, <1>8, <1>9, <1>10, <1>11,
           <1>12, <1>13, <1>14 DEF MetaNext, LifeNext, RewriteNext, HoldNext

----------------------------------------------------------------------------
(* The inductive invariant of the chain structure.                         *)

\* A child hangs below an id that was handed out, so a new row has no children:
\* without it a new signed pdf could meet a child that was there before it.
ParentsUsed ==
    \A d \in DocIds :
        rows[d].parent # NoParent => rows[rows[d].parent].status # "unused"

ChainInv ==
    /\ TypeOK
    /\ ParentsUsed
    /\ OneContainerPerParent
    /\ OneSignedPdfPerTree
    /\ BytesIffLive

\* The parent of a child is an id.
LEMMA ParentIsId ==
    ASSUME TypeOK, NEW d \in DocIds, rows[d].parent # NoParent
    PROVE  rows[d].parent \in DocIds
BY RowTypes, MetaAssumption DEF Row, DocIds, NoParent

\* The empty store satisfies the inductive invariant.
LEMMA InitChainInv == Init => ChainInv
<1> SUFFICES ASSUME Init PROVE ChainInv
  OBVIOUS
<1>1. \A d \in DocIds : rows[d] = Blank("unused")
  BY DEF Init
<1> QED BY <1>1, InitTypeOK DEF ChainInv, ParentsUsed, OneContainerPerParent,
        OneSignedPdfPerTree, BytesIffLive, Blank, Stored, Live

\* Standing is what the two uniqueness rules quantify over.
LEMMA StandingMeans ==
    ASSUME TypeOK, NEW d \in DocIds
    PROVE  Stored(d) /\ rows[d].status # "deleted" <=> Standing(d)
BY RowTypes DEF Row, Statuses, Stored, Standing

\* A standing row after a step is a standing row from before, of the same kind
\* and parent, or the row created by the step.
LEMMA StandingStep ==
    ASSUME NEW e \in DocIds, Kept(e) \/ Erased(e), Standing(e)'
    PROVE  /\ Standing(e)
           /\ rows'[e].kind = rows[e].kind /\ rows'[e].parent = rows[e].parent
BY DEF Kept, Erased, Standing, Blank

\* The parent of a child was handed out, and stays so.
LEMMA ParentsUsedStep ==
    ASSUME TypeOK, TypeOK', ParentsUsed, RowStep
    PROVE  ParentsUsed'
<1> SUFFICES ASSUME NEW f \in DocIds, rows'[f].parent # NoParent
             PROVE  rows'[rows'[f].parent].status # "unused"
  BY DEF ParentsUsed
<1> DEFINE g == rows'[f].parent
<1>1. g \in DocIds
  BY MetaAssumption DEF TypeOK, Row, DocIds, NoParent
<1>2. ASSUME NEW e \in DocIds, Kept(e) \/ Erased(e), rows[e].status # "unused"
      PROVE  rows'[e].status # "unused"
  BY <1>2 DEF Kept, Erased, Blank
<1>3. ASSUME Kept(f) \/ Erased(f)
      PROVE  rows[g].status # "unused"
  BY <1>3 DEF Kept, Erased, Blank, ParentsUsed
<1>4. CASE \A e \in DocIds : Kept(e) \/ Erased(e)
  BY <1>1, <1>2, <1>3, <1>4
<1>5. CASE \E d \in DocIds : \E in :
             Created(d, in) /\ \A e \in DocIds \ {d} : Kept(e) \/ Erased(e)
  <2>0. PICK d \in DocIds : \E in :
             Created(d, in) /\ \A e \in DocIds \ {d} : Kept(e) \/ Erased(e)
    BY <1>5
  <2>1. PICK in :
             Created(d, in) /\ \A e \in DocIds \ {d} : Kept(e) \/ Erased(e)
    BY <2>0
  <2>2. rows'[d].status # "unused" /\ rows'[d].parent = in.parent
    BY <2>1 DEF Created, NewRow, InsertArg
  <2>3. rows[g].status # "unused"
    <3>1. CASE f = d
      BY <2>1, <2>2, <3>1 DEF Created, InsertArg
    <3>2. CASE f # d
      BY <1>3, <2>1, <3>2
    <3> QED BY <3>1, <3>2
  <2> QED BY <1>1, <1>2, <2>1, <2>2, <2>3
<1> QED BY <1>4, <1>5 DEF RowStep
\* Insert refused if a rival stood: none stands beside a created row.
LEMMA NoRival ==
    ASSUME TypeOK, NEW x \in DocIds, NEW in, Created(x, in),
           NEW e \in DocIds, Standing(e), rows[e].kind = in.kind,
           in.kind \in {"container", "pdf"}, in.parent # NoParent
    PROVE  /\ rows[e].parent # in.parent
           /\ in.kind = "pdf" => e # in.parent
<1>1. Stored(e) /\ rows[e].status # "deleted"
  BY StandingMeans
<1>2. InsertResult(in.kind, in.parent) = "ok" /\ in.kind # "source"
  BY DEF Created
<1> QED BY <1>1, <1>2 DEF InsertResult

\* A created row is live, has bytes and the fields it was asked for.
LEMMA CreatedFields ==
    ASSUME NEW x \in DocIds, NEW in, Created(x, in)
    PROVE  /\ rows'[x].kind = in.kind /\ rows'[x].parent = in.parent
           /\ rows[x].status = "unused"
           /\ Live(x)' /\ rows'[x].ref # NoRef
BY MetaAssumption DEF Created, NewRow, Fresh, InsertArg, Live

\* No step brings a second standing container under one parent.
LEMMA ContainersStep ==
    ASSUME TypeOK, TypeOK', OneContainerPerParent, RowStep
    PROVE  OneContainerPerParent'
<1> SUFFICES ASSUME NEW d \in DocIds, NEW e \in DocIds,
                    Standing(d)', rows'[d].kind = "container",
                    Standing(e)', rows'[e].kind = "container",
                    rows'[d].parent = rows'[e].parent,
                    rows'[d].parent # NoParent
             PROVE  d = e
  <2>1. \A d \in DocIds :
           Stored(d)' /\ rows'[d].status # "deleted" => Standing(d)'
    BY DEF TypeOK, Row, Statuses, Stored, Standing
  <2> QED BY <2>1 DEF OneContainerPerParent
<1>1. ASSUME Kept(d) \/ Erased(d), Kept(e) \/ Erased(e) PROVE d = e
  <2>1. /\ Standing(d) /\ rows[d].kind = "container"
        /\ Standing(e) /\ rows[e].kind = "container"
        /\ rows[d].parent = rows[e].parent /\ rows[d].parent # NoParent
    BY <1>1, StandingStep
  <2> QED BY <2>1, StandingMeans DEF OneContainerPerParent
<1>2. CASE \A f \in DocIds : Kept(f) \/ Erased(f)
  BY <1>1, <1>2
<1>3. CASE \E x \in DocIds : \E in :
             Created(x, in) /\ \A f \in DocIds \ {x} : Kept(f) \/ Erased(f)
  <2>0. PICK x \in DocIds : \E in :
             Created(x, in) /\ \A f \in DocIds \ {x} : Kept(f) \/ Erased(f)
    BY <1>3
  <2>1. PICK in :
             Created(x, in) /\ \A f \in DocIds \ {x} : Kept(f) \/ Erased(f)
    BY <2>0
  <2>2. rows'[x].kind = in.kind /\ rows'[x].parent = in.parent
    BY <2>1, CreatedFields
  <2>3. ASSUME NEW f \in DocIds \ {x}, Standing(f)', rows'[f].kind = in.kind,
               in.kind = "container", in.parent # NoParent
        PROVE  rows'[f].parent # in.parent
    <3>1. /\ Standing(f) /\ rows'[f].kind = rows[f].kind
          /\ rows'[f].parent = rows[f].parent
      BY <2>1, <2>3, StandingStep
    <3> QED BY <2>1, <2>3, <3>1, NoRival
  <2>4. CASE d = x /\ e # x
    BY <2>2, <2>3, <2>4
  <2>5. CASE e = x /\ d # x
    BY <2>2, <2>3, <2>5
  <2>6. CASE d # x /\ e # x
    BY <1>1, <2>1, <2>6
  <2> QED BY <2>4, <2>5, <2>6
<1> QED BY <1>2, <1>3 DEF RowStep

\* No step brings a second standing signed pdf into one tree.
LEMMA PdfsStep ==
    ASSUME TypeOK, TypeOK', ParentsUsed, OneSignedPdfPerTree, RowStep
    PROVE  OneSignedPdfPerTree'
<1> SUFFICES ASSUME NEW d \in DocIds, NEW e \in DocIds,
                    Standing(d)', rows'[d].kind = "pdf",
                    Standing(e)', rows'[e].kind = "pdf",
                    rows'[d].parent # NoParent,
                    rows'[e].parent = rows'[d].parent \/ e = rows'[d].parent
             PROVE  d = e
  <2>1. \A d \in DocIds :
           Stored(d)' /\ rows'[d].status # "deleted" => Standing(d)'
    BY DEF TypeOK, Row, Statuses, Stored, Standing
  <2> QED BY <2>1 DEF OneSignedPdfPerTree
<1>1. ASSUME Kept(d) \/ Erased(d), Kept(e) \/ Erased(e) PROVE d = e
  <2>1. /\ Standing(d) /\ rows[d].kind = "pdf"
        /\ Standing(e) /\ rows[e].kind = "pdf"
        /\ rows[d].parent # NoParent
        /\ rows[e].parent = rows[d].parent \/ e = rows[d].parent
    BY <1>1, StandingStep
  <2> QED BY <2>1, StandingMeans DEF OneSignedPdfPerTree
<1>2. CASE \A f \in DocIds : Kept(f) \/ Erased(f)
  BY <1>1, <1>2
<1>3. CASE \E x \in DocIds : \E in :
             Created(x, in) /\ \A f \in DocIds \ {x} : Kept(f) \/ Erased(f)
  <2>0. PICK x \in DocIds : \E in :
             Created(x, in) /\ \A f \in DocIds \ {x} : Kept(f) \/ Erased(f)
    BY <1>3
  <2>1. PICK in :
             Created(x, in) /\ \A f \in DocIds \ {x} : Kept(f) \/ Erased(f)
    BY <2>0
  <2>2. /\ rows'[x].kind = in.kind /\ rows'[x].parent = in.parent
        /\ rows[x].status = "unused"
    BY <2>1, CreatedFields
  <2>3. ASSUME NEW f \in DocIds \ {x}, Standing(f)', rows'[f].kind = in.kind,
               in.kind = "pdf", in.parent # NoParent
        PROVE  rows'[f].parent # in.parent /\ f # in.parent
    <3>1. /\ Standing(f) /\ rows'[f].kind = rows[f].kind
          /\ rows'[f].parent = rows[f].parent
      BY <2>1, <2>3, StandingStep
    <3> QED BY <2>1, <2>3, <3>1, NoRival
  <2>4. CASE d = x /\ e # x
    BY <2>2, <2>3, <2>4
  <2>5. CASE e = x /\ d # x
    <3>1. rows'[d].parent = rows[d].parent
      BY <2>1, <2>5, StandingStep
    <3>2. rows'[d].parent # x
      BY <2>2, <3>1 DEF ParentsUsed
    <3>3. rows'[x].parent = rows'[d].parent
      BY <2>5, <3>2
    <3> QED BY <2>2, <2>3, <2>5, <3>3
  <2>6. CASE d # x /\ e # x
    BY <1>1, <2>1, <2>6
  <2> QED BY <2>4, <2>5, <2>6
<1> QED BY <1>2, <1>3 DEF RowStep

\* Every step keeps the reference and the life of a row together.
LEMMA BytesStep ==
    ASSUME BytesIffLive, RowStep
    PROVE  BytesIffLive'
<1>1. ASSUME NEW e \in DocIds, Kept(e) \/ Erased(e)
      PROVE  Live(e)' <=> rows'[e].ref # NoRef
  BY <1>1 DEF Kept, Erased, Blank, BytesIffLive, Live
<1>2. ASSUME NEW e \in DocIds, NEW in, Created(e, in)
      PROVE  Live(e)' <=> rows'[e].ref # NoRef
  BY <1>2, CreatedFields
<1>3. \A e \in DocIds : Live(e)' <=> rows'[e].ref # NoRef
  BY <1>1, <1>2 DEF RowStep
<1> QED BY <1>3 DEF BytesIffLive

\* The inductive invariant is preserved by every step.
LEMMA ChainInvariance == ChainInv /\ [MetaNext]_metaVars => ChainInv'
<1> SUFFICES ASSUME ChainInv, [MetaNext]_metaVars PROVE ChainInv'
  OBVIOUS
<1>1. TypeOK' /\ RowStep
  BY TypeInvariance, EveryRowStep DEF ChainInv
<1> QED BY <1>1, ParentsUsedStep, ContainersStep, PdfsStep, BytesStep
        DEF ChainInv

\* Whatever procedures run in whatever order, with any number of documents: no
\* parent has two standing containers, no tree two standing signed pdfs, and a
\* row names bytes exactly while it is live.
THEOREM ChainsCorrect ==
    MetaSpec => [](OneContainerPerParent /\ OneSignedPdfPerTree /\ BytesIffLive)
<1>1. ChainInv => OneContainerPerParent /\ OneSignedPdfPerTree /\ BytesIffLive
  BY DEF ChainInv
<1> QED BY <1>1, InitChainInv, ChainInvariance, PTL DEF MetaSpec

\* One standing signed pdf per tree, on its own.
THEOREM PdfsUnique == MetaSpec => []OneSignedPdfPerTree
BY ChainsCorrect, PTL

\* Bytes exactly on live rows, on its own.
THEOREM BytesFollowLife == MetaSpec => []BytesIffLive
BY ChainsCorrect, PTL

----------------------------------------------------------------------------
(* What no step ever does.                                                 *)

\* Every step spares held rows, keeps deletions final, expires due rows only
\* and purges a root only with its last participant.
LEMMA EveryStepSafe ==
    TypeOK /\ [MetaNext]_metaVars =>
        SparesHeld /\ KeepsDeleted /\ ExpiresDue /\ RootPurgedByLast
<1> SUFFICES ASSUME TypeOK, [MetaNext]_metaVars
             PROVE  SparesHeld /\ KeepsDeleted /\ ExpiresDue /\ RootPurgedByLast
  OBVIOUS
<1>1. RowStep
  BY EveryRowStep
<1> DEFINE Safe(d) ==
      /\ rows[d].hold /\ Stored(d) => Stored(d)' /\ (Live(d) => Live(d)')
      /\ rows[d].status \in {"deleted", "erased"} =>
            rows'[d].status \in {rows[d].status, "erased"}
      /\ rows[d].status # "expired" /\ rows'[d].status = "expired"
            => rows[d].until # NoDate /\ rows[d].until < now
      /\ Stored(d) /\ Stored(d)' =>
            \/ rows'[d].until = rows[d].until
            \/ rows[d].until # NoDate /\ rows'[d].until > rows[d].until
      /\ Live(d) /\ rows[d].parent = NoParent /\ rows'[d].status = "deleted"
            => ~\E e \in acl' : e.root = d
<1>2. ASSUME NEW d \in DocIds, Kept(d) PROVE Safe(d)
  BY <1>2 DEF Kept
<1>3. ASSUME NEW d \in DocIds, Erased(d) PROVE Safe(d)
  BY <1>3 DEF Erased, Blank, Stored
<1>4. ASSUME NEW d \in DocIds, NEW in, Created(d, in) PROVE Safe(d)
  <2>1. rows[d].status = "unused" /\ Live(d)'
    BY <1>4, CreatedFields
  <2> QED BY <2>1 DEF Stored, Live
<1>5. \A d \in DocIds : Safe(d)
  BY <1>1, <1>2, <1>3, <1>4 DEF RowStep
<1> QED BY <1>5 DEF SparesHeld, KeepsDeleted, ExpiresDue, RootPurgedByLast

\* No act of any caller and no sweep ends the life of a row under legal hold,
\* or erases its record.
THEOREM HoldsRespected == MetaSpec => HeldRowKept
BY TypeCorrect, EveryStepSafe, PTL DEF MetaSpec, HeldRowKept

\* A deleted document never comes back, a hard-deleted id is never reused.
THEOREM DeletionFinal == MetaSpec => DeletedIsFinal
BY TypeCorrect, EveryStepSafe, PTL DEF MetaSpec, DeletedIsFinal

\* Only the sweep of a dated, due row expires it, and dates only move forward.
THEOREM ExpiryJustified == MetaSpec => OnlyDueRowsExpire
BY TypeCorrect, EveryStepSafe, PTL DEF MetaSpec, OnlyDueRowsExpire

\* A departure destroys a chain root only when nobody is left on its list.
THEOREM DeparturesCounted == MetaSpec => RootOutlivesDepartures
BY TypeCorrect, EveryStepSafe, PTL DEF MetaSpec, RootOutlivesDepartures

----------------------------------------------------------------------------
(* Access: whoever is on a standing root's list, somebody stays on it.     *)

\* The list of e went with its history: the whole chain was over, e stays as it is,
\* and a row of the chain is erased.
Unlisted(e) ==
    /\ \A x \in Chain(e) : Terminal(x)
    /\ rows'[e] = rows[e]
    /\ \E x \in Chain(e) : rows'[x].status = "erased"

AclStep ==
    \A e \in DocIds :
        Standing(e)' /\ rows'[e].parent = NoParent /\ Listed(e) =>
            Listed(e)' \/ Unlisted(e)

\* A step that removes no access entry keeps every root listed.
LEMMA AclGrows == ASSUME acl \subseteq acl' PROVE AclStep
BY DEF AclStep, Listed

\* Bundle drops entries of erased rows only.
LEMMA BundleAcl ==
    ASSUME TypeOK, NEW d \in DocIds, NEW c \in Callers,
           NEW srcs \in SUBSET DocIds, NEW ref, NEW hash,
           Bundle(d, c, srcs, ref, hash)
    PROVE  AclStep
<1> SUFFICES ASSUME NEW e \in DocIds, Standing(e)', NEW g \in acl, g.root = e
             PROVE  Listed(e)'
  BY DEF AclStep, Listed
<1>1. CASE e \in srcs /\ e # d
  BY <1>1 DEF Bundle, Standing, Blank
<1>2. CASE e = d
  <2> DEFINE in == [owner |-> c, tenant |-> NoTenant, kind |-> "container",
                    parent |-> NoParent, ref |-> ref, hash |-> hash,
                    status |-> "received", until |-> now + TTL]
             new == [root |-> d, who |-> c, read |-> TRUE, kind |-> "sub"]
  <2>1. SeedAcl(d, in) = {new}
    BY DEF SeedAcl
  <2>2. acl' = DropChains(srcs) \cup SeedAcl(d, in)
    BY DEF Bundle
  <2>3. new \in acl' /\ new.root = e
    BY <1>2, <2>1, <2>2
  <2> QED BY <2>3 DEF Listed
<1>3. CASE e \notin srcs
  BY <1>3 DEF Bundle, DropChains, Listed
<1> QED BY <1>1, <1>2, <1>3

\* Rebundle drops entries of erased rows only.
LEMMA RebundleAcl ==
    ASSUME TypeOK, NEW d \in DocIds, NEW c, NEW exp,
           NEW srcs \in SUBSET DocIds, NEW ref, NEW hash,
           Rebundle(d, c, exp, srcs, ref, hash)
    PROVE  AclStep
<1> SUFFICES ASSUME NEW e \in DocIds, Standing(e)', NEW g \in acl, g.root = e
             PROVE  Listed(e)'
  BY DEF AclStep, Listed
<1>1. e \notin srcs
  BY DEF Rebundle, Standing, Blank
<1> QED BY <1>1 DEF Rebundle, DropChains, Listed

\* Grant replaces an entry by one on the same chain.
LEMMA GrantAcl ==
    ASSUME NEW d, NEW c, NEW read, Grant(d, c, read)
    PROVE  AclStep
<1> SUFFICES ASSUME NEW e \in DocIds, NEW g \in acl, g.root = e
             PROVE  Listed(e)'
  BY DEF AclStep, Listed
<1> DEFINE new == [root |-> ChainRoot(d), kind |-> "serial", who |-> c,
                   read |-> read]
<1>1. CASE e = ChainRoot(d)
  <2>1. new \in acl' /\ new.root = e
    BY <1>1 DEF Grant
  <2> QED BY <2>1 DEF Listed
<1>2. CASE e # ChainRoot(d)
  BY <1>2 DEF Grant, Listed
<1> QED BY <1>1, <1>2

\* A root that loses its last entry is purged in the same step.
LEMMA RemoveAcl ==
    ASSUME TypeOK, NEW d \in DocIds, NEW c, RemoveAccess(d, c)
    PROVE  AclStep
<1> SUFFICES ASSUME NEW e \in DocIds, Standing(e)', NEW g \in acl, g.root = e,
                    ~Listed(e)'
             PROVE  FALSE
  BY DEF AclStep, Listed
<1> DEFINE r == ChainRoot(d)
<1>1. acl' = WithoutMine(r, c) /\ rows' = Purge(PurgedBy(d, c), "deleted")
  BY DEF RemoveAccess
<1>2. e = r
  BY <1>1 DEF WithoutMine, Listed
<1>3. PurgedBy(d, c) = {f \in Members(r) : rows[f].status # "deleted"}
  BY <1>1, <1>2 DEF PurgedBy, Listed
<1>4. CASE e \in PurgedBy(d, c)
  <2>1. rows[e] \in Row
    BY RowTypes
  <2>2. rows'[e].status = "deleted"
    BY <1>1, <1>4, <2>1 DEF Purge, Row
  <2> QED BY <2>2 DEF Standing
<1>5. CASE e \notin PurgedBy(d, c)
  <2>1. rows'[e] = rows[e]
    BY <1>1, <1>5 DEF Purge
  <2> QED BY <1>2, <1>3, <1>5, <2>1 DEF Standing, Members, Stored
<1> QED BY <1>4, <1>5

\* The history sweep drops entries of chains without a row only.
LEMMA HistoryAcl ==
    ASSUME TypeOK, NEW V \in SUBSET DocIds, NEW cutoff, SweepHistory(cutoff, V)
    PROVE  AclStep
<1> SUFFICES ASSUME NEW e \in DocIds, Standing(e)', rows'[e].parent = NoParent,
                    NEW g \in acl, g.root = e
             PROVE  g \in acl'
  BY DEF AclStep, Listed
<1>1. e \notin V /\ rows'[e] = rows[e]
  BY DEF SweepHistory, Standing, Blank
<1>2. e \in Chain(e)
  BY <1>1 DEF Chain, ChainRoot, Standing, Stored
<1> QED BY <1>1, <1>2 DEF SweepHistory

\* DeleteHistoryChain drops the entries of one chain, which is over.
LEMMA UnlistAcl ==
    ASSUME TypeOK, NEW c, NEW r, DeleteHistoryChain(c, r)
    PROVE  AclStep
<1> SUFFICES ASSUME NEW e \in DocIds, Standing(e)', rows'[e].parent = NoParent,
                    NEW g \in acl, g.root = e
             PROVE  g \in acl' \/ Unlisted(e)
  BY DEF AclStep, Listed
<1>1. rows'[e] = rows[e]
  BY DEF DeleteHistoryChain, Standing, Blank
<1>2. CASE e # r
  BY <1>2 DEF DeleteHistoryChain, DropChains
<1>3. CASE e = r
  <2>1. DeleteHistoryResult(c, e) = "ok"
    BY <1>3 DEF DeleteHistoryChain
  <2>2. \A x \in Chain(e) : Terminal(x)
    BY <2>1 DEF DeleteHistoryResult
  <2>3. PICK x \in Chain(e) : OwnedBy(x, c)
    BY <2>1, <2>2 DEF DeleteHistoryResult
  <2>4. x \in DocIds
    BY DEF Chain
  <2>5. rows'[x] = Blank("erased")
    BY <1>3, <2>3, <2>4 DEF DeleteHistoryChain
  <2> QED BY <1>1, <2>2, <2>3, <2>5 DEF Unlisted, Blank
<1> QED BY <1>2, <1>3

\* Every step keeps a standing root's list inhabited, or lost it with its history.
LEMMA EveryAclStep == TypeOK /\ [MetaNext]_metaVars => AclStep
<1> SUFFICES ASSUME TypeOK, [MetaNext]_metaVars PROVE AclStep
  OBVIOUS
<1>1. CASE InsertAny
  BY <1>1, AclGrows DEF InsertAny, Insert
<1>2. CASE ReplaceAny
  BY <1>2, AclGrows DEF ReplaceAny, ReplaceContainerBlob
<1>3. CASE BundleAny
  BY <1>3, BundleAcl DEF BundleAny
<1>4. CASE RebundleAny
  BY <1>4, RebundleAcl DEF RebundleAny
<1>5. CASE \E d \in DocIds, c \in Persons, read \in BOOLEAN : Grant(d, c, read)
  BY <1>5, GrantAcl
<1>6. CASE \E d \in DocIds, frozen \in BOOLEAN : SetResultFreeze(d, frozen)
  BY <1>6, AclGrows DEF SetResultFreeze
<1>7. CASE \E d \in DocIds, c \in Callers : ExtendRetention(d, c, now + TTL)
  BY <1>7, AclGrows DEF ExtendRetention
<1>8. CASE \E d \in DocIds, c \in Callers : RemoveAccess(d, c)
  BY <1>8, RemoveAcl
<1>9. CASE \E V \in SUBSET DocIds, cutoff \in 0..now : SweepRetention(cutoff, V)
  BY <1>9, AclGrows DEF SweepRetention
<1>10. CASE \E V \in SUBSET DocIds, cutoff \in 0..now : SweepHistory(cutoff, V)
  BY <1>10, HistoryAcl
<1>11. CASE \E r \in DocIds, c \in Callers : DeleteHistoryChain(c, r)
  BY <1>11, UnlistAcl
<1>12. CASE \E d \in DocIds, hold \in BOOLEAN : SetLegalHold(d, hold)
  BY <1>12, AclGrows DEF SetLegalHold
<1>13. CASE Tick
  BY <1>13, AclGrows DEF Tick
<1>14. CASE UNCHANGED metaVars
  BY <1>14, AclGrows DEF metaVars
<1> QED BY <1>1, <1>2, <1>3, <1>4, <1>5, <1>6, <1>7, <1>8, <1>9, <1>10, <1>11,
           <1>12, <1>13, <1>14 DEF MetaNext, LifeNext, RewriteNext, HoldNext
\* A created root is listed by the entry it is created with; the only acts
\* that hand out ids are Insert and Bundle.
LEMMA CreatedListed ==
    ASSUME TypeOK, MetaNext, NEW x \in DocIds, rows[x].status = "unused",
           Live(x)', rows'[x].parent = NoParent
    PROVE  Listed(x)'
<1>1. CASE InsertAny
  <2>0. PICK d \in DocIds : \E in : Insert(d, in)
    BY <1>1 DEF InsertAny
  <2>1. PICK in : Insert(d, in)
    BY <2>0
  <2>2. x = d
    BY <2>1 DEF Insert, TypeOK, Live
  <2>3. in.parent = NoParent
    BY <2>1, <2>2 DEF Insert, TypeOK, NewRow
  <2>4. PICK g \in SeedAcl(d, in) : g.root = d
    BY <2>3 DEF SeedAcl
  <2> QED BY <2>1, <2>2, <2>4 DEF Insert, Listed
<1>2. CASE BundleAny
  <2>1. PICK d \in DocIds, c \in Callers, srcs \in SUBSET DocIds, ref \in Refs,
            h \in Hashes : Bundle(d, c, srcs, ref, h)
    BY <1>2 DEF BundleAny
  <2>2. x = d
    BY <2>1 DEF Bundle, Live, Blank
  <2> DEFINE in == [owner |-> c, tenant |-> NoTenant, kind |-> "container",
                    parent |-> NoParent, ref |-> ref, hash |-> h,
                    status |-> "received", until |-> now + TTL]
             new == [root |-> d, who |-> c, read |-> TRUE, kind |-> "sub"]
  <2>3. SeedAcl(d, in) = {new}
    BY DEF SeedAcl
  <2>4. acl' = DropChains(srcs) \cup SeedAcl(d, in)
    BY <2>1 DEF Bundle
  <2>5. new \in acl' /\ new.root = x
    BY <2>2, <2>3, <2>4
  <2> QED BY <2>5 DEF Listed
<1>3. ASSUME rows'[x] = rows[x] \/ rows'[x] = Blank("erased") PROVE FALSE
  BY <1>3 DEF Live, Blank
<1>4. CASE ReplaceAny
  <2>1. PICK d \in DocIds, exp \in Hashes, ref \in Refs, h \in Hashes :
            ReplaceContainerBlob(d, exp, ref, h)
    BY <1>4 DEF ReplaceAny
  <2>2. x # d
    BY <2>1 DEF ReplaceContainerBlob, ReplaceResult, Stored
  <2> QED BY <1>3, <2>1, <2>2 DEF ReplaceContainerBlob, TypeOK
<1>5. CASE RebundleAny
  <2>1. PICK d \in DocIds, c \in Callers, exp \in Hashes,
            srcs \in SUBSET DocIds, ref \in Refs, h \in Hashes :
            Rebundle(d, c, exp, srcs, ref, h)
    BY <1>5 DEF RebundleAny
  <2>2. x # d
    BY <2>1 DEF Rebundle, RebundleErrors, Stored
  <2> QED BY <1>3, <2>1, <2>2 DEF Rebundle
<1>6. CASE \E d \in DocIds, c \in Persons, read \in BOOLEAN : Grant(d, c, read)
  BY <1>3, <1>6 DEF Grant
<1>7. CASE \E d \in DocIds, frozen \in BOOLEAN : SetResultFreeze(d, frozen)
  <2>1. PICK d \in DocIds, frozen \in BOOLEAN : SetResultFreeze(d, frozen)
    BY <1>7
  <2>2. x # ChainRoot(d)
    BY <2>1 DEF SetResultFreeze, Stored
  <2> QED BY <1>3, <2>1, <2>2 DEF SetResultFreeze, TypeOK
<1>8. CASE \E d \in DocIds, c \in Callers : ExtendRetention(d, c, now + TTL)
  <2>1. PICK d \in DocIds, c \in Callers : ExtendRetention(d, c, now + TTL)
    BY <1>8
  <2>2. x # d
    BY <2>1 DEF ExtendRetention, Stored
  <2> QED BY <1>3, <2>1, <2>2 DEF ExtendRetention, TypeOK
<1>9. CASE \E d \in DocIds, c \in Callers : RemoveAccess(d, c)
  <2>1. PICK d \in DocIds, c \in Callers : RemoveAccess(d, c)
    BY <1>9
  <2>2. x \notin PurgedBy(d, c)
    BY DEF PurgedBy, Members, Stored
  <2> QED BY <1>3, <2>1, <2>2 DEF RemoveAccess, Purge
<1>10. CASE \E V \in SUBSET DocIds, cutoff \in 0..now : SweepRetention(cutoff, V)
  BY <1>3, <1>10 DEF SweepRetention, Purge, Batches, DueRows, Live
<1>11. CASE \E V \in SUBSET DocIds, cutoff \in 0..now : SweepHistory(cutoff, V)
  BY <1>3, <1>11 DEF SweepHistory
<1>12. CASE \E r \in DocIds, c \in Callers : DeleteHistoryChain(c, r)
  BY <1>3, <1>12 DEF DeleteHistoryChain
<1>13. CASE \E d \in DocIds, hold \in BOOLEAN : SetLegalHold(d, hold)
  <2>1. PICK d \in DocIds, hold \in BOOLEAN : SetLegalHold(d, hold)
    BY <1>13
  <2>2. x # d
    BY <2>1 DEF SetLegalHold, Stored
  <2> QED BY <1>3, <2>1, <2>2 DEF SetLegalHold, TypeOK
<1>14. CASE Tick
  BY <1>3, <1>14 DEF Tick
<1> QED BY <1>1, <1>2, <1>4, <1>5, <1>6, <1>7, <1>8, <1>9, <1>10, <1>11, <1>12,
           <1>13, <1>14 DEF MetaNext, LifeNext, RewriteNext, HoldNext

\* So every step keeps the list of the roots that stand.
LEMMA RootsListedStep ==
    ASSUME TypeOK, [MetaNext]_metaVars
    PROVE  KeepsRootsListed
<1> SUFFICES ASSUME NEW e \in DocIds, Standing(e)', rows'[e].parent = NoParent,
                    ~Listed(e)'
             PROVE  (Standing(e) /\ ~Listed(e)) \/ Unlisted(e)
  BY DEF KeepsRootsListed, Unlisted
<1>1. RowStep /\ AclStep
  BY EveryRowStep, EveryAclStep
<1>2. CASE Kept(e)
  <2>1. Standing(e)
    BY <1>2 DEF Kept
  <2> QED BY <1>1, <2>1 DEF AclStep
<1>3. CASE Erased(e)
  BY <1>3 DEF Erased, Blank, Standing
<1>4. CASE \E in : Created(e, in)
  <2>1. rows[e].status = "unused" /\ Live(e)'
    BY <1>4, CreatedFields
  <2>2. MetaNext
    BY <2>1 DEF metaVars, Live
  <2> QED BY <2>1, <2>2, CreatedListed
<1> QED BY <1>1, <1>2, <1>3, <1>4 DEF RowStep

\* A root that stands never loses the last entry of its access list, but when all of
\* its chain is over and another row's owner removes it from the history.  A live root
\* that nobody is on is therefore one that expired, lost its list so, and was brought
\* back by a late replace; a root signed in place is no exception.
THEOREM RootsKeepTheirList == MetaSpec => RootsStayListed
BY TypeCorrect, RootsListedStep, PTL DEF MetaSpec, RootsStayListed

----------------------------------------------------------------------------
(* Undated rows.  An undated row is a durable root; it cannot expire, so no *)
(* late replace finds it, and it is listed for as long as it stands.        *)

UndatedInv ==
    \A d \in DocIds :
        Standing(d) /\ rows[d].until = NoDate =>
            Live(d) /\ rows[d].parent = NoParent /\ Listed(d)

\* Every step keeps undated rows listed roots.
LEMMA UndatedInvariance ==
    TypeOK /\ UndatedInv /\ [MetaNext]_metaVars => UndatedInv'
<1> SUFFICES ASSUME TypeOK, UndatedInv, [MetaNext]_metaVars, NEW e \in DocIds,
                    Standing(e)', rows'[e].until = NoDate
             PROVE  Live(e)' /\ rows'[e].parent = NoParent /\ Listed(e)'
  BY DEF UndatedInv
<1>1. RowStep /\ AclStep
  BY EveryRowStep, EveryAclStep
<1>2. CASE Kept(e)
  <2>1. rows[e].until \in Nat \cup {NoDate}
    BY RowTypes DEF Row
  <2>2. rows[e].until = NoDate
    BY <1>2, <2>1 DEF Kept, NoDate
  <2>3. Live(e) /\ rows[e].parent = NoParent /\ Listed(e)
    BY <1>2, <2>2 DEF Kept, UndatedInv
  <2>4. rows'[e].status # "expired"
    BY <1>2, <2>2, <2>3 DEF Kept, Live
  <2>5. Live(e)' /\ rows'[e].parent = NoParent
    BY <1>2, <2>3, <2>4 DEF Kept, Standing, Live
  <2>6. ~Unlisted(e)
    BY <2>3 DEF Unlisted, Chain, ChainRoot, Live, Stored, Terminal
  <2> QED BY <1>1, <1>2, <2>3, <2>5, <2>6 DEF AclStep, Live, Standing
<1>3. CASE Erased(e)
  BY <1>3 DEF Erased, Blank, Standing
<1>4. ASSUME NEW in, Created(e, in)
      PROVE  Live(e)' /\ rows'[e].parent = NoParent /\ Listed(e)'
  <2>1. Live(e)' /\ rows[e].status = "unused" /\ rows'[e].parent = in.parent
    BY <1>4, CreatedFields
  <2>2. in.until = NoDate
    BY <1>4 DEF Created, NewRow
  <2>3. rows'[e].parent = NoParent
    BY <1>4, <2>1, <2>2 DEF Created, InsertArg
  <2>4. MetaNext
    BY <2>1 DEF metaVars, Live
  <2> QED BY <2>1, <2>3, <2>4, CreatedListed
<1> QED BY <1>1, <1>2, <1>3, <1>4 DEF RowStep

\* A live row nobody can reach always carries a date, so the sweep ends it: the
\* forms that outlive their chain's list are bounded by the service's period.
THEOREM OrphansBounded == MetaSpec => []OrphansExpire
<1>1. Init => UndatedInv
  BY DEF Init, UndatedInv, Standing, Blank
<1>2. UndatedInv => OrphansExpire
  BY DEF UndatedInv, OrphansExpire, Standing, Live, Listed, ChainRoot
<1> QED BY <1>1, <1>2, TypeCorrect, UndatedInvariance, PTL DEF MetaSpec

----------------------------------------------------------------------------
(* Views.                                                                  *)

\* A chain in the history has no live row, so no bytes and no listed head.
LEMMA TerminalIsDestroyed ==
    ASSUME BytesIffLive, NEW c \in Callers, NEW h \in ListHistory(c)
    PROVE  /\ \A d \in Chain(h.root) : rows[d].ref = NoRef
           /\ ~\E v \in ListChains(c, FALSE) : v.root = h.root
<1>1. PICK r \in DocIds : TerminalChain(r) /\ \E e : h = HistoryView(r, e)
  BY DEF ListHistory
<1>2. TerminalChain(r) /\ h.root = r
  BY <1>1 DEF HistoryView
<1>3. ASSUME NEW d \in Chain(r) PROVE ~Live(d) /\ Terminal(d)
  BY <1>2, <1>3 DEF TerminalChain, Terminal, Live
<1>4. \A d \in Chain(r) : rows[d].ref = NoRef
  BY <1>3 DEF BytesIffLive, Chain
<1>5. ASSUME NEW v \in ListChains(c, FALSE), v.root = r PROVE FALSE
  <2>1. PICK s \in DocIds : \E g \in HeadOf(Presentable(s)) :
            rows[g].status # "expired" /\ v = ChainView(s, g)
    BY <1>5 DEF ListChains
  <2>2. PICK g \in HeadOf(Presentable(s)) :
            rows[g].status # "expired" /\ v = ChainView(s, g)
    BY <2>1
  <2>3. g \in HeadOf(Presentable(r)) /\ rows[g].status # "expired"
    BY <1>5, <2>2 DEF ChainView
  <2>4. g \in Chain(r) /\ rows[g].status # "deleted"
    BY <2>3 DEF HeadOf, Presentable
  <2> QED BY <1>3, <2>3, <2>4 DEF Terminal
<1> QED BY <1>2, <1>4, <1>5

\* What the history lists was destroyed and is not listed as live.
THEOREM HistoryIsDestroyed == MetaSpec => []HistoryMeansDestroyed
<1>1. BytesIffLive => HistoryMeansDestroyed
  BY TerminalIsDestroyed DEF HistoryMeansDestroyed
<1> QED BY <1>1, BytesFollowLife, PTL
=============================================================================
