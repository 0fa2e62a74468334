----------------------------- MODULE ViewProofs -----------------------------
(***************************************************************************)
(* Proofs about what ChainViews shows: the head of a chain never hides a   *)
(* signing, the two reads of a chain agree on it, and the retention        *)
(* horizon is neither early nor late.                                      *)
(***************************************************************************)
EXTENDS MetadataProofs, FiniteSetTheorems, NaturalsInduction, WellFoundedInduction

----------------------------------------------------------------------------
(* The order of ids.                                                       *)

\* Ids are handed out in order, and a row below another is a signed form of a
\* later id: without it an old signed root could outrank its signed child.
Lineage ==
    /\ \A d, e \in DocIds :
          e < d /\ rows[d].status # "unused" => rows[e].status # "unused"
    /\ \A d \in DocIds :
          rows[d].parent # NoParent => rows[d].kind # "source" /\ rows[d].parent < d

\* A kept or erased id was handed out before exactly if it is so now.
LEMMA UsedKept ==
    ASSUME NEW e \in DocIds, Kept(e) \/ Erased(e)
    PROVE  rows[e].status = "unused" <=> rows'[e].status = "unused"
BY DEF Kept, Erased, Blank, Stored

\* A kept or erased row below another is the row it was.
LEMMA ParentKept ==
    ASSUME NEW e \in DocIds, Kept(e) \/ Erased(e), rows'[e].parent # NoParent
    PROVE  rows'[e].parent = rows[e].parent /\ rows'[e].kind = rows[e].kind
BY DEF Kept, Erased, Blank

\* The order of ids is kept by every step.
LEMMA LineageStep ==
    ASSUME TypeOK, Lineage, RowStep
    PROVE  Lineage'
<1>1. CASE \A e \in DocIds : Kept(e) \/ Erased(e)
  BY <1>1, UsedKept, ParentKept DEF Lineage
<1>2. CASE \E d \in DocIds : \E in :
             Created(d, in) /\ \A e \in DocIds \ {d} : Kept(e) \/ Erased(e)
  <2>1. PICK x \in DocIds : \E in :
             Created(x, in) /\ \A e \in DocIds \ {x} : Kept(e) \/ Erased(e)
    BY <1>2
  <2>2. PICK in :
             Created(x, in) /\ \A e \in DocIds \ {x} : Kept(e) \/ Erased(e)
    BY <2>1
  <2>3. /\ rows'[x].kind = in.kind /\ rows'[x].parent = in.parent
        /\ rows[x].status = "unused" /\ rows'[x].status # "unused"
    BY <2>2, CreatedFields DEF Live
  <2>4. \A e \in DocIds : e < x => rows[e].status # "unused"
    BY <2>2 DEF Created, Fresh
  <2>5. in.parent # NoParent =>
            /\ in.kind # "source" /\ in.parent \in DocIds
            /\ rows[in.parent].status # "unused"
    BY <2>2, MetaAssumption DEF Created, InsertArg, DocIds, NoParent
  <2>6. in.parent # NoParent => in.parent < x
    BY <2>3, <2>5 DEF Lineage, DocIds
  <2>7. ASSUME NEW d \in DocIds, NEW e \in DocIds, e < d,
               rows'[d].status # "unused"
        PROVE  rows'[e].status # "unused"
    <3>1. CASE e = x
      BY <2>3, <3>1
    <3>2. CASE e # x
      <4>1. rows[e].status # "unused"
        <5>1. CASE d = x
          BY <2>4, <2>7, <5>1
        <5>2. CASE d # x
          BY <2>2, <2>7, <5>2, UsedKept DEF Lineage
        <5> QED BY <5>1, <5>2
      <4> QED BY <2>2, <3>2, <4>1, UsedKept
    <3> QED BY <3>1, <3>2
  <2>8. ASSUME NEW d \in DocIds, rows'[d].parent # NoParent
        PROVE  rows'[d].kind # "source" /\ rows'[d].parent < d
    <3>1. CASE d = x
      BY <2>3, <2>5, <2>6, <2>8, <3>1
    <3>2. CASE d # x
      BY <2>2, <2>8, <3>2, ParentKept DEF Lineage
    <3> QED BY <3>1, <3>2
  <2> QED BY <2>7, <2>8 DEF Lineage
<1> QED BY <1>1, <1>2 DEF RowStep

\* Ids are handed out in order and children come after their parents.
THEOREM LineageCorrect == MetaSpec => []Lineage
<1>1. Init => Lineage
  BY DEF Init, Lineage, Blank
<1>2. TypeOK /\ Lineage /\ [MetaNext]_metaVars => Lineage'
  BY EveryRowStep, LineageStep
<1> QED BY <1>1, <1>2, TypeCorrect, PTL DEF MetaSpec

----------------------------------------------------------------------------
(* The head of a chain shows its signing.                                  *)

\* A row of the chain of r that is not r hangs below it.
LEMMA ChainMember ==
    ASSUME NEW r, NEW d \in Chain(r)
    PROVE  /\ d \in DocIds /\ Stored(d)
           /\ rows[d].parent # NoParent => rows[d].parent = r
           /\ rows[d].parent = NoParent => d = r
BY DEF Chain, ChainRoot

\* The head of any part of a chain shows the signing that part holds: a child
\* outranks the root, being signed and newer, and the root's own mark is its own.
LEMMA HeadShowsSigning ==
    ASSUME Lineage, NEW r \in DocIds, NEW D \in SUBSET Chain(r),
           NEW h \in HeadOf(D), SignedHere(D)
    PROVE  HasSignatures(h) /\ PlatformSigned(h)
<1>1. h \in D /\ \A e \in D \ {h} : Outranks(h, e)
  BY DEF HeadOf
<1>2. CASE rows[h].parent # NoParent
  BY <1>1, <1>2, ChainMember DEF Lineage, HasSignatures, PlatformSigned
<1>3. CASE rows[h].parent = NoParent
  <2>1. h = r
    BY <1>1, <1>3, ChainMember
  <2>2. PICK d \in D : rows[d].parent # NoParent \/ rows[d].signed
    BY DEF SignedHere
  <2>3. CASE d = h
    BY <1>3, <2>2, <2>3 DEF HasSignatures, PlatformSigned
  <2>4. CASE d # h
    <3>1. rows[d].parent = r /\ d \in DocIds
      BY <2>1, <2>4, ChainMember
    <3>2. rows[d].kind # "source" /\ r < d
      BY <3>1 DEF Lineage, DocIds, NoParent
    <3>3. Outranks(h, d)
      BY <1>1, <2>4
    <3>4. h > d
      BY <3>2, <3>3 DEF Outranks
    <3> QED BY <2>1, <3>1, <3>2, <3>4 DEF DocIds
  <2> QED BY <2>3, <2>4
<1> QED BY <1>2, <1>3

\* A view of a chain, in the read or in the listing, is the view of its head.
LEMMA ViewIsOfHead ==
    ASSUME TypeOK, NEW c \in Callers,
           NEW v \in (UNION {GetChain(c, d) : d \in DocIds}) \cup ListChains(c, TRUE)
    PROVE  \E r \in DocIds : \E h \in HeadOf(Presentable(r)) : v = ChainView(r, h)
<1>1. CASE v \in ListChains(c, TRUE)
  BY <1>1 DEF ListChains
<1>2. CASE v \in UNION {GetChain(c, d) : d \in DocIds}
  <2>1. PICK d \in DocIds : v \in GetChain(c, d)
    BY <1>2
  <2>2. ChainRoot(d) \in DocIds
    BY ParentIsId DEF ChainRoot
  <2> QED BY <2>1, <2>2 DEF GetChain
<1> QED BY <1>1, <1>2

\* A signing done here shows in the read and in the listing of its chain, by
\* whatever uploads, signatures, expiries and departures the chain came about.
THEOREM SigningShown == MetaSpec => []SigningIsShown
<1>1. ASSUME TypeOK, Lineage PROVE SigningIsShown
  <2> SUFFICES ASSUME NEW c \in Callers,
                      NEW v \in (UNION {GetChain(c, d) : d \in DocIds})
                                \cup ListChains(c, TRUE),
                      SignedHere(Presentable(v.root))
               PROVE  v.hasSignatures /\ v.platformSigned
    BY DEF SigningIsShown
  <2>1. PICK r \in DocIds : \E h \in HeadOf(Presentable(r)) : v = ChainView(r, h)
    BY <1>1, ViewIsOfHead
  <2>2. PICK h \in HeadOf(Presentable(r)) : v = ChainView(r, h)
    BY <2>1
  <2>3. /\ v.root = r /\ v.hasSignatures = HasSignatures(h)
        /\ v.platformSigned = PlatformSigned(h)
    BY <2>2 DEF ChainView
  <2>4. Presentable(r) \in SUBSET Chain(r)
    BY DEF Presentable
  <2> QED BY <1>1, <2>3, <2>4, HeadShowsSigning
<1> QED BY <1>1, TypeCorrect, LineageCorrect, PTL

\* The record of a destroyed chain still shows that its owner's rows were signed.
THEOREM HistorySigningShown == MetaSpec => []HistoryShowsSigning
<1>1. ASSUME Lineage PROVE HistoryShowsSigning
  <2> SUFFICES ASSUME NEW c \in Callers, NEW v \in ListHistory(c),
                      SignedHere({d \in Chain(v.root) : OwnedBy(d, c)})
               PROVE  v.hasSignatures /\ v.platformSigned
    BY DEF HistoryShowsSigning
  <2> DEFINE Mine(r) == {d \in Chain(r) : OwnedBy(d, c) /\ Terminal(d)}
  <2>1. PICK r \in DocIds : /\ TerminalChain(r)
                            /\ \E h \in HeadOf(Mine(r)) : v = HistoryView(r, h)
    BY DEF ListHistory
  <2>2. PICK h \in HeadOf(Mine(r)) : v = HistoryView(r, h)
    BY <2>1
  <2>3. /\ v.root = r /\ v.hasSignatures = HasSignatures(h)
        /\ v.platformSigned = PlatformSigned(h)
    BY <2>2 DEF HistoryView
  <2>4. Mine(r) = {d \in Chain(r) : OwnedBy(d, c)}
    BY <2>1 DEF TerminalChain
  <2>5. Mine(r) \in SUBSET Chain(r) /\ SignedHere(Mine(r))
    BY <2>3, <2>4
  <2> HIDE DEF Mine
  <2> QED BY <1>1, <2>3, <2>5, HeadShowsSigning
<1> QED BY <1>1, LineageCorrect, PTL

----------------------------------------------------------------------------
(* The two reads of a chain agree.                                         *)

\* A chain of one kind of signed form: any two forms are of the same kind.
LEMMA OneFormMeans ==
    ASSUME TypeOK, NEW r \in DocIds, OneForm(r),
           NEW d \in Forms(r), NEW e \in Forms(r)
    PROVE  rows[d].kind = rows[e].kind
<1> DEFINE K == {rows[x].kind : x \in Forms(r)}
           a == rows[d].kind
           b == rows[e].kind
<1>1. K \in SUBSET Kinds /\ a \in K /\ b \in K
  BY RowTypes DEF Forms, Presentable, Chain, Row
<1>2. IsFiniteSet({"source"} \cup {"container"} \cup {"pdf"})
  BY FS_Singleton, FS_AddElement
<1>3. Kinds = {"source"} \cup {"container"} \cup {"pdf"}
  BY DEF Kinds
<1>4. IsFiniteSet(K)
  BY <1>1, <1>2, <1>3, FS_Subset
<1>5. Cardinality(K) <= 1
  BY DEF OneForm
<1> HIDE DEF K, a, b
<1>6. Cardinality({a} \cup {b}) <= Cardinality(K)
  BY <1>1, <1>4, FS_Subset
<1>7. IsFiniteSet({a}) /\ Cardinality({a}) = 1
  BY FS_Singleton
<1>8. Cardinality({a} \cup {b}) = IF b \in {a} THEN 1 ELSE 2
  BY <1>7, FS_AddElement
<1>9. a = b
  BY <1>4, <1>5, <1>6, <1>8, FS_CardinalityType
<1> QED BY <1>9 DEF a, b

\* Two standing signed pdfs of one tree, its root included, are one.
LEMMA OnePdfInChain ==
    ASSUME ChainInv, NEW r \in DocIds, rows[r].parent = NoParent,
           NEW d \in Forms(r), NEW e \in Forms(r),
           rows[d].kind = "pdf", rows[e].kind = "pdf"
    PROVE  d = e
<1>1. /\ d \in DocIds /\ Stored(d) /\ rows[d].status # "deleted"
      /\ e \in DocIds /\ Stored(e) /\ rows[e].status # "deleted"
      /\ rows[d].parent = r \/ d = r
      /\ rows[e].parent = r \/ e = r
  BY ChainMember DEF Forms, Presentable
<1>2. r # NoParent
  BY DEF DocIds, NoParent
<1>3. CASE rows[d].parent = r
  BY <1>1, <1>2, <1>3 DEF ChainInv, OneSignedPdfPerTree
<1>4. CASE rows[e].parent = r
  BY <1>1, <1>2, <1>4 DEF ChainInv, OneSignedPdfPerTree
<1> QED BY <1>1, <1>3, <1>4

\* Two standing containers below a root that is none are one.
LEMMA OneContainerInChain ==
    ASSUME ChainInv, NEW r \in DocIds, rows[r].kind # "container",
           NEW d \in Forms(r), NEW e \in Forms(r),
           rows[d].kind = "container", rows[e].kind = "container"
    PROVE  d = e
<1>1. /\ d \in DocIds /\ Stored(d) /\ rows[d].status # "deleted"
      /\ e \in DocIds /\ Stored(e) /\ rows[e].status # "deleted"
      /\ rows[d].parent = r /\ rows[e].parent = r
  BY ChainMember DEF Forms, Presentable
<1>2. r # NoParent
  BY DEF DocIds, NoParent
<1> QED BY <1>1, <1>2 DEF ChainInv, OneContainerPerParent

\* So a chain of one kind of form has at most one form.
LEMMA FormUnique ==
    ASSUME ChainInv, NEW r \in DocIds, OneForm(r),
           NEW d \in Forms(r), NEW e \in Forms(r)
    PROVE  d = e
<1>1. rows[d].kind = rows[e].kind
  BY OneFormMeans DEF ChainInv
<1>2. rows[d].kind \in {"container", "pdf"}
  BY RowTypes DEF ChainInv, Forms, Presentable, Chain, Row, Kinds
<1> QED BY <1>1, <1>2, OnePdfInChain, OneContainerInChain DEF OneForm

\* What the head read looks for, in terms of the forms of the chain.
LEMMA HeadCandidates ==
    ASSUME ChainInv, NEW r \in DocIds, OneForm(r)
    PROVE  /\ LatestSignedPdf(r) = {d \in Forms(r) : rows[d].kind = "pdf"}
           /\ ContainersOf(r) = {d \in Forms(r) : rows[d].kind = "container"}
<1>0. r # NoParent /\ rows[r].parent = NoParent /\ rows[r].kind # "container"
  BY DEF DocIds, NoParent, OneForm
<1> DEFINE pdfs == {d \in DocIds : /\ Stored(d) /\ rows[d].kind = "pdf"
                                   /\ rows[d].parent = r \/ d = r
                                   /\ rows[d].status # "deleted"}
<1>1. pdfs = {d \in Forms(r) : rows[d].kind = "pdf"}
  BY <1>0 DEF Forms, Presentable, Chain, ChainRoot
<1>2. \A d, e \in pdfs : d = e
  BY <1>1, FormUnique
<1>3. LatestSignedPdf(r) = {d \in pdfs : \A e \in pdfs : e <= d}
  BY DEF LatestSignedPdf
<1>4. \A d \in pdfs : d \in Int
  BY DEF DocIds
<1>5. {d \in pdfs : \A e \in pdfs : e <= d} = pdfs
  <2> HIDE DEF pdfs
  <2>1. \A d, e \in pdfs : e <= d
    BY <1>2, <1>4
  <2> QED BY <2>1
<1>6. ContainersOf(r) = {d \in Forms(r) : rows[d].kind = "container"}
  BY <1>0 DEF Forms, Presentable, Chain, ChainRoot, ContainersOf
<1> QED BY <1>1, <1>3, <1>5, <1>6

\* The head shown is the chain's form, if it has one.
LEMMA HeadIsForm ==
    ASSUME ChainInv, NEW r \in DocIds, OneForm(r),
           NEW h \in HeadOf(Presentable(r)), NEW x \in Forms(r)
    PROVE  h = x
<1>1. /\ h \in Presentable(r)
      /\ x \in Presentable(r) /\ rows[x].kind # "source"
      /\ \A e \in Presentable(r) \ {h} : Outranks(h, e)
  BY DEF HeadOf, Forms
<1>2. CASE h # x
  <2>1. rows[h].kind # "source"
    BY <1>1, <1>2 DEF Outranks
  <2> QED BY <1>1, <2>1, FormUnique DEF Forms
<1> QED BY <1>2

\* The read of the head and the read of the chain name the same row.
THEOREM HeadReadsAgree == MetaSpec => []HeadsAgree
<1>1. ASSUME ChainInv PROVE HeadsAgree
  <2> SUFFICES ASSUME NEW c \in Callers, NEW d \in DocIds,
                      NEW v \in GetChain(c, d), OneForm(ChainRoot(d))
               PROVE  SignedHead(c, v.root) = {v.id} \cap Forms(v.root)
    BY DEF HeadsAgree
  <2> DEFINE r == ChainRoot(d)
  <2>0. r \in DocIds
    BY <1>1, ParentIsId DEF ChainRoot, ChainInv
  <2>1. PICK h \in HeadOf(Presentable(r)) : v = ChainView(r, h)
    BY DEF GetChain
  <2>2. Allows(r, c, FullId(c))
    BY DEF GetChain
  <2>3. v.root = r /\ v.id = h /\ OneForm(r)
    BY <2>1 DEF ChainView
  <2> HIDE DEF r
  <2>4. /\ LatestSignedPdf(r) = {x \in Forms(r) : rows[x].kind = "pdf"}
        /\ ContainersOf(r) = {x \in Forms(r) : rows[x].kind = "container"}
    BY <1>1, <2>0, <2>3, HeadCandidates
  <2>5. \A x \in Forms(r) : rows[x].kind \in {"container", "pdf"}
    BY <1>1, RowTypes DEF ChainInv, Forms, Presentable, Chain, Row, Kinds
  <2>6. CASE Forms(r) = {}
    BY <2>2, <2>3, <2>4, <2>6 DEF SignedHead
  <2>7. ASSUME NEW x \in Forms(r)
        PROVE  SignedHead(c, r) = {h} \cap Forms(r)
    <3>1. Forms(r) = {x} /\ h = x
      BY <1>1, <2>0, <2>3, <2>7, FormUnique, HeadIsForm
    <3>2. SignedHead(c, r) = {x}
      BY <2>2, <2>4, <2>5, <3>1 DEF SignedHead
    <3> QED BY <3>1, <3>2
  <2> QED BY <2>3, <2>6, <2>7
<1>2. MetaSpec => []ChainInv
  BY InitChainInv, ChainInvariance, PTL DEF MetaSpec
<1> QED BY <1>1, <1>2, PTL

----------------------------------------------------------------------------
(* The retention horizon.                                                  *)

\* A set of naturals that is not empty has a least element.
LEMMA LeastNatural ==
    ASSUME NEW T \in SUBSET Nat, T # {}
    PROVE  \E m \in T : \A k \in T : m <= k
<1>1. PICK m \in T : \A k \in T : <<k, m>> \notin OpToRel(<, Nat)
  BY NatLessThanWellFounded, WFMin
<1>2. \A k \in T : ~(k < m)
  BY <1>1 DEF OpToRel
<1> QED BY <1>2

\* A set of naturals that is not empty and has a bound has a greatest element.
LEMMA GreatestNatural ==
    ASSUME NEW S \in SUBSET Nat, S # {}, NEW b \in Nat, \A s \in S : s <= b
    PROVE  \E t \in S : \A u \in S : u <= t
<1> DEFINE T == {b - s : s \in S}
<1>0. \A s \in S : b - s \in Nat
  OBVIOUS
<1>1. T \in SUBSET Nat /\ T # {}
  BY <1>0
<1>2. PICK m \in T : \A k \in T : m <= k
  BY <1>1, LeastNatural
<1>3. PICK t \in S : m = b - t
  BY <1>2
<1>4. ASSUME NEW u \in S PROVE u <= t
  <2>1. b - t <= b - u
    BY <1>2, <1>3
  <2> QED BY <2>1
<1> QED BY <1>4

\* The dates of the rows are bounded: there are finitely many ids.
LEMMA DatesBounded ==
    ASSUME TypeOK
    PROVE  \E b \in Nat : \A d \in DocIds : rows[d].until <= b
<1> DEFINE Bounded(n) == \E b \in Nat : \A d \in DocIds : d <= n => rows[d].until <= b
           T == {n \in Nat : ~Bounded(n)}
<1>1. \A d \in DocIds : rows[d].until \in Int /\ rows[d].until <= rows[d].until
  BY RowTypes DEF Row, NoDate
<1>2. CASE T # {}
  <2>1. PICK m \in T : \A k \in T : m <= k
    BY <1>2, LeastNatural
  <2>2. m # 0
    BY <2>1 DEF DocIds
  <2>3. m - 1 \in Nat /\ m - 1 \notin T
    BY <2>1, <2>2
  <2>4. PICK b \in Nat : \A d \in DocIds : d <= m - 1 => rows[d].until <= b
    BY <2>3
  <2>5. CASE m \in DocIds
    <3> DEFINE c == IF rows[m].until > b THEN rows[m].until ELSE b
    <3>1. c \in Nat /\ b <= c /\ rows[m].until <= c
      BY <1>1, <2>4, <2>5
    <3> HIDE DEF c
    <3>2. ASSUME NEW d \in DocIds, d <= m PROVE rows[d].until <= c
      <4>1. CASE d = m
        BY <3>1, <4>1
      <4>2. CASE d # m
        <5>1. d <= m - 1
          BY <2>1, <3>2, <4>2 DEF DocIds
        <5>2. rows[d].until <= b /\ rows[d].until \in Int
          BY <1>1, <2>4, <5>1
        <5> QED BY <3>1, <5>2
      <4> QED BY <4>1, <4>2
    <3> QED BY <2>1, <3>1, <3>2
  <2>6. CASE m \notin DocIds
    <3>1. \A d \in DocIds : d <= m => d <= m - 1
      BY <2>1, <2>6 DEF DocIds
    <3> QED BY <2>1, <2>4, <3>1
  <2> QED BY <2>5, <2>6
<1>3. CASE T = {}
  <2>1. Bounded(MaxDocs)
    BY <1>3, MetaAssumption
  <2> QED BY <2>1, MetaAssumption DEF DocIds
<1> QED BY <1>2, <1>3

\* The dates of some rows, if there are any, have a latest one.
LEMMA LatestDate ==
    ASSUME TypeOK, NEW D \in SUBSET DocIds,
           {rows[e].until : e \in D} \ {NoDate} # {}
    PROVE  \E t \in {rows[e].until : e \in D} \ {NoDate} :
               \A u \in {rows[e].until : e \in D} \ {NoDate} : u <= t
<1> DEFINE dates == {rows[e].until : e \in D} \ {NoDate}
<1>1. dates \in SUBSET Nat
  BY RowTypes DEF Row
<1>2. PICK b \in Nat : \A d \in DocIds : rows[d].until <= b
  BY DatesBounded
<1>3. \A s \in dates : s <= b
  BY <1>2
<1> HIDE DEF dates
<1>4. dates # {}
  BY DEF dates
<1>5. \E t \in dates : \A u \in dates : u <= t
  BY <1>1, <1>3, <1>4, GreatestNatural
<1> QED BY <1>5 DEF dates

\* Before the horizon some bytes of the chain are safe from the sweep; after it
\* every row that holds bytes is due, undated or held: the workflow service never
\* drops its record of a signing that is still kept, nor keeps it for nothing.
THEOREM HorizonCorrect == MetaSpec => []HorizonIsRight
<1>1. ASSUME TypeOK, BytesIffLive PROVE HorizonIsRight
  <2> SUFFICES ASSUME NEW d \in DocIds, Stored(d)
               PROVE  LET held == {e \in Chain(ChainRoot(d)) : rows[e].ref # NoRef}
                      IN  IF ChainRetention(d).until < now
                          THEN \A e \in held : \/ e \in DueRows(now)
                                               \/ rows[e].until = NoDate
                                               \/ rows[e].hold
                          ELSE \E e \in held : e \notin DueRows(now)
    BY DEF HorizonIsRight
  <2> DEFINE held == {e \in Chain(ChainRoot(d)) : rows[e].ref # NoRef}
             dates == {rows[e].until : e \in held} \ {NoDate}
             t == ChainRetention(d).until
  <2>1. held \in SUBSET DocIds /\ \A e \in held : Live(e)
    BY <1>1 DEF Chain, BytesIffLive
  <2>2. /\ now \in Nat
        /\ \A e \in held : rows[e].until \in Nat \cup {NoDate}
    BY <1>1, <2>1, RowTypes DEF TypeOK, Row
  <2>3. t = IF dates = {} THEN ZeroInstant
            ELSE CHOOSE u \in dates : \A v \in dates : v <= u
    BY DEF ChainRetention
  <2> HIDE DEF held, t
  <2>4. CASE dates = {}
    <3>1. t < now /\ \A e \in held : rows[e].until = NoDate
      BY <2>2, <2>3, <2>4 DEF ZeroInstant
    <3> QED BY <3>1 DEF held, t
  <2>5. CASE dates # {}
    <3>1. \E u \in dates : \A v \in dates : v <= u
      BY <1>1, <2>1, <2>5, LatestDate
    <3>2. t \in dates /\ \A v \in dates : v <= t
      BY <2>3, <2>5, <3>1
    <3>3. PICK x \in held : rows[x].until = t
      BY <3>2
    <3>4. t \in Nat /\ t # NoDate
      BY <2>2, <3>2
    <3>5. ASSUME t < now, NEW e \in held, rows[e].until # NoDate, ~rows[e].hold
          PROVE  e \in DueRows(now)
      <4>1. rows[e].until \in Nat /\ rows[e].until <= t
        BY <2>2, <3>2, <3>5
      <4>2. rows[e].until < now
        BY <2>2, <3>4, <3>5, <4>1
      <4> QED BY <2>1, <3>5, <4>2 DEF DueRows
    <3>6. ASSUME ~(t < now) PROVE x \notin DueRows(now)
      BY <3>3, <3>6 DEF DueRows
    <3> QED BY <3>3, <3>5, <3>6 DEF held, t
  <2> QED BY <2>4, <2>5
<1> QED BY <1>1, TypeCorrect, BytesFollowLife, PTL
=============================================================================
