----------------------------- MODULE WalkProofs -----------------------------
(***************************************************************************)
(* Proofs about ListingWalk, for every page size and any number of chains: *)
(* a client that follows the cursor misses no chain that stays where it is *)
(* and sees none of them twice.                                            *)
(*                                                                         *)
(* What the walk has yet to show is past its cursor, and what it has shown *)
(* is not.  A page is all that is left or the chains nearest to the        *)
(* cursor, so that moving the cursor to its last one keeps both.           *)
(***************************************************************************)
EXTENDS ListingWalk, ViewProofs

----------------------------------------------------------------------------
(* The order of the listing.                                               *)

\* Chains at their places.
Places == Nat \X DocIds
Placed == {i \in [root: DocIds, at: Places] : i.at[2] = i.root}

\* Places are ordered from the greatest to the least, without ties.
LEMMA PlaceOrder ==
    /\ \A a, b \in Places : a = b \/ Before(a, b) \/ Before(b, a)
    /\ \A a, b \in Places : Before(a, b) => ~Before(b, a) /\ a # b
    /\ \A a, b, c \in Places : Before(a, b) /\ Before(b, c) => Before(a, c)
<1>1. \A a \in Places : a[1] \in Nat /\ a[2] \in Int /\ a = <<a[1], a[2]>>
  BY DEF Places, DocIds
<1>2. \A a, b \in Places : a[1] = b[1] /\ a[2] = b[2] => a = b
  BY <1>1
<1>3. \A a, b \in Places : a = b \/ Before(a, b) \/ Before(b, a)
  BY <1>1, <1>2 DEF Before
<1>4. \A a, b \in Places : Before(a, b) => ~Before(b, a) /\ a # b
  BY <1>1 DEF Before
<1>5. \A a, b, c \in Places : Before(a, b) /\ Before(b, c) => Before(a, c)
  BY <1>1 DEF Before
<1> QED BY <1>3, <1>4, <1>5

\* A place is of one chain.
LEMMA PlaceOfOne ==
    ASSUME NEW i \in Placed, NEW j \in Placed, i.at = j.at
    PROVE  i = j
BY DEF Placed

\* Some chains that are listed have a last one: no finiteness is needed.
LEMMA LastExists ==
    ASSUME NEW P \in SUBSET Placed, P # {}
    PROVE  \E i \in P : \A j \in P : j = i \/ Before(i.at, j.at)
<1> DEFINE T == {i.at[1] : i \in P}
<1>0. \A i \in P : i.at \in Places /\ i.at[1] \in Nat /\ i.at[2] \in Nat
  BY DEF Placed, Places, DocIds
<1>1. T \in SUBSET Nat /\ T # {}
  BY <1>0
<1>2. PICK t \in T : \A k \in T : t <= k
  BY <1>1, LeastNatural
<1> DEFINE U == {i.at[2] : i \in {j \in P : j.at[1] = t}}
<1>3. U \in SUBSET Nat /\ U # {}
  BY <1>0, <1>2
<1>4. PICK u \in U : \A k \in U : u <= k
  BY <1>3, LeastNatural
<1>5. PICK i \in P : i.at[1] = t /\ i.at[2] = u
  BY <1>4
<1>6. ASSUME NEW j \in P PROVE j = i \/ Before(i.at, j.at)
  <2>1. t <= j.at[1] /\ (j.at[1] = t => u <= j.at[2])
    BY <1>2, <1>4
  <2>2. t \in Nat /\ u \in Nat /\ j.at[1] \in Nat /\ j.at[2] \in Nat
    BY <1>0, <1>5
  <2>3. CASE j.at[1] = t /\ j.at[2] = u
    <3>1. j.at = i.at
      BY <1>0, <1>5, <2>3 DEF Places
    <3> QED BY <3>1, PlaceOfOne
  <2>4. CASE ~(j.at[1] = t /\ j.at[2] = u)
    BY <1>5, <2>1, <2>2, <2>4 DEF Before
  <2> QED BY <2>3, <2>4
<1> QED BY <1>6

\* So a page that is not empty has a last place.
LEMMA LastPlace ==
    ASSUME NEW P \in SUBSET Placed, P # {}
    PROVE  \E i \in P : LastOf(P) = i.at /\ \A j \in P : j = i \/ Before(i.at, j.at)
<1>1. \E i \in P : \A j \in P : j = i \/ Before(i.at, j.at)
  BY LastExists
<1> QED BY <1>1 DEF LastOf

\* The listing shows chains at their places, and finitely many.
LEMMA ItemsPlaced ==
    ASSUME TypeOK
    PROVE  Items \in SUBSET Placed /\ IsFiniteSet(Items)
<1> DEFINE S == DocIds \X DocIds
           item(r, h) == [root |-> r, at |-> <<rows[h].updated, r>>]
           f == [x \in S |-> item(x[1], x[2])]
           T == {f[x] : x \in S}
<1>1. ASSUME NEW i \in Items PROVE \E r, h \in DocIds : i = item(r, h)
  <2>1. PICK v \in ListChains(Viewer, FALSE) :
            i = [root |-> v.root, at |-> <<v.updated, v.root>>]
    BY <1>1 DEF Items
  <2>2. PICK r \in DocIds : \E h \in HeadOf(Presentable(r)) : v = ChainView(r, h)
    BY <2>1 DEF ListChains
  <2>3. PICK h \in HeadOf(Presentable(r)) : v = ChainView(r, h)
    BY <2>2
  <2>4. h \in DocIds
    BY DEF HeadOf, Presentable, Chain
  <2>5. v.root = r /\ v.updated = rows[h].updated
    BY <2>3 DEF ChainView
  <2> QED BY <2>1, <2>4, <2>5
<1>2. ASSUME NEW r \in DocIds, NEW h \in DocIds PROVE item(r, h) \in Placed
  <2>1. rows[h].updated \in Nat
    BY RowTypes DEF Row
  <2> QED BY <2>1 DEF Placed, Places
<1>3. \A r, h \in DocIds : <<r, h>> \in S /\ f[<<r, h>>] = item(r, h)
  OBVIOUS
<1>4. ASSUME NEW i \in Items PROVE i \in T
  <2>1. PICK r, h \in DocIds : i = item(r, h)
    BY <1>1, <1>4
  <2>2. <<r, h>> \in S /\ f[<<r, h>>] = i
    BY <1>3, <2>1
  <2> HIDE DEF S, f
  <2> QED BY <2>2
<1>5. IsFiniteSet(S)
  <2>1. IsFiniteSet(DocIds)
    BY FS_Interval, MetaAssumption DEF DocIds
  <2> QED BY <2>1, FS_Product
<1>6. f \in Surjection(S, T)
  BY DEF Surjection
<1>7. IsFiniteSet(T)
  BY <1>5, <1>6, FS_Surjection
<1> QED BY <1>1, <1>2, <1>4, <1>7, FS_Subset

----------------------------------------------------------------------------
(* Pages.                                                                  *)

\* The chains listed before this one, among those past the cursor.
Ahead(at, i) == {j \in Past(at) : Before(i.at, j.at)}

\* Those sets and the page are finite.
LEMMA PageFinite ==
    ASSUME TypeOK, NEW at, NEW i
    PROVE  /\ Past(at) \in SUBSET Placed /\ IsFiniteSet(Past(at))
           /\ IsFiniteSet(Ahead(at, i)) /\ Cardinality(Ahead(at, i)) \in Nat
           /\ Page(at) \in SUBSET Past(at) /\ IsFiniteSet(Page(at))
           /\ Cardinality(Page(at)) \in Nat
<1>1. Past(at) \in SUBSET Items /\ Ahead(at, i) \in SUBSET Items /\ Page(at) \in SUBSET Items
  BY DEF Past, Ahead, Page
<1>2. Items \in SUBSET Placed /\ IsFiniteSet(Items)
  BY ItemsPlaced
<1>3. IsFiniteSet(Past(at)) /\ IsFiniteSet(Ahead(at, i)) /\ IsFiniteSet(Page(at))
  BY <1>1, <1>2, FS_Subset
<1> QED BY <1>1, <1>2, <1>3, FS_CardinalityType DEF Page

\* The page is the chains with fewer than PageSize ahead of them.
LEMMA PageMeans ==
    ASSUME NEW at, NEW i \in Past(at)
    PROVE  i \in Page(at) <=> Cardinality(Ahead(at, i)) < PageSize
BY DEF Page, Ahead

\* What is past the cursor and not on the page comes after all of the page.
LEMMA PageIsNearest ==
    ASSUME TypeOK, NEW at, NEW i \in Past(at) \ Page(at), NEW j \in Page(at)
    PROVE  Before(i.at, j.at)
<1>0. /\ i \in Placed /\ j \in Placed /\ j \in Past(at) /\ i # j
      /\ i.at \in Places /\ j.at \in Places /\ PageSize \in Nat
  BY PageFinite, WalkAssumption DEF Placed
<1>1. CASE Before(j.at, i.at)
  <2>1. \A k \in Past(at) : k.at \in Places
    BY PageFinite DEF Placed
  <2>2. Ahead(at, i) \in SUBSET Ahead(at, j)
    BY <1>0, <1>1, <2>1, PlaceOrder DEF Ahead
  <2>3. Cardinality(Ahead(at, i)) <= Cardinality(Ahead(at, j))
    BY <2>2, PageFinite, FS_Subset
  <2>4. Cardinality(Ahead(at, j)) < PageSize /\ ~(Cardinality(Ahead(at, i)) < PageSize)
    BY <1>0, PageMeans
  <2>5. Cardinality(Ahead(at, i)) \in Nat /\ Cardinality(Ahead(at, j)) \in Nat
    BY PageFinite
  <2> QED BY <1>0, <2>3, <2>4, <2>5
<1> QED BY <1>0, <1>1, PlaceOrder, PlaceOfOne

\* A short page is all that is past the cursor.
LEMMA ShortIsLast ==
    ASSUME TypeOK, NEW at, Cardinality(Page(at)) < PageSize
    PROVE  Past(at) \subseteq Page(at)
<1> DEFINE Rest == Past(at) \ Page(at)
           N == {Cardinality(Ahead(at, i)) : i \in Rest}
<1> SUFFICES ASSUME Rest # {} PROVE FALSE
  OBVIOUS
<1>1. N \in SUBSET Nat /\ N # {}
  BY PageFinite
<1>2. PICK m \in N : \A k \in N : m <= k
  BY <1>1, LeastNatural
<1>3. PICK i \in Rest : m = Cardinality(Ahead(at, i))
  BY <1>2
<1>4. \A k \in Past(at) : k \in Placed /\ k.at \in Places
  BY PageFinite DEF Placed
<1>5. ASSUME NEW j \in Ahead(at, i), j \notin Page(at) PROVE FALSE
  <2>1. j \in Rest /\ Before(i.at, j.at)
    BY <1>5 DEF Ahead
  <2>2. Ahead(at, j) \in SUBSET Ahead(at, i)
    BY <1>3, <1>4, <2>1, PlaceOrder DEF Ahead
  <2>3. j \notin Ahead(at, j)
    BY <1>4, <2>1, PlaceOrder DEF Ahead
  <2>4. Cardinality(Ahead(at, j)) <= Cardinality(Ahead(at, i))
        /\ Cardinality(Ahead(at, i)) # Cardinality(Ahead(at, j))
    BY <1>5, <2>2, <2>3, PageFinite, FS_Subset
  <2>5. Cardinality(Ahead(at, i)) <= Cardinality(Ahead(at, j))
    BY <1>2, <1>3, <2>1
  <2>6. Cardinality(Ahead(at, i)) \in Nat /\ Cardinality(Ahead(at, j)) \in Nat
    BY PageFinite
  <2> QED BY <2>4, <2>5, <2>6
<1>6. Ahead(at, i) \in SUBSET Page(at)
  BY <1>5
<1>7. Cardinality(Ahead(at, i)) <= Cardinality(Page(at))
  BY <1>6, PageFinite, FS_Subset
<1>8. ~(Cardinality(Ahead(at, i)) < PageSize)
  BY <1>3, PageMeans
<1>9. /\ Cardinality(Ahead(at, i)) \in Nat /\ Cardinality(Page(at)) \in Nat
      /\ PageSize \in Nat
  BY PageFinite, WalkAssumption
<1> QED BY <1>7, <1>8, <1>9

----------------------------------------------------------------------------
(* The walk.                                                               *)

Walks == [on: BOOLEAN, at: {Start} \cup Places, due: SUBSET Placed,
          shown: SUBSET Placed, missed: SUBSET Placed, again: SUBSET Placed]

\* The inductive invariant: what is due is listed past the cursor, what was shown
\* is not past it, and nothing was missed or repeated so far.
WalkInv ==
    /\ TypeOK /\ walk \in Walks
    /\ walk.missed = {} /\ walk.again = {}
    /\ ~walk.on => walk = Resting
    /\ walk.due \subseteq Past(walk.at)
    /\ walk.at = Start => walk.shown = {}
    /\ \A i \in walk.shown : ~Before(i.at, walk.at)

\* Resting is a walk with nothing due.
LEMMA RestingWalk ==
    /\ Resting \in Walks /\ Resting.on = FALSE /\ Resting.at = Start
    /\ Resting.due = {} /\ Resting.shown = {} /\ Resting.missed = {} /\ Resting.again = {}
BY DEF Resting, Walks

\* No place is the start.
LEMMA StartIsNoPlace == Start \notin Places
BY DEF Start, Places

\* While rows and access list stay, so does the listing.
LEMMA ItemsStay ==
    ASSUME TypeOK, UNCHANGED metaVars
    PROVE  TypeOK' /\ Items' = Items
BY DEF TypeOK, metaVars, Items, ListChains, HeadOf, Presentable, Chain, ChainView,
   HasSignatures, PlatformSigned, Outranks, Stored, Allows, ChainRoot

\* A walk sets out.
LEMMA StartWalkKeeps ==
    ASSUME WalkInv, StartWalk
    PROVE  WalkInv'
<1> DEFINE new == [Resting EXCEPT !.on = TRUE, !.due = Items]
<1>1. walk' = new /\ UNCHANGED metaVars /\ Items \in SUBSET Placed
  BY ItemsPlaced DEF WalkInv, StartWalk
<1>2. /\ new \in Walks /\ new.on /\ new.at = Start /\ new.due = Items
      /\ new.shown = {} /\ new.missed = {} /\ new.again = {}
  BY <1>1 DEF Resting, Walks
<1> HIDE DEF new
<1>3. TypeOK' /\ Items' = Items
  BY <1>1, ItemsStay DEF WalkInv
<1>4. walk'.due \subseteq Past(walk.at)'
  BY <1>1, <1>2, <1>3 DEF Past
<1> QED BY <1>1, <1>2, <1>3, <1>4 DEF WalkInv

\* Nothing on a page was shown before.
LEMMA PageIsNew ==
    ASSUME WalkInv
    PROVE  walk.shown \cap Page(walk.at) = {}
BY PageFinite DEF WalkInv, Past

\* A page is read: the last one, or one that moves the cursor.
LEMMA NextPageKeeps ==
    ASSUME WalkInv, NextPage
    PROVE  WalkInv'
<1> DEFINE page == Page(walk.at)
           due == walk.due \ page
           shown == walk.shown \cup (walk.due \cap page)
           again == walk.again \cup (walk.shown \cap page)
           next == [walk EXCEPT !.due = due, !.shown = shown, !.again = again]
<1>0. /\ TypeOK /\ walk \in Walks /\ walk.on /\ UNCHANGED metaVars /\ walk.missed = {}
      /\ walk.due \subseteq Past(walk.at) /\ TypeOK' /\ Items' = Items
  BY ItemsStay DEF WalkInv, NextPage
<1>1. again = {} /\ page \in SUBSET Placed
  BY <1>0, PageIsNew, PageFinite DEF WalkInv
<1>2. /\ next \in Walks /\ next.on /\ next.due = due /\ next.shown = shown
      /\ next.again = {} /\ next.missed = {} /\ next.at = walk.at
  BY <1>0, <1>1 DEF Walks
<1>3. CASE Cardinality(page) < PageSize
  <2>1. walk' = [Resting EXCEPT !.missed = next.due, !.again = next.again]
    BY <1>3 DEF NextPage
  <2>2. next.due = {}
    BY <1>0, <1>2, <1>3, ShortIsLast
  <2> HIDE DEF next
  <2>3. walk' = Resting
    BY <1>2, <2>1, <2>2 DEF Resting
  <2> QED BY <1>0, <2>3, RestingWalk DEF WalkInv
<1>4. CASE ~(Cardinality(page) < PageSize)
  <2> DEFINE new == [next EXCEPT !.at = LastOf(page)]
  <2>1. walk' = new
    BY <1>4 DEF NextPage
  <2>2. page # {}
    <3>1. PageSize > 0 /\ PageSize \in Nat
      BY WalkAssumption
    <3> QED BY <1>4, <3>1, FS_EmptySet
  <2> HIDE DEF page
  <2>3. PICK last \in page : /\ LastOf(page) = last.at
                             /\ \A j \in page : j = last \/ Before(last.at, j.at)
    BY <1>1, <2>2, LastPlace
  <2>4. last.at \in Places /\ last \in Placed /\ last \in Past(walk.at)
    BY <1>0, <1>1, <2>3, PageFinite DEF page, Placed
  <2> HIDE DEF next, due, shown, again
  <2>5. /\ new \in Walks /\ new.on /\ new.due = due /\ new.shown = shown
        /\ new.again = {} /\ new.missed = {} /\ new.at = last.at
    BY <1>2, <2>3, <2>4 DEF Walks
  <2> HIDE DEF new
  <2>6. ASSUME NEW i \in due PROVE i \in Items /\ Before(i.at, last.at)
    <3>1. i \in Past(walk.at) \ page
      BY <1>0, <2>6 DEF due
    <3> QED BY <1>0, <2>3, <3>1, PageIsNearest DEF page, Past
  <2>7. ASSUME NEW i \in shown PROVE ~Before(i.at, last.at)
    <3>1. i \in Placed /\ i.at \in Places
      BY <1>0, <2>7 DEF shown, Walks, Placed
    <3>2. CASE i \in page
      BY <2>3, <2>4, <3>1, <3>2, PlaceOrder
    <3>3. CASE i \in walk.shown
      <4>1. walk.at \in Places /\ ~Before(i.at, walk.at) /\ Before(last.at, walk.at)
        BY <1>0, <2>4, <3>3 DEF WalkInv, Walks, Past
      <4> QED BY <2>4, <3>1, <4>1, PlaceOrder
    <3> QED BY <2>7, <3>2, <3>3 DEF shown
  <2>8. last.at # Start
    BY <2>4, StartIsNoPlace
  <2>9. walk'.due \subseteq Past(walk.at)'
    BY <1>0, <2>1, <2>5, <2>6 DEF Past
  <2> QED BY <1>0, <2>1, <2>5, <2>7, <2>8, <2>9 DEF WalkInv
<1> QED BY <1>3, <1>4

\* Everybody else moves chains about: what stays where it was is still owed, and
\* still on its side of the cursor.
LEMMA ActKeeps ==
    ASSUME WalkInv, Act
    PROVE  WalkInv'
<1> DEFINE new == [walk EXCEPT !.due = @ \cap Items', !.shown = @ \cap Items']
<1>0. walk \in Walks /\ TypeOK'
  BY TypeInvariance DEF WalkInv, Act
<1>1. CASE ~walk.on
  <2>1. walk' = Resting
    BY <1>1 DEF WalkInv, Act
  <2> QED BY <1>0, <2>1, RestingWalk DEF WalkInv
<1>2. CASE walk.on
  <2>1. walk' = new
    BY <1>2 DEF Act
  <2>2. /\ new \in Walks /\ new.on /\ new.at = walk.at
        /\ new.due = walk.due \cap Items' /\ new.shown = walk.shown \cap Items'
        /\ new.missed = walk.missed /\ new.again = walk.again
    BY <1>0, <1>2 DEF Walks
  <2> HIDE DEF new
  <2>3. walk'.due \subseteq Past(walk.at)'
    BY <2>1, <2>2 DEF WalkInv, Past
  <2> QED BY <1>0, <2>1, <2>2, <2>3 DEF WalkInv
<1> QED BY <1>1, <1>2

\* A client that follows the cursor to a short page has been shown every chain that
\* stayed where it was, and none of them twice, for any page size and whatever else
\* happens to the listing meanwhile.
THEOREM WalkComplete == WalkSpec => []WalkIsComplete
<1>1. WalkInit => WalkInv
  BY InitTypeOK, RestingWalk DEF WalkInit, WalkInv
<1>2. WalkInv /\ [WalkNext]_walkVars => WalkInv'
  <2> SUFFICES ASSUME WalkInv, [WalkNext]_walkVars PROVE WalkInv'
    OBVIOUS
  <2>1. CASE UNCHANGED walkVars
    <3>1. TypeOK' /\ Items' = Items /\ UNCHANGED walk
      BY <2>1, ItemsStay DEF WalkInv, walkVars, metaVars
    <3> QED BY <3>1 DEF WalkInv, Past
  <2> QED BY <2>1, StartWalkKeeps, NextPageKeeps, ActKeeps DEF WalkNext
<1>3. WalkInv => WalkIsComplete
  BY DEF WalkInv, WalkIsComplete
<1> QED BY <1>1, <1>2, <1>3, PTL DEF WalkSpec
=============================================================================
