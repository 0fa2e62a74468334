----------------------------- MODULE ChainViews -----------------------------
(***************************************************************************)
(* What the metadata layer shows of its chains: the listing and the        *)
(* single-chain read, the head a co-signer signs next, the history of      *)
(* destroyed chains and the retention horizon.  Each answer is computed    *)
(* under the lock, so it is a function of the state.                       *)
(***************************************************************************)
EXTENDS MetadataStore

----------------------------------------------------------------------------
(* Chains as their heads.                                                  *)

\* A signed form outranks a plain source; between equals the newer row wins.
Outranks(a, b) ==
    LET signed(d) == rows[d].kind # "source"
    IN  IF signed(a) # signed(b) THEN signed(a) ELSE a > b

\* The head of a set of rows, as a set of at most one.
HeadOf(D) == {d \in D : \A e \in D \ {d} : Outranks(d, e)}

\* The rows a chain may be shown as.
Presentable(r) == {d \in Chain(r) : rows[d].status # "deleted"}

HasSignatures(d) == rows[d].kind # "source" \/ rows[d].signed

\* Mutants of PlatformSigned: one of the two ways of signing is forgotten.
PlatformSignedBelow(d) == rows[d].parent # NoParent
PlatformSignedInPlace(d) == rows[d].signed

\* Signed here: below its root, or in place.
PlatformSigned(d) == rows[d].parent # NoParent \/ rows[d].signed

\* One chain as its head h.
ChainView(r, h) ==
    [root |-> r, id |-> h, kind |-> rows[h].kind, status |-> rows[h].status,
     until |-> rows[h].until, hold |-> rows[h].hold,
     hasSignatures |-> HasSignatures(h), platformSigned |-> PlatformSigned(h),
     frozen |-> Stored(r) /\ rows[r].frozen, updated |-> rows[h].updated]

\* One destroyed chain as its head h.
HistoryView(r, h) ==
    [root |-> r, id |-> h, kind |-> rows[h].kind, status |-> rows[h].status,
     hasSignatures |-> HasSignatures(h), platformSigned |-> PlatformSigned(h),
     destroyed |-> rows[h].updated]

\* The chain listing, before paging.
ListChains(c, includeExpired) ==
    UNION {{ChainView(r, h) : h \in
               {h \in HeadOf(Presentable(r)) :
                   includeExpired \/ rows[h].status # "expired"}} :
           r \in {r \in DocIds : Allows(r, c, FullId(c))}}

\* GET /documents/{id}/chain: one chain by any of its ids.
GetChain(c, d) ==
    IF Stored(d) /\ Allows(ChainRoot(d), c, FullId(c))
    THEN {ChainView(ChainRoot(d), h) : h \in HeadOf(Presentable(ChainRoot(d)))}
    ELSE {}

\* Mutant of SignedHead: only what hangs below the root counts.
SignedHeadChildren(c, r) ==
    IF ~Allows(r, c, FullId(c)) THEN {}
    ELSE IF LatestSignedPdf(r) \ {r} # {} THEN LatestSignedPdf(r) \ {r}
    ELSE ContainersOf(r)

\* GET /documents/{id}/head: the signed pdf of the tree, else the container
\* below the root, else nothing.
SignedHead(c, r) ==
    IF ~Allows(r, c, FullId(c)) THEN {}
    ELSE IF LatestSignedPdf(r) # {} THEN LatestSignedPdf(r)
    ELSE ContainersOf(r)

\* Mutant of TerminalChain: an expired head speaks for the chain.
TerminalChainByHead(r) ==
    \A d \in HeadOf(Chain(r)) : Terminal(d)

\* No row of the chain is live.
TerminalChain(r) == \A d \in Chain(r) : Terminal(d)

\* GET /history: the caller's destroyed chains, each as its terminal head.
ListHistory(c) ==
    UNION {{HistoryView(r, h) : h \in
               HeadOf({d \in Chain(r) : OwnedBy(d, c) /\ Terminal(d)})} :
           r \in {r \in DocIds : TerminalChain(r)}}

ZeroInstant == -1

\* Mutant of ChainRetention: the nearest date.
ChainRetentionNearest(d) ==
    LET held == {e \in Chain(ChainRoot(d)) : rows[e].ref # NoRef}
        dates == {rows[e].until : e \in held} \ {NoDate}
    IN  [until |-> IF dates = {} THEN ZeroInstant
                   ELSE CHOOSE t \in dates : \A u \in dates : t <= u,
         live |-> Cardinality(held)]

\* GET /documents/{id}/retention: the latest date over the rows that hold bytes,
\* the zero instant where none is dated, and how many rows they are.
ChainRetention(d) ==
    LET held == {e \in Chain(ChainRoot(d)) : rows[e].ref # NoRef}
        dates == {rows[e].until : e \in held} \ {NoDate}
    IN  [until |-> IF dates = {} THEN ZeroInstant
                   ELSE CHOOSE t \in dates : \A u \in dates : u <= t,
         live |-> Cardinality(held)]

----------------------------------------------------------------------------
(* Properties.                                                             *)

\* The signed forms a chain may be shown as.
Forms(r) == {d \in Presentable(r) : rows[d].kind # "source"}

\* A chain with signed forms of one kind, below a root that is no container.
OneForm(r) ==
    /\ rows[r].parent = NoParent /\ rows[r].kind # "container"
    /\ Cardinality({rows[d].kind : d \in Forms(r)}) <= 1

\* The two answers to "what is this chain now" agree, by whatever uploads,
\* signatures, expiries, late replaces and departures it came about: /head
\* names the signed form /chain shows, and is empty while that is the source.
\* Not so where a chain holds both a container and a signed pdf, where its root
\* is itself a container (/head is empty: documents.go promises the root), and
\* for a container made of a signed form.
HeadsAgree ==
    \A d \in DocIds : OneForm(ChainRoot(d)) =>
        \A c \in Callers : \A v \in GetChain(c, d) :
            SignedHead(c, v.root) = {v.id} \cap Forms(v.root)

\* Signed here: a row made below the root, or one whose bytes were replaced.
SignedHere(D) == \E d \in D : rows[d].parent # NoParent \/ rows[d].signed

\* A signing done here shows, whether it made a row below the root or replaced
\* the root's own bytes: the chain's head says so in the read and in the listing
\* alike (memory.go: "the disagreement that made a completed signing render as a
\* draft").
SigningIsShown ==
    \A c \in Callers :
        \A v \in (UNION {GetChain(c, d) : d \in DocIds}) \cup ListChains(c, TRUE) :
            SignedHere(Presentable(v.root)) => v.hasSignatures /\ v.platformSigned

\* The record of a destroyed chain still says that it was signed, although the
\* head is chosen anew among the rows that are left.  It looks at the caller's
\* own rows only: a chain signed by somebody else shows as the unsigned source.
HistoryShowsSigning ==
    \A c \in Callers : \A v \in ListHistory(c) :
        SignedHere({d \in Chain(v.root) : OwnedBy(d, c)}) =>
            v.hasSignatures /\ v.platformSigned

\* History is what was destroyed: a chain listed there holds no bytes and is
\* not among the live chains of its owner (store.go, HistoryChain: "every row
\* expired or deleted, the storage destroyed").
HistoryMeansDestroyed ==
    \A c \in Callers : \A h \in ListHistory(c) :
        /\ \A d \in Chain(h.root) : rows[d].ref = NoRef
        /\ ~\E v \in ListChains(c, FALSE) : v.root = h.root

\* The workflow service drops its record of a signing when the horizon has
\* passed.  Before that instant some bytes are safe from the sweep; after it the
\* sweep is owed every row that holds bytes, undated and held ones apart.
HorizonIsRight ==
    \A d \in DocIds : Stored(d) =>
        LET held == {e \in Chain(ChainRoot(d)) : rows[e].ref # NoRef}
        IN  IF ChainRetention(d).until < now
            THEN \A e \in held : \/ e \in DueRows(now)
                                 \/ rows[e].until = NoDate \/ rows[e].hold
            ELSE \E e \in held : e \notin DueRows(now)

\* Nobody can delete a live row of a chain nobody is on (a signed form stored
\* after the last departure, the forms of an absorbed root), so the sweep must:
\* such a row is always dated.
OrphansExpire ==
    \A d \in DocIds :
        Live(d) /\ (\A e \in acl : e.root # ChainRoot(d)) => rows[d].until # NoDate
=============================================================================
