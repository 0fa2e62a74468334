----------------------------- MODULE ListingWalk -----------------------------
(***************************************************************************)
(* A client reads the chain listing page by page (?limit=, ?after=) while  *)
(* everybody else goes on.  A page is one call under the lock, the walk is *)
(* several.                                                                *)
(***************************************************************************)
EXTENDS ChainViews

CONSTANTS
    Viewer,     \* the caller who walks
    PageSize    \* ?limit=

ASSUME WalkAssumption ==
    Viewer \in Callers /\ PageSize \in Nat \ {0}

VARIABLE walk

walkVars == <<rows, acl, now, walk>>

----------------------------------------------------------------------------
(* Paging.  An item is a chain at its place in the listing's order, the     *)
(* greatest first; a cursor is the place of the last item seen.             *)

\* What the listing shows the viewer.
Items ==
    {[root |-> v.root, at |-> <<v.updated, v.root>>] : v \in ListChains(Viewer, FALSE)}

\* The order of places: last action, then root id.
Before(a, b) == a[1] < b[1] \/ (a[1] = b[1] /\ a[2] < b[2])

Start == <<-1, 0>>      \* no cursor

\* Mutant of Past: the cursor is an instant alone, which skips ties.
PastInstant(at) == {i \in Items : at = Start \/ i.at[1] < at[1]}

\* The items past the cursor.
Past(at) == {i \in Items : at = Start \/ Before(i.at, at)}

\* The first PageSize of them.
Page(at) ==
    LET past == Past(at)
    IN  {i \in past : Cardinality({j \in past : Before(i.at, j.at)}) < PageSize}

\* The place the next page starts from: the last item of this one.
LastOf(page) ==
    (CHOOSE i \in page : \A j \in page : j = i \/ Before(i.at, j.at)).at

\* The items a walk has yet to show and the ones it has shown, as long as they
\* stay where they were, and what walks have left out or shown twice.
Resting == [on |-> FALSE, at |-> Start, due |-> {}, shown |-> {},
            missed |-> {}, again |-> {}]

WalkInit == Init /\ walk = Resting

\* A client sets out to read a listing that takes several pages.
StartWalk ==
    /\ ~walk.on
    /\ Cardinality(Items) > PageSize
    /\ walk' = [walk EXCEPT !.on = TRUE, !.due = Items]
    /\ UNCHANGED metaVars

\* One request: the page past the cursor.  A short page is the last one.
NextPage ==
    /\ walk.on
    /\ LET page == Page(walk.at)
           next == [walk EXCEPT !.due = @ \ page,
                                !.shown = @ \cup (walk.due \cap page),
                                !.again = @ \cup (walk.shown \cap page)]
       IN  walk' = IF Cardinality(page) < PageSize
                   THEN [Resting EXCEPT !.missed = next.due, !.again = next.again]
                   ELSE [next EXCEPT !.at = LastOf(page)]
    /\ UNCHANGED metaVars

\* Everybody else.  An item that moves or vanishes is no longer owed.
Act ==
    /\ MetaNext
    /\ LET still == Items'
       IN  walk' = IF walk.on THEN [walk EXCEPT !.due = @ \cap still,
                                                !.shown = @ \cap still]
                   ELSE walk

WalkNext == StartWalk \/ NextPage \/ Act

WalkSpec == WalkInit /\ [][WalkNext]_walkVars

----------------------------------------------------------------------------
(* Properties.                                                             *)

\* A client that follows the cursor to a short page, whatever is uploaded, signed
\* and frozen meanwhile, was shown every chain that stayed where it was exactly
\* once: instants shared by several chains neither hide nor repeat one (memory.go,
\* ListChains: "the same instant with a smaller root id").
WalkIsComplete == walk.missed = {} /\ walk.again = {}
=============================================================================
