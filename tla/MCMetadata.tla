---------------------------- MODULE MCMetadata ----------------------------
(* Instances of MetadataStore and of its views, for TLC.                   *)
EXTENDS ChainViews

MCTenantOf == [c \in Products |-> CHOOSE t \in Tenants : TRUE]

\* MetaSpec, with a bound on what an operator does: one row is held at a time, once
\* dates can have passed, in a chain that is live and not replaced in place.
OneHeld == \A d, e \in DocIds : rows[d].hold /\ rows[e].hold => d = e
HoldLate ==
    /\ now = MaxTime
    /\ \A d \in DocIds : rows[d].status \in {"unused", "received", "signed"} /\ ~rows[d].signed
    /\ HoldNext
    /\ OneHeld'
RewriteUnheld == (\A d \in DocIds : ~rows[d].hold) /\ RewriteNext

LifeSpec == Init /\ [][LifeNext \/ HoldLate \/ RewriteUnheld]_metaVars
=============================================================================
