------------------------------ MODULE MCWalk ------------------------------
(* Instances of ListingWalk, for TLC.                                      *)
EXTENDS ListingWalk, TLC

MCTenantOf == [c \in Products |-> CHOOSE t \in Tenants : TRUE]
=============================================================================
