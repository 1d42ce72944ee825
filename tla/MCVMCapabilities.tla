-------------------------- MODULE MCVMCapabilities --------------------------
(* VMCapabilities on two locations and two types, one of which is offered in
   the first location only.                                                *)
EXTENDS VMCapabilities

MCOffered == [l \in Locations |-> IF l = "west" THEN {"small", "large"} ELSE {"large"}]
=============================================================================
