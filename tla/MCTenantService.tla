-------------------------- MODULE MCTenantService --------------------------
(***************************************************************************)
(* Instance of TenantService: two writes and a read race for a tenant       *)
(* without files, while a condition-only transaction opens one with files   *)
(* and competes for the one place of the registry.                          *)
(***************************************************************************)
EXTENDS TenantService

CONSTANTS r1, r2, r3, r4, t1, t2, c1, c2

FourOfTwo == [r \in Requests |-> IF r = r4 THEN t2 ELSE t1]
FourKinds == [r \in Requests |-> IF r = r3 THEN "read" ELSE IF r = r4 THEN "conditions" ELSE "write"]

=============================================================================
