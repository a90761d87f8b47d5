---------------------------- MODULE MCQuicServer ----------------------------
(***************************************************************************)
(* Instance of QuicServer: two connections compete for one place, three     *)
(* requests of one tenant.                                                  *)
(***************************************************************************)
EXTENDS QuicServer

CONSTANTS r1, r2, r3, t1, k1, k2

OneTenant == [r \in Requests |-> t1]
WriteReadWrite == [r \in Requests |-> IF r = r2 THEN "read" ELSE "write"]
TwoConnections == [r \in Requests |-> IF r = r3 THEN k2 ELSE k1]

=============================================================================
