--------------------------- MODULE MCCoordinator ----------------------------
(***************************************************************************)
(* Operations for the instances of Coordinator: a put above the byte limit  *)
(* of a group, a small transaction with a condition, one without mutations, *)
(* a read of the view, a lookup, a checkpoint and a check.                  *)
(***************************************************************************)
EXTENDS Coordinator

BigPut == [kind |-> "put", key |-> 10, value |-> 200]
SmallDelete == [kind |-> "delete", key |-> 10]
Conditional == [kind |-> "transaction", conditions |-> <<10>>, mutations |-> <<10>>]
Verify == [kind |-> "transaction", conditions |-> <<10>>, mutations |-> <<>>]
Get == [kind |-> "get", key |-> 10]
Observe == [kind |-> "observe", keys |-> <<10, 10>>]
Checkpoint == [kind |-> "checkpoint"]
Check == [kind |-> "check_invariants"]

(* The callers of one behaviour ask for operations of one mix.              *)
Mixes == {{BigPut, Conditional, Get}, {SmallDelete, Verify, Checkpoint}, {Conditional, Observe, Check}}
AllOperations == UNION Mixes
OneMix == \E mix \in Mixes : {sent[id].op : id \in DOMAIN sent} \subseteq mix

MixSpec == Init /\ [][Next /\ OneMix']_vars /\ Fairness

=============================================================================
