------------------------------ MODULE MCOracles -----------------------------
(***************************************************************************)
(* Instance of the two oracles the repository judges the engine by: the     *)
(* model of the soak harness, and the interactive transactions of the       *)
(* reference database.  They share no state, so each behaviour is one of    *)
(* one of them.                                                             *)
(***************************************************************************)
EXTENDS SoakOracle

CONSTANTS Txns, MaxSteps, MaxConditions, MaxDirect

VARIABLES documents, next_lsn, steps, direct, read_set, write_set, txn_conditions, result, met, before

Interactive ==
  INSTANCE ReferenceTransactions WITH Keys <- {11, 12}, Values <- {"v"}, db <- documents, conditions <- txn_conditions

txnVars == <<documents, next_lsn, steps, direct, read_set, write_set, txn_conditions, result, met, before>>

SomeKeys == {"a", "b", "c"}
Operation(kind, effects) == [kind |-> kind, effects |-> effects]
Put(k, value) == Operation("put", k :> value)
Delete(k) == Operation("delete", k :> Missing)
Transact == Operation("transact", [b |-> "t", c |-> "t"])
Rival == Operation("transact", [b |-> "u", c |-> Missing])
(* A put and a delete race for one key and a transaction has two others to  *)
(* itself; or they and a second transaction all meet on one key, since      *)
(* WorkloadGenerator draws the keys of all operations of the crash phase    *)
(* from the same pool.                                                      *)
Apart == [p |-> Put("a", "p"), d |-> Delete("a"), t |-> Transact]
SomePlans == {Apart, [p |-> Put("b", "p"), d |-> Delete("b"), t |-> Transact, u |-> Rival]}

NoLoad == \A op \in Ops : at[op] = "planned"
OraclesInit == Init /\ Interactive!Init
OraclesNext ==
  \/ Interactive!Init /\ Next /\ UNCHANGED txnVars
  \/ NoLoad /\ reads = 0 /\ kills = 0 /\ plan = Apart /\ Interactive!Next /\ UNCHANGED vars
OraclesSpec == OraclesInit /\ [][OraclesNext]_<<vars, txnVars>>

Symmetry == Permutations(Txns)

(* Interactive transactions that commit met what their commit found, and    *)
(* conflict only with a commit to a key they had met (ReferenceDb::commit,  *)
(* ReferenceDb::transact_at).                                               *)
MetAtCommit == Interactive!MetAtCommit

=============================================================================
