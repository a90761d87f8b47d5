---------------------------- MODULE Transactions ----------------------------
(***************************************************************************)
(* Transaction requests (dodb-core/src/transaction.rs) and the observed     *)
(* states their conditions are about (dodb-core/src/revision.rs).           *)
(***************************************************************************)
EXTENDS Integers, Sequences, FiniteSets, SequencesExt

CONSTANTS
  Keys,       \* the document keys, numbers in the order of their encodings
  Values      \* the values requests may write

Missing == "missing"            \* what a key without a value reads as
NeverWritten == [value |-> Missing, revision |-> 0]

Put(key, value) == [op |-> "put", key |-> key, value |-> value]
Delete(key) == [op |-> "delete", key |-> key, value |-> Missing]
RevisionEquals(key, revision) == [kind |-> "revision", key |-> key, revision |-> revision]
Exists(key) == [kind |-> "exists", key |-> key, revision |-> 0]
NotExists(key) == [kind |-> "absent", key |-> key, revision |-> 0]
Request(conditions, mutations) == [conditions |-> conditions, mutations |-> mutations]

KeysOf(items) == {items[i].key : i \in DOMAIN items}
DistinctKeys(items) == Cardinality(KeysOf(items)) = Len(items)

(* A request names each key at most once among its mutations and at most    *)
(* once among its conditions, and is not empty.                             *)
validate(request) ==
  /\ request.conditions # <<>> \/ request.mutations # <<>>
  /\ DistinctKeys(request.mutations)
  /\ DistinctKeys(request.conditions)

(* A condition against the presence and revision of its key.                *)
Satisfied(condition, present, revision) ==
  CASE condition.kind = "revision" -> revision = condition.revision
    [] condition.kind = "exists" -> present
    [] condition.kind = "absent" -> ~present

=============================================================================
