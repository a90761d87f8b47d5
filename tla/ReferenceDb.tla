---------------------------- MODULE ReferenceDb -----------------------------
(***************************************************************************)
(* The serial reference model the repository tests the engine against       *)
(* (dodb-testkit/src/reference.rs): a map from keys to revisioned states to *)
(* which one request at a time is applied whole.                            *)
(***************************************************************************)
EXTENDS Transactions

Empty == [k \in Keys |-> NeverWritten]

Holds(db, condition) ==
  Satisfied(condition, db[condition.key].value # Missing, db[condition.key].revision)

(* The mutations of a request, stamped with the LSN of its commit.          *)
Applied(db, mutations, lsn) ==
  [k \in Keys |->
     LET i == SelectInSeq(mutations, LAMBDA m : m.key = k) IN
     IF i = 0 THEN db[k] ELSE [value |-> mutations[i].value, revision |-> lsn]]

transact_at(db, request, lsn) ==
  IF ~validate(request) THEN [result |-> "InvalidRequest", db |-> db]
  ELSE IF \E i \in DOMAIN request.conditions : ~Holds(db, request.conditions[i])
       THEN [result |-> "Conflict", db |-> db]
  ELSE [result |-> "ok", db |-> Applied(db, request.mutations, lsn)]

InOrder(keys) ==
  [i \in 1..Cardinality(keys) |-> CHOOSE k \in keys : Cardinality({j \in keys : j < k}) = i - 1]

Rows(db, wanted) ==
  LET keys == InOrder({k \in wanted : db[k].value # Missing})
  IN [i \in DOMAIN keys |-> [key |-> keys[i], value |-> db[keys[i]].value,
                             revision |-> db[keys[i]].revision]]
FirstRows(rows, limit) == SubSeq(rows, 1, IF Len(rows) < limit THEN Len(rows) ELSE limit)

ref_query(db, pk, cursor, limit) ==
  FirstRows(Rows(db, {k \in Keys : k \div 10 = pk /\ k > cursor}), limit)
ref_scan(db, cursor, limit) == FirstRows(Rows(db, {k \in Keys : k > cursor}), limit)

=============================================================================
