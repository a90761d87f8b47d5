---------------------------- MODULE SerialStore -----------------------------
(***************************************************************************)
(* What a shard promises its callers: a step answers a sequence of          *)
(* transactions, or one batch, as if each had been applied whole, one after *)
(* the other, in the order of the answers; what is refused changes nothing; *)
(* commits carry ever larger LSNs.                                          *)
(***************************************************************************)
EXTENDS ReferenceDb

VARIABLES
  db,         \* the documents
  answered    \* the answers of the latest step

serialVars == <<db, answered>>

LastLsn(d) == LET revisions == {d[k].revision : k \in Keys} IN
              CHOOSE r \in revisions : \A s \in revisions : s <= r

(* The operations of a batch in turn, the writes under one LSN: the answer  *)
(* of each and the documents they leave.                                    *)
BatchOutcome(d, operations, lsn) ==
  LET Step(acc, op) ==
        CASE op.op = "get" -> [acc EXCEPT !.responses = Append(@, acc.db[op.key])]
          [] op.op = "query" -> [acc EXCEPT !.responses = Append(@, ref_query(acc.db, op.pk, op.key, op.limit))]
          [] op.op = "scan" -> [acc EXCEPT !.responses = Append(@, ref_scan(acc.db, op.key, op.limit))]
          [] OTHER -> [db |-> [acc.db EXCEPT ![op.key] = [value |-> op.value, revision |-> lsn]],
                       responses |-> Append(acc.responses, lsn)]
  IN FoldLeft(Step, [db |-> d, responses |-> <<>>], operations)

(* One answer, applied to what the answers before it left: an accepted      *)
(* transaction is accepted by the reference model too and takes effect, a   *)
(* conflict is one there too, any other refusal is without effect.          *)
After(acc, answer) ==
  LET t == transact_at(acc.db, answer.request, answer.lsn)
      b == BatchOutcome(acc.db, answer.request.mutations, answer.lsn)
      accepted == answer.result = "ok"
      batch == answer.kind = "batch"
      writes == \E i \in DOMAIN answer.request.mutations :
                  answer.request.mutations[i].op \in {"put", "delete"}
  IN [ok |-> /\ acc.ok
             /\ accepted /\ writes => answer.lsn > acc.lsn
             /\ accepted /\ ~batch => t.result = "ok"
             /\ accepted /\ batch => answer.responses = b.responses
             /\ answer.result = "Conflict" => t.result = "Conflict",
      db |-> IF ~accepted THEN acc.db ELSE IF batch THEN b.db ELSE t.db,
      lsn |-> IF accepted /\ writes THEN answer.lsn ELSE acc.lsn]

Outcome(d, answers) == FoldLeft(After, [ok |-> TRUE, db |-> d, lsn |-> LastLsn(d)], answers)

Init == answered = <<>>

Answer ==
  LET outcome == Outcome(db, answered')
  IN outcome.ok /\ db' = outcome.db

Spec == Init /\ [][Answer]_serialVars

=============================================================================
