------------------------ MODULE ReferenceTransactions -----------------------
(***************************************************************************)
(* Interactive transactions on the reference model (ReferenceTransaction in *)
(* dodb-testkit/src/reference.rs, ReadSet and WriteSet in                   *)
(* dodb-core/src/transaction.rs): they read and buffer writes while others  *)
(* commit, and validate at commit the revisions they first met.             *)
(***************************************************************************)
EXTENDS ReferenceDb

CONSTANTS
  Txns,           \* the transactions
  MaxSteps,       \* bound: calls of one transaction before its commit
  MaxConditions,  \* bound: conditions of one transaction
  MaxDirect       \* bound: writes without a transaction

VARIABLES
  db, next_lsn,
  steps, direct,                      \* calls made, direct writes made
  read_set, write_set, conditions,    \* of each transaction
  result,                             \* "none" until its commit returned
  met,                                \* the states each transaction met in the database
  before                              \* the documents as each commit found them

vars == <<db, next_lsn, steps, direct, read_set, write_set, conditions, result, met, before>>
txnVars == <<read_set, write_set, conditions, result, met, before>>

NoEntries == [k \in {} |-> 0]
With(map, key, item) == [k \in DOMAIN map \cup {key} |-> IF k = key THEN item ELSE map[k]]
Active(t) == result[t] = "none"
MayStep(t) == Active(t) /\ steps[t] < MaxSteps /\ steps' = [steps EXCEPT ![t] = @ + 1]

-----------------------------------------------------------------------------

record_latest(set, key, revision) == With(set, key, revision)   \* a later read replaces the first
record(set, key, revision) == IF key \in DOMAIN set THEN set ELSE With(set, key, revision)

observe(t, key) == read_set' = [read_set EXCEPT ![t] = record(@, key, db[key].revision)]

(* ReferenceTransaction::read: the own write if there is one, else what the *)
(* database holds now, which may be newer than at an earlier read.          *)
read(t, key) ==
  /\ MayStep(t) /\ observe(t, key)
  /\ met' = [met EXCEPT ![t] = IF key \in DOMAIN write_set[t] THEN @ ELSE @ \cup {[key |-> key, state |-> db[key]]}]
  /\ UNCHANGED <<db, next_lsn, direct, write_set, conditions, result, before>>

(* put and delete: the last intent for a key counts.                        *)
write(t, key, value) ==
  /\ MayStep(t) /\ observe(t, key)
  /\ write_set' = [write_set EXCEPT ![t] = With(@, key, value)]
  /\ met' = [met EXCEPT ![t] = IF key \in DOMAIN read_set[t] THEN @ ELSE @ \cup {[key |-> key, state |-> db[key]]}]
  /\ UNCHANGED <<db, next_lsn, direct, conditions, result, before>>

(* revision_equals, exists and not_exists.                                  *)
condition(t, c) ==
  /\ MayStep(t) /\ Len(conditions[t]) < MaxConditions
  /\ conditions' = [conditions EXCEPT ![t] = Append(@, c)]
  /\ UNCHANGED <<db, next_lsn, direct, read_set, write_set, result, met, before>>

Mutation(key, value) == IF value = Missing THEN Delete(key) ELSE Put(key, value)

(* The request a commit sends: the read set and the conditions, the writes. *)
CommitRequest(t) ==
  LET read_keys == InOrder(DOMAIN read_set[t])
      written == InOrder(DOMAIN write_set[t])
  IN Request([i \in DOMAIN read_keys |-> RevisionEquals(read_keys[i], read_set[t][read_keys[i]])] \o conditions[t],
             [i \in DOMAIN written |-> Mutation(written[i], write_set[t][written[i]])])

(* transact: whatever is accepted, also a read, takes an LSN.               *)
transact(request) ==
  LET outcome == transact_at(db, request, next_lsn) IN
  /\ db' = outcome.db
  /\ next_lsn' = IF outcome.result = "ok" THEN next_lsn + 1 ELSE next_lsn

commit(t) ==
  /\ Active(t) /\ steps[t] > 0
  /\ transact(CommitRequest(t))
  /\ result' = [result EXCEPT ![t] = transact_at(db, CommitRequest(t), next_lsn).result]
  /\ before' = [before EXCEPT ![t] = db]
  /\ UNCHANGED <<steps, direct, read_set, write_set, conditions, met>>

(* ReferenceDb::put and delete: a transaction of one write, at once.        *)
Direct(key, value) ==
  /\ direct < MaxDirect /\ direct' = direct + 1
  /\ transact(Request(<<RevisionEquals(key, db[key].revision)>>, <<Mutation(key, value)>>))
  /\ UNCHANGED <<steps, txnVars>>

-----------------------------------------------------------------------------

Init ==
  /\ db = Empty /\ next_lsn = 1 /\ direct = 0
  /\ steps = [t \in Txns |-> 0]
  /\ read_set = [t \in Txns |-> NoEntries] /\ write_set = [t \in Txns |-> NoEntries]
  /\ conditions = [t \in Txns |-> <<>>] /\ result = [t \in Txns |-> "none"]
  /\ met = [t \in Txns |-> {}] /\ before = [t \in Txns |-> Empty]

Next ==
  \/ \E t \in Txns, k \in Keys :
       \/ read(t, k) \/ \E v \in Values \cup {Missing} : write(t, k, v)
       \/ \E c \in {RevisionEquals(k, 0), Exists(k), NotExists(k)} : condition(t, c)
  \/ \E t \in Txns : commit(t)
  \/ \E k \in Keys, v \in Values \cup {Missing} : Direct(k, v)

Spec == Init /\ [][Next]_vars

-----------------------------------------------------------------------------
(* Properties.                                                              *)

(* Everything a committed transaction met, in its first read of a key, in a *)
(* repeated one or before a write of its own, is what its commit found: it  *)
(* might have run alone at that moment, and overwrote nothing it had not    *)
(* seen (ReadSet::record keeps the first revision, ReferenceDb::commit).    *)
(* And one without conditions of its own is refused with a conflict only    *)
(* when another commit changed a key it had met, also when the value came   *)
(* back in between (ReferenceDb::transact_at compares revisions).           *)
MetAtCommit ==
  \A t \in Txns :
    /\ result[t] = "ok" => \A m \in met[t] : before[t][m.key] = m.state
    /\ result[t] = "Conflict" /\ conditions[t] = <<>> =>
         \E m \in met[t] : before[t][m.key].revision > m.state.revision

=============================================================================
