----------------------------- MODULE SoakOracle -----------------------------
(***************************************************************************)
(* The judgement of the soak harness (dodb-soak) over a crash phase: a      *)
(* model fed by the answers of the server decides whether reads, and what   *)
(* is left after the server was killed, are what a correct server returns.  *)
(* The server is the one the other modules describe: it commits a           *)
(* transaction whole, and what it committed survives the kill.  With        *)
(* TornTransactions it is a wrong one, which the harness is there to catch. *)
(***************************************************************************)
EXTENDS Naturals, Sequences, FiniteSets, SequencesExt

CONSTANTS
  Keys,
  Plans,              \* what the workers may do: operation to kind and effects, key to the value written
  HistoryLimit,       \* 64 and 16 in the code
  CandidateLimit,
  ExploreLimit,       \* 12 in the code
  TornTransactions,   \* the server may apply a part of a transaction no other operation meets
  MaxReads,           \* bound: reads checked during the load
  MaxKills            \* bound: cycles of the crash phase

VARIABLES
  plan,               \* the operations of this phase
  db, commits,        \* the server's documents and its last revision
  at,                 \* operation to its progress
  revision,           \* operation to the revision it was committed with
  conditions,         \* transaction to the revisions its request expects
  states, history, candidates, delete_candidates,   \* ReferenceModel
  pending,            \* operations with an unknown outcome
  reading, reads,     \* an answer on its way to a reader; reads so far
  kills, down,        \* the server was killed and is not restarted yet
  alarm,              \* why the harness failed the run
  torn                \* transactions the server applied in part

serverVars == <<db, commits, torn>>
modelVars == <<states, history, candidates, delete_candidates>>
readVars == <<reading, reads>>
vars == <<plan, serverVars, modelVars, readVars, at, revision, conditions, pending, kills, down, alarm>>

Ops == DOMAIN plan
Missing == "missing"
Absent == [value |-> Missing, revision |-> 0]
NoRead == [key |-> "none"]
Effects(op) == plan[op].effects
OpKeys(op) == DOMAIN Effects(op)
Running == alarm = "none" /\ ~ down

-----------------------------------------------------------------------------
(* ReferenceModel.                                                          *)

Bounded(seq, limit) == IF Len(seq) > limit THEN Tail(seq) ELSE seq
Recorded(seq, item, limit) ==
  IF seq # <<>> /\ Last(seq) = item THEN seq ELSE Bounded(Append(seq, item), limit)

should_publish_always(current, state) == TRUE
should_publish(current, state) == current.revision <= state.revision

(* apply, for the keys of one answer.                                       *)
apply(news) ==
  /\ history' = [k \in Keys |-> IF k \in DOMAIN news THEN Recorded(history[k], news[k], HistoryLimit) ELSE history[k]]
  /\ states' = [k \in Keys |-> IF k \in DOMAIN news /\ should_publish(states[k], news[k]) THEN news[k] ELSE states[k]]
  /\ UNCHANGED <<candidates, delete_candidates>>

(* record_expected_put and record_expected_delete, before anything is sent. *)
record_expected(op) ==
  /\ candidates' = [k \in Keys |->
       IF k \in OpKeys(op) /\ Effects(op)[k] # Missing
       THEN Recorded(candidates[k], Effects(op)[k], CandidateLimit) ELSE candidates[k]]
  /\ delete_candidates' = delete_candidates \cup {k \in OpKeys(op) : Effects(op)[k] = Missing}
  /\ UNCHANGED <<states, history>>

knows_state(k, state) ==
  \/ state = Absent \/ state = states[k] \/ state \in ToSet(history[k])
  \/ state.value # Missing /\ state.value \in ToSet(candidates[k])
  \/ state.value = Missing /\ k \in delete_candidates

-----------------------------------------------------------------------------
(* execute_operation.                                                       *)

(* The operation is recorded and sent, a transaction on the revisions the   *)
(* model has then.  A send to a killed server fails without effect.         *)
Send(op) ==
  /\ alarm = "none" /\ at[op] = "planned"
  /\ record_expected(op)
  /\ at' = [at EXCEPT ![op] = IF down THEN "refused" ELSE "sent"]
  /\ conditions' = [conditions EXCEPT ![op] = [k \in OpKeys(op) |-> states[k].revision]]
  /\ UNCHANGED <<serverVars, readVars, revision, pending, kills, down, alarm>>

Accepted(op) == plan[op].kind = "transact" => \A k \in OpKeys(op) : db[k].revision = conditions[op][k]

Alone(op) == \A other \in Ops \ {op} : OpKeys(other) \cap OpKeys(op) = {}

(* The server commits the operation on some of its keys, all unless it is   *)
(* wrong, or answers with a conflict.                                       *)
Serve(op, written) ==
  /\ Running /\ at[op] = "sent" /\ Accepted(op)
  /\ written = OpKeys(op) \/ (TornTransactions /\ Alone(op) /\ written # {})
  /\ commits' = commits + 1
  /\ db' = [k \in Keys |-> IF k \in written THEN [value |-> Effects(op)[k], revision |-> commits + 1] ELSE db[k]]
  /\ torn' = IF written = OpKeys(op) THEN torn ELSE torn \cup {op}
  /\ at' = [at EXCEPT ![op] = "committed"]
  /\ revision' = [revision EXCEPT ![op] = commits + 1]
  /\ UNCHANGED <<modelVars, readVars, conditions, pending, kills, down, alarm>>
Conflict(op) ==
  /\ Running /\ at[op] = "sent" /\ ~ Accepted(op)
  /\ at' = [at EXCEPT ![op] = "conflict"]
  /\ UNCHANGED <<serverVars, modelVars, readVars, revision, conditions, pending, kills, down, alarm>>

(* The answer arrives; also one that was on its way when the server died.   *)
Answer(op) ==
  /\ alarm = "none"
  /\ \/ at[op] = "committed" /\ at' = [at EXCEPT ![op] = "known"]
        /\ apply([k \in OpKeys(op) |-> [value |-> Effects(op)[k], revision |-> revision[op]]])
     \/ at[op] = "conflict" /\ at' = [at EXCEPT ![op] = "refused"] /\ UNCHANGED modelVars
  /\ UNCHANGED <<serverVars, readVars, revision, conditions, pending, kills, down, alarm>>

(* handle_mutation_error: the connection ended before an answer.            *)
Unknown(op) ==
  /\ alarm = "none" /\ down /\ at[op] \in {"sent", "committed", "conflict"}
  /\ pending' = pending \cup {op}
  /\ at' = [at EXCEPT ![op] = "unknown"]
  /\ UNCHANGED <<serverVars, modelVars, readVars, revision, conditions, kills, down, alarm>>

(* A get is answered by the server, and judged when the answer arrives.     *)
Get(k) ==
  /\ Running /\ reading = NoRead /\ reads < MaxReads
  /\ reading' = [key |-> k, state |-> db[k]] /\ reads' = reads + 1
  /\ UNCHANGED <<serverVars, modelVars, at, revision, conditions, pending, kills, down, alarm>>
Judge ==
  /\ alarm = "none" /\ reading # NoRead
  /\ alarm' = IF knows_state(reading.key, reading.state) THEN "none" ELSE "unrecognized read"
  /\ reading' = NoRead
  /\ UNCHANGED <<serverVars, modelVars, reads, at, revision, conditions, pending, kills, down>>

-----------------------------------------------------------------------------
(* The crash phase.                                                         *)

Kill ==
  /\ Running /\ kills < MaxKills
  /\ down' = TRUE /\ kills' = kills + 1
  /\ UNCHANGED <<serverVars, modelVars, readVars, at, revision, conditions, pending, alarm>>

(* Pending operations that overlap, directly or through others.             *)
Overlaps(S) == {op \in pending : \E o \in S : OpKeys(op) \cap OpKeys(o) # {}}
Component(op) == FoldLeft(LAMBDA S, i : Overlaps(S), {op}, [i \in 1..Cardinality(pending) |-> i])
ComponentKeys(S) == UNION {OpKeys(op) : op \in S}

Shapes(map, keys) == [k \in keys |-> map[k].value]
Over(new, old) == [k \in DOMAIN old |-> IF k \in DOMAIN new THEN new[k] ELSE old[k]]

(* The operations and shapes after one more operation, skipped or applied.  *)
Explored_torn(S, frontier) ==   \* the effects of a transaction are taken one by one
  UNION {UNION {{<<f[1] \cup {op}, f[2]>>} \cup
                {<<f[1] \cup {op}, [f[2] EXCEPT ![k] = Effects(op)[k]]>> : k \in OpKeys(op)} \cup
                {<<f[1] \cup {op}, Over(Effects(op), f[2])>>}
                : op \in S \ f[1]} : f \in frontier}
Explored(S, frontier) ==
  UNION {UNION {{<<f[1] \cup {op}, f[2]>>, <<f[1] \cup {op}, Over(Effects(op), f[2])>>}
                : op \in S \ f[1]} : f \in frontier}

reconcile_unknown_operations(S) ==
  LET keys == ComponentKeys(S)
      current == Shapes(states, keys)
      actual == Shapes(db, keys)
      outcomes == FoldLeft(LAMBDA frontier, i : Explored(S, frontier), {<<{}, current>>},
                           [i \in 1..Cardinality(S) |-> i])
      Applied(yes) == IF yes THEN "Applied" ELSE "Partial"
  IN IF \A k \in keys : states[k] = db[k] THEN "NotApplied"
     ELSE IF \A op \in S : Cardinality(OpKeys(op)) = 1
     THEN Applied(\A k \in keys : actual[k] = current[k] \/ \E op \in S : k \in OpKeys(op) /\ Effects(op)[k] = actual[k])
     ELSE IF Cardinality(S) > ExploreLimit
     THEN Applied(\A op \in S : \A k \in OpKeys(op) : Effects(op)[k] = actual[k])
     ELSE Applied(<<S, actual>> \in outcomes)

(* verify_full: the documents of the model are those of the server, and the *)
(* keys without one are known to be deleted.                                *)
verify_full(model) ==
  \A k \in Keys :
    /\ model[k].value # Missing \/ db[k].value # Missing => model[k] = db[k]
    /\ knows_state(k, db[k])

(* With the server restarted and every worker done, reconcile_unknown and   *)
(* verify_full judge the recovered documents.                               *)
Recover ==
  /\ alarm = "none" /\ down /\ reading = NoRead
  /\ \A op \in Ops : at[op] \notin {"sent", "committed", "conflict"}
  /\ LET components == {Component(op) : op \in pending}
         applied == UNION {ComponentKeys(S) : S \in {T \in components : reconcile_unknown_operations(T) = "Applied"}}
     IN IF \E S \in components : reconcile_unknown_operations(S) = "Partial"
        THEN alarm' = "impossible partial state" /\ UNCHANGED modelVars
        ELSE /\ apply([k \in applied |-> db[k]])
             /\ alarm' = IF verify_full(states') THEN "none" ELSE "full scan mismatch"
  /\ pending' = {} /\ down' = FALSE
  /\ UNCHANGED <<serverVars, readVars, at, revision, conditions, kills>>

-----------------------------------------------------------------------------

Init ==
  /\ plan \in Plans
  /\ db = [k \in Keys |-> Absent] /\ commits = 0 /\ torn = {}
  /\ at = [op \in Ops |-> "planned"] /\ revision = [op \in Ops |-> 0]
  /\ conditions = [op \in Ops |-> [k \in OpKeys(op) |-> 0]]
  /\ states = db /\ history = [k \in Keys |-> <<>>] /\ candidates = [k \in Keys |-> <<>>]
  /\ delete_candidates = {} /\ pending = {} /\ reading = NoRead /\ reads = 0
  /\ kills = 0 /\ down = FALSE /\ alarm = "none"

Next ==
  /\ \/ \E op \in Ops :
          \/ Send(op) \/ Conflict(op) \/ Answer(op) \/ Unknown(op)
          \/ \E written \in SUBSET OpKeys(op) : Serve(op, written)
     \/ \E k \in Keys : Get(k)
     \/ Judge \/ Kill \/ Recover
  /\ UNCHANGED plan

Spec == Init /\ [][Next]_vars

-----------------------------------------------------------------------------
(* Properties.                                                              *)

(* What the exploration of lost answers does not cover: a transaction whose *)
(* lost commit was overwritten in part by a put or delete with an answer,   *)
(* which the model holds already, and a component too large to explore.     *)
Overwritten ==
  \E t \in pending, op \in Ops :
    /\ Cardinality(OpKeys(t)) > 1 /\ revision[t] # 0 /\ OpKeys(t) \cap OpKeys(op) # {}
    /\ at[op] = "known" /\ revision[op] > revision[t]
Unexplored ==
  \E S \in {Component(op) : op \in pending} :
    Cardinality(S) > ExploreLimit /\ \E op \in S : Cardinality(OpKeys(op)) > 1

(* A server that commits transactions whole, and keeps what it committed,   *)
(* fails the run in no other case: not by a late answer, a read that        *)
(* overtakes an answer, lost answers, or conflicts (reconcile_unknown,      *)
(* knows_state, verify_full).                                               *)
NoFalseAlarm == [][torn = {} /\ ~Overwritten /\ ~Unexplored => alarm' = "none"]_vars

(* A transaction the server applied in part never passes the verification   *)
(* after the next kill, whether its answer arrived or was lost              *)
(* (reconcile_unknown_operations, verify_full).                             *)
TornDetected == [][Recover /\ torn # {} => alarm' # "none"]_vars

=============================================================================
