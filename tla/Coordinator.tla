---------------------------- MODULE Coordinator -----------------------------
(***************************************************************************)
(* The commit coordinator of one shard (btree/coordinator.rs): callers put  *)
(* operations into a bounded queue, one task collects them into groups,     *)
(* runs the groups segment by segment on the engine, publishes the pages to *)
(* the committed read view and answers; gets, queries and scans read the    *)
(* view beside it; shutdown stops the task.                                 *)
(*                                                                         *)
(* Callers run on other threads, so a step of theirs may fall between any   *)
(* two steps of the task.  The engine is abstracted to the sequence of      *)
(* mutations it has published and whether it still serves.                  *)
(***************************************************************************)
EXTENDS Integers, Sequences, FiniteSetsExt

CONSTANTS
  Operations,            \* what callers may ask: records with a kind and lengths in bytes
  Closers,               \* callers of shutdown
  queue_capacity, max_group_requests, max_group_bytes,
  CollectionDelay,       \* whether max_collection_delay is above zero
  MaxSent,               \* bound: operations sent
  MaxFaults              \* bound: engine failures

ASSUME ConfigAssumption ==   \* start_with_config raises each limit to one
  {queue_capacity, max_group_requests, max_group_bytes} \subseteq Nat \ {0}
ASSUME BoundsAssumption == CollectionDelay \in BOOLEAN /\ MaxSent \in Nat /\ MaxFaults \in Nat

VARIABLES
  sent,      \* the operations sent so far: what was asked and how it was answered
  queue,     \* ids in the channel
  task,      \* where the coordinator task is
  group,     \* ids of the group being collected or run
  pending,   \* the id held back for the next group, or NoId
  closeSeen, \* close_requested: the group being run is the last
  start,     \* operation_start: first position of the current segment
  outcome,   \* the result of the current segment, not yet answered
  store,     \* the engine: ids of the published mutations in order, broken
  tracked,   \* published mutations whose pages the view has not taken over
  view,      \* the committed read view: present, broken, the mutations it shows
  closing,   \* the close signal was sent
  closers,   \* shutdown callers: idle, waiting for the task, returned
  faults

callerVars == <<sent, queue>>
taskVars == <<task, group, pending, closeSeen, start, outcome>>
engineVars == <<store, tracked, faults>>
closeVars == <<closing, closers>>
vars == <<callerVars, taskVars, engineVars, view, closeVars>>

NoId == 0
NoOutcome == [error |-> "none", results |-> <<>>]
Waiting == "waiting"

-----------------------------------------------------------------------------
(* Operations.                                                              *)

is_mutation(op) == op.kind \in {"put", "delete", "transaction"}
Mutates(op) == is_mutation(op) /\ (op.kind = "transaction" => op.mutations # <<>>)
ReadsView(op) == op.kind \in {"get", "query", "scan"}

Total(lengths, overhead) == SumFunction([i \in DOMAIN lengths |-> lengths[i] + overhead])

(* The estimate that bounds a group: key, value and a constant for a write, *)
(* the keys of a lookup, nothing for a checkpoint or a check.               *)
operation_size(op) ==
  CASE op.kind = "put" -> op.key + op.value + 64
    [] op.kind = "delete" -> op.key + 64
    [] op.kind = "transaction" -> Total(op.conditions, 32) + Total(op.mutations, 32)
    [] op.kind \in {"get", "query", "scan"} -> op.key
    [] op.kind \in {"transact_get", "observe"} -> Total(op.keys, 0)
    [] op.kind \in {"checkpoint", "check_invariants"} -> 0

Op(id) == sent[id].op
GroupBytes(ids) == SumFunction([i \in DOMAIN ids |-> operation_size(Op(ids[i]))])

can_add(ids, id) ==
  \/ Len(ids) = 0
  \/ /\ Len(ids) < max_group_requests
     /\ GroupBytes(ids) = 0 \/ GroupBytes(ids) + operation_size(Op(id)) <= max_group_bytes

PositionIn(ids, id) == CHOOSE i \in DOMAIN ids : ids[i] = id
(* The ids that are in a set, in their order.                               *)
Kept(ids, chosen) ==
  LET kept[n \in 0..Len(ids)] ==
        IF n = 0 THEN <<>>
        ELSE IF ids[n] \in chosen THEN Append(kept[n - 1], ids[n]) ELSE kept[n - 1]
  IN kept[Len(ids)]
Answered(id, result) == [sent EXCEPT ![id].answer = result]
AnsweredAll(results) ==
  [id \in DOMAIN sent |->
     IF id \in DOMAIN results /\ sent[id].answer = Waiting
     THEN [sent[id] EXCEPT !.answer = results[id]] ELSE sent[id]]
Sent(op, answer) == Append(sent, [op |-> op, answer |-> answer])

-----------------------------------------------------------------------------
(* Callers.                                                                 *)

(* try_read: answered from the view under its read lock.                    *)
try_read(op) ==
  /\ ReadsView(op) /\ (view.broken \/ view.present)
  /\ sent' = Sent(op, IF view.broken THEN "DurabilityFailure" ELSE "ok")
  /\ UNCHANGED queue

(* send: refused when the queue is full or its receiver gone.               *)
try_enqueue(op) ==
  /\ ~(ReadsView(op) /\ (view.broken \/ view.present))
  /\ IF task = "stopped" THEN sent' = Sent(op, "closed") /\ UNCHANGED queue
     ELSE IF Len(queue) = queue_capacity THEN sent' = Sent(op, "Overloaded") /\ UNCHANGED queue
     ELSE /\ sent' = Sent(op, Waiting)
          /\ queue' = Append(queue, Len(sent) + 1)

execute(op) ==
  /\ Len(sent) < MaxSent
  /\ try_read(op) \/ try_enqueue(op)
  /\ UNCHANGED <<taskVars, engineVars, view, closeVars>>

(* The caller drops its future; the operation stays where it is.            *)
Cancel(id) ==
  /\ sent[id].answer = Waiting
  /\ sent' = Answered(id, "cancelled")
  /\ UNCHANGED <<queue, taskVars, engineVars, view, closeVars>>

(* shutdown: the first caller sends the close signal and waits for the      *)
(* task; a later one finds both taken and returns.                          *)
shutdown(c) ==
  /\ closers[c] = "idle"
  /\ closing' = TRUE
  /\ closers' = [closers EXCEPT ![c] = IF closing THEN "returned" ELSE "waiting"]
  /\ UNCHANGED <<callerVars, taskVars, engineVars, view>>

ShutdownReturn(c) ==
  /\ closers[c] = "waiting" /\ task = "stopped"
  /\ closers' = [closers EXCEPT ![c] = "returned"]
  /\ UNCHANGED <<callerVars, taskVars, engineVars, view, closing>>

-----------------------------------------------------------------------------
(* The task.                                                                *)

Stop_silent(queued, held) ==   \* queued callers are not told
  /\ task' = "stopped" /\ queue' = <<>> /\ pending' = NoId
  /\ group' = <<>> /\ closeSeen' = FALSE /\ start' = 1 /\ outcome' = NoOutcome
  /\ UNCHANGED sent
(* The receiver is dropped: what is queued or held back loses its sender.   *)
Stop(queued, held) ==
  /\ task' = "stopped" /\ queue' = <<>> /\ pending' = NoId
  /\ group' = <<>> /\ closeSeen' = FALSE /\ start' = 1 /\ outcome' = NoOutcome
  /\ sent' = AnsweredAll([id \in Range(queued) \cup {held} |-> "dropped"])

(* The close signal is polled only when no operation is held back.          *)
CloseIdle ==
  /\ task = "receive" /\ pending = NoId /\ closing
  /\ Stop(queue, NoId)
  /\ UNCHANGED <<engineVars, view, closeVars>>

FirstOfGroup_overtaking ==   \* a queued operation passes the one held back
  /\ task = "receive"
  /\ \/ queue # <<>> /\ group' = <<Head(queue)>> /\ queue' = Tail(queue) /\ UNCHANGED pending
     \/ queue = <<>> /\ pending # NoId /\ group' = <<pending>> /\ pending' = NoId /\ UNCHANGED queue
  /\ task' = "collect"
  /\ UNCHANGED <<sent, closeSeen, start, outcome, engineVars, view, closeVars>>
FirstOfGroup ==
  /\ task = "receive"
  /\ \/ pending # NoId /\ group' = <<pending>> /\ UNCHANGED queue
     \/ pending = NoId /\ queue # <<>> /\ group' = <<Head(queue)>> /\ queue' = Tail(queue)
  /\ pending' = NoId /\ task' = "collect"
  /\ UNCHANGED <<sent, closeSeen, start, outcome, engineVars, view, closeVars>>

AfterCollect(ids, held) ==
  IF Len(ids) > 1 /\ held = NoId /\ Len(ids) < max_group_requests /\ CollectionDelay
  THEN "delay" ELSE "run"

TakeNext ==   \* the next operation joins the group or is held back
  /\ queue' = Tail(queue)
  /\ IF can_add(group, Head(queue))
     THEN group' = Append(group, Head(queue)) /\ UNCHANGED pending
     ELSE pending' = Head(queue) /\ UNCHANGED group

(* try_recv until the group is full, one does not fit, or none is there.    *)
collect_group ==
  /\ task = "collect"
  /\ IF Len(group) < max_group_requests /\ queue # <<>>
     THEN TakeNext /\ task' = IF pending' = NoId THEN task ELSE "run"
     ELSE task' = AfterCollect(group, pending) /\ UNCHANGED <<group, queue, pending>>
  /\ UNCHANGED <<sent, closeSeen, start, outcome, engineVars, view, closeVars>>

(* The collection delay: an operation, the deadline or the close signal.    *)
CollectDelayed ==
  /\ task = "delay"
  /\ \/ /\ queue # <<>> /\ TakeNext
        /\ task' = IF pending' # NoId \/ Len(group') >= max_group_requests THEN "run" ELSE task
        /\ UNCHANGED closeSeen
     \/ task' = "run" /\ UNCHANGED <<group, queue, pending, closeSeen>>
     \/ closing /\ closeSeen' = TRUE /\ task' = "run" /\ UNCHANGED <<group, queue, pending>>
  /\ UNCHANGED <<sent, start, outcome, engineVars, view, closeVars>>

(* The segment from start: a maximal run of mutations or one other          *)
(* operation.                                                               *)
SegmentEnd ==
  LET others == {i \in start..Len(group) : ~is_mutation(Op(group[i]))} IN
  IF ~is_mutation(Op(group[start])) THEN start
  ELSE IF others = {} THEN Len(group)
  ELSE Min(others) - 1
Segment == SubSeq(group, start, SegmentEnd)

(* apply_transaction_group: each mutation is accepted or refused on its own *)
(* (Conflict, InvalidRequest or InvalidInput); the accepted ones that       *)
(* change something are published together, by a shard that still serves.   *)
Commit ==
  \E refused \in SUBSET DOMAIN Segment :
    LET accepted == [i \in DOMAIN Segment |-> IF i \in refused THEN "refused" ELSE "ok"]
        ids == Kept(Segment, {Segment[i] : i \in {j \in DOMAIN Segment : j \notin refused /\ Mutates(Op(Segment[j]))}})
    IN /\ store.broken => ids = <<>>
       /\ store' = [store EXCEPT !.applied = @ \o ids]
       /\ tracked' = tracked \o ids
       /\ outcome' = [error |-> "none", results |-> accepted]
       /\ UNCHANGED faults

CommitFails_published ==   \* the group is published before its append has succeeded
  /\ faults < MaxFaults /\ faults' = faults + 1
  /\ store' = [applied |-> store.applied \o Segment, broken |-> TRUE]
  /\ tracked' = tracked \o Segment
  /\ outcome' = [error |-> "DurabilityFailure", results |-> <<>>]
(* The append or the sync fails and the shard stops serving, or a page      *)
(* cannot be read: the whole segment fails.                                 *)
CommitFails ==
  /\ \/ /\ store.broken
        /\ outcome' = [error |-> "DurabilityFailure", results |-> <<>>]
        /\ UNCHANGED <<store, faults>>
     \/ /\ ~store.broken /\ faults < MaxFaults
        /\ faults' = faults + 1
        /\ store' = [store EXCEPT !.broken = TRUE]
        /\ outcome' = [error |-> "DurabilityFailure", results |-> <<>>]
     \/ /\ faults < MaxFaults
        /\ faults' = faults + 1
        /\ outcome' = [error |-> "Corruption", results |-> <<>>]
        /\ UNCHANGED store
  /\ UNCHANGED tracked

(* A lookup, a queued read, a check or a checkpoint: its own failure is its *)
(* own answer; a flush that fails stops the shard.                          *)
Inspect ==
  LET kind == Op(group[start]).kind IN
  /\ \/ /\ ~store.broken \/ kind = "check_invariants"
        /\ outcome' = [error |-> "none", results |-> <<"ok">>]
        /\ UNCHANGED <<store, faults>>
     \/ /\ store.broken /\ kind # "check_invariants"
        /\ outcome' = [error |-> "none",
                        results |-> <<IF kind = "checkpoint" THEN "CheckpointFailure" ELSE "DurabilityFailure">>]
        /\ UNCHANGED <<store, faults>>
     \/ /\ faults < MaxFaults
        /\ faults' = faults + 1
        /\ outcome' = [error |-> "none", results |-> <<"Corruption">>]
        /\ store' = [store EXCEPT !.broken = @ \/ kind \in {"checkpoint", "check_invariants"}]
  /\ UNCHANGED tracked

process_segment_acks ==   \* a commit is answered before the view takes it over
  /\ task = "run"
  /\ IF is_mutation(Op(group[start]))
     THEN Commit /\ sent' = AnsweredAll([id \in Range(Segment) |-> outcome'.results[PositionIn(Segment, id)]])
     ELSE Inspect /\ UNCHANGED sent
  /\ task' = "publish"
  /\ UNCHANGED <<queue, group, pending, closeSeen, start, view, closeVars>>
process_segment ==
  /\ task = "run"
  /\ IF is_mutation(Op(group[start])) THEN Commit \/ CommitFails ELSE Inspect
  /\ task' = "publish"
  /\ UNCHANGED <<callerVars, group, pending, closeSeen, start, view, closeVars>>

(* The view is marked when the engine no longer serves, then takes over the *)
(* published pages.                                                         *)
publish_read_updates ==
  /\ task = "publish"
  /\ view' = [view EXCEPT !.broken = @ \/ store.broken,
                          !.shown = IF view.present THEN @ \o tracked ELSE @]
  /\ tracked' = <<>>
  /\ task' = "answer"
  /\ UNCHANGED <<callerVars, group, pending, closeSeen, start, outcome, store, faults, closeVars>>

NextStart(last) == IF last THEN 1 ELSE SegmentEnd + 1

(* The segment is answered; an error answers the rest of the group too.     *)
AnswerSegment ==
  LET failed == outcome.error # "none"
      ids == IF failed THEN SubSeq(group, start, Len(group)) ELSE Segment
      Result(id) == IF failed THEN outcome.error
                    ELSE outcome.results[PositionIn(Segment, id)]
      last == failed \/ SegmentEnd = Len(group)
  IN /\ task = "answer"
     /\ IF last /\ closeSeen
        THEN /\ task' = "stopped" /\ queue' = <<>> /\ pending' = NoId
             /\ group' = <<>> /\ closeSeen' = FALSE /\ start' = 1 /\ outcome' = NoOutcome
             /\ sent' = AnsweredAll([id \in Range(ids) \cup Range(queue) \cup {pending} |->
                                    IF id \in Range(ids) THEN Result(id) ELSE "dropped"])
        ELSE /\ task' = IF last THEN "receive" ELSE "run"
             /\ group' = IF last THEN <<>> ELSE group
             /\ start' = NextStart(last)
             /\ outcome' = NoOutcome
             /\ sent' = AnsweredAll([id \in Range(ids) |-> Result(id)])
             /\ UNCHANGED <<queue, pending, closeSeen>>
     /\ UNCHANGED <<engineVars, view, closeVars>>

-----------------------------------------------------------------------------

(* The view is missing when the pages could not be read at the start.       *)
Init ==
  /\ sent = <<>> /\ queue = <<>> /\ task = "receive" /\ group = <<>> /\ pending = NoId
  /\ closeSeen = FALSE /\ start = 1 /\ outcome = NoOutcome
  /\ store = [applied |-> <<>>, broken |-> FALSE] /\ tracked = <<>> /\ faults = 0
  /\ \E present \in BOOLEAN : view = [present |-> present, broken |-> FALSE, shown |-> <<>>]
  /\ closing = FALSE /\ closers = [c \in Closers |-> "idle"]

TaskStep ==
  \/ CloseIdle \/ FirstOfGroup \/ collect_group \/ CollectDelayed
  \/ process_segment \/ publish_read_updates \/ AnswerSegment

Next ==
  \/ \E op \in Operations : execute(op)
  \/ \E id \in DOMAIN sent : Cancel(id)
  \/ \E c \in Closers : shutdown(c) \/ ShutdownReturn(c)
  \/ TaskStep

Spec == Init /\ [][Next]_vars

(* The runtime keeps running a task that is ready, and wakes a caller whose *)
(* future completed.                                                        *)
Fairness == WF_vars(TaskStep) /\ \A c \in Closers : WF_vars(ShutdownReturn(c))
FairSpec == Spec /\ Fairness

-----------------------------------------------------------------------------
(* Properties.                                                              *)

(* The view shows a prefix of what the engine published, never more, and    *)
(* falls behind only while a segment is being published; a write that was   *)
(* answered with success is in the view every later get, query and scan     *)
(* reads, unless the view refuses to answer or is missing (publication      *)
(* comes before the answers in the coordinator loop).                       *)
ViewIsCommitted ==
  /\ view.present => store.applied = view.shown \o tracked
  /\ task \in {"receive", "collect", "delay", "answer", "stopped"} => tracked = <<>>
  /\ \A id \in DOMAIN sent :
       sent[id].answer = "ok" /\ Mutates(Op(id)) =>
         id \in Range(view.shown) \/ view.broken \/ ~view.present

(* Mutations take effect in the order they were sent, each at most once,    *)
(* whatever was held back or grouped.                                       *)
AppliedInOrder ==
  \A i, j \in DOMAIN store.applied : i < j => store.applied[i] < store.applied[j]

(* An operation refused as full, closed, invalid, in conflict or corrupt    *)
(* was not applied and never will be; nor was one dropped unanswered.       *)
RefusedNotApplied ==
  \A id \in Range(store.applied) :
    sent[id].answer \in {"waiting", "cancelled", "ok"}

Waits(id) == id \in DOMAIN sent /\ sent[id].answer = Waiting
(* Every operation sent is answered, refused or dropped with the task: no   *)
(* caller waits forever, neither for its turn nor after a shutdown.  A      *)
(* shutdown returns too, although the close signal is not polled while an   *)
(* operation is held back.                                                  *)
EveryCallReturns ==
  /\ \A id \in 1..MaxSent : Waits(id) ~> ~Waits(id)
  /\ \A c \in Closers : closers[c] = "waiting" ~> closers[c] = "returned"

=============================================================================
