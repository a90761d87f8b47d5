-------------------------- MODULE TransactionGroup --------------------------
(***************************************************************************)
(* One shard's engine: groups of transactions staged on a shared overlay    *)
(* and published together (apply_transaction_group), batches prepared and   *)
(* published as one commit (prepare_batch, publish_prepared), reopening,    *)
(* and the committed read view fed from the published pages.                *)
(*                                                                         *)
(* The calls run one at a time; their steps are separate here so that a     *)
(* group grows one request per step and readers meet the view between the   *)
(* publication and its update.                                              *)
(***************************************************************************)
EXTENDS PageTree, ReferenceDb

(* What callers ask of a shard: the requests and batches they may send, the *)
(* puts that built the tree they find (prefill), and the bounds: accepted   *)
(* transactions and batches (commits), requests in one group, failed WAL    *)
(* appends.                                                                 *)
CONSTANT Workloads

VARIABLES
  workload,   \* the workload of this behaviour
  store,      \* the committed shard: pages, allocator, counters, broken
  overlay,    \* the overlay of the group being staged, or Idle
  prepared,   \* its accepted candidates, in order
  results,    \* its answers so far
  answered,   \* the answers of the latest call
  held,       \* a prepared batch the caller has not published yet, or Idle
  published,  \* pages published since the view was last brought up to date
  view,       \* the committed read view: pages, root and high-water mark
  documents,  \* what point reads of the committed pages return (derived)
  bounds      \* commits and failures spent

vars == <<workload, store, overlay, prepared, results, answered, held, published, view, documents, bounds>>

Idle == [idle |-> TRUE]

-----------------------------------------------------------------------------
(* Preparing.                                                               *)

OverlayNew(s) ==
  [pages |-> s.pages, dirty |-> {}, root |-> s.root, free |-> s.free, high |-> s.high,
   nextRev |-> s.nextRev, last |-> 0, nextLsn |-> s.nextLsn, gen |-> s.gen, err |-> "none"]

ApplyMutation(o, m) == IF m.op = "put" THEN put(o, m.key, m.value) ELSE delete(o, m.key)

(* One operation of a batch and its response.                               *)
execute(acc, op) ==
  LET Answer(o, response) == [o |-> o, responses |-> Append(acc.responses, response)]
      Fail(error) == [acc EXCEPT !.o = Failed(@, error)]
      Listed(read) == IF read.error # "none" THEN Fail(read.error) ELSE Answer(acc.o, read.rows)
      State(state) == IF state.value = Garbled THEN Fail("Corruption") ELSE Answer(acc.o, state)
  IN
  CASE acc.o.err # "none" -> acc
    [] op.op = "get" /\ ~validate_encoded_key(op.key) -> Fail("InvalidInput")
    [] op.op = "get" -> State(get_state(acc.o, op.key))
    [] op.op = "query" -> Listed(query(acc.o, op.pk, op.key, op.limit))
    [] op.op = "scan" -> Listed(scan(acc.o, op.key, op.limit))
    [] OTHER -> Answer(ApplyMutation(acc.o, op), allocate_revision(acc.o))

Candidate(o, commit, base) ==
  [changed |-> [p \in o.dirty |-> o.pages[p]], base |-> base, gen |-> base + 1, root |-> o.root,
   free |-> o.free, high |-> o.high, nextRev |-> commit + 1, commit |-> commit]

(* One WAL frame per dirty page and one for the superblock come before the  *)
(* commit; the overlay goes on from the state the candidate commits.        *)
finish_transaction(o) ==
  LET commit == o.nextLsn + Cardinality(o.dirty) + 1
      stamped == [o EXCEPT !.pages = [p \in DOMAIN o.pages |->
                    IF p \in o.dirty THEN restamp(o.pages[p], o.last, commit) ELSE o.pages[p]]]
  IN [candidate |-> Candidate(stamped, commit, o.gen),
      o |-> [stamped EXCEPT !.gen = @ + 1, !.nextRev = commit + 1, !.nextLsn = commit + 1,
                            !.dirty = {}, !.last = 0]]

validate_transaction_mutation(m) ==
  validate_encoded_key(m.key) /\ (m.op = "put" => validate_value(m.value))

(* The requests' keys and values are validated first, then the conditions   *)
(* against what the overlay holds, then the mutations are applied in turn.  *)
prepare_transaction(o, request) ==
  LET Met(c, seen) == Satisfied(c, seen.present, seen.revision)
      unmet == SelectInSeq(request.conditions,
                 LAMBDA c : ~validate_encoded_key(c.key) \/ ~Met(c, get_observed_state(o, c.key)))
      Refused(error, left) == [result |-> error, o |-> [left EXCEPT !.err = "none"], candidate |-> Idle]
      Accepted(done) == [result |-> "ok", o |-> done.o, candidate |-> done.candidate]
      Ended(applied) == IF applied.err # "none" THEN Refused(applied.err, applied)
                        ELSE Accepted(finish_transaction(applied))
  IN IF ~validate(request) THEN Refused("InvalidRequest", o)
     ELSE IF \E i \in DOMAIN request.mutations : ~validate_transaction_mutation(request.mutations[i])
          THEN Refused("InvalidInput", o)
     ELSE IF unmet # 0
          THEN Refused(IF validate_encoded_key(request.conditions[unmet].key) THEN "Conflict" ELSE "InvalidInput", o)
     ELSE IF request.mutations = <<>> THEN [result |-> "ok", o |-> o, candidate |-> Idle]
     ELSE Ended(FoldLeft(ApplyMutation, o, request.mutations))

(* Responses that carry the provisional revision get the commit LSN.        *)
restamp_responses(operations, responses, provisional, committed) ==
  LET Stamp(r) == IF r = provisional THEN committed ELSE r
      StampState(state) == [state EXCEPT !.revision = Stamp(@)]
  IN [i \in DOMAIN responses |->
        CASE operations[i].op = "get" -> StampState(responses[i])
          [] operations[i].op \in {"query", "scan"} -> [j \in DOMAIN responses[i] |-> StampState(responses[i][j])]
          [] OTHER -> Stamp(responses[i])]

(* finish: a batch without writes commits nothing.                          *)
finish(o, operations, responses) ==
  LET done == finish_transaction(o) IN
  IF o.last = 0
  THEN [candidate |-> [Candidate(o, 0, o.gen) EXCEPT !.nextRev = o.nextRev, !.gen = o.gen], responses |-> responses]
  ELSE [candidate |-> done.candidate,
        responses |-> restamp_responses(operations, responses, o.last, done.candidate.commit)]

Answered(request, result, lsn) ==
  [kind |-> "transaction", request |-> request, result |-> result, lsn |-> lsn, responses |-> <<>>]
BatchAnswered(operations, result, lsn, responses) ==
  [kind |-> "batch", request |-> Request(<<>>, operations), result |-> result, lsn |-> lsn,
   responses |-> responses]

-----------------------------------------------------------------------------
(* Publishing.                                                              *)

(* Candidates must continue the committed superblock generation, and each   *)
(* other's.                                                                 *)
Contiguous(candidates) ==
  \A i \in DOMAIN candidates :
    candidates[i].base = (IF i = 1 THEN store.gen ELSE candidates[i - 1].gen)

PublishOne(s, c) ==
  [s EXCEPT !.pages = c.changed @@ @, !.root = c.root, !.free = c.free, !.high = c.high,
            !.nextRev = c.nextRev, !.nextLsn = c.commit + 1, !.gen = c.gen, !.lastCommit = c.commit]

Contents(s) == [k \in Keys |-> get_state(s, k)]

publish_prepared_group(candidates) ==
  /\ LET after == FoldLeft(PublishOne, store, candidates)
     IN store' = after /\ documents' = Contents(after)
  /\ published' = FoldLeft(LAMBDA acc, c : c.changed @@ acc, published, candidates)

(* append_group failed: nothing is published and the shard stops serving.   *)
AppendFails ==
  /\ bounds.failures < workload.failures
  /\ store' = [store EXCEPT !.broken = TRUE]
  /\ bounds' = [bounds EXCEPT !.failures = @ + 1]
  /\ UNCHANGED <<published, documents>>

-----------------------------------------------------------------------------
(* The calls.                                                               *)

(* apply_transaction_group begins: an overlay of the committed state.       *)
BeginGroup ==
  /\ overlay = Idle /\ published = <<>>
  /\ bounds.commits < workload.commits
  /\ overlay' = OverlayNew(store)
  /\ prepared' = <<>> /\ results' = <<>>
  /\ UNCHANGED <<store, answered, held, published, view, documents, bounds>>

(* One request of the group.  Conflict, InvalidRequest and InvalidInput are *)
(* answers; any other error ends the whole group.                           *)
StageRequest(request) ==
  /\ overlay # Idle
  /\ Len(results) < workload.group
  /\ bounds.commits + Len(prepared) < workload.commits
  /\ \E p \in {prepare_transaction(overlay, request)} :
       IF p.result = "Corruption"
       THEN /\ overlay' = Idle /\ answered' = <<Answered(request, "Corruption", 0)>>
            /\ UNCHANGED <<prepared, results>>
       ELSE /\ overlay' = p.o
            /\ prepared' = IF p.candidate = Idle THEN prepared ELSE Append(prepared, p.candidate)
            /\ results' = Append(results, Answered(request, p.result,
                                   IF p.candidate = Idle THEN 0 ELSE p.candidate.commit))
            /\ UNCHANGED answered
  /\ UNCHANGED <<store, held, published, view, documents, bounds>>

(* A caller conditions a request on the revision it read (Observed): the    *)
(* one committed before the group.                                          *)
Observed == -1
AsSent(request) ==
  [request EXCEPT !.conditions = [i \in DOMAIN @ |->
     IF @[i].revision = Observed
     THEN [@[i] EXCEPT !.revision = get_state(store, request.conditions[i].key).revision] ELSE @[i]]]

AllFailed(answers, error) == [i \in DOMAIN answers |-> Answered(answers[i].request, error, 0)]

(* The group ends: nothing to publish, a broken shard, a published group or *)
(* a failed append.                                                         *)
FinishGroup ==
  /\ overlay # Idle /\ results # <<>>
  /\ overlay' = Idle /\ prepared' = <<>> /\ results' = <<>>
  /\ \/ /\ prepared = <<>>
        /\ answered' = results
        /\ UNCHANGED <<store, published, documents, bounds>>
     \/ /\ prepared # <<>> /\ store.broken
        /\ answered' = AllFailed(results, "Durability")
        /\ UNCHANGED <<store, published, documents, bounds>>
     \/ /\ prepared # <<>> /\ ~store.broken /\ Contiguous(prepared)
        /\ publish_prepared_group(prepared)
        /\ answered' = results
        /\ bounds' = [bounds EXCEPT !.commits = @ + Len(prepared)]
     \/ /\ prepared # <<>> /\ ~store.broken
        /\ AppendFails
        /\ answered' = AllFailed(results, "Durability")
  /\ UNCHANGED <<held, view>>

(* prepare_batch: all operations on one overlay; an error drops it.         *)
prepare_batch(operations) ==
  /\ overlay = Idle /\ published = <<>> /\ held = Idle
  /\ bounds.commits < workload.commits
  /\ \E run \in {FoldLeft(execute, [o |-> OverlayNew(store), responses |-> <<>>], operations)} :
       LET f == finish(run.o, operations, run.responses) IN
       IF run.o.err = "none"
       THEN /\ held' = [candidate |-> f.candidate, operations |-> operations, responses |-> f.responses]
            /\ UNCHANGED answered
       ELSE /\ answered' = <<BatchAnswered(operations, run.o.err, 0, <<>>)>>
            /\ UNCHANGED held
  /\ UNCHANGED <<store, overlay, prepared, results, published, view, documents, bounds>>

(* publish_prepared: refused when the shard is broken or has moved on; a    *)
(* batch that changed no page needs no WAL.                                 *)
publish_prepared ==
  LET c == held.candidate
      writes == c.changed # <<>>
      Reply(result) == answered' = <<BatchAnswered(held.operations, result, c.commit, held.responses)>>
  IN /\ held # Idle /\ overlay = Idle /\ published = <<>>
     /\ held' = Idle
     /\ \/ /\ store.broken
           /\ Reply("Durability")
           /\ UNCHANGED <<store, published, documents, bounds>>
        \/ /\ ~store.broken /\ ~Contiguous(<<c>>)
           /\ Reply("Invariant")
           /\ UNCHANGED <<store, published, documents, bounds>>
        \/ /\ ~store.broken /\ Contiguous(<<c>>) /\ ~writes
           /\ Reply("ok")
           /\ UNCHANGED <<store, published, documents, bounds>>
        \/ /\ ~store.broken /\ Contiguous(<<c>>) /\ writes
           /\ publish_prepared_group(<<c>>)
           /\ Reply("ok")
           /\ bounds' = [bounds EXCEPT !.commits = @ + 1]
        \/ /\ ~store.broken /\ Contiguous(<<c>>) /\ writes
           /\ AppendFails
           /\ Reply("Durability")
     /\ UNCHANGED <<overlay, prepared, results, view>>

(* The coordinator brings the view up to date before it answers.            *)
apply_updates ==
  /\ published # <<>>
  /\ view' = [pages |-> published @@ view.pages, root |-> store.root, high |-> store.high]
  /\ published' = <<>>
  /\ UNCHANGED <<store, overlay, prepared, results, answered, held, documents, bounds>>

(* The pages the tree reaches; free pages are left out of a fresh view.     *)
from_store(s) ==
  LET reached == Range(visit_tree(s, s.root, 0, Unbounded, {}).pages)
  IN [pages |-> [p \in reached |-> s.pages[p]], root |-> s.root, high |-> s.high]

(* Reads of the view repeat the reads of the tree on the view's own pages;  *)
(* a page it lacks is Corruption.                                           *)
view_get(key) == get_state(view, key)
view_query(pk, cursor, limit) == query(view, pk, cursor, limit)
view_scan(cursor, limit) == scan(view, cursor, limit)

(* Reopening after a clean stop: the next revision comes from the leaves    *)
(* and, when the WAL was not reset, from its last commit.                   *)
Reopen ==
  /\ overlay = Idle /\ held = Idle /\ published = <<>> /\ ~store.broken
  /\ \E lastInWal \in {0, store.lastCommit} :
       LET m == max_revision(store) IN
       store' = [store EXCEPT !.nextRev = (IF m > lastInWal THEN m ELSE lastInWal) + 1]
  /\ view' = from_store(store')
  /\ UNCHANGED <<overlay, prepared, results, answered, held, published, documents, bounds>>

-----------------------------------------------------------------------------

(* initialize, then the puts of the prefill as one transaction each.            *)
NewStore ==
  [pages |-> (FIRST_DATA_PAGE :> LeafPage(0, NilPage, <<>>)), root |-> FIRST_DATA_PAGE,
   free |-> NilPage, high |-> FIRST_DATA_PAGE, nextRev |-> 1, nextLsn |-> 1, gen |-> 1,
   lastCommit |-> 0, broken |-> FALSE]

Filled(s, m) == PublishOne(s, finish_transaction(ApplyMutation(OverlayNew(s), m)).candidate)

Init ==
  /\ workload \in Workloads
  /\ store = FoldLeft(Filled, NewStore, workload.prefill)
  /\ overlay = Idle /\ prepared = <<>> /\ results = <<>> /\ answered = <<>> /\ held = Idle
  /\ published = <<>>
  /\ view = from_store(store)
  /\ documents = Contents(store)
  /\ bounds = [commits |-> 0, failures |-> 0]

Next ==
  /\ \/ BeginGroup
     \/ \E request \in workload.requests : StageRequest(AsSent(request))
     \/ FinishGroup
     \/ \E operations \in workload.batches : prepare_batch(operations)
     \/ publish_prepared
     \/ apply_updates
     \/ Reopen
  /\ UNCHANGED workload

Spec == Init /\ [][Next]_vars

-----------------------------------------------------------------------------
(* Properties.                                                              *)

Cursors(keys) == {NoCursor} \cup keys
Limits == {0, 1, 2, 3, Cardinality(Keys)}
Partitions == {Pk(k) : k \in Keys}
KeysIn(pk) == {k \in Keys : Pk(k) = pk}

(* After every commit the structural checker accepts the tree: separators   *)
(* bound their subtrees, every leaf is in the chain once and in order, and  *)
(* the free list and the overflow chains share no page with anything else.  *)
(* No page below the high-water mark is lost: replaced and deleted values   *)
(* give theirs back.                                                        *)
TreeSound == check(store) /\ leaked_pages(store) = {}

(* What a range read must answer: the rows the serial reference model       *)
(* returns for the same contents, or InvalidInput when it asks for more     *)
(* than none from a key beyond the limit.                                   *)
Expected(rows, keys, limit) ==
  IF limit # 0 /\ \E k \in keys \ {NoCursor} : ~validate_encoded_key(k)
  THEN Refusal("InvalidInput") ELSE Found(rows)

(* After every publication query and scan from any cursor with any limit    *)
(* answer what the serial reference model says for the same contents, and   *)
(* refuse a cursor no key can have (query_with_budget, scan_with_budget);   *)
(* and once the published pages are applied to the view, so do its readers, *)
(* although free pages and earlier roots linger in it.                      *)
ReadsAgree ==
  LET db == documents IN
  IF published # <<>>
  THEN \A n \in Limits :
         /\ \A c \in Cursors(Keys) : scan(store, c, n) = Expected(ref_scan(db, c, n), {c}, n)
         /\ \A pk \in Partitions : \A c \in Cursors(KeysIn(pk)) :
              query(store, pk, c, n) = Expected(ref_query(db, pk, c, n), {StartKey(pk), c}, n)
  ELSE ~store.broken =>
         /\ \A k \in Keys : view_get(k) = get_state(store, k) /\ view_query(Pk(k), k, 1) = query(store, Pk(k), k, 1)
         /\ view_scan(NoCursor, Cardinality(Keys)) = scan(store, NoCursor, Cardinality(Keys))

(* The key takes at most half a page with any value that is kept in a leaf. *)
HalfPage(key) ==
  \A v \in Values : ValueLen[v] <= INLINE_VALUE_LIMIT => LEAF_OVERHEAD + KeyLen[key] + ValueLen[v] <= CAPACITY \div 2
StoredKeys == KeysOf(visit_tree(store, store.root, 0, Unbounded, {}).entries)
OperationKeys(op) == {op.key} \cup IF op.op = "query" THEN {StartKey(op.pk)} ELSE {}

(* While every key that is stored or written takes at most half a page, no  *)
(* request with keys within the limit is refused as invalid input, however  *)
(* the tree has to split for it (put, delete, prepare_transaction,          *)
(* choose_leaf_split, choose_internal_split).  With longer keys the splits  *)
(* do fail, long before the documented limit of 3992 bytes.                 *)
LegalWritesAccepted ==
  \A i \in DOMAIN answered :
    LET request == answered[i].request
        written == {m.key : m \in {m \in Range(request.mutations) : m.op \in {"put", "delete"}}}
        named == KeysOf(request.conditions) \cup UNION {OperationKeys(m) : m \in Range(request.mutations)}
    IN /\ \A k \in Keys \cap named : validate_encoded_key(k)
       /\ \A k \in StoredKeys \cup written : HalfPage(k)
       => answered[i].result # "InvalidInput"

(* What a refused transaction would have written is not in the store: a     *)
(* revision of the latest group is that of an accepted transaction on the   *)
(* same key.                                                                *)
RefusedNotApplied ==
  LET Accepted == {i \in DOMAIN answered : answered[i].result = "ok"}
      Writes(i, k) == k \in KeysOf(answered[i].request.mutations)
  IN \A i \in Accepted, k \in Keys :
       documents[k].revision = answered[i].lsn /\ answered[i].lsn # 0 => Writes(i, k)

Serial == INSTANCE SerialStore WITH db <- documents

(* Groups and batches are answered as if applied one after the other, each  *)
(* whole or not at all.                                                     *)
Serializable == Serial!Spec

=============================================================================
