--------------------------- MODULE TenantService ---------------------------
(***************************************************************************)
(* LocalTenantService (dodb-server): the registry that gives each tenant    *)
(* one shard coordinator over one pair of files.  Requests of many stream   *)
(* tasks race to open a tenant; the registry's lock is held from the lookup *)
(* to the insertion.  A shard is named by the request that opened it, since *)
(* a request opens at most one.  The coordinator itself is the subject of   *)
(* module Coordinator: here it commits what it is sent until it is told to  *)
(* close, and the requests of a group are committed one at a time.          *)
(***************************************************************************)
EXTENDS Integers, FiniteSets

CONSTANTS
  Requests,        \* calls of execute_request
  Closers,         \* calls of shutdown
  Tenants,
  TenantOf,        \* the tenant of each request
  KindOf,          \* "read", "conditions" (a transaction without mutations) or "write"
  MaxOpenShards,
  Stored,          \* tenants with files when the service starts
  NoShard, Free, Earlier   \* no entry; the lock is free; the write of an earlier process

ASSUME TenantAssumption ==
  /\ TenantOf \in [Requests -> Tenants]
  /\ KindOf \in [Requests -> {"read", "conditions", "write"}]
  /\ MaxOpenShards \in Nat \ {0} /\ Stored \subseteq Tenants
  /\ NoShard \notin Requests /\ Earlier \notin Requests
  /\ Free \notin Requests \cup Closers /\ Requests \cap Closers = {}

VARIABLES
  shards, lock,          \* the registry, tenant to shard, and who holds its lock
  exist, content,        \* per tenant: whether its files exist, the writes in them
  task, shown, queue,    \* per shard: its coordinator, what its readers see, its queue
  at, handle,            \* per request: where it is, the shard it was given
  result, found,         \* per request: its answer
  acked,                 \* per request: the writes of its tenant acknowledged when it began
  closer, left           \* per shutdown: where it is, the shards it still has to close

registryVars == <<shards, lock>>
fileVars == <<exist, content>>
shardVars == <<task, shown, queue>>
callVars == <<at, handle, result, found, acked>>
closerVars == <<closer, left>>
vars == <<registryVars, fileVars, shardVars, callVars, closerVars>>

Mutates(r) == KindOf[r] = "write"
Open == {t \in Tenants : shards[t] # NoShard}

(* A coordinator that owns the files of its tenant.                         *)
Alive(n) == task[n] \in {"opening", "running", "closing"}

Acknowledged(t) == {r \in Requests : TenantOf[r] = t /\ Mutates(r) /\ result[r] = "ok"}

Goes(r, place) == at' = [at EXCEPT ![r] = place] /\ UNCHANGED <<handle, result, found, acked>>
GivenShard(r, n) ==
  /\ at' = [at EXCEPT ![r] = "send"] /\ handle' = [handle EXCEPT ![r] = n]
  /\ UNCHANGED <<result, found, acked>>
Answer(r, outcome, seen) ==
  /\ at' = [at EXCEPT ![r] = "done"]
  /\ result' = [result EXCEPT ![r] = outcome] /\ found' = [found EXCEPT ![r] = seen]
  /\ UNCHANGED <<handle, acked>>

-----------------------------------------------------------------------------
(* Requests.                                                                *)

execute_request(r) ==
  /\ at[r] = "idle"
  /\ at' = [at EXCEPT ![r] = IF Mutates(r) THEN "lock" ELSE "look"]
  /\ acked' = [acked EXCEPT ![r] = Acknowledged(TenantOf[r])]
  /\ UNCHANGED <<registryVars, fileVars, shardVars, closerVars, handle, result, found>>

read_shard_registered(r) ==   \* asks the registry instead of the file system
  /\ at[r] = "look"
  /\ IF shards[TenantOf[r]] # NoShard THEN Goes(r, "lock") ELSE Answer(r, "ok", {})
  /\ UNCHANGED <<registryVars, fileVars, shardVars, closerVars>>
read_shard_opening(r) ==   \* a read opens the tenant like a write
  /\ at[r] = "look"
  /\ Goes(r, "lock")
  /\ UNCHANGED <<registryVars, fileVars, shardVars, closerVars>>
(* A read of a tenant without files is answered from nothing, without the   *)
(* lock.                                                                    *)
read_shard(r) ==
  /\ at[r] = "look"
  /\ IF exist[TenantOf[r]] THEN Goes(r, "lock") ELSE Answer(r, "ok", {})
  /\ UNCHANGED <<registryVars, fileVars, shardVars, closerVars>>

LockRegistry(r) ==
  /\ at[r] = "lock" /\ lock = Free
  /\ lock' = r /\ Goes(r, "open")
  /\ UNCHANGED <<shards, fileVars, shardVars, closerVars>>

(* open_shard under the lock: the entry is there,                           *)
OpenFound(r) ==
  /\ at[r] = "open" /\ shards[TenantOf[r]] # NoShard
  /\ GivenShard(r, shards[TenantOf[r]]) /\ lock' = Free
  /\ UNCHANGED <<shards, fileVars, shardVars, closerVars>>
(* the registry is full,                                                    *)
OpenRefused(r) ==
  /\ at[r] = "open" /\ shards[TenantOf[r]] = NoShard /\ Cardinality(Open) >= MaxOpenShards
  /\ Answer(r, "Overloaded", {}) /\ lock' = Free
  /\ UNCHANGED <<shards, fileVars, shardVars, closerVars>>
OpenBegins_unlooked(r) ==   \* the registry is not looked up again under the lock
  /\ at[r] = "open" /\ (shards[TenantOf[r]] # NoShard \/ Cardinality(Open) < MaxOpenShards)
  /\ exist' = [exist EXCEPT ![TenantOf[r]] = TRUE]
  /\ task' = [task EXCEPT ![r] = "opening"] /\ Goes(r, "opening")
  /\ UNCHANGED <<registryVars, content, shown, queue, closerVars>>
(* or the files are opened, which creates them.                             *)
OpenBegins(r) ==
  /\ at[r] = "open" /\ shards[TenantOf[r]] = NoShard /\ Cardinality(Open) < MaxOpenShards
  /\ exist' = [exist EXCEPT ![TenantOf[r]] = TRUE]
  /\ task' = [task EXCEPT ![r] = "opening"] /\ Goes(r, "opening")
  /\ UNCHANGED <<registryVars, content, shown, queue, closerVars>>

(* The store is recovered, its coordinator started and registered.          *)
OpenDone(r) ==
  /\ at[r] = "opening"
  /\ task' = [task EXCEPT ![r] = "running"] /\ shown' = [shown EXCEPT ![r] = content[TenantOf[r]]]
  /\ shards' = [shards EXCEPT ![TenantOf[r]] = r] /\ lock' = Free
  /\ GivenShard(r, r)
  /\ UNCHANGED <<fileVars, queue, closerVars>>
(* The open fails and its error is returned: the lock is dropped, nothing   *)
(* is registered, the files stay.                                           *)
OpenFails(r) ==
  /\ at[r] = "opening"
  /\ task' = [task EXCEPT ![r] = "stopped"]
  /\ Answer(r, "failed", {}) /\ lock' = Free
  /\ UNCHANGED <<shards, fileVars, shown, queue, closerVars>>

(* Reads are answered from the shard's committed view, also when its        *)
(* coordinator has stopped.                                                 *)
ReadView(r) ==
  /\ at[r] = "send" /\ KindOf[r] = "read"
  /\ Answer(r, "ok", shown[handle[r]])
  /\ UNCHANGED <<registryVars, fileVars, shardVars, closerVars>>
(* The rest is queued, unless the coordinator has stopped or its queue is   *)
(* full.                                                                    *)
SendRefused(r) ==
  /\ at[r] = "send" /\ KindOf[r] # "read"
  /\ \/ task[handle[r]] = "stopped" /\ Answer(r, "failed", {})
     \/ task[handle[r]] # "stopped" /\ queue[handle[r]] # {} /\ Answer(r, "Overloaded", {})
  /\ UNCHANGED <<registryVars, fileVars, shardVars, closerVars>>
Send(r) ==
  /\ at[r] = "send" /\ KindOf[r] # "read" /\ task[handle[r]] # "stopped"
  /\ queue' = [queue EXCEPT ![handle[r]] = @ \cup {r}]
  /\ Goes(r, "queued")
  /\ UNCHANGED <<registryVars, fileVars, task, shown, closerVars>>

-----------------------------------------------------------------------------
(* Coordinators.                                                            *)

Written(r) == IF Mutates(r) THEN {r} ELSE {}

(* A write is durable and shown before it is answered.                      *)
Commit(r) ==
  /\ at[r] = "queued" /\ r \in queue[handle[r]]
  /\ content' = [content EXCEPT ![TenantOf[r]] = @ \cup Written(r)]
  /\ shown' = [shown EXCEPT ![handle[r]] = @ \cup Written(r)]
  /\ queue' = [queue EXCEPT ![handle[r]] = @ \ {r}]
  /\ Answer(r, "ok", shown[handle[r]])
  /\ UNCHANGED <<registryVars, exist, task, closerVars>>

(* The coordinator sees the close signal and ends; what is queued loses its *)
(* answer, and the store closes its files.                                  *)
CoordinatorStops(n) ==
  /\ task[n] = "closing"
  /\ task' = [task EXCEPT ![n] = "stopped"] /\ queue' = [queue EXCEPT ![n] = {}]
  /\ at' = [r \in Requests |-> IF r \in queue[n] THEN "done" ELSE at[r]]
  /\ result' = [r \in Requests |-> IF r \in queue[n] THEN "failed" ELSE result[r]]
  /\ UNCHANGED <<registryVars, fileVars, shown, handle, found, acked, closerVars>>

-----------------------------------------------------------------------------
(* shutdown: the registry is emptied under the lock, then the shards are    *)
(* closed one after the other.                                              *)

shutdown(c) ==
  /\ closer[c] = "idle"
  /\ closer' = [closer EXCEPT ![c] = "called"]
  /\ UNCHANGED <<registryVars, fileVars, shardVars, callVars, left>>

ShutdownTakes(c) ==
  /\ closer[c] = "called" /\ lock = Free
  /\ closer' = [closer EXCEPT ![c] = "closing"]
  /\ left' = [left EXCEPT ![c] = {shards[t] : t \in Open}]
  /\ shards' = [t \in Tenants |-> NoShard]
  /\ UNCHANGED <<lock, fileVars, shardVars, callVars>>

ShutdownCloses_unawaited(c, n) ==   \* the close signal is sent and not awaited
  /\ closer[c] = "closing" /\ n \in left[c]
  /\ task' = [task EXCEPT ![n] = IF @ = "running" THEN "closing" ELSE @]
  /\ left' = [left EXCEPT ![c] = @ \ {n}]
  /\ UNCHANGED <<registryVars, fileVars, shown, queue, callVars, closer>>
(* AsyncShard::shutdown: the coordinator is signalled and awaited.          *)
ShutdownCloses(c, n) ==
  /\ closer[c] = "closing" /\ n \in left[c]
  /\ \/ /\ task[n] = "running" /\ \A m \in left[c] : task[m] # "closing"
        /\ task' = [task EXCEPT ![n] = "closing"] /\ UNCHANGED left
     \/ task[n] = "stopped" /\ left' = [left EXCEPT ![c] = @ \ {n}] /\ UNCHANGED task
  /\ UNCHANGED <<registryVars, fileVars, shown, queue, callVars, closer>>

ShutdownReturns(c) ==
  /\ closer[c] = "closing" /\ left[c] = {}
  /\ closer' = [closer EXCEPT ![c] = "returned"]
  /\ UNCHANGED <<registryVars, fileVars, shardVars, callVars, left>>

-----------------------------------------------------------------------------

Init ==
  /\ shards = [t \in Tenants |-> NoShard] /\ lock = Free
  /\ exist = [t \in Tenants |-> t \in Stored]
  /\ content = [t \in Tenants |-> IF t \in Stored THEN {Earlier} ELSE {}]
  /\ task = [n \in Requests |-> "none"]
  /\ shown = [n \in Requests |-> {}] /\ queue = [n \in Requests |-> {}]
  /\ at = [r \in Requests |-> "idle"] /\ handle = [r \in Requests |-> NoShard]
  /\ result = [r \in Requests |-> "none"] /\ found = [r \in Requests |-> {}]
  /\ acked = [r \in Requests |-> {}]
  /\ closer = [c \in Closers |-> "idle"] /\ left = [c \in Closers |-> {}]

(* What a request does once it has begun.                                   *)
open_shard(r) == OpenFound(r) \/ OpenRefused(r) \/ OpenBegins(r) \/ OpenDone(r) \/ OpenFails(r)
Step(r) ==
  \/ read_shard(r) \/ LockRegistry(r) \/ open_shard(r)
  \/ ReadView(r) \/ SendRefused(r) \/ Send(r) \/ Commit(r)
Close(c) == ShutdownTakes(c) \/ ShutdownReturns(c) \/ \E n \in Requests : ShutdownCloses(c, n)

Next ==
  \/ \E r \in Requests : execute_request(r) \/ Step(r) \/ CoordinatorStops(r)
  \/ \E c \in Closers : shutdown(c) \/ Close(c)

Spec == Init /\ [][Next]_vars

-----------------------------------------------------------------------------
(* Properties.                                                              *)

(* The lock is held by the one request that works under it.                 *)
LockHeld == \A r \in Requests : lock = r <=> at[r] \in {"open", "opening"}

(* The types of the state, and LockHeld.                                    *)
TypeOK ==
  /\ shards \in [Tenants -> Requests \cup {NoShard}] /\ lock \in Requests \cup {Free}
  /\ exist \in [Tenants -> BOOLEAN] /\ content \in [Tenants -> SUBSET (Requests \cup {Earlier})]
  /\ task \in [Requests -> {"none", "opening", "running", "closing", "stopped"}]
  /\ shown \in [Requests -> SUBSET (Requests \cup {Earlier})] /\ queue \in [Requests -> SUBSET Requests]
  /\ at \in [Requests -> {"idle", "look", "lock", "open", "opening", "send", "queued", "done"}]
  /\ handle \in [Requests -> Requests \cup {NoShard}]
  /\ result \in [Requests -> {"none", "ok", "failed", "Overloaded"}]
  /\ found \in [Requests -> SUBSET (Requests \cup {Earlier})] /\ acked \in [Requests -> SUBSET Requests]
  /\ closer \in [Closers -> {"idle", "called", "closing", "returned"}]
  /\ left \in [Closers -> SUBSET Requests]
  /\ LockHeld

(* Until a shutdown has emptied the registry.                               *)
Serving == \A c \in Closers : closer[c] \in {"idle", "called"}

(* No two coordinators ever own the files of one tenant, however many first *)
(* requests race in open_shard, until shutdown empties the registry.        *)
OneCoordinatorPerFile ==
  Serving => \A n, m \in Requests : Alive(n) /\ Alive(m) /\ TenantOf[n] = TenantOf[m] => n = m

(* read_shard: requests without mutations create no files.                  *)
ReadsCreateNothing ==
  \A t \in Tenants : exist[t] =>
    t \in Stored \/ \E r \in Requests : TenantOf[r] = t /\ Mutates(r) /\ task[r] # "none"

(* A request answered ok has seen every write of its tenant that was        *)
(* acknowledged before it began, and what was stored before the service     *)
(* started, whether it found a shard, opened one or found no files, until   *)
(* shutdown empties the registry.                                           *)
SeesAcknowledged ==
  Serving => \A r \in Requests : result[r] = "ok" =>
    acked[r] \cup (IF TenantOf[r] \in Stored THEN {Earlier} ELSE {}) \subseteq found[r]

(* shutdown closes every shard it takes from the registry and waits for it: *)
(* once all shutdowns have returned and the requests are answered, a        *)
(* coordinator that is still alive was opened later and is registered.      *)
ShutdownReleases ==
  (\A c \in Closers : closer[c] = "returned") /\ (\A r \in Requests : at[r] \in {"idle", "done"})
  => \A n \in Requests : Alive(n) => shards[TenantOf[n]] = n

=============================================================================
