----------------------- MODULE TenantServiceTheorems -----------------------
(***************************************************************************)
(* Until a shutdown empties the registry, one coordinator owns the files of *)
(* each tenant and every request sees what was acknowledged before it; a    *)
(* read creates no file; and a shutdown leaves nothing running that it took *)
(* out of the registry.  For any number of tenants, requests and shutdowns. *)
(***************************************************************************)
EXTENDS TenantService, TLAPS

(* Who owns a tenant's files: the shard its registry entry names, or the    *)
(* one being opened by the holder of the lock, while there is no entry.     *)
Ownership ==
  /\ \A n \in Requests : task[n] # "closing"
  /\ \A n \in Requests : task[n] = "running" => shards[TenantOf[n]] = n
  /\ \A n \in Requests : task[n] = "opening" <=> at[n] = "opening"
  /\ \A n \in Requests : at[n] = "opening" => shards[TenantOf[n]] = NoShard
  /\ \A t \in Tenants : shards[t] # NoShard => task[shards[t]] = "running" /\ TenantOf[shards[t]] = t
  /\ \A r \in Requests : at[r] \in {"send", "queued"} =>
       /\ handle[r] \in Requests /\ task[handle[r]] = "running"
       /\ TenantOf[handle[r]] = TenantOf[r]

(* What a request has to see once it has begun.                             *)
MustSee(r) == acked[r] \cup (IF TenantOf[r] \in Stored THEN {Earlier} ELSE {})

(* A running shard shows exactly what its files hold, and the files hold    *)
(* every acknowledged write.                                                *)
Contents ==
  /\ \A n \in Requests : task[n] = "running" => shown[n] = content[TenantOf[n]]
  /\ \A r \in Requests : Mutates(r) /\ result[r] = "ok" => r \in content[TenantOf[r]]
  /\ \A r \in Requests : MustSee(r) \subseteq content[TenantOf[r]]
  /\ \A t \in Tenants : content[t] # {} => exist[t]
  /\ \A n \in Requests : task[n] # "none" => exist[TenantOf[n]]
  /\ \A r \in Requests : at[r] # "done" => result[r] # "ok"
  /\ \A r \in Requests : at[r] = "look" => ~ Mutates(r)

Seen == \A r \in Requests : result[r] = "ok" => MustSee(r) \subseteq found[r]

IInv == TypeOK /\ Ownership /\ Contents /\ Seen

-----------------------------------------------------------------------------
(* The invariant holds at the start and is kept by every action.            *)

(* Before the first request nothing is open and every file holds what an    *)
(* earlier process stored.                                                  *)
LEMMA InitInv == Init => IInv
<1> SUFFICES ASSUME Init PROVE IInv
  OBVIOUS
<1>1. TypeOK
  BY TenantAssumption DEF Init, TypeOK, LockHeld
<1>2. Ownership
  BY TenantAssumption DEF Init, Ownership
<1>3. Contents /\ Seen
  BY TenantAssumption DEF Init, Contents, Seen, MustSee, Mutates
<1> QED
  BY <1>1, <1>2, <1>3 DEF IInv

(* A request that moves outside the lock leaves the lock with its holder.   *)
LEMMA LockKept ==
  ASSUME NEW r \in Requests, NEW place \in {"look", "lock", "send", "queued", "done"}, TypeOK,
         at[r] \notin {"open", "opening"}, at' = [at EXCEPT ![r] = place], lock' = lock
  PROVE  LockHeld'
BY DEF TypeOK, LockHeld

(* A request that leaves open_shard frees the lock.                         *)
LEMMA LockFreed ==
  ASSUME NEW r \in Requests, NEW place \in {"send", "done"}, TypeOK,
         at[r] \in {"open", "opening"}, at' = [at EXCEPT ![r] = place], lock' = Free
  PROVE  LockHeld'
BY TenantAssumption DEF TypeOK, LockHeld

(* execute_request notes the writes acknowledged so far, all of which are   *)
(* in the files.                                                            *)
LEMMA Keeps_execute_request == ASSUME NEW r \in Requests, IInv, execute_request(r) PROVE IInv'
<1>1. LockHeld'
  BY LockKept DEF execute_request, registryVars, IInv
<1>2. TypeOK'
  BY <1>1, TenantAssumption DEF execute_request, Acknowledged, registryVars, fileVars, shardVars, closerVars, IInv, TypeOK
<1>3. Ownership'
  BY TenantAssumption DEF execute_request, Acknowledged, registryVars, fileVars, shardVars, closerVars, IInv, TypeOK, LockHeld, Ownership
<1>4. Contents'
  BY TenantAssumption DEF execute_request, Acknowledged, registryVars, fileVars, shardVars, closerVars, IInv, TypeOK, Ownership, Contents, MustSee, Mutates
<1>5. Seen'
  BY TenantAssumption DEF execute_request, Acknowledged, registryVars, fileVars, shardVars, closerVars, IInv, TypeOK, Ownership, Contents, Seen, MustSee, Mutates
<1> QED
  BY <1>2, <1>3, <1>4, <1>5 DEF IInv

(* read_shard answers from nothing only when there are no files, so nothing *)
(* had been acknowledged.                                                   *)
LEMMA Keeps_read_shard == ASSUME NEW r \in Requests, IInv, read_shard(r) PROVE IInv'
<1>1. CASE exist[TenantOf[r]]
  <2>1. LockHeld'
    BY <1>1, LockKept DEF read_shard, Goes, Answer, registryVars, IInv
  <2>2. TypeOK'
    BY <1>1, <2>1, TenantAssumption DEF read_shard, Goes, Answer, registryVars, fileVars, shardVars, closerVars, IInv, TypeOK
  <2>3. Ownership'
    BY <1>1, TenantAssumption DEF read_shard, Goes, Answer, registryVars, fileVars, shardVars, closerVars, IInv, TypeOK, LockHeld, Ownership
  <2>4. Contents'
    BY <1>1, TenantAssumption DEF read_shard, Goes, Answer, registryVars, fileVars, shardVars, closerVars, IInv, TypeOK, Ownership, Contents, MustSee, Mutates
  <2>5. Seen'
    BY <1>1, TenantAssumption DEF read_shard, Goes, Answer, registryVars, fileVars, shardVars, closerVars, IInv, TypeOK, Ownership, Contents, Seen, MustSee, Mutates
  <2> QED
    BY <2>2, <2>3, <2>4, <2>5 DEF IInv
<1>2. CASE ~ exist[TenantOf[r]]
  <2>1. LockHeld'
    BY <1>2, LockKept DEF read_shard, Goes, Answer, registryVars, IInv
  <2>2. TypeOK'
    <3>1. at' = [at EXCEPT ![r] = "done"] /\ result' = [result EXCEPT ![r] = "ok"]
          /\ found' = [found EXCEPT ![r] = {}] /\ UNCHANGED <<handle, acked>>
      BY <1>2 DEF read_shard, Answer
    <3>2. UNCHANGED <<shards, lock, exist, content, task, shown, queue, closer, left>>
      BY DEF read_shard, registryVars, fileVars, shardVars, closerVars
    <3> QED
      BY <2>1, <3>1, <3>2 DEF IInv, TypeOK
  <2>3. Ownership'
    BY <1>2, TenantAssumption DEF read_shard, Goes, Answer, registryVars, fileVars, shardVars, closerVars, IInv, TypeOK, LockHeld, Ownership
  <2>4. Contents'
    BY <1>2, TenantAssumption DEF read_shard, Goes, Answer, registryVars, fileVars, shardVars, closerVars, IInv, TypeOK, Ownership, Contents, MustSee, Mutates
  <2>5. Seen'
    <3>1. MustSee(r) = {}
      BY <1>2, TenantAssumption DEF IInv, Contents
    <3>2. UNCHANGED acked /\ result' = [result EXCEPT ![r] = "ok"] /\ found' = [found EXCEPT ![r] = {}]
      BY <1>2 DEF read_shard, Answer
    <3> QED
      BY <3>1, <3>2 DEF IInv, TypeOK, Seen, MustSee
  <2> QED
    BY <2>2, <2>3, <2>4, <2>5 DEF IInv
<1> QED
  BY <1>1, <1>2

(* The registry's lock is taken by one request.                             *)
LEMMA Keeps_LockRegistry == ASSUME NEW r \in Requests, IInv, LockRegistry(r) PROVE IInv'
<1>1. LockHeld'
  BY TenantAssumption DEF LockRegistry, Goes, fileVars, shardVars, closerVars, IInv, TypeOK, LockHeld
<1>2. TypeOK'
  BY <1>1, TenantAssumption DEF LockRegistry, Goes, fileVars, shardVars, closerVars, IInv, TypeOK
<1>3. Ownership'
  BY TenantAssumption DEF LockRegistry, Goes, fileVars, shardVars, closerVars, IInv, TypeOK, LockHeld, Ownership
<1>4. Contents'
  BY TenantAssumption DEF LockRegistry, Goes, fileVars, shardVars, closerVars, IInv, TypeOK, Ownership, Contents, MustSee, Mutates
<1>5. Seen'
  BY TenantAssumption DEF LockRegistry, Goes, fileVars, shardVars, closerVars, IInv, TypeOK, Ownership, Contents, Seen, MustSee, Mutates
<1> QED
  BY <1>2, <1>3, <1>4, <1>5 DEF IInv

(* open_shard hands out the registered shard.                               *)
LEMMA Keeps_OpenFound == ASSUME NEW r \in Requests, IInv, OpenFound(r) PROVE IInv'
<1>1. LockHeld'
  BY LockFreed DEF OpenFound, GivenShard, IInv
<1>2. TypeOK'
  BY <1>1, TenantAssumption DEF OpenFound, GivenShard, fileVars, shardVars, closerVars, IInv, TypeOK
<1>3. Ownership'
  <2> DEFINE n == shards[TenantOf[r]]
  <2>1. n \in Requests /\ task[n] = "running" /\ TenantOf[n] = TenantOf[r]
    BY TenantAssumption DEF OpenFound, IInv, TypeOK, Ownership
  <2>2. at' = [at EXCEPT ![r] = "send"] /\ handle' = [handle EXCEPT ![r] = n] /\ UNCHANGED <<task, shards>>
    BY DEF OpenFound, GivenShard, shardVars
  <2> HIDE DEF n
  <2> QED
    BY <2>1, <2>2, TenantAssumption DEF IInv, TypeOK, Ownership
<1>4. Contents'
  BY TenantAssumption DEF OpenFound, GivenShard, fileVars, shardVars, closerVars, IInv, TypeOK, Ownership, Contents, MustSee, Mutates
<1>5. Seen'
  BY TenantAssumption DEF OpenFound, GivenShard, fileVars, shardVars, closerVars, IInv, TypeOK, Ownership, Contents, Seen, MustSee, Mutates
<1> QED
  BY <1>2, <1>3, <1>4, <1>5 DEF IInv

(* open_shard refuses when the registry is full.                            *)
LEMMA Keeps_OpenRefused == ASSUME NEW r \in Requests, IInv, OpenRefused(r) PROVE IInv'
<1>1. LockHeld'
  BY LockFreed DEF OpenRefused, Answer, IInv
<1>2. TypeOK'
  BY <1>1, TenantAssumption DEF OpenRefused, Answer, fileVars, shardVars, closerVars, IInv, TypeOK
<1>3. Ownership'
  BY TenantAssumption DEF OpenRefused, Answer, fileVars, shardVars, closerVars, IInv, TypeOK, LockHeld, Ownership
<1>4. Contents'
  BY TenantAssumption DEF OpenRefused, Answer, fileVars, shardVars, closerVars, IInv, TypeOK, Ownership, Contents, MustSee, Mutates
<1>5. Seen'
  BY TenantAssumption DEF OpenRefused, Answer, fileVars, shardVars, closerVars, IInv, TypeOK, Ownership, Contents, Seen, MustSee, Mutates
<1> QED
  BY <1>2, <1>3, <1>4, <1>5 DEF IInv

(* open_shard opens files only while no entry names a shard over them.      *)
LEMMA Keeps_OpenBegins == ASSUME NEW r \in Requests, IInv, OpenBegins(r) PROVE IInv'
<1>1. LockHeld'
  BY TenantAssumption DEF OpenBegins, Goes, registryVars, closerVars, IInv, TypeOK, LockHeld
<1>2. TypeOK'
  BY <1>1, TenantAssumption DEF OpenBegins, Goes, registryVars, closerVars, IInv, TypeOK
<1>3. Ownership'
  BY TenantAssumption DEF OpenBegins, Goes, registryVars, closerVars, IInv, TypeOK, LockHeld, Ownership
<1>4. Contents'
  <2>1. exist' = [exist EXCEPT ![TenantOf[r]] = TRUE] /\ task' = [task EXCEPT ![r] = "opening"]
    BY DEF OpenBegins
  <2>2. UNCHANGED <<content, shown, result, acked>> /\ at' = [at EXCEPT ![r] = "opening"] /\ at[r] = "open"
    BY DEF OpenBegins, Goes
  <2>3. \A q \in Requests : task'[q] # "none" => exist'[TenantOf[q]]
    <3>1. exist'[TenantOf[r]] /\ \A t \in Tenants : exist[t] => exist'[t]
      BY <2>1, TenantAssumption DEF IInv, TypeOK
    <3>2. \A q \in Requests : q = r \/ task'[q] = task[q]
      BY <2>1 DEF IInv, TypeOK
    <3>3. \A q \in Requests : TenantOf[q] \in Tenants
      BY TenantAssumption
    <3> QED
      BY <3>1, <3>2, <3>3 DEF IInv, Contents
  <2>4. \A t \in Tenants : content'[t] # {} => exist'[t]
    BY <2>1, <2>2 DEF IInv, TypeOK, Contents
  <2>5. \A q \in Requests : task'[q] = "running" => task[q] = "running"
    BY <2>1 DEF IInv, TypeOK
  <2>6. \A q \in Requests : at'[q] # "opening" => at'[q] = at[q]
    BY <2>2 DEF IInv, TypeOK
  <2>7. \A q \in Requests : result[q] = "ok" => at'[q] = "done"
    BY <2>2 DEF IInv, TypeOK, Contents
  <2>8. \A q \in Requests : MustSee(q)' = MustSee(q)
    BY <2>2 DEF MustSee
  <2> QED
    BY <2>2, <2>3, <2>4, <2>5, <2>6, <2>7, <2>8 DEF IInv, Contents
<1>5. Seen'
  BY TenantAssumption DEF OpenBegins, Goes, registryVars, closerVars, IInv, TypeOK, Ownership, Contents, Seen, MustSee, Mutates
<1> QED
  BY <1>2, <1>3, <1>4, <1>5 DEF IInv

(* The opened shard shows what its files hold and is registered.            *)
LEMMA Keeps_OpenDone == ASSUME NEW r \in Requests, IInv, OpenDone(r) PROVE IInv'
<1>1. LockHeld'
  BY LockFreed DEF OpenDone, GivenShard, IInv
<1>2. TypeOK'
  BY <1>1, TenantAssumption DEF OpenDone, GivenShard, fileVars, closerVars, IInv, TypeOK
<1>3. Ownership'
  <2>1. shards[TenantOf[r]] = NoShard /\ TenantOf[r] \in Tenants
    BY TenantAssumption DEF OpenDone, IInv, Ownership
  <2>2. at' = [at EXCEPT ![r] = "send"] /\ handle' = [handle EXCEPT ![r] = r]
    BY DEF OpenDone, GivenShard
  <2>3. task' = [task EXCEPT ![r] = "running"] /\ shards' = [shards EXCEPT ![TenantOf[r]] = r]
    BY DEF OpenDone
  <2>4. \A q \in Requests : at[q] = "opening" => q = r
    BY DEF OpenDone, IInv, TypeOK, LockHeld
  <2>5. \A q \in Requests : task[q] = "running" => TenantOf[q] # TenantOf[r]
    BY <2>1, TenantAssumption DEF IInv, Ownership
  <2>6. \A t \in Tenants : shards'[t] # NoShard => task'[shards'[t]] = "running" /\ TenantOf[shards'[t]] = t
    BY <2>1, <2>3, TenantAssumption DEF IInv, TypeOK, Ownership
  <2>7. \A q \in Requests : at'[q] \in {"send", "queued"} =>
          handle'[q] \in Requests /\ task'[handle'[q]] = "running" /\ TenantOf[handle'[q]] = TenantOf[q]
    BY <2>2, <2>3, TenantAssumption DEF IInv, TypeOK, Ownership
  <2> QED
    BY <2>1, <2>2, <2>3, <2>4, <2>5, <2>6, <2>7, TenantAssumption DEF IInv, TypeOK, Ownership
<1>4. Contents'
  <2>1. task' = [task EXCEPT ![r] = "running"] /\ shown' = [shown EXCEPT ![r] = content[TenantOf[r]]]
    BY DEF OpenDone
  <2>2. UNCHANGED <<exist, content, result, acked>> /\ at' = [at EXCEPT ![r] = "send"] /\ at[r] = "opening"
    BY DEF OpenDone, GivenShard, fileVars
  <2>3. \A q \in Requests : task'[q] # "none" => exist[TenantOf[q]]
    BY <2>1, <2>2 DEF IInv, TypeOK, Ownership, Contents
  <2>4. \A q \in Requests : task'[q] = "running" => shown'[q] = content[TenantOf[q]]
    BY <2>1 DEF IInv, TypeOK, Contents
  <2>5. \A q \in Requests : at'[q] # "send" => at'[q] = at[q]
    BY <2>2 DEF IInv, TypeOK
  <2>6. \A q \in Requests : result[q] = "ok" => at'[q] = "done"
    BY <2>2 DEF IInv, TypeOK, Contents
  <2>7. \A q \in Requests : MustSee(q)' = MustSee(q)
    BY <2>2 DEF MustSee
  <2> QED
    BY <2>2, <2>3, <2>4, <2>5, <2>6, <2>7 DEF IInv, Contents
<1>5. Seen'
  BY TenantAssumption DEF OpenDone, GivenShard, fileVars, closerVars, IInv, TypeOK, Ownership, Contents, Seen, MustSee, Mutates
<1> QED
  BY <1>2, <1>3, <1>4, <1>5 DEF IInv

(* A failed open leaves no coordinator and no entry.                        *)
LEMMA Keeps_OpenFails == ASSUME NEW r \in Requests, IInv, OpenFails(r) PROVE IInv'
<1>1. LockHeld'
  BY LockFreed DEF OpenFails, Answer, IInv
<1>2. TypeOK'
  BY <1>1, TenantAssumption DEF OpenFails, Answer, fileVars, closerVars, IInv, TypeOK
<1>3. Ownership'
  BY TenantAssumption DEF OpenFails, Answer, fileVars, closerVars, IInv, TypeOK, LockHeld, Ownership
<1>4. Contents'
  <2>1. task' = [task EXCEPT ![r] = "stopped"] /\ result' = [result EXCEPT ![r] = "failed"]
    BY DEF OpenFails, Answer
  <2>2. UNCHANGED <<exist, content, shown, acked>> /\ at' = [at EXCEPT ![r] = "done"] /\ at[r] = "opening"
    BY DEF OpenFails, Answer, fileVars
  <2>3. \A q \in Requests : task'[q] # "none" => exist[TenantOf[q]]
    BY <2>1, <2>2 DEF IInv, TypeOK, Ownership, Contents
  <2>4. \A q \in Requests : task'[q] = "running" => task[q] = "running"
    BY <2>1 DEF IInv, TypeOK
  <2>5. \A q \in Requests : result'[q] = "ok" => result[q] = "ok"
    BY <2>1 DEF IInv, TypeOK
  <2>6. \A q \in Requests : at'[q] # "done" => at'[q] = at[q]
    BY <2>2 DEF IInv, TypeOK
  <2>7. \A q \in Requests : MustSee(q)' = MustSee(q)
    BY <2>2 DEF MustSee
  <2> QED
    BY <2>2, <2>3, <2>4, <2>5, <2>6, <2>7 DEF IInv, Contents
<1>5. Seen'
  BY TenantAssumption DEF OpenFails, Answer, fileVars, closerVars, IInv, TypeOK, Ownership, Contents, Seen, MustSee, Mutates
<1> QED
  BY <1>2, <1>3, <1>4, <1>5 DEF IInv

(* A read is answered with what its files hold.                             *)
LEMMA Keeps_ReadView == ASSUME NEW r \in Requests, IInv, ReadView(r) PROVE IInv'
<1>1. LockHeld'
  BY LockKept DEF ReadView, Answer, registryVars, IInv
<1>2. TypeOK'
  BY <1>1, TenantAssumption DEF ReadView, Answer, registryVars, fileVars, shardVars, closerVars, IInv, TypeOK, Ownership
<1>3. Ownership'
  BY TenantAssumption DEF ReadView, Answer, registryVars, fileVars, shardVars, closerVars, IInv, TypeOK, LockHeld, Ownership
<1>4. Contents'
  BY TenantAssumption DEF ReadView, Answer, registryVars, fileVars, shardVars, closerVars, IInv, TypeOK, Ownership, Contents, MustSee, Mutates
<1>5. Seen'
  BY TenantAssumption DEF ReadView, Answer, registryVars, fileVars, shardVars, closerVars, IInv, TypeOK, Ownership, Contents, Seen, MustSee, Mutates
<1> QED
  BY <1>2, <1>3, <1>4, <1>5 DEF IInv

(* A refused operation changes no shard.                                    *)
LEMMA Keeps_SendRefused == ASSUME NEW r \in Requests, IInv, SendRefused(r) PROVE IInv'
<1>1. CASE task[handle[r]] = "stopped"
  <2>1. LockHeld'
    BY LockKept DEF SendRefused, Answer, registryVars, IInv
  <2>2. TypeOK'
    BY <1>1, <2>1, TenantAssumption DEF SendRefused, Answer, registryVars, fileVars, shardVars, closerVars, IInv, TypeOK, Ownership
  <2>3. Ownership'
    BY <1>1, TenantAssumption DEF SendRefused, Answer, registryVars, fileVars, shardVars, closerVars, IInv, TypeOK, LockHeld, Ownership
  <2>4. Contents'
    BY <1>1, TenantAssumption DEF SendRefused, Answer, registryVars, fileVars, shardVars, closerVars, IInv, TypeOK, Ownership, Contents, MustSee, Mutates
  <2>5. Seen'
    BY <1>1, TenantAssumption DEF SendRefused, Answer, registryVars, fileVars, shardVars, closerVars, IInv, TypeOK, Ownership, Contents, Seen, MustSee, Mutates
  <2> QED
    BY <2>2, <2>3, <2>4, <2>5 DEF IInv
<1>2. CASE task[handle[r]] # "stopped"
  <2>1. at' = [at EXCEPT ![r] = "done"] /\ result' = [result EXCEPT ![r] = "Overloaded"]
        /\ found' = [found EXCEPT ![r] = {}] /\ UNCHANGED <<handle, acked>>
    BY <1>2 DEF SendRefused, Answer
  <2>2. UNCHANGED <<shards, lock, exist, content, task, shown, queue, closer, left>> /\ at[r] = "send"
    BY DEF SendRefused, registryVars, fileVars, shardVars, closerVars
  <2>3. TypeOK'
    BY <2>1, <2>2 DEF IInv, TypeOK, LockHeld
  <2>4. Ownership'
    BY <2>1, <2>2 DEF IInv, TypeOK, Ownership
  <2>5. Contents'
    <3>1. \A q \in Requests : result'[q] = "ok" => result[q] = "ok"
      BY <2>1 DEF IInv, TypeOK
    <3>2. \A q \in Requests : at'[q] # "done" => at'[q] = at[q]
      BY <2>1 DEF IInv, TypeOK
    <3>3. \A q \in Requests : MustSee(q)' = MustSee(q)
      BY <2>1 DEF MustSee
    <3> QED
      BY <2>2, <3>1, <3>2, <3>3 DEF IInv, Contents
  <2>6. Seen'
    <3>1. \A q \in Requests : result'[q] = "ok" => q # r /\ result[q] = "ok" /\ found'[q] = found[q]
      BY <2>1 DEF IInv, TypeOK
    <3>2. \A q \in Requests : MustSee(q)' = MustSee(q)
      BY <2>1 DEF MustSee
    <3> QED
      BY <3>1, <3>2 DEF IInv, Seen
  <2> QED
    BY <2>3, <2>4, <2>5, <2>6 DEF IInv
<1> QED
  BY <1>1, <1>2

(* Queueing an operation changes neither files nor views.                   *)
LEMMA Keeps_Send == ASSUME NEW r \in Requests, IInv, Send(r) PROVE IInv'
<1>1. LockHeld'
  BY LockKept DEF Send, Goes, registryVars, IInv
<1>2. TypeOK'
  BY <1>1, TenantAssumption DEF Send, Goes, registryVars, fileVars, closerVars, IInv, TypeOK, Ownership
<1>3. Ownership'
  BY TenantAssumption DEF Send, Goes, registryVars, fileVars, closerVars, IInv, TypeOK, LockHeld, Ownership
<1>4. Contents'
  BY TenantAssumption DEF Send, Goes, registryVars, fileVars, closerVars, IInv, TypeOK, Ownership, Contents, MustSee, Mutates
<1>5. Seen'
  BY TenantAssumption DEF Send, Goes, registryVars, fileVars, closerVars, IInv, TypeOK, Ownership, Contents, Seen, MustSee, Mutates
<1> QED
  BY <1>2, <1>3, <1>4, <1>5 DEF IInv

(* A commit reaches the files and the view of the shard that owns them.     *)
LEMMA Keeps_Commit == ASSUME NEW r \in Requests, IInv, Commit(r) PROVE IInv'
<1> DEFINE n == handle[r]
           t == TenantOf[r]
           w == Written(r)
<1>1. n \in Requests /\ task[n] = "running" /\ TenantOf[n] = t /\ t \in Tenants
  <2>1. at[r] = "queued" /\ TenantOf[r] \in Tenants
    BY TenantAssumption DEF Commit
  <2> QED
    BY <2>1 DEF IInv, Ownership
<1>2. w \subseteq Requests /\ (Mutates(r) => r \in w) /\ at[r] = "queued"
  BY DEF Written, Commit
<1>3. content' = [content EXCEPT ![t] = @ \cup w] /\ shown' = [shown EXCEPT ![n] = @ \cup w]
  BY DEF Commit
<1>4. at' = [at EXCEPT ![r] = "done"] /\ result' = [result EXCEPT ![r] = "ok"]
      /\ found' = [found EXCEPT ![r] = shown[n]] /\ queue' = [queue EXCEPT ![n] = @ \ {r}]
  BY DEF Commit, Answer
<1>5. UNCHANGED <<shards, lock, exist, task, handle, acked, closer, left>>
  BY DEF Commit, Answer, registryVars, closerVars
<1>6. shown[n] = content[t] /\ exist[t]
  BY <1>1 DEF IInv, Contents
<1> HIDE DEF n, t, w
<1>7. TypeOK'
  <2>1. content' \in [Tenants -> SUBSET (Requests \cup {Earlier})]
    BY <1>1, <1>2, <1>3 DEF IInv, TypeOK
  <2>2. shown' \in [Requests -> SUBSET (Requests \cup {Earlier})]
    BY <1>1, <1>2, <1>3 DEF IInv, TypeOK
  <2>3. queue' \in [Requests -> SUBSET Requests]
    BY <1>1, <1>4 DEF IInv, TypeOK
  <2>4. found' \in [Requests -> SUBSET (Requests \cup {Earlier})]
    BY <1>1, <1>4 DEF IInv, TypeOK
  <2>5. LockHeld'
    BY <1>2, <1>4, <1>5, LockKept DEF IInv
  <2> QED
    BY <1>4, <1>5, <2>1, <2>2, <2>3, <2>4, <2>5 DEF IInv, TypeOK
<1>8. Ownership'
  <2>1. \A q \in Requests : at'[q] # "done" => at'[q] = at[q]
    BY <1>4 DEF IInv, TypeOK
  <2>2. \A q \in Requests : task[q] = "opening" => at'[q] = "opening"
    BY <1>2, <1>4 DEF IInv, TypeOK, Ownership
  <2> QED
    BY <1>5, <2>1, <2>2 DEF IInv, TypeOK, Ownership
<1>9. Contents'
  <2>1. \A q \in Requests : task[q] = "running" => shown'[q] = content'[TenantOf[q]]
    <3>1. \A q \in Requests : task[q] = "running" /\ TenantOf[q] = t => q = n
      BY <1>1 DEF IInv, Ownership
    <3> QED
      BY <1>1, <1>3, <1>6, <3>1, TenantAssumption DEF IInv, TypeOK, Contents
  <2>2. \A u \in Tenants : content[u] \subseteq content'[u]
    BY <1>3 DEF IInv, TypeOK
  <2>3. \A q \in Requests : Mutates(q) /\ result'[q] = "ok" => q \in content'[TenantOf[q]]
    BY <1>1, <1>2, <1>3, <1>4, <2>2, TenantAssumption DEF IInv, TypeOK, Contents, t
  <2>4. \A q \in Requests : MustSee(q)' \subseteq content'[TenantOf[q]]
    BY <1>5, <2>2, TenantAssumption DEF IInv, Contents, MustSee
  <2>5. \A u \in Tenants : content'[u] # {} => exist'[u]
    BY <1>1, <1>3, <1>5, <1>6 DEF IInv, TypeOK, Contents
  <2>6. \A q \in Requests : at'[q] # "done" => at'[q] = at[q] /\ result'[q] = result[q]
    BY <1>4 DEF IInv, TypeOK
  <2> QED
    BY <1>5, <2>1, <2>3, <2>4, <2>5, <2>6 DEF IInv, Contents
<1>10. Seen'
  <2>1. MustSee(r) \subseteq shown[n]
    BY <1>6 DEF IInv, Contents, t
  <2> QED
    BY <1>4, <1>5, <2>1 DEF IInv, TypeOK, Seen, MustSee
<1> QED
  BY <1>7, <1>8, <1>9, <1>10 DEF IInv

(* A call of shutdown that waits for the lock has changed nothing yet.      *)
LEMMA Keeps_shutdown == ASSUME NEW c \in Closers, IInv, shutdown(c) PROVE IInv'
<1>1. UNCHANGED <<shards, lock, exist, content, task, shown, queue, at, handle, result, found, acked, left>>
  BY DEF shutdown, registryVars, fileVars, shardVars, callVars
<1>2. TypeOK'
  BY <1>1 DEF shutdown, IInv, TypeOK, LockHeld
<1> QED
  BY <1>1, <1>2 DEF IInv, Ownership, Contents, Seen, MustSee

(* What a shutdown has begun is not taken back.                             *)
CloserType == closer \in [Closers -> {"idle", "called", "closing", "returned"}]

(* The service served before every step after which it does.                *)
LEMMA ServedBefore == ASSUME CloserType, [Next]_vars PROVE CloserType' /\ (Serving' => Serving)
<1>1. CASE closer' = closer
  BY <1>1 DEF CloserType, Serving
<1>2. ASSUME NEW c \in Closers, NEW to \in {"called", "closing", "returned"},
             closer' = [closer EXCEPT ![c] = to], to = "called" => closer[c] = "idle"
      PROVE  CloserType' /\ (Serving' => Serving)
  BY <1>2 DEF CloserType, Serving
<1>3. ASSUME NEW c \in Closers, shutdown(c) \/ Close(c) PROVE CloserType' /\ (Serving' => Serving)
  BY <1>1, <1>2, <1>3 DEF shutdown, Close, ShutdownTakes, ShutdownReturns, ShutdownCloses
<1>4. ASSUME NEW r \in Requests, execute_request(r) \/ Step(r) \/ CoordinatorStops(r) PROVE closer' = closer
  BY <1>4 DEF execute_request, Step, open_shard, read_shard, LockRegistry, OpenFound, OpenRefused, OpenBegins,
              OpenDone, OpenFails, ReadView, SendRefused, Send, Commit, CoordinatorStops, closerVars
<1>5. CASE UNCHANGED vars
  BY <1>1, <1>5 DEF vars, closerVars
<1> QED
  BY <1>1, <1>3, <1>4, <1>5 DEF Next

(* A step that leaves the registry to the requests keeps the invariant.     *)
LEMMA NextInv == ASSUME Serving', IInv, [Next]_vars PROVE IInv'
<1>1. CASE UNCHANGED vars
  BY <1>1 DEF vars, registryVars, fileVars, shardVars, callVars, closerVars, IInv, TypeOK, LockHeld, Ownership, Contents, Seen, MustSee
<1>2. ASSUME NEW r \in Requests, execute_request(r) \/ Step(r) PROVE IInv'
  BY <1>2, Keeps_execute_request, Keeps_read_shard, Keeps_LockRegistry, Keeps_OpenFound,
     Keeps_OpenRefused, Keeps_OpenBegins, Keeps_OpenDone, Keeps_OpenFails, Keeps_ReadView, Keeps_SendRefused,
     Keeps_Send, Keeps_Commit
     DEF Step, open_shard
<1>3. ASSUME NEW r \in Requests PROVE ~ CoordinatorStops(r)
  BY DEF CoordinatorStops, IInv, Ownership
<1>4. ASSUME NEW c \in Closers PROVE ~ Close(c)
  <2>1. CloserType /\ Serving /\ closer[c] # "closing"
    BY ServedBefore DEF IInv, TypeOK, CloserType, Serving
  <2>2. ~ ShutdownTakes(c)
    BY <2>1 DEF ShutdownTakes, CloserType, Serving
  <2> QED
    BY <2>1, <2>2 DEF Close, ShutdownReturns, ShutdownCloses
<1> QED
  BY <1>1, <1>2, <1>3, <1>4, Keeps_shutdown DEF Next

(* The invariant holds until a shutdown empties the registry.               *)
LEMMA WhileServing == Spec => [](Serving => IInv)
<1>1. Init => CloserType /\ (Serving => IInv)
  BY InitInv DEF Init, CloserType
<1>2. ASSUME CloserType /\ (Serving => IInv), [Next]_vars PROVE (CloserType /\ (Serving => IInv))'
  BY <1>2, ServedBefore, NextInv
<1> QED
  BY <1>1, <1>2, PTL DEF Spec

(* Until a shutdown empties the registry, no two coordinators own the same  *)
(* files, whatever requests race to open them.                              *)
THEOREM OneCoordinator == Spec => []OneCoordinatorPerFile
<1>1. (Serving => IInv) => OneCoordinatorPerFile
  BY TenantAssumption DEF IInv, TypeOK, LockHeld, Ownership, OneCoordinatorPerFile, Alive
<1> QED
  BY WhileServing, <1>1, PTL

(* Until a shutdown empties the registry, an answered request has seen      *)
(* every write of its tenant acknowledged before it began and what an       *)
(* earlier process stored.                                                  *)
THEOREM Sees == Spec => []SeesAcknowledged
<1>1. (Serving => IInv) => SeesAcknowledged
  BY DEF IInv, Seen, MustSee, SeesAcknowledged
<1> QED
  BY WhileServing, <1>1, PTL

-----------------------------------------------------------------------------
(* Reads create nothing, with any number of shutdowns.                      *)

(* A request without mutations asks for the lock only once files exist.     *)
Places == {"idle", "look", "lock", "open", "opening", "send", "queued", "done"}
ReadersInv ==
  /\ at \in [Requests -> Places] /\ exist \in [Tenants -> BOOLEAN] /\ DOMAIN task = Requests
  /\ \A r \in Requests : at[r] \in {"lock", "open"} /\ ~ Mutates(r) => exist[TenantOf[r]]
  /\ ReadsCreateNothing

(* The steps that create no files keep it when they stop no opened shard    *)
(* from counting and send no reader to the lock.                            *)
LEMMA ReadersKept ==
  ASSUME ReadersInv, UNCHANGED exist, at' \in [Requests -> Places], DOMAIN task' = Requests,
         \A n \in Requests : task[n] # "none" => task'[n] # "none",
         \A r \in Requests : at'[r] \in {"lock", "open"} /\ ~ Mutates(r) =>
           at[r] \in {"lock", "open"} \/ exist[TenantOf[r]]
  PROVE  ReadersInv'
<1>1. ReadsCreateNothing'
  BY DEF ReadersInv, ReadsCreateNothing
<1>2. \A r \in Requests : at'[r] \in {"lock", "open"} /\ ~ Mutates(r) => exist'[TenantOf[r]]
  BY DEF ReadersInv
<1> QED
  BY <1>1, <1>2 DEF ReadersInv

(* Every step of the service keeps it: only open_shard creates files, and   *)
(* it does so for a write or where they exist.                              *)
LEMMA ReadersNext == ASSUME ReadersInv, [Next]_vars PROVE ReadersInv'
<1> USE DEF Places
<1>1. CASE UNCHANGED vars
  BY <1>1, ReadersKept DEF vars, fileVars, shardVars, callVars, ReadersInv
<1>2. ASSUME NEW r \in Requests, execute_request(r) PROVE ReadersInv'
  BY <1>2, ReadersKept DEF execute_request, fileVars, shardVars, Mutates, ReadersInv
<1>3. ASSUME NEW r \in Requests, read_shard(r) PROVE ReadersInv'
  <2>1. CASE exist[TenantOf[r]]
    BY <1>3, <2>1, ReadersKept DEF read_shard, Goes, fileVars, shardVars, ReadersInv
  <2>2. CASE ~ exist[TenantOf[r]]
    <3>1. at' = [at EXCEPT ![r] = "done"] /\ UNCHANGED <<exist, task>>
      BY <1>3, <2>2 DEF read_shard, Answer, fileVars, shardVars
    <3> QED
      BY <3>1, ReadersKept DEF ReadersInv
  <2> QED
    BY <2>1, <2>2
<1>4. ASSUME NEW r \in Requests, LockRegistry(r) PROVE ReadersInv'
  BY <1>4, ReadersKept DEF LockRegistry, Goes, fileVars, shardVars, ReadersInv
<1>5. ASSUME NEW r \in Requests, OpenFound(r) PROVE ReadersInv'
  BY <1>5, ReadersKept DEF OpenFound, GivenShard, fileVars, shardVars, ReadersInv
<1>6. ASSUME NEW r \in Requests, OpenRefused(r) PROVE ReadersInv'
  <2>1. at' = [at EXCEPT ![r] = "done"] /\ UNCHANGED <<exist, task>>
    BY <1>6 DEF OpenRefused, Answer, fileVars, shardVars
  <2> QED
    BY <2>1, ReadersKept DEF ReadersInv
<1>7. ASSUME NEW r \in Requests, OpenBegins(r) PROVE ReadersInv'
  <2>1. exist' = [exist EXCEPT ![TenantOf[r]] = TRUE] /\ task' = [task EXCEPT ![r] = "opening"]
        /\ at' = [at EXCEPT ![r] = "opening"] /\ at[r] = "open"
    BY <1>7 DEF OpenBegins, Goes
  <2>2. \A t \in Tenants : t # TenantOf[r] => exist'[t] = exist[t]
    BY <2>1 DEF ReadersInv
  <2>3. \A n \in Requests : task[n] # "none" => task'[n] # "none"
    BY <2>1 DEF ReadersInv
  <2>4. task'[r] # "none" /\ TenantOf[r] \in Tenants /\ exist'[TenantOf[r]]
    BY <2>1, TenantAssumption DEF ReadersInv
  <2>5. Mutates(r) \/ exist[TenantOf[r]]
    BY <2>1 DEF ReadersInv
  <2>6. ReadsCreateNothing'
    BY <2>2, <2>3, <2>4, <2>5 DEF ReadersInv, ReadsCreateNothing
  <2>7. \A q \in Requests : at'[q] \in {"lock", "open"} /\ ~ Mutates(q) => exist'[TenantOf[q]]
    <3>1. \A q \in Requests : at'[q] \in {"lock", "open"} => at[q] = at'[q]
      BY <2>1 DEF ReadersInv
    <3> QED
      BY <2>2, <2>4, <3>1, TenantAssumption DEF ReadersInv
  <2>8. at' \in [Requests -> Places] /\ exist' \in [Tenants -> BOOLEAN] /\ DOMAIN task' = Requests
    BY <2>1 DEF ReadersInv
  <2> QED
    BY <2>6, <2>7, <2>8 DEF ReadersInv
<1>8. ASSUME NEW r \in Requests, OpenDone(r) PROVE ReadersInv'
  BY <1>8, ReadersKept DEF OpenDone, GivenShard, fileVars, ReadersInv
<1>9. ASSUME NEW r \in Requests, OpenFails(r) PROVE ReadersInv'
  BY <1>9, ReadersKept DEF OpenFails, Answer, fileVars, ReadersInv
<1>10. ASSUME NEW r \in Requests, ReadView(r) PROVE ReadersInv'
  <2>1. at' = [at EXCEPT ![r] = "done"] /\ UNCHANGED <<exist, task>>
    BY <1>10 DEF ReadView, Answer, fileVars, shardVars
  <2> QED
    BY <2>1, ReadersKept DEF ReadersInv
<1>11. ASSUME NEW r \in Requests, SendRefused(r) PROVE ReadersInv'
  <2>1. at' = [at EXCEPT ![r] = "done"] /\ UNCHANGED <<exist, task>>
    BY <1>11 DEF SendRefused, Answer, fileVars, shardVars
  <2> QED
    BY <2>1, ReadersKept DEF ReadersInv
<1>12. ASSUME NEW r \in Requests, Send(r) PROVE ReadersInv'
  BY <1>12, ReadersKept DEF Send, Goes, fileVars, ReadersInv
<1>13. ASSUME NEW r \in Requests, Commit(r) PROVE ReadersInv'
  BY <1>13, ReadersKept DEF Commit, Answer, ReadersInv
<1>14. ASSUME NEW r \in Requests, CoordinatorStops(r) PROVE ReadersInv'
  BY <1>14, ReadersKept DEF CoordinatorStops, fileVars, ReadersInv
<1>15. ASSUME NEW c \in Closers, shutdown(c) \/ Close(c) PROVE ReadersInv'
  <2>1. UNCHANGED <<at, exist>> /\ (UNCHANGED task \/ \E n \in Requests : task' = [task EXCEPT ![n] = "closing"])
    BY <1>15 DEF shutdown, Close, ShutdownTakes, ShutdownReturns, ShutdownCloses, fileVars, shardVars, callVars
  <2> QED
    BY <2>1, ReadersKept DEF ReadersInv
<1> QED
  BY <1>1, <1>2, <1>3, <1>4, <1>5, <1>6, <1>7, <1>8, <1>9, <1>10, <1>11, <1>12, <1>13, <1>14, <1>15 DEF Next, Step, open_shard

(* No request without mutations ever creates files: those of a tenant that  *)
(* had none were created by a write that opened its shard.                  *)
THEOREM ReadsOnly == Spec => []ReadsCreateNothing
<1>1. ASSUME Init PROVE ReadersInv
  <2>1. exist = [t \in Tenants |-> t \in Stored] /\ exist \in [Tenants -> BOOLEAN]
    BY <1>1 DEF Init
  <2>2. ReadsCreateNothing
    BY <2>1 DEF ReadsCreateNothing
  <2>3. at = [r \in Requests |-> "idle"] /\ DOMAIN task = Requests
    BY <1>1 DEF Init
  <2> QED
    BY <2>1, <2>2, <2>3 DEF ReadersInv, Places
<1>2. ReadersInv => ReadsCreateNothing
  BY DEF ReadersInv
<1> QED
  BY <1>1, <1>2, ReadersNext, PTL DEF Spec

-----------------------------------------------------------------------------
(* Shutdown releases what it takes, with any number of shutdowns.           *)

(* A coordinator that runs or closes is registered, or a shutdown that has  *)
(* not returned still has to close it; one that is being opened has no      *)
(* entry yet and the lock is held for it.                                   *)
ReleaseInv ==
  /\ shards \in [Tenants -> Requests \cup {NoShard}]
  /\ task \in [Requests -> {"none", "opening", "running", "closing", "stopped"}]
  /\ at \in [Requests -> Places] /\ queue \in [Requests -> SUBSET Requests]
  /\ handle \in [Requests -> Requests \cup {NoShard}]
  /\ closer \in [Closers -> {"idle", "called", "closing", "returned"}]
  /\ left \in [Closers -> SUBSET Requests]
  /\ LockHeld
  /\ \A r, n \in Requests : r \in queue[n] => at[r] = "queued" /\ handle[r] = n
  /\ \A n \in Requests : task[n] = "opening" => at[n] = "opening"
  /\ \A n \in Requests : at[n] = "opening" => shards[TenantOf[n]] = NoShard
  /\ \A n \in Requests : task[n] \in {"running", "closing"} =>
       shards[TenantOf[n]] = n \/ \E c \in Closers : closer[c] = "closing" /\ n \in left[c]

(* Who waits for the lock, holds it, or moves outside it.                   *)
LEMMA LockMoves ==
  ASSUME ReleaseInv, NEW r \in Requests, NEW place \in Places, at' = [at EXCEPT ![r] = place]
  PROVE  /\ at[r] \notin {"open", "opening"} /\ place \notin {"open", "opening"} /\ lock' = lock => LockHeld'
         /\ at[r] \in {"open", "opening"} /\ place \notin {"open", "opening"} /\ lock' = Free => LockHeld'
         /\ at[r] = "lock" /\ place = "open" /\ lock = Free /\ lock' = r => LockHeld'
         /\ at[r] = "open" /\ place = "opening" /\ lock' = lock => LockHeld'
<1>1. \A q \in Requests : at'[q] = IF q = r THEN place ELSE at[q]
  BY DEF ReleaseInv
<1> QED
  BY <1>1, TenantAssumption DEF ReleaseInv, LockHeld

(* A request that finds, is refused, reads, queues or is committed.         *)
LEMMA ReleaseRequest ==
  ASSUME ReleaseInv, NEW r \in Requests,
         \/ execute_request(r) \/ read_shard(r) \/ LockRegistry(r) \/ OpenFound(r) \/ OpenRefused(r)
         \/ ReadView(r) \/ SendRefused(r) \/ Send(r) \/ Commit(r)
  PROVE  ReleaseInv'
<1> USE DEF Places
<1>1. \A n \in Requests : r \in queue[n] => at[r] = "queued" /\ handle[r] = n
  BY DEF ReleaseInv
<1>t. /\ shards \in [Tenants -> Requests \cup {NoShard}] /\ queue \in [Requests -> SUBSET Requests]
      /\ at \in [Requests -> Places] /\ handle \in [Requests -> Requests \cup {NoShard}]
  BY DEF ReleaseInv
<1>2. ASSUME at[r] # "queued", NEW place \in Places \ {"opening", "queued"}, at[r] # "opening",
             at' = [at EXCEPT ![r] = place], UNCHANGED <<shards, task, closer, left, queue>>, LockHeld',
             handle' \in [Requests -> Requests \cup {NoShard}], \A q \in Requests : q # r => handle'[q] = handle[q]
      PROVE  ReleaseInv'
  <2>1. \A q, n \in Requests : q \in queue[n] => q # r /\ handle'[q] = n
    BY <1>1, <1>2 DEF ReleaseInv
  <2>2. \A q \in Requests : at'[q] = IF q = r THEN place ELSE at[q]
    BY <1>2, <1>t
  <2>3. at' \in [Requests -> Places]
    BY <1>2, <1>t
  <2>4. \A q \in Requests : at'[q] = "opening" <=> at[q] = "opening"
    BY <1>2, <2>2
  <2>5. \A q, n \in Requests : q \in queue[n] => at'[q] = "queued"
    BY <2>1, <2>2 DEF ReleaseInv
  <2> HIDE DEF Places
  <2> QED
    BY <1>2, <2>1, <2>3, <2>4, <2>5 DEF ReleaseInv
<1>3. CASE execute_request(r)
  <2>1. PICK place \in {"lock", "look"} : at' = [at EXCEPT ![r] = place]
    BY <1>3 DEF execute_request
  <2>2. at[r] = "idle" /\ UNCHANGED <<shards, lock, task, closer, left, queue, handle>>
    BY <1>3 DEF execute_request, registryVars, shardVars, closerVars
  <2>3. LockHeld'
    BY <2>1, <2>2, LockMoves
  <2> QED
    BY <1>2, <2>1, <2>2, <2>3 DEF ReleaseInv
<1>4. CASE read_shard(r)
  <2>1. PICK place \in {"lock", "done"} : at' = [at EXCEPT ![r] = place]
    BY <1>4 DEF read_shard, Goes, Answer
  <2>2. at[r] = "look" /\ UNCHANGED <<shards, lock, task, closer, left, queue, handle>>
    BY <1>4 DEF read_shard, Goes, Answer, registryVars, shardVars, closerVars
  <2>3. LockHeld'
    BY <2>1, <2>2, LockMoves
  <2> QED
    BY <1>2, <2>1, <2>2, <2>3 DEF ReleaseInv
<1>5. CASE LockRegistry(r)
  <2>1. at[r] = "lock" /\ at' = [at EXCEPT ![r] = "open"] /\ lock = Free /\ lock' = r
        /\ UNCHANGED <<shards, task, closer, left, queue, handle>>
    BY <1>5 DEF LockRegistry, Goes, shardVars, closerVars
  <2>2. LockHeld'
    BY <2>1, LockMoves
  <2> QED
    BY <1>2, <2>1, <2>2 DEF ReleaseInv
<1>6. CASE OpenFound(r)
  <2>1. at[r] = "open" /\ at' = [at EXCEPT ![r] = "send"] /\ lock' = Free
        /\ UNCHANGED <<shards, task, closer, left, queue>>
    BY <1>6 DEF OpenFound, GivenShard, shardVars, closerVars
  <2>2. handle' = [handle EXCEPT ![r] = shards[TenantOf[r]]]
    BY <1>6 DEF OpenFound, GivenShard
  <2>3. handle' \in [Requests -> Requests \cup {NoShard}] /\ \A q \in Requests : q # r => handle'[q] = handle[q]
    BY <1>t, <2>2, TenantAssumption
  <2>4. LockHeld'
    BY <2>1, LockMoves
  <2> QED
    BY <1>2, <2>1, <2>3, <2>4
<1>7. CASE OpenRefused(r)
  <2>1. at[r] = "open" /\ at' = [at EXCEPT ![r] = "done"] /\ lock' = Free
        /\ UNCHANGED <<shards, task, closer, left, queue, handle>>
    BY <1>7 DEF OpenRefused, Answer, shardVars, closerVars
  <2>2. LockHeld'
    BY <2>1, LockMoves
  <2> QED
    BY <1>2, <2>1, <2>2 DEF ReleaseInv
<1>8. CASE ReadView(r) \/ SendRefused(r)
  <2>1. at[r] = "send" /\ at' = [at EXCEPT ![r] = "done"]
        /\ UNCHANGED <<shards, lock, task, closer, left, queue, handle>>
    BY <1>8 DEF ReadView, SendRefused, Answer, registryVars, shardVars, closerVars
  <2>2. LockHeld'
    BY <2>1, LockMoves
  <2> QED
    BY <1>2, <2>1, <2>2 DEF ReleaseInv
<1>9. CASE Send(r)
  <2>1. at[r] = "send" /\ at' = [at EXCEPT ![r] = "queued"] /\ UNCHANGED <<shards, lock, task, closer, left, handle>>
    BY <1>9 DEF Send, Goes, registryVars, closerVars
  <2>2. queue' = [queue EXCEPT ![handle[r]] = @ \cup {r}]
    BY <1>9 DEF Send
  <2>3. \A q, n \in Requests : q \in queue'[n] => (q = r /\ n = handle[r]) \/ (q # r /\ q \in queue[n])
    <3>1. \A q, n \in Requests : q \in queue'[n] => (q = r /\ n = handle[r]) \/ q \in queue[n]
      BY <1>t, <2>2
    <3>2. \A n \in Requests : r \notin queue[n]
      BY <1>1, <2>1
    <3> QED
      BY <3>1, <3>2
  <2>4. queue' \in [Requests -> SUBSET Requests]
    BY <1>t, <2>2
  <2>5. LockHeld'
    BY <2>1, LockMoves
  <2> QED
    <3>1. at' \in [Requests -> Places] /\ \A q \in Requests : at'[q] = IF q = r THEN "queued" ELSE at[q]
      BY <1>t, <2>1
    <3>2. \A q \in Requests : at'[q] = "opening" <=> at[q] = "opening"
      BY <2>1, <3>1
    <3>a. \A q, n \in Requests : q \in queue[n] => at[q] = "queued" /\ handle[q] = n
      BY DEF ReleaseInv
    <3>3. \A q, n \in Requests : q \in queue'[n] => at'[q] = "queued" /\ handle'[q] = n
      BY <2>1, <2>3, <3>1, <3>a
    <3>4. UNCHANGED <<shards, task, closer, left, handle>>
      BY <2>1
    <3>5. \A n \in Requests : task'[n] = "opening" => at'[n] = "opening"
      BY <3>2, <3>4 DEF ReleaseInv
    <3>6. \A n \in Requests : at'[n] = "opening" => shards'[TenantOf[n]] = NoShard
      BY <3>2, <3>4 DEF ReleaseInv
    <3>7. \A n \in Requests : task'[n] \in {"running", "closing"} =>
            shards'[TenantOf[n]] = n \/ \E c \in Closers : closer'[c] = "closing" /\ n \in left'[c]
      BY <3>4 DEF ReleaseInv
    <3>8. /\ shards' \in [Tenants -> Requests \cup {NoShard}] /\ handle' \in [Requests -> Requests \cup {NoShard}]
          /\ task' \in [Requests -> {"none", "opening", "running", "closing", "stopped"}]
          /\ closer' \in [Closers -> {"idle", "called", "closing", "returned"}]
          /\ left' \in [Closers -> SUBSET Requests]
      BY <3>4 DEF ReleaseInv
    <3> HIDE DEF Places
    <3> QED
      BY <2>4, <2>5, <3>1, <3>3, <3>5, <3>6, <3>7, <3>8 DEF ReleaseInv
<1>10. CASE Commit(r)
  <2>1. at[r] = "queued" /\ at' = [at EXCEPT ![r] = "done"] /\ UNCHANGED <<shards, lock, task, closer, left, handle>>
    BY <1>10 DEF Commit, Answer, registryVars, closerVars
  <2>2. queue' = [queue EXCEPT ![handle[r]] = @ \ {r}]
    BY <1>10 DEF Commit
  <2>3. \A q, n \in Requests : q \in queue'[n] => q # r /\ q \in queue[n]
    BY <1>1, <2>2 DEF ReleaseInv
  <2>4. queue' \in [Requests -> SUBSET Requests]
    BY <1>t, <2>2
  <2>5. LockHeld'
    BY <2>1, LockMoves
  <2> QED
    <3>1. at' \in [Requests -> Places] /\ \A q \in Requests : at'[q] = IF q = r THEN "done" ELSE at[q]
      BY <1>t, <2>1
    <3>2. \A q \in Requests : at'[q] = "opening" <=> at[q] = "opening"
      BY <2>1, <3>1
    <3>a. \A q, n \in Requests : q \in queue[n] => at[q] = "queued" /\ handle[q] = n
      BY DEF ReleaseInv
    <3>3. \A q, n \in Requests : q \in queue'[n] => at'[q] = "queued" /\ handle'[q] = n
      BY <2>1, <2>3, <3>1, <3>a
    <3>4. UNCHANGED <<shards, task, closer, left, handle>>
      BY <2>1
    <3>5. \A n \in Requests : task'[n] = "opening" => at'[n] = "opening"
      BY <3>2, <3>4 DEF ReleaseInv
    <3>6. \A n \in Requests : at'[n] = "opening" => shards'[TenantOf[n]] = NoShard
      BY <3>2, <3>4 DEF ReleaseInv
    <3>7. \A n \in Requests : task'[n] \in {"running", "closing"} =>
            shards'[TenantOf[n]] = n \/ \E c \in Closers : closer'[c] = "closing" /\ n \in left'[c]
      BY <3>4 DEF ReleaseInv
    <3>8. /\ shards' \in [Tenants -> Requests \cup {NoShard}] /\ handle' \in [Requests -> Requests \cup {NoShard}]
          /\ task' \in [Requests -> {"none", "opening", "running", "closing", "stopped"}]
          /\ closer' \in [Closers -> {"idle", "called", "closing", "returned"}]
          /\ left' \in [Closers -> SUBSET Requests]
      BY <3>4 DEF ReleaseInv
    <3> HIDE DEF Places
    <3> QED
      BY <2>4, <2>5, <3>1, <3>3, <3>5, <3>6, <3>7, <3>8 DEF ReleaseInv
<1> QED
  BY <1>3, <1>4, <1>5, <1>6, <1>7, <1>8, <1>9, <1>10

(* open_shard: the entry is made once the shard runs, and none was there.   *)
LEMMA ReleaseOpening ==
  ASSUME ReleaseInv, NEW r \in Requests, OpenBegins(r) \/ OpenDone(r) \/ OpenFails(r)
  PROVE  ReleaseInv'
<1> DEFINE t == TenantOf[r]
<1>1. t \in Tenants /\ \A n \in Requests : TenantOf[n] \in Tenants
  BY TenantAssumption
<1>a. at[r] \in {"open", "opening"}
  BY DEF OpenBegins, OpenDone, OpenFails
<1>2. \A q \in Requests : q # r => at[q] # "opening"
  BY <1>a DEF ReleaseInv, LockHeld
<1>3. \A n \in Requests : r \notin queue[n]
  BY <1>a DEF ReleaseInv
<1>4. UNCHANGED <<queue, closer, left>>
  BY DEF OpenBegins, OpenDone, OpenFails, closerVars
<1>t. /\ shards \in [Tenants -> Requests \cup {NoShard}]
      /\ task \in [Requests -> {"none", "opening", "running", "closing", "stopped"}]
      /\ at \in [Requests -> Places] /\ handle \in [Requests -> Requests \cup {NoShard}]
  BY DEF ReleaseInv
<1>5. ASSUME NEW to \in {"opening", "running", "stopped"}, task' = [task EXCEPT ![r] = to],
             NEW place \in Places, at' = [at EXCEPT ![r] = place], LockHeld',
             handle' \in [Requests -> Requests \cup {NoShard}],
             \A q \in Requests : q # r => handle'[q] = handle[q],
             shards' \in [Tenants -> Requests \cup {NoShard}],
             to = "opening" <=> place = "opening",
             place = "opening" => shards'[t] = NoShard,
             to = "running" => shards'[t] = r,
             \A n \in Requests : n # r /\ task[n] \in {"running", "closing"} /\ shards[TenantOf[n]] = n
               => shards'[TenantOf[n]] = n
      PROVE  ReleaseInv'
  <2>a. /\ \A n \in Requests : task'[n] = IF n = r THEN to ELSE task[n]
        /\ task' \in [Requests -> {"none", "opening", "running", "closing", "stopped"}]
    BY <1>t, <1>5
  <2>b. /\ \A n \in Requests : at'[n] = IF n = r THEN place ELSE at[n]
        /\ at' \in [Requests -> Places]
    BY <1>t, <1>5
  <2>1. /\ \A n \in Requests : task'[n] = IF n = r THEN to ELSE task[n]
        /\ \A n \in Requests : at'[n] = IF n = r THEN place ELSE at[n]
        /\ task' \in [Requests -> {"none", "opening", "running", "closing", "stopped"}]
        /\ at' \in [Requests -> Places]
    BY <2>a, <2>b
  <2>c. \A q, n \in Requests : q \in queue[n] => at[q] = "queued" /\ handle[q] = n
    BY DEF ReleaseInv
  <2>2. \A q, n \in Requests : q \in queue'[n] => at'[q] = "queued" /\ handle'[q] = n
    <3>1. queue' = queue /\ \A q \in Requests : q # r => handle'[q] = handle[q] /\ at'[q] = at[q]
      BY <1>4, <1>5, <2>b
    <3> QED
      BY <1>3, <2>c, <3>1
  <2>3. \A n \in Requests : task'[n] = "opening" => at'[n] = "opening"
    BY <1>5, <2>1 DEF ReleaseInv
  <2>4. \A n \in Requests : at'[n] = "opening" => shards'[TenantOf[n]] = NoShard
    BY <1>2, <1>5, <2>1
  <2>5. \A n \in Requests : task'[n] \in {"running", "closing"} =>
          shards'[TenantOf[n]] = n \/ \E c \in Closers : closer'[c] = "closing" /\ n \in left'[c]
    <3>1. \A n \in Requests : n # r /\ task[n] \in {"running", "closing"} =>
            shards'[TenantOf[n]] = n \/ \E c \in Closers : closer[c] = "closing" /\ n \in left[c]
      BY <1>5 DEF ReleaseInv
    <3> QED
      BY <1>4, <1>5, <2>1, <3>1
  <2> QED
    BY <1>4, <1>5, <2>1, <2>2, <2>3, <2>4, <2>5 DEF ReleaseInv
<1>6. CASE OpenBegins(r)
  <2>1. /\ at[r] = "open" /\ at' = [at EXCEPT ![r] = "opening"] /\ shards[t] = NoShard
        /\ task' = [task EXCEPT ![r] = "opening"] /\ UNCHANGED <<shards, lock, handle>>
    BY <1>6 DEF OpenBegins, Goes, registryVars
  <2>2. LockHeld'
    BY <2>1, LockMoves DEF Places
  <2> QED
    BY <1>t, <1>5, <2>1, <2>2 DEF Places
<1>7. CASE OpenDone(r)
  <2>1. /\ at[r] = "opening" /\ at' = [at EXCEPT ![r] = "send"] /\ lock' = Free
        /\ task' = [task EXCEPT ![r] = "running"] /\ handle' = [handle EXCEPT ![r] = r]
        /\ shards' = [shards EXCEPT ![t] = r]
    BY <1>7 DEF OpenDone, GivenShard
  <2>2. LockHeld'
    BY <2>1, LockMoves DEF Places
  <2>3. shards[t] = NoShard
    BY <2>1 DEF ReleaseInv
  <2>4. \A n \in Requests : shards[TenantOf[n]] = n => shards'[TenantOf[n]] = n
    BY <1>1, <1>t, <2>1, <2>3, TenantAssumption
  <2>5. shards' \in [Tenants -> Requests \cup {NoShard}] /\ shards'[t] = r
    BY <1>1, <1>t, <2>1
  <2>6. handle' \in [Requests -> Requests \cup {NoShard}] /\ \A q \in Requests : q # r => handle'[q] = handle[q]
    BY <1>t, <2>1
  <2> QED
    BY <1>5, <2>1, <2>2, <2>4, <2>5, <2>6 DEF Places
<1>8. CASE OpenFails(r)
  <2>1. /\ at[r] = "opening" /\ at' = [at EXCEPT ![r] = "done"] /\ lock' = Free
        /\ task' = [task EXCEPT ![r] = "stopped"] /\ UNCHANGED <<shards, handle>>
    BY <1>8 DEF OpenFails, Answer
  <2>2. LockHeld'
    BY <2>1, LockMoves DEF Places
  <2> QED
    BY <1>t, <1>5, <2>1, <2>2 DEF Places
<1> QED
  BY <1>6, <1>7, <1>8

(* A stopped coordinator answers its queue and is no longer alive.          *)
LEMMA ReleaseStops == ASSUME ReleaseInv, NEW n \in Requests, CoordinatorStops(n) PROVE ReleaseInv'
<1>1. /\ task' = [task EXCEPT ![n] = "stopped"] /\ queue' = [queue EXCEPT ![n] = {}]
      /\ at' = [r \in Requests |-> IF r \in queue[n] THEN "done" ELSE at[r]]
      /\ UNCHANGED <<shards, lock, handle, closer, left>>
  BY DEF CoordinatorStops, registryVars, closerVars
<1>t. /\ task \in [Requests -> {"none", "opening", "running", "closing", "stopped"}]
      /\ at \in [Requests -> Places] /\ queue \in [Requests -> SUBSET Requests]
      /\ \A r, m \in Requests : r \in queue[m] => at[r] = "queued" /\ handle[r] = m
  BY DEF ReleaseInv
<1>2. /\ task' \in [Requests -> {"none", "opening", "running", "closing", "stopped"}]
      /\ queue' \in [Requests -> SUBSET Requests] /\ at' \in [Requests -> Places]
      /\ \A m \in Requests : task'[m] = IF m = n THEN "stopped" ELSE task[m]
      /\ \A m \in Requests : queue'[m] = IF m = n THEN {} ELSE queue[m]
  BY <1>1, <1>t DEF Places
<1>3. \A r \in Requests : at'[r] = at[r] \/ (at[r] = "queued" /\ at'[r] = "done" /\ r \in queue[n])
  BY <1>1, <1>t
<1>4. LockHeld'
  BY <1>1, <1>3 DEF ReleaseInv, LockHeld
<1>5. \A r, m \in Requests : r \in queue'[m] => at'[r] = "queued" /\ handle'[r] = m
  BY <1>1, <1>t, <1>2, <1>3
<1>6. \A m \in Requests : task'[m] = "opening" => at'[m] = "opening"
  BY <1>2, <1>3 DEF ReleaseInv
<1>7. \A m \in Requests : at'[m] = "opening" => shards'[TenantOf[m]] = NoShard
  BY <1>1, <1>3 DEF ReleaseInv
<1>a. UNCHANGED <<shards, closer, left>>
  BY <1>1
<1>8. \A m \in Requests : task'[m] \in {"running", "closing"} =>
        shards'[TenantOf[m]] = m \/ \E c \in Closers : closer'[c] = "closing" /\ m \in left'[c]
  BY <1>2, <1>a DEF ReleaseInv
<1> QED
  BY <1>1, <1>2, <1>4, <1>5, <1>6, <1>7, <1>8 DEF ReleaseInv

(* shutdown takes every registered shard, closes each and returns when it   *)
(* has seen all of them stopped.                                            *)
LEMMA ReleaseClose == ASSUME ReleaseInv, NEW c \in Closers, shutdown(c) \/ Close(c) PROVE ReleaseInv'
<1>1. UNCHANGED <<lock, queue, at, handle>>
  BY DEF shutdown, Close, ShutdownTakes, ShutdownReturns, ShutdownCloses, registryVars, shardVars, callVars
<1>2. LockHeld' /\ at' \in [Requests -> Places]
      /\ \A r, n \in Requests : r \in queue'[n] => at'[r] = "queued" /\ handle'[r] = n
  BY <1>1 DEF ReleaseInv, LockHeld
<1>t. /\ shards \in [Tenants -> Requests \cup {NoShard}]
      /\ task \in [Requests -> {"none", "opening", "running", "closing", "stopped"}]
      /\ closer \in [Closers -> {"idle", "called", "closing", "returned"}]
      /\ left \in [Closers -> SUBSET Requests] /\ \A n \in Requests : TenantOf[n] \in Tenants
  BY TenantAssumption DEF ReleaseInv
<1>3. ASSUME shards' \in [Tenants -> Requests \cup {NoShard}],
             task' \in [Requests -> {"none", "opening", "running", "closing", "stopped"}],
             closer' \in [Closers -> {"idle", "called", "closing", "returned"}],
             left' \in [Closers -> SUBSET Requests],
             \A n \in Requests : task'[n] = "opening" => task[n] = "opening",
             \A t \in Tenants : shards[t] = NoShard => shards'[t] = NoShard,
             \A n \in Requests : task'[n] \in {"running", "closing"} =>
               shards'[TenantOf[n]] = n \/ \E d \in Closers : closer'[d] = "closing" /\ n \in left'[d]
      PROVE  ReleaseInv'
  BY <1>1, <1>2, <1>3, <1>t DEF ReleaseInv
<1>4. \A n \in Requests : task[n] \in {"running", "closing"} =>
        shards[TenantOf[n]] = n \/ \E d \in Closers : closer[d] = "closing" /\ n \in left[d]
  BY DEF ReleaseInv
<1>5. CASE shutdown(c)
  <2>1. closer[c] = "idle" /\ closer' = [closer EXCEPT ![c] = "called"] /\ UNCHANGED <<shards, task, left>>
    BY <1>5 DEF shutdown, registryVars, shardVars
  <2>2. \A d \in Closers : closer[d] = "closing" => closer'[d] = "closing"
    BY <1>t, <2>1
  <2> QED
    BY <1>t, <1>3, <1>4, <2>1, <2>2
<1>6. CASE ShutdownTakes(c)
  <2>1. /\ closer[c] = "called" /\ closer' = [closer EXCEPT ![c] = "closing"] /\ UNCHANGED task
        /\ left' = [left EXCEPT ![c] = {shards[t] : t \in Open}] /\ shards' = [t \in Tenants |-> NoShard]
    BY <1>6 DEF ShutdownTakes, shardVars
  <2>2. {shards[t] : t \in Open} \subseteq Requests
    BY <1>t DEF Open
  <2>3. closer'[c] = "closing" /\ left'[c] = {shards[t] : t \in Open}
    BY <1>t, <2>1
  <2>4. \A d \in Closers : closer[d] = "closing" => closer'[d] = "closing" /\ left'[d] = left[d]
    BY <1>t, <2>1
  <2>5. \A n \in Requests : shards[TenantOf[n]] = n => n \in left'[c]
    BY <1>t, <2>3, TenantAssumption DEF Open
  <2>6. \A n \in Requests : task'[n] \in {"running", "closing"} =>
          \E d \in Closers : closer'[d] = "closing" /\ n \in left'[d]
    BY <1>4, <2>1, <2>3, <2>4, <2>5
  <2>7. closer' \in [Closers -> {"idle", "called", "closing", "returned"}] /\ left' \in [Closers -> SUBSET Requests]
    BY <1>t, <2>1, <2>2
  <2> QED
    BY <1>t, <1>3, <2>1, <2>6, <2>7
<1>7. ASSUME NEW n \in Requests, ShutdownCloses(c, n) PROVE ReleaseInv'
  <2>1. CASE task[n] = "running"
    <3>1. task' = [task EXCEPT ![n] = "closing"] /\ UNCHANGED <<shards, closer, left>>
      BY <1>7, <2>1 DEF ShutdownCloses, registryVars
    <3>2. \A m \in Requests : task'[m] = IF m = n THEN "closing" ELSE task[m]
      BY <1>t, <3>1
    <3>3. task' \in [Requests -> {"none", "opening", "running", "closing", "stopped"}]
      BY <1>t, <3>1
    <3> QED
      BY <1>t, <1>3, <1>4, <2>1, <3>1, <3>2, <3>3
  <2>2. CASE task[n] = "stopped"
    <3>1. left' = [left EXCEPT ![c] = @ \ {n}] /\ UNCHANGED <<shards, closer, task>>
      BY <1>7, <2>2 DEF ShutdownCloses, registryVars
    <3>2. left' \in [Closers -> SUBSET Requests]
      BY <1>t, <3>1
    <3>3. \A m \in Requests, d \in Closers : m # n /\ m \in left[d] => m \in left'[d]
      BY <1>t, <3>1
    <3> QED
      BY <1>t, <1>3, <1>4, <2>2, <3>1, <3>2, <3>3
  <2> QED
    BY <1>7, <2>1, <2>2 DEF ShutdownCloses
<1>8. CASE ShutdownReturns(c)
  <2>1. left[c] = {} /\ closer' = [closer EXCEPT ![c] = "returned"] /\ UNCHANGED <<shards, task, left>>
    BY <1>8 DEF ShutdownReturns, registryVars, shardVars
  <2>2. \A d \in Closers, n \in Requests : closer[d] = "closing" /\ n \in left[d] => closer'[d] = "closing"
    BY <1>t, <2>1
  <2>3. closer' \in [Closers -> {"idle", "called", "closing", "returned"}]
    BY <1>t, <2>1
  <2> QED
    BY <1>t, <1>3, <1>4, <2>1, <2>2, <2>3
<1> QED
  BY <1>5, <1>6, <1>7, <1>8 DEF Close

(* Nothing a shutdown takes from the registry is left running: once all     *)
(* shutdowns have returned and all requests are answered, a coordinator     *)
(* that still owns files was opened later and is registered, for any number *)
(* of tenants, requests and shutdowns racing each other.                    *)
THEOREM Releases == Spec => []ShutdownReleases
<1>1. ASSUME Init PROVE ReleaseInv
  BY <1>1, TenantAssumption DEF Init, ReleaseInv, LockHeld, Places
<1>2. ASSUME ReleaseInv, [Next]_vars PROVE ReleaseInv'
  <2>1. CASE UNCHANGED vars
    BY <1>2, <2>1 DEF vars, registryVars, shardVars, callVars, closerVars, ReleaseInv, LockHeld
  <2> QED
    BY <1>2, <2>1, ReleaseRequest, ReleaseOpening, ReleaseStops, ReleaseClose DEF Next, Step, open_shard
<1>3. ASSUME ReleaseInv PROVE ShutdownReleases
  BY <1>3 DEF ReleaseInv, ShutdownReleases, Alive
<1> QED
  BY <1>1, <1>2, <1>3, PTL DEF Spec

=============================================================================
