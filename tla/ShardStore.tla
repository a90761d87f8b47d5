----------------------------- MODULE ShardStore -----------------------------
(***************************************************************************)
(* Durability of one dodb shard: the write-ahead log (wal.rs) and the      *)
(* page store on top of it (BTreeStore in btree/mod.rs), with every point  *)
(* at which the process can be killed, the machine can lose power, or a    *)
(* file operation can fail.                                                *)
(*                                                                         *)
(* Page contents are abstracted to the transaction that wrote them and the *)
(* commit LSN stamped into the page header; the tree inside the pages is   *)
(* not modelled here.  A transaction is the set of data pages it changes.  *)
(***************************************************************************)
EXTENDS Integers, Sequences, FiniteSets

CONSTANTS
  MaxPage,      \* highest page id the bounded file can hold
  MaxTx,        \* bound on transactions appended to the WAL
  MaxGroup,     \* bound on transactions in one commit group
  MaxCkpt,      \* bound on checkpoints
  MaxCrash,     \* bound on crashes
  MaxFault,     \* bound on failed file operations
  CrashKinds    \* subset of {"process", "power"}

ASSUME BoundsAssumption ==
  /\ MaxPage \in Nat /\ MaxPage >= 2
  /\ MaxTx \in Nat /\ MaxGroup \in Nat /\ MaxCkpt \in Nat
  /\ MaxCrash \in Nat /\ MaxFault \in Nat
  /\ CrashKinds \subseteq {"process", "power"}

SlotA == 0
SlotB == 1
Slots == {SlotA, SlotB}
FIRST_DATA_PAGE == 2
DataPages == FIRST_DATA_PAGE..MaxPage
PageIds == 0..MaxPage

VARIABLES
  \* the data file: what reads return, what is on stable storage, and for each
  \* page the contents written since the last successful sync
  dfile, ddisk, dpend,
  \* the WAL file: what reads return and what is on stable storage
  wfile, wdisk,
  \* fields of BTreeStore and of its WalLog
  current_superblock, active_slot, dirty_pages, dirty_superblock,
  next_lsn, next_batch_id, history_start_lsn, last_commit, broken,
  \* where the running call is, and its locals
  pc, goal, group, pos, left, hint,
  \* history: the served transactions, those whose outcome is undecided, those
  \* reported as committed, the highest checkpoint LSN that ever was in a
  \* superblock on stable storage, and the counters that keep the model finite
  hist, doubt, acked, next_tx, checkpointed, ckpts, crashes, faults

fileVars == <<dfile, ddisk, dpend>>
walVars == <<wfile, wdisk>>
storeVars == <<current_superblock, active_slot, dirty_pages, dirty_superblock>>
logVars == <<next_lsn, next_batch_id, history_start_lsn, last_commit>>
callVars == <<goal, group, pos, left, hint>>
histVars == <<hist, doubt, acked, next_tx, checkpointed>>
boundVars == <<ckpts, crashes, faults>>
vars == <<fileVars, walVars, storeVars, logVars, broken, pc, callVars,
          histVars, boundVars>>

-----------------------------------------------------------------------------
(* The last element and the rest of a log, and the prefixes of a log. *)
Last(s) == s[Len(s)]
Front(s) == SubSeq(s, 1, Len(s) - 1)
IsPrefix(s, t) == Len(s) <= Len(t) /\ SubSeq(t, 1, Len(s)) = s
Latest(S) == CHOOSE i \in S : \A j \in S : j <= i

(* Contents of a page of the data file. *)

NoPage == [kind |-> "none"]        \* past the end of the file
Garbage == [kind |-> "garbage"]    \* zeros or a torn write: the checksum fails
DataPage(lsn, tx) == [kind |-> "page", lsn |-> lsn, by |-> tx]
Superblock(gen, ckpt, high, tx) ==
  [kind |-> "super", generation |-> gen, checkpoint_lsn |-> ckpt,
   high_water_page_id |-> high, by |-> tx]

FilePages(f) == {p \in PageIds : f[p] # NoPage}
FileLen(f) == Cardinality(FilePages(f))
NothingPending == [p \in PageIds |-> {}]

IsSuper(c) == c.kind = "super"

SelectedSlot(f) ==
  IF IsSuper(f[SlotA]) /\ (IsSuper(f[SlotB]) => f[SlotA].generation >= f[SlotB].generation)
  THEN SlotA
  ELSE SlotB
SomeSuperblock(f) == IsSuper(f[SlotA]) \/ IsSuper(f[SlotB])
choose_superblock(f) == f[SelectedSlot(f)]
(* Faulty variant: the slot number is not wrapped around. *)
MOtherSlot(s) == s + 1
OtherSlot(s) == 1 - s
DurableCheckpoint ==
  IF SomeSuperblock(ddisk) THEN choose_superblock(ddisk).checkpoint_lsn ELSE 0

(* the superblocks of f reach stable storage *)
CheckpointOf(c) == IF IsSuper(c) THEN c.checkpoint_lsn ELSE 0
NoteCheckpoint(f) ==
  checkpointed' = Latest({checkpointed} \cup {CheckpointOf(f[s]) : s \in Slots})

(* write_at of one whole page; set_len to a page count; sync_data. *)
WritePage(p, c) ==
  /\ dfile' = [dfile EXCEPT ![p] = c]
  /\ dpend' = [dpend EXCEPT ![p] = @ \cup {c}]
  /\ UNCHANGED ddisk
ExtendFile(high) ==
  LET new == {p \in 0..high : dfile[p] = NoPage} IN
  /\ dfile' = [p \in PageIds |-> IF p \in new THEN Garbage ELSE dfile[p]]
  /\ dpend' = [p \in PageIds |-> IF p \in new THEN {Garbage} ELSE dpend[p]]
  /\ UNCHANGED ddisk
SyncFile ==
  /\ ddisk' = dfile
  /\ dpend' = NothingPending
  /\ NoteCheckpoint(dfile)
  /\ UNCHANGED dfile
(* Faulty variant: the WAL sync is forgotten. *)
MSyncWal == UNCHANGED walVars
SyncWal ==
  /\ wdisk' = wfile
  /\ UNCHANGED wfile

-----------------------------------------------------------------------------
(* WAL frames and the scan of a WAL file. *)

InitFrame(start) == [type |-> "init", lsn |-> 0, batch |-> 0, start |-> start]
PageFrame(lsn, batch, index, page, image) ==
  [type |-> "page", lsn |-> lsn, batch |-> batch, index |-> index,
   page |-> page, image |-> image]
CommitFrame(lsn, batch, count) ==
  [type |-> "commit", lsn |-> lsn, batch |-> batch, index |-> count]
TornFrame(start) == [type |-> "torn", start |-> start]
Torn(f) == TornFrame(IF f.type \in {"init", "torn"} THEN f.start ELSE 0)

ValidPrefix(w) ==
  IF w # <<>> /\ Last(w).type = "torn" THEN Front(w) ELSE w

(* What scan_wal insists on; otherwise it reports corruption. *)
FollowsInit(w, i) ==
  /\ w[i].type \in {"page", "commit"}
  /\ w[i].lsn > w[i - 1].lsn
  /\ w[i].lsn > w[1].start
ContinuesBatch(w, i) ==
  /\ w[i - 1].type = "page"
  /\ w[i - 1].batch = w[i].batch
  /\ w[i].index = w[i - 1].index + 1
StartsBatch(w, i) ==
  /\ w[i].type = "page"
  /\ w[i].index = 0
  /\ \A j \in 2..(i - 1) : w[j].batch < w[i].batch
ScanAccepts(w) ==
  /\ w # <<>>
  /\ w[1].type = "init"
  /\ \A i \in 2..Len(w) :
       FollowsInit(w, i) /\ (ContinuesBatch(w, i) \/ StartsBatch(w, i))

CommitIndexes(w) == {i \in 1..Len(w) : w[i].type = "commit"}
LastCommitLsn(w) ==
  IF CommitIndexes(w) = {} THEN 0
  ELSE w[Latest(CommitIndexes(w))].lsn
ScannedNextLsn(w) == Last(w).lsn + 1
ScannedNextBatch(w) == Last(w).batch + 1

(* The committed batches recovery replays: those past the checkpoint hint. *)
BatchCommit(w, b) == {i \in CommitIndexes(w) : w[i].batch = b}
Replayable(w, i, ckpt) ==
  /\ w[i].type = "page"
  /\ \E j \in BatchCommit(w, w[i].batch) : w[j].lsn > ckpt
ReplayIndexes(w, ckpt) == {i \in 1..Len(w) : Replayable(w, i, ckpt)}
BatchLsn(w, i) == w[CHOOSE j \in BatchCommit(w, w[i].batch) : TRUE].lsn
(* Faulty variant: a page that does not decode is left as it is. *)
Mshould_write(f, w, i) ==
  w[i].page \in Slots \/ (f[w[i].page].kind = "page" /\ f[w[i].page].lsn < BatchLsn(w, i))
should_write(f, w, i) ==
  \/ w[i].page \in Slots
  \/ f[w[i].page].kind # "page"
  \/ f[w[i].page].lsn < BatchLsn(w, i)

-----------------------------------------------------------------------------
(* What a history of transactions leaves in the pages. *)

Writers(h, p) == {i \in DOMAIN h : p \in h[i].pages}
PageAfter(h, p) ==
  IF Writers(h, p) # {}
  THEN DataPage(h[Latest(Writers(h, p))].lsn, h[Latest(Writers(h, p))].tx)
  ELSE IF p = FIRST_DATA_PAGE THEN DataPage(0, 0) ELSE NoPage
MetadataAfter(h) == IF h = <<>> THEN 0 ELSE Last(h).tx

Holds(h, f, super) ==
  /\ super.by = MetadataAfter(h)
  /\ \A p \in DataPages : f[p] = PageAfter(h, p)

(* The pages as the store serves them: dirty pages hide the file. *)
CommittedPages ==
  [p \in PageIds |-> IF p \in DataPages /\ dirty_pages[p] # NoPage
                     THEN dirty_pages[p] ELSE dfile[p]]

DirtySet == {p \in DataPages : dirty_pages[p] # NoPage}
Clean == DirtySet = {} /\ dirty_superblock = NoPage

OpeningPcs == {"closed", "failed", "wal_open", "wal_init_sync", "wal_torn_sync",
               "wal_tail_sync", "recover", "init", "replay", "finish"}
CallPcs == {"staged", "append", "wal_sync", "flush", "ckpt_super", "ckpt_sync",
            "ckpt_check", "reset_truncate_sync", "reset_init", "reset_sync"}
Serving == pc \notin OpeningPcs

-----------------------------------------------------------------------------
Init ==
  /\ dfile = [p \in PageIds |-> NoPage] /\ ddisk = dfile /\ dpend = NothingPending
  /\ wfile = <<>> /\ wdisk = <<>>
  /\ current_superblock = NoPage /\ active_slot = SlotA
  /\ dirty_pages = [p \in DataPages |-> NoPage] /\ dirty_superblock = NoPage
  /\ next_lsn = 0 /\ next_batch_id = 0 /\ history_start_lsn = 0 /\ last_commit = 0
  /\ broken = FALSE
  /\ pc = "closed" /\ goal = "none" /\ group = <<>> /\ pos = 0 /\ left = {} /\ hint = 0
  /\ hist = <<>> /\ doubt = <<>> /\ acked = {} /\ next_tx = 1 /\ checkpointed = 0
  /\ ckpts = 0 /\ crashes = 0 /\ faults = 0

-----------------------------------------------------------------------------
(* Commit: apply_transaction_group stages the transactions of a group one  *)
(* after the other on one overlay, then publish_prepared_group appends all *)
(* of them to the WAL, syncs once, and installs them in memory.            *)

OverlaySuperblock == IF group = <<>> THEN current_superblock ELSE Last(group).super
OverlaySlot == IF group = <<>> THEN active_slot ELSE Last(group).slot
OverlayNextLsn == IF group = <<>> THEN next_lsn ELSE Last(group).lsn + 1
OverlayNextBatch == IF group = <<>> THEN next_batch_id ELSE Last(group).batch + 1

(* new pages are taken one by one from the high-water mark *)
HighWaterAfter(high, ps) ==
  {m \in DataPages : (FIRST_DATA_PAGE..high) \cup ps = FIRST_DATA_PAGE..m}
Allocatable(high, ps) == HighWaterAfter(high, ps) # {}

(* Faulty variant: the checkpoint LSN is not carried over. *)
Mfinish_transaction(ps) ==
  LET base == OverlaySuperblock
      tx == next_tx + Len(group)
      m == CHOOSE m \in HighWaterAfter(base.high_water_page_id, ps) : TRUE
  IN [tx |-> tx, pages |-> ps, batch |-> OverlayNextBatch,
      lsn |-> OverlayNextLsn + Cardinality(ps) + 1,
      super |-> Superblock(base.generation + 1, 0, m, tx),
      slot |-> OtherSlot(OverlaySlot)]
finish_transaction(ps) ==
  LET base == OverlaySuperblock
      tx == next_tx + Len(group)
      m == CHOOSE m \in HighWaterAfter(base.high_water_page_id, ps) : TRUE
  IN [tx |-> tx, pages |-> ps, batch |-> OverlayNextBatch,
      lsn |-> OverlayNextLsn + Cardinality(ps) + 1,
      super |-> Superblock(base.generation + 1, base.checkpoint_lsn, m, tx),
      slot |-> OtherSlot(OverlaySlot)]

(* the first transaction of all finds only the root leaf, and changes it *)
Stage(ps) ==
  /\ pc \in {"open", "staged"}
  /\ Len(group) < MaxGroup /\ next_tx + Len(group) <= MaxTx
  /\ ps # {} /\ Allocatable(OverlaySuperblock.high_water_page_id, ps)
  /\ OverlaySuperblock.by = 0 => FIRST_DATA_PAGE \in ps
  /\ group' = Append(group, finish_transaction(ps))
  /\ pc' = "staged"
  /\ UNCHANGED <<fileVars, walVars, storeVars, logVars, broken, goal, pos, left,
                 hint, histVars, boundVars>>

(* a degraded shard refuses the group *)
RejectGroup ==
  /\ pc = "staged" /\ broken
  /\ group' = <<>> /\ pc' = "open"
  /\ UNCHANGED <<fileVars, walVars, storeVars, logVars, broken, goal, pos, left,
                 hint, histVars, boundVars>>

BatchPages(c) == c.pages \cup {c.slot}
Image(c, p) == IF p = c.slot THEN c.super ELSE DataPage(c.lsn, c.tx)
Outcome(c) == [tx |-> c.tx, pages |-> c.pages, lsn |-> c.lsn]
Outcomes(g) == [i \in 1..Len(g) |-> Outcome(g[i])]

(* data pages go out in page order, the superblock after them *)
IsNextPage(p, S) ==
  /\ p \in S
  /\ \A q \in S : q \in DataPages => p \in DataPages /\ p <= q

(* Faulty variant: a degraded shard still accepts the group. *)
Mpublish_prepared_group ==
  /\ pc = "staged"
  /\ pc' = "append" /\ pos' = 1 /\ left' = BatchPages(group[1])
  /\ doubt' = Outcomes(group) /\ next_tx' = next_tx + Len(group)
  /\ UNCHANGED <<fileVars, walVars, storeVars, logVars, broken, goal, group, hint,
                 hist, acked, checkpointed, boundVars>>

publish_prepared_group ==
  /\ pc = "staged" /\ ~broken
  /\ pc' = "append" /\ pos' = 1 /\ left' = BatchPages(group[1])
  /\ doubt' = Outcomes(group) /\ next_tx' = next_tx + Len(group)
  /\ UNCHANGED <<fileVars, walVars, storeVars, logVars, broken, goal, group, hint,
                 hist, acked, checkpointed, boundVars>>

AppendPageFrame(p) ==
  /\ pc = "append" /\ IsNextPage(p, left)
  /\ LET c == group[pos]
         written == Cardinality(BatchPages(c)) - Cardinality(left)
     IN wfile' = Append(wfile, PageFrame(c.lsn - Cardinality(left), c.batch, written,
                                         p, Image(c, p)))
  /\ left' = left \ {p}
  /\ UNCHANGED <<fileVars, wdisk, storeVars, logVars, broken, pc, goal, group, pos,
                 hint, histVars, boundVars>>

AppendCommitFrame ==
  /\ pc = "append" /\ left = {}
  /\ LET c == group[pos] IN
     wfile' = Append(wfile, CommitFrame(c.lsn, c.batch, Cardinality(BatchPages(c))))
  /\ IF pos < Len(group)
     THEN pos' = pos + 1 /\ left' = BatchPages(group[pos + 1]) /\ pc' = pc
     ELSE pos' = 0 /\ left' = {} /\ pc' = "wal_sync"
  /\ UNCHANGED <<fileVars, wdisk, storeVars, logVars, broken, goal, group, hint,
                 histVars, boundVars>>

(* The one sync of the group, and the publication that follows it. *)
InstallGroup ==
  /\ current_superblock' = Last(group).super /\ active_slot' = Last(group).slot
  /\ dirty_pages' = [p \in DataPages |->
                       IF Writers(group, p) = {} THEN dirty_pages[p]
                       ELSE DataPage(group[Latest(Writers(group, p))].lsn,
                                     group[Latest(Writers(group, p))].tx)]
  /\ dirty_superblock' = Last(group).super
  /\ next_lsn' = Last(group).lsn + 1 /\ next_batch_id' = Last(group).batch + 1
  /\ last_commit' = Last(group).lsn

SyncAndPublish ==
  /\ pc = "wal_sync"
  /\ SyncWal
  /\ InstallGroup
  /\ pc' = "open" /\ group' = <<>>
  /\ hist' = hist \o doubt /\ doubt' = <<>>
  /\ acked' = acked \cup {group[i].tx : i \in DOMAIN group}
  /\ UNCHANGED <<fileVars, history_start_lsn, broken, goal, pos, left, hint,
                 next_tx, checkpointed, boundVars>>

-----------------------------------------------------------------------------
(* flush_dirty_pages, called by flush, check_invariants and checkpoint. *)

BeginFlush(g) ==
  /\ ExtendFile(current_superblock.high_water_page_id)
  /\ left' = DirtySet \cup (IF dirty_superblock = NoPage THEN {} ELSE {active_slot})
  /\ pc' = "flush" /\ goal' = g

flush ==
  /\ pc = "open"
  /\ IF Clean THEN UNCHANGED <<fileVars, pc, goal, left>> ELSE BeginFlush("flush")
  /\ UNCHANGED <<walVars, storeVars, logVars, broken, group, pos, hint, histVars,
                 boundVars>>

FlushImage(p) == IF p \in Slots THEN dirty_superblock ELSE dirty_pages[p]

FlushPage(p) ==
  /\ pc = "flush" /\ IsNextPage(p, left)
  /\ WritePage(p, FlushImage(p))
  /\ left' = left \ {p}
  /\ UNCHANGED <<walVars, storeVars, logVars, broken, pc, goal, group, pos, hint,
                 histVars, boundVars>>

FlushSync ==
  /\ pc = "flush" /\ left = {}
  /\ SyncFile
  /\ dirty_pages' = [p \in DataPages |-> NoPage] /\ dirty_superblock' = NoPage
  /\ pc' = (IF goal = "checkpoint" THEN "ckpt_super" ELSE "open") /\ goal' = "none"
  /\ UNCHANGED <<walVars, current_superblock, active_slot, logVars, broken, group,
                 pos, left, hint, hist, doubt, acked, next_tx, boundVars>>

-----------------------------------------------------------------------------
(* checkpoint, and the WAL reset it ends with. *)

CheckpointLsn == IF last_commit > 0 THEN last_commit ELSE current_superblock.checkpoint_lsn

checkpoint ==
  /\ pc = "open" /\ ~broken /\ ckpts < MaxCkpt
  /\ CheckpointLsn >= current_superblock.checkpoint_lsn
  /\ ckpts' = ckpts + 1
  /\ IF Clean
     THEN pc' = "ckpt_super" /\ UNCHANGED <<fileVars, goal, left>>
     ELSE BeginFlush("checkpoint")
  /\ UNCHANGED <<walVars, storeVars, logVars, broken, group, pos, hint, histVars,
                 crashes, faults>>

MetadataChanged == CheckpointLsn > current_superblock.checkpoint_lsn
CheckpointSuperblock ==
  Superblock(current_superblock.generation + 1, CheckpointLsn,
             current_superblock.high_water_page_id, current_superblock.by)

CheckpointWrite ==
  /\ pc = "ckpt_super"
  /\ IF MetadataChanged
     THEN WritePage(OtherSlot(active_slot), CheckpointSuperblock) /\ pc' = "ckpt_sync"
     ELSE UNCHANGED fileVars /\ pc' = "ckpt_check"
  /\ UNCHANGED <<walVars, storeVars, logVars, broken, callVars, histVars, boundVars>>

CheckpointSync ==
  /\ pc = "ckpt_sync"
  /\ SyncFile
  /\ current_superblock' = CheckpointSuperblock
  /\ active_slot' = OtherSlot(active_slot)
  /\ pc' = "ckpt_check"
  /\ UNCHANGED <<walVars, dirty_pages, dirty_superblock, logVars, broken, callVars,
                 hist, doubt, acked, next_tx, boundVars>>

PagesCheck(f, super) ==
  /\ FilePages(f) = 0..super.high_water_page_id
  /\ \A p \in FIRST_DATA_PAGE..super.high_water_page_id : f[p].kind = "page"
  /\ last_commit > 0 => super.checkpoint_lsn <= last_commit
check_invariants ==
  /\ SomeSuperblock(dfile)
  /\ SelectedSlot(dfile) = active_slot
  /\ choose_superblock(dfile) = current_superblock
  /\ PagesCheck(dfile, current_superblock)
ShouldResetWal == last_commit > 0 \/ history_start_lsn < CheckpointLsn

CheckpointCheck ==
  /\ pc = "ckpt_check"
  /\ IF ~check_invariants \/ (ShouldResetWal /\ CheckpointLsn < history_start_lsn)
     THEN broken' = TRUE /\ pc' = "open" /\ UNCHANGED walVars
     ELSE IF ShouldResetWal
          THEN wfile' = <<>> /\ pc' = "reset_truncate_sync" /\ UNCHANGED <<wdisk, broken>>
          ELSE pc' = "open" /\ UNCHANGED <<walVars, broken>>
  /\ UNCHANGED <<fileVars, storeVars, logVars, callVars, histVars, boundVars>>

ResetTruncateSync ==
  /\ pc = "reset_truncate_sync"
  /\ SyncWal
  /\ history_start_lsn' = CheckpointLsn /\ next_lsn' = CheckpointLsn + 1
  /\ next_batch_id' = 1 /\ last_commit' = 0
  /\ pc' = "reset_init"
  /\ UNCHANGED <<fileVars, storeVars, broken, callVars, histVars, boundVars>>

ResetInit ==
  /\ pc = "reset_init"
  /\ wfile' = Append(wfile, InitFrame(history_start_lsn))
  /\ pc' = "reset_sync"
  /\ UNCHANGED <<fileVars, wdisk, storeVars, logVars, broken, callVars, histVars, boundVars>>

ResetSync ==
  /\ pc = "reset_sync"
  /\ SyncWal
  /\ pc' = "open"
  /\ UNCHANGED <<fileVars, storeVars, logVars, broken, callVars, histVars, boundVars>>

-----------------------------------------------------------------------------
(* Opening a shard: open_with_wal_internal. *)

OpenFails ==
  /\ pc' = "failed"
  /\ UNCHANGED <<fileVars, walVars, storeVars, logVars, broken, callVars, histVars,
                 boundVars>>

(* validate_existing_identity_before_wal *)
HasCheckpointHint == FileLen(dfile) >= FIRST_DATA_PAGE /\ SomeSuperblock(dfile)

ReadCheckpointHint ==
  /\ pc \in {"closed", "failed"}
  /\ IF ~HasCheckpointHint /\ FileLen(dfile) > 0 /\ wfile = <<>>
     THEN OpenFails
     ELSE /\ hint' = IF HasCheckpointHint THEN choose_superblock(dfile).checkpoint_lsn ELSE 0
          /\ pc' = "wal_open"
          /\ UNCHANGED <<fileVars, walVars, storeVars, logVars, broken, goal, group, pos,
                         left, histVars, boundVars>>

(* WalLog::open_with_fault_injector_and_start_lsn *)
WalInitialize ==
  /\ pc = "wal_open" /\ wfile = <<>>
  /\ wfile' = <<InitFrame(hint)>>
  /\ pc' = "wal_init_sync"
  /\ UNCHANGED <<fileVars, wdisk, storeVars, logVars, broken, callVars, histVars, boundVars>>

WalInitSync ==
  /\ pc = "wal_init_sync"
  /\ SyncWal
  /\ next_lsn' = hint + 1 /\ next_batch_id' = 1
  /\ history_start_lsn' = hint /\ last_commit' = 0
  /\ pc' = "recover"
  /\ UNCHANGED <<fileVars, storeVars, broken, callVars, histVars, boundVars>>

(* Faulty variant: a log that holds only a torn identity frame is refused. *)
MWalTornInit ==
  /\ pc = "wal_open" /\ wfile = <<TornFrame(hint)>>
  /\ OpenFails

(* A torn identity frame is cut off; the log is then empty, so that the next *)
(* step is WalInitialize, the call of initialize_empty that the code makes   *)
(* here.                                                                     *)
WalTornInit ==
  /\ pc = "wal_open" /\ wfile = <<TornFrame(hint)>>
  /\ wfile' = <<>>
  /\ pc' = "wal_torn_sync"
  /\ UNCHANGED <<fileVars, wdisk, storeVars, logVars, broken, callVars, histVars, boundVars>>

WalTornInitSync ==
  /\ pc = "wal_torn_sync"
  /\ SyncWal
  /\ pc' = "wal_open"
  /\ UNCHANGED <<fileVars, storeVars, logVars, broken, callVars, histVars, boundVars>>

WalScan ==
  /\ pc = "wal_open" /\ wfile # <<>> /\ wfile # <<TornFrame(hint)>>
  /\ LET valid == ValidPrefix(wfile) IN
     IF ~ScanAccepts(valid)
     THEN OpenFails
     ELSE /\ next_lsn' = ScannedNextLsn(valid) /\ next_batch_id' = ScannedNextBatch(valid)
          /\ history_start_lsn' = valid[1].start /\ last_commit' = LastCommitLsn(valid)
          /\ wfile' = valid
          /\ pc' = IF valid = wfile THEN "recover" ELSE "wal_tail_sync"
          /\ UNCHANGED <<fileVars, wdisk, storeVars, broken, callVars, histVars, boundVars>>

WalTailSync ==
  /\ pc = "wal_tail_sync"
  /\ SyncWal
  /\ pc' = "recover"
  /\ UNCHANGED <<fileVars, storeVars, logVars, broken, callVars, histVars, boundVars>>

(* BTreeStore::initialize, when there is no data file and nothing to replay *)
InitialSuperblock == Superblock(1, 0, FIRST_DATA_PAGE, 0)

BeginInitialize ==
  /\ pc = "recover" /\ FileLen(dfile) = 0 /\ last_commit = 0
  /\ ExtendFile(FIRST_DATA_PAGE)
  /\ pos' = 0 /\ pc' = "init"
  /\ UNCHANGED <<walVars, storeVars, logVars, broken, goal, group, left, hint,
                 histVars, boundVars>>

InitializeWrite ==
  /\ pc = "init" /\ pos <= FIRST_DATA_PAGE
  /\ WritePage(pos, IF pos \in Slots THEN InitialSuperblock ELSE DataPage(0, 0))
  /\ pos' = pos + 1
  /\ UNCHANGED <<walVars, storeVars, logVars, broken, pc, goal, group, left, hint,
                 histVars, boundVars>>

InitializeSync ==
  /\ pc = "init" /\ pos > FIRST_DATA_PAGE
  /\ SyncFile
  /\ current_superblock' = InitialSuperblock /\ active_slot' = SlotA
  /\ doubt' = <<>>
  /\ pos' = 0 /\ pc' = "open"
  /\ UNCHANGED <<walVars, dirty_pages, dirty_superblock, logVars, broken, goal, group,
                 left, hint, hist, acked, next_tx, boundVars>>

(* recover_data_file *)
ReplayHigh ==
  Latest({wfile[i].page : i \in ReplayIndexes(wfile, hint)} \cup {FIRST_DATA_PAGE})

(* Faulty variant: only an empty data file is recovered. *)
MBeginReplay ==
  /\ pc = "recover" /\ ~(FileLen(dfile) = 0 /\ last_commit = 0)
  /\ IF FileLen(dfile) > 0
     THEN pc' = "finish" /\ UNCHANGED <<fileVars, pos>>
     ELSE ExtendFile(ReplayHigh) /\ pos' = 1 /\ pc' = "replay"
  /\ UNCHANGED <<walVars, storeVars, logVars, broken, goal, group, left, hint,
                 histVars, boundVars>>

BeginReplay ==
  /\ pc = "recover" /\ ~(FileLen(dfile) = 0 /\ last_commit = 0)
  /\ IF ReplayIndexes(wfile, hint) = {}
     THEN pc' = "finish" /\ UNCHANGED <<fileVars, pos>>
     ELSE ExtendFile(ReplayHigh) /\ pos' = 1 /\ pc' = "replay"
  /\ UNCHANGED <<walVars, storeVars, logVars, broken, goal, group, left, hint,
                 histVars, boundVars>>

ReplayFrame ==
  /\ pc = "replay" /\ pos <= Len(wfile)
  /\ IF Replayable(wfile, pos, hint) /\ should_write(dfile, wfile, pos)
     THEN WritePage(wfile[pos].page, wfile[pos].image)
     ELSE UNCHANGED fileVars
  /\ pos' = pos + 1
  /\ UNCHANGED <<walVars, storeVars, logVars, broken, pc, goal, group, left, hint,
                 histVars, boundVars>>

ReplaySync ==
  /\ pc = "replay" /\ pos > Len(wfile)
  /\ SyncFile
  /\ pos' = 0 /\ pc' = "finish"
  /\ UNCHANGED <<walVars, storeVars, logVars, broken, goal, group, left, hint,
                 hist, doubt, acked, next_tx, boundVars>>

(* Faulty variant: the checkpoint LSN is ignored. *)
Mresume_after(ckpt) == next_lsn
resume_after(ckpt) == IF next_lsn < ckpt + 1 THEN ckpt + 1 ELSE next_lsn

(* The undecided transactions the recovered pages hold: a prefix of them, or *)
(* nothing is decided when the pages hold no such prefix.                    *)
SurvivingPrefixes(super) ==
  {k \in 0..Len(doubt) : Holds(hist \o SubSeq(doubt, 1, k), dfile, super)}

AdoptFile(super) ==
  /\ current_superblock' = super /\ active_slot' = SelectedSlot(dfile)
  /\ next_lsn' = resume_after(super.checkpoint_lsn)
  /\ hist' = IF SurvivingPrefixes(super) = {} THEN hist
             ELSE hist \o SubSeq(doubt, 1, CHOOSE k \in SurvivingPrefixes(super) : TRUE)
  /\ doubt' = <<>> /\ hint' = 0 /\ pc' = "open"
  /\ UNCHANGED <<fileVars, walVars, dirty_pages, dirty_superblock, next_batch_id,
                 history_start_lsn, last_commit, broken, goal, group, pos, left,
                 acked, next_tx, checkpointed, boundVars>>

FinishOpen ==
  /\ pc = "finish"
  /\ IF SomeSuperblock(dfile) /\ PagesCheck(dfile, choose_superblock(dfile))
     THEN AdoptFile(choose_superblock(dfile))
     ELSE OpenFails

-----------------------------------------------------------------------------
(* Failures.  A page write or a frame write that is cut short leaves a torn  *)
(* page or a torn frame behind.                                              *)

PageBeingWritten ==
  CASE pc = "flush" -> {p \in left : IsNextPage(p, left)}
    [] pc = "ckpt_super" /\ MetadataChanged -> {OtherSlot(active_slot)}
    [] pc = "init" /\ pos <= FIRST_DATA_PAGE -> {pos}
    [] pc = "replay" /\ pos <= Len(wfile) /\ Replayable(wfile, pos, hint)
         /\ should_write(dfile, wfile, pos) -> {wfile[pos].page}
    [] OTHER -> {}
FrameBeingWritten ==
  CASE pc = "append" -> {TornFrame(0)}
    [] pc = "reset_init" -> {TornFrame(history_start_lsn)}
    [] pc = "wal_open" /\ wfile = <<>> -> {TornFrame(hint)}
    [] OTHER -> {}

CutShort ==
  \/ UNCHANGED <<fileVars, walVars>>
  \/ \E p \in PageBeingWritten : WritePage(p, Garbage) /\ UNCHANGED walVars
  \/ \E f \in FrameBeingWritten :
       wfile' = Append(wfile, f) /\ UNCHANGED <<fileVars, wdisk>>

(* A file operation fails: an open shard degrades, a failed open is retried. *)
IoError ==
  /\ faults < MaxFault /\ faults' = faults + 1
  /\ pc \notin {"closed", "failed", "open", "staged"}
  /\ pc = "ckpt_super" => MetadataChanged
  /\ CutShort
  /\ IF Serving THEN broken' = TRUE /\ pc' = "open" ELSE pc' = "closed" /\ UNCHANGED broken
  /\ goal' = "none" /\ group' = <<>> /\ pos' = 0 /\ left' = {} /\ hint' = 0
  /\ UNCHANGED <<storeVars, logVars, histVars, ckpts, crashes>>

LoseMemory ==
  /\ crashes < MaxCrash /\ crashes' = crashes + 1
  /\ current_superblock' = NoPage /\ active_slot' = SlotA
  /\ dirty_pages' = [p \in DataPages |-> NoPage] /\ dirty_superblock' = NoPage
  /\ next_lsn' = 0 /\ next_batch_id' = 0 /\ history_start_lsn' = 0 /\ last_commit' = 0
  /\ broken' = FALSE /\ pc' = "closed"
  /\ goal' = "none" /\ group' = <<>> /\ pos' = 0 /\ left' = {} /\ hint' = 0
  /\ UNCHANGED <<hist, doubt, acked, next_tx, ckpts, faults>>

(* The process dies, or a degraded shard is dropped and reopened: the        *)
(* operating system keeps every completed write.                             *)
ProcessCrash ==
  /\ "process" \in CrashKinds /\ pc # "closed"
  /\ LoseMemory
  /\ CutShort
  /\ UNCHANGED checkpointed

(* Power is lost: of every page written since the last sync any one version  *)
(* or a torn one is left, of the frames appended since then a prefix.        *)
Unsynced == {p \in PageIds : dpend[p] # {}}
Survivors(p) == {ddisk[p], Garbage} \cup dpend[p]
WalSurvivors ==
  IF IsPrefix(wdisk, wfile)
  THEN {SubSeq(wfile, 1, n) : n \in Len(wdisk)..Len(wfile)}
         \cup {Append(SubSeq(wfile, 1, n), Torn(wfile[n + 1])) : n \in Len(wdisk)..(Len(wfile) - 1)}
  ELSE {wdisk, wfile}
PowerLoss ==
  /\ "power" \in CrashKinds
  /\ pc # "closed" \/ Unsynced # {} \/ wdisk # wfile
  /\ LoseMemory
  /\ \E kept \in [Unsynced -> UNION {Survivors(p) : p \in Unsynced}] :
       /\ \A p \in Unsynced : kept[p] \in Survivors(p)
       /\ dfile' = [p \in PageIds |-> IF p \in Unsynced THEN kept[p] ELSE ddisk[p]]
       /\ \A p, q \in PageIds : p < q /\ dfile'[p] = NoPage => dfile'[q] = NoPage
       /\ ddisk' = dfile' /\ dpend' = NothingPending
       /\ NoteCheckpoint(dfile')
  /\ \E w \in WalSurvivors : wfile' = w /\ wdisk' = w

-----------------------------------------------------------------------------
Commit ==
  \/ \E ps \in SUBSET DataPages : Stage(ps)
  \/ RejectGroup
  \/ publish_prepared_group
  \/ \E p \in left : AppendPageFrame(p)
  \/ AppendCommitFrame
  \/ SyncAndPublish
Flush == flush \/ (\E p \in left : FlushPage(p)) \/ FlushSync
Checkpoint ==
  \/ checkpoint \/ CheckpointWrite \/ CheckpointSync \/ CheckpointCheck
  \/ ResetTruncateSync \/ ResetInit \/ ResetSync
OpenShard ==
  \/ ReadCheckpointHint
  \/ WalInitialize \/ WalInitSync \/ WalTornInit \/ WalTornInitSync
  \/ WalScan \/ WalTailSync
  \/ BeginInitialize \/ InitializeWrite \/ InitializeSync
  \/ BeginReplay \/ ReplayFrame \/ ReplaySync \/ FinishOpen
Failure == IoError \/ ProcessCrash \/ PowerLoss

Next == Commit \/ Flush \/ Checkpoint \/ OpenShard \/ Failure

Spec == Init /\ [][Next]_vars

-----------------------------------------------------------------------------
Contents ==
  {NoPage, Garbage}
    \cup [kind : {"page"}, lsn : Nat, by : Nat]
    \cup [kind : {"super"}, generation : Nat, checkpoint_lsn : Nat,
          high_water_page_id : DataPages, by : Nat]
Supers == {c \in Contents : c.kind = "super"}
Frames ==
  [type : {"init"}, lsn : {0}, batch : {0}, start : Nat]
    \cup [type : {"page"}, lsn : Nat, batch : Nat, index : Nat, page : PageIds,
          image : Contents]
    \cup [type : {"commit"}, lsn : Nat, batch : Nat, index : Nat]
    \cup [type : {"torn"}, start : Nat]
Transactions == [tx : Nat, pages : SUBSET DataPages, lsn : Nat]
Batches == [tx : Nat, pages : SUBSET DataPages, batch : Nat, lsn : Nat,
            super : Supers, slot : Slots]

(* The range of every variable. *)
TypeOK ==
  /\ dfile \in [PageIds -> Contents] /\ ddisk \in [PageIds -> Contents]
  /\ dpend \in [PageIds -> SUBSET Contents]
  /\ wfile \in Seq(Frames) /\ wdisk \in Seq(Frames)
  /\ current_superblock \in (IF Serving THEN Supers ELSE {NoPage})
  /\ active_slot \in Slots
  /\ dirty_pages \in [DataPages -> Contents] /\ dirty_superblock \in {NoPage} \cup Supers
  /\ next_lsn \in Nat /\ next_batch_id \in Nat
  /\ history_start_lsn \in Nat /\ last_commit \in Nat
  /\ broken \in BOOLEAN
  /\ pc \in OpeningPcs \cup CallPcs \cup {"open"}
  /\ goal \in {"none", "flush", "checkpoint"}
  /\ group \in Seq(Batches) /\ pos \in Nat /\ left \in SUBSET PageIds /\ hint \in Nat
  /\ hist \in Seq(Transactions) /\ doubt \in Seq(Transactions)
  /\ acked \in SUBSET Nat /\ next_tx \in Nat /\ checkpointed \in Nat
  /\ ckpts \in Nat /\ crashes \in Nat /\ faults \in Nat

(* While a shard is open its pages and superblock are exactly what the       *)
(* served transactions left: every acknowledged transaction whole, no part   *)
(* of any other, and of a group interrupted by a crash a prefix in order     *)
(* (publish_prepared_group, flush_dirty_pages, checkpoint, recover_data_file *)
(* with a crash between any two of their writes).                            *)
CommittedState == Serving => Holds(hist, CommittedPages, current_superblock)

(* A page never goes back behind a transaction that was reported as          *)
(* committed: whenever the shard is open, each page it changed shows its     *)
(* image or that of a later transaction, whatever failures came between.     *)
AckedSurvive ==
  Serving =>
    \A i \in DOMAIN hist : hist[i].tx \in acked =>
      \A p \in hist[i].pages :
        CommittedPages[p].kind = "page" /\ CommittedPages[p].by >= hist[i].tx

(* No failure makes a shard that has served a transaction impossible to      *)
(* open: its WAL always scans, after replay a superblock is valid, and the   *)
(* file has the length and the pages that superblock speaks of.              *)
Reopenable == pc = "failed" => hist = <<>>

(* No page image reaches the data file, synced or not, before the COMMIT     *)
(* frame of its transaction is on stable storage in the WAL, unless a        *)
(* durable checkpoint has made that frame unnecessary.                       *)
WriteAhead ==
  \A p \in DataPages : \A c \in dpend[p] \cup {dfile[p]} :
    c.kind = "page" /\ c.lsn > 0 =>
      \/ c.lsn <= checkpointed
      \/ \E i \in CommitIndexes(wdisk) : wdisk[i].lsn = c.lsn

(* The checkpoint LSN an open shard works from never falls behind one that   *)
(* was on stable storage, although both slots are overwritten in place, torn *)
(* by crashes and rewritten from older WAL images; and the WAL on stable     *)
(* storage does not begin after the checkpoint there: reset discards history *)
(* only once the superblock that replaces it is durable.                     *)
CheckpointSound ==
  Serving =>
    /\ current_superblock.checkpoint_lsn >= checkpointed
    /\ wdisk # <<>> /\ wdisk[1].type = "init" => wdisk[1].start <= DurableCheckpoint

(* An open shard hands out only LSNs above every LSN it ever served and above *)
(* every frame in its WAL, across WAL resets and restarts: page LSNs decide   *)
(* whether recovery replays an image, so a reused one would lose a commit.    *)
FreshLsn ==
  Serving /\ ~broken =>
    /\ \A i \in DOMAIN hist : hist[i].lsn < next_lsn
    /\ pc = "open" => Last(wfile).lsn < next_lsn

-----------------------------------------------------------------------------
(* The promise of the store, and the state in which it keeps it. *)
Contract == INSTANCE ShardContract WITH
  Pages <- DataPages, log <- hist, pending <- doubt, up <- Serving,
  view <- IF Serving
          THEN [metadata |-> current_superblock.by,
                pages |-> [p \in DataPages |-> CommittedPages[p]]]
          ELSE [metadata |-> 0, pages |-> [p \in DataPages |-> NoPage]]

(* The store implements the contract: visible state changes only by whole    *)
(* groups, or at a restart by a prefix of the group the crash interrupted.   *)
Implements == Contract!Spec

=============================================================================
