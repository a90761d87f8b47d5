--------------------------- MODULE ShardStoreTypes ---------------------------
(***************************************************************************)
(* Type correctness of ShardStore through commits, recovery and failures,  *)
(* for every number of pages, transactions, groups, checkpoints, crashes   *)
(* and faults.  The range invariant needs what is known of the locals of a *)
(* running call (Locals) to be inductive.  Flush and checkpoint are in     *)
(* ShardStoreWrites.                                                       *)
(***************************************************************************)
EXTENDS ShardStoreFacts

(* The state before the first open has the types.                           *)
LEMMA TypeInit == Init => TypeInv
<1> SUFFICES ASSUME Init PROVE TypeInv
  OBVIOUS
<1>1. TypeOK
  <2>1. broken \in BOOLEAN
    BY DEF Init
  <2>2. pc \in OpeningPcs /\ ~Serving
    BY DEF Init, Serving, OpeningPcs
  <2> QED BY <2>1, <2>2, PageIdFacts, ContentTypes DEF Init, TypeOK, NothingPending, Slots
<1>2. Locals
  BY DEF Init, Locals
<1> QED BY <1>1, <1>2 DEF TypeInv

(* Staging, appending, syncing and publishing a group preserve the types.   *)
LEMMA TypeCommit ==
  ASSUME SetFacts
  PROVE  TypeInv /\ Commit => TypeInv'
<1> SUFFICES ASSUME TypeInv, Commit PROVE TypeInv'
  OBVIOUS
<1> USE DEF TypeInv, fileVars, walVars, storeVars, logVars, callVars, histVars, boundVars
<1>1. ASSUME NEW ps \in SUBSET DataPages, Stage(ps) PROVE TypeInv'
  <2> DEFINE c == finish_transaction(ps)
  <2>1. OverlaySuperblock \in Supers /\ OverlaySlot \in Slots
        /\ OverlayNextLsn \in Nat /\ OverlayNextBatch \in Nat
    <3>1. CASE group = <<>>
      BY <1>1, <3>1 DEF TypeOK, Stage, Serving, OpeningPcs, OverlaySuperblock, OverlaySlot,
         OverlayNextLsn, OverlayNextBatch
    <3>2. CASE group # <<>>
      <4>1. Last(group) \in Batches
        BY <3>2 DEF TypeOK, Last
      <4> QED BY <4>1, <3>2, BatchFields DEF OverlaySuperblock, OverlaySlot,
              OverlayNextLsn, OverlayNextBatch
    <3> QED BY <3>1, <3>2
  <2>2. Cardinality(ps) \in Nat
    BY PageSets, PageIdFacts
  <2>3. c \in Batches /\ c.lsn = OverlayNextLsn + Cardinality(ps) + 1 /\ c.pages = ps
    <3> DEFINE H == HighWaterAfter(OverlaySuperblock.high_water_page_id, ps)
               m == CHOOSE m \in H : TRUE
    <3>1. m \in DataPages
      BY <1>1 DEF Stage, Allocatable, HighWaterAfter
    <3>2. next_tx + Len(group) \in Nat
      BY DEF TypeOK
    <3>3. ASSUME NEW high \in DataPages
          PROVE  Superblock(OverlaySuperblock.generation + 1, OverlaySuperblock.checkpoint_lsn,
                            high, next_tx + Len(group)) \in Supers
      <4>1. OverlaySuperblock.generation + 1 \in Nat /\ OverlaySuperblock.checkpoint_lsn \in Nat
        BY <2>1, SuperTypes
      <4> QED BY <3>2, <4>1, ContentTypes
    <3>4. c = [tx |-> next_tx + Len(group), pages |-> ps, batch |-> OverlayNextBatch,
               lsn |-> OverlayNextLsn + Cardinality(ps) + 1,
               super |-> Superblock(OverlaySuperblock.generation + 1,
                                    OverlaySuperblock.checkpoint_lsn, m, next_tx + Len(group)),
               slot |-> OtherSlot(OverlaySlot)]
      BY DEF finish_transaction
    <3> HIDE DEF c, m
    <3> QED BY <2>1, <2>2, <3>1, <3>2, <3>3, <3>4, PageIdFacts DEF Batches
  <2>4. c.lsn >= Cardinality(BatchPages(c))
    BY <2>1, <2>2, <2>3, BatchFields
  <2> HIDE DEF c
  <2>5. group' = Append(group, c) /\ pc' = "staged"
    BY <1>1 DEF Stage, c
  <2>6. TypeOK'
    BY <1>1, <2>3, <2>5 DEF Stage, TypeOK, Serving, OpeningPcs, CallPcs
  <2>7. Locals'
    <3>1. /\ Len(group') = Len(group) + 1 /\ group'[Len(group) + 1] = c
          /\ \A i \in 1..Len(group) : group'[i] = group[i]
      BY <2>3, <2>5 DEF TypeOK
    <3>2. ASSUME NEW i \in 1..Len(group')
          PROVE  group'[i].lsn >= Cardinality(BatchPages(group'[i]))
      <4>1. Len(group) \in Nat
        BY DEF TypeOK
      <4>2. CASE i = Len(group) + 1
        BY <2>4, <3>1, <4>2
      <4>3. CASE i \in 1..Len(group)
        BY <3>1, <4>3 DEF Locals
      <4> QED BY <3>1, <4>1, <4>2, <4>3
    <3>3. group' # <<>>
      <4>1. Len(group') = Len(group) + 1
        BY <3>1
      <4> QED BY <4>1, CallTypes
    <3> QED BY <2>5, <3>2, <3>3 DEF Locals, BatchPages
  <2> QED BY <2>6, <2>7
<1>2. CASE RejectGroup
  BY <1>2 DEF RejectGroup, TypeOK, Locals, Serving, OpeningPcs, CallPcs
<1>3. CASE publish_prepared_group
  <2>1. group[1] \in Batches /\ Len(group) >= 1
    BY <1>3 DEF publish_prepared_group, TypeOK, Locals
  <2>2. BatchPages(group[1]) \in SUBSET PageIds
    BY <2>1, BatchFields
  <2>3. Outcomes(group) \in Seq(Transactions)
    <3>1. \A i \in 1..Len(group) : Outcome(group[i]) \in Transactions
      BY BatchFields DEF TypeOK, Outcome, Transactions
    <3> QED BY <3>1 DEF TypeOK, Outcomes
  <2>4. TypeOK'
    BY <1>3, <2>1, <2>2, <2>3 DEF publish_prepared_group, TypeOK, Serving, OpeningPcs, CallPcs
  <2>5. Locals'
    <3>1. /\ pc = "staged" /\ pc' = "append" /\ group' = group
          /\ pos' = 1 /\ left' = BatchPages(group[1])
      BY <1>3 DEF publish_prepared_group
    <3>2. Len(group) \in Nat
      BY DEF TypeOK
    <3> QED BY <2>1, <3>1, <3>2 DEF Locals, BatchPages
  <2> QED BY <2>4, <2>5
<1>4. ASSUME NEW p \in left, AppendPageFrame(p) PROVE TypeInv'
  <2> DEFINE c == group[pos]
             written == Cardinality(BatchPages(c)) - Cardinality(left)
             f == PageFrame(c.lsn - Cardinality(left), c.batch, written, p, Image(c, p))
  <2>1. pc = "append" /\ pos \in 1..Len(group) /\ left \subseteq BatchPages(c)
    BY <1>4 DEF AppendPageFrame, Locals
  <2>2. c \in Batches /\ c.lsn >= Cardinality(BatchPages(c))
    BY <2>1 DEF TypeOK, Locals
  <2>3. Cardinality(left) \in Nat /\ Cardinality(BatchPages(c)) \in Nat
        /\ Cardinality(left) <= Cardinality(BatchPages(c))
    BY <2>1, <2>2, BatchFields, PageSets DEF TypeOK
  <2>4. c.lsn - Cardinality(left) \in Nat /\ written \in Nat /\ c.batch \in Nat
    BY <2>2, <2>3, BatchFields
  <2>5. Image(c, p) \in Contents /\ p \in PageIds
    BY <2>2, BatchFields, ContentTypes DEF Image, TypeOK
  <2>6. f \in Frames
    BY <2>4, <2>5, FrameTypes
  <2>7. wfile' = Append(wfile, f)
    BY <1>4 DEF AppendPageFrame
  <2> HIDE DEF f
  <2>8. TypeOK'
    BY <1>4, <2>6, <2>7 DEF AppendPageFrame, TypeOK, Serving
  <2>9. Locals'
    BY <1>4, <2>1 DEF AppendPageFrame, Locals, BatchPages
  <2> QED BY <2>8, <2>9
<1>5. CASE AppendCommitFrame
  <2> DEFINE c == group[pos]
             f == CommitFrame(c.lsn, c.batch, Cardinality(BatchPages(c)))
  <2>1. pc = "append" /\ pos \in 1..Len(group) /\ Len(group) \in Nat
    BY <1>5 DEF AppendCommitFrame, TypeOK, Locals
  <2>2. c \in Batches
    BY <2>1 DEF TypeOK
  <2>3. f \in Frames
    BY <2>2, BatchFields, PageSets, FrameTypes
  <2>4. wfile' = Append(wfile, f)
    BY <1>5 DEF AppendCommitFrame
  <2> HIDE DEF f
  <2>5. CASE pos < Len(group)
    <3>1. group[pos + 1] \in Batches
      BY <2>1, <2>5 DEF TypeOK
    <3>2. pos' = pos + 1 /\ left' = BatchPages(group[pos + 1]) /\ pc' = pc
      BY <1>5, <2>5 DEF AppendCommitFrame
    <3>3. TypeOK'
      BY <1>5, <2>3, <2>4, <3>1, <3>2, BatchFields DEF AppendCommitFrame, TypeOK, Serving
    <3>4. Locals'
      <4>1. group' = group /\ pc' = "append" /\ pos' \in 1..Len(group)
        BY <1>5, <2>1, <2>5, <3>2 DEF AppendCommitFrame
      <4>2. left' = BatchPages(group'[pos'])
        BY <3>2, <4>1
      <4> QED BY <2>1, <4>1, <4>2 DEF Locals, BatchPages
    <3> QED BY <3>3, <3>4
  <2>6. CASE ~(pos < Len(group))
    <3>1. pos' = 0 /\ left' = {} /\ pc' = "wal_sync"
      BY <1>5, <2>6 DEF AppendCommitFrame
    <3>2. TypeOK'
      BY <1>5, <2>1, <2>3, <2>4, <3>1 DEF AppendCommitFrame, TypeOK, Serving, OpeningPcs, CallPcs
    <3>3. Locals'
      BY <1>5, <2>1, <3>1 DEF AppendCommitFrame, Locals, BatchPages
    <3> QED BY <3>2, <3>3
  <2> QED BY <2>5, <2>6
<1>6. CASE SyncAndPublish
  <2>1. Last(group) \in Batches
    <3>1. group # <<>>
      BY <1>6 DEF SyncAndPublish, Locals
    <3> QED BY <3>1, CallTypes DEF Last
  <2>2. \A p \in DataPages : Writers(group, p) # {} =>
          group[Latest(Writers(group, p))] \in Batches
    <3> SUFFICES ASSUME NEW p \in DataPages, Writers(group, p) # {}
                 PROVE  group[Latest(Writers(group, p))] \in Batches
      OBVIOUS
    <3>1. /\ Writers(group, p) \in SUBSET Nat /\ Len(group) \in Nat
          /\ \A i \in Writers(group, p) : i \in 1..Len(group) /\ i <= Len(group)
      BY DEF Writers, TypeOK
    <3>2. Latest(Writers(group, p)) \in 1..Len(group)
      BY <3>1, LatestExists
    <3> QED BY <3>2 DEF TypeOK
  <2>3. dirty_pages' \in [DataPages -> Contents]
    BY <1>6, <2>2, BatchFields, ContentTypes DEF SyncAndPublish, InstallGroup, TypeOK
  <2>4. acked' \in SUBSET Nat
    <3>1. \A i \in DOMAIN group : group[i].tx \in Nat
      BY BatchFields DEF TypeOK
    <3> QED BY <1>6, <3>1 DEF SyncAndPublish, TypeOK
  <2>5. hist' \in Seq(Transactions)
    BY <1>6 DEF SyncAndPublish, TypeOK
  <2>6. /\ current_superblock' \in Supers /\ active_slot' \in Slots /\ dirty_superblock' \in Supers
        /\ next_lsn' \in Nat /\ next_batch_id' \in Nat /\ last_commit' \in Nat
    BY <1>6, <2>1, BatchFields DEF SyncAndPublish, InstallGroup
  <2>7. TypeOK'
    <3>1. pc' = "open" /\ Serving' /\ group' = <<>> /\ doubt' = <<>>
      BY <1>6 DEF SyncAndPublish, Serving, OpeningPcs
    <3> QED BY <1>6, <2>3, <2>4, <2>5, <2>6, <3>1 DEF SyncAndPublish, SyncWal, TypeOK
  <2>8. Locals'
    BY <1>6 DEF SyncAndPublish, Locals
  <2> QED BY <2>7, <2>8
<1> QED BY <1>1, <1>2, <1>3, <1>4, <1>5, <1>6 DEF Commit

(* A WAL that scan_wal accepts yields numbers for the next LSN and batch.   *)
LEMMA ScanTypes ==
  ASSUME SetFacts, NEW w \in Seq(Frames)
  PROVE  /\ ValidPrefix(w) \in Seq(Frames)
         /\ ScanAccepts(w) =>
              /\ ScannedNextLsn(w) \in Nat /\ ScannedNextBatch(w) \in Nat
              /\ w[1].start \in Nat /\ LastCommitLsn(w) \in Nat
<1>1. ValidPrefix(w) \in Seq(Frames)
  BY DEF ValidPrefix, Front
<1>2. ASSUME ScanAccepts(w)
      PROVE  /\ ScannedNextLsn(w) \in Nat /\ ScannedNextBatch(w) \in Nat
             /\ w[1].start \in Nat /\ LastCommitLsn(w) \in Nat
  <2>1. /\ Len(w) \in Nat /\ Len(w) >= 1 /\ w[1] \in Frames /\ w[1].type = "init"
        /\ \A i \in 2..Len(w) : w[i].type \in {"page", "commit"} /\ w[i] \in Frames
    <3>1. Len(w) \in Nat /\ \A i \in 1..Len(w) : w[i] \in Frames
      OBVIOUS
    <3>2. w # <<>> /\ w[1].type = "init"
      BY <1>2 DEF ScanAccepts
    <3>3. Len(w) >= 1
      BY <3>1, <3>2
    <3>4. \A i \in 2..Len(w) : w[i].type \in {"page", "commit"}
      BY <1>2 DEF ScanAccepts, FollowsInit
    <3>5. 1 \in 1..Len(w) /\ \A i \in 2..Len(w) : i \in 1..Len(w)
      BY <3>1, <3>3
    <3>6. w[1] \in Frames /\ \A i \in 2..Len(w) : w[i] \in Frames
      BY <3>1, <3>5
    <3> HIDE <1>2
    <3> QED BY <3>1, <3>2, <3>3, <3>4, <3>6
  <2>2. Last(w) \in Frames /\ Last(w).type # "torn"
    BY <2>1 DEF Last
  <2>3. LastCommitLsn(w) \in Nat
    <3>1. CommitIndexes(w) \in SUBSET Nat /\ \A i \in CommitIndexes(w) : i <= Len(w)
      BY DEF CommitIndexes
    <3>2. CASE CommitIndexes(w) = {}
      BY <3>2 DEF LastCommitLsn
    <3>3. CASE CommitIndexes(w) # {}
      <4>1. Latest(CommitIndexes(w)) \in CommitIndexes(w)
        BY <2>1, <3>1, <3>3, LatestExists
      <4>2. w[Latest(CommitIndexes(w))] \in Frames /\ w[Latest(CommitIndexes(w))].type = "commit"
        BY <4>1 DEF CommitIndexes
      <4> QED BY <3>3, <4>2, FrameFields DEF LastCommitLsn
    <3> QED BY <3>2, <3>3
  <2> QED BY <2>1, <2>2, <2>3, FrameFields DEF ScannedNextLsn, ScannedNextBatch
<1> QED BY <1>1, <1>2

(* Opening a shard preserves the types.                                     *)
LEMMA TypeOpen ==
  ASSUME SetFacts
  PROVE  TypeInv /\ OpenShard => TypeInv'
<1> SUFFICES ASSUME TypeInv, OpenShard PROVE TypeInv'
  OBVIOUS
<1> USE DEF TypeInv, fileVars, walVars, storeVars, logVars, callVars, histVars, boundVars
<1>0. OpenFails /\ ~Serving /\ pc \notin {"staged", "append", "wal_sync"} => TypeInv'
  BY DEF OpenFails, TypeOK, Locals, Serving, OpeningPcs, CallPcs, BatchPages
<1>1. CASE ReadCheckpointHint
  <2>1. ~Serving /\ pc \notin {"staged", "append", "wal_sync"}
    BY <1>1 DEF ReadCheckpointHint, Serving, OpeningPcs
  <2>2. CASE ~OpenFails
    <3>1. pc' = "wal_open" /\ ~Serving'
      BY <1>1, <2>2 DEF ReadCheckpointHint, Serving, OpeningPcs
    <3>2. hint' \in Nat
      <4>1. HasCheckpointHint => choose_superblock(dfile) \in Supers
        BY PageIdFacts DEF HasCheckpointHint, SomeSuperblock, choose_superblock, SelectedSlot,
           IsSuper, Supers, TypeOK, Slots
      <4> QED BY <1>1, <2>2, <4>1, SuperTypes DEF ReadCheckpointHint
    <3>3. TypeOK'
      BY <1>1, <2>1, <2>2, <3>1, <3>2 DEF ReadCheckpointHint, TypeOK, OpeningPcs
    <3>4. Locals'
      BY <1>1, <2>1, <2>2, <3>1 DEF ReadCheckpointHint, Locals, BatchPages
    <3> QED BY <3>3, <3>4
  <2> QED BY <1>0, <2>1, <2>2
<1>2. CASE WalInitialize
  <2>1. <<InitFrame(hint)>> \in Seq(Frames)
    BY FrameTypes DEF TypeOK
  <2>2. TypeOK'
    <3>1. ~Serving /\ ~Serving' /\ pc' = "wal_init_sync"
      BY <1>2 DEF WalInitialize, Serving, OpeningPcs
    <3>2. FilesTyped'
      BY <1>2, <2>1, TypeParts DEF WalInitialize, FilesTyped
    <3>3. CallTyped'
      BY <1>2, <3>1, TypeParts DEF WalInitialize, CallTyped, OpeningPcs
    <3>4. StoreTyped' /\ LogTyped' /\ broken' \in BOOLEAN /\ HistoryTyped'
      BY <1>2, <3>1, KeptTypes DEF WalInitialize
    <3> QED BY <3>2, <3>3, <3>4, TypeParts
  <2>3. Locals'
    BY <1>2 DEF WalInitialize, Locals, BatchPages
  <2> QED BY <2>2, <2>3
<1>3. CASE WalInitSync
  <2>1. TypeOK'
    <3>1. ~Serving /\ ~Serving' /\ pc' = "recover"
      BY <1>3 DEF WalInitSync, Serving, OpeningPcs
    <3>2. FilesTyped'
      BY <1>3, TypeParts DEF WalInitSync, SyncWal, FilesTyped
    <3>3. LogTyped'
      BY <1>3, CallTypes DEF WalInitSync, LogTyped
    <3>4. CallTyped'
      BY <1>3, <3>1, TypeParts DEF WalInitSync, CallTyped, OpeningPcs
    <3>5. StoreTyped' /\ broken' \in BOOLEAN /\ HistoryTyped'
      BY <1>3, <3>1, KeptTypes DEF WalInitSync
    <3> QED BY <3>2, <3>3, <3>4, <3>5, TypeParts
  <2>2. Locals'
    BY <1>3 DEF WalInitSync, Locals, BatchPages
  <2> QED BY <2>1, <2>2
<1>4. CASE WalTornInit
  <2>1. TypeOK'
    <3>1. ~Serving /\ ~Serving' /\ pc' = "wal_torn_sync"
      BY <1>4 DEF WalTornInit, Serving, OpeningPcs
    <3>2. FilesTyped'
      BY <1>4, TypeParts DEF WalTornInit, FilesTyped
    <3>3. CallTyped'
      BY <1>4, <3>1, TypeParts DEF WalTornInit, CallTyped, OpeningPcs
    <3>4. StoreTyped' /\ LogTyped' /\ broken' \in BOOLEAN /\ HistoryTyped'
      BY <1>4, <3>1, KeptTypes DEF WalTornInit
    <3> QED BY <3>2, <3>3, <3>4, TypeParts
  <2>2. Locals'
    BY <1>4 DEF WalTornInit, Locals, BatchPages
  <2> QED BY <2>1, <2>2
<1>5. CASE WalTornInitSync
  <2>1. TypeOK'
    BY <1>5 DEF WalTornInitSync, SyncWal, TypeOK, Serving, OpeningPcs
  <2>2. Locals'
    BY <1>5 DEF WalTornInitSync, Locals, BatchPages
  <2> QED BY <2>1, <2>2
<1>6. CASE WalScan
  <2> DEFINE valid == ValidPrefix(wfile)
  <2>1. pc = "wal_open" /\ ~Serving
    BY <1>6 DEF WalScan, Serving, OpeningPcs
  <2>2. CASE ~ScanAccepts(valid)
    BY <1>0, <1>6, <2>1, <2>2 DEF WalScan
  <2>3. CASE ScanAccepts(valid)
    <3>1. valid \in Seq(Frames)
      BY ScanTypes DEF TypeOK
    <3>2. /\ ScannedNextLsn(valid) \in Nat /\ ScannedNextBatch(valid) \in Nat
          /\ valid[1].start \in Nat /\ LastCommitLsn(valid) \in Nat
      <4> HIDE DEF valid
      <4> QED BY <2>3, <3>1, ScanTypes
    <3>3. pc' \in {"recover", "wal_tail_sync"} /\ ~Serving'
      BY <1>6, <2>3 DEF WalScan, Serving, OpeningPcs
    <3>4. /\ next_lsn' = ScannedNextLsn(valid) /\ next_batch_id' = ScannedNextBatch(valid)
          /\ history_start_lsn' = valid[1].start /\ last_commit' = LastCommitLsn(valid)
          /\ wfile' = valid
          /\ UNCHANGED <<fileVars, wdisk, storeVars, broken, callVars, histVars, boundVars>>
      BY <1>6, <2>3 DEF WalScan
    <3> HIDE DEF valid
    <3>5. TypeOK'
      BY <2>1, <3>1, <3>2, <3>3, <3>4 DEF TypeOK, OpeningPcs
    <3>6. Locals'
      BY <2>1, <3>3, <3>4 DEF Locals, BatchPages
    <3> QED BY <3>5, <3>6
  <2> QED BY <2>2, <2>3
<1>7. CASE WalTailSync
  <2>1. TypeOK'
    BY <1>7 DEF WalTailSync, SyncWal, TypeOK, Serving, OpeningPcs
  <2>2. Locals'
    BY <1>7 DEF WalTailSync, Locals, BatchPages
  <2> QED BY <2>1, <2>2
<1>8. CASE BeginInitialize
  <2>1. TypeOK'
    BY <1>8, FileTypes DEF BeginInitialize, TypeOK, Serving, OpeningPcs
  <2>2. Locals'
    BY <1>8 DEF BeginInitialize, Locals, BatchPages
  <2> QED BY <2>1, <2>2
<1>9. CASE InitializeWrite
  <2>1. pos \in PageIds
    BY <1>9, BoundsAssumption DEF InitializeWrite, TypeOK, PageIds, FIRST_DATA_PAGE
  <2>2. InitialSuperblock \in Contents /\ DataPage(0, 0) \in Contents
    BY ContentTypes, PageIdFacts DEF InitialSuperblock
  <2>3. (IF pos \in Slots THEN InitialSuperblock ELSE DataPage(0, 0)) \in Contents
    BY <2>2
  <2>4. TypeOK'
    <3>1. FilesTyped'
      BY <1>9, <2>1, <2>3, FileTypes, TypeParts DEF InitializeWrite, FilesTyped
    <3>2. CallTyped'
      BY <1>9, TypeParts DEF InitializeWrite, CallTyped
    <3>3. Serving' <=> Serving
      BY <1>9 DEF InitializeWrite, Serving
    <3>4. StoreTyped' /\ LogTyped' /\ broken' \in BOOLEAN /\ HistoryTyped'
      BY <1>9, <3>3, KeptTypes DEF InitializeWrite
    <3> QED BY <3>1, <3>2, <3>4, TypeParts
  <2>5. Locals'
    BY <1>9 DEF InitializeWrite, Locals, BatchPages
  <2> QED BY <2>4, <2>5
<1>10. CASE InitializeSync
  <2>1. InitialSuperblock \in Supers
    BY ContentTypes, PageIdFacts DEF InitialSuperblock
  <2>2. checkpointed' \in Nat
    BY <1>10, FileTypes DEF InitializeSync, SyncFile, TypeOK
  <2>3. pc' = "open" /\ Serving' /\ active_slot' \in Slots
    BY <1>10 DEF InitializeSync, Serving, OpeningPcs, Slots
  <2>4. TypeOK'
    <3>1. FilesTyped'
      BY <1>10, FileTypes, TypeParts DEF InitializeSync, FilesTyped
    <3>2. StoreTyped'
      BY <1>10, <2>1, <2>3, TypeParts DEF InitializeSync, StoreTyped
    <3>3. CallTyped'
      BY <1>10, <2>3, TypeParts DEF InitializeSync, CallTyped
    <3>4. HistoryTyped'
      BY <1>10, <2>2, TypeParts DEF InitializeSync, HistoryTyped
    <3>5. LogTyped' /\ broken' \in BOOLEAN
      BY <1>10, KeptTypes, TypeParts DEF InitializeSync, LogTyped
    <3> QED BY <3>1, <3>2, <3>3, <3>4, <3>5, TypeParts
  <2>5. Locals'
    BY <1>10 DEF InitializeSync, Locals, BatchPages
  <2> QED BY <2>4, <2>5
<1>11. CASE BeginReplay
  <2>1. pc' \in {"replay", "finish"} /\ ~Serving /\ ~Serving' /\ pos' \in {pos, 1}
    BY <1>11 DEF BeginReplay, Serving, OpeningPcs
  <2>2. TypeOK'
    <3>1. FilesTyped'
      BY <1>11, FileTypes, TypeParts DEF BeginReplay, FilesTyped
    <3>2. CallTyped'
      BY <1>11, <2>1, TypeParts DEF BeginReplay, CallTyped, OpeningPcs
    <3>3. StoreTyped' /\ LogTyped' /\ broken' \in BOOLEAN /\ HistoryTyped'
      BY <1>11, <2>1, KeptTypes DEF BeginReplay
    <3> QED BY <3>1, <3>2, <3>3, TypeParts
  <2>3. group' = group /\ pc = "recover" /\ (pc' = "replay" => pos' = 1)
    BY <1>11 DEF BeginReplay
  <2>4. Locals'
    <3>1. group = <<>> /\ group' = <<>>
      BY <2>3 DEF Locals
    <3> QED BY <2>1, <2>3, <3>1 DEF Locals
  <2> QED BY <2>2, <2>4
<1>12. CASE ReplayFrame
  <2>1. pos \in 1..Len(wfile) /\ wfile[pos] \in Frames
    <3>1. pos >= 1 /\ pos <= Len(wfile)
      BY <1>12 DEF ReplayFrame, Locals
    <3> QED BY <3>1, CallTypes
  <2>2. Replayable(wfile, pos, hint) => wfile[pos].page \in PageIds /\ wfile[pos].image \in Contents
    BY <2>1, FrameFields DEF Replayable
  <2>3. TypeOK'
    <3>1. FilesTyped'
      BY <1>12, <2>2, FileTypes, TypeParts DEF ReplayFrame, FilesTyped
    <3>2. CallTyped'
      <4>1. pos' = pos + 1 /\ UNCHANGED <<pc, goal, group, left, hint>>
        BY <1>12 DEF ReplayFrame
      <4>2. CallTyped
        BY TypeParts
      <4> QED BY <4>1, <4>2 DEF CallTyped
    <3>3. Serving' <=> Serving
      BY <1>12 DEF ReplayFrame, Serving
    <3>4. StoreTyped' /\ LogTyped' /\ broken' \in BOOLEAN /\ HistoryTyped'
      BY <1>12, <3>3, KeptTypes DEF ReplayFrame
    <3> QED BY <3>1, <3>2, <3>4, TypeParts
  <2>4. UNCHANGED <<group, left, pc>> /\ pos' = pos + 1 /\ pos >= 1 /\ pos \in Nat /\ pc = "replay"
    <3>1. UNCHANGED <<group, left, pc>> /\ pos' = pos + 1 /\ pc = "replay"
      BY <1>12 DEF ReplayFrame
    <3> QED BY <2>1, <3>1, CallTypes
  <2>5. Locals'
    <3>1. pos' >= 1
      BY <2>4
    <3> QED BY <2>4, <3>1 DEF Locals, BatchPages
  <2> QED BY <2>3, <2>5
<1>13. CASE ReplaySync
  <2>1. checkpointed' \in Nat
    BY <1>13, FileTypes DEF ReplaySync, SyncFile, TypeOK
  <2>2. TypeOK'
    <3>1. ~Serving /\ ~Serving' /\ pc' = "finish"
      BY <1>13 DEF ReplaySync, Serving, OpeningPcs
    <3>2. FilesTyped'
      BY <1>13, FileTypes, TypeParts DEF ReplaySync, FilesTyped
    <3>3. CallTyped'
      BY <1>13, <3>1, TypeParts DEF ReplaySync, CallTyped, OpeningPcs
    <3>4. HistoryTyped'
      BY <1>13, <2>1, TypeParts DEF ReplaySync, HistoryTyped
    <3>5. StoreTyped' /\ LogTyped' /\ broken' \in BOOLEAN
      BY <1>13, <3>1, KeptTypes DEF ReplaySync
    <3> QED BY <3>2, <3>3, <3>4, <3>5, TypeParts
  <2>3. Locals'
    BY <1>13 DEF ReplaySync, Locals, BatchPages
  <2> QED BY <2>2, <2>3
<1>14. CASE FinishOpen
  <2> DEFINE super == choose_superblock(dfile)
  <2>1. pc = "finish" /\ ~Serving
    BY <1>14 DEF FinishOpen, Serving, OpeningPcs
  <2>2. CASE SomeSuperblock(dfile) /\ AdoptFile(super)
    <3>1. super \in Supers /\ SelectedSlot(dfile) \in Slots
      BY <2>2, PageIdFacts DEF SomeSuperblock, choose_superblock, SelectedSlot,
           IsSuper, Supers, TypeOK, Slots
    <3>2. next_lsn' \in Nat
      <4>1. super.checkpoint_lsn \in Nat /\ next_lsn \in Nat
        BY <3>1, SuperTypes, TypeParts DEF LogTyped
      <4>2. next_lsn' = resume_after(super.checkpoint_lsn)
        BY <2>2 DEF AdoptFile
      <4> HIDE DEF super
      <4> QED BY <4>1, <4>2 DEF resume_after
    <3>3. hist' \in Seq(Transactions)
      <4> DEFINE K == SurvivingPrefixes(super)
      <4>1. CASE K = {}
        BY <2>2, <4>1 DEF AdoptFile, TypeOK
      <4>2. CASE K # {}
        <5> DEFINE k == CHOOSE k \in K : TRUE
        <5>1. k \in 0..Len(doubt)
          BY <4>2 DEF SurvivingPrefixes
        <5>2. hist' = hist \o SubSeq(doubt, 1, k)
          BY <2>2, <4>2 DEF AdoptFile
        <5> HIDE DEF k
        <5>3. SubSeq(doubt, 1, k) \in Seq(Transactions)
          BY <5>1 DEF TypeOK
        <5> QED BY <5>2, <5>3 DEF TypeOK
      <4> QED BY <4>1, <4>2
    <3>4. pc' = "open" /\ Serving' /\ doubt' = <<>>
      BY <2>2 DEF AdoptFile, Serving, OpeningPcs
    <3>5. TypeOK'
      <4>1. FilesTyped' /\ broken' \in BOOLEAN
        BY <2>2, KeptTypes DEF AdoptFile
      <4>2. StoreTyped'
        BY <2>2, <3>1, <3>2, <3>4, TypeParts DEF AdoptFile, StoreTyped
      <4>3. LogTyped'
        BY <2>2, <3>1, <3>2, TypeParts DEF AdoptFile, LogTyped
      <4>4. CallTyped'
        BY <2>2, <3>4, TypeParts DEF AdoptFile, CallTyped
      <4>5. HistoryTyped'
        <5>1. UNCHANGED <<acked, next_tx, checkpointed, ckpts, crashes, faults>>
          BY <2>2 DEF AdoptFile
        <5>2. HistoryTyped
          BY TypeParts
        <5> QED BY <3>3, <3>4, <5>1, <5>2 DEF HistoryTyped
      <4> QED BY <4>1, <4>2, <4>3, <4>4, <4>5, TypeParts
    <3>6. Locals'
      BY <2>1, <2>2, <3>4 DEF AdoptFile, Locals, BatchPages
    <3> QED BY <3>5, <3>6
  <2> QED BY <1>0, <1>14, <2>1, <2>2 DEF FinishOpen
<1> QED BY <1>1, <1>2, <1>3, <1>4, <1>5, <1>6, <1>7, <1>8, <1>9, <1>10, <1>11, <1>12, <1>13, <1>14
        DEF OpenShard

(* Failures preserve the types.                                             *)
LEMMA TypeFailure ==
  ASSUME SetFacts
  PROVE  TypeInv /\ Failure => TypeInv'
<1> SUFFICES ASSUME TypeInv, Failure PROVE TypeInv'
  OBVIOUS
<1> USE DEF TypeInv, fileVars, walVars, storeVars, logVars, callVars, histVars, boundVars
<1>1. CASE IoError
  <2>1. pc' \in {"open", "closed"} /\ (Serving' <=> Serving)
    BY <1>1 DEF IoError, Serving, OpeningPcs
  <2>2. broken' \in BOOLEAN
    BY <1>1 DEF IoError, TypeOK
  <2>3. /\ goal' = "none" /\ group' = <<>> /\ pos' = 0 /\ left' = {} /\ hint' = 0
        /\ UNCHANGED <<storeVars, logVars, histVars, ckpts, crashes>> /\ faults' = faults + 1
    BY <1>1 DEF IoError
  <2>4. TypeOK'
    <3>1. CutShort
      BY <1>1 DEF IoError
    <3>2. FilesTyped'
      BY <3>1, CutShortTypes DEF FilesTyped
    <3>3. StoreTyped' /\ LogTyped'
      BY <2>1, <2>3, KeptTypes
    <3>4. CallTyped'
      BY <2>1, <2>3 DEF CallTyped, OpeningPcs
    <3>5. HistoryTyped'
      BY <2>3, TypeParts DEF HistoryTyped
    <3> QED BY <2>2, <3>2, <3>3, <3>4, <3>5, TypeParts
  <2>5. Locals'
    BY <2>1, <2>3 DEF Locals
  <2> QED BY <2>4, <2>5
<1>2. ASSUME LoseMemory, checkpointed' \in Nat,
             /\ dfile' \in [PageIds -> Contents] /\ ddisk' \in [PageIds -> Contents]
             /\ dpend' \in [PageIds -> SUBSET Contents]
             /\ wfile' \in Seq(Frames) /\ wdisk' \in Seq(Frames)
      PROVE  TypeInv'
  <2>1. broken' \in BOOLEAN
    BY <1>2 DEF LoseMemory
  <2>2. pc' \in OpeningPcs /\ ~Serving' /\ active_slot' \in Slots
    BY <1>2 DEF LoseMemory, Serving, OpeningPcs, Slots
  <2>3. TypeOK'
    <3>1. FilesTyped'
      BY <1>2 DEF FilesTyped
    <3>2. StoreTyped'
      BY <1>2, <2>2, ContentTypes DEF LoseMemory, StoreTyped
    <3>3. LogTyped'
      BY <1>2 DEF LoseMemory, LogTyped
    <3>4. CallTyped'
      BY <1>2, <2>2 DEF LoseMemory, CallTyped
    <3>5. HistoryTyped'
      <4>1. UNCHANGED <<hist, doubt, acked, next_tx, ckpts, faults>> /\ crashes' = crashes + 1
        BY <1>2 DEF LoseMemory
      <4>2. HistoryTyped
        BY TypeParts
      <4> QED BY <1>2, <4>1, <4>2 DEF HistoryTyped
    <3> QED BY <2>1, <3>1, <3>2, <3>3, <3>4, <3>5, TypeParts
  <2>4. Locals'
    <3>1. group' = <<>> /\ pc' = "closed"
      BY <1>2 DEF LoseMemory
    <3> QED BY <3>1 DEF Locals
  <2> QED BY <2>3, <2>4
<1>3. CASE ProcessCrash
  BY <1>2, <1>3, CutShortTypes DEF ProcessCrash, TypeOK
<1>4. CASE PowerLoss
  <2>1. LoseMemory /\ wfile' \in Seq(Frames) /\ wdisk' \in Seq(Frames)
    BY <1>4, SurvivorTypes DEF PowerLoss
  <2>2. PICK kept \in [Unsynced -> UNION {Survivors(p) : p \in Unsynced}] :
          /\ \A p \in Unsynced : kept[p] \in Survivors(p)
          /\ dfile' = [p \in PageIds |-> IF p \in Unsynced THEN kept[p] ELSE ddisk[p]]
          /\ ddisk' = dfile' /\ dpend' = NothingPending
          /\ NoteCheckpoint(dfile')
    BY <1>4 DEF PowerLoss
  <2>3. \A p \in Unsynced : Survivors(p) \in SUBSET Contents
    BY ContentTypes DEF Unsynced, Survivors, TypeOK
  <2>4. dfile' \in [PageIds -> Contents]
    BY <2>2, <2>3 DEF TypeOK
  <2>5. dpend' \in [PageIds -> SUBSET Contents]
    BY <2>2 DEF NothingPending
  <2> QED BY <1>2, <2>1, <2>2, <2>4, <2>5, FileTypes
<1> QED BY <1>1, <1>3, <1>4 DEF Failure

==============================================================================
