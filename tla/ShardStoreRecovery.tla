------------------------- MODULE ShardStoreRecovery --------------------------
(***************************************************************************)
(* The write-ahead rule through recovery, failed file operations and power *)
(* loss.  A killed process is left out: it breaks the rule, because        *)
(* recovery replays COMMIT frames that were never synced.                  *)
(***************************************************************************)
EXTENDS ShardStoreFacts

(* A failed open changes nothing but pc. *)
LEMMA WalOpenFails ==
  ASSUME TypeInv, TypeInv', WalRule, ~Serving, OpenFails
  PROVE  WalRule'
<1> USE DEF TypeInv, WalRule, fileVars, walVars, storeVars, logVars, callVars, histVars, boundVars
<1>1. /\ pc' = "failed" /\ ~Serving'
      /\ UNCHANGED <<fileVars, walVars, storeVars, logVars, group, hint, histVars>>
  BY DEF OpenFails, Serving, OpeningPcs
<1>2. broken' = broken /\ ~broken
  BY DEF OpenFails, EndInv, Serving, OpeningPcs
<1>3. GroupInv'
  BY <1>1, NoGroup
<1>4. CheckpointInv'
  BY <1>1 DEF CheckpointInv
<1>5. EndInv'
  BY <1>1, <1>2 DEF EndInv, Knows
<1>6. LogInv' /\ CoverInv'
  <2>1. \A p : Images(p)' = Images(p)
    BY <1>1 DEF Images
  <2>2. checkpointed' = checkpointed /\ checkpointed \in Nat
    BY <1>1 DEF TypeOK
  <2> QED BY <1>1, <2>1, <2>2, KeptLog
<1> QED BY <1>3, <1>4, <1>5, <1>6

(* Creating the WAL file, or recreating one whose creation was cut short,   *)
(* preserves the write-ahead rule.                                          *)
LEMMA WalCreate ==
  ASSUME TypeInv, TypeInv', WalRule,
         ReadCheckpointHint \/ WalInitialize \/ WalInitSync \/ WalTornInit \/ WalTornInitSync
  PROVE  WalRule'
<1> USE DEF TypeInv, WalRule, fileVars, walVars, storeVars, logVars, callVars, histVars, boundVars
<1>1. CASE OpenFails /\ pc \in {"closed", "failed"}
  BY <1>1, WalOpenFails DEF Serving, OpeningPcs
<1>2. CASE ~(OpenFails /\ pc \in {"closed", "failed"})
  <2>1. /\ pc' \in {"wal_open", "wal_init_sync", "recover", "wal_torn_sync"} /\ ~Serving /\ ~Serving'
        /\ UNCHANGED <<fileVars, storeVars, group, histVars>>
    BY <1>2 DEF ReadCheckpointHint, WalInitialize, WalInitSync, WalTornInit, WalTornInitSync,
                Serving, OpeningPcs
  <2>2. broken' = broken
    BY <1>2 DEF ReadCheckpointHint, WalInitialize, WalInitSync, WalTornInit, WalTornInitSync
  <2>3. ~broken
    BY <2>1 DEF EndInv, Serving, OpeningPcs
  <2>4. GroupInv'
    BY <2>1, NoGroup
  <2>5. CheckpointInv'
    BY <2>1 DEF CheckpointInv
  <2>6. /\ checkpointed' = checkpointed /\ checkpointed \in Nat /\ hint \in Nat
        /\ \A p : Images(p)' = Images(p)
    BY <2>1 DEF TypeOK, Images
  <2>7. CASE ReadCheckpointHint
    <3>1. UNCHANGED walVars /\ pc' = "wal_open"
      BY <1>2, <2>7 DEF ReadCheckpointHint
    <3>2. LogInv' /\ CoverInv'
      BY <2>1, <2>6, <3>1, KeptLog
    <3>3. EndInv'
      BY <2>1, <2>2, <2>3, <3>1 DEF EndInv, Knows
    <3> QED BY <2>4, <2>5, <3>2, <3>3
  <2>8. CASE WalInitialize \/ WalTornInit
    <3>1. /\ wfile = <<>> \/ wfile = <<TornFrame(hint)>>
          /\ hint' = hint /\ pc' \in {"wal_init_sync", "wal_torn_sync"}
          /\ wfile' = <<InitFrame(hint)>> \/ (wfile' = <<>> /\ pc' = "wal_torn_sync")
      BY <2>8 DEF WalInitialize, WalTornInit
    <3>2. wdisk' = wdisk
      BY <2>8 DEF WalInitialize, WalTornInit
    <3>3. CommitIndexes(wfile) = {}
      <4>1. \A i \in 1..Len(wfile) : wfile[i] = TornFrame(hint)
        BY <3>1
      <4>2. TornFrame(hint).type = "torn"
        BY DEF TornFrame
      <4> QED BY <4>1, <4>2 DEF CommitIndexes
    <3>4. CommitIndexes(wfile') = {} /\ WellFormed(wfile', checkpointed)
      BY <2>6, <3>1, ShortLogs
    <3>5. \A l : Committed(wdisk, l) => l <= checkpointed
      BY <3>3, CoverFacts DEF Covered, Committed
    <3>6. \A l : ~Committed(wfile', l)
      BY <3>4 DEF Committed
    <3>7. LogInv' /\ CoverInv'
      BY <2>6, <3>2, <3>4, <3>5, <3>6, LogStep DEF Covered, LogInv
    <3>8. EndInv'
      BY <2>1, <2>2, <2>3, <3>1 DEF EndInv, Knows
    <3> QED BY <2>4, <2>5, <3>7, <3>8
  <2>9. CASE WalInitSync \/ WalTornInitSync
    <3>1. SyncWal /\ wfile' = wfile
      BY <2>9 DEF WalInitSync, WalTornInitSync, SyncWal
    <3>2. LogInv' /\ CoverInv'
      BY <2>1, <3>1, SyncedLog
    <3>3. CASE WalInitSync
      <4>1. /\ wfile = <<InitFrame(hint)>> /\ next_lsn' = hint + 1 /\ next_batch_id' = 1
            /\ pc' = "recover"
        BY <3>3 DEF WalInitSync, EndInv
      <4>2. CommitIndexes(wfile') = {}
        BY <2>6, <3>1, <4>1, ShortLogs
      <4>3. \A i \in Sound(wfile') : wfile'[i] = InitFrame(hint)
        BY <3>1, <4>1 DEF Sound
      <4>4. EndsBefore(wfile', next_lsn', next_batch_id', last_commit')
        BY <2>6, <4>1, <4>2, <4>3 DEF EndsBefore, InitFrame
      <4> QED BY <2>2, <2>3, <2>4, <2>5, <3>2, <4>1, <4>4 DEF EndInv
    <3>4. CASE WalTornInitSync
      <4>1. pc' = "wal_open"
        BY <3>4 DEF WalTornInitSync
      <4> QED BY <2>1, <2>2, <2>3, <2>4, <2>5, <3>2, <4>1 DEF EndInv, Knows
    <3> QED BY <2>9, <3>3, <3>4
  <2> QED BY <2>7, <2>8, <2>9
<1> QED BY <1>1, <1>2

(* scan_wal finds the end of the log: the next LSN and batch id it returns  *)
(* are above every frame it read.                                           *)
LEMMA ScanEnd ==
  ASSUME SetFacts, NEW w \in Seq(Frames), ScanAccepts(w), OrderedFrames(w)
  PROVE  EndsBefore(w, ScannedNextLsn(w), ScannedNextBatch(w), LastCommitLsn(w))
<1>1. /\ Len(w) \in Nat /\ Len(w) >= 1 /\ w[1].type = "init"
      /\ \A i \in 2..Len(w) : w[i].type \in {"page", "commit"}
  BY DEF ScanAccepts, FollowsInit
<1>2. Len(w) \in Sound(w) /\ Last(w) = w[Len(w)]
  BY <1>1 DEF Sound, Last
<1>3. ASSUME NEW i \in Sound(w)
      PROVE  w[i].lsn < ScannedNextLsn(w) /\ w[i].batch < ScannedNextBatch(w)
  <2>1. /\ i \in 1..Len(w) /\ w[i].lsn \in Nat /\ w[i].batch \in Nat
        /\ w[Len(w)].lsn \in Nat /\ w[Len(w)].batch \in Nat
    BY <1>2, SoundFields
  <2>2. w[i].lsn <= w[Len(w)].lsn /\ w[i].batch <= w[Len(w)].batch
    BY <1>1, <1>2, <2>1 DEF OrderedFrames
  <2> QED BY <1>2, <2>1, <2>2 DEF ScannedNextLsn, ScannedNextBatch
<1>4. ASSUME NEW i \in CommitIndexes(w) PROVE w[i].lsn <= LastCommitLsn(w)
  <2> DEFINE m == Latest(CommitIndexes(w))
  <2>1. CommitIndexes(w) \in SUBSET Nat /\ \A j \in CommitIndexes(w) : j <= Len(w)
    BY DEF CommitIndexes
  <2>2. m \in CommitIndexes(w) /\ i <= m
    BY <1>1, <2>1, LatestExists
  <2>3. LastCommitLsn(w) = w[m].lsn
    BY DEF LastCommitLsn
  <2> HIDE DEF m
  <2>4. i \in Sound(w) /\ m \in Sound(w) /\ w[i].lsn \in Nat /\ w[m].lsn \in Nat
    BY <2>2, CommitFields
  <2> QED BY <2>1, <2>2, <2>3, <2>4 DEF OrderedFrames
<1> QED BY <1>3, <1>4 DEF EndsBefore

(* Opening an existing WAL preserves the write-ahead rule.                  *)
LEMMA WalScanned ==
  ASSUME SetFacts, TypeInv, TypeInv', WalRule, WalScan \/ WalTailSync
  PROVE  WalRule'
<1> USE DEF TypeInv, WalRule, fileVars, walVars, storeVars, logVars, callVars, histVars, boundVars
<1>0. pc \in {"wal_open", "wal_tail_sync"} /\ ~Serving
  BY DEF WalScan, WalTailSync, Serving, OpeningPcs
<1>1. CASE WalScan /\ ~ScanAccepts(ValidPrefix(wfile))
  BY <1>0, <1>1, WalOpenFails DEF WalScan
<1>2. ASSUME pc' \in {"recover", "wal_tail_sync"}, broken' = broken,
             UNCHANGED <<fileVars, storeVars, group, histVars>>,
             LogInv', CoverInv', EndsBefore(wfile', next_lsn', next_batch_id', last_commit')
      PROVE  WalRule'
  <2>1. ~Serving' /\ GroupInv'
    BY <1>2, NoGroup DEF Serving, OpeningPcs
  <2>2. ~broken
    BY <1>0 DEF EndInv
  <2>3. EndInv'
    BY <1>2, <2>2 DEF EndInv
  <2>4. CheckpointInv'
    BY <1>0, <1>2, <2>1 DEF CheckpointInv
  <2> QED BY <1>2, <2>1, <2>3, <2>4
<1>3. CASE WalScan /\ ScanAccepts(ValidPrefix(wfile))
  <2> DEFINE v == ValidPrefix(wfile)
  <2>1. /\ next_lsn' = ScannedNextLsn(v) /\ next_batch_id' = ScannedNextBatch(v)
        /\ last_commit' = LastCommitLsn(v) /\ wfile' = v /\ wdisk' = wdisk
        /\ pc' \in {"recover", "wal_tail_sync"}
        /\ UNCHANGED <<fileVars, storeVars, group, histVars>>
    BY <1>3 DEF WalScan
  <2>2. broken' = broken
    BY <1>3 DEF WalScan
  <2>3. /\ v \in Seq(Frames) /\ WellFormed(v, checkpointed)
        /\ \A l : Committed(v, l) <=> Committed(wfile, l)
    BY ValidPrefixFacts DEF LogInv, TypeOK
  <2>4. ScanAccepts(v)
    BY <1>3
  <2>5. checkpointed' = checkpointed /\ checkpointed \in Nat /\ \A p : Images(p)' = Images(p)
    BY <2>1 DEF TypeOK, Images
  <2> HIDE DEF v
  <2>6. EndsBefore(v, ScannedNextLsn(v), ScannedNextBatch(v), LastCommitLsn(v))
    BY <2>3, <2>4, ScanEnd DEF WellFormed
  <2>7. LogInv' /\ CoverInv'
    <3>1. WellFormed(wdisk, checkpointed)
      BY DEF LogInv
    <3>2. /\ \A l : Committed(wdisk, l) => Covered(v, checkpointed, l)
          /\ \A l : Committed(v, l) => Covered(wdisk, checkpointed, l)
      BY <1>0, <2>3, CoverFacts DEF Covered
    <3> QED BY <2>1, <2>3, <2>5, <3>1, <3>2, LogStep
  <2> QED BY <1>2, <2>1, <2>2, <2>6, <2>7
<1>4. CASE WalTailSync
  <2>1. /\ SyncWal /\ wfile' = wfile /\ pc = "wal_tail_sync" /\ pc' = "recover"
        /\ UNCHANGED <<fileVars, storeVars, logVars, group, histVars>>
    BY <1>4 DEF WalTailSync, SyncWal
  <2>2. broken' = broken
    BY <1>4 DEF WalTailSync
  <2>3. LogInv' /\ CoverInv'
    BY <2>1, SyncedLog
  <2>4. EndsBefore(wfile', next_lsn', next_batch_id', last_commit')
    BY <2>1 DEF EndInv, Knows
  <2> QED BY <1>2, <2>1, <2>2, <2>3, <2>4
<1> QED BY <1>1, <1>3, <1>4

(* A replayed image is covered by the log it comes from. *)
LEMMA ReplayedImage ==
  ASSUME TypeInv, WalRule, ~Serving, pc = "replay", pos <= Len(wfile), Replayable(wfile, pos, hint)
  PROVE  /\ wfile[pos].page \in PageIds /\ CheckpointOf(wfile[pos].image) <= checkpointed
         /\ wfile[pos].image.kind = "page" => Covered(wdisk, checkpointed, wfile[pos].image.lsn)
<1> USE DEF TypeInv, WalRule
<1>1. pos \in 1..Len(wfile) /\ wfile[pos].type = "page" /\ wfile[pos] \in Frames
  BY DEF TypeOK, Locals, Replayable
<1>2. PICK j \in CommitIndexes(wfile) : wfile[j].batch = wfile[pos].batch
  BY DEF Replayable, BatchCommit
<1>3. wfile[pos].image.kind = "page" => wfile[pos].image.lsn = wfile[j].lsn
  BY <1>1, <1>2 DEF LogInv, WellFormed, StampedImages
<1>4. Covered(wdisk, checkpointed, wfile[j].lsn)
  BY <1>2 DEF CoverInv
<1>5. CheckpointOf(wfile[pos].image) <= checkpointed
  BY <1>1 DEF LogInv, WellFormed, ImagesUpTo
<1> QED BY <1>1, <1>3, <1>4, <1>5, FrameFields

(* Writing the data file while it is recovered or initialized. *)
LEMMA WalRestore ==
  ASSUME TypeInv, TypeInv', WalRule,
         BeginInitialize \/ InitializeWrite \/ BeginReplay \/ ReplayFrame
  PROVE  WalRule'
<1> USE DEF TypeInv, WalRule, fileVars, walVars, storeVars, logVars, callVars, histVars, boundVars
<1>1. /\ pc \in {"recover", "init", "replay"} /\ pc' \in {"init", "replay", "finish"}
      /\ ~Serving /\ ~Serving'
      /\ UNCHANGED <<walVars, storeVars, logVars, group, hint, histVars>>
  BY DEF BeginInitialize, InitializeWrite, BeginReplay, ReplayFrame, Serving, OpeningPcs
<1>2. broken' = broken
  BY DEF BeginInitialize, InitializeWrite, BeginReplay, ReplayFrame
<1>3. ~broken
  BY <1>1 DEF EndInv
<1>4. checkpointed' = checkpointed /\ checkpointed \in Nat
  BY <1>1 DEF TypeOK
<1>5. ASSUME NEW q \in PageIds, NEW c, WritePage(q, c), CheckpointOf(c) <= checkpointed,
             c.kind = "page" /\ c.lsn > 0 => Covered(wdisk, checkpointed, c.lsn)
      PROVE  /\ \A s \in Slots : CheckpointOf(dfile'[s]) <= checkpointed
             /\ \A p \in DataPages : \A d \in Images(p)' : d.kind = "page" /\ d.lsn > 0 =>
                  d \in Images(p) \/ Covered(wdisk, checkpointed, d.lsn)
  <2>1. \A s \in Slots : CheckpointOf(dfile'[s]) <= checkpointed
    BY <1>1, <1>5, PageIdFacts DEF WritePage, CheckpointInv, TypeOK
  <2>2. \A p \in DataPages : \A d \in Images(p)' : d \in Images(p) \/ d = c
    BY <1>1, <1>5, PageIdFacts DEF WritePage, Images, TypeOK
  <2> QED BY <1>5, <2>1, <2>2
<1>6. ASSUME NEW h, ExtendFile(h)
      PROVE  /\ \A s \in Slots : CheckpointOf(dfile'[s]) <= checkpointed
             /\ \A p \in DataPages : \A d \in Images(p)' : d.kind = "page" /\ d.lsn > 0 => d \in Images(p)
  <2>1. Garbage.kind # "page" /\ CheckpointOf(Garbage) = 0
    BY DEF Garbage, CheckpointOf, IsSuper
  <2>2. dirty_pages' = dirty_pages
    BY <1>1
  <2>3. \A s \in Slots : dfile'[s] = dfile[s] \/ dfile'[s] = Garbage
    BY <1>6, <2>2, ExtendedFile, PageIdFacts
  <2>4. \A s \in Slots : CheckpointOf(dfile'[s]) <= checkpointed
    <3>1. \A s \in Slots : CheckpointOf(dfile[s]) <= checkpointed
      BY <1>1 DEF CheckpointInv
    <3> QED BY <1>4, <2>1, <2>3, <3>1
  <2> QED BY <1>6, <2>1, <2>2, <2>4, ExtendedFile
<1>7. /\ \A s \in Slots : CheckpointOf(dfile'[s]) <= checkpointed
      /\ \A p \in DataPages : \A d \in Images(p)' : d.kind = "page" /\ d.lsn > 0 =>
           d \in Images(p) \/ Covered(wdisk, checkpointed, d.lsn)
  <2>1. CASE UNCHANGED fileVars
    BY <1>1, <2>1 DEF CheckpointInv, Images
  <2>2. CASE \E h : ExtendFile(h)
    BY <1>6, <2>2
  <2>3. CASE InitializeWrite
    <3> DEFINE c == IF pos \in Slots THEN InitialSuperblock ELSE DataPage(0, 0)
    <3>1. pos \in PageIds /\ WritePage(pos, c)
      <4>1. WritePage(pos, c) /\ pos <= FIRST_DATA_PAGE
        BY <2>3 DEF InitializeWrite
      <4>2. pos \in Nat
        BY CallTypes
      <4> QED BY <4>1, <4>2, BoundsAssumption DEF PageIds, FIRST_DATA_PAGE
    <3>2. CheckpointOf(c) = 0 /\ ~(c.kind = "page" /\ c.lsn > 0)
      <4>1. InitialSuperblock.kind = "super" /\ InitialSuperblock.checkpoint_lsn = 0
        BY DEF InitialSuperblock, Superblock
      <4>2. DataPage(0, 0).kind = "page" /\ DataPage(0, 0).lsn = 0
        BY DEF DataPage
      <4> QED BY <4>1, <4>2 DEF CheckpointOf, IsSuper
    <3> HIDE DEF c
    <3>3. CheckpointOf(c) <= checkpointed
      BY <1>4, <3>2
    <3> QED BY <1>5, <3>1, <3>2, <3>3
  <2>4. CASE ReplayFrame /\ ~UNCHANGED fileVars
    <3>1. /\ pc = "replay" /\ pos <= Len(wfile) /\ Replayable(wfile, pos, hint)
          /\ WritePage(wfile[pos].page, wfile[pos].image)
      BY <2>4 DEF ReplayFrame
    <3>2. /\ wfile[pos].page \in PageIds /\ CheckpointOf(wfile[pos].image) <= checkpointed
          /\ wfile[pos].image.kind = "page" => Covered(wdisk, checkpointed, wfile[pos].image.lsn)
      BY <1>1, <3>1, ReplayedImage
    <3> QED BY <1>5, <3>1, <3>2
  <2>5. BeginInitialize \/ BeginReplay => UNCHANGED fileVars \/ \E h : ExtendFile(h)
    BY DEF BeginInitialize, BeginReplay
  <2> QED BY <2>1, <2>2, <2>3, <2>4, <2>5
<1>8. LogInv' /\ CoverInv'
  BY <1>1, <1>4, <1>7, KeptLog
<1>9. EndInv' /\ GroupInv' /\ CheckpointInv'
  <2>1. EndInv'
    BY <1>1, <1>2, <1>3 DEF EndInv, Knows
  <2>2. GroupInv'
    BY <1>1, NoGroup
  <2>3. CheckpointInv'
    BY <1>1, <1>4, <1>7 DEF CheckpointInv, Serving, OpeningPcs
  <2> QED BY <2>1, <2>2, <2>3
<1> QED BY <1>8, <1>9

(* The sync of the recovered data file and the adoption of its superblock   *)
(* preserve the write-ahead rule.                                           *)
LEMMA WalRestored ==
  ASSUME SetFacts, TypeInv, TypeInv', WalRule, InitializeSync \/ ReplaySync \/ FinishOpen
  PROVE  WalRule'
<1> USE DEF TypeInv, WalRule, fileVars, walVars, storeVars, logVars, callVars, histVars, boundVars
<1>1. pc \in {"init", "replay", "finish"} /\ ~Serving
  BY DEF InitializeSync, ReplaySync, FinishOpen, Serving, OpeningPcs
<1>2. ~broken /\ EndsBefore(wfile, next_lsn, next_batch_id, last_commit)
  BY <1>1 DEF EndInv, Knows
<1>3. CASE OpenFails
  BY <1>1, <1>3, WalOpenFails
<1>4. CASE InitializeSync \/ ReplaySync
  <2>1. /\ SyncFile /\ pc' \in {"open", "finish"} /\ UNCHANGED <<walVars, dirty_pages, logVars>>
    BY <1>4 DEF InitializeSync, ReplaySync
  <2>2. broken' = broken
    BY <1>4 DEF InitializeSync, ReplaySync
  <2>3. /\ checkpointed <= checkpointed' /\ checkpointed' \in Nat /\ checkpointed \in Nat
        /\ \A s \in Slots : CheckpointOf(dfile[s]) <= checkpointed'
    BY <2>1, FileTypes DEF SyncFile, TypeOK
  <2>4. \A p \in DataPages : \A c \in Images(p)' : c \in Images(p)
    BY <2>1, PageIdFacts DEF SyncFile, NothingPending, Images, TypeOK
  <2>5. LogInv' /\ CoverInv'
    BY <1>1, <2>1, <2>3, <2>4, KeptLog
  <2>6. EndInv'
    BY <1>2, <2>1, <2>2 DEF EndInv, Knows
  <2>7. GroupInv'
    BY <2>1, NoGroup
  <2>8. CheckpointInv'
    <3>1. CASE InitializeSync
      <4>1. pc' = "open" /\ Serving' /\ current_superblock' = InitialSuperblock
        BY <3>1 DEF InitializeSync, Serving, OpeningPcs
      <4>2. current_superblock'.checkpoint_lsn = 0
        BY <4>1 DEF InitialSuperblock, Superblock
      <4>3. current_superblock'.checkpoint_lsn <= checkpointed'
        BY <2>3, <4>2
      <4> QED BY <4>1, <4>3, CheckpointServed
    <3>2. CASE ReplaySync
      <4>1. pc' = "finish" /\ ~Serving' /\ dfile' = dfile
        BY <3>2 DEF ReplaySync, SyncFile, Serving, OpeningPcs
      <4> QED BY <2>3, <4>1 DEF CheckpointInv
    <3> QED BY <1>4, <3>1, <3>2
  <2> QED BY <2>5, <2>6, <2>7, <2>8
<1>5. CASE FinishOpen /\ ~OpenFails
  <2> DEFINE super == choose_superblock(dfile)
  <2>1. /\ pc' = "open" /\ SomeSuperblock(dfile) /\ current_superblock' = super
        /\ next_lsn' = resume_after(super.checkpoint_lsn)
        /\ UNCHANGED <<fileVars, walVars, dirty_pages, next_batch_id, last_commit, checkpointed>>
    BY <1>5 DEF FinishOpen, AdoptFile
  <2>2. broken' = broken
    BY <1>5 DEF FinishOpen, AdoptFile
  <2>3. Serving'
    BY <2>1 DEF Serving, OpeningPcs
  <2>4. PICK s \in Slots : super = dfile[s] /\ IsSuper(dfile[s])
    BY <2>1 DEF choose_superblock, SelectedSlot, SomeSuperblock, Slots
  <2>5. super.checkpoint_lsn <= checkpointed
    BY <1>1, <2>4 DEF CheckpointInv, CheckpointOf
  <2>6. super.checkpoint_lsn \in Nat
    BY <2>4, PageIdFacts, SuperTypes DEF IsSuper, Supers, TypeOK
  <2> HIDE DEF super
  <2>7. checkpointed \in Nat /\ next_lsn \in Nat
    BY DEF TypeOK
  <2>8. LogInv' /\ CoverInv'
    <3>1. \A p : Images(p)' = Images(p)
      BY <2>1 DEF Images
    <3> QED BY <1>1, <2>1, <2>7, <3>1, KeptLog
  <2>9. EndInv'
    <3>1. next_lsn <= next_lsn' /\ next_lsn' \in Nat
      BY <2>1, <2>6, <2>7 DEF resume_after
    <3>2. \A i \in Sound(wfile) : wfile[i].lsn \in Nat
      BY SoundFields DEF TypeOK
    <3>3. EndsBefore(wfile, next_lsn', next_batch_id, last_commit)
      <4>1. /\ \A i \in Sound(wfile) : wfile[i].lsn < next_lsn /\ wfile[i].batch < next_batch_id
            /\ \A i \in CommitIndexes(wfile) : wfile[i].lsn <= last_commit
        BY <1>2 DEF EndsBefore
      <4>2. \A i \in Sound(wfile) : wfile[i].lsn < next_lsn'
        BY <2>7, <3>1, <3>2, <4>1
      <4> QED BY <4>1, <4>2 DEF EndsBefore
    <3> QED BY <2>1, <3>3 DEF EndInv
  <2>10. GroupInv'
    BY <2>1, NoGroup
  <2>11. CheckpointInv'
    BY <2>1, <2>3, <2>5 DEF CheckpointInv
  <2> QED BY <2>8, <2>9, <2>10, <2>11
<1> QED BY <1>3, <1>4, <1>5

(* open_with_wal_internal preserves the write-ahead rule.                   *)
LEMMA WalOpen ==
  ASSUME SetFacts
  PROVE  TypeInv /\ TypeInv' /\ WalRule /\ OpenShard => WalRule'
BY WalCreate, WalScanned, WalRestore, WalRestored DEF OpenShard

-----------------------------------------------------------------------------
(* A write cut short leaves a torn page or a torn frame, which say nothing. *)
LEMMA CutShortFacts ==
  ASSUME TypeInv, TypeInv', WalRule, CutShort,
         UNCHANGED <<dirty_pages, checkpointed>>, Serving' <=> Serving
  PROVE  /\ LogInv' /\ CoverInv'
         /\ ~Serving => \A s \in Slots : CheckpointOf(dfile'[s]) <= checkpointed
<1> USE DEF TypeInv, WalRule, fileVars, walVars
<1>0. checkpointed \in Nat /\ checkpointed' = checkpointed
  BY DEF TypeOK
<1>1. CASE UNCHANGED <<fileVars, walVars>>
  <2>1. \A p : Images(p)' = Images(p)
    BY <1>1 DEF Images
  <2> QED BY <1>0, <1>1, <2>1, KeptLog DEF CheckpointInv
<1>2. ASSUME NEW q \in PageBeingWritten, WritePage(q, Garbage), UNCHANGED walVars
      PROVE  /\ LogInv' /\ CoverInv'
             /\ ~Serving => \A s \in Slots : CheckpointOf(dfile'[s]) <= checkpointed
  <2>1. Garbage.kind # "page" /\ CheckpointOf(Garbage) = 0
    BY DEF Garbage, CheckpointOf, IsSuper
  <2>2. \A p \in PageIds : /\ dfile'[p] = dfile[p] \/ dfile'[p] = Garbage
                           /\ dpend'[p] \subseteq dpend[p] \cup {Garbage}
                           /\ ddisk'[p] = ddisk[p]
    BY <1>2 DEF WritePage, TypeOK
  <2>3. \A p \in DataPages : \A c \in Images(p)' : c \in Images(p) \/ c = Garbage
    <3> SUFFICES ASSUME NEW p \in DataPages, NEW c \in Images(p)' PROVE c \in Images(p) \/ c = Garbage
      OBVIOUS
    <3>1. p \in PageIds
      BY PageIdFacts
    <3>2. \/ c \in dpend'[p] \/ c = dirty_pages[p]
          \/ c = dfile'[p] \/ c = ddisk'[p]
      BY DEF Images
    <3> QED BY <2>2, <3>1, <3>2 DEF Images
  <2>4. LogInv' /\ CoverInv'
    BY <1>0, <1>2, <2>1, <2>3, KeptLog
  <2>5. ASSUME ~Serving, NEW s \in Slots PROVE CheckpointOf(dfile'[s]) <= checkpointed
    <3>1. dfile'[s] = dfile[s] \/ dfile'[s] = Garbage
      BY <2>2, PageIdFacts
    <3> QED BY <1>0, <2>1, <2>5, <3>1 DEF CheckpointInv
  <2> QED BY <2>4, <2>5
<1>3. ASSUME NEW f \in FrameBeingWritten, wfile' = Append(wfile, f), UNCHANGED <<fileVars, wdisk>>
      PROVE  /\ LogInv' /\ CoverInv'
             /\ ~Serving => \A s \in Slots : CheckpointOf(dfile'[s]) <= checkpointed
  <2>1. f \in Frames /\ f.type = "torn"
    <3>1. f \in {TornFrame(0), TornFrame(history_start_lsn), TornFrame(hint)}
      BY DEF FrameBeingWritten
    <3>2. history_start_lsn \in Nat /\ hint \in Nat
      BY DEF TypeOK
    <3>3. PICK n \in Nat : f = TornFrame(n)
      BY <3>1, <3>2
    <3> QED BY <3>3, FrameTypes DEF TornFrame
  <2>2. wfile \in Seq(Frames) /\ WellFormed(wfile, checkpointed) /\ WellFormed(wdisk, checkpointed)
    BY DEF TypeOK, LogInv
  <2>3. WellFormed(wfile', checkpointed)
    BY <1>0, <1>3, <2>1, <2>2, LogTorn
  <2>4. /\ CommitIndexes(wfile') = CommitIndexes(wfile)
        /\ \A i \in CommitIndexes(wfile) : wfile'[i] = wfile[i]
    <3>1. /\ CommitIndexes(Append(wfile, f)) =
               CommitIndexes(wfile) \cup (IF f.type = "commit" THEN {Len(wfile) + 1} ELSE {})
          /\ \A i \in 1..Len(wfile) : Append(wfile, f)[i] = wfile[i]
      BY <2>1, <2>2, AppendFacts
    <3>2. \A i \in CommitIndexes(wfile) : i \in 1..Len(wfile)
      BY DEF CommitIndexes
    <3> QED BY <1>3, <2>1, <3>1, <3>2
  <2>5. \A l : Committed(wfile', l) <=> Committed(wfile, l)
    BY <2>4 DEF Committed
  <2>6. \A p : Images(p)' = Images(p)
    BY <1>3 DEF Images
  <2>7. LogInv' /\ CoverInv'
    <3>1. /\ \A l : Committed(wdisk, l) => Covered(wfile', checkpointed, l)
          /\ ~Serving' => \A l : Committed(wfile', l) => Covered(wdisk, checkpointed, l)
      BY <2>5, CoverFacts DEF Covered
    <3> QED BY <1>0, <1>3, <2>2, <2>3, <2>6, <3>1, LogStep
  <2> QED BY <1>3, <2>7 DEF CheckpointInv
<1> QED BY <1>1, <1>2, <1>3 DEF CutShort

(* A failed file operation and a power loss preserve the write-ahead rule.  *)
LEMMA WalFailure ==
  ASSUME SetFacts, TypeInv, TypeInv', WalRule, IoError \/ PowerLoss
  PROVE  WalRule'
<1> USE DEF TypeInv, WalRule, fileVars, walVars, storeVars, logVars, callVars, histVars, boundVars
<1>1. CASE IoError
  <2>1. /\ pc' = (IF Serving THEN "open" ELSE "closed") /\ CutShort
        /\ UNCHANGED <<storeVars, logVars, histVars>>
    BY <1>1 DEF IoError
  <2>2. pc' \in {"open", "closed"} /\ (Serving' <=> Serving)
    BY <2>1 DEF Serving, OpeningPcs
  <2>3. LogInv' /\ CoverInv' /\ (~Serving => \A s \in Slots : CheckpointOf(dfile'[s]) <= checkpointed)
    BY <2>1, <2>2, CutShortFacts
  <2>4. GroupInv'
    BY <2>2, NoGroup
  <2>5. CheckpointInv'
    BY <2>1, <2>2, <2>3 DEF CheckpointInv
  <2>6. EndInv'
    <3>1. CASE Serving
      <4>1. broken' /\ pc' = "open"
        BY <1>1, <3>1 DEF IoError
      <4>2. ~Knows'
        BY <4>1 DEF Knows
      <4> QED BY <4>1, <4>2 DEF EndInv
    <3>2. CASE ~Serving
      <4>1. pc' = "closed" /\ broken' = broken
        BY <1>1, <3>2 DEF IoError
      <4>2. ~broken
        BY <3>2 DEF EndInv, Serving, OpeningPcs
      <4>3. ~Knows'
        BY <2>2, <3>2, <4>1 DEF Knows
      <4> QED BY <4>1, <4>2, <4>3 DEF EndInv
    <3> QED BY <3>1, <3>2
  <2> QED BY <2>3, <2>4, <2>5, <2>6
<1>2. CASE PowerLoss
  <2>1. LoseMemory /\ pc' = "closed" /\ ~Serving' /\ dirty_pages' = [p \in DataPages |-> NoPage]
    BY <1>2 DEF PowerLoss, LoseMemory, Serving, OpeningPcs
  <2>2. PICK w \in WalSurvivors : wfile' = w /\ wdisk' = w
    BY <1>2 DEF PowerLoss
  <2>3. PICK kept \in [Unsynced -> UNION {Survivors(p) : p \in Unsynced}] :
          /\ \A p \in Unsynced : kept[p] \in Survivors(p)
          /\ dfile' = [p \in PageIds |-> IF p \in Unsynced THEN kept[p] ELSE ddisk[p]]
          /\ ddisk' = dfile' /\ dpend' = NothingPending
          /\ NoteCheckpoint(dfile')
    BY <1>2 DEF PowerLoss
  <2>4. /\ checkpointed <= checkpointed' /\ checkpointed' \in Nat /\ checkpointed \in Nat
        /\ \A s \in Slots : CheckpointOf(dfile'[s]) <= checkpointed'
    BY <2>3, FileTypes DEF TypeOK
  <2>5. ASSUME NEW p \in DataPages, NEW c \in Images(p)'
        PROVE  c \in Images(p) \/ c.kind # "page"
    <3>1. p \in PageIds
      BY PageIdFacts
    <3>2. dpend'[p] = {} /\ ddisk'[p] = dfile'[p] /\ dirty_pages'[p] = NoPage
      BY <2>1, <2>3, <3>1 DEF NothingPending
    <3>3. c = dfile'[p] \/ c = NoPage
      BY <2>5, <3>2 DEF Images
    <3>4. dfile'[p] = ddisk[p] \/ dfile'[p] = Garbage \/ dfile'[p] \in dpend[p]
      BY <2>3, <3>1 DEF Survivors
    <3>5. NoPage.kind # "page" /\ Garbage.kind # "page"
      BY DEF NoPage, Garbage
    <3>6. ddisk[p] \in Images(p) /\ dpend[p] \subseteq Images(p)
      BY DEF Images
    <3> QED BY <3>3, <3>4, <3>5, <3>6
  <2>6. LogInv' /\ CoverInv'
    <3>1. /\ WellFormed(w, checkpointed)
          /\ \A l : Covered(wdisk, checkpointed, l) => Covered(w, checkpointed, l)
      BY SurvivorFacts
    <3>2. \A l : Committed(w, l) => Covered(w, checkpointed, l)
      BY DEF Covered
    <3> QED BY <2>2, <2>4, <2>5, <3>1, <3>2, LogStep
  <2>7. GroupInv'
    BY <2>1, NoGroup
  <2>8. CheckpointInv'
    BY <2>1, <2>4 DEF CheckpointInv
  <2>9. EndInv'
    <3>1. ~broken'
      BY <2>1 DEF LoseMemory
    <3> QED BY <2>1, <3>1 DEF EndInv, Knows
  <2> QED BY <2>6, <2>7, <2>8, <2>9
<1> QED BY <1>1, <1>2
==============================================================================
