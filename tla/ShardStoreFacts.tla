--------------------------- MODULE ShardStoreFacts ---------------------------
(***************************************************************************)
(* What the proofs about ShardStore share: the inductive invariants TypeInv *)
(* and WalRule, the types of the data the steps build, and facts about logs. *)
(* WalRule says that frames are ordered, that the images of a batch carry  *)
(* the LSN of its COMMIT frame, that the store knows where its log ends, and *)
(* that every image it holds or has written is covered by a COMMIT frame or *)
(* by a checkpoint on stable storage.                                      *)
(***************************************************************************)
EXTENDS ShardStore, TLAPS

(* What the proofs use about sets of naturals and the size of sets of pages. *)
(* The steps assume it; ShardStoreTheorems proves it from the library.       *)
SetFacts ==
  /\ \A S \in SUBSET Nat, n \in Nat : S # {} /\ (\A i \in S : i <= n)
       => \E i \in S : \A j \in S : j <= i
  /\ \A S \in SUBSET PageIds : Cardinality(S) \in Nat
  /\ \A S, T \in SUBSET PageIds : S \subseteq T => Cardinality(S) <= Cardinality(T)
  /\ \A S \in SUBSET PageIds : \A p \in PageIds \ S : Cardinality(S \cup {p}) = Cardinality(S) + 1
  /\ \A S \in SUBSET PageIds : \A p \in S : Cardinality(S \ {p}) = Cardinality(S) - 1
  /\ Cardinality({}) = 0

(* What the locals of a running call satisfy. *)
Locals ==
  /\ group # <<>> <=> pc \in {"staged", "append", "wal_sync"}
  /\ pc = "append" => pos \in 1..Len(group) /\ left \subseteq BatchPages(group[pos])
  /\ pc = "replay" => pos >= 1
  /\ \A i \in 1..Len(group) : group[i].lsn >= Cardinality(BatchPages(group[i]))

TypeInv == TypeOK /\ Locals

(* The types of the files, of the store in memory, of the log's counters, of *)
(* the running call and of the history.                                      *)
FilesTyped ==
  /\ dfile \in [PageIds -> Contents] /\ ddisk \in [PageIds -> Contents]
  /\ dpend \in [PageIds -> SUBSET Contents]
  /\ wfile \in Seq(Frames) /\ wdisk \in Seq(Frames)
StoreTyped ==
  /\ current_superblock \in (IF Serving THEN Supers ELSE {NoPage})
  /\ active_slot \in Slots
  /\ dirty_pages \in [DataPages -> Contents] /\ dirty_superblock \in {NoPage} \cup Supers
LogTyped ==
  /\ next_lsn \in Nat /\ next_batch_id \in Nat
  /\ history_start_lsn \in Nat /\ last_commit \in Nat
CallTyped ==
  /\ pc \in OpeningPcs \cup CallPcs \cup {"open"}
  /\ goal \in {"none", "flush", "checkpoint"}
  /\ group \in Seq(Batches) /\ pos \in Nat /\ left \in SUBSET PageIds /\ hint \in Nat
HistoryTyped ==
  /\ hist \in Seq(Transactions) /\ doubt \in Seq(Transactions)
  /\ acked \in SUBSET Nat /\ next_tx \in Nat /\ checkpointed \in Nat
  /\ ckpts \in Nat /\ crashes \in Nat /\ faults \in Nat

Sound(w) == {i \in 1..Len(w) : w[i].type # "torn"}
Committed(w, lsn) == \E i \in CommitIndexes(w) : w[i].lsn = lsn
Covered(w, ckpt, lsn) == lsn <= ckpt \/ Committed(w, lsn)

(* Frames are in LSN and batch order; the images of a batch carry the LSN of *)
(* its COMMIT frame, and no checkpoint beyond ckpt.                          *)
OrderedFrames(w) ==
  \A i, j \in Sound(w) : i < j => w[i].lsn < w[j].lsn /\ w[i].batch <= w[j].batch
StampedImages(w) ==
  \A i \in 1..Len(w), j \in CommitIndexes(w) :
    w[i].type = "page" /\ w[i].batch = w[j].batch /\ w[i].image.kind = "page"
      => w[i].image.lsn = w[j].lsn
ImagesUpTo(w, ckpt) ==
  \A i \in 1..Len(w) : w[i].type = "page" => CheckpointOf(w[i].image) <= ckpt
WellFormed(w, ckpt) == OrderedFrames(w) /\ StampedImages(w) /\ ImagesUpTo(w, ckpt)

LogInv == WellFormed(wfile, checkpointed) /\ WellFormed(wdisk, checkpointed)

(* What the store knows about the end of the log. *)
Knows ==
  \/ pc \in {"wal_tail_sync", "recover", "init", "replay", "finish"}
  \/ Serving /\ ~broken /\ pc \notin {"append", "wal_sync"}
EndsBefore(w, lsn, batch, commit) ==
  /\ \A i \in Sound(w) : w[i].lsn < lsn /\ w[i].batch < batch
  /\ \A i \in CommitIndexes(w) : w[i].lsn <= commit
EndInv ==
  /\ broken => pc \in {"open", "staged"} \/ (pc = "flush" /\ goal # "checkpoint")
  /\ pc = "wal_init_sync" => wfile = <<InitFrame(hint)>>
  /\ pc \in {"reset_truncate_sync", "reset_init"} => wfile = <<>>
  /\ pc = "reset_init" => next_lsn > 0 /\ next_batch_id > 0
  /\ Knows => EndsBefore(wfile, next_lsn, next_batch_id, last_commit)

(* The staged group continues the log, and its frames go out in order. *)
GroupInv ==
  /\ \A i \in 1..Len(group) :
       /\ group[i].batch = next_batch_id + i - 1
       /\ group[i].lsn = (IF i = 1 THEN next_lsn ELSE group[i - 1].lsn + 1)
                          + Cardinality(BatchPages(group[i]))
       /\ group[i].super.checkpoint_lsn <= checkpointed
  /\ pc = "append" =>
       /\ \A i \in Sound(wfile) :
            /\ wfile[i].lsn < group[pos].lsn - Cardinality(left)
            /\ wfile[i].batch <= group[pos].batch
            /\ wfile[i].batch = group[pos].batch =>
                 /\ wfile[i].type = "page"
                 /\ wfile[i].image.kind = "page" => wfile[i].image.lsn = group[pos].lsn
       /\ \A i \in 1..(pos - 1) : Committed(wfile, group[i].lsn)
  /\ pc = "wal_sync" =>
       /\ \A i \in Sound(wfile) :
            wfile[i].lsn <= Last(group).lsn /\ wfile[i].batch <= Last(group).batch
       /\ \A i \in 1..Len(group) : Committed(wfile, group[i].lsn)

(* The checkpoint LSNs in memory, and in the file of a closed shard, are     *)
(* those of superblocks on stable storage.                                   *)
CheckpointInv ==
  /\ Serving => current_superblock.checkpoint_lsn <= checkpointed
  /\ ~Serving => \A s \in Slots : CheckpointOf(dfile[s]) <= checkpointed
  /\ pc = "ckpt_sync" => dfile[OtherSlot(active_slot)] = CheckpointSuperblock
  /\ pc = "ckpt_check" => CheckpointLsn <= checkpointed

(* Every image the store holds or has written is covered by the log. *)
Images(p) == dpend[p] \cup {dfile[p], ddisk[p], dirty_pages[p]}
CoverInv ==
  /\ \A p \in DataPages : \A c \in Images(p) :
       c.kind = "page" /\ c.lsn > 0 => Covered(wdisk, checkpointed, c.lsn)
  /\ \A i \in CommitIndexes(wdisk) : Covered(wfile, checkpointed, wdisk[i].lsn)
  /\ ~Serving => \A i \in CommitIndexes(wfile) : Covered(wdisk, checkpointed, wfile[i].lsn)

(* The write-ahead rule in inductive form: wherever append, sync, flush,      *)
(* checkpoint, reset or recovery stands, every image in memory or in the data *)
(* file has its COMMIT frame, or a checkpoint over it, on stable storage.     *)
WalRule == LogInv /\ EndInv /\ GroupInv /\ CheckpointInv /\ CoverInv


-----------------------------------------------------------------------------
(* A nonempty bounded set of naturals has a greatest element, and Latest is it. *)
LEMMA LatestExists ==
  ASSUME SetFacts, NEW S \in SUBSET Nat, S # {}, NEW n \in Nat, \A i \in S : i <= n
  PROVE  Latest(S) \in S /\ \A j \in S : j <= Latest(S)
<1>1. \E i \in S : \A j \in S : j <= i
  BY DEF SetFacts
<1> QED BY <1>1 DEF Latest

(* The parts make up the range invariant, in this state and in the next.     *)
LEMMA TypeParts ==
  /\ TypeOK <=> FilesTyped /\ StoreTyped /\ LogTyped /\ broken \in BOOLEAN
                  /\ CallTyped /\ HistoryTyped
  /\ TypeOK' <=> FilesTyped' /\ StoreTyped' /\ LogTyped' /\ broken' \in BOOLEAN
                  /\ CallTyped' /\ HistoryTyped'
<1>1. TypeOK <=> FilesTyped /\ StoreTyped /\ LogTyped /\ broken \in BOOLEAN
                   /\ CallTyped /\ HistoryTyped
  BY Zenon DEF TypeOK, FilesTyped, StoreTyped, LogTyped, CallTyped, HistoryTyped
<1>2. TypeOK' <=> FilesTyped' /\ StoreTyped' /\ LogTyped' /\ broken' \in BOOLEAN
                    /\ CallTyped' /\ HistoryTyped'
  BY Zenon DEF TypeOK, FilesTyped, StoreTyped, LogTyped, CallTyped, HistoryTyped
<1> QED BY <1>1, <1>2

(* What a step leaves alone keeps its type.                                  *)
LEMMA KeptTypes ==
  ASSUME TypeOK
  PROVE  /\ UNCHANGED <<dfile, ddisk, dpend, wfile, wdisk>> => FilesTyped'
         /\ UNCHANGED <<current_superblock, active_slot, dirty_pages, dirty_superblock>>
              /\ (Serving' <=> Serving) => StoreTyped'
         /\ UNCHANGED <<next_lsn, next_batch_id, history_start_lsn, last_commit>> => LogTyped'
         /\ UNCHANGED broken => broken' \in BOOLEAN
         /\ UNCHANGED <<hist, doubt, acked, next_tx, checkpointed, ckpts, crashes, faults>>
              => HistoryTyped'
<1> USE TypeParts
<1>1. UNCHANGED <<dfile, ddisk, dpend, wfile, wdisk>> => FilesTyped'
  BY DEF FilesTyped
<1>2. UNCHANGED <<current_superblock, active_slot, dirty_pages, dirty_superblock>>
        /\ (Serving' <=> Serving) => StoreTyped'
  BY DEF StoreTyped
<1>3. UNCHANGED <<next_lsn, next_batch_id, history_start_lsn, last_commit>> => LogTyped'
  BY DEF LogTyped
<1>4. UNCHANGED broken => broken' \in BOOLEAN
  OBVIOUS
<1>5. UNCHANGED <<hist, doubt, acked, next_tx, checkpointed, ckpts, crashes, faults>>
        => HistoryTyped'
  BY DEF HistoryTyped
<1> QED BY <1>1, <1>2, <1>3, <1>4, <1>5

(* The types of the log and of the locals of the running call.               *)
LEMMA CallTypes ==
  ASSUME TypeOK
  PROVE  /\ wfile \in Seq(Frames) /\ wdisk \in Seq(Frames)
         /\ Len(wfile) \in Nat /\ Len(wdisk) \in Nat
         /\ group \in Seq(Batches) /\ Len(group) \in Nat
         /\ pos \in Nat /\ left \in SUBSET PageIds /\ hint \in Nat
         /\ hist \in Seq(Transactions) /\ doubt \in Seq(Transactions)
<1>1. FilesTyped /\ CallTyped /\ HistoryTyped
  BY TypeParts
<1> QED BY <1>1 DEF FilesTyped, CallTyped, HistoryTyped

(* The two superblock slots and the data pages partition the page ids.      *)
LEMMA PageIdFacts ==
  /\ DataPages \subseteq PageIds /\ DataPages \cap Slots = {}
  /\ Slots \subseteq PageIds /\ FIRST_DATA_PAGE \in DataPages
  /\ PageIds \subseteq Nat /\ DataPages \subseteq Nat /\ PageIds \ Slots = DataPages
  /\ \A s \in Slots : OtherSlot(s) \in Slots
BY BoundsAssumption DEF DataPages, PageIds, Slots, SlotA, SlotB, FIRST_DATA_PAGE, OtherSlot

(* The page contents the store builds are contents of a page.               *)
LEMMA ContentTypes ==
  /\ NoPage \in Contents /\ Garbage \in Contents /\ Supers \subseteq Contents
  /\ \A l, t \in Nat : DataPage(l, t) \in Contents
  /\ \A g, k, t \in Nat, h \in DataPages : Superblock(g, k, h, t) \in Supers
  /\ NoPage \notin Supers
  /\ \A c \in Contents : c.kind = "page" => c.lsn \in Nat /\ c.by \in Nat
BY DEF NoPage, Garbage, DataPage, Superblock, Supers, Contents

(* The fields of a decoded superblock.                                      *)
LEMMA SuperTypes ==
  ASSUME NEW c \in Supers
  PROVE  /\ c.kind = "super" /\ c.generation \in Nat /\ c.checkpoint_lsn \in Nat
         /\ c.high_water_page_id \in DataPages /\ c.by \in Nat
BY DEF NoPage, Garbage, Supers, Contents

(* The frames encode_frame builds are frames.                               *)
LEMMA FrameTypes ==
  /\ \A n \in Nat : InitFrame(n) \in Frames /\ TornFrame(n) \in Frames
  /\ \A l, b, n \in Nat, p \in PageIds, c \in Contents : PageFrame(l, b, n, p, c) \in Frames
  /\ \A l, b, n \in Nat : CommitFrame(l, b, n) \in Frames
BY DEF Frames, InitFrame, TornFrame, PageFrame, CommitFrame

(* The fields of a decoded frame, and a frame cut short is a torn frame.    *)
LEMMA FrameFields ==
  ASSUME NEW f \in Frames
  PROVE  /\ f.type \in {"init", "page", "commit", "torn"}
         /\ f.type # "torn" => f.lsn \in Nat /\ f.batch \in Nat
         /\ f.type = "init" => f.start \in Nat /\ f.lsn = 0 /\ f.batch = 0
         /\ f.type = "page" => f.page \in PageIds /\ f.image \in Contents
         /\ f.type = "torn" => f.start \in Nat
         /\ Torn(f) \in Frames /\ Torn(f).type = "torn"
<1>1. f.type = "init" => f \in [type : {"init"}, lsn : {0}, batch : {0}, start : Nat]
  BY DEF Frames
<1> QED BY <1>1 DEF Frames, Torn, TornFrame

(* The sizes of sets of pages are numbers, and grow with the set.           *)
LEMMA PageSets ==
  ASSUME SetFacts
  PROVE  /\ \A S \in SUBSET PageIds : Cardinality(S) \in Nat
         /\ \A S, T \in SUBSET PageIds : S \subseteq T => Cardinality(S) <= Cardinality(T)
BY DEF SetFacts

(* The fields of a staged batch: its frames are its data pages and one      *)
(* superblock.                                                              *)
LEMMA BatchFields ==
  ASSUME SetFacts, NEW c \in Batches
  PROVE  /\ c.tx \in Nat /\ c.pages \in SUBSET DataPages /\ c.batch \in Nat
         /\ c.lsn \in Nat /\ c.super \in Supers /\ c.slot \in Slots
         /\ BatchPages(c) \in SUBSET PageIds
         /\ Cardinality(BatchPages(c)) = Cardinality(c.pages) + 1
<1>1. /\ c.tx \in Nat /\ c.pages \in SUBSET DataPages /\ c.batch \in Nat
      /\ c.lsn \in Nat /\ c.super \in Supers /\ c.slot \in Slots
  BY DEF Batches
<1>2. c.pages \in SUBSET PageIds /\ c.slot \in PageIds /\ c.slot \notin c.pages
  BY <1>1, PageIdFacts
<1>3. Cardinality(c.pages \cup {c.slot}) = Cardinality(c.pages) + 1
  BY <1>2 DEF SetFacts
<1> QED BY <1>1, <1>2, <1>3 DEF BatchPages

(* Page writes, extension and sync keep the data file a function from pages *)
(* to contents, and a sync never lowers the noted checkpoint.               *)
LEMMA FileTypes ==
  ASSUME SetFacts, TypeOK
  PROVE  /\ \A p \in PageIds, c \in Contents : WritePage(p, c) =>
              /\ dfile' \in [PageIds -> Contents] /\ ddisk' \in [PageIds -> Contents]
              /\ dpend' \in [PageIds -> SUBSET Contents]
         /\ \A h : ExtendFile(h) =>
              /\ dfile' \in [PageIds -> Contents] /\ ddisk' \in [PageIds -> Contents]
              /\ dpend' \in [PageIds -> SUBSET Contents]
         /\ SyncFile =>
              /\ dfile' \in [PageIds -> Contents] /\ ddisk' \in [PageIds -> Contents]
              /\ dpend' \in [PageIds -> SUBSET Contents]
         /\ \A f \in [PageIds -> Contents] : NoteCheckpoint(f) =>
              /\ checkpointed' \in Nat /\ checkpointed <= checkpointed'
              /\ \A s \in Slots : CheckpointOf(f[s]) <= checkpointed'
<1>1. \A p \in PageIds, c \in Contents : WritePage(p, c) =>
              /\ dfile' \in [PageIds -> Contents] /\ ddisk' \in [PageIds -> Contents]
              /\ dpend' \in [PageIds -> SUBSET Contents]
  BY DEF TypeOK, WritePage
<1>2. \A h : ExtendFile(h) =>
              /\ dfile' \in [PageIds -> Contents] /\ ddisk' \in [PageIds -> Contents]
              /\ dpend' \in [PageIds -> SUBSET Contents]
  BY ContentTypes DEF TypeOK, ExtendFile
<1>3. SyncFile =>
              /\ dfile' \in [PageIds -> Contents] /\ ddisk' \in [PageIds -> Contents]
              /\ dpend' \in [PageIds -> SUBSET Contents]
  BY DEF TypeOK, SyncFile, NothingPending
<1>4. ASSUME NEW f \in [PageIds -> Contents], NoteCheckpoint(f)
      PROVE  /\ checkpointed' \in Nat /\ checkpointed <= checkpointed'
             /\ \A s \in Slots : CheckpointOf(f[s]) <= checkpointed'
  <2> DEFINE S == {checkpointed} \cup {CheckpointOf(f[s]) : s \in Slots}
  <2>1. \A s \in Slots : CheckpointOf(f[s]) \in Nat
    BY PageIdFacts, SuperTypes DEF CheckpointOf, IsSuper, Supers
  <2>2. S \in SUBSET Nat /\ S # {}
    BY <2>1 DEF TypeOK
  <2>3. \E n \in Nat : \A i \in S : i <= n
    <3> DEFINE n == checkpointed + CheckpointOf(f[SlotA]) + CheckpointOf(f[SlotB])
    <3>1. n \in Nat /\ \A i \in S : i <= n
      BY <2>1 DEF Slots, TypeOK
    <3> QED BY <3>1
  <2>4. checkpointed' = Latest(S)
    BY <1>4 DEF NoteCheckpoint
  <2>5. Latest(S) \in S /\ \A j \in S : j <= Latest(S)
    BY <2>2, <2>3, LatestExists
  <2> QED BY <2>2, <2>4, <2>5
<1> QED BY <1>1, <1>2, <1>3, <1>4

(* The superblock a checkpoint writes is a superblock.                      *)
LEMMA CheckpointTypes ==
  ASSUME TypeOK, Serving
  PROVE  CheckpointLsn \in Nat /\ CheckpointSuperblock \in Supers
<1>1. current_superblock \in Supers /\ last_commit \in Nat
  BY DEF TypeOK
<1>2. /\ current_superblock.generation + 1 \in Nat /\ current_superblock.by \in Nat
      /\ current_superblock.high_water_page_id \in DataPages
      /\ current_superblock.checkpoint_lsn \in Nat
  BY <1>1, SuperTypes
<1>3. CheckpointLsn \in Nat
  BY <1>1, <1>2 DEF CheckpointLsn
<1> QED BY <1>2, <1>3, ContentTypes DEF CheckpointSuperblock

-----------------------------------------------------------------------------
(* An empty log and a log holding only its identity frame are well formed.  *)
LEMMA ShortLogs ==
  ASSUME NEW k \in Nat, NEW h \in Nat
  PROVE  WellFormed(<<>>, k) /\ WellFormed(<<InitFrame(h)>>, k)
         /\ CommitIndexes(<<>>) = {} /\ CommitIndexes(<<InitFrame(h)>>) = {}
BY DEF WellFormed, OrderedFrames, StampedImages, ImagesUpTo, Sound, CommitIndexes, InitFrame

(* A newer checkpoint covers whatever an older one covered.                 *)
LEMMA RaisedCheckpoint ==
  ASSUME NEW w \in Seq(Frames), NEW k \in Nat, NEW m \in Nat, k <= m
  PROVE  /\ WellFormed(w, k) => WellFormed(w, m)
         /\ \A l \in Nat : Covered(w, k, l) => Covered(w, m, l)
<1>1. ASSUME NEW i \in 1..Len(w), w[i].type = "page" PROVE CheckpointOf(w[i].image) \in Nat
  <2>1. w[i].image \in Contents
    BY <1>1, FrameFields
  <2> QED BY <2>1, SuperTypes DEF CheckpointOf, IsSuper, Supers
<1> QED BY <1>1 DEF WellFormed, ImagesUpTo, Covered

(* A prefix of a well-formed log is well formed.                            *)
LEMMA LogPrefix ==
  ASSUME NEW w \in Seq(Frames), NEW k \in Nat, NEW n \in 0..Len(w), WellFormed(w, k)
  PROVE  WellFormed(SubSeq(w, 1, n), k)
<1> DEFINE v == SubSeq(w, 1, n)
<1>1. v \in Seq(Frames) /\ Len(v) = n /\ \A i \in 1..n : v[i] = w[i] /\ i \in 1..Len(w)
  OBVIOUS
<1> HIDE DEF v
<1>2. Sound(v) \subseteq Sound(w) /\ CommitIndexes(v) \subseteq CommitIndexes(w)
  BY <1>1 DEF Sound, CommitIndexes
<1>3. \A i \in Sound(v) : i \in 1..n
  BY <1>1 DEF Sound
<1>4. \A i \in CommitIndexes(v) : i \in 1..n
  BY <1>1 DEF CommitIndexes
<1>5. OrderedFrames(v)
  BY <1>1, <1>2, <1>3 DEF WellFormed, OrderedFrames
<1>6. StampedImages(v)
  BY <1>1, <1>2, <1>4 DEF WellFormed, StampedImages
<1>7. ImagesUpTo(v, k)
  BY <1>1 DEF WellFormed, ImagesUpTo
<1> QED BY <1>5, <1>6, <1>7 DEF WellFormed, v

(* What append_frame adds to a log.                                         *)
LEMMA AppendFacts ==
  ASSUME NEW w \in Seq(Frames), NEW f \in Frames
  PROVE  LET v == Append(w, f) IN
         /\ v \in Seq(Frames) /\ Len(v) = Len(w) + 1 /\ v[Len(w) + 1] = f
         /\ \A i \in 1..Len(w) : v[i] = w[i]
         /\ Sound(v) = Sound(w) \cup (IF f.type = "torn" THEN {} ELSE {Len(w) + 1})
         /\ CommitIndexes(v) = CommitIndexes(w) \cup (IF f.type = "commit" THEN {Len(w) + 1} ELSE {})
         /\ \A l : Committed(w, l) => Committed(v, l)
<1> DEFINE v == Append(w, f)
<1>1. /\ v \in Seq(Frames) /\ Len(v) = Len(w) + 1 /\ v[Len(w) + 1] = f
      /\ \A i \in 1..Len(w) : v[i] = w[i]
  OBVIOUS
<1>2. 1..Len(v) = 1..Len(w) \cup {Len(w) + 1} /\ Len(w) + 1 \notin 1..Len(w)
  BY <1>1
<1> HIDE DEF v
<1>3. Sound(v) = Sound(w) \cup (IF f.type = "torn" THEN {} ELSE {Len(w) + 1})
  BY <1>1, <1>2 DEF Sound
<1>4. CommitIndexes(v) = CommitIndexes(w) \cup (IF f.type = "commit" THEN {Len(w) + 1} ELSE {})
  BY <1>1, <1>2 DEF CommitIndexes
<1>5. \A i \in CommitIndexes(w) : v[i] = w[i]
  BY <1>1 DEF CommitIndexes
<1>6. \A l : Committed(w, l) => Committed(v, l)
  BY <1>4, <1>5 DEF Committed
<1> QED BY <1>1, <1>3, <1>4, <1>6 DEF v

(* Appending a torn frame changes nothing that is read.                     *)
LEMMA LogTorn ==
  ASSUME NEW w \in Seq(Frames), NEW k \in Nat, WellFormed(w, k),
         NEW f \in Frames, f.type = "torn"
  PROVE  WellFormed(Append(w, f), k)
<1> DEFINE v == Append(w, f)
<1>0. /\ Len(v) = Len(w) + 1 /\ v[Len(w) + 1] = f /\ \A i \in 1..Len(w) : v[i] = w[i]
      /\ Sound(v) = Sound(w) \cup (IF f.type = "torn" THEN {} ELSE {Len(w) + 1})
      /\ CommitIndexes(v) = CommitIndexes(w) \cup (IF f.type = "commit" THEN {Len(w) + 1} ELSE {})
  BY AppendFacts
<1>1. /\ Len(v) = Len(w) + 1 /\ v[Len(w) + 1] = f /\ \A i \in 1..Len(w) : v[i] = w[i]
      /\ Sound(v) = Sound(w) /\ CommitIndexes(v) = CommitIndexes(w)
  <2> HIDE DEF v
  <2> QED BY <1>0
<1>2. 1..Len(v) = 1..Len(w) \cup {Len(w) + 1}
  BY <1>1
<1> HIDE DEF v
<1>3. OrderedFrames(v)
  BY <1>1 DEF WellFormed, OrderedFrames, Sound
<1>4. StampedImages(v)
  <2>1. SUFFICES ASSUME NEW i \in 1..Len(v), NEW j \in CommitIndexes(w),
                        v[i].type = "page", v[i].batch = v[j].batch, v[i].image.kind = "page"
                 PROVE  v[i].image.lsn = v[j].lsn
    BY <1>1 DEF StampedImages
  <2>2. i \in 1..Len(w) /\ v[i] = w[i]
    BY <1>1, <1>2, <2>1
  <2>3. j \in 1..Len(w) /\ v[j] = w[j]
    BY <1>1 DEF CommitIndexes
  <2> QED BY <2>1, <2>2, <2>3 DEF WellFormed, StampedImages
<1>5. ImagesUpTo(v, k)
  BY <1>1, <1>2 DEF WellFormed, ImagesUpTo
<1> QED BY <1>3, <1>4, <1>5 DEF WellFormed, v

(* Frames that are not torn have an LSN and a batch id.                     *)
LEMMA SoundFields ==
  ASSUME NEW w \in Seq(Frames), NEW i \in Sound(w)
  PROVE  i \in 1..Len(w) /\ w[i] \in Frames /\ w[i].lsn \in Nat /\ w[i].batch \in Nat
<1>1. i \in 1..Len(w) /\ w[i] \in Frames /\ w[i].type # "torn"
  BY DEF Sound
<1> QED BY <1>1, FrameFields

(* COMMIT frames are not torn.                                              *)
LEMMA CommitFields ==
  ASSUME NEW w \in Seq(Frames), NEW i \in CommitIndexes(w)
  PROVE  i \in Sound(w) /\ w[i].type = "commit" /\ w[i].lsn \in Nat
<1>1. i \in Sound(w) /\ w[i].type = "commit"
  BY DEF Sound, CommitIndexes
<1> QED BY <1>1, SoundFields

(* A served superblock behind the noted checkpoint is all CheckpointInv asks *)
(* of a store outside the two checkpoint steps.                             *)
LEMMA CheckpointServed ==
  ASSUME Serving', pc' \notin {"ckpt_sync", "ckpt_check"},
         current_superblock'.checkpoint_lsn <= checkpointed'
  PROVE  CheckpointInv'
BY DEF CheckpointInv

(* The group part says nothing when no group is staged. *)
LEMMA NoGroup ==
  ASSUME TypeInv', pc' \notin {"staged", "append", "wal_sync"}
  PROVE  GroupInv'
<1>1. group' = <<>>
  BY DEF TypeInv, Locals
<1>2. 1..Len(group') = {}
  BY <1>1
<1> QED BY <1>2 DEF GroupInv

(* What a step owes the invariant about the logs and the images. *)
LEMMA LogStep ==
  ASSUME TypeInv, TypeInv', WalRule, checkpointed <= checkpointed',
         WellFormed(wfile', checkpointed), WellFormed(wdisk', checkpointed),
         \A p \in DataPages : \A c \in Images(p)' :
           c.kind = "page" /\ c.lsn > 0 => c \in Images(p) \/ Covered(wdisk', checkpointed, c.lsn),
         \A l : Covered(wdisk, checkpointed, l) => Covered(wdisk', checkpointed, l),
         \A l : Committed(wdisk', l) => Covered(wfile', checkpointed, l),
         ~Serving' => \A l : Committed(wfile', l) => Covered(wdisk', checkpointed, l)
  PROVE  LogInv' /\ CoverInv'
<1> USE DEF TypeInv
<1>0. wfile' \in Seq(Frames) /\ wdisk' \in Seq(Frames) /\ checkpointed \in Nat /\ checkpointed' \in Nat
  BY DEF TypeOK
<1>1. LogInv'
  BY <1>0, RaisedCheckpoint DEF LogInv
<1>2. ASSUME NEW p \in DataPages, NEW c \in Images(p)', c.kind = "page", c.lsn > 0
      PROVE  Covered(wdisk', checkpointed', c.lsn)
  <2>1. c \in Contents
    BY <1>2, PageIdFacts DEF Images, TypeOK
  <2>2. c.lsn \in Nat
    BY <1>2, <2>1, ContentTypes
  <2>3. Covered(wdisk', checkpointed, c.lsn)
    BY <1>2 DEF WalRule, CoverInv
  <2> QED BY <1>0, <2>2, <2>3, RaisedCheckpoint
<1>3. ASSUME NEW i \in CommitIndexes(wdisk') PROVE Covered(wfile', checkpointed', wdisk'[i].lsn)
  <2>1. wdisk'[i].lsn \in Nat /\ Committed(wdisk', wdisk'[i].lsn)
    BY <1>0, CommitFields DEF Committed
  <2> QED BY <1>0, <2>1, RaisedCheckpoint
<1>4. ASSUME ~Serving', NEW i \in CommitIndexes(wfile')
      PROVE  Covered(wdisk', checkpointed', wfile'[i].lsn)
  <2>1. wfile'[i].lsn \in Nat /\ Committed(wfile', wfile'[i].lsn)
    BY <1>0, CommitFields DEF Committed
  <2> QED BY <1>0, <1>4, <2>1, RaisedCheckpoint
<1> QED BY <1>1, <1>2, <1>3, <1>4 DEF CoverInv

(* The clauses of the cover invariant, stated for LSNs.                     *)
LEMMA CoverFacts ==
  ASSUME CoverInv
  PROVE  /\ \A l : Covered(wdisk, checkpointed, l) => Covered(wfile, checkpointed, l)
         /\ ~Serving => \A l : Committed(wfile, l) => Covered(wdisk, checkpointed, l)
<1>1. ASSUME NEW l, Committed(wdisk, l) PROVE Covered(wfile, checkpointed, l)
  <2>1. PICK i \in CommitIndexes(wdisk) : wdisk[i].lsn = l
    BY <1>1 DEF Committed
  <2> QED BY <2>1 DEF CoverInv
<1>2. ASSUME ~Serving, NEW l, Committed(wfile, l) PROVE Covered(wdisk, checkpointed, l)
  <2>1. PICK i \in CommitIndexes(wfile) : wfile[i].lsn = l
    BY <1>2 DEF Committed
  <2> QED BY <1>2, <2>1 DEF CoverInv
<1> QED BY <1>1, <1>2 DEF Covered

(* What is left to show of a step that leaves the WAL alone.                *)
LEMMA KeptLog ==
  ASSUME TypeInv, TypeInv', WalRule, UNCHANGED walVars, checkpointed <= checkpointed',
         \A p \in DataPages : \A c \in Images(p)' :
           c.kind = "page" /\ c.lsn > 0 => c \in Images(p) \/ Covered(wdisk, checkpointed, c.lsn),
         Serving' \/ ~Serving
  PROVE  LogInv' /\ CoverInv'
<1>1. wfile' = wfile /\ wdisk' = wdisk
  BY DEF walVars
<1>2. /\ \A l : Committed(wdisk, l) => Covered(wfile, checkpointed, l)
      /\ ~Serving' => \A l : Committed(wfile, l) => Covered(wdisk, checkpointed, l)
  BY CoverFacts DEF WalRule, Covered
<1>3. WellFormed(wfile, checkpointed) /\ WellFormed(wdisk, checkpointed)
  BY DEF WalRule, LogInv
<1> QED BY <1>1, <1>2, <1>3, LogStep

(* A sync of the WAL loses no cover.                                        *)
LEMMA SyncedLog ==
  ASSUME TypeInv, TypeInv', WalRule, SyncWal, UNCHANGED <<fileVars, dirty_pages, checkpointed>>
  PROVE  LogInv' /\ CoverInv'
<1>1. /\ wfile' = wfile /\ wdisk' = wfile /\ checkpointed' = checkpointed
      /\ dfile' = dfile /\ ddisk' = ddisk /\ dpend' = dpend /\ dirty_pages' = dirty_pages
  BY DEF SyncWal, fileVars
<1>2. \A p : Images(p)' = Images(p)
  BY <1>1 DEF Images
<1>3. \A l : Covered(wdisk, checkpointed, l) => Covered(wfile, checkpointed, l)
  BY CoverFacts DEF WalRule
<1>4. WellFormed(wfile, checkpointed) /\ checkpointed <= checkpointed
  BY DEF WalRule, LogInv, TypeInv, TypeOK
<1> QED BY <1>1, <1>2, <1>3, <1>4, LogStep DEF Covered

(* Extending the data file adds only zeroed pages. *)
LEMMA ExtendedFile ==
  ASSUME TypeOK, NEW h, ExtendFile(h), dirty_pages' = dirty_pages
  PROVE  /\ \A p \in DataPages : \A c \in Images(p)' : c \in Images(p) \/ c = Garbage
         /\ \A p \in PageIds : dfile'[p] = dfile[p] \/ dfile'[p] = Garbage
<1>1. ASSUME NEW p \in PageIds
      PROVE  /\ dfile'[p] = dfile[p] \/ dfile'[p] = Garbage
             /\ dpend'[p] = dpend[p] \/ dpend'[p] = {Garbage}
             /\ ddisk'[p] = ddisk[p]
  BY DEF ExtendFile
<1>2. ASSUME NEW p \in DataPages, NEW c \in Images(p)' PROVE c \in Images(p) \/ c = Garbage
  <2>1. p \in PageIds
    BY PageIdFacts
  <2>2. c \in dpend'[p] \/ c = dfile'[p] \/ c = ddisk'[p] \/ c = dirty_pages[p]
    BY <1>2 DEF Images
  <2>3. CASE c \in dpend'[p]
    <3>1. c \in dpend[p] \/ c = Garbage
      BY <1>1, <2>1, <2>3
    <3> QED BY <3>1 DEF Images
  <2>4. CASE c = dfile'[p] \/ c = ddisk'[p]
    BY <1>1, <2>1, <2>4 DEF Images
  <2>5. CASE c = dirty_pages[p]
    BY <2>5 DEF Images
  <2> QED BY <2>2, <2>3, <2>4, <2>5
<1>3. \A p \in PageIds : dfile'[p] = dfile[p] \/ dfile'[p] = Garbage
  BY <1>1
<1> QED BY <1>2, <1>3

(* What a power loss leaves of the WAL is a sequence of frames.             *)
LEMMA SurvivorTypes ==
  ASSUME TypeOK, NEW w \in WalSurvivors
  PROVE  w \in Seq(Frames)
<1>1. \A n \in 0..Len(wfile) : SubSeq(wfile, 1, n) \in Seq(Frames)
  BY CallTypes
<1>2. ASSUME NEW n \in 0..(Len(wfile) - 1)
      PROVE  Append(SubSeq(wfile, 1, n), Torn(wfile[n + 1])) \in Seq(Frames)
  <2>1. n \in 0..Len(wfile) /\ n + 1 \in 1..Len(wfile)
    BY CallTypes
  <2>2. Torn(wfile[n + 1]) \in Frames
    <3>1. wfile[n + 1] \in Frames
      BY <2>1, CallTypes
    <3> QED BY <3>1, FrameFields
  <2>3. SubSeq(wfile, 1, n) \in Seq(Frames)
    BY <1>1, <2>1
  <2> QED BY <2>2, <2>3
<1>3. Len(wdisk) \in Nat /\ Len(wfile) \in Nat
  BY CallTypes
<1>4. CASE IsPrefix(wdisk, wfile)
  <2>1. \/ \E n \in Len(wdisk)..Len(wfile) : w = SubSeq(wfile, 1, n)
        \/ \E n \in Len(wdisk)..(Len(wfile) - 1) : w = Append(SubSeq(wfile, 1, n), Torn(wfile[n + 1]))
    BY <1>4 DEF WalSurvivors
  <2>2. ASSUME NEW n \in Len(wdisk)..Len(wfile), w = SubSeq(wfile, 1, n) PROVE w \in Seq(Frames)
    <3>1. n \in 0..Len(wfile)
      BY <1>3
    <3> QED BY <1>1, <2>2, <3>1
  <2>3. ASSUME NEW n \in Len(wdisk)..(Len(wfile) - 1),
               w = Append(SubSeq(wfile, 1, n), Torn(wfile[n + 1]))
        PROVE  w \in Seq(Frames)
    <3>1. n \in 0..(Len(wfile) - 1)
      BY <1>3
    <3> QED BY <1>2, <2>3, <3>1
  <2> QED BY <2>1, <2>2, <2>3
<1> QED BY <1>4, CallTypes DEF WalSurvivors

(* A write cut short leaves files of the right type.                        *)
LEMMA CutShortTypes ==
  ASSUME SetFacts, TypeInv, CutShort
  PROVE  /\ dfile' \in [PageIds -> Contents] /\ ddisk' \in [PageIds -> Contents]
         /\ dpend' \in [PageIds -> SUBSET Contents]
         /\ wfile' \in Seq(Frames) /\ wdisk' \in Seq(Frames)
<1> USE DEF fileVars, walVars, TypeInv
<1>1. PageBeingWritten \in SUBSET PageIds
  <2>1. pc = "ckpt_super" => OtherSlot(active_slot) \in PageIds
    BY PageIdFacts DEF TypeOK
  <2>2. pc = "init" /\ pos <= FIRST_DATA_PAGE => pos \in PageIds
    BY BoundsAssumption DEF TypeOK, PageIds, FIRST_DATA_PAGE
  <2>3. pc = "replay" /\ pos <= Len(wfile) /\ Replayable(wfile, pos, hint)
          => wfile[pos].page \in PageIds
    <3> SUFFICES ASSUME pc = "replay", pos <= Len(wfile), Replayable(wfile, pos, hint)
                 PROVE  wfile[pos].page \in PageIds
      OBVIOUS
    <3>0. pos >= 1
      BY DEF Locals
    <3>1. pos \in 1..Len(wfile)
      BY <3>0, CallTypes
    <3>2. wfile[pos] \in Frames
      BY <3>1, CallTypes
    <3> QED BY <3>2, FrameFields DEF Replayable
  <2> QED BY <2>1, <2>2, <2>3 DEF PageBeingWritten, TypeOK
<1>2. FrameBeingWritten \in SUBSET Frames
  BY FrameTypes DEF FrameBeingWritten, TypeOK
<1>3. CASE UNCHANGED <<fileVars, walVars>>
  BY <1>3 DEF TypeOK
<1>4. CASE \E p \in PageBeingWritten : WritePage(p, Garbage) /\ UNCHANGED walVars
  BY <1>1, <1>4, FileTypes, ContentTypes DEF TypeOK
<1>5. CASE \E f \in FrameBeingWritten :
             wfile' = Append(wfile, f) /\ UNCHANGED <<fileVars, wdisk>>
  <2>1. PICK f \in FrameBeingWritten :
                wfile' = Append(wfile, f) /\ UNCHANGED <<fileVars, wdisk>>
    BY <1>5
  <2>2. f \in Frames /\ wfile \in Seq(Frames)
    BY <1>2 DEF TypeOK
  <2>3. wfile' \in Seq(Frames)
    BY <2>1, <2>2
  <2>4. UNCHANGED <<dfile, ddisk, dpend, wdisk>>
    BY <2>1
  <2> QED BY <2>3, <2>4 DEF TypeOK
<1> QED BY <1>3, <1>4, <1>5 DEF CutShort

(* Appending the next frame of a batch keeps the log well formed.           *)
LEMMA LogAppend ==
  ASSUME NEW w \in Seq(Frames), NEW k \in Nat, WellFormed(w, k),
         NEW f \in Frames, f.type \in {"page", "commit"},
         \A i \in Sound(w) : w[i].lsn < f.lsn /\ w[i].batch <= f.batch,
         f.type = "page" => /\ CheckpointOf(f.image) <= k
                            /\ \A j \in CommitIndexes(w) : w[j].batch # f.batch,
         f.type = "commit" =>
           \A i \in 1..Len(w) :
             w[i].type = "page" /\ w[i].batch = f.batch /\ w[i].image.kind = "page"
               => w[i].image.lsn = f.lsn
  PROVE  WellFormed(Append(w, f), k)
<1> DEFINE v == Append(w, f)
           n == Len(w) + 1
<1>1. /\ Len(v) = n /\ v[n] = f /\ \A i \in 1..Len(w) : v[i] = w[i]
      /\ Sound(v) = Sound(w) \cup {n}
      /\ CommitIndexes(v) = CommitIndexes(w) \cup (IF f.type = "commit" THEN {n} ELSE {})
  BY AppendFacts
<1>2. 1..Len(v) = 1..Len(w) \cup {n} /\ n \in Nat /\ \A i \in 1..Len(w) : i < n
  BY <1>1
<1> HIDE DEF v, n
<1>3. \A i \in Sound(w) : v[i] = w[i] /\ i < n /\ i \in Nat
  BY <1>1, <1>2 DEF Sound
<1>4. OrderedFrames(v)
  <2> SUFFICES ASSUME NEW i \in Sound(v), NEW j \in Sound(v), i < j
               PROVE  v[i].lsn < v[j].lsn /\ v[i].batch <= v[j].batch
    BY DEF OrderedFrames
  <2>1. i \in Sound(w)
    BY <1>1, <1>2, <1>3
  <2>2. CASE j = n
    BY <1>1, <1>3, <2>1, <2>2
  <2>3. CASE j \in Sound(w)
    BY <1>3, <2>1, <2>3 DEF WellFormed, OrderedFrames
  <2> QED BY <1>1, <2>2, <2>3
<1>5. StampedImages(v)
  <2> SUFFICES ASSUME NEW i \in 1..Len(v), NEW j \in CommitIndexes(v), v[i].type = "page",
                      v[i].batch = v[j].batch, v[i].image.kind = "page"
               PROVE  v[i].image.lsn = v[j].lsn
    BY DEF StampedImages
  <2>1. CASE i = n
    <3>1. f.type = "page" /\ j \in CommitIndexes(w) /\ v[j] = w[j]
      BY <1>1, <2>1 DEF CommitIndexes
    <3> QED BY <1>1, <2>1, <3>1
  <2>2. CASE i \in 1..Len(w) /\ j \in CommitIndexes(w)
    <3>1. v[i] = w[i] /\ v[j] = w[j]
      BY <1>1, <2>2 DEF CommitIndexes
    <3> QED BY <2>2, <3>1 DEF WellFormed, StampedImages
  <2>3. CASE i \in 1..Len(w) /\ j \notin CommitIndexes(w)
    BY <1>1, <2>3
  <2> QED BY <1>2, <2>1, <2>2, <2>3
<1>6. ImagesUpTo(v, k)
  BY <1>1, <1>2 DEF WellFormed, ImagesUpTo
<1> QED BY <1>4, <1>5, <1>6 DEF WellFormed, v

(* Cutting a torn frame off the end loses no COMMIT frame. *)
LEMMA ValidPrefixFacts ==
  ASSUME NEW w \in Seq(Frames), NEW k \in Nat, WellFormed(w, k)
  PROVE  LET v == ValidPrefix(w) IN
         /\ v \in Seq(Frames) /\ WellFormed(v, k)
         /\ \A l : Committed(v, l) <=> Committed(w, l)
<1> DEFINE v == ValidPrefix(w)
<1>1. CASE v = w
  BY <1>1
<1>2. CASE v # w
  <2>1. v = SubSeq(w, 1, Len(w) - 1) /\ w # <<>> /\ w[Len(w)].type = "torn"
    BY <1>2 DEF ValidPrefix, Front, Last
  <2>2. Len(w) \in Nat \ {0}
    BY <2>1
  <2>3. v \in Seq(Frames) /\ Len(v) = Len(w) - 1 /\ \A i \in 1..(Len(w) - 1) : v[i] = w[i]
    <3> DEFINE n == Len(w) - 1
    <3>1. n \in 0..Len(w) /\ v = SubSeq(w, 1, n)
      BY <2>1, <2>2
    <3> HIDE DEF n, v
    <3>2. v \in Seq(Frames) /\ Len(v) = n /\ \A i \in 1..n : v[i] = w[i]
      BY <3>1
    <3> QED BY <3>2 DEF n
  <2>4. WellFormed(v, k)
    BY <2>1, <2>2, LogPrefix
  <2> HIDE DEF v
  <2>5. 1..Len(w) = 1..(Len(w) - 1) \cup {Len(w)}
    BY <2>2
  <2>6. CommitIndexes(v) = CommitIndexes(w)
    BY <2>1, <2>3, <2>5 DEF CommitIndexes
  <2>7. \A i \in CommitIndexes(w) : v[i] = w[i]
    BY <2>3, <2>6 DEF CommitIndexes
  <2>8. \A l : Committed(v, l) <=> Committed(w, l)
    BY <2>6, <2>7 DEF Committed
  <2> QED BY <2>3, <2>4, <2>8 DEF v
<1> QED BY <1>1, <1>2

(* Whatever a power loss leaves of the log is well formed and covers what    *)
(* the log on stable storage covered.                                        *)
LEMMA SurvivorFacts ==
  ASSUME TypeOK, LogInv, CoverInv, NEW w \in WalSurvivors
  PROVE  /\ WellFormed(w, checkpointed)
         /\ \A l : Covered(wdisk, checkpointed, l) => Covered(w, checkpointed, l)
<1> USE DEF TypeOK
<1>1. CASE ~IsPrefix(wdisk, wfile)
  <2>1. w = wdisk \/ w = wfile
    BY <1>1 DEF WalSurvivors
  <2>2. \A l : Covered(wdisk, checkpointed, l) => Covered(wfile, checkpointed, l)
    <3> SUFFICES ASSUME NEW l, Committed(wdisk, l) PROVE Covered(wfile, checkpointed, l)
      BY DEF Covered
    <3>1. PICK i \in CommitIndexes(wdisk) : wdisk[i].lsn = l
      BY DEF Committed
    <3> QED BY <3>1 DEF CoverInv
  <2> QED BY <2>1, <2>2 DEF LogInv
<1>2. CASE IsPrefix(wdisk, wfile)
  <2>1. Len(wdisk) \in Nat /\ Len(wfile) \in Nat /\ Len(wdisk) <= Len(wfile)
    BY <1>2 DEF IsPrefix
  <2>2. ASSUME NEW i \in 1..Len(wdisk) PROVE wdisk[i] = wfile[i]
    <3>1. SubSeq(wdisk, 1, Len(wdisk))[i] = wdisk[i] /\ SubSeq(wfile, 1, Len(wdisk))[i] = wfile[i]
      BY <2>1
    <3> QED BY <1>2, <3>1 DEF IsPrefix
  <2>3. ASSUME NEW n \in Len(wdisk)..Len(wfile)
        PROVE  /\ SubSeq(wfile, 1, n) \in Seq(Frames)
               /\ WellFormed(SubSeq(wfile, 1, n), checkpointed)
               /\ \A l : Committed(wdisk, l) => Committed(SubSeq(wfile, 1, n), l)
    <3> DEFINE v == SubSeq(wfile, 1, n)
    <3>1. n \in 0..Len(wfile)
      BY <2>1
    <3>2. v \in Seq(Frames) /\ Len(v) = n /\ \A i \in 1..n : v[i] = wfile[i]
      BY <3>1
    <3>3. WellFormed(v, checkpointed)
      BY <3>1, LogPrefix DEF LogInv
    <3> HIDE DEF v
    <3>4. \A i \in CommitIndexes(wdisk) : i \in CommitIndexes(v) /\ v[i] = wdisk[i]
      <4> TAKE i \in CommitIndexes(wdisk)
      <4>1. i \in 1..Len(wdisk) /\ i \in 1..n /\ wdisk[i].type = "commit"
        BY <2>1 DEF CommitIndexes
      <4>2. v[i] = wdisk[i]
        BY <2>2, <3>2, <4>1
      <4> QED BY <3>2, <4>1, <4>2 DEF CommitIndexes
    <3>5. \A l : Committed(wdisk, l) => Committed(v, l)
      BY <3>4 DEF Committed
    <3> QED BY <3>2, <3>3, <3>5 DEF v
  <2>4. CASE \E n \in Len(wdisk)..Len(wfile) : w = SubSeq(wfile, 1, n)
    BY <2>3, <2>4 DEF Covered
  <2>5. CASE \E n \in Len(wdisk)..(Len(wfile) - 1) : w = Append(SubSeq(wfile, 1, n), Torn(wfile[n + 1]))
    <3>1. PICK n \in Len(wdisk)..(Len(wfile) - 1) : w = Append(SubSeq(wfile, 1, n), Torn(wfile[n + 1]))
      BY <2>5
    <3>2. n \in Len(wdisk)..Len(wfile) /\ wfile[n + 1] \in Frames
      BY <2>1
    <3> DEFINE v == SubSeq(wfile, 1, n)
               f == Torn(wfile[n + 1])
    <3>3. v \in Seq(Frames) /\ WellFormed(v, checkpointed)
          /\ \A l : Committed(wdisk, l) => Committed(v, l)
      BY <2>3, <3>2
    <3>4. f \in Frames /\ f.type = "torn"
      BY <3>2, FrameFields
    <3>5. w = Append(v, f)
      BY <3>1
    <3> HIDE DEF v, f
    <3>6. WellFormed(w, checkpointed)
      BY <3>3, <3>4, <3>5, LogTorn
    <3>7. \A l : Committed(v, l) => Committed(w, l)
      BY <3>3, <3>4, <3>5, AppendFacts
    <3> QED BY <3>3, <3>6, <3>7 DEF Covered
  <2> QED BY <1>2, <2>4, <2>5 DEF WalSurvivors
<1> QED BY <1>1, <1>2

==============================================================================
