-------------------------- MODULE ShardStoreWrites ---------------------------
(***************************************************************************)
(* The write-ahead rule through the commit path (the steps of              *)
(* apply_transaction_group and publish_prepared_group), and the types and   *)
(* the rule through flush, checkpoint and WAL reset.                        *)
(***************************************************************************)
EXTENDS ShardStoreFacts

(* Before the first open there is nothing to cover.                         *)
LEMMA WalInit == Init => WalRule
<1> SUFFICES ASSUME Init PROVE WalRule
  OBVIOUS
<1>0. pc = "closed" /\ ~Serving /\ wfile = <<>> /\ wdisk = <<>> /\ checkpointed = 0 /\ group = <<>>
  BY DEF Init, Serving, OpeningPcs
<1>1. CommitIndexes(wfile) = {} /\ CommitIndexes(wdisk) = {}
  BY <1>0 DEF CommitIndexes
<1>2. LogInv
  BY <1>0, ShortLogs DEF LogInv
<1>3. EndInv
  <2>1. ~broken
    BY DEF Init
  <2>2. ~Knows
    BY <1>0 DEF Knows
  <2> QED BY <1>0, <2>1, <2>2 DEF EndInv
<1>4. GroupInv
  BY <1>0 DEF GroupInv
<1>5. CheckpointInv
  BY <1>0, PageIdFacts DEF Init, CheckpointInv, CheckpointOf, IsSuper, NoPage
<1>6. CoverInv
  BY <1>0, <1>1, PageIdFacts DEF Init, CoverInv, Images, NothingPending, NoPage
<1> QED BY <1>2, <1>3, <1>4, <1>5, <1>6 DEF WalRule

(* A staged group has a last batch.                                         *)
LEMMA GroupEnd ==
  ASSUME TypeOK, group # <<>>
  PROVE  /\ Len(group) \in Nat /\ Len(group) \in 1..Len(group)
         /\ Last(group) = group[Len(group)] /\ Last(group) \in Batches
<1>1. group \in Seq(Batches)
  BY DEF TypeOK
<1>2. Len(group) \in Nat \ {0}
  BY <1>1
<1> QED BY <1>1, <1>2 DEF Last

(* The batches of a staged group have consecutive ids and LSNs.             *)
LEMMA GroupAt ==
  ASSUME SetFacts, TypeOK, GroupInv, NEW i \in 1..Len(group)
  PROVE  /\ group[i] \in Batches /\ group[i].lsn \in Nat /\ group[i].batch \in Nat
         /\ Cardinality(BatchPages(group[i])) \in Nat
         /\ group[i].batch = next_batch_id + i - 1
         /\ group[i].lsn = (IF i = 1 THEN next_lsn ELSE group[i - 1].lsn + 1)
                            + Cardinality(BatchPages(group[i]))
         /\ group[i].super.checkpoint_lsn <= checkpointed
<1>1. group[i] \in Batches
  BY DEF TypeOK
<1>2. /\ group[i].lsn \in Nat /\ group[i].batch \in Nat /\ Cardinality(BatchPages(group[i])) \in Nat
  BY <1>1, BatchFields, PageSets
<1>3. /\ group[i].batch = next_batch_id + i - 1
      /\ group[i].lsn = (IF i = 1 THEN next_lsn ELSE group[i - 1].lsn + 1)
                         + Cardinality(BatchPages(group[i]))
      /\ group[i].super.checkpoint_lsn <= checkpointed
  BY DEF GroupInv
<1> QED BY <1>1, <1>2, <1>3

(* finish_transaction continues the log where the overlay ends.             *)
LEMMA WalStage ==
  ASSUME SetFacts, TypeInv, TypeInv', WalRule, NEW ps \in SUBSET DataPages, Stage(ps)
  PROVE  WalRule'
<1> USE DEF TypeInv, WalRule, fileVars, walVars, storeVars, logVars, callVars, histVars, boundVars
<1> DEFINE c == finish_transaction(ps)
<1>1. /\ pc \in {"open", "staged"} /\ pc' = "staged" /\ Serving /\ Serving' /\ group' = Append(group, c)
      /\ UNCHANGED <<fileVars, walVars, storeVars, logVars, broken, histVars>>
  BY DEF Stage, Serving, OpeningPcs
<1>2. LogInv'
  BY <1>1 DEF LogInv
<1>3. EndInv'
  BY <1>1 DEF EndInv, Knows
<1>4. GroupInv'
  <2>1. Len(group) \in Nat /\ c \in Batches /\ Len(group') = Len(group) + 1
        /\ group'[Len(group) + 1] = c /\ \A i \in 1..Len(group) : group'[i] = group[i]
    <3>1. group' \in Seq(Batches) /\ group \in Seq(Batches)
      BY DEF TypeOK
    <3> HIDE DEF c
    <3>2. Len(group') = Len(group) + 1 /\ group'[Len(group) + 1] = c
          /\ \A i \in 1..Len(group) : group'[i] = group[i]
      <4>1. group' = Append(group, c)
        BY <1>1
      <4> QED BY <3>1, <4>1
    <3> QED BY <3>1, <3>2
  <2>2. c.batch = next_batch_id + Len(group)
    <3>1. c.batch = OverlayNextBatch
      BY DEF finish_transaction
    <3>2. CASE group = <<>>
      BY <3>1, <3>2 DEF OverlayNextBatch, TypeOK
    <3>3. CASE group # <<>>
      <4>1. Len(group) \in 1..Len(group)
        BY <3>3, GroupEnd
      <4>2. group[Len(group)].batch = next_batch_id + Len(group) - 1
        BY <4>1 DEF GroupInv
      <4>3. c.batch = group[Len(group)].batch + 1
        BY <3>1, <3>3, GroupEnd DEF OverlayNextBatch
      <4> HIDE DEF c
      <4> QED BY <2>1, <4>2, <4>3 DEF TypeOK
    <3> QED BY <3>2, <3>3
  <2>3. c.lsn = (IF Len(group) = 0 THEN next_lsn ELSE group[Len(group)].lsn + 1)
                + Cardinality(BatchPages(c))
    <3>1. c.lsn = OverlayNextLsn + Cardinality(ps) + 1 /\ c.pages = ps
      BY DEF finish_transaction
    <3>2. Cardinality(BatchPages(c)) = Cardinality(ps) + 1 /\ Cardinality(ps) \in Nat
      BY <2>1, <3>1, BatchFields, PageSets, PageIdFacts
    <3>3. OverlayNextLsn = IF Len(group) = 0 THEN next_lsn ELSE group[Len(group)].lsn + 1
      BY DEF OverlayNextLsn, Last, TypeOK
    <3>4. OverlayNextLsn \in Nat
      <4>1. CASE group = <<>>
        BY <4>1 DEF OverlayNextLsn, TypeOK
      <4>2. CASE group # <<>>
        <5>1. Last(group) \in Batches
          BY <4>2, GroupEnd
        <5> QED BY <4>2, <5>1, BatchFields DEF OverlayNextLsn
      <4> QED BY <4>1, <4>2
    <3> HIDE DEF c
    <3> QED BY <3>1, <3>2, <3>3, <3>4
  <2>4. c.super.checkpoint_lsn <= checkpointed
    <3>1. c.super.checkpoint_lsn = OverlaySuperblock.checkpoint_lsn
      BY DEF finish_transaction, Superblock
    <3>2. CASE group = <<>>
      BY <1>1, <3>1, <3>2 DEF OverlaySuperblock, CheckpointInv
    <3>3. CASE group # <<>>
      <4>1. Len(group) \in 1..Len(group)
        BY <3>3, GroupEnd
      <4> QED BY <3>1, <3>3, <4>1 DEF OverlaySuperblock, Last, GroupInv
    <3> QED BY <3>2, <3>3
  <2> HIDE DEF c
  <2>5. ASSUME NEW i \in 1..Len(group')
        PROVE  /\ group'[i].batch = next_batch_id' + i - 1
               /\ group'[i].lsn = (IF i = 1 THEN next_lsn' ELSE group'[i - 1].lsn + 1)
                                   + Cardinality(BatchPages(group'[i]))
               /\ group'[i].super.checkpoint_lsn <= checkpointed'
    <3>1. CASE i = Len(group) + 1
      <4>1. i # 1 => group'[i - 1] = group[Len(group)]
        BY <2>1, <3>1
      <4>2. i = 1 <=> Len(group) = 0
        BY <2>1, <3>1
      <4>3. group'[i] = c /\ next_batch_id' = next_batch_id /\ next_lsn' = next_lsn
            /\ checkpointed' = checkpointed
        BY <1>1, <2>1, <3>1
      <4>4. c.batch = next_batch_id + i - 1
        <5>1. next_batch_id \in Nat
          BY DEF TypeOK
        <5> QED BY <2>1, <2>2, <3>1, <5>1
      <4>5. c.lsn = (IF i = 1 THEN next_lsn ELSE group'[i - 1].lsn + 1) + Cardinality(BatchPages(c))
        BY <2>3, <4>1, <4>2
      <4> QED BY <2>4, <4>3, <4>4, <4>5
    <3>2. CASE i \in 1..Len(group)
      <4>1. i # 1 => group'[i - 1] = group[i - 1]
        BY <2>1, <3>2
      <4>2. group'[i] = group[i] /\ next_batch_id' = next_batch_id /\ next_lsn' = next_lsn
            /\ checkpointed' = checkpointed
        BY <1>1, <2>1, <3>2
      <4>3. /\ group[i].batch = next_batch_id + i - 1
            /\ group[i].lsn = (IF i = 1 THEN next_lsn ELSE group[i - 1].lsn + 1)
                               + Cardinality(BatchPages(group[i]))
            /\ group[i].super.checkpoint_lsn <= checkpointed
        BY <3>2, GroupAt
      <4> QED BY <4>1, <4>2, <4>3
    <3> QED BY <2>1, <3>1, <3>2
  <2> QED BY <1>1, <2>5 DEF GroupInv, BatchPages
<1>5. CheckpointInv'
  BY <1>1 DEF CheckpointInv
<1>6. CoverInv'
  BY <1>1 DEF CoverInv, Images
<1> QED BY <1>2, <1>3, <1>4, <1>5, <1>6

(* publish_prepared_group starts on the first batch.                        *)
LEMMA WalPublish ==
  ASSUME SetFacts, TypeInv, TypeInv', WalRule, publish_prepared_group
  PROVE  WalRule'
<1> USE DEF TypeInv, WalRule, fileVars, walVars, storeVars, logVars, callVars, histVars, boundVars
<1>1. /\ pc = "staged" /\ pc' = "append" /\ Serving /\ Serving' /\ ~broken
      /\ pos' = 1 /\ left' = BatchPages(group[1]) /\ checkpointed' = checkpointed
      /\ UNCHANGED <<fileVars, walVars, storeVars, logVars, group, hint>>
  BY DEF publish_prepared_group, Serving, OpeningPcs
<1>2. broken' = broken
  BY DEF publish_prepared_group
<1>3. LogInv'
  BY <1>1 DEF LogInv
<1>4. EndInv'
  BY <1>1, <1>2 DEF EndInv, Knows
<1>5. GroupInv'
  <2>1. 1 \in 1..Len(group) /\ group[1] \in Batches
    <3>1. group # <<>>
      BY <1>1 DEF Locals
    <3>2. Len(group) \in Nat \ {0} /\ group \in Seq(Batches)
      BY <3>1, GroupEnd, CallTypes
    <3> QED BY <3>2
  <2>2. group[1].batch = next_batch_id /\ group[1].lsn = next_lsn + Cardinality(BatchPages(group[1]))
    <3>1. /\ group[1].batch = next_batch_id + 1 - 1
          /\ group[1].lsn = next_lsn + Cardinality(BatchPages(group[1]))
      BY <2>1, GroupAt
    <3>2. next_batch_id \in Nat
      BY DEF TypeOK
    <3> QED BY <3>1, <3>2
  <2>3. \A i \in Sound(wfile) : wfile[i].lsn < next_lsn /\ wfile[i].batch < next_batch_id
    BY <1>1 DEF EndInv, Knows, EndsBefore
  <2>4. /\ group[1].lsn - Cardinality(BatchPages(group[1])) = next_lsn
    <3>1. Cardinality(BatchPages(group[1])) \in Nat
      BY <2>1, GroupAt
    <3>2. next_lsn \in Nat
      BY DEF TypeOK
    <3> QED BY <2>2, <3>1, <3>2
  <2>5. \A i \in Sound(wfile) : wfile[i].batch \in Nat
    BY SoundFields DEF TypeOK
  <2>6. \A i \in Sound(wfile) :
            /\ wfile[i].lsn < group[1].lsn - Cardinality(BatchPages(group[1]))
            /\ wfile[i].batch <= group[1].batch
            /\ wfile[i].batch # group[1].batch
    <3>1. next_batch_id \in Nat
      BY TypeParts DEF LogTyped
    <3> TAKE i \in Sound(wfile)
    <3>2. wfile[i].lsn < next_lsn /\ wfile[i].batch < next_batch_id /\ wfile[i].batch \in Nat
      BY <2>3, <2>5
    <3>3. wfile[i].batch <= next_batch_id /\ wfile[i].batch # next_batch_id
      BY <3>1, <3>2
    <3> QED BY <2>2, <2>4, <3>2, <3>3
  <2>7. /\ pc' = "append" /\ group' = group /\ pos' = 1 /\ left' = BatchPages(group[1])
        /\ wfile' = wfile /\ next_batch_id' = next_batch_id /\ next_lsn' = next_lsn
        /\ checkpointed' = checkpointed
    BY <1>1
  <2>8. 1..(pos' - 1) = {}
    BY <2>7
  <2> QED BY <2>6, <2>7, <2>8 DEF GroupInv
<1>6. CheckpointInv'
  BY <1>1 DEF CheckpointInv
<1>7. CoverInv'
  BY <1>1 DEF CoverInv, Images
<1> QED BY <1>3, <1>4, <1>5, <1>6, <1>7

(* append_group: a page frame.                                              *)
LEMMA WalAppendPage ==
  ASSUME SetFacts, TypeInv, TypeInv', WalRule, NEW p \in left, AppendPageFrame(p)
  PROVE  WalRule'
<1> USE DEF TypeInv, WalRule, fileVars, walVars, storeVars, logVars, callVars, histVars, boundVars
<1> DEFINE c == group[pos]
           n == c.lsn - Cardinality(left)
           f == PageFrame(n, c.batch, Cardinality(BatchPages(c)) - Cardinality(left), p, Image(c, p))
<1>1. /\ pc = "append" /\ pc' = "append" /\ Serving /\ Serving' /\ pos \in 1..Len(group)
      /\ wfile' = Append(wfile, f) /\ left' = left \ {p}
      /\ UNCHANGED <<fileVars, wdisk, storeVars, logVars, group, pos, histVars>>
  BY DEF AppendPageFrame, Serving, OpeningPcs, Locals
<1>2. broken' = broken
  BY DEF AppendPageFrame
<1>3. c \in Batches /\ c.lsn \in Nat /\ c.batch \in Nat /\ c.super \in Supers
  <2>1. c \in Batches
    BY <1>1, CallTypes
  <2> HIDE DEF c
  <2> QED BY <2>1, BatchFields
<1>4. Cardinality(left) \in Nat /\ Cardinality(left') = Cardinality(left) - 1 /\ Cardinality(left') \in Nat
  <2>1. left \in SUBSET PageIds /\ left' \in SUBSET PageIds
    BY DEF TypeOK
  <2> QED BY <1>1, <2>1 DEF SetFacts
<1>5. f \in Frames
  <2>1. wfile' \in Seq(Frames) /\ wfile \in Seq(Frames)
    BY DEF TypeOK
  <2>2. \A g : Append(wfile, g) \in Seq(Frames) => g \in Frames
    <3> TAKE g
    <3> HAVE Append(wfile, g) \in Seq(Frames)
    <3>1. Append(wfile, g)[Len(wfile) + 1] = g /\ Len(Append(wfile, g)) = Len(wfile) + 1
      BY <2>1
    <3> QED BY <2>1, <3>1
  <2> HIDE DEF f
  <2> QED BY <1>1, <2>1, <2>2
<1>6. /\ f.type = "page" /\ f.lsn = n /\ f.batch = c.batch /\ f.image = Image(c, p)
      /\ CheckpointOf(f.image) <= checkpointed
      /\ f.image.kind = "page" => f.image.lsn = c.lsn
  <2>1. f.type = "page" /\ f.lsn = n /\ f.batch = c.batch /\ f.image = Image(c, p)
    BY DEF PageFrame
  <2>2. c.super.checkpoint_lsn <= checkpointed /\ c.super.kind = "super"
    BY <1>1, <1>3, SuperTypes DEF GroupInv
  <2>3. CheckpointOf(Image(c, p)) <= checkpointed
        /\ (Image(c, p).kind = "page" => Image(c, p).lsn = c.lsn)
    <3>1. CASE p = c.slot
      BY <2>2, <3>1 DEF Image, CheckpointOf, IsSuper
    <3>2. CASE p # c.slot
      <4>1. Image(c, p) = [kind |-> "page", lsn |-> c.lsn, by |-> c.tx]
        BY <3>2 DEF Image, DataPage
      <4>2. 0 <= checkpointed
        BY DEF TypeOK
      <4> QED BY <4>1, <4>2 DEF CheckpointOf, IsSuper
    <3> QED BY <3>1, <3>2
  <2> QED BY <2>1, <2>3
<1>7. \A i \in Sound(wfile) :
            /\ wfile[i].lsn < n
            /\ wfile[i].batch <= c.batch
            /\ wfile[i].batch = c.batch =>
                 /\ wfile[i].type = "page"
                 /\ wfile[i].image.kind = "page" => wfile[i].image.lsn = c.lsn
  BY <1>1 DEF GroupInv
<1>8. \A i \in Sound(wfile) : wfile[i].lsn \in Nat
  BY SoundFields DEF TypeOK
<1> DEFINE m == Len(wfile) + 1
<1>9. /\ wfile'[m] = f /\ \A i \in Sound(wfile) : wfile'[i] = wfile[i]
      /\ Sound(wfile') = Sound(wfile) \cup {m} /\ CommitIndexes(wfile') = CommitIndexes(wfile)
      /\ \A i \in CommitIndexes(wfile) : wfile'[i] = wfile[i] /\ i \in Sound(wfile)
      /\ \A l : Committed(wfile, l) => Committed(wfile', l)
  <2> HIDE DEF f
  <2>1. wfile \in Seq(Frames)
    BY DEF TypeOK
  <2>2. /\ Len(wfile') = m /\ wfile'[m] = f /\ \A i \in 1..Len(wfile) : wfile'[i] = wfile[i]
        /\ Sound(wfile') = Sound(wfile) \cup (IF f.type = "torn" THEN {} ELSE {m})
        /\ CommitIndexes(wfile') = CommitIndexes(wfile) \cup (IF f.type = "commit" THEN {m} ELSE {})
        /\ \A l : Committed(wfile, l) => Committed(wfile', l)
    BY <1>1, <1>5, <2>1, AppendFacts
  <2>3. \A i \in CommitIndexes(wfile) : i \in Sound(wfile)
    BY DEF CommitIndexes, Sound
  <2>4. \A i \in Sound(wfile) : i \in 1..Len(wfile)
    BY DEF Sound
  <2> QED BY <1>6, <2>2, <2>3, <2>4
<1> HIDE DEF f, m
<1>10. LogInv'
  <2>1. \A j \in CommitIndexes(wfile) : wfile[j].batch # f.batch
    <3> TAKE j \in CommitIndexes(wfile)
    <3>1. j \in Sound(wfile) /\ wfile[j].type = "commit"
      BY <1>9 DEF CommitIndexes
    <3> QED BY <1>6, <1>7, <3>1
  <2>2. WellFormed(wfile, checkpointed) /\ wfile \in Seq(Frames) /\ checkpointed \in Nat
    BY DEF LogInv, TypeOK
  <2>3. WellFormed(Append(wfile, f), checkpointed)
    <3>1. \A i \in Sound(wfile) : wfile[i].lsn < f.lsn /\ wfile[i].batch <= f.batch
      BY <1>6, <1>7
    <3> QED BY <1>5, <1>6, <2>1, <2>2, <3>1, LogAppend
  <2> QED BY <1>1, <2>3 DEF LogInv
<1>11. EndInv'
  BY <1>1, <1>2 DEF EndInv, Knows
<1>12. GroupInv'
  <2>1. \A i \in Sound(wfile') :
            /\ wfile'[i].lsn < c.lsn - Cardinality(left')
            /\ wfile'[i].batch <= c.batch
            /\ wfile'[i].batch = c.batch =>
                 /\ wfile'[i].type = "page"
                 /\ wfile'[i].image.kind = "page" => wfile'[i].image.lsn = c.lsn
    <3> TAKE i \in Sound(wfile')
    <3>1. CASE i = m
      <4>1. wfile'[i] = f
        BY <1>9, <3>1
      <4>2. n < c.lsn - Cardinality(left')
        <5> HIDE DEF c
        <5> QED BY <1>3, <1>4
      <4>3. c.batch <= c.batch
        <5> HIDE DEF c
        <5> QED BY <1>3
      <4> QED BY <1>6, <4>1, <4>2, <4>3
    <3>2. CASE i \in Sound(wfile)
      <4>1. wfile'[i] = wfile[i]
        BY <1>9, <3>2
      <4>2. wfile[i].lsn < c.lsn - Cardinality(left')
        <5>1. wfile[i].lsn < n /\ wfile[i].lsn \in Nat
          BY <1>7, <1>8, <3>2
        <5> HIDE DEF c
        <5> QED BY <1>3, <1>4, <5>1
      <4> QED BY <1>7, <3>2, <4>1, <4>2
    <3> QED BY <1>9, <3>1, <3>2
  <2>2. \A i \in 1..(pos - 1) : Committed(wfile', group[i].lsn)
    BY <1>1, <1>9 DEF GroupInv
  <2> QED BY <1>1, <2>1, <2>2 DEF GroupInv, BatchPages
<1>13. CheckpointInv'
  BY <1>1 DEF CheckpointInv
<1>14. CoverInv'
  BY <1>1, <1>9 DEF CoverInv, Images, Covered
<1> QED BY <1>10, <1>11, <1>12, <1>13, <1>14

(* append_group: a COMMIT frame.                                            *)
LEMMA WalAppendCommit ==
  ASSUME SetFacts, TypeInv, TypeInv', WalRule, AppendCommitFrame
  PROVE  WalRule'
<1> USE DEF TypeInv, WalRule, fileVars, walVars, storeVars, logVars, callVars, histVars, boundVars
<1> DEFINE c == group[pos]
           f == CommitFrame(c.lsn, c.batch, Cardinality(BatchPages(c)))
           m == Len(wfile) + 1
<1>1. /\ pc = "append" /\ pc' \in {"append", "wal_sync"} /\ Serving /\ Serving'
      /\ pos \in 1..Len(group) /\ left = {} /\ wfile' = Append(wfile, f)
      /\ UNCHANGED <<fileVars, wdisk, storeVars, logVars, group, histVars>>
  BY DEF AppendCommitFrame, Serving, OpeningPcs, Locals
<1>2. broken' = broken
  BY DEF AppendCommitFrame
<1>3. c \in Batches /\ c.lsn \in Nat /\ c.batch \in Nat /\ Cardinality(BatchPages(c)) \in Nat
  BY <1>1, GroupAt
<1>4. f \in Frames /\ f.type = "commit" /\ f.lsn = c.lsn /\ f.batch = c.batch
  BY <1>3, FrameTypes DEF CommitFrame
<1>5. Cardinality(left) = 0
  BY <1>1 DEF SetFacts
<1>6. \A i \in Sound(wfile) :
            /\ wfile[i].lsn < c.lsn
            /\ wfile[i].batch <= c.batch
            /\ wfile[i].batch = c.batch =>
                 /\ wfile[i].type = "page"
                 /\ wfile[i].image.kind = "page" => wfile[i].image.lsn = c.lsn
            /\ wfile[i].lsn \in Nat /\ wfile[i].batch \in Nat
  <2>1. \A i \in Sound(wfile) :
            /\ wfile[i].lsn < c.lsn - 0
            /\ wfile[i].batch <= c.batch
            /\ wfile[i].batch = c.batch =>
                 /\ wfile[i].type = "page"
                 /\ wfile[i].image.kind = "page" => wfile[i].image.lsn = c.lsn
    <3>1. \A i \in Sound(wfile) :
            /\ wfile[i].lsn < c.lsn - Cardinality(left)
            /\ wfile[i].batch <= c.batch
            /\ wfile[i].batch = c.batch =>
                 /\ wfile[i].type = "page"
                 /\ wfile[i].image.kind = "page" => wfile[i].image.lsn = c.lsn
      BY <1>1 DEF GroupInv
    <3> HIDE DEF c
    <3> QED BY <1>5, <3>1
  <2>2. \A i \in Sound(wfile) : wfile[i].lsn \in Nat /\ wfile[i].batch \in Nat
    BY SoundFields, CallTypes
  <2>3. c.lsn - 0 = c.lsn
    BY <1>3
  <2> HIDE DEF c
  <2> QED BY <2>1, <2>2, <2>3
<1> HIDE DEF f
<1>7. /\ wfile'[m] = f /\ \A i \in Sound(wfile) : wfile'[i] = wfile[i]
      /\ Sound(wfile') = Sound(wfile) \cup {m} /\ CommitIndexes(wfile') = CommitIndexes(wfile) \cup {m}
      /\ \A l : Committed(wfile, l) => Committed(wfile', l)
      /\ Committed(wfile', c.lsn)
  <2>1. wfile \in Seq(Frames)
    BY DEF TypeOK
  <2>2. /\ Len(wfile') = m /\ wfile'[m] = f /\ \A i \in 1..Len(wfile) : wfile'[i] = wfile[i]
        /\ Sound(wfile') = Sound(wfile) \cup (IF f.type = "torn" THEN {} ELSE {m})
        /\ CommitIndexes(wfile') = CommitIndexes(wfile) \cup (IF f.type = "commit" THEN {m} ELSE {})
        /\ \A l : Committed(wfile, l) => Committed(wfile', l)
    BY <1>1, <1>4, <2>1, AppendFacts
  <2>3. \A i \in Sound(wfile) : i \in 1..Len(wfile)
    BY DEF Sound
  <2>4. Committed(wfile', c.lsn)
    BY <1>4, <2>2 DEF Committed
  <2> QED BY <1>4, <2>2, <2>3, <2>4
<1> HIDE DEF m
<1>8. LogInv'
  <2>1. WellFormed(wfile, checkpointed) /\ wfile \in Seq(Frames) /\ checkpointed \in Nat
    BY DEF LogInv, TypeOK
  <2>2. \A i \in Sound(wfile) : wfile[i].lsn < f.lsn /\ wfile[i].batch <= f.batch
    BY <1>4, <1>6
  <2>3. \A i \in 1..Len(wfile) :
          wfile[i].type = "page" /\ wfile[i].batch = f.batch /\ wfile[i].image.kind = "page"
            => wfile[i].image.lsn = f.lsn
    BY <1>4, <1>6 DEF Sound
  <2>4. WellFormed(Append(wfile, f), checkpointed)
    BY <1>4, <2>1, <2>2, <2>3, LogAppend
  <2> QED BY <1>1, <2>4 DEF LogInv
<1>9. EndInv'
  BY <1>1, <1>2 DEF EndInv, Knows
<1>10. \A i \in Sound(wfile') : wfile'[i].lsn <= c.lsn /\ wfile'[i].batch <= c.batch
                               /\ wfile'[i].lsn \in Nat /\ wfile'[i].batch \in Nat
  <2> TAKE i \in Sound(wfile')
  <2> HIDE DEF c
  <2>1. CASE i = m
    <3>1. wfile'[i].lsn = c.lsn /\ wfile'[i].batch = c.batch
      BY <1>4, <1>7, <2>1
    <3> QED BY <1>3, <3>1
  <2>2. CASE i \in Sound(wfile)
    <3>1. wfile'[i] = wfile[i]
      BY <1>7, <2>2
    <3>2. /\ wfile[i].lsn < c.lsn /\ wfile[i].batch <= c.batch
          /\ wfile[i].lsn \in Nat /\ wfile[i].batch \in Nat
      BY <1>6, <2>2
    <3>3. wfile[i].lsn <= c.lsn
      BY <1>3, <3>2
    <3> QED BY <3>1, <3>2, <3>3
  <2> QED BY <1>7, <2>1, <2>2
<1>11. \A i \in 1..pos : Committed(wfile', group[i].lsn)
  <2> TAKE i \in 1..pos
  <2>1. CASE i = pos
    BY <1>7, <2>1
  <2>2. CASE i \in 1..(pos - 1)
    BY <1>1, <1>7, <2>2 DEF GroupInv
  <2> QED BY <1>1, <2>1, <2>2
<1>12. GroupInv'
  <2>1. CASE pos < Len(group)
    <3> DEFINE d == group[pos + 1]
    <3>1. pos' = pos + 1 /\ left' = BatchPages(d) /\ pc' = "append" /\ pos + 1 \in 1..Len(group)
      BY <1>1, <2>1 DEF AppendCommitFrame
    <3>2. /\ d.batch = next_batch_id + (pos + 1) - 1 /\ c.batch = next_batch_id + pos - 1
          /\ d.lsn = (c.lsn + 1) + Cardinality(BatchPages(d)) /\ Cardinality(BatchPages(d)) \in Nat
          /\ d.lsn \in Nat
      <4>1. (pos + 1) - 1 = pos /\ pos + 1 # 1
        BY <1>1
      <4>2. /\ d.batch = next_batch_id + (pos + 1) - 1
            /\ d.lsn = (IF pos + 1 = 1 THEN next_lsn ELSE group[(pos + 1) - 1].lsn + 1)
                        + Cardinality(BatchPages(d))
            /\ Cardinality(BatchPages(d)) \in Nat /\ d.lsn \in Nat
        BY <3>1, GroupAt
      <4>3. c.batch = next_batch_id + pos - 1
        BY <1>1, GroupAt
      <4> QED BY <4>1, <4>2, <4>3
    <3>3. d.batch = c.batch + 1 /\ d.lsn - Cardinality(BatchPages(d)) = c.lsn + 1
      <4>1. next_batch_id \in Nat /\ pos \in Nat
        BY DEF TypeOK
      <4> HIDE DEF c, d
      <4> QED BY <1>3, <3>2, <4>1
    <3>4. \A i \in Sound(wfile') :
            /\ wfile'[i].lsn < d.lsn - Cardinality(BatchPages(d))
            /\ wfile'[i].batch <= d.batch /\ wfile'[i].batch # d.batch
      <4> HIDE DEF c, d
      <4> TAKE i \in Sound(wfile')
      <4>1. /\ wfile'[i].lsn <= c.lsn /\ wfile'[i].batch <= c.batch
            /\ wfile'[i].lsn \in Nat /\ wfile'[i].batch \in Nat
        BY <1>10
      <4>2. wfile'[i].lsn < c.lsn + 1
        BY <1>3, <4>1
      <4>3. wfile'[i].batch < c.batch + 1
        BY <1>3, <4>1
      <4> QED BY <1>3, <3>3, <4>1, <4>2, <4>3
    <3>5. \A i \in 1..(pos' - 1) : Committed(wfile', group[i].lsn)
      BY <1>1, <1>11, <3>1
    <3> QED BY <1>1, <3>1, <3>4, <3>5 DEF GroupInv
  <2>2. CASE ~(pos < Len(group))
    <3>1. pc' = "wal_sync" /\ pos = Len(group) /\ Last(group) = c
      <4>1. pc' = "wal_sync"
        BY <2>2 DEF AppendCommitFrame
      <4>2. pos = Len(group)
        BY <1>1, <2>2, CallTypes
      <4> QED BY <4>1, <4>2 DEF Last
    <3> QED BY <1>1, <1>10, <1>11, <3>1 DEF GroupInv
  <2> QED BY <2>1, <2>2
<1>13. CheckpointInv'
  BY <1>1 DEF CheckpointInv
<1>14. CoverInv'
  BY <1>1, <1>7 DEF CoverInv, Images, Covered
<1> QED BY <1>8, <1>9, <1>12, <1>13, <1>14

(* append_group_commit and the publication: the images installed in memory  *)
(* have their COMMIT frames on stable storage.                              *)
LEMMA WalSyncAndPublish ==
  ASSUME SetFacts, TypeInv, TypeInv', WalRule, SyncAndPublish
  PROVE  WalRule'
<1> USE DEF TypeInv, WalRule, fileVars, walVars, storeVars, logVars, callVars, histVars, boundVars
<1>1. /\ pc = "wal_sync" /\ pc' = "open" /\ Serving /\ Serving' /\ group # <<>> /\ group' = <<>>
      /\ wdisk' = wfile /\ wfile' = wfile /\ InstallGroup
      /\ UNCHANGED <<fileVars, hint, checkpointed>>
  BY DEF SyncAndPublish, SyncWal, Serving, OpeningPcs, Locals
<1>2. broken' = broken
  BY DEF SyncAndPublish
<1>3. /\ Last(group) = group[Len(group)] /\ Len(group) \in 1..Len(group)
      /\ Last(group).lsn \in Nat /\ Last(group).batch \in Nat
  BY <1>1, GroupEnd, BatchFields
<1>4. LogInv'
  BY <1>1 DEF LogInv
<1>5. EndInv'
  <2>1. \A i \in Sound(wfile) : wfile[i].lsn \in Nat /\ wfile[i].batch \in Nat
                               /\ wfile[i].lsn <= Last(group).lsn /\ wfile[i].batch <= Last(group).batch
    BY <1>1, SoundFields DEF TypeOK, GroupInv
  <2>2. \A i \in CommitIndexes(wfile) : i \in Sound(wfile)
    BY CommitFields DEF TypeOK
  <2>3. EndsBefore(wfile, Last(group).lsn + 1, Last(group).batch + 1, Last(group).lsn)
    <3>1. ASSUME NEW i \in Sound(wfile)
          PROVE  wfile[i].lsn < Last(group).lsn + 1 /\ wfile[i].batch < Last(group).batch + 1
      <4>1. /\ wfile[i].lsn \in Nat /\ wfile[i].batch \in Nat
            /\ wfile[i].lsn <= Last(group).lsn /\ wfile[i].batch <= Last(group).batch
        BY <2>1
      <4> QED BY <1>3, <4>1
    <3>2. \A i \in CommitIndexes(wfile) : wfile[i].lsn <= Last(group).lsn
      BY <2>1, <2>2
    <3> QED BY <3>1, <3>2 DEF EndsBefore
  <2>4. EndsBefore(wfile', next_lsn', next_batch_id', last_commit')
    BY <1>1, <2>3 DEF InstallGroup
  <2> QED BY <1>1, <2>4 DEF EndInv
<1>6. GroupInv'
  BY <1>1, NoGroup
<1>7. CheckpointInv'
  <2>1. Last(group).super.checkpoint_lsn <= checkpointed
    BY <1>3, GroupAt
  <2> QED BY <1>1, <2>1 DEF InstallGroup, CheckpointInv
<1>8. CoverInv'
  <2>1. \A l : Covered(wdisk, checkpointed, l) => Covered(wfile, checkpointed, l)
    <3> SUFFICES ASSUME NEW l, Committed(wdisk, l) PROVE Covered(wfile, checkpointed, l)
      BY DEF Covered
    <3>1. PICK i \in CommitIndexes(wdisk) : wdisk[i].lsn = l
      BY DEF Committed
    <3> QED BY <3>1 DEF CoverInv
  <2>2. ASSUME NEW p \in DataPages, NEW c \in Images(p)', c.kind = "page", c.lsn > 0
        PROVE  Covered(wfile, checkpointed, c.lsn)
    <3>1. CASE c \in Images(p)
      BY <2>1, <2>2, <3>1 DEF CoverInv
    <3>2. CASE c \notin Images(p)
      <4> DEFINE W == Writers(group, p)
      <4>1. c = dirty_pages'[p] /\ dirty_pages'[p] # dirty_pages[p]
        BY <1>1, <2>2, <3>2 DEF Images
      <4>2. W # {} /\ c = DataPage(group[Latest(W)].lsn, group[Latest(W)].tx)
        BY <1>1, <4>1 DEF InstallGroup
      <4>3. Latest(W) \in 1..Len(group)
        <5>1. /\ W \in SUBSET Nat /\ Len(group) \in Nat
              /\ \A i \in W : i \in 1..Len(group) /\ i <= Len(group)
          <6>0. group \in Seq(Batches)
            BY DEF TypeOK
          <6>1. DOMAIN group = 1..Len(group) /\ Len(group) \in Nat
            BY <6>0
          <6> QED BY <6>1 DEF Writers
        <5> HIDE DEF W
        <5> QED BY <4>2, <5>1, LatestExists
      <4>4. Committed(wfile, group[Latest(W)].lsn)
        BY <1>1, <4>3 DEF GroupInv
      <4>5. c.lsn = group[Latest(W)].lsn
        BY <4>2 DEF DataPage
      <4> QED BY <4>4, <4>5 DEF Covered
    <3> QED BY <3>1, <3>2
  <2>3. \A i \in CommitIndexes(wfile) : Covered(wfile, checkpointed, wfile[i].lsn)
    BY DEF Covered, Committed
  <2> QED BY <1>1, <2>2, <2>3 DEF CoverInv
<1> QED BY <1>4, <1>5, <1>6, <1>7, <1>8

(* The commit path preserves the write-ahead rule.                          *)
LEMMA WalCommit ==
  ASSUME SetFacts
  PROVE  TypeInv /\ TypeInv' /\ WalRule /\ Commit => WalRule'
<1> SUFFICES ASSUME TypeInv, TypeInv', WalRule, Commit PROVE WalRule'
  OBVIOUS
<1>1. CASE RejectGroup
  <2> USE DEF TypeInv, WalRule, fileVars, walVars, storeVars, logVars, callVars, histVars, boundVars
  <2>1. /\ pc = "staged" /\ pc' = "open" /\ Serving /\ Serving' /\ group' = <<>>
        /\ UNCHANGED <<fileVars, walVars, storeVars, logVars, histVars>>
    BY <1>1 DEF RejectGroup, Serving, OpeningPcs
  <2>2. broken' = broken
    BY <1>1 DEF RejectGroup
  <2>3. LogInv'
    BY <2>1 DEF LogInv
  <2>4. EndInv'
    BY <2>1, <2>2 DEF EndInv, Knows
  <2>5. GroupInv'
    BY <2>1, NoGroup
  <2>6. CheckpointInv'
    BY <2>1 DEF CheckpointInv
  <2>7. CoverInv'
    BY <2>1 DEF CoverInv, Images
  <2> QED BY <2>3, <2>4, <2>5, <2>6, <2>7
<1> QED BY <1>1, WalStage, WalPublish, WalAppendPage, WalAppendCommit, WalSyncAndPublish DEF Commit

-----------------------------------------------------------------------------
(* flush_dirty_pages preserves the types.                                   *)
LEMMA TypeFlush ==
  ASSUME SetFacts
  PROVE  TypeInv /\ Flush => TypeInv'
<1> SUFFICES ASSUME TypeInv, Flush PROVE TypeInv'
  OBVIOUS
<1> USE DEF TypeInv, fileVars, walVars, storeVars, logVars, callVars, histVars, boundVars
<1>1. DirtySet \cup (IF dirty_superblock = NoPage THEN {} ELSE {active_slot}) \in SUBSET PageIds
  BY PageIdFacts DEF DirtySet, TypeOK
<1>2. CASE flush
  <2>1. CASE Clean
    BY <1>2, <2>1 DEF flush, TypeOK, Locals, Serving, BatchPages
  <2>2. CASE ~Clean
    <3>1. TypeOK'
      BY <1>1, <1>2, <2>2, FileTypes DEF flush, BeginFlush, TypeOK, Serving, OpeningPcs, CallPcs
    <3>2. Locals'
      BY <1>2, <2>2 DEF flush, BeginFlush, Locals, BatchPages
    <3> QED BY <3>1, <3>2
  <2> QED BY <2>1, <2>2
<1>3. ASSUME NEW p \in left, FlushPage(p) PROVE TypeInv'
  <2>1. p \in PageIds /\ FlushImage(p) \in Contents
    BY PageIdFacts, ContentTypes DEF FlushImage, TypeOK
  <2>2. TypeOK'
    BY <1>3, <2>1, FileTypes DEF FlushPage, TypeOK, Serving
  <2>3. Locals'
    BY <1>3 DEF FlushPage, Locals, BatchPages
  <2> QED BY <2>2, <2>3
<1>4. CASE FlushSync
  <2>1. pc' \in {"ckpt_super", "open"} /\ goal' = "none" /\ Serving /\ Serving'
    BY <1>4 DEF FlushSync, Serving, OpeningPcs
  <2>2. checkpointed' \in Nat
    BY <1>4, FileTypes DEF FlushSync, SyncFile, TypeOK
  <2>3. TypeOK'
    BY <1>4, <2>1, <2>2, FileTypes, ContentTypes DEF FlushSync, TypeOK, CallPcs
  <2>4. Locals'
    BY <1>4, <2>1 DEF FlushSync, Locals, BatchPages
  <2> QED BY <2>3, <2>4
<1> QED BY <1>2, <1>3, <1>4 DEF Flush

(* checkpoint and the WAL reset preserve the types.                         *)
LEMMA TypeCheckpoint ==
  ASSUME SetFacts
  PROVE  TypeInv /\ Checkpoint => TypeInv'
<1> SUFFICES ASSUME TypeInv, Checkpoint PROVE TypeInv'
  OBVIOUS
<1> USE DEF TypeInv, fileVars, walVars, storeVars, logVars, callVars, histVars, boundVars
<1>1. DirtySet \cup (IF dirty_superblock = NoPage THEN {} ELSE {active_slot}) \in SUBSET PageIds
  BY PageIdFacts DEF DirtySet, TypeOK
<1>2. CASE checkpoint
  <2>1. Locals'
    BY <1>2 DEF checkpoint, BeginFlush, Locals, BatchPages
  <2>2. ckpts' \in Nat /\ Serving /\ Serving'
    BY <1>2 DEF checkpoint, BeginFlush, TypeOK, Serving, OpeningPcs
  <2>3. CASE Clean
    BY <1>2, <2>1, <2>2, <2>3 DEF checkpoint, TypeOK, CallPcs
  <2>4. CASE ~Clean
    BY <1>1, <1>2, <2>1, <2>2, <2>4, FileTypes DEF checkpoint, BeginFlush, TypeOK, CallPcs
  <2> QED BY <2>3, <2>4
<1>3. CASE CheckpointWrite
  <2>1. Serving /\ Serving' /\ pc' \in {"ckpt_sync", "ckpt_check"}
    BY <1>3 DEF CheckpointWrite, Serving, OpeningPcs
  <2>2. OtherSlot(active_slot) \in PageIds /\ CheckpointSuperblock \in Contents
    BY <2>1, PageIdFacts, CheckpointTypes, ContentTypes DEF TypeOK
  <2>3. TypeOK'
    BY <1>3, <2>1, <2>2, FileTypes DEF CheckpointWrite, TypeOK, CallPcs
  <2>4. Locals'
    BY <1>3 DEF CheckpointWrite, Locals, BatchPages
  <2> QED BY <2>3, <2>4
<1>4. CASE CheckpointSync
  <2>1. Serving /\ Serving' /\ pc' = "ckpt_check"
    BY <1>4 DEF CheckpointSync, Serving, OpeningPcs
  <2>2. checkpointed' \in Nat
    BY <1>4, FileTypes DEF CheckpointSync, SyncFile, TypeOK
  <2>3. TypeOK'
    BY <1>4, <2>1, <2>2, FileTypes, PageIdFacts, CheckpointTypes DEF CheckpointSync, TypeOK, CallPcs
  <2>4. Locals'
    BY <1>4 DEF CheckpointSync, Locals, BatchPages
  <2> QED BY <2>3, <2>4
<1>5. CASE CheckpointCheck
  <2>1. Serving /\ Serving' /\ pc' \in {"open", "reset_truncate_sync"}
    BY <1>5 DEF CheckpointCheck, Serving, OpeningPcs
  <2>2. broken' \in BOOLEAN
    BY <1>5 DEF CheckpointCheck, TypeOK
  <2>3. TypeOK'
    <3>1. wfile' \in Seq(Frames) /\ wdisk' \in Seq(Frames)
      <4>1. wdisk' = wdisk /\ (wfile' = wfile \/ wfile' = <<>>)
        BY <1>5, Zenon DEF CheckpointCheck
      <4>2. <<>> \in Seq(Frames)
        OBVIOUS
      <4> QED BY <4>1, <4>2 DEF TypeOK
    <3>2. UNCHANGED <<fileVars, storeVars, logVars, callVars, histVars, boundVars>>
      BY <1>5 DEF CheckpointCheck
    <3> QED BY <2>1, <2>2, <3>1, <3>2 DEF TypeOK, CallPcs
  <2>4. Locals'
    BY <1>5, <2>1 DEF CheckpointCheck, Locals, BatchPages
  <2> QED BY <2>3, <2>4
<1>6. CASE ResetTruncateSync
  <2>1. Serving /\ Serving' /\ pc' = "reset_init"
    BY <1>6 DEF ResetTruncateSync, Serving, OpeningPcs
  <2>2. TypeOK'
    <3>1. FilesTyped'
      BY <1>6, TypeParts DEF ResetTruncateSync, SyncWal, FilesTyped
    <3>2. LogTyped'
      BY <1>6, <2>1, CheckpointTypes DEF ResetTruncateSync, LogTyped
    <3>3. CallTyped'
      BY <1>6, <2>1, TypeParts DEF ResetTruncateSync, CallTyped, CallPcs
    <3>4. StoreTyped' /\ broken' \in BOOLEAN /\ HistoryTyped'
      BY <1>6, <2>1, KeptTypes DEF ResetTruncateSync
    <3> QED BY <3>1, <3>2, <3>3, <3>4, TypeParts
  <2>3. Locals'
    BY <1>6 DEF ResetTruncateSync, Locals, BatchPages
  <2> QED BY <2>2, <2>3
<1>7. CASE ResetInit
  <2>1. Serving /\ Serving' /\ pc' = "reset_sync" /\ InitFrame(history_start_lsn) \in Frames
    BY <1>7, FrameTypes DEF ResetInit, Serving, OpeningPcs, TypeOK
  <2>2. TypeOK'
    <3>1. FilesTyped'
      BY <1>7, <2>1, TypeParts DEF ResetInit, FilesTyped
    <3>2. CallTyped'
      BY <1>7, <2>1, TypeParts DEF ResetInit, CallTyped, CallPcs
    <3>3. StoreTyped' /\ LogTyped' /\ broken' \in BOOLEAN /\ HistoryTyped'
      BY <1>7, <2>1, KeptTypes DEF ResetInit
    <3> QED BY <3>1, <3>2, <3>3, TypeParts
  <2>3. Locals'
    BY <1>7 DEF ResetInit, Locals, BatchPages
  <2> QED BY <2>2, <2>3
<1>8. CASE ResetSync
  <2>1. TypeOK'
    BY <1>8 DEF ResetSync, SyncWal, TypeOK, Serving, OpeningPcs, CallPcs
  <2>2. Locals'
    BY <1>8 DEF ResetSync, Locals, BatchPages
  <2> QED BY <2>1, <2>2
<1> QED BY <1>2, <1>3, <1>4, <1>5, <1>6, <1>7, <1>8 DEF Checkpoint

(* flush_dirty_pages writes only images the store already held.             *)
LEMMA WalFlush ==
  ASSUME SetFacts
  PROVE  TypeInv /\ TypeInv' /\ WalRule /\ Flush => WalRule'
<1> SUFFICES ASSUME TypeInv, TypeInv', WalRule, Flush PROVE WalRule'
  OBVIOUS
<1> USE DEF TypeInv, WalRule, fileVars, walVars, storeVars, logVars, callVars, histVars, boundVars
<1>1. CASE flush
  <2>1. /\ pc = "open" /\ pc' \in {"open", "flush"} /\ Serving /\ Serving'
        /\ UNCHANGED <<walVars, storeVars, logVars, group, hint, histVars>>
        /\ pc' = "flush" => goal' = "flush"
    BY <1>1 DEF flush, BeginFlush, Serving, OpeningPcs
  <2>2. broken' = broken
    BY <1>1 DEF flush
  <2>3. \A p \in DataPages : \A c \in Images(p)' : c \in Images(p) \/ c = Garbage
    <3>1. CASE UNCHANGED <<fileVars, storeVars>>
      BY <3>1 DEF Images
    <3>2. CASE ExtendFile(current_superblock.high_water_page_id)
      BY <2>1, <3>2, ExtendedFile
    <3> QED BY <1>1, <3>1, <3>2 DEF flush, BeginFlush
  <2>4. checkpointed \in Nat /\ checkpointed' = checkpointed /\ Garbage.kind # "page"
    BY <2>1 DEF TypeOK, Garbage
  <2>5. LogInv' /\ CoverInv'
    BY <2>1, <2>3, <2>4, KeptLog
  <2>6. EndInv'
    BY <2>1, <2>2 DEF EndInv, Knows
  <2>7. GroupInv'
    BY <2>1, NoGroup
  <2>8. CheckpointInv'
    BY <2>1 DEF CheckpointInv
  <2> QED BY <2>5, <2>6, <2>7, <2>8
<1>2. ASSUME NEW p \in left, FlushPage(p) PROVE WalRule'
  <2>1. /\ pc = "flush" /\ pc' = pc /\ Serving /\ Serving' /\ goal' = goal
        /\ UNCHANGED <<walVars, storeVars, logVars, group, hint, histVars>>
    BY <1>2 DEF FlushPage, Serving, OpeningPcs
  <2>2. broken' = broken
    BY <1>2 DEF FlushPage
  <2>3. \A q \in DataPages : \A c \in Images(q)' : c \in Images(q)
    <3>1. \A q \in DataPages : q \notin Slots /\ q \in PageIds
      BY PageIdFacts
    <3> QED BY <1>2, <3>1 DEF FlushPage, WritePage, FlushImage, Images, TypeOK
  <2>4. checkpointed \in Nat /\ checkpointed' = checkpointed
    BY <2>1 DEF TypeOK
  <2>5. LogInv' /\ CoverInv'
    BY <2>1, <2>3, <2>4, KeptLog
  <2>6. EndInv'
    BY <2>1, <2>2 DEF EndInv, Knows
  <2>7. GroupInv'
    BY <2>1, NoGroup
  <2>8. CheckpointInv'
    BY <2>1 DEF CheckpointInv
  <2> QED BY <2>5, <2>6, <2>7, <2>8
<1>3. CASE FlushSync
  <2>1. /\ pc = "flush" /\ pc' = (IF goal = "checkpoint" THEN "ckpt_super" ELSE "open")
        /\ UNCHANGED <<walVars, current_superblock, active_slot, logVars, group, hint>>
        /\ SyncFile /\ dirty_pages' = [p \in DataPages |-> NoPage]
    BY <1>3 DEF FlushSync
  <2>2. Serving /\ Serving' /\ pc' \in {"open", "ckpt_super"}
    BY <2>1 DEF Serving, OpeningPcs
  <2>3. broken' = broken
    BY <1>3 DEF FlushSync
  <2>4. \A p \in DataPages : \A c \in Images(p)' : c \in Images(p) \/ c = NoPage
    BY <2>1, PageIdFacts DEF SyncFile, NothingPending, Images, TypeOK
  <2>5. checkpointed <= checkpointed' /\ checkpointed' \in Nat /\ checkpointed \in Nat
    BY <2>1, FileTypes DEF SyncFile, TypeOK
  <2>6. LogInv' /\ CoverInv'
    <3>1. NoPage.kind # "page"
      BY DEF NoPage
    <3> QED BY <2>1, <2>2, <2>4, <2>5, <3>1, KeptLog
  <2>7. EndInv'
    BY <2>1, <2>2, <2>3 DEF EndInv, Knows
  <2>8. GroupInv'
    BY <2>2, NoGroup
  <2>9. CheckpointInv'
    <3>1. current_superblock.checkpoint_lsn \in Nat
      BY <2>2, SuperTypes DEF TypeOK
    <3>2. current_superblock.checkpoint_lsn <= checkpointed
      BY <2>2 DEF CheckpointInv
    <3>3. current_superblock'.checkpoint_lsn <= checkpointed'
      BY <2>1, <2>5, <3>1, <3>2
    <3> QED BY <2>2, <3>3, CheckpointServed
  <2> QED BY <2>6, <2>7, <2>8, <2>9
<1> QED BY <1>1, <1>2, <1>3 DEF Flush

(* checkpoint up to the sync of its superblock: from then on the checkpoint *)
(* covers everything committed.                                             *)
LEMMA WalCheckpointPages ==
  ASSUME SetFacts, TypeInv, TypeInv', WalRule, checkpoint \/ CheckpointWrite \/ CheckpointSync
  PROVE  WalRule'
<1> USE DEF TypeInv, WalRule, fileVars, walVars, storeVars, logVars, callVars, histVars, boundVars
<1>1. CASE checkpoint
  <2>1. /\ pc = "open" /\ pc' \in {"ckpt_super", "flush"} /\ Serving /\ Serving'
        /\ UNCHANGED <<walVars, storeVars, logVars, group, hint, histVars>>
    BY <1>1 DEF checkpoint, BeginFlush, Serving, OpeningPcs
  <2>2. ~broken /\ ~broken'
    BY <1>1 DEF checkpoint
  <2>3. \A p \in DataPages : \A c \in Images(p)' : c \in Images(p) \/ c = Garbage
    <3>1. CASE UNCHANGED <<fileVars, storeVars>>
      BY <3>1 DEF Images
    <3>2. CASE ExtendFile(current_superblock.high_water_page_id)
      BY <2>1, <3>2, ExtendedFile
    <3> QED BY <1>1, <3>1, <3>2 DEF checkpoint, BeginFlush
  <2>4. checkpointed \in Nat /\ checkpointed' = checkpointed /\ Garbage.kind # "page"
    BY <2>1 DEF TypeOK, Garbage
  <2>5. LogInv' /\ CoverInv'
    BY <2>1, <2>3, <2>4, KeptLog
  <2>6. EndInv'
    BY <2>1, <2>2 DEF EndInv, Knows
  <2>7. GroupInv'
    BY <2>1, NoGroup
  <2>8. CheckpointInv'
    BY <2>1 DEF CheckpointInv
  <2> QED BY <2>5, <2>6, <2>7, <2>8
<1>2. CASE CheckpointWrite
  <2>1. /\ pc = "ckpt_super" /\ pc' \in {"ckpt_sync", "ckpt_check"} /\ Serving /\ Serving'
        /\ UNCHANGED <<walVars, storeVars, logVars, group, hint, histVars>>
    BY <1>2 DEF CheckpointWrite, Serving, OpeningPcs
  <2>2. broken' = broken
    BY <1>2 DEF CheckpointWrite
  <2>3. ASSUME NEW p \in DataPages PROVE Images(p)' = Images(p)
    <3>1. p \in PageIds /\ p # OtherSlot(active_slot)
      BY PageIdFacts DEF TypeOK
    <3> QED BY <1>2, <2>1, <3>1 DEF CheckpointWrite, WritePage, Images, TypeOK
  <2>4. checkpointed \in Nat /\ checkpointed' = checkpointed
    BY <2>1 DEF TypeOK
  <2>5. LogInv' /\ CoverInv'
    BY <2>1, <2>3, <2>4, KeptLog
  <2>6. EndInv'
    BY <2>1, <2>2 DEF EndInv, Knows
  <2>7. GroupInv'
    BY <2>1, NoGroup
  <2>8. CheckpointInv'
    <3>1. CheckpointLsn' = CheckpointLsn /\ CheckpointSuperblock' = CheckpointSuperblock
      BY <2>1 DEF CheckpointLsn, CheckpointSuperblock
    <3>2. CheckpointLsn \in Nat /\ current_superblock.checkpoint_lsn \in Nat
      BY <2>1, CheckpointTypes, SuperTypes DEF TypeOK
    <3>3. CASE MetadataChanged
      <4>1. OtherSlot(active_slot) \in PageIds /\ pc' = "ckpt_sync"
        BY <1>2, <3>3, PageIdFacts DEF CheckpointWrite, TypeOK
      <4>2. dfile'[OtherSlot(active_slot')] = CheckpointSuperblock
        BY <1>2, <2>1, <3>3, <4>1 DEF CheckpointWrite, WritePage, TypeOK
      <4> QED BY <2>1, <3>1, <4>1, <4>2 DEF CheckpointInv
    <3>4. CASE ~MetadataChanged
      <4>1. pc' = "ckpt_check"
        BY <1>2, <3>4 DEF CheckpointWrite
      <4>2. CheckpointLsn <= current_superblock.checkpoint_lsn
        BY <3>2, <3>4 DEF MetadataChanged
      <4>3. current_superblock.checkpoint_lsn <= checkpointed
        BY <2>1 DEF CheckpointInv
      <4>4. CheckpointLsn <= checkpointed
        BY <2>4, <3>2, <4>2, <4>3
      <4> QED BY <2>1, <2>4, <3>1, <4>1, <4>3, <4>4 DEF CheckpointInv
    <3> QED BY <3>3, <3>4
  <2> QED BY <2>5, <2>6, <2>7, <2>8
<1>3. CASE CheckpointSync
  <2>1. /\ pc = "ckpt_sync" /\ pc' = "ckpt_check" /\ Serving /\ Serving' /\ SyncFile
        /\ UNCHANGED <<walVars, dirty_pages, logVars, group, hint>>
        /\ current_superblock' = CheckpointSuperblock
    BY <1>3 DEF CheckpointSync, Serving, OpeningPcs
  <2>2. broken' = broken
    BY <1>3 DEF CheckpointSync
  <2>3. \A p \in DataPages : \A c \in Images(p)' : c \in Images(p)
    BY <2>1, PageIdFacts DEF SyncFile, NothingPending, Images, TypeOK
  <2>4. /\ checkpointed <= checkpointed' /\ checkpointed' \in Nat /\ checkpointed \in Nat
        /\ \A s \in Slots : CheckpointOf(dfile[s]) <= checkpointed'
    BY <2>1, FileTypes DEF SyncFile, TypeOK
  <2>5. LogInv' /\ CoverInv'
    BY <2>1, <2>3, <2>4, KeptLog
  <2>6. EndInv'
    BY <2>1, <2>2 DEF EndInv, Knows
  <2>7. GroupInv'
    BY <2>1, NoGroup
  <2>8. CheckpointInv'
    <3>1. CheckpointSuperblock.kind = "super" /\ CheckpointSuperblock.checkpoint_lsn = CheckpointLsn
      BY DEF CheckpointSuperblock, Superblock
    <3>2. OtherSlot(active_slot) \in Slots /\ dfile[OtherSlot(active_slot)] = CheckpointSuperblock
      BY <2>1, PageIdFacts DEF CheckpointInv, TypeOK
    <3>3. CheckpointLsn <= checkpointed'
      BY <2>4, <3>1, <3>2 DEF CheckpointOf, IsSuper
    <3>4. CheckpointLsn' = CheckpointLsn
      BY <2>1, <3>1 DEF CheckpointLsn
    <3> QED BY <2>1, <3>1, <3>3, <3>4 DEF CheckpointInv
  <2> QED BY <2>5, <2>6, <2>7, <2>8
<1> QED BY <1>1, <1>2, <1>3

(* Truncating the WAL loses only COMMIT frames the checkpoint covers.       *)
LEMMA WalCheckpointCheck ==
  ASSUME TypeInv, TypeInv', WalRule, CheckpointCheck
  PROVE  WalRule'
<1> USE DEF TypeInv, WalRule, fileVars, walVars, storeVars, logVars, callVars, histVars, boundVars
<1>1. /\ pc = "ckpt_check" /\ pc' \in {"open", "reset_truncate_sync"} /\ Serving /\ Serving'
      /\ UNCHANGED <<fileVars, storeVars, logVars, group, hint, histVars>> /\ wdisk' = wdisk
  BY DEF CheckpointCheck, Serving, OpeningPcs
<1>2. ~broken
  BY <1>1 DEF EndInv
<1>3. GroupInv'
  BY <1>1, NoGroup
<1>4. CheckpointInv'
  BY <1>1 DEF CheckpointInv
<1>5. \A p : Images(p)' = Images(p)
  BY <1>1 DEF Images
<1>6. checkpointed \in Nat /\ checkpointed' = checkpointed /\ last_commit \in Nat
  BY <1>1 DEF TypeOK
<1>7. CASE wfile' = wfile
  <2>1. pc' = "open" \/ wfile = <<>>
    BY <1>7 DEF CheckpointCheck
  <2>2. LogInv' /\ CoverInv'
    BY <1>1, <1>5, <1>6, <1>7, KeptLog
  <2>3. Knows' => Knows
    BY <1>1, <1>2 DEF Knows
  <2>4. EndInv'
    <3>1. pc' # "open" => broken' = broken
      BY <1>1 DEF CheckpointCheck
    <3> QED BY <1>1, <1>2, <1>7, <2>1, <2>3, <3>1 DEF EndInv
  <2> QED BY <1>3, <1>4, <2>2, <2>4
<1>8. CASE wfile' # wfile
  <2>1. wfile' = <<>> /\ pc' = "reset_truncate_sync"
    BY <1>8 DEF CheckpointCheck
  <2>2. broken' = broken
    BY <1>8 DEF CheckpointCheck
  <2>3. ASSUME NEW l, Committed(wdisk, l) PROVE l <= checkpointed
    <3>1. CASE Committed(wfile, l)
      <4>1. PICK i \in CommitIndexes(wfile) : wfile[i].lsn = l
        BY <3>1 DEF Committed
      <4>2. l \in Nat
        BY <4>1, CommitFields DEF TypeOK
      <4>3. l <= last_commit
        BY <1>1, <1>2, <4>1 DEF EndInv, Knows, EndsBefore
      <4>4. last_commit > 0 => last_commit <= checkpointed
        BY <1>1 DEF CheckpointInv, CheckpointLsn
      <4> QED BY <1>6, <4>2, <4>3, <4>4
    <3>2. Covered(wfile, checkpointed, l)
      BY <2>3, CoverFacts DEF Covered
    <3> QED BY <3>1, <3>2 DEF Covered
  <2>4. LogInv' /\ CoverInv'
    <3>1. WellFormed(<<>>, checkpointed) /\ WellFormed(wdisk, checkpointed)
      BY <1>6, ShortLogs DEF LogInv
    <3>2. \A l : Committed(wdisk, l) => Covered(<<>>, checkpointed, l)
      BY <2>3 DEF Covered
    <3> QED BY <1>1, <1>5, <1>6, <2>1, <3>1, <3>2, LogStep
  <2>5. EndInv'
    <3>1. Sound(wfile') = {} /\ CommitIndexes(wfile') = {}
      BY <2>1 DEF Sound, CommitIndexes
    <3>2. EndsBefore(wfile', next_lsn', next_batch_id', last_commit')
      BY <3>1 DEF EndsBefore
    <3> QED BY <1>2, <2>1, <2>2, <3>2 DEF EndInv
  <2> QED BY <1>3, <1>4, <2>4, <2>5
<1> QED BY <1>7, <1>8

(* WalLog::reset preserves the write-ahead rule.                            *)
LEMMA WalReset ==
  ASSUME TypeInv, TypeInv', WalRule, ResetTruncateSync \/ ResetInit \/ ResetSync
  PROVE  WalRule'
<1> USE DEF TypeInv, WalRule, fileVars, walVars, storeVars, logVars, callVars, histVars, boundVars
<1>1. /\ pc \in {"reset_truncate_sync", "reset_init", "reset_sync"}
      /\ pc' \in {"reset_init", "reset_sync", "open"} /\ Serving /\ Serving'
      /\ UNCHANGED <<fileVars, storeVars, group, hint, histVars>>
  BY DEF ResetTruncateSync, ResetInit, ResetSync, Serving, OpeningPcs
<1>2. broken' = broken
  BY DEF ResetTruncateSync, ResetInit, ResetSync
<1>3. GroupInv'
  BY <1>1, NoGroup
<1>4. CheckpointInv'
  BY <1>1 DEF CheckpointInv
<1>5. checkpointed \in Nat /\ checkpointed' = checkpointed
  BY <1>1 DEF TypeOK
<1>6. CASE ResetTruncateSync
  <2>1. LogInv' /\ CoverInv'
    BY <1>1, <1>6, SyncedLog DEF ResetTruncateSync
  <2>2. wfile' = <<>> /\ next_lsn' = CheckpointLsn + 1 /\ next_batch_id' = 1 /\ pc' = "reset_init"
    BY <1>6 DEF ResetTruncateSync, SyncWal, EndInv
  <2>3. next_lsn' > 0 /\ next_batch_id' > 0
    BY <1>1, <2>2, CheckpointTypes
  <2>4. EndInv'
    <3>1. Sound(wfile') = {} /\ CommitIndexes(wfile') = {}
      BY <2>2 DEF Sound, CommitIndexes
    <3>2. EndsBefore(wfile', next_lsn', next_batch_id', last_commit')
      BY <3>1 DEF EndsBefore
    <3> QED BY <1>1, <1>2, <2>2, <2>3, <3>2 DEF EndInv
  <2> QED BY <1>3, <1>4, <2>1, <2>4
<1>7. CASE ResetInit
  <2>1. /\ pc = "reset_init" /\ pc' = "reset_sync" /\ wdisk' = wdisk /\ wfile = <<>>
        /\ wfile' = Append(wfile, InitFrame(history_start_lsn)) /\ UNCHANGED logVars
    BY <1>7 DEF ResetInit, EndInv
  <2>2. wfile' = <<InitFrame(history_start_lsn)>> /\ history_start_lsn \in Nat
    <3>1. wfile' = <<InitFrame(history_start_lsn)>>
      BY <2>1
    <3> QED BY <3>1, TypeParts DEF LogTyped
  <2>3. \A p : Images(p)' = Images(p)
    BY <1>1 DEF Images
  <2>4. LogInv' /\ CoverInv'
    <3>1. WellFormed(wfile', checkpointed) /\ WellFormed(wdisk, checkpointed)
      BY <1>5, <2>2, ShortLogs DEF LogInv
    <3>2. \A l : Committed(wdisk, l) => l <= checkpointed
      BY <1>5, <2>1, CoverFacts, ShortLogs DEF Covered, Committed
    <3>3. \A l : Committed(wdisk', l) => Covered(wfile', checkpointed, l)
      BY <2>1, <3>2 DEF Covered
    <3> QED BY <1>1, <1>5, <2>1, <2>3, <3>1, <3>3, LogStep
  <2>5. EndInv'
    <3>1. CommitIndexes(wfile') = {}
      BY <1>5, <2>2, ShortLogs
    <3>2. \A i \in Sound(wfile') : wfile'[i] = InitFrame(history_start_lsn)
      BY <2>2 DEF Sound
    <3>3. next_lsn' > 0 /\ next_batch_id' > 0
      BY <2>1 DEF EndInv
    <3>4. EndsBefore(wfile', next_lsn', next_batch_id', last_commit')
      <4>1. InitFrame(history_start_lsn).lsn = 0 /\ InitFrame(history_start_lsn).batch = 0
        BY DEF InitFrame
      <4>2. \A i \in Sound(wfile') : wfile'[i].lsn < next_lsn' /\ wfile'[i].batch < next_batch_id'
        BY <3>2, <3>3, <4>1
      <4> QED BY <3>1, <4>2 DEF EndsBefore
    <3> QED BY <1>1, <1>2, <2>1, <3>4 DEF EndInv
  <2> QED BY <1>3, <1>4, <2>4, <2>5
<1>8. CASE ResetSync
  <2>1. LogInv' /\ CoverInv'
    BY <1>1, <1>8, SyncedLog DEF ResetSync
  <2>2. pc = "reset_sync" /\ pc' = "open" /\ wfile' = wfile /\ UNCHANGED logVars
    BY <1>8 DEF ResetSync, SyncWal
  <2>3. EndInv'
    BY <1>1, <1>2, <2>2 DEF EndInv, Knows
  <2> QED BY <1>3, <1>4, <2>1, <2>3
<1> QED BY <1>6, <1>7, <1>8

(* checkpoint preserves the write-ahead rule.                               *)
LEMMA WalCheckpoint ==
  ASSUME SetFacts
  PROVE  TypeInv /\ TypeInv' /\ WalRule /\ Checkpoint => WalRule'
BY WalCheckpointPages, WalCheckpointCheck, WalReset DEF Checkpoint

=============================================================================
