------------------------- MODULE ShardStoreTheorems --------------------------
(***************************************************************************)
(* The theorems about ShardStore: type correctness and write-ahead         *)
(* logging.  The steps are proved in ShardStoreTypes, ShardStoreWrites and *)
(* ShardStoreRecovery from SetFacts, which is proved here.                 *)
(***************************************************************************)
EXTENDS ShardStoreTypes, ShardStoreWrites, ShardStoreRecovery, FiniteSetTheorems

(* Every step preserves the types.                                          *)
LEMMA TypeStep ==
  ASSUME SetFacts
  PROVE  TypeInv /\ [Next]_vars => TypeInv'
<1> SUFFICES ASSUME TypeInv, [Next]_vars PROVE TypeInv'
  OBVIOUS
<1>1. CASE UNCHANGED vars
  BY <1>1 DEF vars, fileVars, walVars, storeVars, logVars, callVars, histVars, boundVars,
     TypeInv, TypeOK, Locals, Serving, BatchPages
<1> QED BY <1>1, TypeCommit, TypeFlush, TypeCheckpoint, TypeOpen, TypeFailure DEF Next

(* Every step but the kill of the process preserves the write-ahead rule.   *)
LEMMA WalStep ==
  ASSUME SetFacts, "process" \notin CrashKinds
  PROVE  TypeInv /\ TypeInv' /\ WalRule /\ [Next]_vars => WalRule'
<1> SUFFICES ASSUME TypeInv, TypeInv', WalRule, [Next]_vars PROVE WalRule'
  OBVIOUS
<1>1. CASE UNCHANGED vars
  <2> USE <1>1 DEF vars, fileVars, walVars, storeVars, logVars, callVars, histVars, boundVars, WalRule
  <2>1. LogInv'
    BY DEF LogInv
  <2>2. EndInv'
    <3>1. Knows' <=> Knows
      BY DEF Knows, Serving
    <3> QED BY <3>1 DEF EndInv
  <2>3. GroupInv'
    BY DEF GroupInv
  <2>4. CheckpointInv'
    BY DEF CheckpointInv, Serving, CheckpointSuperblock, CheckpointLsn
  <2>5. CoverInv'
    BY DEF CoverInv, Images, Serving
  <2> QED BY <2>1, <2>2, <2>3, <2>4, <2>5
<1>2. CASE Next
  <2>1. ~ProcessCrash
    BY DEF ProcessCrash
  <2> QED BY <1>2, <2>1, WalCommit, WalFlush, WalCheckpoint, WalOpen, WalFailure DEF Next, Failure
<1> QED BY <1>1, <1>2

-----------------------------------------------------------------------------
(* A nonempty bounded set of naturals has a greatest element: mirrored at    *)
(* the bound it is a set of naturals with a least one.                       *)
LEMMA GreatestExists ==
  ASSUME NEW S \in SUBSET Nat, S # {}, NEW n \in Nat, \A i \in S : i <= n
  PROVE  \E i \in S : \A j \in S : j <= i
<1> DEFINE T == {n - i : i \in S}
<1>1. T \subseteq Nat /\ T # {}
  <2>1. PICK i \in S : TRUE
    OBVIOUS
  <2>2. n - i \in T
    OBVIOUS
  <2> QED BY <2>2
<1>2. PICK x \in T : \A y \in T : ~(<<y, x>> \in OpToRel(<, Nat))
  <2> HIDE DEF T
  <2> QED BY <1>1, WFMin, NatLessThanWellFounded
<1>3. \A y \in T : x <= y
  <2> HIDE DEF T
  <2> SUFFICES ASSUME NEW y \in T, y < x PROVE FALSE
    BY <1>1
  <2>1. <<y, x>> \in Nat \X Nat
    BY <1>1
  <2>2. <<y, x>> \in OpToRel(<, Nat)
    BY <2>1 DEF OpToRel
  <2> QED BY <1>2, <2>2
<1>4. PICK i \in S : x = n - i
  OBVIOUS
<1>5. \A j \in S : j <= i
  <2> TAKE j \in S
  <2>1. n - j \in T
    OBVIOUS
  <2> QED BY <1>3, <1>4, <2>1
<1> QED BY <1>5

(* The facts about sets that the steps assume hold.                          *)
LEMMA SetFactsHold == SetFacts
<1>1. \A S \in SUBSET Nat, n \in Nat : S # {} /\ (\A i \in S : i <= n)
        => \E i \in S : \A j \in S : j <= i
  BY GreatestExists
<1>2. \A S \in SUBSET PageIds : IsFiniteSet(S)
  <2>1. IsFiniteSet(PageIds)
    BY BoundsAssumption, FS_Interval DEF PageIds
  <2> QED BY <2>1, FS_Subset
<1>3. \A S \in SUBSET PageIds : Cardinality(S) \in Nat
  BY <1>2, FS_CardinalityType
<1>4. \A S, T \in SUBSET PageIds : S \subseteq T => Cardinality(S) <= Cardinality(T)
  BY <1>2, FS_Subset
<1>5. \A S \in SUBSET PageIds : \A p \in PageIds \ S : Cardinality(S \cup {p}) = Cardinality(S) + 1
  BY <1>2, FS_AddElement
<1>6. \A S \in SUBSET PageIds : \A p \in S : Cardinality(S \ {p}) = Cardinality(S) - 1
  BY <1>2, FS_RemoveElement
<1>7. Cardinality({}) = 0
  BY FS_EmptySet
<1> QED BY <1>1, <1>3, <1>4, <1>5, <1>6, <1>7 DEF SetFacts

-----------------------------------------------------------------------------
(* Every variable of the store keeps its range: in particular an open shard *)
(* always has a decoded superblock in memory and a closed one none, and     *)
(* frame, batch and LSN arithmetic never leaves the naturals (BTreeStore    *)
(* and WalLog fields).                                                      *)
THEOREM TypeCorrect == Spec => []TypeOK
<1>1. TypeInv => TypeOK
  BY DEF TypeInv
<1>2. TypeInv /\ [Next]_vars => TypeInv'
  BY SetFactsHold, TypeStep
<1> QED BY <1>1, <1>2, TypeInit, PTL DEF Spec

(* Write-ahead logging: however a machine that may lose power and whose     *)
(* file operations may fail interleaves group commits, flushes, checkpoints *)
(* and recoveries, no page image is in the data file, synced or not, unless *)
(* the COMMIT frame of its transaction is in the WAL on stable storage or a *)
(* checkpoint on stable storage has replaced it (publish_prepared_group,    *)
(* flush_dirty_pages, checkpoint, WalLog::reset, recover_data_file).  Holds *)
(* for every number of pages, transactions, checkpoints, crashes and        *)
(* faults, provided the process is not killed on its own.                   *)
THEOREM WriteAheadHolds ==
  ASSUME "process" \notin CrashKinds
  PROVE  Spec => []WriteAhead
<1>1. WalRule => WriteAhead
  BY DEF WalRule, CoverInv, Covered, Committed, Images, WriteAhead
<1>2. TypeInv /\ [Next]_vars => TypeInv'
  BY SetFactsHold, TypeStep
<1>3. TypeInv /\ TypeInv' /\ WalRule /\ [Next]_vars => WalRule'
  BY SetFactsHold, WalStep
<1> QED BY <1>1, <1>2, <1>3, TypeInit, WalInit, PTL DEF Spec
==============================================================================
