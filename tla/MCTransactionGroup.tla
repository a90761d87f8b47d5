------------------------- MODULE MCTransactionGroup -------------------------
(***************************************************************************)
(* Instances of TransactionGroup: one where single writes of keys of about  *)
(* half a page, four of which already need three levels, grow and shrink    *)
(* the tree, groups with conditions and batches meet failed appends, and    *)
(* keys beyond half a page make splits fail; and one where such a failure   *)
(* happens inside a group.                                                  *)
(***************************************************************************)
EXTENDS TransactionGroup

Small == "small"
Large == "large"          \* two overflow pages
MCValues == {Small, Large}
MCValueLen == (Small :> 10) @@ (Large :> 5000)

Single(m) == Request(<<>>, <<m>>)
Get(key) == [op |-> "get", key |-> key, value |-> Missing]
Query(pk, cursor, limit) == [op |-> "query", pk |-> pk, key |-> cursor, limit |-> limit, value |-> Missing]
Scan(cursor, limit) == [op |-> "scan", key |-> cursor, limit |-> limit, value |-> Missing]

\* With a small value 21 and 31 take exactly half a page, 22, 23 and 32 more;
\* 33 and 40 are beyond the limit of a key.
EngineLen ==
  (10 :> 99) @@ (11 :> 100) @@ (12 :> 100) @@ (20 :> 1965) @@ (21 :> 1966) @@ (30 :> 1965) @@ (31 :> 1966)
    @@ (22 :> 2500) @@ (23 :> 2500) @@ (32 :> 2500) @@ (33 :> 4000) @@ (40 :> 4000)
EngineKeys == DOMAIN EngineLen

HalfKeys == {10, 11, 12, 20, 21, 30, 31}
Growth ==
  [requests |-> {Single(Put(k, Small)) : k \in HalfKeys} \cup {Single(Put(k, Large)) : k \in {11, 20}}
                  \cup {Single(Delete(k)) : k \in HalfKeys},
   batches |-> {}, prefill |-> <<Put(20, Small), Put(12, Small), Put(11, Large)>>,
   commits |-> 3, group |-> 1, failures |-> 0]

Grouping ==
  [requests |->
     { Single(Put(10, Large)), Single(Delete(11)),
       Request(<<Exists(11)>>, <<Put(10, Small)>>),
       Request(<<NotExists(10)>>, <<>>),
       Request(<<RevisionEquals(10, Observed)>>, <<Delete(10), Put(11, Small)>>),
       Request(<<RevisionEquals(11, Observed), NotExists(11)>>, <<Put(11, Large)>>),  \* one key twice
       Request(<<>>, <<Put(10, Small), Put(40, Small)>>),
       Request(<<RevisionEquals(11, Observed), Exists(40)>>, <<Put(11, Small)>>) },
   batches |-> { <<Put(10, Large), Get(10), Put(10, Small), Delete(11), Scan(NoCursor, 2)>>,
                 <<Get(11), Scan(10, 9), Query(1, NoCursor, 1)>>, <<Put(11, Small), Query(3, 33, 1)>>,
                 <<Put(40, Small)>> },
   prefill |-> <<Put(10, Small)>>,
   commits |-> 2, group |-> 2, failures |-> 1]

\* Keys beyond half a page: a parent holds one separator only.
Crowding ==
  [requests |-> { Request(<<>>, <<Delete(23), Put(32, Large)>>), Single(Put(22, Small)), Single(Put(10, Large)),
                  Single(Delete(32)), Single(Put(23, Small)) },
   batches |-> { <<Put(10, Small), Put(32, Small)>> }, prefill |-> <<Put(22, Small), Put(23, Large)>>,
   commits |-> 3, group |-> 1, failures |-> 0]

EngineWorkloads == {Growth, Grouping, Crowding}

\* The same in a group.
FatKeys == {10, 20, 30}
FatLen == [k \in FatKeys |-> 2500]
FatWorkloads ==
  { [requests |-> { Request(<<>>, <<Delete(30), Put(10, Small)>>), Single(Put(20, Small)), Single(Put(10, Small)) },
     batches |-> {}, prefill |-> <<Put(20, Small), Put(30, Small)>>,
     commits |-> 2, group |-> 2, failures |-> 0] }

=============================================================================
