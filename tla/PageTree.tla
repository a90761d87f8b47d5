------------------------------ MODULE PageTree ------------------------------
(***************************************************************************)
(* The B+Tree of btree/mod.rs as operators on an overlay of pages: descent, *)
(* leaf and internal splits by encoded size, overflow chains, the free     *)
(* list, range reads, and the structural checker of btree/checker.rs.      *)
(*                                                                         *)
(* A key is a natural number in the order of its encoded bytes; its tens   *)
(* are the partition key, its units the sort key.  Lengths are in bytes    *)
(* and the page layout constants are those of btree/format.rs, so whether  *)
(* a page is full is decided as the encoder decides it.                    *)
(***************************************************************************)
EXTENDS Transactions

CONSTANTS
  KeyLen,     \* the encoded length of each key
  ValueLen    \* the length of each value

Pk(key) == key \div 10
StartKey(pk) == pk * 10         \* the partition key with an empty sort key

ASSUME KeysAssumption == Keys \subseteq Nat /\ KeyLen \in [Keys -> Nat]
(* With a key comes its partition key alone, which queries start from.      *)
ASSUME PartitionsAssumption == \A key \in Keys : StartKey(Pk(key)) \in Keys
ASSUME ValuesAssumption == ValueLen \in [Values -> Nat]

FIRST_DATA_PAGE == 2
MAX_ENCODED_KEY_SIZE == 3992
MAX_VALUE_SIZE == 64 * 1024 * 1024
BODY_SIZE == 4064
INLINE_VALUE_LIMIT == 512
OVERFLOW_DATA_SIZE == BODY_SIZE - 32
LEAF_OVERHEAD == 8 + 32         \* slot and record header of a leaf entry
INTERNAL_OVERHEAD == 8 + 12     \* slot and record header of a separator
CAPACITY == BODY_SIZE - 32      \* what the page header leaves

NilPage == 0
Inline(value) == [kind |-> "inline", value |-> value]
Overflow(head, length) == [kind |-> "overflow", head |-> head, length |-> length]
Tombstone == [kind |-> "none"]
Entry(key, revision, value) == [key |-> key, revision |-> revision, value |-> value]
Separator(key, child) == [key |-> key, child |-> child]

LeafPage(lsn, next, entries) ==
  [type |-> "leaf", lsn |-> lsn, next |-> next, entries |-> entries]
InternalPage(lsn, leftmost, entries) ==
  [type |-> "internal", lsn |-> lsn, leftmost |-> leftmost, entries |-> entries]
OverflowPage(lsn, next, length, chunk) ==
  [type |-> "overflow", lsn |-> lsn, next |-> next, length |-> length, chunk |-> chunk]
FreePage(lsn, next) == [type |-> "free", lsn |-> lsn, next |-> next]

-----------------------------------------------------------------------------
(* Page capacity (format.rs).                                              *)

Ascending(entries) == \A i \in 1..Len(entries) - 1 : entries[i].key < entries[i + 1].key

leaf_entry_size(entry) ==
  LEAF_OVERHEAD + KeyLen[entry.key]
    + IF entry.value.kind = "inline" THEN ValueLen[entry.value.value] ELSE 0

leaf_fits(entries) ==
  /\ Ascending(entries)
  /\ FoldLeft(LAMBDA sum, e : sum + leaf_entry_size(e), 0, entries) <= CAPACITY

internal_fits(entries) ==
  /\ Ascending(entries)
  /\ FoldLeft(LAMBDA sum, e : sum + INTERNAL_OVERHEAD + KeyLen[e.key], 0, entries) <= CAPACITY

restamp_skipped(page, provisional, committed) == [page EXCEPT !.lsn = committed]   \* entries keep theirs
(* A provisional revision becomes the commit LSN in every dirty page.       *)
restamp(page, provisional, committed) ==
  IF page.type = "leaf"
  THEN [page EXCEPT !.lsn = committed,
                    !.entries = [i \in DOMAIN page.entries |->
                      IF page.entries[i].revision = provisional
                      THEN [page.entries[i] EXCEPT !.revision = committed]
                      ELSE page.entries[i]]]
  ELSE [page EXCEPT !.lsn = committed]

-----------------------------------------------------------------------------
(* Where to split (mod.rs).  Positions count the entries that stay left.    *)

Distance(a, b) == IF a > b THEN a - b ELSE b - a

split_candidates_middle(length) == <<length \div 2>>   \* no other boundary is tried
(* 1 .. length-1, nearest to the middle first, the lower of two equals first. *)
split_candidates(length) ==
  LET m == length \div 2
      Before(a, b) == \/ Distance(a, m) < Distance(b, m)
                      \/ Distance(a, m) = Distance(b, m) /\ a < b
  IN SortSeq([i \in 1..length - 1 |-> i], Before)

FirstOf(candidates, fitting) ==
  LET fit == SelectSeq(candidates, LAMBDA c : c \in fitting) IN IF fit = <<>> THEN 0 ELSE fit[1]

(* 0 stands for the InvalidInput error.                                     *)
choose_leaf_split(entries) ==
  FirstOf(split_candidates(Len(entries)),
          {c \in DOMAIN entries : /\ leaf_fits(SubSeq(entries, 1, c))
                                  /\ leaf_fits(SubSeq(entries, c + 1, Len(entries)))})

(* The separator after the left part is promoted.                           *)
choose_internal_split(entries) ==
  IF Len(entries) < 3 THEN 0
  ELSE FirstOf(split_candidates(Len(entries)),
               {c \in DOMAIN entries : /\ internal_fits(SubSeq(entries, 1, c))
                                       /\ internal_fits(SubSeq(entries, c + 2, Len(entries)))})

-----------------------------------------------------------------------------
(* The overlay: the pages as the batch sees them, the pages it has changed, *)
(* the allocator, the revision counters and the error that ended it.        *)

Failed(o, error) == [o EXCEPT !.err = error]
PageAt(o, id) ==   \* "absent" stands for Corruption
  IF id \in DOMAIN o.pages /\ id \in FIRST_DATA_PAGE..o.high THEN o.pages[id] ELSE [type |-> "absent"]
replace_page(o, id, page) ==
  [o EXCEPT !.pages = (id :> page) @@ @, !.dirty = @ \cup {id}]

allocate_page_unpopped(o) ==   \* the free list keeps the page it handed out
  IF o.free # NilPage THEN [o |-> o, id |-> o.free]
  ELSE [o |-> [o EXCEPT !.high = @ + 1], id |-> o.high + 1]
allocate_page(o) ==
  IF o.free # NilPage
  THEN LET page == PageAt(o, o.free) IN
       IF page.type # "free" THEN [o |-> Failed(o, "Corruption"), id |-> o.free]
       ELSE [o |-> [o EXCEPT !.free = page.next], id |-> o.free]
  ELSE [o |-> [o EXCEPT !.high = @ + 1], id |-> o.high + 1]

free_page(o, id, lsn) ==
  [replace_page(o, id, FreePage(lsn, o.free)) EXCEPT !.free = id]

allocate_revision(o) == IF o.last # 0 THEN o.last ELSE o.nextRev

(* The path from the root to the leaf for key; empty when a page on it is   *)
(* not a tree page (Corruption).                                            *)
ChildFor(page, key) ==
  LET index == Cardinality({i \in DOMAIN page.entries : page.entries[i].key <= key})
  IN IF index = 0 THEN page.leftmost ELSE page.entries[index].child

RECURSIVE Descend(_, _, _)
Descend(o, key, route) ==
  LET page == PageAt(o, Last(route)) IN
  CASE page.type = "leaf" -> route
    [] page.type = "internal" /\ ChildFor(page, key) \notin Range(route) ->
         Descend(o, key, Append(route, ChildFor(page, key)))
    [] OTHER -> <<>>

find_leaf(o, key) == Descend(o, key, <<o.root>>)
leftmost_leaf(o) == Descend(o, -1, <<o.root>>)

-----------------------------------------------------------------------------
(* Values.  A chunk is the value and the position of the piece in it.       *)

ChunkCount(value) == (ValueLen[value] + OVERFLOW_DATA_SIZE - 1) \div OVERFLOW_DATA_SIZE
ChunkLen(value, i) ==
  IF i < ChunkCount(value) THEN OVERFLOW_DATA_SIZE
  ELSE ValueLen[value] - (i - 1) * OVERFLOW_DATA_SIZE

make_value(o, value, lsn) ==
  IF ValueLen[value] <= INLINE_VALUE_LIMIT THEN [o |-> o, ref |-> Inline(value)]
  ELSE LET n == ChunkCount(value)
           Take(acc, i) == LET a == allocate_page(acc.o) IN [o |-> a.o, ids |-> Append(acc.ids, a.id)]
           taken == FoldLeft(Take, [o |-> o, ids |-> <<>>], [i \in 1..n |-> i])
           Write(acc, i) ==
             replace_page(acc, taken.ids[i],
               OverflowPage(lsn, IF i < n THEN taken.ids[i + 1] ELSE NilPage,
                            ValueLen[value], [value |-> value, index |-> i]))
       IN [o |-> FoldLeft(Write, taken.o, [i \in 1..n |-> i]),
           ref |-> Overflow(taken.ids[1], ValueLen[value])]

(* The pages of a chain in order; a page that is no overflow page of this   *)
(* length, or is met twice, ends it with NilPage (Corruption).              *)
RECURSIVE ChainFrom(_, _, _, _)
ChainFrom(o, id, length, chain) ==
  IF id = NilPage THEN chain
  ELSE LET page == PageAt(o, id) IN
       IF id \in Range(chain) \/ page.type # "overflow" \/ page.length # length
       THEN Append(chain, NilPage)
       ELSE ChainFrom(o, page.next, length, Append(chain, id))

Chain(o, ref) == ChainFrom(o, ref.head, ref.length, <<>>)
ChainLength(o, chain) ==
  FoldLeft(LAMBDA sum, id : sum + ChunkLen(o.pages[id].chunk.value, o.pages[id].chunk.index), 0, chain)

free_value(o, ref, lsn) ==
  IF ref.kind # "overflow" THEN o
  ELSE LET chain == Chain(o, ref) IN
       IF NilPage \in Range(chain) \/ ChainLength(o, chain) # ref.length \/ ref.length = 0
       THEN Failed(o, "Corruption")
       ELSE FoldLeft(LAMBDA acc, id : free_page(acc, id, lsn), o, chain)

(* The value a reference stands for, or Garbled when its chain is broken.   *)
Garbled == "garbled"
read_value(o, ref) ==
  IF ref.kind = "inline" THEN ref.value
  ELSE LET chain == Chain(o, ref) IN
       IF NilPage \in Range(chain) \/ ChainLength(o, chain) # ref.length THEN Garbled
       ELSE LET v == o.pages[chain[1]].chunk.value IN
            IF \A i \in DOMAIN chain : o.pages[chain[i]].chunk = [value |-> v, index |-> i]
            THEN v ELSE Garbled

-----------------------------------------------------------------------------
(* Inserting into leaves and parents.                                       *)

RECURSIVE insert_parent_separator(_, _, _, _, _)
insert_parent_separator(o, route, key, child, lsn) ==
  IF o.err # "none" THEN o
  ELSE IF route = <<>>
  THEN LET a == allocate_page(o) IN
       [replace_page(a.o, a.id, InternalPage(lsn, o.root, <<Separator(key, child)>>)) EXCEPT !.root = a.id]
  ELSE
  LET id == Last(route)
      page == PageAt(o, id)
      index == Cardinality({i \in DOMAIN page.entries : page.entries[i].key < key})
      entries == InsertAt(page.entries, index + 1, Separator(key, child))
      split == choose_internal_split(entries)
      promoted == entries[split + 1]
      right == allocate_page(o)
      lower == SubSeq(entries, 1, split)
      upper == SubSeq(entries, split + 2, Len(entries))
      cut == replace_page(replace_page(right.o, id, InternalPage(lsn, page.leftmost, lower)),
                          right.id, InternalPage(lsn, promoted.child, upper))
  IN IF page.type # "internal" THEN Failed(o, "Corruption")
     ELSE IF internal_fits(entries)
          THEN replace_page(o, id, InternalPage(lsn, page.leftmost, entries))
     ELSE IF split = 0 THEN Failed(o, "InvalidInput")
     ELSE insert_parent_separator(cut, Front(route), promoted.key, right.id, lsn)

insert_leaf_entries(o, route, next, entries, lsn) ==
  LET leaf == Last(route)
      split == choose_leaf_split(entries)
      right == allocate_page(o)
      lower == SubSeq(entries, 1, split)
      upper == SubSeq(entries, split + 1, Len(entries))
      cut == replace_page(replace_page(right.o, leaf, LeafPage(lsn, right.id, lower)),
                          right.id, LeafPage(lsn, next, upper))
  IN IF leaf_fits(entries) THEN replace_page(o, leaf, LeafPage(lsn, next, entries))
     ELSE IF split = 0 THEN Failed(o, "InvalidInput")
     ELSE insert_parent_separator(cut, Front(route), upper[1].key, right.id, lsn)

validate_encoded_key(key) == KeyLen[key] <= MAX_ENCODED_KEY_SIZE
validate_value(value) == ValueLen[value] <= MAX_VALUE_SIZE

PositionOf(entries, key) == SelectInSeq(entries, LAMBDA e : e.key = key)
WithEntry(entries, entry) ==
  LET at == PositionOf(entries, entry.key) IN
  IF at # 0 THEN [entries EXCEPT ![at] = entry]
  ELSE InsertAt(entries, Cardinality({i \in DOMAIN entries : entries[i].key < entry.key}) + 1, entry)
ValueIn(entries, key) ==
  LET at == PositionOf(entries, key) IN IF at = 0 THEN Tombstone ELSE entries[at].value

(* The replaced value goes once the new entry is in.                        *)
FreeReplaced(o, ref, lsn) == IF o.err # "none" THEN o ELSE free_value(o, ref, lsn)

put(o, key, value) ==
  LET revision == allocate_revision(o)
      started == [o EXCEPT !.last = revision]
      route == find_leaf(o, key)
      leaf == PageAt(o, Last(route))
      Stored(m) == insert_leaf_entries(m.o, route, leaf.next,
                     WithEntry(leaf.entries, Entry(key, revision, m.ref)), revision)
  IN IF o.err # "none" THEN o
     ELSE IF ~validate_value(value) \/ ~validate_encoded_key(key) THEN Failed(o, "InvalidInput")
     ELSE IF route = <<>> THEN Failed(started, "Corruption")
     ELSE FreeReplaced(Stored(make_value(started, value, revision)), ValueIn(leaf.entries, key), revision)

(* A present entry becomes a tombstone in place; a missing key gets one.    *)
delete(o, key) ==
  LET revision == allocate_revision(o)
      started == [o EXCEPT !.last = revision]
      route == find_leaf(o, key)
      leaf == PageAt(o, Last(route))
      entries == WithEntry(leaf.entries, Entry(key, revision, Tombstone))
  IN IF o.err # "none" THEN o
     ELSE IF ~validate_encoded_key(key) THEN Failed(o, "InvalidInput")
     ELSE IF route = <<>> THEN Failed(started, "Corruption")
     ELSE IF PositionOf(leaf.entries, key) # 0
          THEN free_value(replace_page(started, Last(route), LeafPage(revision, leaf.next, entries)),
                          ValueIn(leaf.entries, key), revision)
     ELSE insert_leaf_entries(started, route, leaf.next, entries, revision)

-----------------------------------------------------------------------------
(* Reads.  A state is a value or Missing, with the revision that made it.   *)

StateOf(o, entry) ==
  [value |-> IF entry.value.kind = "none" THEN Missing ELSE read_value(o, entry.value),
   revision |-> entry.revision]

get_state(o, key) ==
  LET route == find_leaf(o, key)
      leaf == PageAt(o, Last(route))
      at == PositionOf(leaf.entries, key)
  IN IF route = <<>> THEN [value |-> Garbled, revision |-> 0]
     ELSE IF at = 0 THEN [value |-> Missing, revision |-> 0]
     ELSE StateOf(o, leaf.entries[at])

(* Presence and revision only: the value is not read.                       *)
get_observed_state(o, key) ==
  LET Seen(state) == [present |-> state.value # Missing, revision |-> state.revision]
  IN Seen(get_state(o, key))

Row(o, entry) == [key |-> entry.key, value |-> read_value(o, entry.value), revision |-> entry.revision]
Truncated(rows, limit) == SubSeq(rows, 1, IF Len(rows) < limit THEN Len(rows) ELSE limit)

(* Leaves from id along the chain; NilPage ends a cyclic or broken one.     *)
RECURSIVE LeavesFrom(_, _, _)
LeavesFrom(o, id, seen) ==
  IF id = NilPage THEN seen
  ELSE IF id \in Range(seen) \/ PageAt(o, id).type # "leaf" THEN Append(seen, NilPage)
  ELSE LeavesFrom(o, o.pages[id].next, Append(seen, id))

(* What a range read goes through: the entries of the leaves, and whether    *)
(* the chain is sound to its end.                                           *)
EntriesFrom_one_leaf(o, id) ==   \* the range read ends with its first leaf
  [entries |-> PageAt(o, id).entries, sound |-> TRUE]
EntriesFrom(o, id) ==
  LET leaves == LeavesFrom(o, id, <<>>) IN
  [entries |-> FoldLeft(LAMBDA acc, l : IF l = NilPage THEN acc ELSE acc \o o.pages[l].entries, <<>>, leaves),
   sound |-> NilPage \notin Range(leaves)]

Refusal(error) == [error |-> error, rows |-> <<>>]
Found(rows) == [error |-> "none", rows |-> rows]

(* Corruption when the limit is not reached before the chain breaks or a    *)
(* value cannot be read.                                                    *)
Collected(o, entries, limit, sound) ==
  LET rows == Truncated([i \in DOMAIN entries |-> Row(o, entries[i])], limit) IN
  IF (Len(rows) < limit /\ ~sound) \/ (\E i \in DOMAIN rows : rows[i].value = Garbled)
  THEN Refusal("Corruption") ELSE Found(rows)

(* cursor NoCursor stands for None; the cursor of a query is in its         *)
(* partition.  Rows stop at the first later partition key.                  *)
NoCursor == -1
InvalidCursor(cursor) == cursor # NoCursor /\ ~validate_encoded_key(cursor)

query(o, pk, cursor, limit) ==
  LET route == find_leaf(o, StartKey(pk))
      Wanted(e) == Pk(e.key) = pk /\ e.key > cursor /\ e.value.kind # "none"
      from == EntriesFrom(o, Last(route))
      beyond == SelectInSeq(from.entries, LAMBDA e : Pk(e.key) > pk)
      upto == IF beyond = 0 THEN from.entries ELSE SubSeq(from.entries, 1, beyond - 1)
  IN IF limit = 0 THEN Found(<<>>)
     ELSE IF ~validate_encoded_key(StartKey(pk)) THEN Refusal("InvalidInput")
     ELSE IF route = <<>> THEN Refusal("Corruption")
     ELSE IF InvalidCursor(cursor) THEN Refusal("InvalidInput")
     ELSE Collected(o, SelectSeq(upto, Wanted), limit, from.sound \/ beyond # 0)

scan(o, cursor, limit) ==
  LET route == IF cursor = NoCursor THEN leftmost_leaf(o) ELSE find_leaf(o, cursor)
      Wanted(e) == e.key > cursor /\ e.value.kind # "none"
      from == EntriesFrom(o, Last(route))
  IN IF limit = 0 THEN Found(<<>>)
     ELSE IF InvalidCursor(cursor) THEN Refusal("InvalidInput")
     ELSE IF route = <<>> THEN Refusal("Corruption")
     ELSE Collected(o, SelectSeq(from.entries, Wanted), limit, from.sound)

-----------------------------------------------------------------------------
(* The structural checker (checker.rs).  visit_tree lists the pages it      *)
(* reaches, with repetitions, the leaves and the entries in tree order.     *)

Unbounded == 1000000   \* above every key: the open upper bound of the root

check_overflow(o, ref) ==
  LET chain == Chain(o, ref) IN
  /\ ref.length > 0
  /\ NilPage \notin Range(chain)
  /\ ChainLength(o, chain) = ref.length

EntryOk(o, entry, lower, upper) ==
  /\ lower <= entry.key /\ entry.key < upper
  /\ entry.revision # 0
  /\ entry.value.kind = "inline" => ValueLen[entry.value.value] <= INLINE_VALUE_LIMIT
  /\ entry.value.kind = "overflow" => check_overflow(o, entry.value)

RECURSIVE visit_tree(_, _, _, _, _)
visit_tree(o, id, lower, upper, path) ==
  LET page == IF id \in path THEN [type |-> "absent"] ELSE PageAt(o, id)
      n == Len(page.entries)
      Visit(i) ==
        visit_tree(o, IF i = 0 THEN page.leftmost ELSE page.entries[i].child,
                   IF i = 0 THEN lower ELSE page.entries[i].key,
                   IF i = n THEN upper ELSE page.entries[i + 1].key, path \cup {id})
      Join(acc, v) == [ok |-> acc.ok /\ v.ok, pages |-> acc.pages \o v.pages,
                       leaves |-> acc.leaves \o v.leaves, entries |-> acc.entries \o v.entries]
      chains == FoldLeft(LAMBDA acc, e : IF e.value.kind = "overflow" THEN acc \o Chain(o, e.value) ELSE acc,
                         <<>>, page.entries)
  IN CASE page.type = "leaf" ->
            [ok |-> \A i \in 1..n : EntryOk(o, page.entries[i], lower, upper),
             pages |-> <<id>> \o chains, leaves |-> <<id>>, entries |-> page.entries]
       [] page.type = "internal" ->
            FoldLeft(Join, [ok |-> page.entries # <<>>, pages |-> <<id>>, leaves |-> <<>>, entries |-> <<>>],
                     [i \in 1..n + 1 |-> Visit(i - 1)])
       [] OTHER -> [ok |-> FALSE, pages |-> <<>>, leaves |-> <<>>, entries |-> <<>>]

RECURSIVE FreeListFrom(_, _, _)
FreeListFrom(o, id, seen) ==
  IF id = NilPage THEN seen
  ELSE IF id \in Range(seen) \/ PageAt(o, id).type # "free" THEN Append(seen, NilPage)
  ELSE FreeListFrom(o, o.pages[id].next, Append(seen, id))

(* The leaf chain starts at the leftmost leaf and is the leaves in order.   *)
check_leaf_chain(o, leaves) == LeavesFrom(o, Last(leftmost_leaf(o)), <<>>) = leaves

check(o) ==
  LET tree == visit_tree(o, o.root, 0, Unbounded, {})
      free == FreeListFrom(o, o.free, <<>>)
  IN /\ tree.ok
     /\ Cardinality(Range(tree.pages)) = Len(tree.pages)
     /\ Ascending(tree.entries)
     /\ check_leaf_chain(o, tree.leaves)
     /\ NilPage \notin Range(free)
     /\ Range(free) \cap Range(tree.pages) = {}
     /\ Range(free) \cup Range(tree.pages) \subseteq FIRST_DATA_PAGE..o.high

leaked_pages(o) ==
  (FIRST_DATA_PAGE..o.high)
    \ (Range(visit_tree(o, o.root, 0, Unbounded, {}).pages) \cup Range(FreeListFrom(o, o.free, <<>>)))

max_revision(o) ==
  LET entries == visit_tree(o, o.root, 0, Unbounded, {}).entries IN
  FoldLeft(LAMBDA m, e : IF e.revision > m THEN e.revision ELSE m, 0, entries)

=============================================================================
