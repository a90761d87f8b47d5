----------------------------- MODULE PageCopies -----------------------------
(***************************************************************************)
(* The copies of a page in one shard (btree/mod.rs, btree/cache.rs and the  *)
(* read view of btree/coordinator.rs): the data file, the dirty pages that  *)
(* wait for a flush, the LRU page cache, the overlay in which a group of    *)
(* transactions is prepared, the updates kept for the committed read view,  *)
(* and the view itself, which readers on other threads use at any time.     *)
(*                                                                         *)
(* A page's content is abstracted to the number of the transaction that     *)
(* wrote it.  What transactions do to the tree is the subject of PageTree:  *)
(* here they read pages, change pages they have read or allocated, and may  *)
(* attach to the tree only pages they changed.                              *)
(***************************************************************************)
EXTENDS Naturals, Sequences, FiniteSets, Functions, SequencesExt

CONSTANTS
  PageCount,        \* pages of the file
  cache_capacity,
  ClockSize,        \* the clock counts modulo this (2^64 in the code)
  MaxChanges,       \* bound: transactions prepared
  MaxGroup          \* bound: transactions in one group

ASSUME CopiesAssumption ==
  /\ PageCount \in Nat \ {0} /\ cache_capacity \in Nat /\ ClockSize \in Nat \ {0, 1}
  /\ MaxChanges \in Nat /\ MaxGroup \in Nat \ {0}

VARIABLES
  file,         \* page to content
  dirty_pages,  \* committed pages not yet flushed
  cache,        \* page to content and last use; the clock
  overlay,      \* the group being prepared, or none
  prepared,     \* its accepted transactions
  updates,      \* published_page_updates
  view,         \* the pages of the committed read view
  reachable,    \* pages of the committed tree
  broken,       \* the store serves no more
  number,       \* transactions so far
  committed     \* page to committed content: what every copy stands for

vars == <<file, dirty_pages, cache, overlay, prepared, updates, view, reachable, broken, number, committed>>
storeVars == <<file, dirty_pages, updates, view, reachable, broken, committed>>

Pages == 1..PageCount
PageOrder == [p \in Pages |-> p]
NoPages == [p \in {} |-> 0]

(* One map laid over another.                                               *)
Over(new, old) == [p \in DOMAIN new \cup DOMAIN old |-> IF p \in DOMAIN new THEN new[p] ELSE old[p]]

-----------------------------------------------------------------------------
(* PageCache.                                                               *)

next_clock(c) == (c.clock + 1) % ClockSize

get(c, p) ==
  [entries |-> [c.entries EXCEPT ![p].last_used = next_clock(c)], clock |-> next_clock(c)]
Missed(c) == [c EXCEPT !.clock = next_clock(c)]

(* The least recently used page, the first of them when the clock wrapped.  *)
Victim(entries) ==
  CHOOSE v \in DOMAIN entries : \A p \in DOMAIN entries \ {v} :
    \/ entries[v].last_used < entries[p].last_used
    \/ entries[v].last_used = entries[p].last_used /\ v < p

insert(c, p, page) ==
  LET entries == Over([q \in {p} |-> [page |-> page, last_used |-> next_clock(c)]], c.entries)
  IN IF cache_capacity = 0 THEN c
     ELSE [entries |-> IF Cardinality(DOMAIN entries) <= cache_capacity THEN entries
                       ELSE Restrict(entries, DOMAIN entries \ {Victim(entries)}),
           clock |-> next_clock(c)]
(* BTreeMap iteration: the map's pages in order.                            *)
insert_many(c, map) ==
  FoldLeft(LAMBDA done, p : IF p \in DOMAIN map THEN insert(done, p, map[p]) ELSE done, c, PageOrder)

-----------------------------------------------------------------------------
(* Preparing a group.                                                       *)

NoOverlay == [pages |-> NoPages, dirty |-> {}, read_pages |-> NoPages, tree |-> {}]
Preparing == overlay # NoOverlay

(* Overlay::new.                                                            *)
Begin ==
  /\ ~ Preparing
  /\ overlay' = [NoOverlay EXCEPT !.tree = reachable]
  /\ prepared' = <<>>
  /\ UNCHANGED <<storeVars, cache, number>>

read_page_from_file(p) == IF p \in DOMAIN dirty_pages THEN dirty_pages[p] ELSE file[p]

(* Overlay::page: the overlay's own copy, the cached one, or the store's.   *)
page(p) ==
  /\ Preparing /\ p \notin DOMAIN overlay.pages
  /\ IF p \in DOMAIN cache.entries
     THEN /\ cache' = get(cache, p)
          /\ overlay' = [overlay EXCEPT !.pages = Over([q \in {p} |-> cache.entries[p].page], @)]
     ELSE /\ cache' = Missed(cache)
          /\ overlay' = [overlay EXCEPT !.pages = Over([q \in {p} |-> read_page_from_file(p)], @),
                                        !.read_pages = Over([q \in {p} |-> read_page_from_file(p)], @)]
  /\ UNCHANGED <<storeVars, prepared, number>>

(* A put or a delete: pages it has read or newly allocated are replaced,    *)
(* some are attached to the tree or taken from it.                          *)
replace_page(p, attached) ==
  /\ Preparing /\ number < MaxChanges /\ Len(prepared) < MaxGroup
  /\ p \in DOMAIN overlay.pages \/ p \notin overlay.tree
  /\ attached \/ overlay.tree # {p}   \* there is always a root
  /\ overlay' = [overlay EXCEPT !.pages = Over([q \in {p} |-> number + 1], @), !.dirty = @ \cup {p},
                                !.tree = IF attached THEN @ \cup {p} ELSE @ \ {p}]
  /\ UNCHANGED <<storeVars, cache, prepared, number>>

(* finish_transaction: the changed pages and what was read until now.       *)
finish_transaction ==
  /\ Preparing /\ overlay.dirty # {} /\ Len(prepared) < MaxGroup
  /\ prepared' = Append(prepared, [changed |-> Restrict(overlay.pages, overlay.dirty),
                                   read_pages |-> overlay.read_pages, tree |-> overlay.tree])
  /\ overlay' = [overlay EXCEPT !.dirty = {}, !.read_pages = NoPages]
  /\ number' = number + 1
  /\ UNCHANGED <<storeVars, cache>>

(* Reads, a group nothing of which was accepted, or one that an error ends: *)
(* the overlay is dropped.                                                  *)
Discard ==
  /\ Preparing
  /\ overlay' = NoOverlay /\ prepared' = <<>>
  /\ UNCHANGED <<storeVars, cache, number>>

-----------------------------------------------------------------------------
(* Publishing, flushing and reading.                                        *)

PublishCached_swapped(c, candidate) == insert_many(insert_many(c, candidate.changed), candidate.read_pages)
PublishCached(c, candidate) == insert_many(insert_many(c, candidate.read_pages), candidate.changed)

PublishUpdates_last(old, candidates) == candidates[Len(candidates)].changed
PublishUpdates(old, candidates) == FoldLeft(LAMBDA map, candidate : Over(candidate.changed, map), old, candidates)

(* publish_prepared_group: the WAL has the group, then every copy follows,  *)
(* transaction by transaction.                                              *)
publish_prepared_group ==
  /\ ~ broken /\ Preparing /\ prepared # <<>>
  /\ dirty_pages' = FoldLeft(LAMBDA map, candidate : Over(candidate.changed, map), dirty_pages, prepared)
  /\ committed' = FoldLeft(LAMBDA map, candidate : Over(candidate.changed, map), committed, prepared)
  /\ cache' = FoldLeft(PublishCached, cache, prepared)
  /\ updates' = PublishUpdates(updates, prepared)
  /\ reachable' = prepared[Len(prepared)].tree
  /\ overlay' = NoOverlay /\ prepared' = <<>>
  /\ UNCHANGED <<file, view, broken, number>>

(* A broken store refuses the group, or the WAL append fails: nothing is    *)
(* published, and the store is broken.                                      *)
PublishFails ==
  /\ Preparing /\ prepared # <<>>
  /\ broken' = TRUE /\ overlay' = NoOverlay /\ prepared' = <<>>
  /\ UNCHANGED <<file, dirty_pages, cache, updates, view, reachable, number, committed>>

(* flush_dirty_pages, also of a broken store: the pages are written in      *)
(* order; a failure part-way breaks the store, and the dirty pages stay.    *)
flush_dirty_pages(written) ==
  /\ ~ Preparing /\ dirty_pages # NoPages
  /\ file' = Over(Restrict(dirty_pages, written), file)
  /\ \/ written = DOMAIN dirty_pages /\ dirty_pages' = NoPages /\ UNCHANGED broken
     \/ broken' = TRUE /\ UNCHANGED dirty_pages
  /\ UNCHANGED <<cache, overlay, prepared, updates, view, reachable, number, committed>>
(* The pages written when the flush ends or fails.                          *)
WrittenPrefixes == {{p \in DOMAIN dirty_pages : p <= last} : last \in 0..PageCount}

(* publish_read_updates: the view takes the updates over.                   *)
publish_read_updates ==
  /\ ~ Preparing /\ updates # NoPages
  /\ view' = [pages |-> Over(updates, view.pages), tree |-> reachable]
  /\ updates' = NoPages
  /\ UNCHANGED <<file, dirty_pages, cache, overlay, prepared, reachable, broken, number, committed>>

-----------------------------------------------------------------------------

(* A new store, whose tree is its first page, and the view built from it.   *)
Init ==
  /\ file = [p \in Pages |-> 0] /\ dirty_pages = NoPages
  /\ cache = [entries |-> NoPages, clock |-> 0]
  /\ overlay = NoOverlay /\ prepared = <<>>
  /\ reachable = {1} /\ committed = file
  /\ updates = NoPages /\ view = [pages |-> [p \in {1} |-> 0], tree |-> {1}]
  /\ broken = FALSE /\ number = 0

Next ==
  \/ Begin \/ finish_transaction \/ Discard \/ publish_prepared_group \/ PublishFails \/ publish_read_updates
  \/ \E p \in Pages : page(p) \/ \E attached \in BOOLEAN : replace_page(p, attached)
  \/ \E written \in WrittenPrefixes : flush_dirty_pages(written)

Spec == Init /\ [][Next]_vars

-----------------------------------------------------------------------------
(* Properties.                                                              *)

(* No copy of a page is an old one.  The cache holds at most its capacity,  *)
(* and only committed pages, whatever was read, changed, evicted and        *)
(* published in between; every committed page is in the dirty pages or in   *)
(* the file, also when a flush failed part-way; and a group is prepared on  *)
(* the committed pages and its own changes, wherever they come from         *)
(* (PageCache, publish_prepared_group, flush_dirty_pages).                  *)
CopiesCurrent ==
  /\ Cardinality(DOMAIN cache.entries) <= cache_capacity
  /\ \A p \in DOMAIN cache.entries : cache.entries[p].page = committed[p]
  /\ \A p \in Pages : read_page_from_file(p) = committed[p]
  /\ Preparing => \A p \in DOMAIN overlay.pages :
       \/ overlay.pages[p] = committed[p] \/ p \in overlay.dirty
       \/ \E i \in DOMAIN prepared : p \in DOMAIN prepared[i].changed /\ prepared[i].changed[p] = overlay.pages[p]

(* Readers of the view find every page of its tree, and with the pending    *)
(* updates it is the committed tree (published_page_updates, apply_updates).*)
ViewComplete ==
  /\ view.tree \subseteq DOMAIN view.pages
  /\ \A p \in reachable : p \in DOMAIN Over(updates, view.pages) /\ Over(updates, view.pages)[p] = committed[p]

=============================================================================
