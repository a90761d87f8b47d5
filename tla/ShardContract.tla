---------------------------- MODULE ShardContract ----------------------------
(***************************************************************************)
(* What a shard's store promises: a log of committed transactions that     *)
(* only grows, at most one group of transactions in flight, and a view     *)
(* that always equals the replay of the log.  A restart keeps a prefix of  *)
(* the group that was in flight.                                           *)
(***************************************************************************)
EXTENDS Naturals, Sequences

CONSTANT Pages
VARIABLES
  log,      \* the transactions the shard serves, in commit order
  pending,  \* the group whose outcome nobody knows yet
  up,       \* the shard is open
  view      \* what an open shard shows

contractVars == <<log, pending, up, view>>

Blank == [kind |-> "none"]
Stamp(lsn, tx) == [kind |-> "page", lsn |-> lsn, by |-> tx]
WritersOf(h, p) == {i \in DOMAIN h : p \in h[i].pages}
LastOf(S) == CHOOSE i \in S : \A j \in S : j <= i
FirstPage == CHOOSE p \in Pages : \A q \in Pages : p <= q
Replayed(h, p) ==
  IF WritersOf(h, p) # {}
  THEN Stamp(h[LastOf(WritersOf(h, p))].lsn, h[LastOf(WritersOf(h, p))].tx)
  ELSE IF p = FirstPage THEN Stamp(0, 0) ELSE Blank
ViewOf(h) ==
  [metadata |-> IF h = <<>> THEN 0 ELSE h[Len(h)].tx,
   pages |-> [p \in Pages |-> Replayed(h, p)]]
NoView == [metadata |-> 0, pages |-> [p \in Pages |-> Blank]]

Ordered(h) == \A i, j \in DOMAIN h : i < j => h[i].lsn < h[j].lsn

Init == log = <<>> /\ pending = <<>> /\ up = FALSE /\ view = NoView

Submit ==
  /\ up /\ pending = <<>>
  /\ pending' # <<>> /\ pending' \in Seq([tx : Nat, pages : SUBSET Pages, lsn : Nat])
  /\ Ordered(log \o pending')
  /\ UNCHANGED <<log, up, view>>

Acknowledge ==
  /\ up /\ pending # <<>>
  /\ log' = log \o pending /\ pending' = <<>>
  /\ view' = ViewOf(log')
  /\ UNCHANGED up

GoDown ==
  /\ up /\ up' = FALSE /\ view' = NoView
  /\ UNCHANGED <<log, pending>>

ComeUp ==
  /\ ~up /\ up' = TRUE
  /\ \E k \in 0..Len(pending) : log' = log \o SubSeq(pending, 1, k)
  /\ pending' = <<>>
  /\ view' = ViewOf(log')

Next == Submit \/ Acknowledge \/ GoDown \/ ComeUp
Spec == Init /\ [][Next]_contractVars
=============================================================================
