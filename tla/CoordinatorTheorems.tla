------------------------ MODULE CoordinatorTheorems -------------------------
(***************************************************************************)
(* The order, the answers and the read view of the commit coordinator, for *)
(* any operations, limits, numbers of requests, shutdowns and failures.    *)
(* What a group publishes is computed by a loop over its operations        *)
(* (Kept): the facts about it are proved by induction on the position, in  *)
(* the form of a smallest counterexample (Least).                          *)
(***************************************************************************)
EXTENDS Coordinator, WellFoundedInduction, TLAPS

(* The naturals are well founded (library), so a set of them has a least    *)
(* element.                                                                 *)
LEMMA Least ==
  ASSUME NEW T \in SUBSET Nat, T # {}
  PROVE  \E n \in T : \A m \in T : n <= m
<1> DEFINE R == OpToRel(<, Nat)
<1>1. IsWellFoundedOn(R, Nat)
  BY NatLessThanWellFounded
<1>2. \A x, y \in Nat : <<x, y>> \in R <=> x < y
  BY DEF OpToRel
<1> HIDE DEF R
<1>3. PICK n \in T : \A m \in T : ~ (<<m, n>> \in R)
  BY <1>1, WFMin
<1>4. \A m \in T : m \in Nat /\ n \in Nat
  OBVIOUS
<1>5. \A m \in T : ~ (m < n)
  BY <1>2, <1>3, <1>4, Zenon
<1> QED
  BY <1>4, <1>5

Rising(ids) == \A i, j \in DOMAIN ids : i < j => ids[i] < ids[j]
AllBelow(ids, later) == \A i \in DOMAIN ids, j \in DOMAIN later : ids[i] < later[j]

-----------------------------------------------------------------------------
(* The loop over the operations of a group.                                 *)

(* The loop of apply_transaction_group up to position n: what it has kept.  *)
Loop(kept, ids, chosen, last) ==
  kept = [n \in 0..last |-> IF n = 0 THEN <<>>
                            ELSE IF ids[n] \in chosen THEN Append(kept[n - 1], ids[n]) ELSE kept[n - 1]]

(* The loop is defined up to every position.                                *)
LEMMA LoopDefined ==
  ASSUME NEW ids, NEW chosen, NEW last \in Nat
  PROVE  \E kept : Loop(kept, ids, chosen, last)
<1> DEFINE T == {n \in Nat : ~ \E kept : Loop(kept, ids, chosen, n)}
<1> SUFFICES ASSUME T # {} PROVE FALSE
  OBVIOUS
<1>1. PICK n \in T : \A m \in T : n <= m
  BY Least
<1>2. n # 0
  <2>1. Loop([i \in 0..0 |-> <<>>], ids, chosen, 0)
    BY DEF Loop
  <2> QED
    BY <2>1
<1>3. PICK g : Loop(g, ids, chosen, n - 1)
  BY <1>1, <1>2
<1> DEFINE h == [i \in 0..n |-> IF i = n THEN (IF ids[n] \in chosen THEN Append(g[n - 1], ids[n]) ELSE g[n - 1])
                                ELSE g[i]]
<1>4. \A i \in 0..n : h[i] = IF i = 0 THEN <<>>
                             ELSE IF ids[i] \in chosen THEN Append(h[i - 1], ids[i]) ELSE h[i - 1]
  <2>1. n \in Nat /\ n - 1 \in Nat /\ n \in 0..n
    BY <1>2
  <2>2. \A i \in 0..(n - 1) : g[i] = IF i = 0 THEN <<>>
                                     ELSE IF ids[i] \in chosen THEN Append(g[i - 1], ids[i]) ELSE g[i - 1]
    BY <1>3 DEF Loop
  <2>3. h[n] = IF ids[n] \in chosen THEN Append(g[n - 1], ids[n]) ELSE g[n - 1]
    BY <2>1
  <2>4. \A i \in 0..(n - 1) : i \in 0..n /\ i # n /\ h[i] = g[i]
    BY <2>1
  <2>5. \A i \in 0..(n - 1) : i # 0 => i - 1 \in 0..(n - 1)
    BY <2>1
  <2>6. n - 1 \in 0..(n - 1) /\ \A i \in 0..n : i = n \/ i \in 0..(n - 1)
    BY <2>1
  <2> HIDE DEF h
  <2>7. ASSUME NEW i \in 0..(n - 1)
        PROVE  h[i] = IF i = 0 THEN <<>> ELSE IF ids[i] \in chosen THEN Append(h[i - 1], ids[i]) ELSE h[i - 1]
    <3>1. i = 0 \/ h[i - 1] = g[i - 1]
      BY <2>4, <2>5
    <3> QED
      BY <2>2, <2>4, <3>1, Zenon
  <2> QED
    BY <1>2, <2>3, <2>4, <2>6, <2>7
<1>5. Loop(h, ids, chosen, n)
  BY <1>4 DEF Loop
<1> QED
  BY <1>5

(* What the loop has kept at position n: the chosen ids up to it, in order. *)
KeptSoFar(kept, ids, chosen, n) ==
  /\ kept \in Seq(Nat) /\ Rising(kept)
  /\ \A k \in DOMAIN kept : \E i \in 1..n : ids[i] \in chosen /\ kept[k] = ids[i]
  /\ \A i \in 1..n : ids[i] \in chosen => \E k \in DOMAIN kept : kept[k] = ids[i]

(* One round of the loop.                                                   *)
LEMMA KeptRound ==
  ASSUME NEW ids \in Seq(Nat), Rising(ids), NEW chosen, NEW n \in 1..Len(ids),
         NEW kept, KeptSoFar(kept, ids, chosen, n - 1)
  PROVE  KeptSoFar(IF ids[n] \in chosen THEN Append(kept, ids[n]) ELSE kept, ids, chosen, n)
<1>1. n \in Nat /\ n - 1 \in Nat /\ DOMAIN ids = 1..Len(ids) /\ ids[n] \in Nat
  OBVIOUS
<1>2. \A i \in 1..n : i = n \/ i \in 1..(n - 1)
  BY <1>1
<1>3. \A i \in 1..(n - 1) : i \in 1..n /\ i \in DOMAIN ids /\ i < n
  BY <1>1
<1>4. CASE ids[n] \notin chosen
  BY <1>2, <1>3, <1>4 DEF KeptSoFar
<1>5. CASE ids[n] \in chosen
  <2> DEFINE t == Append(kept, ids[n])
  <2>1. /\ kept \in Seq(Nat) /\ Rising(kept) /\ DOMAIN kept = 1..Len(kept) /\ Len(kept) \in Nat
        /\ \A k \in DOMAIN kept : \E i \in 1..(n - 1) : ids[i] \in chosen /\ kept[k] = ids[i]
        /\ \A i \in 1..(n - 1) : ids[i] \in chosen => \E k \in DOMAIN kept : kept[k] = ids[i]
    BY DEF KeptSoFar
  <2>2. t \in Seq(Nat) /\ DOMAIN t = 1..(Len(kept) + 1) /\ t[Len(kept) + 1] = ids[n]
        /\ \A k \in DOMAIN kept : k \in DOMAIN t /\ t[k] = kept[k]
    BY <1>1, <2>1
  <2>3. Len(kept) + 1 \in DOMAIN t /\ \A k \in DOMAIN t : k = Len(kept) + 1 \/ k \in DOMAIN kept
    BY <2>1, <2>2
  <2>4. \A k \in DOMAIN kept : kept[k] < ids[n] /\ k < Len(kept) + 1
    <3> TAKE k \in DOMAIN kept
    <3>1. PICK i \in 1..(n - 1) : kept[k] = ids[i]
      BY <2>1
    <3>2. ids[i] < ids[n]
      BY <1>1, <1>3 DEF Rising
    <3>3. k < Len(kept) + 1
      BY <2>1
    <3> QED
      BY <3>1, <3>2, <3>3
  <2> HIDE DEF t
  <2>5. \A k \in DOMAIN t : \E i \in 1..n : ids[i] \in chosen /\ t[k] = ids[i]
    <3> TAKE k \in DOMAIN t
    <3>1. CASE k = Len(kept) + 1
      BY <1>1, <1>5, <2>2, <3>1
    <3>2. CASE k \in DOMAIN kept
      <4>1. PICK i \in 1..(n - 1) : ids[i] \in chosen /\ kept[k] = ids[i]
        BY <2>1, <3>2
      <4> QED
        BY <1>3, <2>2, <3>2, <4>1
    <3> QED
      BY <2>3, <3>1, <3>2
  <2>6. \A i \in 1..n : ids[i] \in chosen => \E k \in DOMAIN t : t[k] = ids[i]
    BY <1>2, <2>1, <2>2, <2>3
  <2>7. Rising(t)
    <3> SUFFICES ASSUME NEW j \in DOMAIN t, NEW k \in DOMAIN t, j < k PROVE t[j] < t[k]
      BY DEF Rising
    <3>1. j \in DOMAIN kept
      BY <2>1, <2>2, <2>3
    <3>2. CASE k \in DOMAIN kept
      BY <2>1, <2>2, <3>1, <3>2 DEF Rising
    <3>3. CASE k = Len(kept) + 1
      BY <2>2, <2>4, <3>1, <3>3
    <3> QED
      BY <2>3, <3>2, <3>3
  <2> QED
    BY <1>5, <2>2, <2>5, <2>6, <2>7 DEF KeptSoFar, t
<1> QED
  BY <1>4, <1>5

(* What is kept keeps its order, and is what was chosen of the ids.         *)
LEMMA KeptFacts ==
  ASSUME NEW ids \in Seq(Nat), Rising(ids), NEW chosen
  PROVE  KeptSoFar(Kept(ids, chosen), ids, chosen, Len(ids))
<1> DEFINE kept == CHOOSE g : Loop(g, ids, chosen, Len(ids))
<1>0. Len(ids) \in Nat
  OBVIOUS
<1>1. Loop(kept, ids, chosen, Len(ids))
  BY <1>0, LoopDefined
<1>2. Kept(ids, chosen) = kept[Len(ids)]
  BY DEF Kept, Loop
<1> HIDE DEF kept
<1>3. /\ kept[0] = <<>>
      /\ \A n \in 1..Len(ids) : kept[n] = IF ids[n] \in chosen THEN Append(kept[n - 1], ids[n]) ELSE kept[n - 1]
  <2>1. \A n \in 0..Len(ids) : kept[n] = IF n = 0 THEN <<>>
                                         ELSE IF ids[n] \in chosen THEN Append(kept[n - 1], ids[n]) ELSE kept[n - 1]
    BY <1>1 DEF Loop
  <2>2. \A n \in 1..Len(ids) : n \in 0..Len(ids) /\ n # 0
    BY <1>0
  <2>3. 0 \in 0..Len(ids)
    BY <1>0
  <2> QED
    BY <2>1, <2>2, <2>3, Zenon
<1>4. KeptSoFar(kept[0], ids, chosen, 0)
  <2>1. kept[0] = <<>>
    BY <1>3
  <2>2. KeptSoFar(<<>>, ids, chosen, 0)
    BY DEF KeptSoFar, Rising
  <2> QED
    BY <2>1, <2>2
<1>5. \A n \in 1..Len(ids) : KeptSoFar(kept[n - 1], ids, chosen, n - 1) => KeptSoFar(kept[n], ids, chosen, n)
  <2> SUFFICES ASSUME NEW n \in 1..Len(ids), KeptSoFar(kept[n - 1], ids, chosen, n - 1)
               PROVE  KeptSoFar(kept[n], ids, chosen, n)
    OBVIOUS
  <2>1. kept[n] = IF ids[n] \in chosen THEN Append(kept[n - 1], ids[n]) ELSE kept[n - 1]
    BY <1>3
  <2>2. KeptSoFar(IF ids[n] \in chosen THEN Append(kept[n - 1], ids[n]) ELSE kept[n - 1], ids, chosen, n)
    BY KeptRound
  <2> QED
    BY <2>1, <2>2
<1> DEFINE T == {n \in Nat : n <= Len(ids) /\ ~ KeptSoFar(kept[n], ids, chosen, n)}
<1>6. CASE T # {}
  <2>1. PICK n \in T : \A m \in T : n <= m
    BY <1>6, Least
  <2>2. n # 0
    BY <1>4
  <2>3. n \in 1..Len(ids) /\ n - 1 \notin T /\ n - 1 \in Nat
    BY <1>0, <2>1, <2>2
  <2> QED
    BY <1>5, <2>3
<1>7. CASE T = {}
  BY <1>0, <1>2, <1>7
<1> QED
  BY <1>6, <1>7

-----------------------------------------------------------------------------
(* The inductive invariant.                                                 *)

Answers == {"waiting", "cancelled", "ok", "refused", "DurabilityFailure", "Corruption",
            "CheckpointFailure", "Overloaded", "closed", "dropped"}
Ids == 1..Len(sent)

TypeInv ==
  /\ sent \in Seq([op : Operations, answer : Answers])
  /\ queue \in Seq(Ids) /\ group \in Seq(Ids) /\ pending \in Ids \cup {NoId}
  /\ task \in {"receive", "collect", "delay", "run", "publish", "answer", "stopped"} /\ start \in Nat
  /\ outcome \in [error : {"none", "DurabilityFailure", "Corruption"}, results : Seq(Answers)]
  /\ store \in [applied : Seq(Ids), broken : BOOLEAN] /\ tracked \in Seq(Ids)
  /\ view \in [present : BOOLEAN, broken : BOOLEAN, shown : Seq(Ids)]

(* Where the task is in its loop.                                           *)
StageInv ==
  /\ task \in {"receive", "stopped"} => group = <<>> /\ start = 1
  /\ task \in {"collect", "delay"} => group # <<>> /\ start = 1 /\ pending = NoId
  /\ task \in {"run", "publish", "answer"} => start \in DOMAIN group
  /\ task # "publish" => tracked = <<>>

FirstUnrun == IF task \in {"publish", "answer"} THEN SegmentEnd + 1 ELSE start

(* What is published, the rest of the group, what is held back and what is  *)
(* queued follow each other in the order of sending.                        *)
OrderInv ==
  /\ Rising(queue) /\ Rising(group) /\ Rising(store.applied)
  /\ AllBelow(group, queue) /\ AllBelow(store.applied, queue)
  /\ pending # NoId => /\ AllBelow(group, <<pending>>) /\ AllBelow(store.applied, <<pending>>)
                       /\ AllBelow(<<pending>>, queue)
  /\ \A a \in DOMAIN store.applied, i \in DOMAIN group : i >= FirstUnrun => store.applied[a] < group[i]

(* What has not been answered by the task, and what was published.          *)
Unanswered(id) == sent[id].answer \in {"waiting", "cancelled"}
AnswerInv ==
  /\ \A i \in DOMAIN queue : Unanswered(queue[i])
  /\ pending # NoId => Unanswered(pending)
  /\ \A i \in DOMAIN group : i >= start => Unanswered(group[i])
  /\ \A a \in DOMAIN store.applied : sent[store.applied[a]].answer \in {"waiting", "cancelled", "ok"}

(* The results of a segment say what was published of it.                   *)
Published(id) == \E a \in DOMAIN store.applied : store.applied[a] = id
OutcomeInv ==
  task \in {"publish", "answer"} =>
    /\ outcome.error = "none" => DOMAIN outcome.results = DOMAIN Segment
    /\ \A i \in DOMAIN Segment : Published(Segment[i]) <=>
         outcome.error = "none" /\ Mutates(Op(Segment[i])) /\ outcome.results[i] = "ok"

ViewInv ==
  /\ view.present => store.applied = view.shown \o tracked
  /\ \A id \in Ids : sent[id].answer = "ok" /\ Mutates(Op(id)) /\ view.present =>
       \E k \in DOMAIN view.shown : view.shown[k] = id

IInv == TypeInv /\ StageInv /\ OrderInv /\ AnswerInv /\ OutcomeInv /\ ViewInv

-----------------------------------------------------------------------------
(* Sequences of ids and segments.                                           *)

(* To be below one id.                                                      *)
LEMMA BelowOne == \A s, x : AllBelow(s, <<x>>) => \A i \in DOMAIN s : s[i] < x
BY DEF AllBelow

(* A sequence over a set is one over a larger set.                          *)
LEMMA Wider == ASSUME NEW S, NEW T, S \subseteq T, NEW s \in Seq(S) PROVE s \in Seq(T)
OBVIOUS

(* The current segment lies in the group and starts at operation_start.     *)
LEMMA SegmentFacts ==
  ASSUME TypeInv, start \in DOMAIN group
  PROVE  /\ SegmentEnd \in start..Len(group)
         /\ ~ is_mutation(Op(group[start])) => SegmentEnd = start
         /\ Segment \in Seq(Ids) /\ DOMAIN Segment = 1..(SegmentEnd - start + 1)
         /\ \A i \in DOMAIN Segment : start + i - 1 \in DOMAIN group /\ Segment[i] = group[start + i - 1]
<1> DEFINE others == {i \in start..Len(group) : ~ is_mutation(Op(group[i]))}
<1>1. start \in 1..Len(group) /\ Len(group) \in Nat /\ group \in Seq(Ids)
  BY DEF TypeInv
<1>2. ~ is_mutation(Op(group[start])) => SegmentEnd = start
  BY DEF SegmentEnd
<1>3. is_mutation(Op(group[start])) /\ others = {} => SegmentEnd = Len(group)
  BY DEF SegmentEnd
<1>4. is_mutation(Op(group[start])) /\ others # {} => SegmentEnd \in start..Len(group)
  <2> HAVE is_mutation(Op(group[start])) /\ others # {}
  <2>1. others \in SUBSET Nat
    BY <1>1
  <2>2. \E i \in others : \A j \in others : i <= j
    BY <2>1, Least
  <2>3. SegmentEnd = Min(others) - 1
    BY DEF SegmentEnd
  <2>4. Min(others) \in others
    BY <2>2 DEF Min
  <2>5. Min(others) \in start..Len(group) /\ ~ is_mutation(Op(group[Min(others)]))
    BY <2>4
  <2>6. Min(others) # start
    BY <2>5
  <2> QED
    BY <1>1, <2>3, <2>5, <2>6
<1>a. SegmentEnd \in start..Len(group)
  BY <1>1, <1>2, <1>3, <1>4
<1> HIDE DEF others
<1>5. Segment \in Seq(Ids) /\ DOMAIN Segment = 1..(SegmentEnd - start + 1)
  BY <1>1, <1>a DEF Segment
<1>6. \A i \in 1..(SegmentEnd - start + 1) : start + i - 1 \in DOMAIN group /\ Segment[i] = group[start + i - 1]
  BY <1>1, <1>a DEF Segment
<1> QED
  BY <1>2, <1>a, <1>5, <1>6

(* The operation after a segment that does not end the group.               *)
LEMMA NextSegment ==
  ASSUME TypeInv, start \in DOMAIN group, SegmentEnd # Len(group)
  PROVE  /\ SegmentEnd + 1 \in DOMAIN group /\ SegmentEnd + 1 \in Nat
         /\ SegmentEnd + 1 > SegmentEnd /\ SegmentEnd + 1 >= start
<1>1. start \in Nat /\ Len(group) \in Nat /\ DOMAIN group = 1..Len(group)
  BY DEF TypeInv
<1>2. SegmentEnd \in start..Len(group)
  BY SegmentFacts
<1>3. \A a, n \in Nat : \A e \in a..n : a \in 1..n /\ e # n => e + 1 \in 1..n /\ e + 1 \in Nat /\ e + 1 > e /\ e + 1 >= a
  OBVIOUS
<1> QED
  BY <1>1, <1>2, <1>3

(* It stays the same while the group, its start and the operations do.      *)
LEMMA SegmentKept ==
  ASSUME TypeInv, start \in DOMAIN group, UNCHANGED <<group, start>>,
         \A id \in Ids : sent'[id].op = sent[id].op
  PROVE  SegmentEnd' = SegmentEnd /\ Segment' = Segment
<1>1. \A i \in 1..Len(group) : Op(group[i])' = Op(group[i])
  BY DEF TypeInv, Op
<1>2. {i \in start..Len(group) : ~ is_mutation(Op(group[i]))}' = {i \in start..Len(group) : ~ is_mutation(Op(group[i]))}
  BY <1>1 DEF TypeInv
<1>3. Op(group[start])' = Op(group[start])
  <2>1. group[start] \in Ids
    BY DEF TypeInv
  <2> QED
    BY <2>1 DEF Op
<1>4. SegmentEnd' = SegmentEnd
  BY <1>2, <1>3 DEF SegmentEnd
<1> QED
  BY <1>4 DEF Segment

(* Only answers change: what was sent keeps its place and its operation.    *)
LEMMA AnsweredFacts ==
  ASSUME TypeInv, NEW results, \A id \in DOMAIN results : results[id] \in Answers, sent' = AnsweredAll(results)
  PROVE  /\ sent' \in Seq([op : Operations, answer : Answers]) /\ Len(sent') = Len(sent) /\ Ids' = Ids
         /\ \A id \in Ids : sent'[id].op = sent[id].op
         /\ \A id \in Ids : sent'[id].answer = IF id \in DOMAIN results /\ sent[id].answer = "waiting"
                                               THEN results[id] ELSE sent[id].answer
<1> DEFINE R == [op : Operations, answer : Answers]
<1>0. sent \in Seq(R)
  BY DEF TypeInv
<1>1. DOMAIN sent = Ids /\ Len(sent) \in Nat /\ \A id \in Ids : sent[id] \in [op : Operations, answer : Answers]
  <2> HIDE DEF R
  <2>1. DOMAIN sent = Ids /\ Len(sent) \in Nat /\ \A id \in Ids : sent[id] \in R
    BY <1>0 DEF Ids
  <2> QED
    BY <2>1 DEF R
<1>2. sent' = [id \in Ids |-> IF id \in DOMAIN results /\ sent[id].answer = "waiting"
                              THEN [sent[id] EXCEPT !.answer = results[id]] ELSE sent[id]]
  BY <1>1 DEF AnsweredAll, Waiting
<1>3. sent' \in Seq([op : Operations, answer : Answers]) /\ Len(sent') = Len(sent)
  BY <1>1, <1>2 DEF Ids
<1> QED
  BY <1>1, <1>2, <1>3 DEF Ids

-----------------------------------------------------------------------------
(* Callers.                                                                 *)

(* A caller that adds an operation, at most at the end of the queue, or     *)
(* gives one up, keeps the invariant.                                       *)
LEMMA CallerKeeps ==
  ASSUME IInv, UNCHANGED <<task, group, pending, start, outcome, store, tracked, view>>,
         sent' \in Seq([op : Operations, answer : Answers]), Len(sent') >= Len(sent),
         \A id \in Ids : sent'[id].op = sent[id].op,
         \A id \in Ids : \/ sent'[id].answer = sent[id].answer
                         \/ sent[id].answer = "waiting" /\ sent'[id].answer = "cancelled",
         \A id \in Ids' : id \notin Ids /\ sent'[id].answer = "ok" => ~ Mutates(sent'[id].op),
         queue' \in Seq(Ids'), Rising(queue'),
         \A j \in DOMAIN queue' : /\ Unanswered(queue[j])'
                                  /\ queue'[j] \in Ids => \E k \in DOMAIN queue : queue[k] = queue'[j]
  PROVE  IInv'
<1>t. TypeInv /\ StageInv /\ OrderInv /\ AnswerInv /\ OutcomeInv /\ ViewInv
  BY DEF IInv
<1>1. Len(sent) \in Nat /\ Len(sent') \in Nat
  BY <1>t DEF TypeInv
<1>2. Ids \subseteq Ids' /\ (\A id \in Ids' : id \in Nat /\ (id \notin Ids => id > Len(sent))) /\ \A id \in Ids : id \in Nat /\ id <= Len(sent)
  BY <1>1 DEF Ids
<1>3. TypeInv'
  BY <1>t, <1>2, Wider DEF TypeInv, NoId
<1>4. StageInv'
  BY <1>t DEF StageInv
<1>5. task \in {"publish", "answer"} => SegmentEnd' = SegmentEnd /\ Segment' = Segment
  BY <1>t, SegmentKept DEF StageInv
<1>6. FirstUnrun' = FirstUnrun
  BY <1>5 DEF FirstUnrun
<1>7. OrderInv'
  <2>1. \A x \in Ids, j \in DOMAIN queue' : (\A k \in DOMAIN queue : x < queue[k]) => x < queue'[j]
    BY <1>2
  <2>2. (\A i \in DOMAIN group : group[i] \in Ids) /\ (\A a \in DOMAIN store.applied : store.applied[a] \in Ids)
        /\ (pending # NoId => pending \in Ids)
    BY <1>t DEF TypeInv
  <2>3. AllBelow(group, queue)' /\ AllBelow(store.applied, queue)'
    BY <1>t, <2>1, <2>2 DEF OrderInv, AllBelow
  <2>4. pending # NoId => AllBelow(<<pending>>, queue)'
    BY <1>t, <2>1, <2>2 DEF OrderInv, AllBelow
  <2> QED
    BY <1>t, <1>6, <2>3, <2>4 DEF OrderInv, AllBelow, Rising
<1>8. AnswerInv'
  <2>1. \A id \in Ids : Unanswered(id) => Unanswered(id)'
    BY DEF Unanswered
  <2>2. (\A i \in DOMAIN group : group[i] \in Ids) /\ (\A a \in DOMAIN store.applied : store.applied[a] \in Ids)
        /\ (pending # NoId => pending \in Ids)
    BY <1>t DEF TypeInv
  <2>3. \A a \in DOMAIN store.applied : sent'[store.applied[a]].answer \in {"waiting", "cancelled", "ok"}
    BY <1>t, <2>2 DEF AnswerInv
  <2>4. \A i \in DOMAIN group : i >= start => Unanswered(group[i])'
    BY <1>t, <2>2 DEF AnswerInv, Unanswered
  <2>5. pending # NoId => Unanswered(pending)'
    BY <1>t, <2>2 DEF AnswerInv, Unanswered
  <2> QED
    BY <2>3, <2>4, <2>5 DEF AnswerInv
<1>9. OutcomeInv'
  <2>1. CASE task \in {"publish", "answer"}
    <3>1. \A i \in DOMAIN Segment : Segment[i] \in Ids
      BY <1>t, <2>1, SegmentFacts DEF StageInv
    <3>2. \A i \in DOMAIN Segment : Op(Segment[i])' = Op(Segment[i])
      BY <1>5, <2>1, <3>1 DEF Op
    <3> QED
      BY <1>t, <1>5, <2>1, <3>2 DEF OutcomeInv, Published
  <2>2. CASE task \notin {"publish", "answer"}
    BY <2>2 DEF OutcomeInv
  <2> QED
    BY <2>1, <2>2
<1>10. ViewInv'
  BY <1>t DEF ViewInv, Op
<1> QED
  BY <1>3, <1>4, <1>7, <1>8, <1>9, <1>10 DEF IInv

(* An operation answered from the view, refused, or put at the end of the   *)
(* queue.                                                                   *)
LEMMA ExecuteStep == ASSUME IInv, NEW op \in Operations, execute(op) PROVE IInv'
<1>t. TypeInv /\ OrderInv /\ AnswerInv
  BY DEF IInv
<1> DEFINE n == Len(sent) + 1
           R == [op : Operations, answer : Answers]
<1>1. UNCHANGED <<task, group, pending, start, outcome, store, tracked, view>>
  BY DEF execute, taskVars, engineVars
<1>2. PICK answer \in Answers : /\ sent' = Append(sent, [op |-> op, answer |-> answer])
                                /\ answer = "ok" => ReadsView(op)
                                /\ \/ queue' = queue
                                   \/ answer = "waiting" /\ queue' = Append(queue, n)
  BY DEF execute, try_read, try_enqueue, Sent, Answers, Waiting
<1>3. [op |-> op, answer |-> answer] \in R /\ sent \in Seq(R) /\ queue \in Seq(Ids) /\ Len(sent) \in Nat
  BY <1>t DEF TypeInv
<1>4. /\ sent' \in Seq(R) /\ Len(sent') = n /\ sent'[n] = [op |-> op, answer |-> answer]
      /\ \A id \in Ids : sent'[id] = sent[id]
  <2> HIDE DEF R
  <2> QED
    BY <1>2, <1>3 DEF Ids
<1>5. Ids' = Ids \cup {n} /\ n \notin Ids /\ \A id \in Ids : id < n
  BY <1>3, <1>4 DEF Ids
<1>6. \A j \in DOMAIN queue : queue[j] \in Ids /\ Unanswered(queue[j])
  BY <1>t, <1>3 DEF AnswerInv
<1>7. ~ (ReadsView(op) /\ Mutates(op))
  BY DEF ReadsView, Mutates, is_mutation
<1>8. /\ queue' \in Seq(Ids') /\ Rising(queue')
      /\ \A j \in DOMAIN queue' : /\ Unanswered(queue[j])'
                                  /\ queue'[j] \in Ids => \E k \in DOMAIN queue : queue[k] = queue'[j]
  <2>1. CASE queue' = queue
    BY <1>t, <1>3, <1>4, <1>5, <1>6, <2>1, Wider DEF OrderInv, Rising, Unanswered
  <2>2. CASE answer = "waiting" /\ queue' = Append(queue, n)
    <3>1. queue \in Seq(Ids') /\ n \in Ids'
      BY <1>3, <1>5, Wider
    <3>2. /\ queue' \in Seq(Ids') /\ DOMAIN queue' = 1..(Len(queue) + 1) /\ queue'[Len(queue) + 1] = n
          /\ DOMAIN queue = 1..Len(queue) /\ Len(queue) \in Nat
          /\ \A j \in DOMAIN queue : queue'[j] = queue[j]
      BY <2>2, <3>1
    <3>3. \A j \in DOMAIN queue' : j = Len(queue) + 1 \/ j \in DOMAIN queue
      BY <3>2
    <3>4. Rising(queue')
      BY <1>t, <1>5, <1>6, <3>2, <3>3 DEF OrderInv, Rising
    <3>5. \A j \in DOMAIN queue' : Unanswered(queue[j])'
      BY <1>4, <1>6, <2>2, <3>2, <3>3 DEF Unanswered
    <3> QED
      BY <1>5, <3>2, <3>3, <3>4, <3>5
  <2> QED
    BY <1>2, <2>1, <2>2
<1>9. \A id \in Ids' : id \notin Ids /\ sent'[id].answer = "ok" => ~ Mutates(sent'[id].op)
  BY <1>2, <1>4, <1>5, <1>7
<1> QED
  BY <1>1, <1>3, <1>4, <1>5, <1>8, <1>9, CallerKeeps

(* A dropped future leaves the operation where it is.                       *)
LEMMA CancelStep == ASSUME IInv, NEW id \in Ids, Cancel(id) PROVE IInv'
<1>t. TypeInv /\ OrderInv /\ AnswerInv
  BY DEF IInv
<1> DEFINE R == [op : Operations, answer : Answers]
<1>1. UNCHANGED <<queue, task, group, pending, start, outcome, store, tracked, view>>
  BY DEF Cancel, taskVars, engineVars
<1>2. sent \in Seq(R) /\ queue \in Seq(Ids) /\ Len(sent) \in Nat
  BY <1>t DEF TypeInv
<1>3. DOMAIN sent = Ids /\ \A x \in Ids : sent[x] \in R
  <2> HIDE DEF R
  <2> QED
    BY <1>2 DEF Ids
<1>4. sent[id].answer = "waiting" /\ sent' = [sent EXCEPT ![id] = [sent[id] EXCEPT !.answer = "cancelled"]]
  BY <1>3 DEF Cancel, Answered, Waiting
<1>5. [sent[id] EXCEPT !.answer = "cancelled"] \in R
  BY <1>3 DEF Answers
<1>6. /\ sent' \in Seq(R) /\ Len(sent') = Len(sent) /\ Ids' = Ids
      /\ \A x \in Ids : sent'[x] = IF x = id THEN [sent[id] EXCEPT !.answer = "cancelled"] ELSE sent[x]
  <2> DEFINE e == [sent[id] EXCEPT !.answer = "cancelled"]
  <2> HIDE DEF R, e
  <2> QED
    BY <1>2, <1>3, <1>4, <1>5 DEF Ids, e
<1>7. \A x \in Ids : sent'[x].op = sent[x].op
  BY <1>3, <1>6
<1>8. \A x \in Ids : \/ sent'[x].answer = sent[x].answer
                     \/ sent[x].answer = "waiting" /\ sent'[x].answer = "cancelled"
  BY <1>3, <1>4, <1>6
<1>9. \A j \in DOMAIN queue' : /\ Unanswered(queue[j])'
                               /\ queue'[j] \in Ids => \E k \in DOMAIN queue : queue[k] = queue'[j]
  BY <1>t, <1>1, <1>2, <1>8 DEF AnswerInv, Unanswered
<1> QED
  BY <1>t, <1>1, <1>2, <1>6, <1>7, <1>8, <1>9, CallerKeeps DEF OrderInv, Rising

-----------------------------------------------------------------------------
(* Answers of the task.                                                     *)

(* Answers that say ok of exactly what was published keep what is known of  *)
(* answers and of the view.                                                 *)
LEMMA AnswersTrue ==
  ASSUME IInv, task # "publish", UNCHANGED <<store, tracked, view>>,
         NEW results, \A id \in DOMAIN results : results[id] \in Answers, sent' = AnsweredAll(results),
         \A id \in Ids : id \in DOMAIN results /\ Published(id) => results[id] = "ok",
         \A id \in Ids : id \in DOMAIN results /\ results[id] = "ok" /\ Mutates(Op(id)) => Published(id)
  PROVE  /\ sent' \in Seq([op : Operations, answer : Answers]) /\ Ids' = Ids
         /\ \A id \in Ids : sent'[id].op = sent[id].op
         /\ \A id \in Ids : id \notin DOMAIN results => sent'[id].answer = sent[id].answer
         /\ \A a \in DOMAIN store.applied : sent'[store.applied[a]].answer \in {"waiting", "cancelled", "ok"}
         /\ ViewInv'
<1>t. TypeInv /\ StageInv /\ AnswerInv /\ ViewInv
  BY DEF IInv
<1>1. /\ sent' \in Seq([op : Operations, answer : Answers]) /\ Ids' = Ids
      /\ \A id \in Ids : sent'[id].op = sent[id].op
      /\ \A id \in Ids : sent'[id].answer = IF id \in DOMAIN results /\ sent[id].answer = "waiting"
                                            THEN results[id] ELSE sent[id].answer
  BY <1>t, AnsweredFacts
<1>2. \A a \in DOMAIN store.applied : store.applied[a] \in Ids /\ Published(store.applied[a])
  BY <1>t DEF TypeInv, Published
<1>3. \A a \in DOMAIN store.applied : sent'[store.applied[a]].answer \in {"waiting", "cancelled", "ok"}
  BY <1>t, <1>1, <1>2 DEF AnswerInv
<1>4. tracked = <<>> /\ view.shown \in Seq(Ids) /\ (view.present => store.applied = view.shown \o tracked)
  BY <1>t DEF StageInv, TypeInv, ViewInv
<1>5. view.present => store.applied = view.shown
  BY <1>4
<1>6. ASSUME NEW id \in Ids, sent'[id].answer = "ok", Mutates(Op(id)), view.present
      PROVE  \E k \in DOMAIN view.shown : view.shown[k] = id
  <2>1. CASE sent[id].answer = "ok"
    BY <1>t, <1>6, <2>1 DEF ViewInv
  <2>2. CASE sent[id].answer # "ok"
    BY <1>1, <1>5, <1>6, <2>2 DEF Published
  <2> QED
    BY <2>1, <2>2
<1>7. ViewInv'
  BY <1>t, <1>1, <1>6 DEF ViewInv, Op
<1> QED
  BY <1>1, <1>3, <1>7

(* The task forgets its group: it stops, or receives again.                 *)
LEMMA GroupDone ==
  ASSUME IInv, task # "publish", UNCHANGED <<store, tracked, view>>,
         task' \in {"receive", "stopped"}, group' = <<>>, start' = 1, outcome' = NoOutcome,
         \/ UNCHANGED <<queue, pending>>
         \/ queue' = <<>> /\ pending' = NoId,
         sent' \in Seq([op : Operations, answer : Answers]), Ids' = Ids,
         \A a \in DOMAIN store.applied : sent'[store.applied[a]].answer \in {"waiting", "cancelled", "ok"},
         ViewInv',
         \A j \in DOMAIN queue' : Unanswered(queue[j])', pending' # NoId => Unanswered(pending)'
  PROVE  IInv'
<1>t. TypeInv /\ StageInv /\ OrderInv
  BY DEF IInv
<1>1. TypeInv'
  <2>1. outcome' \in [error : {"none", "DurabilityFailure", "Corruption"}, results : Seq(Answers)]
    BY DEF NoOutcome
  <2>2. queue' \in Seq(Ids) /\ pending' \in Ids \cup {NoId} /\ group' \in Seq(Ids)
    <3>1. <<>> \in Seq(Ids) /\ queue \in Seq(Ids) /\ pending \in Ids \cup {NoId}
      BY <1>t DEF TypeInv
    <3> QED
      BY <3>1
  <2> QED
    BY <1>t, <2>1, <2>2 DEF TypeInv
<1>2. StageInv'
  BY <1>t DEF StageInv
<1>3. OrderInv'
  BY <1>t DEF OrderInv, Rising, AllBelow
<1>4. AnswerInv'
  BY DEF AnswerInv
<1>5. OutcomeInv'
  BY DEF OutcomeInv
<1> QED
  BY <1>1, <1>2, <1>3, <1>4, <1>5 DEF IInv

(* The close signal stops an idle task; what is queued is dropped.          *)
LEMMA CloseStep == ASSUME IInv, CloseIdle PROVE IInv'
<1>t. TypeInv /\ StageInv /\ OrderInv
  BY DEF IInv
<1> DEFINE results == [id \in Range(queue) \cup {NoId} |-> "dropped"]
<1>1. /\ task = "receive" /\ UNCHANGED <<store, tracked, view>> /\ task' = "stopped"
      /\ queue' = <<>> /\ pending' = NoId /\ group' = <<>> /\ start' = 1 /\ outcome' = NoOutcome
      /\ sent' = AnsweredAll(results)
  BY DEF CloseIdle, Stop, engineVars
<1>2. DOMAIN results = Range(queue) \cup {NoId} /\ \A id \in DOMAIN results : results[id] = "dropped"
  OBVIOUS
<1> HIDE DEF results
<1>3. \A id \in Ids : id \in DOMAIN results => ~ Published(id)
  BY <1>t, <1>2 DEF TypeInv, OrderInv, AllBelow, Published, Range, Ids, NoId
<1>4. \A id \in DOMAIN results : results[id] \in Answers /\ results[id] # "ok"
  BY <1>2 DEF Answers
<1>5. /\ sent' \in Seq([op : Operations, answer : Answers]) /\ Ids' = Ids /\ ViewInv'
      /\ \A a \in DOMAIN store.applied : sent'[store.applied[a]].answer \in {"waiting", "cancelled", "ok"}
  BY <1>1, <1>3, <1>4, AnswersTrue
<1> QED
  BY <1>1, <1>5, GroupDone

-----------------------------------------------------------------------------
(* Collecting a group.                                                      *)

(* Steps that only move ids from the queue to the group or hold one back.   *)
LEMMA MoveKeeps ==
  ASSUME IInv, UNCHANGED <<sent, start, outcome, store, tracked, view>>,
         task \in {"receive", "collect", "delay"}, task' \in {"collect", "delay", "run"},
         queue' \in Seq(Ids), group' \in Seq(Ids), group' # <<>>, pending' \in Ids \cup {NoId},
         task' # "run" => pending' = NoId,
         Rising(queue'), Rising(group'), AllBelow(group', queue'),
         pending' # NoId => AllBelow(group', <<pending'>>) /\ AllBelow(<<pending'>>, queue'),
         \A id \in Range(group') \cup Range(queue') \cup ({pending'} \ {NoId}) :
           id \in Range(group) \cup Range(queue) \cup ({pending} \ {NoId})
  PROVE  IInv'
<1>t. TypeInv /\ StageInv /\ OrderInv /\ AnswerInv /\ ViewInv
  BY DEF IInv
<1>1. TypeInv'
  BY <1>t DEF TypeInv, Ids
<1>2. start = 1 /\ tracked = <<>>
  BY <1>t DEF StageInv
<1>3. StageInv'
  BY <1>2 DEF StageInv
<1>4. \A id \in Range(group) \cup Range(queue) \cup ({pending} \ {NoId}) :
        Unanswered(id) /\ \A a \in DOMAIN store.applied : store.applied[a] < id
  <2>1. FirstUnrun = 1
    BY <1>2 DEF FirstUnrun
  <2>2. \A i \in DOMAIN group : i >= 1
    BY <1>t DEF TypeInv
  <2>3. ASSUME NEW i \in DOMAIN group
        PROVE  Unanswered(group[i]) /\ \A a \in DOMAIN store.applied : store.applied[a] < group[i]
    BY <1>t, <1>2, <2>1, <2>2 DEF OrderInv, AnswerInv
  <2>4. ASSUME NEW i \in DOMAIN queue
        PROVE  Unanswered(queue[i]) /\ \A a \in DOMAIN store.applied : store.applied[a] < queue[i]
    BY <1>t DEF OrderInv, AnswerInv, AllBelow
  <2>5. pending # NoId => Unanswered(pending) /\ \A a \in DOMAIN store.applied : store.applied[a] < pending
    BY <1>t DEF OrderInv, AnswerInv, AllBelow
  <2> QED
    BY <2>3, <2>4, <2>5 DEF Range
<1>5. \A id \in Range(group') \cup Range(queue') \cup ({pending'} \ {NoId}) :
        Unanswered(id) /\ \A a \in DOMAIN store.applied : store.applied[a] < id
  BY <1>4
<1>6. /\ \A i \in DOMAIN group' : Unanswered(group'[i]) /\ \A a \in DOMAIN store.applied : store.applied[a] < group'[i]
      /\ \A i \in DOMAIN queue' : Unanswered(queue'[i]) /\ \A a \in DOMAIN store.applied : store.applied[a] < queue'[i]
      /\ pending' # NoId => Unanswered(pending') /\ \A a \in DOMAIN store.applied : store.applied[a] < pending'
  BY <1>5 DEF Range
<1>7. OrderInv'
  BY <1>t, <1>6 DEF OrderInv, AllBelow, Rising
<1>8. AnswerInv'
  BY <1>t, <1>6 DEF AnswerInv, Unanswered
<1>9. OutcomeInv' /\ ViewInv'
  BY <1>t DEF OutcomeInv, ViewInv, Op, Ids
<1> QED
  BY <1>1, <1>3, <1>7, <1>8, <1>9 DEF IInv

(* The head of the queue and the rest of it.                                *)
LEMMA HeadOfQueue ==
  ASSUME TypeInv, Rising(queue), queue # <<>>
  PROVE  /\ Head(queue) \in Ids /\ Head(queue) = queue[1] /\ 1 \in DOMAIN queue /\ Tail(queue) \in Seq(Ids)
         /\ Rising(Tail(queue)) /\ AllBelow(<<Head(queue)>>, Tail(queue))
         /\ \A i \in DOMAIN Tail(queue) : i + 1 \in DOMAIN queue /\ Tail(queue)[i] = queue[i + 1]
<1>1. queue \in Seq(Ids) /\ Len(queue) \in Nat /\ DOMAIN queue = 1..Len(queue) /\ Len(queue) # 0
  BY DEF TypeInv
<1>2. /\ Tail(queue) \in Seq(Ids) /\ DOMAIN Tail(queue) = 1..(Len(queue) - 1)
      /\ Head(queue) = queue[1] /\ Head(queue) \in Ids
  BY <1>1
<1>3. \A i \in 1..(Len(queue) - 1) : i + 1 \in DOMAIN queue /\ Tail(queue)[i] = queue[i + 1]
  BY <1>1
<1>4. Rising(Tail(queue)) /\ AllBelow(<<Head(queue)>>, Tail(queue))
  BY <1>1, <1>2, <1>3 DEF Rising, AllBelow
<1> QED
  BY <1>1, <1>2, <1>3, <1>4

(* The operation held back, or the head of the queue, begins a group.       *)
LEMMA FirstStep == ASSUME IInv, FirstOfGroup PROVE IInv'
<1>t. TypeInv /\ StageInv /\ OrderInv
  BY DEF IInv
<1>1. /\ task = "receive" /\ task' = "collect" /\ pending' = NoId
      /\ UNCHANGED <<sent, start, outcome, store, tracked, view>>
  BY DEF FirstOfGroup, engineVars
<1>2. CASE pending # NoId /\ group' = <<pending>> /\ UNCHANGED queue
  <2>1. pending \in Ids /\ queue \in Seq(Ids)
    BY <1>2, <1>t DEF TypeInv
  <2>2. group' \in Seq(Ids) /\ group' # <<>> /\ Rising(group') /\ Range(group') = {pending}
    BY <1>2, <2>1 DEF Rising, Range
  <2>3. AllBelow(group', queue') /\ Rising(queue')
    BY <1>t, <1>2 DEF OrderInv, AllBelow, Rising
  <2> QED
    BY <1>1, <1>2, <2>1, <2>2, <2>3, MoveKeeps
<1>3. CASE pending = NoId /\ queue # <<>> /\ group' = <<Head(queue)>> /\ queue' = Tail(queue)
  <2>1. /\ Head(queue) \in Ids /\ Head(queue) = queue[1] /\ 1 \in DOMAIN queue /\ Tail(queue) \in Seq(Ids)
        /\ Rising(Tail(queue)) /\ AllBelow(<<Head(queue)>>, Tail(queue))
        /\ \A i \in DOMAIN Tail(queue) : i + 1 \in DOMAIN queue /\ Tail(queue)[i] = queue[i + 1]
    BY <1>t, <1>3, HeadOfQueue DEF OrderInv
  <2>2. group' \in Seq(Ids) /\ group' # <<>> /\ Rising(group') /\ Range(group') = {Head(queue)}
    BY <1>3, <2>1 DEF Rising, Range
  <2>3. Range(group') \cup Range(queue') \subseteq Range(queue)
    BY <1>3, <2>1, <2>2 DEF Range
  <2> QED
    BY <1>1, <1>3, <2>1, <2>2, <2>3, MoveKeeps
<1> QED
  BY <1>2, <1>3 DEF FirstOfGroup

(* An operation joins the group or is held back.                            *)
LEMMA TakeKeeps ==
  ASSUME IInv, task \in {"collect", "delay"}, queue # <<>>, TakeNext,
         UNCHANGED <<sent, start, outcome, store, tracked, view>>,
         task' \in {"collect", "delay", "run"}, pending' # NoId => task' = "run"
  PROVE  IInv'
<1>t. TypeInv /\ StageInv /\ OrderInv
  BY DEF IInv
<1>1. pending = NoId /\ group # <<>> /\ group \in Seq(Ids) /\ Len(group) \in Nat
  BY <1>t DEF StageInv, TypeInv
<1>2. /\ Head(queue) \in Ids /\ Head(queue) = queue[1] /\ 1 \in DOMAIN queue /\ Tail(queue) \in Seq(Ids)
      /\ Rising(Tail(queue)) /\ AllBelow(<<Head(queue)>>, Tail(queue))
      /\ \A i \in DOMAIN Tail(queue) : i + 1 \in DOMAIN queue /\ Tail(queue)[i] = queue[i + 1]
  BY <1>t, HeadOfQueue DEF OrderInv
<1>3. queue' = Tail(queue) /\ AllBelow(group, queue') /\ Range(queue') \subseteq Range(queue)
  BY <1>t, <1>2 DEF TakeNext, OrderInv, AllBelow, Range
<1>4. CASE pending' = Head(queue) /\ UNCHANGED group
  <2>1. AllBelow(group', <<pending'>>) /\ AllBelow(<<pending'>>, queue')
    BY <1>t, <1>2, <1>3, <1>4 DEF OrderInv, AllBelow
  <2>2. pending' \in Range(queue)
    BY <1>2, <1>4 DEF Range
  <2> QED
    BY <1>t, <1>1, <1>2, <1>3, <1>4, <2>1, <2>2, MoveKeeps DEF OrderInv, Rising
<1>5. CASE group' = Append(group, Head(queue)) /\ UNCHANGED pending
  <2>1. /\ group' \in Seq(Ids) /\ DOMAIN group' = 1..(Len(group) + 1) /\ DOMAIN group = 1..Len(group)
        /\ group'[Len(group) + 1] = Head(queue)
        /\ \A i \in DOMAIN group : group'[i] = group[i] /\ group[i] < Head(queue)
    BY <1>t, <1>1, <1>2, <1>5 DEF OrderInv, AllBelow
  <2>2. \A i \in DOMAIN group' : i = Len(group) + 1 \/ i \in DOMAIN group
    BY <1>1, <2>1
  <2>3. Rising(group')
    BY <1>t, <1>1, <2>1, <2>2 DEF OrderInv, Rising
  <2>4. AllBelow(group', queue')
    BY <1>2, <1>3, <2>1, <2>2 DEF AllBelow
  <2>5. group' # <<>> /\ Range(group') \subseteq Range(group) \cup Range(queue)
    BY <1>1, <1>2, <2>1, <2>2 DEF Range
  <2> QED
    BY <1>1, <1>2, <1>3, <1>5, <2>1, <2>3, <2>4, <2>5, MoveKeeps
<1> QED
  BY <1>4, <1>5 DEF TakeNext

(* collect_group, with and without the collection delay.                    *)
LEMMA CollectStep == ASSUME IInv, collect_group \/ CollectDelayed PROVE IInv'
<1>t. TypeInv /\ StageInv /\ OrderInv
  BY DEF IInv
<1>1. task \in {"collect", "delay"} /\ UNCHANGED <<sent, start, outcome, store, tracked, view>>
  BY DEF collect_group, CollectDelayed, engineVars
<1>2. \/ /\ queue # <<>> /\ TakeNext
         /\ task' \in {"collect", "delay", "run"} /\ (pending' # NoId => task' = "run")
      \/ task' \in {"delay", "run"} /\ UNCHANGED <<group, queue, pending>>
  BY <1>1 DEF collect_group, CollectDelayed, AfterCollect
<1>3. CASE task' \in {"delay", "run"} /\ UNCHANGED <<group, queue, pending>>
  <2>1. pending = NoId /\ group # <<>>
    BY <1>t, <1>1 DEF StageInv
  <2>2. queue \in Seq(Ids) /\ group \in Seq(Ids)
    BY <1>t DEF TypeInv
  <2> QED
    BY <1>t, <1>1, <1>3, <2>1, <2>2, MoveKeeps DEF OrderInv, Rising, AllBelow
<1> QED
  BY <1>1, <1>2, <1>3, TakeKeeps

-----------------------------------------------------------------------------
(* Running, publishing and answering a segment.                             *)

(* What lies in the segment is in order, unanswered, not published, and     *)
(* before the rest of the group, what is held back and what is queued.      *)
LEMMA SegmentToRun ==
  ASSUME IInv, task = "run"
  PROVE  /\ Segment \in Seq(Nat) /\ Rising(Segment)
         /\ \A i \in DOMAIN Segment : Segment[i] \in Ids /\ Unanswered(Segment[i]) /\ ~ Published(Segment[i])
         /\ AllBelow(store.applied, Segment) /\ AllBelow(Segment, queue)
         /\ pending # NoId => AllBelow(Segment, <<pending>>)
         /\ \A i \in DOMAIN Segment, j \in DOMAIN group : j >= SegmentEnd + 1 => Segment[i] < group[j]
<1>t. TypeInv /\ StageInv /\ OrderInv /\ AnswerInv
  BY DEF IInv
<1>1. start \in DOMAIN group /\ FirstUnrun = start /\ group \in Seq(Ids) /\ DOMAIN group \subseteq Nat
  BY <1>t DEF StageInv, FirstUnrun, TypeInv
<1>2. /\ SegmentEnd \in start..Len(group)
      /\ Segment \in Seq(Ids) /\ DOMAIN Segment = 1..(SegmentEnd - start + 1)
      /\ \A i \in DOMAIN Segment : start + i - 1 \in DOMAIN group /\ Segment[i] = group[start + i - 1]
  BY <1>t, <1>1, SegmentFacts
<1>3. Ids \subseteq Nat
  BY DEF Ids
<1>4. Segment \in Seq(Nat)
  BY <1>2, <1>3, Wider
<1>5. Rising(Segment)
  BY <1>t, <1>1, <1>2 DEF OrderInv, Rising
<1>6. \A i \in DOMAIN Segment : start + i - 1 >= start /\ start + i - 1 < SegmentEnd + 1
  BY <1>1, <1>2
<1>7. \A i \in DOMAIN Segment : Segment[i] \in Ids /\ Unanswered(Segment[i])
  <2>1. \A i \in DOMAIN group : i >= start => Unanswered(group[i])
    BY <1>t DEF AnswerInv
  <2>a. Segment \in Seq(Ids)
    BY <1>2
  <2>2. \A i \in DOMAIN Segment : Segment[i] \in Ids
    BY <2>a
  <2>3. ASSUME NEW i \in DOMAIN Segment PROVE Unanswered(Segment[i])
    BY <1>2, <1>6, <2>1
  <2> QED
    BY <2>2, <2>3
<1>8. AllBelow(store.applied, Segment)
  BY <1>t, <1>1, <1>2, <1>6 DEF OrderInv, AllBelow
<1>9. \A i \in DOMAIN Segment : ~ Published(Segment[i])
  <2> TAKE i \in DOMAIN Segment
  <2>a. Segment[i] \in Ids
    BY <1>7
  <2>b. \A id \in Ids : ~ (id < id)
    BY DEF Ids
  <2>1. ~ (Segment[i] < Segment[i])
    BY <2>a, <2>b
  <2> QED
    BY <1>8, <2>1 DEF AllBelow, Published
<1>10. AllBelow(Segment, queue) /\ (pending # NoId => AllBelow(Segment, <<pending>>))
  BY <1>t, <1>2 DEF OrderInv, AllBelow
<1>11. \A i \in DOMAIN Segment, j \in DOMAIN group : j >= SegmentEnd + 1 => Segment[i] < group[j]
  BY <1>t, <1>1, <1>2, <1>6 DEF OrderInv, Rising
<1> QED
  BY <1>4, <1>5, <1>7, <1>8, <1>9, <1>10, <1>11

(* A run segment has published some of its ids in order, or none.           *)
LEMMA RunKeeps ==
  ASSUME IInv, task = "run", task' = "publish", UNCHANGED <<sent, queue, group, pending, start, view>>,
         NEW ids \in Seq(Ids), Rising(ids),
         \A k \in DOMAIN ids : \E i \in DOMAIN Segment : ids[k] = Segment[i],
         store' \in [applied : Seq(Ids), broken : BOOLEAN], store'.applied = store.applied \o ids,
         tracked' = tracked \o ids,
         outcome' \in [error : {"none", "DurabilityFailure", "Corruption"}, results : Seq(Answers)],
         OutcomeInv'
  PROVE  IInv'
<1>t. TypeInv /\ StageInv /\ OrderInv /\ AnswerInv /\ ViewInv
  BY DEF IInv
<1>1. start \in DOMAIN group /\ tracked = <<>> /\ tracked \in Seq(Ids) /\ store.applied \in Seq(Ids) /\ view.shown \in Seq(Ids)
  BY <1>t DEF StageInv, TypeInv
<1>2. /\ \A i \in DOMAIN Segment : Segment[i] \in Ids /\ Unanswered(Segment[i])
      /\ AllBelow(store.applied, Segment) /\ AllBelow(Segment, queue)
      /\ pending # NoId => AllBelow(Segment, <<pending>>)
      /\ \A i \in DOMAIN Segment, j \in DOMAIN group : j >= SegmentEnd + 1 => Segment[i] < group[j]
  BY SegmentToRun
<1>3. SegmentEnd' = SegmentEnd /\ SegmentEnd \in start..Len(group) /\ start \in Nat
  BY <1>t, <1>1, SegmentFacts, SegmentKept DEF TypeInv
<1>4. FirstUnrun' = SegmentEnd + 1 /\ FirstUnrun = start /\ SegmentEnd + 1 >= start /\ SegmentEnd \in Nat
  BY <1>3 DEF FirstUnrun
<1>d. /\ DOMAIN store.applied = 1..Len(store.applied) /\ DOMAIN ids = 1..Len(ids)
      /\ DOMAIN store'.applied = 1..(Len(store.applied) + Len(ids))
      /\ Len(store.applied) \in Nat /\ Len(ids) \in Nat
  BY <1>1
<1>e. \A a \in 1..(Len(store.applied) + Len(ids)) :
        store'.applied[a] = IF a <= Len(store.applied) THEN store.applied[a] ELSE ids[a - Len(store.applied)]
  BY <1>1
<1>5. /\ \A a \in DOMAIN store.applied : a \in DOMAIN store'.applied /\ store'.applied[a] = store.applied[a]
      /\ \A a \in DOMAIN store'.applied :
           \/ a \in DOMAIN store.applied /\ store'.applied[a] = store.applied[a]
           \/ a - Len(store.applied) \in DOMAIN ids /\ store'.applied[a] = ids[a - Len(store.applied)] /\ a > Len(store.applied)
      /\ DOMAIN store.applied = 1..Len(store.applied) /\ Len(store.applied) \in Nat /\ DOMAIN store'.applied \subseteq Nat
      /\ DOMAIN ids \subseteq Nat
  BY <1>d, <1>e
<1>6. \A k \in DOMAIN ids : /\ Unanswered(ids[k]) /\ \A a \in DOMAIN store.applied : store.applied[a] < ids[k]
                            /\ \A j \in DOMAIN queue : ids[k] < queue[j]
                            /\ pending # NoId => ids[k] < pending
                            /\ \A j \in DOMAIN group : j >= SegmentEnd + 1 => ids[k] < group[j]
  BY <1>2 DEF AllBelow
<1>7. TypeInv'
  <2>1. tracked' \in Seq(Ids)
    BY <1>1
  <2> QED
    BY <1>t, <2>1 DEF TypeInv, Ids
<1>8. StageInv'
  BY <1>t DEF StageInv
<1>9. OrderInv'
  <2>1. Rising(store'.applied)
    <3> SUFFICES ASSUME NEW a \in DOMAIN store'.applied, NEW b \in DOMAIN store'.applied, a < b
                 PROVE  store'.applied[a] < store'.applied[b]
      BY DEF Rising
    <3>1. CASE b \in DOMAIN store.applied /\ a \in DOMAIN store.applied
      BY <1>t, <1>5, <3>1 DEF OrderInv, Rising
    <3>2. CASE b - Len(store.applied) \in DOMAIN ids /\ store'.applied[b] = ids[b - Len(store.applied)] /\ a \in DOMAIN store.applied
      BY <1>5, <1>6, <3>2
    <3>3. CASE /\ b - Len(store.applied) \in DOMAIN ids /\ store'.applied[b] = ids[b - Len(store.applied)]
               /\ a - Len(store.applied) \in DOMAIN ids /\ store'.applied[a] = ids[a - Len(store.applied)]
      <4>1. a - Len(store.applied) < b - Len(store.applied)
        BY <1>5
      <4> QED
        BY <3>3, <4>1 DEF Rising
    <3>4. b \in DOMAIN store.applied => a \in DOMAIN store.applied
      BY <1>5
    <3> QED
      BY <1>5, <3>1, <3>2, <3>3, <3>4
  <2>2. AllBelow(store'.applied, queue') /\ (pending' # NoId => AllBelow(store'.applied, <<pending'>>))
    <3>1. \A a \in DOMAIN store'.applied, j \in DOMAIN queue : store'.applied[a] < queue[j]
      BY <1>t, <1>5, <1>6 DEF OrderInv, AllBelow
    <3>2. pending # NoId => \A a \in DOMAIN store'.applied : store'.applied[a] < pending
      <4>1. pending # NoId => \A a \in DOMAIN store.applied : store.applied[a] < pending
        BY <1>t, BelowOne DEF OrderInv
      <4> QED
        BY <1>5, <1>6, <4>1
    <3> QED
      BY <3>1, <3>2 DEF AllBelow
  <2>3. \A a \in DOMAIN store'.applied, i \in DOMAIN group' : i >= FirstUnrun' => store'.applied[a] < group'[i]
    <3>1. \A i \in DOMAIN group : i \in Nat
      <4>1. group \in Seq(Ids)
        BY <1>t DEF TypeInv
      <4> QED
        BY <4>1
    <3>2. \A i \in DOMAIN group : i >= SegmentEnd + 1 => i >= FirstUnrun
      BY <1>3, <1>4, <3>1
    <3> QED
      BY <1>t, <1>4, <1>5, <1>6, <3>2 DEF OrderInv
  <2> QED
    BY <1>t, <2>1, <2>2, <2>3 DEF OrderInv, AllBelow, Rising
<1>10. AnswerInv'
  <2>1. \A a \in DOMAIN store'.applied : sent[store'.applied[a]].answer \in {"waiting", "cancelled", "ok"}
    BY <1>t, <1>5, <1>6 DEF AnswerInv, Unanswered
  <2> QED
    BY <1>t, <2>1 DEF AnswerInv, Unanswered
<1>11. ViewInv'
  <2>1. tracked' = ids
    BY <1>1
  <2>2. view.present => store.applied = view.shown
    BY <1>t, <1>1 DEF ViewInv
  <2> QED
    BY <1>t, <2>1, <2>2 DEF ViewInv, Op, Ids
<1> QED
  BY <1>7, <1>8, <1>9, <1>10, <1>11 DEF IInv

(* The accepted mutations of a segment are published together.              *)
LEMMA CommitStep ==
  ASSUME IInv, task = "run", Commit, task' = "publish", UNCHANGED <<sent, queue, group, pending, start, view>>
  PROVE  IInv'
<1>t. TypeInv /\ StageInv
  BY DEF IInv
<1>1. PICK refused \in SUBSET DOMAIN Segment :
        LET accepted == [i \in DOMAIN Segment |-> IF i \in refused THEN "refused" ELSE "ok"]
            ids == Kept(Segment, {Segment[i] : i \in {j \in DOMAIN Segment : j \notin refused /\ Mutates(Op(Segment[j]))}})
        IN /\ store' = [store EXCEPT !.applied = @ \o ids]
           /\ tracked' = tracked \o ids
           /\ outcome' = [error |-> "none", results |-> accepted]
  BY DEF Commit
<1> DEFINE accepted == [i \in DOMAIN Segment |-> IF i \in refused THEN "refused" ELSE "ok"]
           chosen == {Segment[i] : i \in {j \in DOMAIN Segment : j \notin refused /\ Mutates(Op(Segment[j]))}}
           ids == Kept(Segment, chosen)
<1>2. /\ store' = [store EXCEPT !.applied = @ \o ids] /\ tracked' = tracked \o ids
      /\ outcome' = [error |-> "none", results |-> accepted]
  BY <1>1
<1>3. /\ Segment \in Seq(Nat) /\ Rising(Segment)
      /\ \A i \in DOMAIN Segment : Segment[i] \in Ids /\ ~ Published(Segment[i])
  BY SegmentToRun
<1>4. KeptSoFar(ids, Segment, chosen, Len(Segment))
  <2> HIDE DEF chosen
  <2> QED
    BY <1>3, KeptFacts
<1>5. \A i, j \in DOMAIN Segment : Segment[i] = Segment[j] => i = j
  <2>1. \A i, j \in DOMAIN Segment : i < j \/ j < i \/ i = j
    BY <1>3
  <2> QED
    BY <1>3, <2>1 DEF Rising
<1>6. \A i \in DOMAIN Segment : Segment[i] \in chosen <=> i \notin refused /\ Mutates(Op(Segment[i]))
  BY <1>5
<1>7. accepted \in Seq(Answers) /\ DOMAIN accepted = DOMAIN Segment
  <2>1. DOMAIN Segment = 1..Len(Segment) /\ Len(Segment) \in Nat
    BY <1>3
  <2>2. accepted \in [1..Len(Segment) -> Answers]
    BY <2>1 DEF Answers
  <2> QED
    BY <2>1, <2>2
<1>8. \A i \in DOMAIN Segment : accepted[i] = "ok" <=> i \notin refused
  OBVIOUS
<1> HIDE DEF chosen, ids, accepted
<1>9. /\ ids \in Seq(Nat) /\ Rising(ids)
      /\ \A k \in DOMAIN ids : \E i \in DOMAIN Segment : Segment[i] \in chosen /\ ids[k] = Segment[i]
      /\ \A i \in DOMAIN Segment : Segment[i] \in chosen => \E k \in DOMAIN ids : ids[k] = Segment[i]
  <2>1. DOMAIN Segment = 1..Len(Segment)
    BY <1>3
  <2> QED
    BY <1>4, <2>1 DEF KeptSoFar
<1>10. ids \in Seq(Ids)
  <2>1. \A k \in DOMAIN ids : ids[k] \in Ids
    BY <1>3, <1>9
  <2> QED
    BY <1>9, <2>1
<1>11. /\ store' \in [applied : Seq(Ids), broken : BOOLEAN] /\ store'.applied = store.applied \o ids
       /\ store.applied \in Seq(Ids)
  <2>1. store \in [applied : Seq(Ids), broken : BOOLEAN]
    BY <1>t DEF TypeInv
  <2>2. store.applied \in Seq(Ids) /\ store.applied \o ids \in Seq(Ids)
    BY <1>10, <2>1
  <2>3. store' = [store EXCEPT !.applied = store.applied \o ids]
    BY <1>2
  <2> QED
    BY <2>1, <2>2, <2>3
<1>12. outcome' \in [error : {"none", "DurabilityFailure", "Corruption"}, results : Seq(Answers)]
       /\ outcome'.error = "none" /\ outcome'.results = accepted
  BY <1>2, <1>7
<1>13. \A i \in DOMAIN Segment : Published(Segment[i])' <=> Segment[i] \in chosen
  <2>0. Segment' = Segment
    BY <1>t, SegmentKept DEF StageInv
  <2>1. ASSUME NEW i \in DOMAIN Segment, Segment[i] \in chosen PROVE Published(Segment[i])'
    <3>1. PICK k \in DOMAIN ids : ids[k] = Segment[i]
      BY <1>9, <2>1
    <3>2. k + Len(store.applied) \in DOMAIN store'.applied /\ store'.applied[k + Len(store.applied)] = ids[k]
      BY <1>10, <1>11
    <3> QED
      BY <2>0, <3>1, <3>2 DEF Published
  <2>2. ASSUME NEW i \in DOMAIN Segment, NEW a \in DOMAIN store'.applied, store'.applied[a] = Segment[i]
        PROVE  Segment[i] \in chosen
    <3>1. \/ a \in DOMAIN store.applied /\ store'.applied[a] = store.applied[a]
          \/ \E k \in DOMAIN ids : store'.applied[a] = ids[k]
      BY <1>10, <1>11
    <3>2. \E k \in DOMAIN ids : store'.applied[a] = ids[k]
      BY <1>3, <2>2, <3>1 DEF Published
    <3> QED
      BY <1>9, <2>2, <3>2
  <2> QED
    BY <2>0, <2>1, <2>2 DEF Published
<1>14. OutcomeInv'
  <2>1. Segment' = Segment
    BY <1>t, SegmentKept DEF StageInv
  <2>2. \A i \in DOMAIN Segment : Op(Segment[i])' = Op(Segment[i])
    BY <2>1 DEF Op
  <2>3. DOMAIN outcome'.results = DOMAIN Segment'
    BY <1>7, <1>12, <2>1
  <2>4. \A i \in DOMAIN Segment : Published(Segment[i])' <=> Mutates(Op(Segment[i])) /\ outcome'.results[i] = "ok"
    BY <1>6, <1>8, <1>12, <1>13
  <2> QED
    BY <1>12, <2>1, <2>2, <2>3, <2>4 DEF OutcomeInv
<1> QED
  BY <1>2, <1>9, <1>10, <1>11, <1>12, <1>14, RunKeeps

(* A segment that failed, or one that is not a mutation, publishes nothing. *)
LEMMA NothingPublished ==
  ASSUME IInv, task = "run", task' = "publish", UNCHANGED <<sent, queue, group, pending, start, view, tracked>>,
         store' \in [applied : Seq(Ids), broken : BOOLEAN], store'.applied = store.applied,
         outcome' \in [error : {"none", "DurabilityFailure", "Corruption"}, results : Seq(Answers)],
         outcome'.error # "none" \/ (~ is_mutation(Op(group[start])) /\ DOMAIN outcome'.results = 1..1)
  PROVE  IInv'
<1>t. TypeInv /\ StageInv
  BY DEF IInv
<1>1. \A i \in DOMAIN Segment : ~ Published(Segment[i])
  BY SegmentToRun
<1>2. Segment' = Segment /\ start \in DOMAIN group /\ start \in Nat
  BY <1>t, SegmentKept DEF StageInv, TypeInv
<1>3. /\ DOMAIN Segment = 1..(SegmentEnd - start + 1) /\ (~ is_mutation(Op(group[start])) => SegmentEnd = start)
      /\ \A i \in DOMAIN Segment : Segment[i] = group[start + i - 1]
  BY <1>t, <1>2, SegmentFacts
<1>4. \A i \in DOMAIN Segment : ~ Published(Segment[i])'
  BY <1>1, <1>2 DEF Published
<1>5. outcome'.error = "none" => \A i \in DOMAIN Segment : ~ Mutates(Op(Segment[i]))'
  <2> HAVE outcome'.error = "none"
  <2>1. SegmentEnd = start /\ ~ is_mutation(Op(group[start]))
    BY <1>3
  <2>2. ASSUME NEW i \in DOMAIN Segment PROVE Segment[i] = group[start]
    BY <1>2, <1>3, <2>1
  <2> QED
    BY <1>2, <2>1, <2>2 DEF Mutates, Op
<1>6. outcome'.error = "none" => DOMAIN outcome'.results = DOMAIN Segment
  <2> HAVE outcome'.error = "none"
  <2>1. SegmentEnd = start /\ DOMAIN outcome'.results = 1..1
    BY <1>3
  <2>2. SegmentEnd - start + 1 = 1
    BY <1>2, <2>1
  <2> QED
    BY <1>3, <2>1, <2>2
<1>7. OutcomeInv'
  BY <1>2, <1>4, <1>5, <1>6 DEF OutcomeInv
<1> DEFINE none == <<>>
<1>8. /\ none \in Seq(Ids) /\ DOMAIN none = {} /\ Rising(none)
      /\ store.applied \o none = store.applied /\ tracked \o none = tracked
  <2>1. store.applied \in Seq(Ids) /\ tracked \in Seq(Ids)
    BY <1>t DEF TypeInv
  <2> QED
    BY <2>1 DEF Rising
<1> HIDE DEF none
<1> QED
  BY <1>7, <1>8, RunKeeps

(* process_segment                                                          *)
LEMMA ProcessStep == ASSUME IInv, process_segment PROVE IInv'
<1>t. TypeInv /\ StageInv
  BY DEF IInv
<1>1. task = "run" /\ task' = "publish" /\ UNCHANGED <<sent, queue, group, pending, start, view>>
  BY DEF process_segment, callerVars
<1>2. store \in [applied : Seq(Ids), broken : BOOLEAN]
  BY <1>t DEF TypeInv
<1>3. CASE Commit
  BY <1>1, <1>3, CommitStep
<1>4. CASE CommitFails
  <2>1. store' \in [applied : Seq(Ids), broken : BOOLEAN] /\ store'.applied = store.applied /\ tracked' = tracked
    BY <1>2, <1>4 DEF CommitFails
  <2>2. \E error \in {"DurabilityFailure", "Corruption"} : outcome' = [error |-> error, results |-> <<>>]
    BY <1>4 DEF CommitFails
  <2>3. outcome' \in [error : {"none", "DurabilityFailure", "Corruption"}, results : Seq(Answers)] /\ outcome'.error # "none"
    BY <2>2
  <2> QED
    BY <1>1, <2>1, <2>3, NothingPublished
<1>5. CASE ~ is_mutation(Op(group[start])) /\ Inspect
  <2>1. store' \in [applied : Seq(Ids), broken : BOOLEAN] /\ store'.applied = store.applied /\ tracked' = tracked
    BY <1>2, <1>5 DEF Inspect
  <2>2. PICK answer \in {"ok", "CheckpointFailure", "DurabilityFailure", "Corruption"} :
          outcome' = [error |-> "none", results |-> <<answer>>]
    BY <1>5 DEF Inspect
  <2>3. <<answer>> \in Seq(Answers) /\ DOMAIN <<answer>> = 1..1
    BY DEF Answers
  <2>4. outcome' \in [error : {"none", "DurabilityFailure", "Corruption"}, results : Seq(Answers)] /\ outcome'.results = <<answer>>
    BY <2>2, <2>3
  <2> QED
    BY <1>1, <1>5, <2>1, <2>3, <2>4, NothingPublished
<1> QED
  BY <1>3, <1>4, <1>5 DEF process_segment

(* publish_read_updates: the view catches up.                               *)
LEMMA PublishStep == ASSUME IInv, publish_read_updates PROVE IInv'
<1>t. TypeInv /\ StageInv /\ OrderInv /\ AnswerInv /\ OutcomeInv /\ ViewInv
  BY DEF IInv
<1>1. /\ task = "publish" /\ task' = "answer" /\ tracked' = <<>>
      /\ UNCHANGED <<sent, queue, group, pending, start, outcome, store>>
      /\ view' = [view EXCEPT !.broken = view.broken \/ store.broken,
                              !.shown = IF view.present THEN view.shown \o tracked ELSE view.shown]
  BY DEF publish_read_updates, callerVars
<1>2. view \in [present : BOOLEAN, broken : BOOLEAN, shown : Seq(Ids)] /\ tracked \in Seq(Ids)
      /\ view.shown \in Seq(Ids) /\ store.broken \in BOOLEAN
  BY <1>t DEF TypeInv
<1>3. /\ view' \in [present : BOOLEAN, broken : BOOLEAN, shown : Seq(Ids)] /\ view'.present = view.present
      /\ view'.shown = IF view.present THEN view.shown \o tracked ELSE view.shown
  <2>1. view.shown \o tracked \in Seq(Ids)
    BY <1>2
  <2>2. (view.broken \/ store.broken) \in BOOLEAN
    OBVIOUS
  <2> QED
    BY <1>1, <1>2, <2>1, <2>2
<1>4. TypeInv'
  <2>1. <<>> \in Seq(Ids)
    OBVIOUS
  <2> QED
    BY <1>t, <1>1, <1>3, <2>1 DEF TypeInv, Ids
<1>5. StageInv'
  BY <1>t, <1>1 DEF StageInv
<1>6. SegmentEnd' = SegmentEnd /\ Segment' = Segment
  BY <1>t, <1>1, SegmentKept DEF StageInv
<1>7. FirstUnrun' = FirstUnrun
  BY <1>1, <1>6 DEF FirstUnrun
<1>8. OrderInv'
  BY <1>t, <1>1, <1>7 DEF OrderInv, Rising, AllBelow
<1>9. AnswerInv'
  BY <1>t, <1>1 DEF AnswerInv, Unanswered
<1>10. OutcomeInv'
  BY <1>t, <1>1, <1>6 DEF OutcomeInv, Published, Op
<1>11. ViewInv'
  <2>1. view.present => store.applied = view'.shown \o <<>>
    BY <1>t, <1>2, <1>3 DEF ViewInv
  <2>2. \A k \in DOMAIN view.shown : k \in DOMAIN view'.shown /\ view'.shown[k] = view.shown[k]
    BY <1>2, <1>3
  <2>3. \A id \in Ids : sent[id].answer = "ok" /\ Mutates(Op(id)) /\ view.present =>
          \E k \in DOMAIN view'.shown : view'.shown[k] = id
    BY <1>t, <2>2 DEF ViewInv
  <2> QED
    BY <1>1, <1>3, <2>1, <2>3 DEF ViewInv, Op, Ids
<1> QED
  BY <1>4, <1>5, <1>8, <1>9, <1>10, <1>11 DEF IInv

(* The operations a finished segment answers: itself, or after a failure    *)
(* the rest of the group.                                                   *)
Failed == outcome.error # "none"
AnsweredIds == IF Failed THEN SubSeq(group, start, Len(group)) ELSE Segment
ResultOf(id) == IF Failed THEN outcome.error ELSE outcome.results[PositionIn(Segment, id)]

(* An answer says ok of exactly what was published.                         *)
LEMMA AnswersOfSegment ==
  ASSUME IInv, task = "answer"
  PROVE  \A id \in Range(AnsweredIds) :
           /\ id \in Ids /\ ResultOf(id) \in Answers
           /\ Published(id) => ResultOf(id) = "ok"
           /\ ResultOf(id) = "ok" /\ Mutates(Op(id)) => Published(id)
           /\ \E i \in DOMAIN group : i >= start /\ (~ Failed => i <= SegmentEnd) /\ group[i] = id
<1>t. TypeInv /\ StageInv /\ OrderInv /\ OutcomeInv
  BY DEF IInv
<1>1. /\ start \in DOMAIN group /\ group \in Seq(Ids) /\ start \in Nat /\ DOMAIN group = 1..Len(group) /\ Len(group) \in Nat
      /\ outcome \in [error : {"none", "DurabilityFailure", "Corruption"}, results : Seq(Answers)]
  BY <1>t DEF StageInv, TypeInv
<1>2. /\ SegmentEnd \in start..Len(group)
      /\ Segment \in Seq(Ids) /\ DOMAIN Segment = 1..(SegmentEnd - start + 1)
      /\ \A i \in DOMAIN Segment : start + i - 1 \in DOMAIN group /\ Segment[i] = group[start + i - 1]
  BY <1>t, <1>1, SegmentFacts
<1>3. ASSUME Failed, NEW id \in Range(AnsweredIds)
      PROVE  /\ id \in Ids /\ ResultOf(id) \in Answers /\ ResultOf(id) # "ok" /\ ~ Published(id)
             /\ \E i \in DOMAIN group : i >= start /\ group[i] = id
  <2>1. PICK i \in DOMAIN group : i >= start /\ group[i] = id
    <3>1. AnsweredIds = SubSeq(group, start, Len(group))
      BY <1>3 DEF AnsweredIds
    <3>2. DOMAIN AnsweredIds = 1..(Len(group) - start + 1)
          /\ \A k \in 1..(Len(group) - start + 1) : AnsweredIds[k] = group[start + k - 1]
      BY <1>1, <3>1
    <3>3. PICK k \in DOMAIN AnsweredIds : AnsweredIds[k] = id
      BY <1>3 DEF Range
    <3>4. start + k - 1 \in DOMAIN group /\ start + k - 1 >= start /\ group[start + k - 1] = id
      BY <1>1, <3>2, <3>3
    <3> QED
      BY <3>4
  <2>2. ResultOf(id) = outcome.error /\ outcome.error \in {"DurabilityFailure", "Corruption"}
    BY <1>1, <1>3 DEF ResultOf, Failed
  <2>3. ~ Published(id)
    <3>1. CASE i >= SegmentEnd + 1
      <4>1. \A a \in DOMAIN store.applied : store.applied[a] < group[i]
        BY <1>t, <3>1 DEF OrderInv, FirstUnrun
      <4>2. \A x \in Ids : ~ (x < x)
        BY DEF Ids
      <4>3. group[i] \in Ids
        BY <1>1
      <4> QED
        BY <2>1, <4>1, <4>2, <4>3 DEF Published
    <3>2. CASE ~ (i >= SegmentEnd + 1)
      <4>1. i - start + 1 \in DOMAIN Segment /\ start + (i - start + 1) - 1 = i
        BY <1>1, <1>2, <2>1, <3>2
      <4>2. Segment[i - start + 1] = id
        BY <1>2, <2>1, <4>1
      <4> QED
        BY <1>t, <1>3, <4>1, <4>2 DEF OutcomeInv, Failed
    <3> QED
      BY <3>1, <3>2
  <2>4. id \in Ids
    BY <1>1, <2>1
  <2> QED
    BY <2>1, <2>2, <2>3, <2>4 DEF Answers
<1>4. ASSUME ~ Failed, NEW id \in Range(AnsweredIds)
      PROVE  /\ id \in Ids /\ ResultOf(id) \in Answers
             /\ Published(id) <=> ResultOf(id) = "ok" /\ Mutates(Op(id))
             /\ \E i \in DOMAIN group : i >= start /\ i <= SegmentEnd /\ group[i] = id
  <2>1. PICK k \in DOMAIN Segment : Segment[k] = id
    BY <1>4 DEF AnsweredIds, Range
  <2>2. \A j \in DOMAIN Segment : Segment[j] = id => j = k
    <3> SUFFICES ASSUME NEW j \in DOMAIN Segment, Segment[j] = id, j # k PROVE FALSE
      OBVIOUS
    <3>1. start + j - 1 < start + k - 1 \/ start + k - 1 < start + j - 1
      BY <1>1, <1>2
    <3>2. group[start + j - 1] = id /\ group[start + k - 1] = id /\ start + j - 1 \in DOMAIN group /\ start + k - 1 \in DOMAIN group
      BY <1>2, <2>1
    <3>3. id < id
      BY <1>t, <3>1, <3>2 DEF OrderInv, Rising
    <3>4. id \in Ids
      BY <1>1, <3>2
    <3> QED
      BY <3>3, <3>4 DEF Ids
  <2>3. PositionIn(Segment, id) = k
    BY <2>1, <2>2 DEF PositionIn
  <2>4. ResultOf(id) = outcome.results[k] /\ DOMAIN outcome.results = DOMAIN Segment
    BY <1>t, <1>4, <2>3 DEF ResultOf, Failed, OutcomeInv
  <2>5. outcome.results \in Seq(Answers)
    BY <1>1
  <2>6. ResultOf(id) \in Answers
    BY <2>4, <2>5
  <2>7. Published(id) <=> Mutates(Op(id)) /\ outcome.results[k] = "ok"
    BY <1>t, <1>4, <2>1 DEF OutcomeInv, Failed
  <2>8. start + k - 1 \in DOMAIN group /\ start + k - 1 >= start /\ start + k - 1 <= SegmentEnd /\ group[start + k - 1] = id
    BY <1>1, <1>2, <2>1
  <2>9. id \in Ids
    BY <1>1, <2>8
  <2> QED
    BY <2>4, <2>6, <2>7, <2>8, <2>9
<1> QED
  BY <1>3, <1>4

(* What AnswerSegment does, in these terms.                                 *)
LEMMA AnswerShape ==
  ASSUME AnswerSegment
  PROVE  /\ task = "answer" /\ UNCHANGED <<store, tracked, view>> /\ outcome' = NoOutcome
         /\ \/ /\ task' = "stopped" /\ queue' = <<>> /\ pending' = NoId /\ group' = <<>> /\ start' = 1
               /\ sent' = AnsweredAll([id \in Range(AnsweredIds) \cup Range(queue) \cup {pending} |->
                                         IF id \in Range(AnsweredIds) THEN ResultOf(id) ELSE "dropped"])
            \/ /\ UNCHANGED <<queue, pending>>
               /\ sent' = AnsweredAll([id \in Range(AnsweredIds) |-> ResultOf(id)])
               /\ \/ task' = "receive" /\ group' = <<>> /\ start' = 1
                  \/ /\ ~ Failed /\ SegmentEnd # Len(group)
                     /\ task' = "run" /\ group' = group /\ start' = SegmentEnd + 1
<1>1. task = "answer" /\ UNCHANGED <<store, tracked, view>> /\ outcome' = NoOutcome
  BY DEF AnswerSegment, engineVars
<1>2. CASE Failed
  BY <1>1, <1>2 DEF AnswerSegment, AnsweredIds, ResultOf, Failed, NextStart
<1>3. CASE ~ Failed
  BY <1>1, <1>3 DEF AnswerSegment, AnsweredIds, ResultOf, Failed, NextStart
<1> QED
  BY <1>2, <1>3

(* Nothing queued or held back is answered with the segment, or published.  *)
LEMMA OthersWait ==
  ASSUME IInv, task = "answer"
  PROVE  /\ \A j \in DOMAIN queue : queue[j] \notin Range(AnsweredIds) /\ ~ Published(queue[j]) /\ queue[j] \in Ids
         /\ pending # NoId => pending \notin Range(AnsweredIds) /\ ~ Published(pending) /\ pending \in Ids
<1>t. TypeInv /\ OrderInv
  BY DEF IInv
<1>1. \A id \in Range(AnsweredIds) : \E i \in DOMAIN group : group[i] = id
  BY AnswersOfSegment
<1>2. \A x \in Ids : ~ (x < x)
  BY DEF Ids
<1>3. (\A j \in DOMAIN queue : queue[j] \in Ids) /\ (pending # NoId => pending \in Ids)
  BY <1>t DEF TypeInv
<1>4. pending # NoId => (\A i \in DOMAIN group : group[i] < pending) /\ (\A a \in DOMAIN store.applied : store.applied[a] < pending)
  BY <1>t, BelowOne DEF OrderInv
<1>5. \A j \in DOMAIN queue : (\A i \in DOMAIN group : group[i] < queue[j]) /\ (\A a \in DOMAIN store.applied : store.applied[a] < queue[j])
  BY <1>t DEF OrderInv, AllBelow
<1>6. ASSUME NEW x \in Ids, \A i \in DOMAIN group : group[i] < x, \A a \in DOMAIN store.applied : store.applied[a] < x
      PROVE  x \notin Range(AnsweredIds) /\ ~ Published(x)
  BY <1>1, <1>2, <1>6 DEF Published
<1> QED
  BY <1>3, <1>4, <1>5, <1>6

(* The segment is answered and the task goes on, receives again or stops.   *)
LEMMA AnswerStep == ASSUME IInv, AnswerSegment PROVE IInv'
<1>t. TypeInv /\ StageInv /\ OrderInv /\ AnswerInv
  BY DEF IInv
<1>1. task = "answer" /\ UNCHANGED <<store, tracked, view>> /\ outcome' = NoOutcome
  BY AnswerShape
<1>2. \A id \in Range(AnsweredIds) :
        /\ id \in Ids /\ ResultOf(id) \in Answers
        /\ Published(id) => ResultOf(id) = "ok"
        /\ ResultOf(id) = "ok" /\ Mutates(Op(id)) => Published(id)
        /\ \E i \in DOMAIN group : i >= start /\ (~ Failed => i <= SegmentEnd) /\ group[i] = id
  BY <1>1, AnswersOfSegment
<1>3. /\ \A j \in DOMAIN queue : queue[j] \notin Range(AnsweredIds) /\ ~ Published(queue[j]) /\ queue[j] \in Ids
      /\ pending # NoId => pending \notin Range(AnsweredIds) /\ ~ Published(pending) /\ pending \in Ids
  BY <1>1, OthersWait
<1>4. CASE /\ task' = "stopped" /\ queue' = <<>> /\ pending' = NoId /\ group' = <<>> /\ start' = 1
           /\ sent' = AnsweredAll([id \in Range(AnsweredIds) \cup Range(queue) \cup {pending} |->
                                     IF id \in Range(AnsweredIds) THEN ResultOf(id) ELSE "dropped"])
  <2> DEFINE results == [id \in Range(AnsweredIds) \cup Range(queue) \cup {pending} |->
                           IF id \in Range(AnsweredIds) THEN ResultOf(id) ELSE "dropped"]
  <2>1. \A id \in DOMAIN results : results[id] \in Answers
    BY <1>2 DEF Answers
  <2>2. ASSUME NEW id \in Ids, id \in DOMAIN results
        PROVE  /\ Published(id) => results[id] = "ok"
               /\ results[id] = "ok" /\ Mutates(Op(id)) => Published(id)
    <3>1. CASE id \in Range(AnsweredIds)
      BY <1>2, <2>2, <3>1
    <3>2. CASE id \notin Range(AnsweredIds)
      <4>1. results[id] = "dropped" /\ id # NoId
        BY <2>2, <3>2 DEF Ids, NoId
      <4>2. ~ Published(id)
        BY <1>3, <2>2, <3>2, <4>1 DEF Range
      <4> QED
        BY <4>1, <4>2
    <3> QED
      BY <3>1, <3>2
  <2>3. sent' = AnsweredAll(results)
    BY <1>4
  <2> HIDE DEF results
  <2>4. /\ sent' \in Seq([op : Operations, answer : Answers]) /\ Ids' = Ids /\ ViewInv'
        /\ \A a \in DOMAIN store.applied : sent'[store.applied[a]].answer \in {"waiting", "cancelled", "ok"}
    BY <1>1, <2>1, <2>2, <2>3, AnswersTrue
  <2>5. task' = "stopped" /\ queue' = <<>> /\ pending' = NoId /\ group' = <<>> /\ start' = 1
    BY <1>4
  <2>6. DOMAIN queue' = {}
    BY <2>5
  <2> QED
    BY <1>1, <2>4, <2>5, <2>6, GroupDone
<1>5. CASE /\ UNCHANGED <<queue, pending>> /\ sent' = AnsweredAll([id \in Range(AnsweredIds) |-> ResultOf(id)])
           /\ \/ task' = "receive" /\ group' = <<>> /\ start' = 1
              \/ ~ Failed /\ SegmentEnd # Len(group) /\ task' = "run" /\ group' = group /\ start' = SegmentEnd + 1
  <2> DEFINE results == [id \in Range(AnsweredIds) |-> ResultOf(id)]
  <2>1. DOMAIN results = Range(AnsweredIds) /\ \A id \in DOMAIN results : results[id] = ResultOf(id)
    OBVIOUS
  <2>2. sent' = AnsweredAll(results)
    BY <1>5
  <2> HIDE DEF results
  <2>3. /\ sent' \in Seq([op : Operations, answer : Answers]) /\ Ids' = Ids /\ ViewInv'
        /\ \A id \in Ids : sent'[id].op = sent[id].op
        /\ \A id \in Ids : id \notin DOMAIN results => sent'[id].answer = sent[id].answer
        /\ \A a \in DOMAIN store.applied : sent'[store.applied[a]].answer \in {"waiting", "cancelled", "ok"}
    <3>1. \A id \in DOMAIN results : results[id] \in Answers
      BY <1>2, <2>1
    <3>2. \A id \in Ids : id \in DOMAIN results /\ Published(id) => results[id] = "ok"
      BY <1>2, <2>1
    <3>3. \A id \in Ids : id \in DOMAIN results /\ results[id] = "ok" /\ Mutates(Op(id)) => Published(id)
      BY <1>2, <2>1
    <3> QED
      BY <1>1, <2>2, <3>1, <3>2, <3>3, AnswersTrue
  <2>4. /\ \A j \in DOMAIN queue' : Unanswered(queue[j])'
        /\ pending' # NoId => Unanswered(pending)'
    BY <1>t, <1>3, <1>5, <2>1, <2>3 DEF AnswerInv, Unanswered
  <2>5. CASE task' = "receive" /\ group' = <<>> /\ start' = 1
    BY <1>1, <1>5, <2>3, <2>4, <2>5, GroupDone
  <2>6. CASE ~ Failed /\ SegmentEnd # Len(group) /\ task' = "run" /\ group' = group /\ start' = SegmentEnd + 1
    <3>1. /\ start \in DOMAIN group /\ DOMAIN group = 1..Len(group) /\ Len(group) \in Nat /\ start \in Nat /\ group \in Seq(Ids)
      BY <1>t, <1>1 DEF StageInv, TypeInv
    <3>2. SegmentEnd \in start..Len(group)
      BY <1>t, <3>1, SegmentFacts
    <3>3. start' \in DOMAIN group /\ start' \in Nat /\ start' > SegmentEnd /\ start' >= start
      BY <1>t, <2>6, <3>1, NextSegment
    <3>4. TypeInv'
      <4>1. outcome' \in [error : {"none", "DurabilityFailure", "Corruption"}, results : Seq(Answers)]
        BY <1>1 DEF NoOutcome
      <4> QED
        BY <1>t, <1>1, <1>5, <2>3, <2>6, <3>3, <4>1 DEF TypeInv
    <3>5. StageInv'
      BY <1>t, <1>1, <2>6, <3>3 DEF StageInv
    <3>6. OrderInv'
      <4>1. FirstUnrun = SegmentEnd + 1 /\ FirstUnrun' = SegmentEnd + 1
        BY <1>1, <2>6 DEF FirstUnrun
      <4> QED
        BY <1>t, <1>1, <1>5, <2>6, <4>1 DEF OrderInv, Rising, AllBelow
    <3>7. AnswerInv'
      <4>1. \A i \in DOMAIN group : i >= start' => i >= start /\ group[i] \notin DOMAIN results /\ group[i] \in Ids
        <5> TAKE i \in DOMAIN group
        <5> HAVE i >= start'
        <5>1. i >= start /\ group[i] \in Ids /\ i > SegmentEnd
          BY <3>1, <3>2, <3>3
        <5>2. \A k \in DOMAIN group : k <= SegmentEnd => group[k] < group[i]
          <6>1. \A k \in DOMAIN group : k < i => group[k] < group[i]
            BY <1>t DEF OrderInv, Rising
          <6>2. \A k \in DOMAIN group : k <= SegmentEnd => k < i
            BY <3>1, <3>2, <5>1
          <6> QED
            BY <6>1, <6>2
        <5>3. \A x \in Ids : ~ (x < x)
          BY DEF Ids
        <5> QED
          BY <1>2, <2>1, <2>6, <5>1, <5>2, <5>3
      <4>2. \A i \in DOMAIN group : i >= start' => Unanswered(group[i])'
        BY <1>t, <2>3, <2>6, <4>1 DEF AnswerInv, Unanswered
      <4> QED
        BY <1>1, <1>5, <2>3, <2>4, <2>6, <4>2 DEF AnswerInv, Unanswered
    <3>8. OutcomeInv'
      BY <2>6 DEF OutcomeInv
    <3> QED
      BY <2>3, <3>4, <3>5, <3>6, <3>7, <3>8 DEF IInv
  <2> QED
    BY <1>5, <2>5, <2>6
<1> QED
  BY <1>4, <1>5, AnswerShape

-----------------------------------------------------------------------------
(* The theorems.                                                            *)

(* start_with_config: nothing was sent or published.                        *)
LEMMA InitInv == Init => IInv
<1> SUFFICES ASSUME Init PROVE IInv
  OBVIOUS
<1>1. \A S : <<>> \in Seq(S)
  OBVIOUS
<1>2. TypeInv
  <2>1. outcome \in [error : {"none", "DurabilityFailure", "Corruption"}, results : Seq(Answers)]
    <3>1. outcome = [error |-> "none", results |-> <<>>]
      BY DEF Init, NoOutcome
    <3> QED
      BY <1>1, <3>1
  <2>2. store \in [applied : Seq(Ids), broken : BOOLEAN]
    <3>1. store = [applied |-> <<>>, broken |-> FALSE]
      BY DEF Init
    <3> QED
      BY <1>1, <3>1
  <2>3. view \in [present : BOOLEAN, broken : BOOLEAN, shown : Seq(Ids)]
    <3>1. PICK present \in BOOLEAN : view = [present |-> present, broken |-> FALSE, shown |-> <<>>]
      BY DEF Init
    <3> QED
      BY <1>1, <3>1
  <2> QED
    BY <1>1, <2>1, <2>2, <2>3 DEF Init, TypeInv
<1>3. StageInv /\ OrderInv /\ AnswerInv /\ OutcomeInv
  <2>1. /\ queue = <<>> /\ group = <<>> /\ pending = NoId /\ store.applied = <<>> /\ tracked = <<>>
        /\ task = "receive" /\ start = 1
    BY DEF Init
  <2>2. DOMAIN queue = {} /\ DOMAIN group = {} /\ DOMAIN store.applied = {}
    BY <2>1
  <2>3. StageInv /\ AnswerInv /\ OutcomeInv
    BY <2>1, <2>2 DEF StageInv, AnswerInv, OutcomeInv
  <2>4. Rising(queue) /\ Rising(group) /\ Rising(store.applied) /\ AllBelow(group, queue) /\ AllBelow(store.applied, queue)
    BY <2>2 DEF Rising, AllBelow
  <2> QED
    BY <2>1, <2>2, <2>3, <2>4 DEF OrderInv
<1>4. ViewInv
  <2>1. Ids = {}
    BY DEF Init, Ids
  <2> QED
    BY <2>1 DEF Init, ViewInv
<1> QED
  BY <1>2, <1>3, <1>4 DEF IInv

(* Every step keeps the invariant.                                          *)
LEMMA NextInv == IInv /\ [Next]_vars => IInv'
<1> SUFFICES ASSUME IInv, [Next]_vars PROVE IInv'
  OBVIOUS
<1>1. ASSUME UNCHANGED <<sent, queue, task, group, pending, start, outcome, store, tracked, view>> PROVE IInv'
  <2>t. TypeInv /\ StageInv /\ OrderInv /\ AnswerInv /\ OutcomeInv /\ ViewInv
    BY DEF IInv
  <2>1. Ids' = Ids /\ SegmentEnd' = SegmentEnd /\ Segment' = Segment
    BY <1>1 DEF Ids, SegmentEnd, Segment, Op
  <2>2. TypeInv' /\ StageInv'
    BY <1>1, <2>t, <2>1 DEF TypeInv, StageInv
  <2>3. AnswerInv' /\ ViewInv'
    BY <1>1, <2>t, <2>1 DEF AnswerInv, ViewInv, Unanswered, Op
  <2>4. OrderInv'
    BY <1>1, <2>t, <2>1 DEF OrderInv, FirstUnrun, Rising, AllBelow
  <2>5. OutcomeInv'
    BY <1>1, <2>t, <2>1 DEF OutcomeInv, Published, Op
  <2> QED
    BY <2>2, <2>3, <2>4, <2>5 DEF IInv
<1>2. DOMAIN sent = Ids
  BY DEF IInv, TypeInv, Ids
<1>3. CASE UNCHANGED vars
  BY <1>1, <1>3 DEF vars, callerVars, taskVars, engineVars
<1>4. ASSUME NEW c \in Closers, shutdown(c) \/ ShutdownReturn(c) PROVE IInv'
  BY <1>1, <1>4 DEF shutdown, ShutdownReturn, callerVars, taskVars, engineVars
<1>5. CASE TaskStep
  BY <1>5, CloseStep, FirstStep, CollectStep, ProcessStep, PublishStep, AnswerStep DEF TaskStep
<1> QED
  BY <1>2, <1>3, <1>4, <1>5, ExecuteStep, CancelStep DEF Next

(* The view shows a prefix of what the engine published and lags only while *)
(* a segment is being published; a write answered ok is in the view later   *)
(* reads see (publish_read_updates comes before the answers).               *)
THEOREM ViewCommitted == Spec => []ViewIsCommitted
<1>1. IInv => ViewIsCommitted
  <2> SUFFICES ASSUME IInv PROVE ViewIsCommitted
    OBVIOUS
  <2>1. DOMAIN sent = Ids
    BY DEF IInv, TypeInv, Ids
  <2>2. view.present \in BOOLEAN
    BY DEF IInv, TypeInv
  <2> QED
    BY <2>1, <2>2 DEF IInv, StageInv, ViewInv, ViewIsCommitted, Range
<1> QED
  BY <1>1, InitInv, NextInv, PTL DEF Spec

(* Mutations take effect in the order they were sent, each at most once,    *)
(* however they are queued, held back, grouped, refused or failed.          *)
THEOREM InOrder == Spec => []AppliedInOrder
<1>1. IInv => AppliedInOrder
  BY DEF IInv, OrderInv, Rising, AppliedInOrder
<1> QED
  BY <1>1, InitInv, NextInv, PTL DEF Spec

(* What was refused, in conflict, failed or dropped was not published and   *)
(* never will be.                                                           *)
THEOREM RefusedIsFinal == Spec => []RefusedNotApplied
<1>1. IInv => RefusedNotApplied
  BY DEF IInv, AnswerInv, RefusedNotApplied, Range
<1> QED
  BY <1>1, InitInv, NextInv, PTL DEF Spec

=============================================================================
