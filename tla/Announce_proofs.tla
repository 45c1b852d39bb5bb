-------------------------- MODULE Announce_proofs --------------------------
(***************************************************************************)
(* Proofs about the boot/join sequence and the alarm batch, for every node, *)
(* queue depth, page size and batch limit: whatever the sequence holds back *)
(* has somebody who lets it go, every edge is accounted for, and a release  *)
(* lets the alarms go before the report.                                    *)
(***************************************************************************)
EXTENDS Announce, SequenceTheorems, TLAPS

-----------------------------------------------------------------------------
(* The system work queue: each item at most once *)

WorkList(q) == q \in Seq(SysItems) /\ IsInjective(q)

\* A queued item is added at the end, unless it is there.
LEMMA EnqueuedAdds ==
  ASSUME NEW q, WorkList(q), NEW i \in SysItems
  PROVE  /\ WorkList(Enqueued(q, i))
         /\ ToSet(Enqueued(q, i)) = ToSet(q) \union {i}
         /\ i \notin ToSet(q) =>
              /\ Enqueued(q, i)[Len(q) + 1] = i /\ Len(q) + 1 \in DOMAIN Enqueued(q, i)
              /\ \A k \in DOMAIN q : /\ k < Len(q) + 1 /\ k \in DOMAIN Enqueued(q, i)
                                     /\ Enqueued(q, i)[k] = q[k]
<1>1. CASE i \in ToSet(q)
  BY <1>1 DEF Enqueued
<1>2. CASE i \notin ToSet(q)
  <2> DEFINE p == Append(q, i)
             n == Len(q)
  <2>1. /\ p \in Seq(SysItems) /\ Len(p) = n + 1 /\ p[n + 1] = i /\ n \in Nat
        /\ \A k \in 1..n : p[k] = q[k]
    BY AppendProperties DEF WorkList
  <2>2. DOMAIN p = 1..n + 1 /\ DOMAIN q = 1..n
    BY <2>1 DEF WorkList
  <2>3. \A k \in 1..n : q[k] # i
    BY <1>2, <2>2 DEF ToSet
  <2>4. Enqueued(q, i) = p
    BY <1>2 DEF Enqueued
  <2> HIDE DEF p
  <2>5. \A k, l \in 1..n : q[k] = q[l] => k = l
    BY <2>2 DEF WorkList, IsInjective
  <2>6. IsInjective(p)
    <3> SUFFICES ASSUME NEW k \in 1..n + 1, NEW l \in 1..n + 1, p[k] = p[l] PROVE k = l
      BY <2>2 DEF IsInjective
    <3>1. (k \in 1..n \/ k = n + 1) /\ (l \in 1..n \/ l = n + 1)
      BY <2>1
    <3> QED BY <2>1, <2>3, <2>5, <3>1
  <2>7. ToSet(p) = ToSet(q) \union {i}
    <3>1. \A k \in 1..n + 1 : k \in 1..n \/ k = n + 1
      BY <2>1
    <3>2. \A k \in 1..n : k \in 1..n + 1 /\ k < n + 1
      BY <2>1
    <3>3. n + 1 \in 1..n + 1
      BY <2>1
    <3> HIDE DEF n
    <3> QED BY <2>1, <2>2, <3>1, <3>2, <3>3 DEF ToSet
  <2>8. \A k \in DOMAIN q : k < n + 1 /\ k \in DOMAIN p /\ p[k] = q[k]
    BY <2>1, <2>2
  <2> QED BY <2>1, <2>2, <2>4, <2>6, <2>7, <2>8 DEF WorkList
<1> QED BY <1>1, <1>2

\* The item that runs leaves the queue.
LEMMA TailTakes ==
  ASSUME NEW q, WorkList(q), q # <<>>
  PROVE  /\ WorkList(Tail(q)) /\ Head(q) \in SysItems
         /\ ToSet(Tail(q)) = ToSet(q) \ {Head(q)} /\ Head(q) \in ToSet(q)
<1> DEFINE p == Tail(q)
           n == Len(p)
<1>1. /\ p \in Seq(SysItems) /\ Len(q) = n + 1 /\ n \in Nat /\ Head(q) \in SysItems
      /\ \A k \in 1..n : p[k] = q[k + 1]
  BY HeadTailProperties DEF WorkList
<1>2. DOMAIN p = 1..n /\ DOMAIN q = 1..n + 1 /\ Head(q) = q[1]
  BY <1>1 DEF WorkList
<1> HIDE DEF p
<1>3. \A k, l \in 1..n + 1 : q[k] = q[l] => k = l
  BY <1>2 DEF WorkList, IsInjective
<1>4. \A k \in 1..n : k + 1 \in 1..n + 1 /\ k + 1 # 1
  BY <1>1
<1>5. IsInjective(p)
  <2> SUFFICES ASSUME NEW k \in 1..n, NEW l \in 1..n, p[k] = p[l] PROVE k = l
    BY <1>2 DEF IsInjective
  <2>1. k + 1 = l + 1
    BY <1>1, <1>3, <1>4
  <2> QED BY <2>1
<1>6. ToSet(p) \subseteq ToSet(q) \ {Head(q)}
  <2>1. \A k \in 1..n : p[k] \in ToSet(q) /\ p[k] # q[1]
    BY <1>1, <1>2, <1>3, <1>4 DEF ToSet
  <2> QED BY <1>2, <2>1 DEF ToSet
<1>7. ToSet(q) \ {Head(q)} \subseteq ToSet(p)
  <2>1. \A k \in 1..n + 1 : k # 1 => k - 1 \in 1..n /\ k - 1 + 1 = k
    BY <1>1
  <2>2. \A k \in 1..n + 1 : k # 1 => p[k - 1] = q[k]
    BY <1>1, <2>1
  <2> QED BY <1>2, <2>1, <2>2 DEF ToSet
<1>8. Head(q) \in ToSet(q)
  <2>1. 1 \in 1..n + 1
    BY <1>1
  <2> QED BY <1>2, <2>1 DEF ToSet
<1> QED BY <1>1, <1>5, <1>6, <1>7, <1>8 DEF WorkList, p

\* k_work_cancel_delayable() takes out its item and no other.
LEMMA CancelTakes ==
  ASSUME NEW s, WorkList(s), NEW w \in SysItems
  PROVE  WorkList(RemoveFirst(s, w)) /\ ToSet(RemoveFirst(s, w)) = ToSet(s) \ {w}
<1>0. DOMAIN s = 1..Len(s) /\ Len(s) \in Nat /\ s \in Seq(SysItems)
  BY DEF WorkList
<1>1. CASE ~\E i \in 1..Len(s) : s[i] = w
  <2>1. w \notin ToSet(s)
    BY <1>0, <1>1 DEF ToSet
  <2>2. RemoveFirst(s, w) = s
    BY <1>1 DEF RemoveFirst
  <2> QED BY <2>1, <2>2
<1>2. ASSUME NEW k \in 1..Len(s), s[k] = w
      PROVE  WorkList(RemoveFirst(s, w)) /\ ToSet(RemoveFirst(s, w)) = ToSet(s) \ {w}
  <2> DEFINE n == Len(s)
             a == SubSeq(s, 1, k - 1)
             b == SubSeq(s, k + 1, n)
             q == a \o b
  <2>1. \A i, j \in 1..n : s[i] = s[j] => i = j
    BY <1>0 DEF WorkList, IsInjective
  <2>2. {i \in 1..n : s[i] = w} = {k}
    BY <1>2, <2>1
  <2>3. RemoveFirst(s, w) = q
    <3>1. SelectInSeq(s, LAMBDA v : v = w) = k
      BY <1>2, <1>0, <2>2 DEF SelectInSeq, Min
    <3> QED BY <1>2, <3>1 DEF RemoveFirst, RemoveAt
  <2>5. /\ a \in Seq(SysItems) /\ Len(a) = k - 1 /\ \A i \in 1..k - 1 : a[i] = s[i]
    <3>1. \A i \in 1..k - 1 : s[i] \in SysItems
      BY <1>0
    <3>2. /\ a \in Seq(SysItems) /\ Len(a) = IF 1 <= k - 1 THEN k - 1 - 1 + 1 ELSE 0
          /\ \A i \in 1..k - 1 - 1 + 1 : a[i] = s[1 + i - 1]
      BY <3>1, SubSeqProperties
    <3> QED BY <3>2
  <2>6. /\ b \in Seq(SysItems) /\ Len(b) = n - k /\ \A i \in 1..n - k : b[i] = s[k + i]
    <3>1. \A i \in k + 1..n : s[i] \in SysItems
      BY <1>0
    <3>2. /\ b \in Seq(SysItems) /\ Len(b) = IF k + 1 <= n THEN n - (k + 1) + 1 ELSE 0
          /\ \A i \in 1..n - (k + 1) + 1 : b[i] = s[k + 1 + i - 1]
      BY <1>0, <3>1, SubSeqProperties
    <3>3. n \in Int /\ k \in Int /\ k <= n
      BY <1>0
    <3> HIDE DEF b, n
    <3>4. Len(b) = n - k
      <4>1. CASE k + 1 <= n
        BY <3>2, <3>3, <4>1
      <4>2. CASE k = n
        BY <3>2, <3>3, <4>2
      <4> QED BY <3>3, <4>1, <4>2
    <3>5. \A i \in 1..n - k : b[i] = s[k + i]
      <4> SUFFICES ASSUME NEW i \in 1..n - k PROVE b[i] = s[k + i]
        OBVIOUS
      <4>1. i \in 1..n - (k + 1) + 1 /\ k + 1 + i - 1 = k + i
        BY <3>3
      <4>2. b[i] = s[k + 1 + i - 1]
        BY <3>2, <4>1
      <4> QED BY <4>1, <4>2
    <3> QED BY <3>2, <3>4, <3>5
  <2> HIDE DEF a, b
  <2>7. /\ q \in Seq(SysItems) /\ Len(q) = n - 1
        /\ \A i \in 1..n - 1 : q[i] = IF i < k THEN s[i] ELSE s[i + 1]
    <3>1. /\ q \in Seq(SysItems) /\ Len(q) = Len(a) + Len(b)
          /\ \A i \in 1..Len(a) + Len(b) : q[i] = IF i <= Len(a) THEN a[i] ELSE b[i - Len(a)]
      BY <2>5, <2>6, ConcatProperties
    <3> HIDE DEF q
    <3>2. Len(a) + Len(b) = n - 1
      BY <1>0, <2>5, <2>6
    <3>3. \A i \in 1..n - 1 : q[i] = IF i <= k - 1 THEN a[i] ELSE b[i - (k - 1)]
      BY <2>5, <3>1, <3>2
    <3>4. \A i \in 1..n - 1 : q[i] = IF i < k THEN s[i] ELSE s[i + 1]
      BY <1>0, <2>5, <2>6, <3>3
    <3> QED BY <3>1, <3>2, <3>4
  <2> HIDE DEF q
  <2>8. DOMAIN q = 1..n - 1
    BY <1>0, <2>7
  <2>9. IsInjective(q)
    <3> SUFFICES ASSUME NEW i \in 1..n - 1, NEW j \in 1..n - 1, q[i] = q[j] PROVE i = j
      BY <2>8 DEF IsInjective
    <3> QED BY <1>0, <2>1, <2>7
  <2>10. ToSet(q) \subseteq ToSet(s) \ {w}
    <3>1. \A i \in 1..n - 1 : \E j \in 1..n : q[i] = s[j] /\ s[j] # w
      BY <1>0, <1>2, <2>1, <2>7
    <3> QED BY <1>0, <2>8, <3>1 DEF ToSet
  <2>11. ToSet(s) \ {w} \subseteq ToSet(q)
    <3>1. ASSUME NEW i \in 1..n, s[i] # w PROVE s[i] \in ToSet(q)
      <4>1. CASE i < k
        <5>1. i \in 1..n - 1 /\ q[i] = s[i]
          BY <1>0, <2>7, <4>1
        <5> QED BY <2>8, <5>1 DEF ToSet
      <4>2. CASE i > k
        <5>1. i - 1 \in 1..n - 1 /\ q[i - 1] = s[i]
          BY <1>0, <2>7, <4>2
        <5> QED BY <2>8, <5>1 DEF ToSet
      <4> QED BY <1>2, <1>0, <3>1, <4>1, <4>2
    <3> QED BY <1>0, <3>1 DEF ToSet
  <2> QED BY <2>3, <2>7, <2>9, <2>10, <2>11 DEF WorkList
<1> QED BY <1>1, <1>2

-----------------------------------------------------------------------------
(* The batch *)

BatchRecord ==
  [n : 0..BatchMax, total : Nat, held : BOOLEAN, open : BOOLEAN, told : Nat, silent : Nat]
BatchSum(b) == b.told + b.silent + b.total
CountsFit(b) == b.n <= b.total /\ (b.n = 0 => b.total = 0)
WindowFits(b) == b.open <=> b.n > 0

LEMMA BatchConstants ==
  /\ BatchMax \in Nat /\ BatchMax > 0
  /\ AlarmDepth \in Nat /\ AlarmDepth > 0
  /\ PageEvents \in Nat /\ PageEvents > 0
BY BatchAssumption

\* A batch that accounts for the edges is a batch of that many edges.
LEMMA BatchTyped ==
  ASSUME NEW e \in Nat
  PROVE  \A b : b \in BatchType(e) /\ BatchSum(b) = e <=> b \in BatchRecord /\ BatchSum(b) = e
<1> SUFFICES ASSUME NEW b, BatchSum(b) = e PROVE b \in BatchType(e) <=> b \in BatchRecord
  OBVIOUS
<1>1. b \in BatchType(e) => b \in BatchRecord
  BY DEF BatchType, BatchRecord
<1>2. ASSUME b \in BatchRecord PROVE b \in BatchType(e)
  <2>1. b.told \in 0..e /\ b.silent \in 0..e /\ b.total \in 0..e
    BY <1>2 DEF BatchSum, BatchRecord
  <2> QED BY <1>2, <2>1 DEF BatchType, BatchRecord
<1> QED BY <1>1, <1>2

\* A batch is reported or kept whole: no edge is lost from the sums, and what is left
\* over waits for a queue that this flush has filled.
LEMMA ReportedFits ==
  ASSUME NEW b \in BatchRecord, CountsFit(b), b.n > 0, NEW l \in Layouts(b.n)
  PROVE  LET r == Reported(b, l)
         IN /\ r \in BatchRecord /\ BatchSum(r) = BatchSum(b) /\ CountsFit(r) /\ WindowFits(r)
            /\ r.n > 0 => r.held /\ l.pages = AlarmDepth
<1> DEFINE left == IF l.skipped THEN 0 ELSE b.n - l.laid
           total == b.total - left
           r == Reported(b, l)
<1>1. /\ b.n \in Nat /\ b.n <= BatchMax /\ b.total \in Nat /\ b.told \in Nat /\ b.silent \in Nat
  BY BatchConstants DEF BatchRecord
<1>2. /\ l.laid \in 0..b.n /\ l.pages \in 0..AlarmDepth /\ l.skipped \in BOOLEAN
      /\ l.laid < b.n => l.skipped \/ l.pages = AlarmDepth
  BY DEF Layouts
<1>3. left \in Nat /\ left <= b.n
  BY <1>1, <1>2
<1>4. total \in Nat /\ total + left = b.total
  BY <1>1, <1>3 DEF CountsFit
<1>5. left > 0 => l.pages = AlarmDepth
  BY <1>1, <1>2
<1>6. left \in 0..BatchMax
  BY <1>1, <1>3, BatchConstants
<1> DEFINE said == IF l.pages > 0 THEN [b EXCEPT !.told = @ + total]
                                  ELSE [b EXCEPT !.silent = @ + total]
<1>7. /\ said \in BatchRecord
      /\ said.told + said.silent = b.told + b.silent + total
  <2> HIDE DEF total
  <2>1. CASE l.pages > 0
    BY <1>1, <1>4, <2>1 DEF BatchRecord
  <2>2. CASE ~(l.pages > 0)
    BY <1>1, <1>4, <2>2 DEF BatchRecord
  <2> QED BY <2>1, <2>2
<1>8. r = IF left > 0
            THEN [said EXCEPT !.n = left, !.total = left, !.held = TRUE, !.open = TRUE]
            ELSE [said EXCEPT !.n = 0, !.total = 0, !.held = FALSE, !.open = FALSE]
  BY DEF Reported, TotalOf
<1> HIDE DEF r, left, said
<1>9. /\ r \in BatchRecord /\ r.told = said.told /\ r.silent = said.silent
      /\ r.n = left /\ r.total = left
      /\ left > 0 => r.held = TRUE /\ r.open = TRUE
      /\ left = 0 => r.open = FALSE
  <2>1. CASE left > 0
    <3>1. r = [said EXCEPT !.n = left, !.total = left, !.held = TRUE, !.open = TRUE]
      BY <1>8, <2>1
    <3>2. left # 0
      BY <2>1
    <3> QED BY <1>3, <1>6, <1>7, <3>1, <3>2 DEF BatchRecord
  <2>2. CASE ~(left > 0)
    <3>1. r = [said EXCEPT !.n = 0, !.total = 0, !.held = FALSE, !.open = FALSE]
      BY <1>8, <2>2
    <3>2. left = 0
      BY <1>3, <2>2
    <3> QED BY <1>6, <1>7, <2>2, <3>1, <3>2 DEF BatchRecord
  <2> QED BY <2>1, <2>2
<1> HIDE DEF total
<1>10. said.told \in Nat /\ said.silent \in Nat
  BY <1>7 DEF BatchRecord
<1>11. BatchSum(r) = BatchSum(b)
  BY <1>1, <1>3, <1>4, <1>7, <1>9, <1>10 DEF BatchSum
<1>12. CountsFit(r) /\ WindowFits(r)
  BY <1>3, <1>9 DEF CountsFit, WindowFits
<1>13. r.n > 0 => r.held /\ l.pages = AlarmDepth
  BY <1>5, <1>9
<1> QED BY <1>9, <1>11, <1>12, <1>13 DEF r

\* What alarm_batch_flush() does, for whoever calls it: the sums stay, the pages fit the
\* queue, and what stays in the batch is held for the sequence or for room in the queue.
LEMMA FlushesFit ==
  ASSUME NEW b \in BatchRecord, CountsFit(b), NEW hold, NEW room \in 0..AlarmDepth,
         NEW f \in Flushes(b, hold, room)
  PROVE  /\ f.batch \in BatchRecord /\ BatchSum(f.batch) = BatchSum(b) /\ CountsFit(f.batch)
         /\ WindowFits(b) => WindowFits(f.batch)
         /\ f.pages \in 0..room /\ f.timer \in BOOLEAN
         /\ f.batch.n > 0 => /\ f.batch.held
                             /\ hold # "none" \/ AlarmDepth - room + f.pages > 0
<1>0. room \in Nat /\ 0 \in 0..room
  BY BatchConstants
<1>1. b.n \in Nat /\ b.total \in Nat /\ b.told \in Nat /\ b.silent \in Nat
  BY BatchConstants DEF BatchRecord
<1>2. CASE b.n = 0
  <2>1. f = [batch |-> [b EXCEPT !.open = FALSE, !.total = 0], pages |-> 0, timer |-> FALSE]
    BY <1>2 DEF Flushes
  <2>2. /\ f.batch \in BatchRecord /\ f.batch.n = 0 /\ f.batch.total = 0 /\ f.batch.open = FALSE
        /\ f.batch.told = b.told /\ f.batch.silent = b.silent
    BY <1>2, <2>1 DEF BatchRecord
  <2>3. b.total = 0
    BY <1>2 DEF CountsFit
  <2>4. f.pages = 0 /\ f.timer = FALSE
    BY <2>1
  <2>5. BatchSum(f.batch) = BatchSum(b)
    BY <1>1, <2>2, <2>3 DEF BatchSum
  <2>6. CountsFit(f.batch) /\ WindowFits(f.batch) /\ ~(f.batch.n > 0)
    BY <2>2 DEF CountsFit, WindowFits
  <2>7. f.pages \in 0..room /\ f.timer \in BOOLEAN
    BY <1>0, <2>4
  <2> QED BY <2>2, <2>5, <2>6, <2>7
<1>3. b.n > 0 => Kept(b) \in BatchRecord /\ BatchSum(Kept(b)) = BatchSum(b)
        /\ CountsFit(Kept(b)) /\ WindowFits(Kept(b)) /\ Kept(b).held
  <2>1. /\ Kept(b) \in BatchRecord /\ Kept(b).n = b.n /\ Kept(b).total = b.total
        /\ Kept(b).told = b.told /\ Kept(b).silent = b.silent
        /\ Kept(b).held = TRUE /\ Kept(b).open = TRUE
    BY DEF Kept, BatchRecord
  <2> QED BY <1>1, <2>1 DEF BatchSum, CountsFit, WindowFits
<1>4. CASE b.n > 0 /\ hold # "none"
  <2>1. f = [batch |-> Kept(b), pages |-> 0, timer |-> hold = "wait"]
    BY <1>4 DEF Flushes
  <2> QED BY <1>3, <1>4, <2>1
<1>5. CASE b.n > 0 /\ hold = "none"
  <2>1. PICK l \in Layouts(b.n) :
          f = [batch |-> IF MustWait(l, room) THEN Kept(b) ELSE Reported(b, l),
               pages |-> IF MustWait(l, room) THEN 0
                         ELSE IF l.pages < room THEN l.pages ELSE room,
               timer |-> FALSE]
    BY <1>5 DEF Flushes
  <2>2. l.pages \in 0..AlarmDepth
    BY DEF Layouts
  <2>3. CASE MustWait(l, room)
    <3>1. AlarmDepth - room > 0
      BY <2>3, BatchConstants DEF MustWait
    <3>2. f = [batch |-> Kept(b), pages |-> 0, timer |-> FALSE]
      BY <2>1, <2>3
    <3>3. f.batch = Kept(b) /\ f.pages = 0 /\ f.timer = FALSE
      BY <3>2
    <3>4. f.pages \in 0..room /\ f.timer \in BOOLEAN
      BY <1>0, <3>3
    <3>5. AlarmDepth - room + f.pages > 0
      BY <1>0, <3>1, <3>3, BatchConstants
    <3> QED BY <1>3, <1>5, <3>3, <3>4, <3>5
  <2>4. CASE ~MustWait(l, room)
    <3>1. f = [batch |-> Reported(b, l), pages |-> IF l.pages < room THEN l.pages ELSE room,
               timer |-> FALSE]
      BY <2>1, <2>4
    <3>2. f.pages \in 0..room
      BY <2>2, <3>1
    <3>3. l.pages = AlarmDepth => AlarmDepth - room + f.pages > 0
      BY <2>2, <3>1, BatchConstants
    <3> QED BY <1>5, <3>1, <3>2, <3>3, ReportedFits
  <2> QED BY <2>3, <2>4
<1> QED BY <1>1, <1>2, <1>4, <1>5

LEMMA AddedFits ==
  ASSUME NEW b \in BatchRecord, CountsFit(b)
  PROVE  /\ Added(b) \in BatchRecord /\ BatchSum(Added(b)) = BatchSum(b) + 1
         /\ CountsFit(Added(b)) /\ Added(b).n > 0
         /\ Added(b).held = b.held /\ Added(b).open = b.open
<1>1. /\ b.n \in 0..BatchMax /\ b.total \in Nat /\ b.told \in Nat /\ b.silent \in Nat
  BY DEF BatchRecord
<1>2. (IF b.n < BatchMax THEN b.n + 1 ELSE b.n) \in 1..BatchMax
  BY <1>1, BatchConstants
<1>3. /\ Added(b) \in BatchRecord /\ Added(b).total = b.total + 1
      /\ Added(b).n = IF b.n < BatchMax THEN b.n + 1 ELSE b.n
      /\ Added(b).told = b.told /\ Added(b).silent = b.silent
      /\ Added(b).held = b.held /\ Added(b).open = b.open
  <2> DEFINE m == IF b.n < BatchMax THEN b.n + 1 ELSE b.n
  <2>1. m \in 0..BatchMax /\ b.total + 1 \in Nat
    BY <1>1, <1>2, BatchConstants
  <2>2. Added(b) = [b EXCEPT !.total = b.total + 1, !.n = m]
    BY DEF Added
  <2> HIDE DEF m
  <2>3. /\ Added(b) \in BatchRecord /\ Added(b).total = b.total + 1 /\ Added(b).n = m
        /\ Added(b).told = b.told /\ Added(b).silent = b.silent
        /\ Added(b).held = b.held /\ Added(b).open = b.open
    BY <1>1, <2>1, <2>2 DEF BatchRecord
  <2> QED BY <2>3 DEF m
<1>4. CountsFit(Added(b)) /\ Added(b).n > 0
  BY <1>1, <1>3, BatchConstants DEF CountsFit
<1> QED BY <1>1, <1>3, <1>4 DEF BatchSum

\* An edge is counted once, into an open window or into one it opens.
LEMMA CollectedFits ==
  ASSUME NEW b \in BatchRecord, CountsFit(b), WindowFits(b)
  PROVE  LET c == Collected(b)
         IN /\ c \in BatchRecord /\ BatchSum(c) = BatchSum(b) + 1 /\ CountsFit(c) /\ WindowFits(c)
            /\ c.held = b.held /\ c.n > 0
<1> DEFINE o == IF Opens(b) THEN [b EXCEPT !.open = TRUE, !.total = 0, !.n = 0] ELSE b
<1>1. /\ b.n \in 0..BatchMax /\ b.total \in Nat /\ b.open \in BOOLEAN
      /\ ~b.open => b.n = 0 /\ b.total = 0
  BY DEF BatchRecord, WindowFits, CountsFit
<1>2. /\ o \in BatchRecord /\ o.n = b.n /\ o.total = b.total /\ o.held = b.held /\ o.open
      /\ o.told = b.told /\ o.silent = b.silent
  <2>1. CASE b.open
    BY <2>1 DEF Opens
  <2>2. CASE ~b.open
    BY <1>1, <2>2, BatchConstants DEF Opens, BatchRecord
  <2> QED BY <2>1, <2>2
<1> HIDE DEF o
<1>3. CountsFit(o) /\ BatchSum(o) = BatchSum(b)
  BY <1>2 DEF CountsFit, BatchSum
<1>4. Collected(b) = Added(o)
  BY DEF Collected, o
<1> QED BY <1>2, <1>3, <1>4, AddedFits DEF WindowFits

\* So it is without a rate limit, where the window does not count.
LEMMA CollectedAloneFits ==
  ASSUME NEW b \in BatchRecord, CountsFit(b)
  PROVE  LET c == CollectedAlone(b)
         IN c \in BatchRecord /\ BatchSum(c) = BatchSum(b) + 1 /\ CountsFit(c)
<1> DEFINE o == IF b.n = 0 THEN [b EXCEPT !.total = 0] ELSE b
<1>1. b.n = 0 => b.total = 0
  BY DEF CountsFit
<1>2. /\ o \in BatchRecord /\ o.n = b.n /\ o.total = b.total
      /\ o.told = b.told /\ o.silent = b.silent
  BY <1>1 DEF BatchRecord
<1> HIDE DEF o
<1>3. CountsFit(o) /\ BatchSum(o) = BatchSum(b)
  BY <1>2 DEF CountsFit, BatchSum
<1>4. CollectedAlone(b) = Added(o)
  BY DEF CollectedAlone, o
<1> QED BY <1>2, <1>3, <1>4, AddedFits

-----------------------------------------------------------------------------
(* The inductive invariant *)

\* The batch's counts: what the window has seen covers what it collected, and a window
\* is open exactly while there is something in it (m_window_open is only kept with a
\* rate limit).
BatchSound ==
  /\ batch.n <= batch.total
  /\ batch.n = 0 => batch.total = 0
  /\ setup.limit => (batch.open <=> batch.n > 0)

\* A report thread that saw the sequence closed leaves its mark to it: what ends the
\* sequence afterwards takes the mark along.
SeenIsReleased ==
  report.pc = 3 /\ report.saw /\ held => closed \/ radio = "kick" \/ Pending("jitter")

AnnounceProofInv == AnnounceInv /\ BatchSound /\ SeenIsReleased

Items == SysItems \union RadioItems
WorksSound == armed \subseteq Items /\ WorkList(swq) /\ rwq \subseteq RadioItems

DataTyped ==
  /\ setup \in Setups
  /\ link \in {"up", "down"}
  /\ bits \subseteq Bits /\ spreading \in BOOLEAN /\ closed \in BOOLEAN /\ held \in BOOLEAN
  /\ stream \in 0..setup.pages
  /\ answers \in Seq(Tags) /\ Len(answers) <= AnswerDepth
  /\ alarms \in 0..AlarmDepth /\ tlm \in BOOLEAN
  /\ radio \in {"idle", "settings", "end", "kick"}
  /\ report \in [pc : 0..3, saw : BOOLEAN]
  /\ made \in [edges : 0..setup.edges, reports : 0..setup.reports,
               answers : 0..setup.answers, drops : 0..setup.drops]

Counts == batch \in BatchRecord /\ EdgesAccounted /\ BatchSound

Promises ==
  ClosedHasDeadline /\ HeldIsReleased /\ BatchAwaited /\ AnnouncesAgain /\ SeenIsReleased

LEMMA SetupIsNumbers ==
  ASSUME DataTyped
  PROVE  /\ setup.pages \in Nat /\ setup.edges \in Nat /\ setup.reports \in Nat
         /\ setup.answers \in Nat /\ setup.drops \in Nat
         /\ AnswerDepth \in Nat /\ AnswerDepth > 1
         /\ made.edges \in Nat /\ made.reports \in Nat /\ made.answers \in Nat
         /\ made.drops \in Nat
<1>1. setup \in [limit : BOOLEAN, period : BOOLEAN, pages : Nat, edges : Nat, reports : Nat,
                 answers : Nat, drops : Nat]
  BY AnnounceAssumption DEF DataTyped
<1>2. made.edges \in 0..setup.edges /\ made.reports \in 0..setup.reports
      /\ made.answers \in 0..setup.answers /\ made.drops \in 0..setup.drops
  BY DEF DataTyped
<1> QED BY <1>1, <1>2, AnnounceAssumption

\* The invariant, part by part.
LEMMA InvIsParts == AnnounceProofInv <=> DataTyped /\ WorksSound /\ Counts /\ Promises
<1>1. ASSUME DataTyped, EdgesAccounted PROVE batch \in BatchType(made.edges) <=> batch \in BatchRecord
  BY <1>1, SetupIsNumbers, BatchTyped DEF EdgesAccounted, BatchSum
<1>2. TypeOK <=> DataTyped /\ WorksSound /\ batch \in BatchType(made.edges)
  BY DEF TypeOK, DataTyped, WorksSound, WorkList, Items
<1> QED BY <1>1, <1>2 DEF AnnounceProofInv, AnnounceInv, Counts, Promises

LEMMA InvIsPartsPrime ==
  (DataTyped /\ WorksSound /\ Counts /\ Promises)' => AnnounceProofInv'
BY InvIsParts, PTL

\* A step that leaves the batch and its edges alone leaves the counts alone.
LEMMA CountsStay ==
  ASSUME Counts, UNCHANGED <<setup, batch>>, made'.edges = made.edges
  PROVE  Counts'
BY DEF Counts, EdgesAccounted, BatchSound

\* A step that leaves what is promised alone and takes no item away keeps every promise; a
\* lost link only adds a reason to hold.
LEMMA PromisesStay ==
  ASSUME Promises, UNCHANGED <<setup, closed, held, report, batch, alarms>>,
         link' = link \/ link' = "down",
         radio = "kick" => radio' = "kick",
         \A i \in {"deadline", "jitter", "batch"} : Pending(i) => Pending(i)',
         link' = "up" /\ Pending("periodic") => Pending("periodic")'
  PROVE  Promises'
<1>1. ClosedHasDeadline'
  BY DEF Promises, ClosedHasDeadline
<1>2. HeldIsReleased' /\ SeenIsReleased'
  BY DEF Promises, HeldIsReleased, SeenIsReleased
<1>3. BatchAwaited'
  BY DEF Promises, BatchAwaited, Hold
<1>4. AnnouncesAgain'
  BY DEF Promises, AnnouncesAgain
<1> QED BY <1>1, <1>2, <1>3, <1>4 DEF Promises

LEMMA ItemsAre ==
  /\ SysItems = {"deadline", "spread", "periodic", "batch", "jitter"}
  /\ RadioItems = {"announce", "pages"}
  /\ SysItems \subseteq Items /\ RadioItems \subseteq Items
BY DEF SysItems, RadioItems, Items

LEMMA AnnounceStarts == Init => AnnounceProofInv
<1> SUFFICES ASSUME Init PROVE DataTyped /\ WorksSound /\ Counts /\ Promises
  BY InvIsParts
<1> USE DEF Init
<1>1. setup.pages \in Nat /\ setup.edges \in Nat /\ setup.reports \in Nat
      /\ setup.answers \in Nat /\ setup.drops \in Nat
  <2>1. setup \in [limit : BOOLEAN, period : BOOLEAN, pages : Nat, edges : Nat, reports : Nat,
                   answers : Nat, drops : Nat]
    BY AnnounceAssumption
  <2> QED BY <2>1
<1>2. DataTyped
  <2>1. answers \in Seq(Tags) /\ Len(answers) = 0 /\ 0 <= AnswerDepth
    BY AnnounceAssumption
  <2>2. report \in [pc : 0..3, saw : BOOLEAN]
    BY DEF NoReport
  <2>3. made \in [edges : 0..setup.edges, reports : 0..setup.reports,
                  answers : 0..setup.answers, drops : 0..setup.drops]
    BY <1>1
  <2>4. 0 \in 0..setup.pages /\ 0 \in 0..AlarmDepth
    BY <1>1, BatchConstants
  <2> QED BY <2>1, <2>2, <2>3, <2>4 DEF DataTyped
<1>3. WorksSound
  BY DEF WorksSound, WorkList, IsInjective
<1>4. Counts
  BY BatchConstants DEF Counts, EdgesAccounted, BatchSound, NoBatch, BatchRecord
<1>5. Promises
  BY DEF Promises, ClosedHasDeadline, HeldIsReleased, BatchAwaited, AnnouncesAgain,
         SeenIsReleased, NoBatch, NoReport
<1> QED BY <1>2, <1>3, <1>4, <1>5

-----------------------------------------------------------------------------
(* The link and the announce *)

LEMMA FiresKeeps ==
  ASSUME AnnounceProofInv, NEW i \in Items, Fires(i)
  PROVE  AnnounceProofInv'
<1> USE InvIsParts DEF Fires, sequence, queues
<1>1. DataTyped'
  BY DEF DataTyped
<1>2. WorksSound' /\ \A j : Pending(j) => Pending(j)'
  <2>1. CASE i \in SysItems
    <3>1. WorkList(Enqueued(swq, i)) /\ ToSet(Enqueued(swq, i)) = ToSet(swq) \union {i}
      BY <2>1, EnqueuedAdds DEF WorksSound
    <3> QED BY <2>1, <3>1 DEF WorksSound, Pending
  <2>2. CASE i \in RadioItems /\ i \notin SysItems
    BY <2>2 DEF WorksSound, Pending
  <2> QED BY <2>1, <2>2 DEF Items
<1>3. Counts'
  BY CountsStay
<1>4. Promises'
  BY <1>2, PromisesStay
<1> QED BY <1>1, <1>2, <1>3, <1>4, InvIsPartsPrime

LEMMA LinkUpKeeps ==
  ASSUME AnnounceProofInv, LinkUp
  PROVE  AnnounceProofInv'
<1> USE InvIsParts DEF LinkUp, queues
<1>1. DataTyped'
  BY DEF DataTyped
<1>2. WorksSound' /\ \A j \in {"batch", "jitter"} : Pending(j) => Pending(j)'
  BY ItemsAre DEF WorksSound, AnnouncedTimers, Pending
<1>3. Counts'
  BY CountsStay
<1>4. Pending("deadline")' /\ (setup.period => Pending("periodic")')
  BY DEF AnnouncedTimers, Pending
<1>5. Promises'
  BY <1>2, <1>4 DEF Promises, ClosedHasDeadline, HeldIsReleased, BatchAwaited, AnnouncesAgain,
                    SeenIsReleased, Hold
<1> QED BY <1>1, <1>2, <1>3, <1>5, InvIsPartsPrime

LEMMA LinkDownKeeps ==
  ASSUME AnnounceProofInv, LinkDown
  PROVE  AnnounceProofInv'
<1> USE InvIsParts DEF LinkDown, sequence, queues, works
<1>1. DataTyped'
  BY DEF DataTyped
<1>2. WorksSound' /\ \A j : Pending(j) => Pending(j)'
  BY DEF WorksSound, Pending
<1>3. Counts'
  BY CountsStay
<1>4. Promises'
  BY <1>2, PromisesStay
<1> QED BY <1>1, <1>2, <1>3, <1>4, InvIsPartsPrime
\* The head of the queue runs and leaves it; the others stay.
LEMMA RunTakes ==
  ASSUME WorksSound, NEW i \in SysItems, Runs(i)
  PROVE  WorkList(Tail(swq)) /\ ToSet(Tail(swq)) = ToSet(swq) \ {i} /\ i \in ToSet(swq)
BY TailTakes DEF WorksSound, Runs

LEMMA SpreadOverKeeps ==
  ASSUME AnnounceProofInv, SpreadOver
  PROVE  AnnounceProofInv'
<1> USE InvIsParts DEF SpreadOver, queues
<1>1. DataTyped'
  BY DEF DataTyped
<1>2. WorkList(Tail(swq)) /\ ToSet(Tail(swq)) = ToSet(swq) \ {"spread"}
  BY RunTakes, ItemsAre
<1>3. WorksSound' /\ \A j \in SysItems \ {"spread"} : Pending(j) => Pending(j)'
  BY <1>2, ItemsAre DEF WorksSound, Pending
<1>4. Counts'
  BY CountsStay
<1>5. Promises'
  BY <1>3, ItemsAre, PromisesStay
<1> QED BY <1>1, <1>3, <1>4, <1>5, InvIsPartsPrime

LEMMA PeriodicAnnounceKeeps ==
  ASSUME AnnounceProofInv, PeriodicAnnounce
  PROVE  AnnounceProofInv'
<1> USE InvIsParts DEF PeriodicAnnounce, queues
<1>1. DataTyped'
  BY DEF DataTyped
<1>2. WorkList(Tail(swq)) /\ ToSet(Tail(swq)) = ToSet(swq) \ {"periodic"}
  BY RunTakes, ItemsAre
<1>3. WorksSound' /\ \A j \in SysItems \ {"periodic"} : Pending(j) => Pending(j)'
  BY <1>2, ItemsAre DEF WorksSound, Pending
<1>4. link' = "up" => Pending("periodic")'
  BY DEF Pending
<1>5. Counts'
  BY CountsStay
<1>6. Promises'
  BY <1>3, <1>4, ItemsAre, PromisesStay
<1> QED BY <1>1, <1>3, <1>5, <1>6, InvIsPartsPrime

\* A page of a frame leaves the queue and the stream in their bounds.
LEMMA FrameTyped ==
  ASSUME DataTyped, NEW b \in Bits, AnswerRoom > 0, AnnounceFrame(b)
  PROVE  /\ answers' \in Seq(Tags) /\ Len(answers') <= AnswerDepth
         /\ bits' \subseteq Bits /\ stream' \in 0..setup.pages
<1>1. /\ answers \in Seq(Tags) /\ Len(answers) \in Nat /\ AnswerDepth \in Nat /\ b \in Tags
  BY SetupIsNumbers DEF DataTyped, Bits, Tags
<1>2. Len(answers) + 1 <= AnswerDepth
  BY <1>1 DEF AnswerRoom
<1>3. Append(answers, b) \in Seq(Tags) /\ Len(Append(answers, b)) = Len(answers) + 1
  BY <1>1, AppendProperties
<1> QED BY <1>1, <1>2, <1>3 DEF DataTyped, AnnounceFrame

\* A step of the announce arms and takes its own two items only.
LEMMA AnnounceStepKeeps ==
  ASSUME AnnounceProofInv,
         UNCHANGED <<setup, link, spreading, closed, held, alarms, tlm, batch, swq, report, made>>,
         \/ UNCHANGED <<answers, bits, stream>>
         \/ \E b \in Bits : AnswerRoom > 0 /\ AnnounceFrame(b),
         armed \subseteq armed', armed' \subseteq armed \union {"announce", "pages"},
         rwq' \in {rwq, rwq \ {"announce"}},
         radio # "kick", radio' \in {"idle", "settings", "end"}
  PROVE  AnnounceProofInv'
<1> USE InvIsParts
<1>1. /\ answers' \in Seq(Tags) /\ Len(answers') <= AnswerDepth
      /\ bits' \subseteq Bits /\ stream' \in 0..setup.pages
  BY FrameTyped DEF DataTyped
<1>2. DataTyped'
  BY <1>1 DEF DataTyped
<1>3. WorksSound' /\ \A j \in SysItems : Pending(j) => Pending(j)'
  BY ItemsAre DEF WorksSound, Pending, SysItems
<1>4. Counts'
  BY CountsStay
<1>5. Promises'
  BY <1>3, ItemsAre, PromisesStay
<1> QED BY <1>2, <1>3, <1>4, <1>5, InvIsPartsPrime

LEMMA AnnounceInfoKeeps ==
  ASSUME AnnounceProofInv, AnnounceInfo
  PROVE  AnnounceProofInv'
<1> USE DEF AnnounceInfo
<1>1. \/ UNCHANGED <<answers, bits, stream>>
      \/ \E b \in Bits : AnswerRoom > 0 /\ AnnounceFrame(b)
  BY DEF Bits
<1>2. armed \subseteq armed' /\ armed' \subseteq armed \union {"announce", "pages"}
  BY DEF Again, StreamTimer
<1>3. radio # "kick" /\ radio' \in {"idle", "settings", "end"}
  BY DEF Again
<1> QED BY <1>1, <1>2, <1>3, AnnounceStepKeeps

LEMMA AnnounceSettingsKeeps ==
  ASSUME AnnounceProofInv, AnnounceSettings
  PROVE  AnnounceProofInv'
<1> USE DEF AnnounceSettings
<1>1. \/ UNCHANGED <<answers, bits, stream>>
      \/ \E b \in Bits : AnswerRoom > 0 /\ AnnounceFrame(b)
  BY DEF Bits
<1>2. armed \subseteq armed' /\ armed' \subseteq armed \union {"announce", "pages"}
  BY DEF StreamTimer
<1> QED BY <1>1, <1>2, AnnounceStepKeeps

-----------------------------------------------------------------------------
(* The release *)

\* app_alarm_flush_held() queues the batch if it is held, and nothing else.
LEMMA FlushHeldAdds ==
  ASSUME NEW a \in SUBSET Items, NEW q, WorkList(q)
  PROVE  LET f == FlushHeld(a, q)
         IN /\ f[1] \in SUBSET Items /\ WorkList(f[2]) /\ ToSet(q) \subseteq ToSet(f[2])
            /\ a \union ToSet(q) \subseteq f[1] \union ToSet(f[2])
            /\ ToSet(f[2]) \subseteq ToSet(q) \union {"batch"}
            /\ batch.held => "batch" \in ToSet(f[2])
<1>1. WorkList(Enqueued(q, "batch")) /\ ToSet(Enqueued(q, "batch")) = ToSet(q) \union {"batch"}
  BY EnqueuedAdds, ItemsAre
<1> QED BY <1>1 DEF FlushHeld

\* The kick of the held report queues it, ahead of nothing that is queued.
LEMMA KickHeldAdds ==
  ASSUME NEW a \in SUBSET Items, NEW q, WorkList(q)
  PROVE  LET k == KickHeld(a, q)
         IN /\ k[1] \in SUBSET Items /\ WorkList(k[2]) /\ ToSet(q) \subseteq ToSet(k[2])
            /\ a \union ToSet(q) \subseteq k[1] \union ToSet(k[2])
            /\ held => "jitter" \in ToSet(k[2])
<1>1. WorkList(Enqueued(q, "jitter")) /\ ToSet(Enqueued(q, "jitter")) = ToSet(q) \union {"jitter"}
  BY EnqueuedAdds, ItemsAre
<1> QED BY <1>1 DEF KickHeld

\* An open sequence, what was held queued and what is due still due: every promise is kept.
LEMMA OpenedKeeps ==
  ASSUME Promises, UNCHANGED <<setup, link, report, batch, alarms>>,
         closed' = FALSE,
         \/ held' = FALSE
         \/ held' = held /\ (closed => radio' = "kick") /\ (radio = "kick" => radio' = "kick"),
         \A i \in {"jitter", "batch", "periodic"} : Pending(i) => Pending(i)',
         closed /\ batch.held => Pending("batch")'
  PROVE  Promises'
<1>1. ClosedHasDeadline'
  BY DEF ClosedHasDeadline
<1>2. HeldIsReleased' /\ SeenIsReleased'
  BY DEF Promises, HeldIsReleased, SeenIsReleased
<1>3. BatchAwaited'
  BY DEF Promises, BatchAwaited, Hold
<1>4. AnnouncesAgain'
  BY DEF Promises, AnnouncesAgain
<1> QED BY <1>1, <1>2, <1>3, <1>4 DEF Promises

LEMMA ReleaseKeeps ==
  ASSUME AnnounceProofInv, Release
  PROVE  AnnounceProofInv'
<1> USE InvIsParts DEF Release, queues
<1>1. DataTyped'
  BY DEF DataTyped
<1>2. Counts'
  BY CountsStay
<1>3. CASE closed
  <2> DEFINE a == armed \ {"deadline"}
             q == RemoveFirst(swq, "deadline")
             f == FlushHeld(a, q)
  <2>1. WorkList(q) /\ ToSet(q) = ToSet(swq) \ {"deadline"}
    BY CancelTakes, ItemsAre DEF WorksSound
  <2>2. a \in SUBSET Items
    BY DEF WorksSound
  <2>3. armed' = f[1] /\ swq' = f[2] /\ rwq' = rwq
    BY <1>3
  <2> HIDE DEF a, q
  <2>4. /\ f[1] \in SUBSET Items /\ WorkList(f[2])
        /\ a \union ToSet(q) \subseteq f[1] \union ToSet(f[2])
        /\ batch.held => "batch" \in ToSet(f[2])
    BY <2>1, <2>2, FlushHeldAdds
  <2> HIDE DEF f
  <2>5. WorksSound'
    BY <2>3, <2>4 DEF WorksSound
  <2>6. \A i \in {"jitter", "batch", "periodic"} : Pending(i) => Pending(i)'
    BY <2>1, <2>3, <2>4 DEF Pending, a
  <2>7. batch.held => Pending("batch")'
    BY <2>3, <2>4 DEF Pending
  <2>8. Promises'
    BY <1>3, <2>6, <2>7, OpenedKeeps
  <2> QED BY <1>1, <1>2, <2>5, <2>8, InvIsPartsPrime
<1>4. CASE ~closed
  <2>1. WorksSound' /\ \A i : Pending(i) => Pending(i)'
    BY <1>4 DEF WorksSound, Pending
  <2>2. closed' = closed
    BY <1>4 DEF DataTyped
  <2>3. Promises'
    BY <2>1, <2>2, PromisesStay
  <2> QED BY <1>1, <1>2, <2>1, <2>3, InvIsPartsPrime
<1> QED BY <1>3, <1>4

LEMMA ReleaseReportKeeps ==
  ASSUME AnnounceProofInv, ReleaseReport
  PROVE  AnnounceProofInv'
<1> USE InvIsParts DEF ReleaseReport, queues
<1>1. DataTyped'
  BY DEF DataTyped
<1>2. Counts'
  BY CountsStay
<1> DEFINE k == KickHeld(armed, swq)
<1>3. armed' = k[1] /\ swq' = k[2] /\ rwq' = rwq
  OBVIOUS
<1>4. /\ k[1] \in SUBSET Items /\ WorkList(k[2])
      /\ armed \union ToSet(swq) \subseteq k[1] \union ToSet(k[2])
  BY KickHeldAdds DEF WorksSound
<1> HIDE DEF k
<1>5. WorksSound' /\ \A i : Pending(i) => Pending(i)'
  BY <1>3, <1>4 DEF WorksSound, Pending
<1>6. Promises'
  BY <1>5 DEF Promises, ClosedHasDeadline, HeldIsReleased, SeenIsReleased, BatchAwaited, Hold,
              AnnouncesAgain
<1> QED BY <1>1, <1>2, <1>5, <1>6, InvIsPartsPrime

LEMMA DeadlineKeeps ==
  ASSUME AnnounceProofInv, Deadline
  PROVE  AnnounceProofInv'
<1> USE InvIsParts DEF Deadline, queues
<1>1. DataTyped'
  BY DEF DataTyped
<1>2. Counts'
  BY CountsStay
<1>3. WorkList(Tail(swq)) /\ ToSet(Tail(swq)) = ToSet(swq) \ {"deadline"}
  BY RunTakes, ItemsAre
<1>4. CASE closed
  <2> DEFINE a == armed \ {"deadline"}
             q == Tail(swq)
             f == FlushHeld(a, q)
             k == KickHeld(f[1], f[2])
  <2>1. armed' = k[1] /\ swq' = k[2] /\ rwq' = rwq
    BY <1>4 DEF Woken
  <2>2. a \in SUBSET Items
    BY DEF WorksSound
  <2> HIDE DEF a, q
  <2>3. /\ f[1] \in SUBSET Items /\ WorkList(f[2])
        /\ a \union ToSet(q) \subseteq f[1] \union ToSet(f[2])
        /\ batch.held => "batch" \in ToSet(f[2])
    BY <1>3, <2>2, FlushHeldAdds DEF q
  <2> HIDE DEF f
  <2>4. /\ k[1] \in SUBSET Items /\ WorkList(k[2]) /\ ToSet(f[2]) \subseteq ToSet(k[2])
        /\ f[1] \union ToSet(f[2]) \subseteq k[1] \union ToSet(k[2])
    BY <2>3, KickHeldAdds
  <2> HIDE DEF k
  <2>5. WorksSound'
    BY <2>1, <2>4 DEF WorksSound
  <2>6. \A i \in {"jitter", "batch", "periodic"} : Pending(i) => Pending(i)'
    BY <1>3, <2>1, <2>3, <2>4 DEF Pending, a, q
  <2>7. batch.held => Pending("batch")'
    BY <2>1, <2>3, <2>4 DEF Pending
  <2>8. Promises'
    BY <1>4, <2>6, <2>7, OpenedKeeps
  <2> QED BY <1>1, <1>2, <2>5, <2>8, InvIsPartsPrime
<1>5. CASE ~closed
  <2>1. WorksSound'
    BY <1>3, <1>5 DEF WorksSound
  <2>2. \A i \in {"jitter", "batch", "periodic"} : Pending(i) => Pending(i)'
    BY <1>3, <1>5 DEF Pending
  <2>3. held' = held
    BY <1>5
  <2>4. Promises'
    BY <1>5, <2>2, <2>3, OpenedKeeps
  <2> QED BY <1>1, <1>2, <2>1, <2>4, InvIsPartsPrime
<1> QED BY <1>4, <1>5
-----------------------------------------------------------------------------
(* The page stream and the sends *)

\* A step among the radio work queue's own items, its answers and its stream.
LEMMA RadioStepKeeps ==
  ASSUME AnnounceProofInv,
         UNCHANGED <<setup, link, spreading, closed, held, alarms, batch, swq, radio, report>>,
         made'.edges = made.edges,
         made' \in [edges : 0..setup.edges, reports : 0..setup.reports,
                    answers : 0..setup.answers, drops : 0..setup.drops],
         answers' \in Seq(Tags), Len(answers') <= AnswerDepth,
         bits' \subseteq Bits, stream' \in 0..setup.pages, tlm' \in BOOLEAN,
         rwq' \subseteq RadioItems,
         armed \ RadioItems \subseteq armed', armed' \subseteq armed \union RadioItems
  PROVE  AnnounceProofInv'
<1> USE InvIsParts
<1>1. DataTyped'
  BY DEF DataTyped
<1>2. WorksSound' /\ \A j \in SysItems : Pending(j) => Pending(j)'
  BY ItemsAre DEF WorksSound, Pending, SysItems, RadioItems
<1>3. Counts'
  BY CountsStay
<1>4. Promises'
  BY <1>2, ItemsAre, PromisesStay
<1> QED BY <1>1, <1>2, <1>3, <1>4, InvIsPartsPrime

\* One more frame of tag t fits where there is room for it.
LEMMA AnswerTyped ==
  ASSUME DataTyped, AnswerRoom > 0, NEW t \in Tags
  PROVE  Append(answers, t) \in Seq(Tags) /\ Len(Append(answers, t)) <= AnswerDepth
<1>1. answers \in Seq(Tags) /\ Len(answers) \in Nat /\ AnswerDepth \in Nat
  BY SetupIsNumbers DEF DataTyped
<1>2. Len(answers) + 1 <= AnswerDepth
  BY <1>1 DEF AnswerRoom
<1> QED BY <1>1, <1>2, AppendProperties

LEMMA PageStreamKeeps ==
  ASSUME AnnounceProofInv, PageStream
  PROVE  AnnounceProofInv'
<1> USE InvIsParts DEF PageStream, sequence
<1>1. /\ stream \in 0..setup.pages /\ setup.pages \in Nat
      /\ answers \in Seq(Tags) /\ Len(answers) <= AnswerDepth
      /\ made \in [edges : 0..setup.edges, reports : 0..setup.reports,
                   answers : 0..setup.answers, drops : 0..setup.drops]
      /\ bits \subseteq Bits /\ tlm \in BOOLEAN
      /\ rwq \subseteq RadioItems /\ AnswerRoom \in Int
  <2>1. AnswerRoom \in Int
    BY SetupIsNumbers DEF AnswerRoom, DataTyped
  <2> QED BY <2>1, SetupIsNumbers DEF DataTyped, WorksSound
<1>2. answers' \in Seq(Tags) /\ Len(answers') <= AnswerDepth
  <2>1. CASE UNCHANGED answers
    BY <1>1, <2>1
  <2>2. CASE AnswerRoom >= 2 /\ answers' = Append(answers, "command")
    <3>1. AnswerRoom > 0
      BY <1>1, <2>2
    <3>2. "command" \in Tags
      BY DEF Tags
    <3> QED BY <2>2, <3>1, <3>2, AnswerTyped
  <2> QED BY <2>1, <2>2
<1>3. stream' \in 0..setup.pages
  BY <1>1
<1>4. rwq' \subseteq RadioItems
  BY <1>1 DEF Kicked, RadioItems
<1>5. armed \ RadioItems \subseteq armed' /\ armed' \subseteq armed \union RadioItems
  BY DEF RadioItems
<1> QED BY <1>1, <1>2, <1>3, <1>4, <1>5, RadioStepKeeps

LEMMA CommandAnsweredKeeps ==
  ASSUME AnnounceProofInv, CommandAnswered
  PROVE  AnnounceProofInv'
<1> USE InvIsParts DEF CommandAnswered, sequence
<1>1. /\ stream \in 0..setup.pages /\ bits \subseteq Bits /\ tlm \in BOOLEAN
      /\ rwq \subseteq RadioItems
  BY DEF DataTyped, WorksSound
<1>2. answers' \in Seq(Tags) /\ Len(answers') <= AnswerDepth
  <2>1. "command" \in Tags
    BY DEF Tags
  <2> QED BY <2>1, AnswerTyped
<1>3. made' \in [edges : 0..setup.edges, reports : 0..setup.reports,
                 answers : 0..setup.answers, drops : 0..setup.drops]
      /\ made'.edges = made.edges
  <2>1. made.answers + 1 \in 0..setup.answers
    BY SetupIsNumbers DEF MayCount
  <2> QED BY <2>1 DEF Counted, DataTyped
<1>4. stream' \in 0..setup.pages
  BY <1>1
<1>5. armed \ RadioItems \subseteq armed' /\ armed' \subseteq armed \union RadioItems
  BY DEF RadioItems
<1> QED BY <1>1, <1>2, <1>3, <1>4, <1>5, RadioStepKeeps

LEMMA DatarateChangedKeeps ==
  ASSUME AnnounceProofInv, DatarateChanged
  PROVE  AnnounceProofInv'
<1> USE InvIsParts DEF DatarateChanged, sequence, queues
<1>1. /\ stream \in 0..setup.pages
      /\ answers \in Seq(Tags) /\ Len(answers) <= AnswerDepth
      /\ made \in [edges : 0..setup.edges, reports : 0..setup.reports,
                   answers : 0..setup.answers, drops : 0..setup.drops]
      /\ bits \subseteq Bits /\ tlm \in BOOLEAN /\ rwq \subseteq RadioItems
  BY DEF DataTyped, WorksSound
<1>2. rwq' \subseteq RadioItems
  BY <1>1 DEF Kicked, RadioItems
<1>3. armed \ RadioItems \subseteq armed' /\ armed' \subseteq armed \union RadioItems
  BY DEF RadioItems
<1> QED BY <1>1, <1>2, <1>3, RadioStepKeeps

LEMMA SendAnswerKeeps ==
  ASSUME AnnounceProofInv, SendAnswer
  PROVE  AnnounceProofInv'
<1> USE InvIsParts DEF SendAnswer, works
<1>1. /\ stream \in 0..setup.pages /\ bits \subseteq Bits /\ tlm \in BOOLEAN
      /\ rwq \subseteq RadioItems
      /\ made \in [edges : 0..setup.edges, reports : 0..setup.reports,
                   answers : 0..setup.answers, drops : 0..setup.drops]
      /\ answers \in Seq(Tags) /\ Len(answers) <= AnswerDepth
  BY DEF DataTyped, WorksSound
<1>2. answers' \in Seq(Tags) /\ Len(answers') <= AnswerDepth
  <2>1. Tail(answers) \in Seq(Tags) /\ Len(Tail(answers)) = Len(answers) - 1
    BY <1>1, HeadTailProperties
  <2> QED BY <1>1, <2>1, SetupIsNumbers
<1>3. bits' \subseteq Bits
  BY <1>1 DEF Rearmed
<1>4. made' \in [edges : 0..setup.edges, reports : 0..setup.reports,
                 answers : 0..setup.answers, drops : 0..setup.drops]
      /\ made'.edges = made.edges
  <2>1. CASE UNCHANGED made
    BY <1>1, <2>1
  <2>2. CASE MayCount("drops") /\ Counted("drops")
    <3>1. made.drops + 1 \in 0..setup.drops
      BY <2>2, SetupIsNumbers DEF MayCount
    <3> QED BY <1>1, <2>2, <3>1 DEF Counted
  <2> QED BY <2>1, <2>2
<1> QED BY <1>1, <1>2, <1>3, <1>4, RadioStepKeeps

LEMMA SendReportKeeps ==
  ASSUME AnnounceProofInv, SendReport
  PROVE  AnnounceProofInv'
<1> USE InvIsParts DEF SendReport, sequence, works
<1>1. /\ stream \in 0..setup.pages /\ bits \subseteq Bits
      /\ rwq \subseteq RadioItems
      /\ made \in [edges : 0..setup.edges, reports : 0..setup.reports,
                   answers : 0..setup.answers, drops : 0..setup.drops]
      /\ answers \in Seq(Tags) /\ Len(answers) <= AnswerDepth
  BY DEF DataTyped, WorksSound
<1> QED BY <1>1, RadioStepKeeps

LEMMA SendAlarmKeeps ==
  ASSUME AnnounceProofInv, SendAlarm
  PROVE  AnnounceProofInv'
<1> USE InvIsParts DEF SendAlarm, sequence
<1>1. alarms' \in 0..AlarmDepth
  BY BatchConstants DEF DataTyped
<1>2. DataTyped'
  BY <1>1 DEF DataTyped
<1>3. Counts'
  BY CountsStay
<1> DEFINE f == FlushHeld(armed, swq)
<1>4. armed' = f[1] /\ swq' = f[2] /\ rwq' = rwq
  BY DEF TakeWakes
<1>5. /\ f[1] \in SUBSET Items /\ WorkList(f[2])
      /\ armed \union ToSet(swq) \subseteq f[1] \union ToSet(f[2])
      /\ batch.held => "batch" \in ToSet(f[2])
  BY FlushHeldAdds DEF WorksSound
<1> HIDE DEF f
<1>6. WorksSound' /\ \A i : Pending(i) => Pending(i)'
  BY <1>4, <1>5 DEF WorksSound, Pending
<1>7. batch.held => Pending("batch")'
  BY <1>4, <1>5 DEF Pending
<1>8. Promises'
  BY <1>6, <1>7 DEF Promises, ClosedHasDeadline, HeldIsReleased, SeenIsReleased, BatchAwaited,
                    AnnouncesAgain
<1> QED BY <1>2, <1>3, <1>6, <1>8, InvIsPartsPrime

-----------------------------------------------------------------------------
(* The alarm batch *)

\* alarm_batch_flush(), run with the items a and q, for a batch b that accounts for e edges.
LEMMA FlushedKeeps ==
  ASSUME AnnounceProofInv, NEW b \in BatchRecord, CountsFit(b), NEW e \in 0..setup.edges,
         BatchSum(b) = e, setup.limit => WindowFits(b),
         NEW q, WorkList(q), \A i \in SysItems \ {"batch"} : i \in ToSet(swq) => i \in ToSet(q),
         Flushed(b, armed, q), made' = [made EXCEPT !.edges = e],
         UNCHANGED <<setup, link, sequence, stream, answers, tlm, rwq, radio, report>>
  PROVE  AnnounceProofInv'
<1> USE InvIsParts
<1>1. AlarmRoom \in 0..AlarmDepth /\ alarms \in Nat
  BY BatchConstants DEF AlarmRoom, DataTyped
<1>2. PICK f \in Flushes(b, Hold, AlarmRoom) :
        /\ batch' = f.batch
        /\ alarms' = alarms + f.pages
        /\ armed' = IF f.timer THEN armed \union {"batch"} ELSE armed
        /\ swq' = q
  BY DEF Flushed
<1>3. /\ f.batch \in BatchRecord /\ BatchSum(f.batch) = e /\ CountsFit(f.batch)
      /\ setup.limit => WindowFits(f.batch)
      /\ f.pages \in 0..AlarmRoom /\ f.timer \in BOOLEAN
      /\ f.batch.n > 0 => f.batch.held /\ (Hold # "none" \/ AlarmDepth - AlarmRoom + f.pages > 0)
  BY <1>1, FlushesFit
<1>4. alarms' \in 0..AlarmDepth /\ (AlarmDepth - AlarmRoom + f.pages > 0 => alarms' > 0)
  BY <1>1, <1>2, <1>3, BatchConstants DEF AlarmRoom
<1>5. made' \in [edges : 0..setup.edges, reports : 0..setup.reports,
                 answers : 0..setup.answers, drops : 0..setup.drops]
      /\ made'.edges = e
  BY DEF DataTyped
<1>6. DataTyped'
  BY <1>4, <1>5 DEF DataTyped, sequence
<1>7. Counts'
  <2>1. EdgesAccounted'
    BY <1>2, <1>3, <1>5 DEF EdgesAccounted, BatchSum
  <2>2. BatchSound'
    BY <1>2, <1>3 DEF BatchSound, CountsFit, WindowFits
  <2> QED BY <1>2, <1>3, <2>1, <2>2 DEF Counts
<1>8. WorksSound' /\ \A i \in SysItems \ {"batch"} : Pending(i) => Pending(i)'
  BY <1>2, ItemsAre DEF WorksSound, Pending
<1>9. BatchAwaited'
  BY <1>2, <1>3, <1>4 DEF BatchAwaited, Hold, sequence
<1>10. Promises'
  BY <1>8, <1>9, ItemsAre DEF Promises, ClosedHasDeadline, HeldIsReleased, SeenIsReleased,
                              AnnouncesAgain, sequence
<1> QED BY <1>6, <1>7, <1>8, <1>10, InvIsPartsPrime

LEMMA BatchIs ==
  ASSUME AnnounceProofInv
  PROVE  /\ batch \in BatchRecord /\ CountsFit(batch) /\ BatchSum(batch) = made.edges
         /\ setup.limit => WindowFits(batch)
         /\ made.edges \in 0..setup.edges
BY InvIsParts DEF Counts, EdgesAccounted, BatchSound, CountsFit, BatchSum, WindowFits, DataTyped

LEMMA BatchWorkKeeps ==
  ASSUME AnnounceProofInv, BatchWork
  PROVE  AnnounceProofInv'
<1> USE DEF BatchWork
<1>1. WorkList(Tail(swq)) /\ ToSet(Tail(swq)) = ToSet(swq) \ {"batch"}
  BY InvIsParts, RunTakes, ItemsAre
<1>2. made' = [made EXCEPT !.edges = made.edges]
  BY InvIsParts DEF DataTyped
<1> QED BY <1>1, <1>2, BatchIs, FlushedKeeps

LEMMA AlarmEdgeKeeps ==
  ASSUME AnnounceProofInv, AlarmEdge
  PROVE  AnnounceProofInv'
<1> USE DEF AlarmEdge
<1> USE InvIsParts
<1> DEFINE e == made.edges + 1
<1>1. e \in 0..setup.edges /\ made' = [made EXCEPT !.edges = e]
  <2>1. e \in 0..setup.edges
    BY SetupIsNumbers DEF MayCount
  <2>2. made' = [made EXCEPT !.edges = e]
    BY DEF Counted
  <2> QED BY <2>1, <2>2
<1> HIDE DEF e
<1>2. CASE ~setup.limit
  <2>1. /\ CollectedAlone(batch) \in BatchRecord /\ CountsFit(CollectedAlone(batch))
        /\ BatchSum(CollectedAlone(batch)) = e
    BY BatchIs, CollectedAloneFits DEF e
  <2>2. Flushed(CollectedAlone(batch), armed, swq) /\ WorkList(swq)
    BY <1>2 DEF WorksSound
  <2> QED BY <1>1, <1>2, <2>1, <2>2, FlushedKeeps
<1>3. CASE setup.limit
  <2> DEFINE b == Collected(batch)
  <2>1. /\ b \in BatchRecord /\ BatchSum(b) = e /\ CountsFit(b) /\ WindowFits(b)
        /\ b.held = batch.held
    BY <1>3, BatchIs, CollectedFits DEF e
  <2>2. /\ batch' = b /\ alarms' = alarms
        /\ armed' = IF Opens(batch) /\ ~Pending("batch") THEN armed \union {"batch"}
                    ELSE IF ClosesEarly(b) THEN armed \ {"batch"} ELSE armed
        /\ swq' = IF ClosesEarly(b) THEN Enqueued(swq, "batch") ELSE swq
    BY <1>3
  <2> HIDE DEF b
  <2>3. made' \in [edges : 0..setup.edges, reports : 0..setup.reports,
                   answers : 0..setup.answers, drops : 0..setup.drops]
        /\ made'.edges = e
    BY <1>1 DEF DataTyped
  <2>4. DataTyped'
    BY <2>2, <2>3 DEF DataTyped, sequence
  <2>5. Counts'
    <3>1. EdgesAccounted'
      BY <2>1, <2>2, <2>3 DEF EdgesAccounted, BatchSum
    <3>2. BatchSound'
      BY <2>1, <2>2 DEF BatchSound, CountsFit, WindowFits
    <3> QED BY <2>1, <2>2, <3>1, <3>2 DEF Counts
  <2>6. WorkList(Enqueued(swq, "batch")) /\ ToSet(Enqueued(swq, "batch")) = ToSet(swq) \union {"batch"}
    BY EnqueuedAdds, ItemsAre DEF WorksSound
  <2>7. WorksSound' /\ \A i : Pending(i) => Pending(i)'
    BY <2>2, <2>6, ItemsAre DEF WorksSound, Pending
  <2>8. Opens(batch) => Pending("batch")'
    BY <2>2, <2>6 DEF Pending
  <2>9. ~Opens(batch) => batch.n > 0
    BY <1>3, BatchIs DEF Opens, WindowFits
  <2>10. BatchAwaited'
    BY <2>1, <2>2, <2>7, <2>8, <2>9 DEF Promises, BatchAwaited, Hold, sequence
  <2>11. Promises'
    BY <2>7, <2>10 DEF Promises, ClosedHasDeadline, HeldIsReleased, SeenIsReleased,
                       AnnouncesAgain, sequence
  <2> QED BY <2>4, <2>5, <2>7, <2>11, InvIsPartsPrime
<1> QED BY <1>2, <1>3

LEMMA FlushPendingKeeps ==
  ASSUME AnnounceProofInv, FlushPending
  PROVE  AnnounceProofInv'
<1> USE InvIsParts DEF FlushPending, sequence, queues
<1>1. DataTyped'
  BY DEF DataTyped
<1>2. WorkList(Enqueued(swq, "batch")) /\ ToSet(Enqueued(swq, "batch")) = ToSet(swq) \union {"batch"}
  BY EnqueuedAdds, ItemsAre DEF WorksSound
<1>3. WorksSound' /\ \A i : Pending(i) => Pending(i)'
  BY <1>2 DEF WorksSound, Pending
<1>4. Counts'
  BY CountsStay
<1>5. Promises'
  BY <1>3, PromisesStay
<1> QED BY <1>1, <1>3, <1>4, <1>5, InvIsPartsPrime
-----------------------------------------------------------------------------
(* The report *)

LEMMA ReportDueKeeps ==
  ASSUME AnnounceProofInv, ReportDue
  PROVE  AnnounceProofInv'
<1> USE InvIsParts DEF ReportDue, sequence, queues, works
<1>1. made.reports + 1 \in 0..setup.reports
  BY SetupIsNumbers DEF MayCount
<1>2. made' \in [edges : 0..setup.edges, reports : 0..setup.reports,
                 answers : 0..setup.answers, drops : 0..setup.drops]
      /\ made'.edges = made.edges
  BY <1>1 DEF Counted, DataTyped
<1>3. report' \in [pc : 0..3, saw : BOOLEAN] /\ report'.pc = 1
  <2>1. NoReport \in [pc : 0..3, saw : BOOLEAN]
    BY DEF NoReport
  <2> QED BY <2>1
<1>4. DataTyped'
  BY <1>2, <1>3 DEF DataTyped
<1>5. WorksSound' /\ \A i : Pending(i) => Pending(i)'
  BY DEF WorksSound, Pending
<1>6. Counts'
  BY <1>2, CountsStay
<1>7. Promises'
  BY <1>3, <1>5 DEF Promises, ClosedHasDeadline, HeldIsReleased, BatchAwaited, Hold,
                    AnnouncesAgain, SeenIsReleased
<1> QED BY <1>4, <1>5, <1>6, <1>7, InvIsPartsPrime

\* Where the report thread is.
LEMMA AtStepIs ==
  ASSUME DataTyped
  PROVE  /\ AtStep("mark") => report.pc = 1
         /\ AtStep("look") => report.pc = 2
         /\ AtStep("go") => report.pc = 3
         /\ report.pc < 3 => NextStep \in [pc : 0..3, saw : BOOLEAN] /\ NextStep.pc = report.pc + 1
<1>1. report.pc \in 0..3 /\ report \in [pc : 0..3, saw : BOOLEAN]
  BY DEF DataTyped
<1>2. ReportSteps[1] = "mark" /\ ReportSteps[2] = "look" /\ ReportSteps[3] = "go"
  BY DEF ReportSteps
<1>3. report.pc > 0 => report.pc = 1 \/ report.pc = 2 \/ report.pc = 3
  BY <1>1
<1>4. report.pc < 3 => NextStep \in [pc : 0..3, saw : BOOLEAN] /\ NextStep.pc = report.pc + 1
  BY <1>1 DEF NextStep
<1> QED BY <1>2, <1>3, <1>4 DEF AtStep

LEMMA ReportMarkKeeps ==
  ASSUME AnnounceProofInv, ReportMark
  PROVE  AnnounceProofInv'
<1> USE InvIsParts DEF ReportMark, queues, works
<1>1. report' \in [pc : 0..3, saw : BOOLEAN] /\ report'.pc = 2
  BY AtStepIs
<1>2. DataTyped'
  BY <1>1 DEF DataTyped
<1>3. WorksSound' /\ \A i : Pending(i) => Pending(i)'
  BY DEF WorksSound, Pending
<1>4. Counts'
  BY CountsStay
<1>5. Promises'
  BY <1>1, <1>3 DEF Promises, ClosedHasDeadline, HeldIsReleased, BatchAwaited, Hold,
                    AnnouncesAgain, SeenIsReleased
<1> QED BY <1>2, <1>3, <1>4, <1>5, InvIsPartsPrime

LEMMA ReportLookKeeps ==
  ASSUME AnnounceProofInv, ReportLook
  PROVE  AnnounceProofInv'
<1> USE InvIsParts DEF ReportLook, sequence, queues, works
<1>1. report.pc = 2 /\ NextStep \in [pc : 0..3, saw : BOOLEAN] /\ NextStep.pc = 3
  BY AtStepIs
<1>2. report' \in [pc : 0..3, saw : BOOLEAN] /\ report'.pc = 3 /\ report'.saw = closed
  <2>1. closed \in BOOLEAN
    BY DEF DataTyped
  <2> QED BY <1>1, <2>1
<1>3. DataTyped'
  BY <1>2 DEF DataTyped
<1>4. WorksSound' /\ \A i : Pending(i) => Pending(i)'
  BY DEF WorksSound, Pending
<1>5. Counts'
  BY CountsStay
<1>6. HeldIsReleased' /\ SeenIsReleased'
  BY <1>2 DEF HeldIsReleased, SeenIsReleased
<1>7. Promises'
  BY <1>4, <1>6 DEF Promises, ClosedHasDeadline, BatchAwaited, Hold, AnnouncesAgain
<1> QED BY <1>3, <1>4, <1>5, <1>7, InvIsPartsPrime

LEMMA ReportGoKeeps ==
  ASSUME AnnounceProofInv, ReportGo
  PROVE  AnnounceProofInv'
<1> USE InvIsParts DEF ReportGo, queues
<1>1. report' \in [pc : 0..3, saw : BOOLEAN] /\ report'.pc = 0
  BY DEF NoReport
<1>2. DataTyped'
  BY <1>1 DEF DataTyped
<1>3. WorksSound' /\ \A i : Pending(i) => Pending(i)'
  BY ItemsAre DEF WorksSound, Pending
<1>4. Counts'
  BY CountsStay
<1>5. report.pc = 3
  BY AtStepIs
<1>6. HeldIsReleased'
  <2>1. CASE report.saw \/ ~held
    <3>1. held' = held /\ closed' = closed /\ radio' = radio
      BY <2>1
    <3> QED BY <1>3, <1>5, <2>1, <3>1 DEF Promises, SeenIsReleased, HeldIsReleased
  <2>2. CASE ~(report.saw \/ ~held)
    BY <2>2 DEF HeldIsReleased
  <2> QED BY <2>1, <2>2
<1>7. Promises'
  BY <1>1, <1>3, <1>6 DEF Promises, ClosedHasDeadline, BatchAwaited, Hold, AnnouncesAgain,
                          SeenIsReleased
<1> QED BY <1>2, <1>3, <1>4, <1>7, InvIsPartsPrime

LEMMA ReportNowKeeps ==
  ASSUME AnnounceProofInv, ReportNow
  PROVE  AnnounceProofInv'
<1> USE InvIsParts DEF ReportNow, sequence, queues
<1>1. made.reports + 1 \in 0..setup.reports
  BY SetupIsNumbers DEF MayCount
<1>2. made' \in [edges : 0..setup.edges, reports : 0..setup.reports,
                 answers : 0..setup.answers, drops : 0..setup.drops]
      /\ made'.edges = made.edges
  BY <1>1 DEF Counted, DataTyped
<1>3. DataTyped'
  BY <1>2 DEF DataTyped
<1>4. WorkList(Enqueued(swq, "jitter"))
      /\ ToSet(Enqueued(swq, "jitter")) = ToSet(swq) \union {"jitter"}
  BY EnqueuedAdds, ItemsAre DEF WorksSound
<1>5. WorksSound' /\ \A i : Pending(i) => Pending(i)'
  BY <1>4 DEF WorksSound, Pending
<1>6. Counts'
  BY <1>2, CountsStay
<1>7. Promises'
  BY <1>5, PromisesStay
<1> QED BY <1>3, <1>5, <1>6, <1>7, InvIsPartsPrime

LEMMA JitterOverKeeps ==
  ASSUME AnnounceProofInv, JitterOver
  PROVE  AnnounceProofInv'
<1> USE InvIsParts DEF JitterOver
<1>1. DataTyped'
  BY DEF DataTyped
<1>2. WorkList(Tail(swq)) /\ ToSet(Tail(swq)) = ToSet(swq) \ {"jitter"}
  BY RunTakes, ItemsAre
<1>3. WorksSound' /\ \A i \in SysItems \ {"jitter"} : Pending(i) => Pending(i)'
  BY <1>2 DEF WorksSound, Pending
<1>4. Counts'
  BY CountsStay
<1>5. Promises'
  BY <1>3, ItemsAre DEF Promises, ClosedHasDeadline, HeldIsReleased, BatchAwaited, Hold,
                        AnnouncesAgain, SeenIsReleased
<1> QED BY <1>1, <1>3, <1>4, <1>5, InvIsPartsPrime

-----------------------------------------------------------------------------
(* The theorems *)

LEMMA StepKeeps == AnnounceProofInv /\ [Next]_vars => AnnounceProofInv'
<1> SUFFICES ASSUME AnnounceProofInv, [Next]_vars PROVE AnnounceProofInv'
  OBVIOUS
<1>1. CASE SystemQueue
  BY <1>1, DeadlineKeeps, SpreadOverKeeps, PeriodicAnnounceKeeps, BatchWorkKeeps, JitterOverKeeps
     DEF SystemQueue
<1>2. CASE \E i \in Items : Fires(i)
  BY <1>2, FiresKeeps
<1>3. CASE RadioQueue
  BY <1>3, AnnounceInfoKeeps, AnnounceSettingsKeeps, ReleaseKeeps, ReleaseReportKeeps,
     PageStreamKeeps DEF RadioQueue
<1>4. CASE Sends
  BY <1>4, SendAnswerKeeps, SendAlarmKeeps, SendReportKeeps DEF Sends
<1>5. CASE ReportThread
  BY <1>5, ReportMarkKeeps, ReportLookKeeps, ReportGoKeeps DEF ReportThread
<1>6. CASE LinkUp \/ LinkDown \/ CommandAnswered \/ DatarateChanged
  BY <1>6, LinkUpKeeps, LinkDownKeeps, CommandAnsweredKeeps, DatarateChangedKeeps
<1>7. CASE AlarmEdge \/ FlushPending \/ ReportDue \/ ReportNow
  BY <1>7, AlarmEdgeKeeps, FlushPendingKeeps, ReportDueKeeps, ReportNowKeeps
<1>8. CASE UNCHANGED vars
  <2> USE <1>8, InvIsParts DEF vars, sequence, queues, works
  <2>1. DataTyped' /\ WorksSound'
    BY DEF DataTyped, WorksSound
  <2>2. \A i : Pending(i) => Pending(i)'
    BY DEF Pending
  <2>3. Counts'
    BY CountsStay
  <2>4. Promises'
    BY <2>2, PromisesStay
  <2> QED BY <2>1, <2>3, <2>4, InvIsPartsPrime
<1> QED BY <1>1, <1>2, <1>3, <1>4, <1>5, <1>6, <1>7, <1>8 DEF Next, Items

LEMMA AnnounceAlways == Spec => []AnnounceProofInv
BY AnnounceStarts, StepKeeps, PTL DEF Spec

\* A closed boot/join sequence always has its deadline ahead, a marked report somebody who
\* releases it, a batch its flush, an edge its place in the totals, and a link that is up
\* its next periodic announce: whatever the timers, the threads and the radio do, and for
\* every queue depth and batch size (app_radio.c and app_alarm.c).
THEOREM NothingIsStranded == Spec => []AnnounceInv
BY AnnounceAlways, PTL DEF AnnounceProofInv

\* Ending the sequence queues the held batch, and ahead of the report it lets go: the two
\* share one work queue, and seq_release() and its deadline keep the order.
THEOREM AlarmsLeaveFirst == Spec => AlarmsFirst
<1> DEFINE First ==
      closed /\ ~closed' /\ batch.held
        => /\ "batch" \in ToSet(swq')
           /\ held /\ ~held' /\ "jitter" \notin ToSet(swq)
                => \E i, j \in DOMAIN swq' : i < j /\ swq'[i] = "batch" /\ swq'[j] = "jitter"
<1>1. ASSUME AnnounceProofInv, [Next]_vars PROVE First
  <2> SUFFICES ASSUME closed, ~closed', batch.held
               PROVE  /\ "batch" \in ToSet(swq')
                      /\ held /\ ~held' /\ "jitter" \notin ToSet(swq)
                           => \E i, j \in DOMAIN swq' :
                                i < j /\ swq'[i] = "batch" /\ swq'[j] = "jitter"
    OBVIOUS
  <2> USE InvIsParts
  <2>1. Release \/ Deadline
    BY <1>1 DEF Next, vars, sequence, SystemQueue, RadioQueue, Sends, ReportThread, Fires, LinkUp,
       LinkDown, SpreadOver, PeriodicAnnounce, AnnounceInfo, AnnounceSettings, ReleaseReport,
       PageStream, CommandAnswered, DatarateChanged, SendAnswer, SendAlarm, SendReport, AlarmEdge,
       BatchWork, FlushPending, ReportDue, ReportMark, ReportLook, ReportGo, ReportNow, JitterOver
  <2>2. CASE Release
    <3> DEFINE q == RemoveFirst(swq, "deadline")
    <3>1. WorkList(q)
      BY <1>1, CancelTakes, ItemsAre DEF WorksSound
    <3>2. armed \ {"deadline"} \in SUBSET Items
      BY <1>1 DEF WorksSound
    <3> HIDE DEF q
    <3>3. "batch" \in ToSet(FlushHeld(armed \ {"deadline"}, q)[2])
      BY <3>1, <3>2, FlushHeldAdds
    <3>4. swq' = FlushHeld(armed \ {"deadline"}, q)[2] /\ held' = held
      BY <2>2 DEF Release, q
    <3> QED BY <3>3, <3>4
  <2>3. CASE Deadline
    <3> DEFINE q == Tail(swq)
               p == Enqueued(q, "batch")
               r == Enqueued(p, "jitter")
    <3>1. WorkList(q) /\ ToSet(q) = ToSet(swq) \ {"deadline"}
      BY <1>1, <2>3, RunTakes, ItemsAre DEF Deadline
    <3>2. swq' = IF held THEN r ELSE p
      BY <2>3 DEF Deadline, Woken, FlushHeld, KickHeld
    <3> HIDE DEF q
    <3>3. WorkList(p) /\ ToSet(p) = ToSet(q) \union {"batch"}
      BY <3>1, EnqueuedAdds, ItemsAre
    <3> HIDE DEF p
    <3>4. /\ ToSet(r) = ToSet(p) \union {"jitter"}
          /\ "jitter" \notin ToSet(p) =>
               /\ r[Len(p) + 1] = "jitter" /\ Len(p) + 1 \in DOMAIN r
               /\ \A k \in DOMAIN p : k < Len(p) + 1 /\ k \in DOMAIN r /\ r[k] = p[k]
      BY <3>3, EnqueuedAdds, ItemsAre
    <3> HIDE DEF r
    <3>5. "batch" \in ToSet(swq')
      BY <3>2, <3>3, <3>4
    <3>6. ASSUME held, "jitter" \notin ToSet(swq)
          PROVE  \E i, j \in DOMAIN swq' : i < j /\ swq'[i] = "batch" /\ swq'[j] = "jitter"
      <4>1. "jitter" \notin ToSet(p)
        BY <3>1, <3>3, <3>6
      <4>2. PICK k \in DOMAIN p : p[k] = "batch"
        BY <3>3 DEF ToSet
      <4>3. k < Len(p) + 1 /\ k \in DOMAIN r /\ r[k] = "batch"
        BY <3>4, <4>1, <4>2
      <4>4. r[Len(p) + 1] = "jitter" /\ Len(p) + 1 \in DOMAIN r
        BY <3>4, <4>1
      <4> QED BY <3>2, <3>6, <4>3, <4>4
    <3> QED BY <3>5, <3>6
  <2> QED BY <2>1, <2>2, <2>3
<1> QED BY <1>1, AnnounceAlways, PTL DEF AlarmsFirst, Spec
=============================================================================
