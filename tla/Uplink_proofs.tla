--------------------------- MODULE Uplink_proofs ----------------------------
(***************************************************************************)
(* Proofs about the way of a report, for all values of the constants: the   *)
(* scheduler that sends it, the cadence that asks for it, and the watch     *)
(* that misses it.                                                          *)
(***************************************************************************)
EXTENDS RadioTx, ReportSlots, StaleWatch, SequenceTheorems, TLAPS

-----------------------------------------------------------------------------
(* The scheduler: its one slot, what holds it, what waits for it and what runs  *)
(* when it is given back                                                        *)

-----------------------------------------------------------------------------
(* The inductive invariant *)

\* Who holds the slot a, told of the owner's frame: AckOwner, and that the
\* owner's path is still at it.
SlotHeld(a, c, t, h) ==
  /\ a.kind \in {"answer", "alarm"} => c.kind = a.kind /\ a.frame = c.id
  /\ a.kind = "telemetry" => t.open /\ t.held /\ a.frame = t.page
  /\ a.kind = "history" => h.active /\ a.frame = h.built

\* The answers of q, queued in order, after the frame c in hand and before the next.
InOrder(c, q, n) ==
  /\ \A i \in 1..Len(q) : q[i].id <= n
  /\ \A i, j \in 1..Len(q) : i < j => q[i].id < q[j].id
  /\ c.kind = "answer" => c.id <= n /\ \A i \in 1..Len(q) : c.id < q[i].id

\* A path inside send() has its frame, and the slot is free or its own.
InSend(r, c, t, h, a) ==
  /\ r.path = "cur" => c.kind # "none" /\ a.kind \in {"none", c.kind}
  /\ r.path = "tlm" => t.open /\ t.held /\ a.kind \in {"none", "telemetry"}
  /\ r.path = "flush" => t.open /\ ~t.held /\ a.kind = "none"
  /\ r.path = "hist" => h.active /\ a.kind \in {"none", "history"}

\* A report goes when nothing is queued, its Ack retry aside: what is queued
\* while it is sent has kicked.
Waiting(c, q, l) == c.kind # "none" \/ q # <<>> \/ l # <<>>
Overtaken(r, a, c, q, l, w) ==
  r.path \in {"tlm", "flush"} /\ a.kind # "telemetry" /\ Waiting(c, q, l) => Due(w)

SchedInv ==
  /\ TypeOK
  /\ SlotHeld(ack, cur, tlm, hist)
  /\ InOrder(cur, answers, made)
  /\ InSend(run, cur, tlm, hist, ack)
  /\ Overtaken(run, ack, cur, answers, alarms, txWork)

Results == {"ok", "toobig", "busy", "again", "backoff", "ackretry", "fault", "wait"}

\* Somebody sees to the frames, and to the replay (the two halves of Awake), with
\* p the path inside send().
TxServed(c, q, l, t, a, w, p) ==
  (Waiting(c, q, l) \/ t.open) /\ a.kind # "history" => Due(w) \/ p \in {"cur", "tlm", "flush"}
HistServed(h, a, w, p) ==
  h.active /\ a.kind \in {"none", "history"} => Due(w) \/ p = "hist"

-----------------------------------------------------------------------------
(* The works and the slot *)

\* The limits of the radio an instance runs on.
LEMMA Limits ==
  ASSUME p2p \in Radios
  PROVE  /\ QueueDepth \in Nat /\ MaxReplay \in Nat /\ AckRetries \in Nat /\ AckRetries >= 1
         /\ TxRetries[p2p] \in Nat /\ MaxPages[p2p] \in Nat /\ MaxFrames[p2p] \in Nat
         /\ MaxPages[p2p] >= 1 /\ QueueDepth >= 1
<1>1. p2p \in BOOLEAN
  BY RadioAssumption
<1>2. /\ QueueDepth \in Nat \ {0} /\ MaxReplay \in Nat \ {0} /\ AckRetries \in Nat \ {0}
      /\ MaxPages \in [BOOLEAN -> Nat \ {0}] /\ MaxFrames \in [BOOLEAN -> Nat \ {0}]
  BY LimitAssumption
<1>3. TxRetries[p2p] \in Nat
  BY <1>1, LimitAssumption, Zenon
<1>4. MaxPages[p2p] \in Nat \ {0} /\ MaxFrames[p2p] \in Nat \ {0}
  BY <1>1, <1>2, Zenon
<1> QED BY <1>2, <1>3, <1>4

\* A work that is submitted or (re)scheduled is due.
LEMMA WorkOps ==
  ASSUME NEW w \in Work
  PROVE  /\ Submit(w) \in Work /\ Due(Submit(w))
         /\ Now(w) \in Work /\ Due(Now(w))
         /\ Started(w) \in Work
         /\ \A t \in {"wait", "backoff"} : Later(w, t) \in Work /\ Due(Later(w, t))
         /\ Gap(w) \in Work /\ Due(Gap(w))
<1>1. Submit(w) \in Work /\ Due(Submit(w))
  BY DEF Submit, Work, Due
<1>2. Now(w) \in Work /\ Due(Now(w))
  BY DEF Now, Work, Due
<1>3. Started(w) \in Work
  BY DEF Started, Work
<1>4. \A t \in {"wait", "backoff"} : Later(w, t) \in Work /\ Due(Later(w, t))
  BY DEF Later, Work, Due
<1>5. Gap(w) \in Work /\ Due(Gap(w))
  BY <1>2, <1>4 DEF Gap
<1> QED BY <1>1, <1>2, <1>3, <1>4, <1>5

\* A release wakes the other path's work, and puts none to sleep.
LEMMA WakesTxOps ==
  ASSUME NEW a \in Slot, NEW k, NEW w \in Work
  PROVE  /\ WakesTx(a, k, w) \in Work
         /\ Due(w) => Due(WakesTx(a, k, w))
         /\ a.kind = k /\ k = "history" => Due(WakesTx(a, k, w))
BY WorkOps DEF WakesTx

LEMMA WakesHistOps ==
  ASSUME NEW a \in Slot, NEW k, NEW h \in Replay, NEW w \in Work
  PROVE  /\ WakesHist(a, k, h, w) \in Work
         /\ Due(w) => Due(WakesHist(a, k, h, w))
         /\ a.kind = k /\ k # "history" /\ h.active => Due(WakesHist(a, k, h, w))
BY WorkOps DEF WakesHist

LEMMA ReleasedOps ==
  ASSUME p2p \in Radios, NEW a \in Slot, NEW k
  PROVE  /\ NoAck \in Slot
         /\ Released(a, k) \in Slot
         /\ a.kind = k => Released(a, k) = NoAck /\ Released(a, k).kind = "none"
         /\ a.kind # k => Released(a, k) = a
<1>1. NoAck \in Slot
  BY Limits DEF NoAck, Slot
<1> QED BY <1>1 DEF Released, NoAck

\* What the slot remembers of a frame: the number of a queued frame, of a page or
\* of a build.
Place == Nat

\* What a send makes of the slot b, for the frame f of kind k that came to r: an Ack
\* retry takes it for that frame, a frame done with frees it, and a failure leaves it.
SlotAfter(b, a, r, k, f) ==
  /\ a \in Slot /\ r \in Results \ {"busy", "wait"} /\ a.kind \in {"none", k}
  /\ r \in {"ok", "toobig"} => a.kind = "none"
  /\ r = "ackretry" => a.kind = k /\ a.frame = f
  /\ r \in {"fault", "again", "backoff"} => a = b
  /\ a.kind = "none" => a = IF b.kind = k THEN NoAck ELSE b

LEMMA AckAfterOps ==
  ASSUME p2p \in Radios, NEW a \in Slot, NEW k \in Kinds, NEW f \in Place,
         NEW o \in {"ok", "fault", "noack", "again", "toobig"},
         a.kind \in {"none", k}
  PROVE  SlotAfter(a, AckAfter(a, k, o, f), Result(a, k, o), k, f)
<1>0. k # "none"
  BY DEF Kinds
<1>1. CASE o = "noack" /\ ~Spent(a, k)
  <2>1. /\ AckAfter(a, k, o, f) =
             [kind |-> k, tries |-> (IF a.kind = k THEN a.tries ELSE 0) + 1, frame |-> f]
        /\ Result(a, k, o) = "ackretry"
    BY <1>1 DEF AckAfter, Result
  <2>2. (IF a.kind = k THEN a.tries ELSE 0) + 1 \in 0..AckRetries
    BY <1>1, Limits DEF Spent, Slot
  <2>3. AckAfter(a, k, o, f) \in Slot
    BY <2>1, <2>2 DEF Slot, Place
  <2> QED BY <1>0, <2>1, <2>3 DEF Results, SlotAfter
<1>2. CASE o \in {"ok", "toobig"} \/ (o = "noack" /\ Spent(a, k))
  <2>1. AckAfter(a, k, o, f) = Released(a, k) /\ Result(a, k, o) \in {"ok", "toobig"}
    BY <1>2 DEF AckAfter, Result
  <2> QED BY <1>0, <2>1, ReleasedOps DEF Results, SlotAfter
<1>3. CASE o \in {"fault", "again"}
  <2>1. AckAfter(a, k, o, f) = a /\ Result(a, k, o) = o
    BY <1>3 DEF AckAfter, Result
  <2> QED BY <1>0, <1>3, <2>1 DEF Results, SlotAfter
<1> QED BY <1>1, <1>2, <1>3

-----------------------------------------------------------------------------
(* The order of the answers *)

\* A new answer is the last.
LEMMA AppendKeepsOrder ==
  ASSUME p2p \in Radios, NEW c, NEW q \in Seq(Answer), NEW n \in Nat, InOrder(c, q, n),
         c.kind = "answer" => c.id \in Nat,
         NEW e \in Answer, e.id = n + 1
  PROVE  InOrder(c, Append(q, e), n + 1)
<1> DEFINE s == Append(q, e)
           m == Len(q)
<1>1. m \in Nat /\ Len(s) = m + 1 /\ s[m + 1] = e /\ \A i \in 1..m : s[i] = q[i]
  BY AppendProperties
<1>2. \A i \in 1..m : q[i].id \in Nat
  <2>1. \A i \in 1..m : q[i] \in Answer
    OBVIOUS
  <2> QED BY <2>1, Limits DEF Answer, Frames
<1>3. \A i \in 1..m : q[i].id <= n
  BY DEF InOrder
<1>4. \A i, j \in 1..m : i < j => q[i].id < q[j].id
  BY DEF InOrder
<1>5. c.kind = "answer" => c.id \in Nat /\ c.id <= n /\ \A i \in 1..m : c.id < q[i].id
  BY DEF InOrder
<1> HIDE DEF s, m
<1>6. \A i \in 1..m + 1 : s[i].id <= n + 1
  BY <1>1, <1>2, <1>3
<1>7. \A i, j \in 1..m + 1 : i < j => s[i].id < s[j].id
  <2> SUFFICES ASSUME NEW i \in 1..m + 1, NEW j \in 1..m + 1, i < j PROVE s[i].id < s[j].id
    OBVIOUS
  <2>1. i \in 1..m
    BY <1>1
  <2>2. CASE j = m + 1
    BY <1>1, <1>2, <1>3, <2>1, <2>2
  <2>3. CASE j \in 1..m
    BY <1>1, <1>4, <2>1, <2>3
  <2> QED BY <1>1, <2>2, <2>3
<1>8. c.kind = "answer" => c.id <= n + 1 /\ \A i \in 1..m + 1 : c.id < s[i].id
  BY <1>1, <1>5
<1> QED BY <1>1, <1>6, <1>7, <1>8 DEF InOrder, s

\* The first answer is taken in hand ...
LEMMA TakingKeepsOrder ==
  ASSUME p2p \in Radios, NEW c, NEW q \in Seq(Answer), NEW n, InOrder(c, q, n), q # <<>>
  PROVE  InOrder(FromQueue(Head(q)), Tail(q), n)
<1> DEFINE s == Tail(q)
           m == Len(s)
<1>1. m \in Nat /\ Len(q) = m + 1 /\ \A i \in 1..m : s[i] = q[i + 1]
  BY HeadTailProperties
<1>2. FromQueue(Head(q)).id = q[1].id
  BY DEF FromQueue
<1>3. \A i \in 1..m + 1 : q[i].id <= n
  BY <1>1 DEF InOrder
<1>4. \A i, j \in 1..m + 1 : i < j => q[i].id < q[j].id
  BY <1>1 DEF InOrder
<1> HIDE DEF s, m
<1>5. \A i \in 1..m : i + 1 \in 1..m + 1 /\ s[i] = q[i + 1]
  BY <1>1
<1>6. \A i \in 1..m : s[i].id <= n
  BY <1>3, <1>5
<1>7. \A i, j \in 1..m : i < j => s[i].id < s[j].id
  <2> SUFFICES ASSUME NEW i \in 1..m, NEW j \in 1..m, i < j PROVE s[i].id < s[j].id
    OBVIOUS
  <2>1. i + 1 < j + 1
    BY <1>1
  <2> QED BY <1>4, <1>5, <2>1
<1>8. q[1].id <= n /\ \A i \in 1..m : q[1].id < s[i].id
  <2>1. 1 \in 1..m + 1
    BY <1>1
  <2>2. \A i \in 1..m : 1 < i + 1
    BY <1>1
  <2> QED BY <1>3, <1>4, <1>5, <2>1, <2>2
<1> QED BY <1>2, <1>6, <1>7, <1>8 DEF InOrder, s, m

\* ... and put back first.
LEMMA PutBackKeepsOrder ==
  ASSUME p2p \in Radios, NEW q \in Seq(Answer), NEW n, cur \in Hand, InOrder(cur, q, n),
         cur.kind = "answer"
  PROVE  /\ PutBack(q) \in Seq(Answer) /\ Len(PutBack(q)) = Len(q) + 1
         /\ InOrder(NoCur, PutBack(q), n)
<1> DEFINE e == [id |-> cur.id, tag |-> cur.tag]
           s == PutBack(q)
           m == Len(q)
<1>1. e \in Answer /\ e.id = cur.id
  BY DEF Hand, Answer
<1>2. <<e>> \in Seq(Answer) /\ Len(<<e>>) = 1 /\ <<e>>[1] = e /\ m \in Nat
  BY <1>1
<1>3. s = <<e>> \o q
  BY DEF PutBack
<1> HIDE DEF e, s
<1>4. /\ s \in Seq(Answer) /\ Len(s) = m + 1
      /\ \A i \in 1..m + 1 : s[i] = IF i <= 1 THEN <<e>>[i] ELSE q[i - 1]
  <2>1. /\ <<e>> \o q \in Seq(Answer) /\ Len(<<e>> \o q) = 1 + m
        /\ \A i \in 1..1 + m : (<<e>> \o q)[i] = IF i <= 1 THEN <<e>>[i] ELSE q[i - 1]
    BY <1>2, ConcatProperties
  <2> QED BY <1>2, <1>3, <2>1
<1>5. \A i \in 1..m : q[i].id <= n
  BY DEF InOrder
<1>6. \A i, j \in 1..m : i < j => q[i].id < q[j].id
  BY DEF InOrder
<1>7. cur.id <= n /\ \A i \in 1..m : cur.id < q[i].id
  BY DEF InOrder
<1> HIDE DEF m
<1>8. s[1].id = cur.id /\ \A i \in 2..m + 1 : i - 1 \in 1..m /\ s[i] = q[i - 1]
  BY <1>1, <1>2, <1>4
<1>9. \A i \in 1..m + 1 : i = 1 \/ i \in 2..m + 1
  BY <1>2
<1>10. \A i \in 1..m + 1 : s[i].id <= n
  BY <1>5, <1>7, <1>8, <1>9
<1>11. \A i, j \in 1..m + 1 : i < j => s[i].id < s[j].id
  <2> SUFFICES ASSUME NEW i \in 1..m + 1, NEW j \in 1..m + 1, i < j PROVE s[i].id < s[j].id
    OBVIOUS
  <2>1. j \in 2..m + 1
    BY <1>2
  <2>2. CASE i = 1
    BY <1>7, <1>8, <2>1, <2>2
  <2>3. CASE i \in 2..m + 1
    <3>1. i - 1 < j - 1
      BY <1>2
    <3> QED BY <1>6, <1>8, <2>1, <2>3, <3>1
  <2> QED BY <1>9, <2>2, <2>3
<1> QED BY <1>4, <1>10, <1>11 DEF InOrder, NoCur, s, m

\* What the order comes to: the frame in hand, then the queue.
LEMMA OrderIsAnswerOrder ==
  ASSUME p2p \in Radios, cur \in Hand, answers \in Seq(Answer), NEW n, InOrder(cur, answers, n)
  PROVE  AnswerOrder
<1> DEFINE m == Len(answers)
           first == IF cur.kind = "answer" THEN <<cur.id>> ELSE <<>>
           rest == [i \in 1..m |-> answers[i].id]
           k == Len(first)
           q == first \o rest
<1>1. m \in Nat /\ \A i \in 1..m : answers[i] \in Answer
  OBVIOUS
<1>2. rest \in Seq(Frames) /\ Len(rest) = m /\ \A i \in 1..m : rest[i] = answers[i].id
  <2>1. \A i \in 1..m : answers[i].id \in Frames
    BY <1>1 DEF Answer
  <2> QED BY <1>1, <2>1, IsASeq
<1>3. first \in Seq(Frames) /\ k \in Nat /\ k <= 1 /\ (k = 1 => cur.kind = "answer" /\ first[1] = cur.id)
  BY DEF Hand
<1>4. Len(q) = k + m /\ \A i \in 1..k + m : q[i] = IF i <= k THEN first[i] ELSE rest[i - k]
  BY <1>2, <1>3, ConcatProperties
<1>5. \A i, j \in 1..m : i < j => answers[i].id < answers[j].id
  BY DEF InOrder
<1>6. cur.kind = "answer" => \A i \in 1..m : cur.id < answers[i].id
  BY DEF InOrder
<1> HIDE DEF m, first, rest, k, q
<1>7. \A i, j \in 1..k + m : i < j => q[i] < q[j]
  <2> SUFFICES ASSUME NEW i \in 1..k + m, NEW j \in 1..k + m, i < j PROVE q[i] < q[j]
    OBVIOUS
  <2>1. j > k /\ j - k \in 1..m /\ q[j] = answers[j - k].id
    <3>1. j > k /\ j - k \in 1..m /\ ~(j <= k)
      BY <1>1, <1>3
    <3>2. q[j] = rest[j - k]
      BY <1>4, <3>1
    <3> QED BY <1>2, <3>1, <3>2
  <2>2. CASE i <= k
    <3>1. i = 1 /\ k = 1 /\ q[i] = cur.id /\ cur.kind = "answer"
      BY <1>1, <1>3, <1>4, <2>2
    <3> QED BY <1>6, <2>1, <3>1
  <2>3. CASE i > k
    <3>1. i - k \in 1..m /\ q[i] = answers[i - k].id /\ i - k < j - k
      BY <1>1, <1>2, <1>3, <1>4, <2>3
    <3> QED BY <1>5, <2>1, <3>1
  <2> QED BY <1>3, <2>2, <2>3
<1>8. \A i, j \in 1..Len(q) : i < j => q[i] < q[j]
  BY <1>4, <1>7
<1> QED BY <1>8 DEF AnswerOrder, q, first, rest, m

-----------------------------------------------------------------------------
(* How a frame in hand ends *)

\* The frame c, from its queue or in hand, after a send that came to r.
LEMMA CurEndsTyped ==
  ASSUME p2p \in Radios, hist \in Replay, NEW r \in Results, NEW c \in Hand, NEW a \in Slot,
         NEW w \in Work, NEW h \in Work, CurEnds(r, c, a, w, h)
  PROVE  cur' \in Hand /\ ack' \in Slot /\ txWork' \in Work /\ histWork' \in Work
<1>1. NoCur \in Hand
  BY Limits DEF NoCur, Hand, Frames, Tags, Failures
<1>2. [c EXCEPT !.tag = "other"] \in Hand
  BY DEF Hand, Tags
<1>3. c.tries < TxRetries[p2p] => [c EXCEPT !.tries = @ + 1] \in Hand
  <2> SUFFICES ASSUME c.tries < TxRetries[p2p] PROVE [c EXCEPT !.tries = @ + 1] \in Hand
    OBVIOUS
  <2>1. c.tries + 1 \in Failures
    BY Limits DEF Hand, Failures
  <2> QED BY <2>1 DEF Hand
<1>4. cur' \in Hand
  BY <1>1, <1>2, <1>3 DEF CurEnds
<1>5. ack' \in Slot
  BY ReleasedOps DEF CurEnds
<1>6. txWork' \in Work
  BY WorkOps DEF CurEnds
<1>7. histWork' \in Work
  BY WakesHistOps DEF CurEnds
<1> QED BY <1>4, <1>5, <1>6, <1>7

\* A frame that leaves the hand leaves no slot taken ...
LEMMA CurEndsOwned ==
  ASSUME p2p \in Radios, NEW r \in Results, NEW c \in Hand, NEW a \in Slot, NEW w, NEW h,
         c.kind # "none", SlotHeld(a, c, tlm, hist), CurEnds(r, c, a, w, h),
         r \in {"ok", "toobig"} => a.kind # c.kind
  PROVE  SlotHeld(ack', cur', tlm, hist)
<1>1. c.kind \in {"answer", "alarm"}
  BY DEF Hand
<1>2. CASE cur' = NoCur /\ ack' = Released(a, c.kind)
  <2>1. ack'.kind = "none" \/ (ack' = a /\ a.kind # c.kind)
    BY <1>2, ReleasedOps
  <2> QED BY <1>1, <2>1 DEF SlotHeld
<1>3. CASE cur' = NoCur /\ ack' = a /\ a.kind # c.kind
  BY <1>1, <1>3 DEF SlotHeld
<1>4. CASE cur' = [c EXCEPT !.tag = "other"] /\ ack' = a
  BY <1>4 DEF SlotHeld, Hand
<1>5. CASE cur' = [c EXCEPT !.tries = @ + 1] /\ ack' = a
  BY <1>5 DEF SlotHeld, Hand
<1>6. CASE cur' = c /\ ack' = a
  BY <1>6 DEF SlotHeld
<1>7. r \in {"ok", "toobig"} =>
        \/ cur' = NoCur /\ ack' = a /\ a.kind # c.kind
        \/ cur' = [c EXCEPT !.tag = "other"] /\ ack' = a
  BY DEF CurEnds
<1>8. r \notin {"ok", "toobig"} =>
        \/ cur' = c /\ ack' = a
        \/ cur' = [c EXCEPT !.tries = @ + 1] /\ ack' = a
        \/ cur' = NoCur /\ ack' = Released(a, c.kind)
  BY DEF CurEnds
<1> QED BY <1>2, <1>3, <1>4, <1>5, <1>6, <1>7, <1>8

\* ... one that stays keeps its place before the queue ...
LEMMA CurEndsInOrder ==
  ASSUME NEW r, NEW c \in Hand, NEW a, NEW w, NEW h, NEW q, NEW n,
         InOrder(c, q, n), CurEnds(r, c, a, w, h)
  PROVE  InOrder(cur', q, n)
<1>1. \/ cur' = NoCur
      \/ cur' = c
      \/ cur' = [c EXCEPT !.tag = "other"]
      \/ cur' = [c EXCEPT !.tries = @ + 1]
  BY DEF CurEnds
<1>2. cur'.kind = "answer" => c.kind = "answer" /\ cur'.id = c.id
  BY <1>1 DEF NoCur, Hand
<1> QED BY <1>2 DEF InOrder

\* ... only a bounce leaves the next step to somebody else, and a release wakes
\* the replay.
LEMMA CurEndsServed ==
  ASSUME p2p \in Radios, hist \in Replay, NEW r \in Results, NEW c \in Hand, NEW a \in Slot,
         NEW w \in Work, NEW h \in Work, c.kind # "none", CurEnds(r, c, a, w, h)
  PROVE  /\ r # "busy" /\ r # "wait" => Due(txWork')
         /\ r = "busy" => cur' = c /\ ack' = a /\ txWork' = w
         /\ \/ ack' = a /\ histWork' = h
            \/ /\ a.kind = c.kind /\ (hist.active => Due(histWork'))
<1>1. r # "busy" /\ r # "wait" => Due(txWork')
  BY WorkOps DEF CurEnds
<1>2. r = "busy" => cur' = c /\ ack' = a /\ txWork' = w
  BY DEF CurEnds
<1>3. \/ ack' = a /\ histWork' = h
      \/ ack' = Released(a, c.kind) /\ histWork' = WakesHist(a, c.kind, hist, h)
  BY DEF CurEnds
<1>4. ack' = Released(a, c.kind) /\ histWork' = WakesHist(a, c.kind, hist, h) /\ a.kind # c.kind
      => ack' = a /\ histWork' = h
  BY DEF Released, WakesHist
<1>5. c.kind # "history"
  BY DEF Hand
<1> QED BY <1>1, <1>2, <1>3, <1>4, <1>5, WakesHistOps

\* A frame given to the radio, from the hand or from its queue.
LEMMA CurSendOps ==
  ASSUME p2p \in Radios, hist \in Replay, run \in Sends, run.path = "none",
         NEW c \in Hand, NEW y, y.ack \in Slot, y.tx \in Work, y.hist \in Work,
         c.kind # "none", SlotHeld(y.ack, c, tlm, hist), y.ack.kind # "telemetry",
         CurSend(c, y)
  PROVE  /\ cur' \in Hand /\ ack' \in Slot /\ txWork' \in Work /\ histWork' \in Work
         /\ run' \in Sends /\ run'.path \in {"none", "cur"}
         /\ SlotHeld(ack', cur', tlm, hist)
         /\ \A q, n : InOrder(c, q, n) => InOrder(cur', q, n)
         /\ run'.path = "cur" => cur'.kind # "none" /\ ack'.kind \in {"none", cur'.kind}
         /\ listening \/ ack'.kind = "history" \/ Due(txWork') \/ run'.path = "cur"
         /\ HistServed(hist, y.ack, y.hist, "none") => HistServed(hist, ack', histWork', run'.path)
<1>1. c.kind \in {"answer", "alarm"}
  BY DEF Hand
<1>2. y.ack.kind \in {"none", c.kind, "history"}
  BY <1>1 DEF SlotHeld, Slot, Kinds
<1>3. CASE MayBounce(y.ack, c.kind) /\ CurEnds("busy", c, y.ack, y.tx, y.hist) /\ run' = run
  <2>1. cur' = c /\ ack' = y.ack /\ txWork' = y.tx /\ histWork' = y.hist
    BY <1>3 DEF CurEnds
  <2>2. Bounced(y.ack, c.kind) \/ listening
    BY <1>3 DEF MayBounce
  <2>3. listening \/ ack'.kind = "history"
    BY <1>2, <2>1, <2>2 DEF Bounced
  <2> QED BY <1>3, <2>1, <2>3
<1>4. CASE ~Bounced(y.ack, c.kind) /\ run' = run /\ CurEnds(HoldOf(c.kind), c, y.ack, y.tx, y.hist)
  <2>1. HoldOf(c.kind) \in {"again", "backoff"}
    BY DEF HoldOf
  <2>2. HoldOf(c.kind) \in Results
    BY <2>1 DEF Results
  <2>3. cur' = c /\ ack' = y.ack /\ histWork' = y.hist /\ Due(txWork') /\ txWork' \in Work
    BY <1>4, <2>1, WorkOps DEF CurEnds
  <2> QED BY <1>4, <2>3
<1>5. CASE /\ Transmits(y.ack, c.kind) /\ InFlight("cur", c.kind, y.ack, FALSE)
           /\ cur' = c /\ ack' = y.ack /\ txWork' = y.tx /\ histWork' = y.hist
  <2>1. run'.path = "cur" /\ run' \in Sends
    BY <1>5 DEF InFlight, Sends
  <2>2. y.ack.kind \in {"none", c.kind}
    BY <1>5 DEF Transmits, Bounced
  <2> QED BY <1>5, <2>1, <2>2 DEF HistServed
<1> QED BY <1>3, <1>4, <1>5 DEF CurSend

-----------------------------------------------------------------------------
(* How a report's frame ends *)

\* A report that is closed has its slot freed, with the wake-up of the replay.
LEMMA TlmClosesOps ==
  ASSUME p2p \in Radios, hist \in Replay, NEW t \in Report, NEW a \in Slot, NEW w \in Work,
         NEW h \in Work, NEW c, SlotHeld(a, c, t, hist), TlmCloses(t, a, w, h)
  PROVE  /\ tlm' \in Report /\ ack' \in Slot /\ txWork' = w /\ histWork' \in Work
         /\ ~tlm'.open /\ ack'.kind # "telemetry" /\ SlotHeld(ack', c, tlm', hist)
         /\ \/ ack' = a /\ histWork' = h
            \/ a.kind = "telemetry" /\ ack'.kind = "none" /\ (hist.active => Due(histWork'))
<1>1. tlm' \in Report
  <2>1. 0 \in 0..MaxPages[p2p] /\ 0 \in Failures
    BY Limits DEF Failures
  <2>2. NoReport \in Report
    BY <2>1 DEF NoReport, Report
  <2> QED BY <2>2 DEF TlmCloses, Closed, Report
<1>2. ~tlm'.open
  BY DEF TlmCloses, Closed, NoReport
<1>3. ack' = Released(a, "telemetry") /\ txWork' = w
      /\ histWork' = WakesHist(a, "telemetry", hist, h)
  BY DEF TlmCloses
<1>4. CASE a.kind = "telemetry"
  <2>1. ack'.kind = "none" /\ ack' \in Slot
    BY <1>3, <1>4, ReleasedOps
  <2>2. histWork' \in Work /\ (hist.active => Due(histWork'))
    BY <1>3, <1>4, WakesHistOps
  <2> QED BY <1>1, <1>2, <1>3, <1>4, <2>1, <2>2 DEF SlotHeld
<1>5. CASE a.kind # "telemetry"
  <2>1. ack' = a /\ histWork' = h
    BY <1>3, <1>5 DEF Released, WakesHist
  <2> QED BY <1>1, <1>2, <1>3, <1>5, <2>1 DEF SlotHeld
<1> QED BY <1>4, <1>5

\* The frame of the report t after a send that came to r.
LEMMA TlmEndsOps ==
  ASSUME p2p \in Radios, hist \in Replay, NEW r \in Results, NEW t \in Report, NEW a \in Slot,
         NEW w \in Work, NEW h \in Work, NEW c, SlotHeld(a, c, t, hist),
         r \in {"ok", "toobig"} => a.kind # "telemetry",
         TlmEnds(r, t, a, w, h)
  PROVE  /\ tlm' \in Report /\ ack' \in Slot /\ txWork' \in Work /\ histWork' \in Work
         /\ SlotHeld(ack', c, tlm', hist)
         /\ Due(w) => Due(txWork')
         /\ r = "busy" => tlm' = t /\ ack' = a /\ txWork' = w /\ histWork' = h
         /\ r # "busy" => ~tlm'.open \/ Due(txWork')
         /\ \/ ack' = a /\ histWork' = h
            \/ a.kind = "telemetry" /\ ack'.kind = "none" /\ (hist.active => Due(histWork'))
<1>1. CASE TlmCloses(t, a, w, h) /\ r # "busy"
  BY <1>1, TlmClosesOps
<1>2. CASE /\ r \in {"ok", "toobig"} /\ ~t.more
           /\ TlmCloses(t, a, IF t.asked THEN Gap(w) ELSE w, h)
  <2> DEFINE v == IF t.asked THEN Gap(w) ELSE w
  <2>1. v \in Work /\ (Due(w) => Due(v))
    BY WorkOps
  <2>2. TlmCloses(t, a, v, h)
    BY <1>2
  <2> HIDE DEF v
  <2> QED BY <1>2, <2>1, <2>2, TlmClosesOps
<1>3. CASE /\ r \in {"ok", "toobig"}
           /\ tlm' = [t EXCEPT !.held = FALSE] /\ ack' = a /\ txWork' = Gap(w) /\ histWork' = h
  <2>1. tlm' \in Report
    BY <1>3 DEF Report
  <2>2. SlotHeld(ack', c, tlm', hist)
    BY <1>3 DEF SlotHeld
  <2> QED BY <1>3, <2>1, <2>2, WorkOps
<1>4. CASE r = "busy" /\ tlm' = t /\ ack' = a /\ txWork' = w /\ histWork' = h
  BY <1>4
<1>5. CASE /\ r \in {"again", "ackretry", "backoff"} /\ tlm' = t /\ ack' = a /\ histWork' = h
           /\ txWork' \in {Later(w, "wait"), Later(w, "backoff")}
  BY <1>5, WorkOps
<1>6. CASE /\ r = "fault" /\ t.tries < TxRetries[p2p] /\ ack' = a /\ histWork' = h
           /\ tlm' = [t EXCEPT !.tries = @ + 1] /\ txWork' = Later(w, "wait")
  <2>1. t.tries + 1 \in Failures
    BY <1>6, Limits DEF Report, Failures
  <2>2. tlm' \in Report
    BY <1>6, <2>1 DEF Report
  <2>3. SlotHeld(ack', c, tlm', hist)
    BY <1>6 DEF SlotHeld, Report
  <2> QED BY <1>6, <2>2, <2>3, WorkOps
<1> QED BY <1>1, <1>2, <1>3, <1>4, <1>5, <1>6 DEF TlmEnds

\* The empty frame after a send that came to r.
LEMMA FlushEndsOps ==
  ASSUME p2p \in Radios, hist \in Replay, NEW r \in Results, NEW t \in Report, NEW a \in Slot,
         NEW w \in Work, NEW h \in Work, NEW c, SlotHeld(a, c, t, hist),
         FlushEnds(r, t, a, w, h)
  PROVE  /\ tlm' \in Report /\ ack' \in Slot /\ txWork' \in Work /\ histWork' \in Work
         /\ SlotHeld(ack', c, tlm', hist)
         /\ Due(w) => Due(txWork')
         /\ r = "busy" => tlm' = t /\ ack' = a /\ txWork' = w /\ histWork' = h
         /\ r # "busy" => ~tlm'.open \/ Due(txWork')
         /\ \/ ack' = a /\ histWork' = h
            \/ a.kind = "telemetry" /\ ack'.kind = "none" /\ (hist.active => Due(histWork'))
<1>1. CASE TlmCloses(t, a, w, h) /\ r # "busy"
  BY <1>1, TlmClosesOps
<1>2. CASE r = "busy" /\ tlm' = t /\ ack' = a /\ txWork' = w /\ histWork' = h
  BY <1>2
<1>3. CASE r = "wait" /\ tlm' = t /\ ack' = a /\ txWork' = Later(w, r) /\ histWork' = h
  BY <1>3, WorkOps
<1> QED BY <1>1, <1>2, <1>3 DEF FlushEnds

\* What a report's frame may find when it is given to the radio ...
ReportMayGo(t, y) ==
  /\ t \in Report /\ t.open
  /\ y.ack \in Slot /\ y.tx \in Work /\ y.hist \in Work
  /\ SlotHeld(y.ack, y.cur, t, hist) /\ y.ack.kind \in {"none", "telemetry", "history"}

\* ... and what it leaves.
ReportGoes(y) ==
  /\ tlm' \in Report /\ ack' \in Slot /\ txWork' \in Work /\ histWork' \in Work /\ run' \in Sends
  /\ SlotHeld(ack', y.cur, tlm', hist)
  /\ run'.path \in {"none", "tlm", "flush"}
  /\ run'.path = "tlm" => tlm'.open /\ tlm'.held /\ ack'.kind \in {"none", "telemetry"}
  /\ run'.path = "flush" => tlm'.open /\ ~tlm'.held /\ ack'.kind = "none"
  /\ run'.path # "none" => ack' = y.ack
  /\ \/ listening \/ ack'.kind = "history" \/ Due(txWork') \/ run'.path \in {"tlm", "flush"}
     \/ ~tlm'.open
  /\ HistServed(hist, y.ack, y.hist, "none") => HistServed(hist, ack', histWork', run'.path)

LEMMA TlmSendOps ==
  ASSUME p2p \in Radios, hist \in Replay, run \in Sends, run.path = "none",
         NEW t, NEW y, ReportMayGo(t, y), t.held, TlmSend(t, y)
  PROVE  ReportGoes(y)
<1>0. /\ t \in Report /\ t.open /\ y.ack \in Slot /\ y.tx \in Work /\ y.hist \in Work
      /\ SlotHeld(y.ack, y.cur, t, hist) /\ y.ack.kind \in {"none", "telemetry", "history"}
  BY DEF ReportMayGo
<1>1. CASE /\ MayBounce(y.ack, "telemetry") /\ TlmEnds("busy", t, y.ack, y.tx, y.hist)
           /\ run' = run
  <2>1. "busy" \in Results /\ "busy" \notin {"ok", "toobig"}
    BY DEF Results
  <2>2. tlm' = t /\ ack' = y.ack /\ txWork' = y.tx /\ histWork' = y.hist
    BY <1>0, <1>1, <2>1, TlmEndsOps
  <2>3. listening \/ ack'.kind = "history"
    BY <1>0, <1>1, <2>2 DEF MayBounce, Bounced
  <2> QED BY <1>0, <1>1, <2>2, <2>3 DEF ReportGoes
<1>2. CASE /\ ~Bounced(y.ack, "telemetry") /\ run' = run
           /\ TlmEnds(HoldOf("telemetry"), t, y.ack, y.tx, y.hist)
  <2> DEFINE r == HoldOf("telemetry")
  <2>1. r \in {"again", "backoff"} /\ r \in Results
    BY DEF HoldOf, Results
  <2>2. TlmEnds(r, t, y.ack, y.tx, y.hist)
    BY <1>2
  <2> HIDE DEF r
  <2>3. /\ tlm' \in Report /\ ack' \in Slot /\ txWork' \in Work /\ histWork' \in Work
        /\ SlotHeld(ack', y.cur, tlm', hist) /\ (~tlm'.open \/ Due(txWork'))
        /\ \/ ack' = y.ack /\ histWork' = y.hist
           \/ /\ y.ack.kind = "telemetry" /\ ack'.kind = "none"
              /\ (hist.active => Due(histWork'))
    BY <1>0, <2>1, <2>2, TlmEndsOps
  <2>4. HistServed(hist, y.ack, y.hist, "none") => HistServed(hist, ack', histWork', run'.path)
    BY <1>2, <2>3 DEF HistServed
  <2> QED BY <1>2, <2>3, <2>4 DEF ReportGoes
<1>3. CASE /\ Transmits(y.ack, "telemetry") /\ InFlight("tlm", "telemetry", y.ack, FALSE)
           /\ tlm' = t /\ ack' = y.ack /\ txWork' = y.tx /\ histWork' = y.hist
  <2>1. run'.path = "tlm" /\ run' \in Sends
    BY <1>3 DEF InFlight, Sends
  <2>2. y.ack.kind \in {"none", "telemetry"}
    BY <1>3 DEF Transmits, Bounced
  <2> QED BY <1>0, <1>3, <2>1, <2>2 DEF HistServed, ReportGoes
<1> QED BY <1>1, <1>2, <1>3 DEF TlmSend

LEMMA FlushSendOps ==
  ASSUME p2p \in Radios, hist \in Replay, run \in Sends, run.path = "none",
         NEW t, NEW y, ReportMayGo(t, y), ~t.held, FlushSend(t, y)
  PROVE  ReportGoes(y)
<1>0. /\ t \in Report /\ t.open /\ y.ack \in Slot /\ y.tx \in Work /\ y.hist \in Work
      /\ SlotHeld(y.ack, y.cur, t, hist) /\ y.ack.kind \in {"none", "history"}
  BY DEF ReportMayGo, SlotHeld
<1>1. CASE /\ Bounced(y.ack, "telemetry") /\ FlushEnds("busy", t, y.ack, y.tx, y.hist)
           /\ run' = run
  <2>1. "busy" \in Results
    BY DEF Results
  <2>2. tlm' = t /\ ack' = y.ack /\ txWork' = y.tx /\ histWork' = y.hist
    BY <1>0, <1>1, <2>1, FlushEndsOps
  <2>3. ack'.kind = "history"
    BY <1>0, <1>1, <2>2 DEF Bounced
  <2> QED BY <1>0, <1>1, <2>2, <2>3 DEF ReportGoes
<1>2. CASE /\ ~Bounced(y.ack, "telemetry") /\ FlushEnds("wait", t, y.ack, y.tx, y.hist)
           /\ run' = run
  <2>1. "wait" \in Results /\ "wait" # "busy"
    BY DEF Results
  <2>2. /\ tlm' \in Report /\ ack' \in Slot /\ txWork' \in Work /\ histWork' \in Work
        /\ SlotHeld(ack', y.cur, tlm', hist) /\ (~tlm'.open \/ Due(txWork'))
        /\ \/ ack' = y.ack /\ histWork' = y.hist
           \/ /\ y.ack.kind = "telemetry" /\ ack'.kind = "none"
              /\ (hist.active => Due(histWork'))
    BY <1>0, <1>2, <2>1, FlushEndsOps
  <2>3. HistServed(hist, y.ack, y.hist, "none") => HistServed(hist, ack', histWork', run'.path)
    BY <1>2, <2>2 DEF HistServed
  <2> QED BY <1>2, <2>2, <2>3 DEF ReportGoes
<1>3. CASE /\ Transmits(y.ack, "telemetry") /\ InFlight("flush", "telemetry", y.ack, TRUE)
           /\ tlm' = t /\ ack' = y.ack /\ txWork' = y.tx /\ histWork' = y.hist
  <2>1. run'.path = "flush" /\ run' \in Sends
    BY <1>3 DEF InFlight, Sends
  <2>2. y.ack.kind = "none"
    BY <1>0, <1>3 DEF Transmits, Bounced
  <2> QED BY <1>0, <1>3, <2>1, <2>2 DEF HistServed, ReportGoes
<1> QED BY <1>1, <1>2, <1>3 DEF FlushSend

-----------------------------------------------------------------------------
(* m_tx_work *)

Flags == ready \in BOOLEAN /\ backoff \in BOOLEAN /\ listening \in BOOLEAN

\* The radio is chosen at boot, so the types stay what they are.
LEMMA TypeStays ==
  ASSUME UNCHANGED p2p, p2p \in Radios, Flags',
         answers' \in Seq(Answer), Len(answers') <= QueueDepth,
         alarms' \in Seq(Frames), Len(alarms') <= QueueDepth,
         cur' \in Hand, tlm' \in Report, hist' \in Replay, ack' \in Slot,
         txWork' \in Work, histWork' \in Work, run' \in Sends, made' \in Frames
  PROVE  TypeOK'
<1>1. Frames' = Frames /\ Failures' = Failures
  BY DEF Frames, Failures
<1>2. Answer' = Answer /\ Hand' = Hand
  BY <1>1 DEF Answer, Hand
<1>3. Report' = Report /\ Replay' = Replay
  BY <1>1 DEF Report, Replay
<1>4. ready' \in BOOLEAN /\ backoff' \in BOOLEAN /\ listening' \in BOOLEAN
  BY DEF Flags
<1>5. p2p' \in Radios
  OBVIOUS
<1> QED BY <1>1, <1>2, <1>3, <1>4, <1>5 DEF TypeOK

\* The types of the state, part by part.
LEMMA TypeParts ==
  ASSUME TypeOK
  PROVE  /\ p2p \in Radios /\ Flags
         /\ answers \in Seq(Answer) /\ Len(answers) <= QueueDepth
         /\ alarms \in Seq(Frames) /\ Len(alarms) <= QueueDepth
         /\ cur \in Hand /\ tlm \in Report /\ hist \in Replay /\ ack \in Slot
         /\ txWork \in Work /\ histWork \in Work /\ run \in Sends /\ made \in Frames
BY DEF TypeOK, Flags

\* What the handler of the queues goes on with is in order and its slot held.
View(y) ==
  /\ y.answers \in Seq(Answer) /\ Len(y.answers) <= QueueDepth
  /\ y.cur \in Hand /\ y.ack \in Slot /\ y.tx \in Work /\ y.hist \in Work
  /\ SlotHeld(y.ack, y.cur, tlm, hist)
  /\ InOrder(y.cur, y.answers, made)
  /\ HistServed(hist, ack, histWork, "none") => HistServed(hist, y.ack, y.hist, "none")

\* A yield puts the answer in hand back to where it was taken from and frees its
\* slot; an alarm in hand stays.
LEMMA YieldOps ==
  ASSUME SchedInv
  PROVE  /\ View(AfterYield)
         /\ Yields => AfterYield.cur.kind \in {"none", "alarm"}
                      /\ AfterYield.ack.kind \in {"none", "alarm"}
<1> DEFINE y == AfterYield
           gives == Yields /\ ack.kind # "alarm"
           w == Started(txWork)
<1>0. /\ p2p \in Radios /\ answers \in Seq(Answer) /\ Len(answers) <= QueueDepth
      /\ cur \in Hand /\ hist \in Replay /\ ack \in Slot /\ txWork \in Work /\ histWork \in Work
      /\ SlotHeld(ack, cur, tlm, hist) /\ InOrder(cur, answers, made)
  BY TypeParts DEF SchedInv
<1>1. /\ y.answers = IF Yields /\ cur.kind = "answer" THEN PutBack(answers) ELSE answers
      /\ y.cur = IF Yields /\ cur.kind = "answer" THEN NoCur ELSE cur
      /\ y.ack = IF gives THEN NoAck ELSE ack
      /\ y.tx = IF gives THEN WakesTx(ack, ack.kind, w) ELSE w
      /\ y.hist = IF gives THEN WakesHist(ack, ack.kind, hist, histWork) ELSE histWork
  BY DEF AfterYield
<1> HIDE DEF y
<1>2. w \in Work
  BY <1>0, WorkOps
<1> HIDE DEF w
<1>3. y.tx \in Work
  BY <1>0, <1>1, <1>2, WakesTxOps
<1>4. y.hist \in Work
  BY <1>0, <1>1, WakesHistOps
<1>5. y.ack \in Slot
  BY <1>0, <1>1, ReleasedOps
<1>6. y.cur \in Hand
  BY <1>0, <1>1, Limits DEF NoCur, Hand, Frames, Tags, Failures
<1>7. /\ y.answers \in Seq(Answer) /\ Len(y.answers) <= QueueDepth
      /\ InOrder(y.cur, y.answers, made)
  <2>1. CASE Yields /\ cur.kind = "answer"
    <3>1. Len(answers) # QueueDepth /\ Len(answers) \in Nat /\ QueueDepth \in Nat
      BY <1>0, <2>1, Limits DEF Yields
    <3>2. Len(answers) + 1 <= QueueDepth
      BY <1>0, <3>1
    <3> QED BY <1>0, <1>1, <2>1, <3>2, PutBackKeepsOrder
  <2>2. CASE ~(Yields /\ cur.kind = "answer")
    BY <1>0, <1>1, <2>2
  <2> QED BY <2>1, <2>2
<1>8. SlotHeld(y.ack, y.cur, tlm, hist)
  <2>1. CASE gives
    BY <1>1, <2>1 DEF SlotHeld, NoAck
  <2>2. CASE ~gives /\ Yields
    <3>1. cur.kind = "alarm"
      BY <1>0, <2>2 DEF SlotHeld
    <3> QED BY <1>0, <1>1, <2>2, <3>1
  <2>3. CASE ~Yields
    BY <1>0, <1>1, <2>3
  <2> QED BY <2>1, <2>2, <2>3
<1>9. HistServed(hist, ack, histWork, "none") => HistServed(hist, y.ack, y.hist, "none")
  <2>1. CASE gives
    <3>1. y.hist = WakesHist(ack, ack.kind, hist, histWork)
      BY <1>1, <2>1
    <3>2. Due(histWork) => Due(y.hist)
      BY <1>0, <3>1, WakesHistOps
    <3>3. ack.kind # "history" /\ hist.active => Due(y.hist)
      BY <1>0, <3>1, WakesHistOps
    <3> QED BY <3>2, <3>3 DEF HistServed
  <2>2. CASE ~gives
    BY <1>1, <2>2
  <2> QED BY <2>1, <2>2
<1>10. Yields => y.cur.kind \in {"none", "alarm"} /\ y.ack.kind \in {"none", "alarm"}
  BY <1>0, <1>1 DEF Hand, NoCur, NoAck
<1> QED BY <1>3, <1>4, <1>5, <1>6, <1>7, <1>8, <1>9, <1>10 DEF View, y

\* What a run of m_tx_work keeps ...
StepKeeps ==
  /\ answers' \in Seq(Answer) /\ Len(answers') <= QueueDepth
  /\ alarms' \in Seq(Frames) /\ Len(alarms') <= QueueDepth
  /\ cur' \in Hand /\ tlm' \in Report /\ ack' \in Slot /\ run' \in Sends
  /\ txWork' \in Work /\ histWork' \in Work
  /\ SlotHeld(ack', cur', tlm', hist) /\ InOrder(cur', answers', made)
  /\ InSend(run', cur', tlm', hist, ack')
  /\ Overtaken(run', ack', cur', answers', alarms', txWork')

\* ... and whom it serves, the end of a report that waited for its Ack aside.
StepServes ==
  /\ \/ listening \/ (ack.kind = "telemetry" /\ tlm.open /\ ~tlm'.open)
     \/ TxServed(cur', answers', alarms', tlm', ack', txWork', run'.path)
  /\ HistServed(hist, ack, histWork, "none") => HistServed(hist, ack', histWork', run'.path)

\* The queued frames.
LEMMA QueuedStepOps ==
  ASSUME SchedInv, run = Idle, NEW y, View(y), QueuedStep(y)
  PROVE  StepKeeps /\ StepServes
<1>0. /\ p2p \in Radios /\ alarms \in Seq(Frames) /\ Len(alarms) <= QueueDepth
      /\ tlm \in Report /\ hist \in Replay /\ run \in Sends /\ run.path = "none"
  BY TypeParts DEF SchedInv, Idle
<1>1. /\ y.answers \in Seq(Answer) /\ Len(y.answers) <= QueueDepth
      /\ y.cur \in Hand /\ y.ack \in Slot /\ y.tx \in Work /\ y.hist \in Work
      /\ SlotHeld(y.ack, y.cur, tlm, hist) /\ InOrder(y.cur, y.answers, made)
      /\ HistServed(hist, ack, histWork, "none") => HistServed(hist, y.ack, y.hist, "none")
  BY DEF View
<1>2. tlm' = tlm /\ y.ack.kind # "telemetry"
  BY DEF QueuedStep, ReportFirst
<1>3. ASSUME NEW c \in Hand, c.kind # "none", CurSend(c, y), SlotHeld(y.ack, c, tlm, hist),
             answers' \in Seq(Answer), Len(answers') <= QueueDepth,
             alarms' \in Seq(Frames), Len(alarms') <= QueueDepth,
             InOrder(c, answers', made)
      PROVE  StepKeeps /\ StepServes
  <2>1. /\ cur' \in Hand /\ ack' \in Slot /\ txWork' \in Work /\ histWork' \in Work
        /\ run' \in Sends /\ run'.path \in {"none", "cur"}
        /\ SlotHeld(ack', cur', tlm, hist)
        /\ \A q, n : InOrder(c, q, n) => InOrder(cur', q, n)
        /\ run'.path = "cur" => cur'.kind # "none" /\ ack'.kind \in {"none", cur'.kind}
        /\ listening \/ ack'.kind = "history" \/ Due(txWork') \/ run'.path = "cur"
        /\ HistServed(hist, y.ack, y.hist, "none") => HistServed(hist, ack', histWork', run'.path)
    BY <1>0, <1>1, <1>2, <1>3, CurSendOps
  <2>2. InOrder(cur', answers', made)
    BY <1>3, <2>1
  <2>3. InSend(run', cur', tlm', hist, ack')
    BY <2>1 DEF InSend
  <2>4. Overtaken(run', ack', cur', answers', alarms', txWork')
    BY <2>1 DEF Overtaken
  <2>5. listening \/ TxServed(cur', answers', alarms', tlm', ack', txWork', run'.path)
    BY <2>1 DEF TxServed
  <2>6. HistServed(hist, ack, histWork, "none") => HistServed(hist, ack', histWork', run'.path)
    BY <1>1, <2>1
  <2> QED BY <1>0, <1>2, <1>3, <2>1, <2>2, <2>3, <2>4, <2>5, <2>6 DEF StepKeeps, StepServes
<1>4. CASE y.cur.kind # "none" /\ CurSend(y.cur, y) /\ answers' = y.answers /\ alarms' = alarms
  BY <1>0, <1>1, <1>3, <1>4
<1>5. CASE /\ TakesAnswer(y) /\ CurSend(FromQueue(Head(y.answers)), y)
           /\ answers' = Tail(y.answers) /\ alarms' = alarms
  <2> DEFINE c == FromQueue(Head(y.answers))
  <2>1. y.cur.kind = "none" /\ y.answers # <<>>
    BY <1>5 DEF TakesAnswer
  <2>2. Head(y.answers) \in Answer /\ Tail(y.answers) \in Seq(Answer)
        /\ Len(Tail(y.answers)) = Len(y.answers) - 1
    BY <1>1, <2>1, HeadTailProperties
  <2>3. c \in Hand /\ c.kind = "answer"
    BY <1>0, <2>2, Limits DEF FromQueue, Answer, Hand, Failures
  <2>4. InOrder(c, answers', made)
    BY <1>0, <1>1, <1>5, <2>1, TakingKeepsOrder
  <2>5. SlotHeld(y.ack, c, tlm, hist)
    BY <1>1, <2>1 DEF SlotHeld
  <2>6. Len(answers') <= QueueDepth
    BY <1>0, <1>1, <1>5, <2>2, Limits
  <2> HIDE DEF c
  <2> QED BY <1>0, <1>3, <1>5, <2>2, <2>3, <2>4, <2>5, <2>6 DEF c
<1>6. CASE /\ TakesAlarm(y) /\ CurSend([NoCur EXCEPT !.kind = "alarm", !.id = Head(alarms)], y)
           /\ answers' = y.answers /\ alarms' = Tail(alarms)
  <2> DEFINE c == [NoCur EXCEPT !.kind = "alarm", !.id = Head(alarms)]
  <2>1. y.cur.kind = "none" /\ alarms # <<>>
    BY <1>6 DEF TakesAlarm
  <2>2. Head(alarms) \in Frames /\ Tail(alarms) \in Seq(Frames)
        /\ Len(Tail(alarms)) = Len(alarms) - 1
    BY <1>0, <2>1, HeadTailProperties
  <2>3. c \in Hand /\ c.kind = "alarm"
    <3>1. 0 \in Failures
      BY <1>0, Limits DEF Failures
    <3> QED BY <2>2, <3>1 DEF NoCur, Hand, Tags
  <2>4. InOrder(c, answers', made)
    BY <1>1, <1>6, <2>3 DEF InOrder
  <2>5. SlotHeld(y.ack, c, tlm, hist)
    BY <1>1, <2>1 DEF SlotHeld
  <2>6. Len(alarms') <= QueueDepth
    BY <1>0, <1>6, <2>2, Limits
  <2>7. CurSend(c, y)
    BY <1>6
  <2> HIDE DEF c
  <2> QED BY <1>1, <1>3, <1>6, <2>2, <2>3, <2>4, <2>5, <2>6, <2>7
<1>7. CASE /\ txWork' = Later(y.tx, "backoff") /\ histWork' = y.hist
           /\ answers' = y.answers /\ cur' = y.cur /\ ack' = y.ack
           /\ alarms' = alarms /\ run' = run
  <2>1. txWork' \in Work /\ Due(txWork')
    BY <1>1, <1>7, WorkOps
  <2>2. StepKeeps
    BY <1>0, <1>1, <1>2, <1>7, <2>1 DEF StepKeeps, InSend, Overtaken
  <2>3. StepServes
    BY <1>0, <1>1, <1>7, <2>1 DEF StepServes, TxServed
  <2> QED BY <2>2, <2>3
<1> QED BY <1>4, <1>5, <1>6, <1>7 DEF QueuedStep

\* The report.
LEMMA TlmStepOps ==
  ASSUME SchedInv, run = Idle, NEW y, View(y), y.ack = ack \/ y.ack.kind \in {"none", "alarm"},
         TlmStep(y)
  PROVE  StepKeeps /\ StepServes
<1>0. /\ p2p \in Radios /\ alarms \in Seq(Frames) /\ Len(alarms) <= QueueDepth
      /\ tlm \in Report /\ hist \in Replay /\ run \in Sends /\ run.path = "none"
  BY TypeParts DEF SchedInv, Idle
<1>1. /\ y.answers \in Seq(Answer) /\ Len(y.answers) <= QueueDepth
      /\ y.cur \in Hand /\ y.ack \in Slot /\ y.tx \in Work /\ y.hist \in Work
      /\ SlotHeld(y.ack, y.cur, tlm, hist) /\ InOrder(y.cur, y.answers, made)
      /\ HistServed(hist, ack, histWork, "none") => HistServed(hist, y.ack, y.hist, "none")
  BY DEF View
<1>2. answers' = y.answers /\ cur' = y.cur /\ alarms' = alarms
  BY DEF TlmStep
<1>3. \/ y.ack.kind = "telemetry" /\ tlm.open /\ tlm.held
      \/ /\ y.cur.kind = "none" /\ y.answers = <<>> /\ alarms = <<>>
         /\ y.ack.kind \in {"none", "history"}
  <2>1. CASE y.ack.kind = "telemetry"
    BY <1>1, <2>1 DEF SlotHeld
  <2>2. CASE y.ack.kind # "telemetry"
    <3>1. y.cur.kind = "none" /\ y.answers = <<>> /\ alarms = <<>>
      BY <2>2 DEF TlmStep, ReportFirst, NothingQueued
    <3>2. y.ack.kind \in {"none", "history"}
      BY <1>1, <2>2, <3>1 DEF SlotHeld, Slot, Kinds
    <3> QED BY <3>1, <3>2
  <2> QED BY <2>1, <2>2
<1>4. y.ack.kind \in {"none", "telemetry", "history"}
  BY <1>3
<1>5. y.ack.kind = "telemetry" => ack.kind = "telemetry" /\ tlm.open
  BY <1>3
<1>6. y.ack.kind # "telemetry" => ~Waiting(cur', answers', alarms')
  BY <1>2, <1>3 DEF Waiting
<1>7. ASSUME ReportGoes(y) PROVE StepKeeps /\ StepServes
  <2>1. /\ tlm' \in Report /\ ack' \in Slot /\ txWork' \in Work /\ histWork' \in Work
        /\ run' \in Sends /\ SlotHeld(ack', cur', tlm', hist)
        /\ run'.path \in {"none", "tlm", "flush"}
        /\ run'.path = "tlm" => tlm'.open /\ tlm'.held /\ ack'.kind \in {"none", "telemetry"}
        /\ run'.path = "flush" => tlm'.open /\ ~tlm'.held /\ ack'.kind = "none"
        /\ run'.path # "none" => ack' = y.ack
        /\ \/ listening \/ ack'.kind = "history" \/ Due(txWork') \/ run'.path \in {"tlm", "flush"}
           \/ ~tlm'.open
        /\ HistServed(hist, y.ack, y.hist, "none") => HistServed(hist, ack', histWork', run'.path)
    BY <1>2, <1>7 DEF ReportGoes
  <2>2. InSend(run', cur', tlm', hist, ack')
    BY <2>1 DEF InSend
  <2>3. Overtaken(run', ack', cur', answers', alarms', txWork')
    BY <1>6, <2>1 DEF Overtaken
  <2>4. \/ listening \/ (ack.kind = "telemetry" /\ tlm.open /\ ~tlm'.open)
        \/ TxServed(cur', answers', alarms', tlm', ack', txWork', run'.path)
    BY <1>5, <1>6, <2>1, Zenon DEF TxServed
  <2> QED BY <1>0, <1>1, <1>2, <2>1, <2>2, <2>3, <2>4 DEF StepKeeps, StepServes
<1>8. CASE /\ ~tlm.open
           /\ txWork' = y.tx /\ histWork' = y.hist /\ ack' = y.ack /\ tlm' = tlm /\ run' = run
  <2>1. ~Waiting(cur', answers', alarms') /\ ~tlm'.open
    BY <1>3, <1>6, <1>8
  <2>2. StepKeeps
    BY <1>0, <1>1, <1>2, <1>8 DEF StepKeeps, InSend, Overtaken
  <2>3. StepServes
    BY <1>0, <1>1, <1>8, <2>1 DEF StepServes, TxServed
  <2> QED BY <2>2, <2>3
<1>9. CASE tlm.open \/ (tlm.asked /\ ~hist.active)
  <2> DEFINE t == IF tlm.open THEN tlm ELSE Opened
  <2>1. t \in Report /\ t.open /\ SlotHeld(y.ack, y.cur, t, hist)
    <3>1. Opened \in Report /\ Opened.open
      <4>1. 0 \in 0..MaxPages[p2p] /\ 0 \in Failures
        BY <1>0, Limits DEF Failures
      <4>2. NoReport \in Report
        BY <4>1 DEF NoReport, Report
      <4> QED BY <4>2 DEF Opened, NoReport, Report
    <3>2. ~tlm.open => y.ack.kind # "telemetry"
      BY <1>1 DEF SlotHeld
    <3> QED BY <1>0, <1>1, <3>1, <3>2 DEF SlotHeld
  <2>2. t.held => tlm.open
    BY DEF Opened, NoReport
  <2>3. /\ \/ t.held /\ TlmSend(t, y)
           \/ ~t.held /\ t.page < MaxPages[p2p] /\ \E u \in Composed(t) : TlmSend(u, y)
           \/ ~t.held /\ FlushSend(t, y)
           \/ ~t.held /\ TlmCloses(t, y.ack, y.tx, y.hist) /\ run' = run
    BY <1>9 DEF TlmStep
  <2> HIDE DEF t
  <2>4. ReportMayGo(t, y)
    BY <1>1, <1>4, <2>1 DEF ReportMayGo
  <2>5. CASE t.held /\ TlmSend(t, y)
    BY <1>0, <1>7, <2>4, <2>5, TlmSendOps
  <2>6. CASE ~t.held /\ t.page < MaxPages[p2p] /\ \E u \in Composed(t) : TlmSend(u, y)
    <3>1. PICK u \in Composed(t) : TlmSend(u, y)
      BY <2>6
    <3>2. PICK m \in {FALSE} \union {t.page + 1 < MaxPages[p2p]} :
            u = [t EXCEPT !.held = TRUE, !.page = @ + 1, !.more = m, !.tries = 0]
      BY <3>1, Zenon DEF Composed
    <3>7. m \in BOOLEAN
      <4>1. (t.page + 1 < MaxPages[p2p]) \in BOOLEAN
        OBVIOUS
      <4> QED BY <3>2, <4>1, Zenon
    <3>3. t.page + 1 \in 0..MaxPages[p2p] /\ 0 \in Failures
      BY <1>0, <2>1, <2>6, Limits DEF Report, Failures
    <3>4. u \in Report /\ u.open /\ u.held
      BY <2>1, <3>2, <3>3, <3>7 DEF Report
    <3>5. y.ack.kind # "telemetry"
      BY <2>1, <2>6 DEF SlotHeld
    <3>6. ReportMayGo(u, y)
      BY <1>1, <1>4, <3>4, <3>5 DEF ReportMayGo, SlotHeld
    <3> QED BY <1>0, <1>7, <3>1, <3>4, <3>6, TlmSendOps
  <2>7. CASE ~t.held /\ FlushSend(t, y)
    BY <1>0, <1>7, <2>4, <2>7, FlushSendOps
  <2>8. CASE ~t.held /\ TlmCloses(t, y.ack, y.tx, y.hist) /\ run' = run
    <3>1. y.ack.kind # "telemetry"
      BY <2>1, <2>8 DEF SlotHeld
    <3>2. /\ tlm' \in Report /\ ack' \in Slot /\ txWork' = y.tx /\ histWork' = y.hist
          /\ ~tlm'.open /\ ack' = y.ack /\ SlotHeld(ack', y.cur, tlm', hist)
      BY <1>0, <1>1, <2>1, <2>8, <3>1, TlmClosesOps
    <3> QED BY <1>0, <1>1, <1>7, <2>8, <3>2 DEF ReportGoes
  <2> QED BY <2>3, <2>5, <2>6, <2>7, <2>8
<1> QED BY <1>8, <1>9 DEF TlmStep

-----------------------------------------------------------------------------
(* The handlers, one by one: each keeps the invariant and the wake-ups *)

Up == ready /\ ~listening

\* Awake is the two halves, on a link that may send.
LEMMA AwakeHalves ==
  Awake <=> (Up => /\ TxServed(cur, answers, alarms, tlm, ack, txWork, run.path)
                   /\ HistServed(hist, ack, histWork, run.path))
BY Zenon DEF Awake, Up, TxServed, HistServed, Waiting, TxHasFrame, TxAwake, HistAwake

LEMMA AwakeHalvesNext ==
  Awake' <=> (Up' => /\ TxServed(cur', answers', alarms', tlm', ack', txWork', run'.path)
                     /\ HistServed(hist', ack', histWork', run'.path))
BY Zenon DEF Awake, Up, TxServed, HistServed, Waiting, TxHasFrame, TxAwake, HistAwake

\* The same handler's step, in the terms of the invariant.
LEMMA StepIsSafe ==
  ASSUME SchedInv, UNCHANGED p2p, UNCHANGED <<link, hist, made>>, StepKeeps
  PROVE  SchedInv'
<1>1. /\ p2p \in Radios /\ Flags /\ hist \in Replay /\ made \in Frames
  BY TypeParts DEF SchedInv
<1>2. Flags'
  BY <1>1 DEF Flags, link
<1>3. hist' = hist /\ made' = made
  OBVIOUS
<1>4. TypeOK'
  BY <1>1, <1>2, <1>3, TypeStays DEF StepKeeps
<1> QED BY <1>3, <1>4 DEF SchedInv, StepKeeps

LEMMA TxStartsKeeps ==
  ASSUME SchedInv, UNCHANGED p2p, TxStarts
  PROVE  SchedInv' /\ (Awake /\ ~DropsReport => Awake')
<1>0. /\ p2p \in Radios /\ alarms \in Seq(Frames) /\ Len(alarms) <= QueueDepth
      /\ answers \in Seq(Answer) /\ Len(answers) <= QueueDepth /\ cur \in Hand
      /\ tlm \in Report /\ hist \in Replay /\ ack \in Slot /\ run \in Sends
      /\ txWork \in Work /\ histWork \in Work
      /\ SlotHeld(ack, cur, tlm, hist) /\ InOrder(cur, answers, made)
  BY TypeParts DEF SchedInv
<1>1. run = Idle /\ run.path = "none" /\ UNCHANGED <<link, hist, made>>
  BY DEF TxStarts, Idle
<1>2. Started(txWork) \in Work
  BY <1>0, WorkOps
<1>3. CASE /\ ~ready /\ TlmCloses(tlm, ack, Started(txWork), histWork)
           /\ UNCHANGED <<answers, alarms, cur, run>>
  <2>1. /\ tlm' \in Report /\ ack' \in Slot /\ txWork' = Started(txWork) /\ histWork' \in Work
        /\ SlotHeld(ack', cur, tlm', hist)
    BY <1>0, <1>2, <1>3, TlmClosesOps
  <2>2. StepKeeps
    BY <1>0, <1>1, <1>2, <1>3, <2>1 DEF StepKeeps, InSend, Overtaken
  <2>3. ~Up'
    BY <1>1, <1>3 DEF Up, link
  <2> QED BY <1>1, <2>2, <2>3, StepIsSafe, AwakeHalvesNext
<1>4. CASE /\ ~ready /\ txWork' = Started(txWork)
           /\ UNCHANGED <<answers, alarms, cur, run, tlm, ack, histWork>>
  <2>1. StepKeeps
    BY <1>0, <1>1, <1>2, <1>4 DEF StepKeeps, InSend, Overtaken
  <2>2. ~Up'
    BY <1>1, <1>4 DEF Up, link
  <2> QED BY <1>1, <2>1, <2>2, StepIsSafe, AwakeHalvesNext
<1>5. CASE ready /\ (QueuedStep(AfterYield) \/ TlmStep(AfterYield))
  <2>1. View(AfterYield)
    BY YieldOps
  <2>2. AfterYield.ack = ack \/ AfterYield.ack.kind \in {"none", "alarm"}
    BY YieldOps DEF AfterYield
  <2>3. StepKeeps /\ StepServes
    BY <1>1, <1>5, <2>1, <2>2, QueuedStepOps, TlmStepOps
  <2>4. Awake /\ ~DropsReport => Awake'
    <3> SUFFICES ASSUME Awake, ~DropsReport, Up' PROVE Awake'
      BY AwakeHalvesNext
    <3>1. Up /\ ~listening /\ ready
      BY <1>1 DEF Up, link
    <3>2. HistServed(hist, ack, histWork, "none")
      BY <1>1, <3>1, AwakeHalves
    <3>3. HistServed(hist', ack', histWork', run'.path)
      BY <1>1, <2>3, <3>2 DEF StepServes
    <3>4. TxServed(cur', answers', alarms', tlm', ack', txWork', run'.path)
      BY <2>3, <3>1, Zenon DEF StepServes, DropsReport
    <3> QED BY <3>3, <3>4, AwakeHalvesNext
  <2> QED BY <1>1, <2>3, <2>4, StepIsSafe
<1> QED BY <1>3, <1>4, <1>5 DEF TxStarts

LEMMA CurReturnsKeeps ==
  ASSUME SchedInv, UNCHANGED p2p, CurReturns
  PROVE  SchedInv' /\ (Awake => Awake')
<1>0. /\ p2p \in Radios /\ alarms \in Seq(Frames) /\ Len(alarms) <= QueueDepth
      /\ answers \in Seq(Answer) /\ Len(answers) <= QueueDepth /\ cur \in Hand
      /\ tlm \in Report /\ hist \in Replay /\ ack \in Slot
      /\ txWork \in Work /\ histWork \in Work
      /\ SlotHeld(ack, cur, tlm, hist) /\ InOrder(cur, answers, made)
  BY TypeParts DEF SchedInv
<1>1. /\ run.path = "cur" /\ run' = Idle /\ run' \in Sends /\ run'.path = "none"
      /\ UNCHANGED <<link, hist, made>> /\ answers' = answers /\ alarms' = alarms /\ tlm' = tlm
  BY DEF CurReturns, queues, Idle, Sends
<1>2. cur.kind # "none" /\ ack.kind \in {"none", cur.kind}
  BY <1>1 DEF SchedInv, InSend
<1>3. cur.kind \in Kinds /\ cur.kind \in {"answer", "alarm"}
  BY <1>0, <1>2 DEF Hand, Kinds
<1>4. PICK o \in Outcomes(cur.kind) :
        CurEnds(Result(ack, cur.kind, o), cur, AckAfter(ack, cur.kind, o, cur.id), txWork,
                IF AckAfter(ack, cur.kind, o, cur.id) = NoAck
                THEN WakesHist(ack, cur.kind, hist, histWork) ELSE histWork)
  BY DEF CurReturns
<1>5. o \in {"ok", "fault", "noack", "again", "toobig"}
  BY <1>4, Zenon DEF Outcomes
<1> DEFINE k == cur.kind
           r == Result(ack, k, o)
           a == AckAfter(ack, k, o, cur.id)
           h == IF a = NoAck THEN WakesHist(ack, k, hist, histWork) ELSE histWork
<1>6. cur.id \in Place
  BY <1>0, Limits DEF Hand, Frames, Place
<1>7. /\ a \in Slot /\ r \in Results \ {"busy", "wait"} /\ a.kind \in {"none", k}
      /\ r \in {"ok", "toobig"} => a.kind = "none"
      /\ r = "ackretry" => a.kind = k /\ a.frame = cur.id
      /\ r \in {"fault", "again", "backoff"} => a = ack
      /\ a.kind = "none" => a = IF ack.kind = k THEN NoAck ELSE ack
  <2>1. SlotAfter(ack, a, r, k, cur.id)
    BY <1>0, <1>2, <1>3, <1>5, <1>6, AckAfterOps
  <2> HIDE DEF r, a, h
  <2> QED BY <2>1 DEF SlotAfter
<1>8. /\ h \in Work /\ (Due(histWork) => Due(h))
      /\ a = NoAck /\ ack.kind = k /\ hist.active => Due(h)
  BY <1>0, <1>3, WakesHistOps DEF Kinds
<1>9. CurEnds(r, cur, a, txWork, h)
  BY <1>4
<1> HIDE DEF r, a, h
<1>10. SlotHeld(a, cur, tlm, hist)
  BY <1>0, <1>3, <1>7 DEF SlotHeld, Results
<1>11. cur' \in Hand /\ ack' \in Slot /\ txWork' \in Work /\ histWork' \in Work
  BY <1>0, <1>7, <1>8, <1>9, CurEndsTyped
<1>12. SlotHeld(ack', cur', tlm, hist)
  BY <1>0, <1>2, <1>7, <1>9, <1>10, CurEndsOwned
<1>13. InOrder(cur', answers, made)
  BY <1>0, <1>9, CurEndsInOrder
<1>14. StepKeeps
  BY <1>0, <1>1, <1>11, <1>12, <1>13 DEF StepKeeps, InSend, Overtaken
<1>15. /\ Due(txWork')
       /\ \/ ack' = a /\ histWork' = h
          \/ a.kind = k /\ (hist.active => Due(histWork'))
  BY <1>0, <1>2, <1>7, <1>8, <1>9, CurEndsServed
<1>16. Awake => Awake'
  <2> SUFFICES ASSUME Awake, Up' PROVE Awake'
    BY AwakeHalvesNext
  <2>1. Up
    BY <1>1 DEF Up, link
  <2>2. HistServed(hist, ack, histWork, "cur")
    BY <1>1, <2>1, AwakeHalves
  <2>3. HistServed(hist, ack', histWork', "none")
    BY <1>2, <1>3, <1>7, <1>8, <1>15, <2>2 DEF HistServed
  <2>4. TxServed(cur', answers', alarms', tlm', ack', txWork', run'.path)
    BY <1>15 DEF TxServed
  <2> QED BY <1>1, <2>3, <2>4, AwakeHalvesNext
<1> QED BY <1>1, <1>14, <1>16, StepIsSafe

LEMMA TlmReturnsKeeps ==
  ASSUME SchedInv, UNCHANGED p2p, TlmReturns
  PROVE  SchedInv' /\ (Awake /\ ~DropsReport => Awake')
<1>0. /\ p2p \in Radios /\ alarms \in Seq(Frames) /\ Len(alarms) <= QueueDepth
      /\ answers \in Seq(Answer) /\ Len(answers) <= QueueDepth /\ cur \in Hand
      /\ tlm \in Report /\ hist \in Replay /\ ack \in Slot
      /\ txWork \in Work /\ histWork \in Work
      /\ SlotHeld(ack, cur, tlm, hist) /\ InOrder(cur, answers, made)
  BY TypeParts DEF SchedInv
<1>1. /\ run.path = "tlm" /\ run' = Idle /\ run' \in Sends /\ run'.path = "none"
      /\ UNCHANGED <<link, hist, made>> /\ answers' = answers /\ alarms' = alarms /\ cur' = cur
  BY DEF TlmReturns, queues, Idle, Sends
<1>2. tlm.open /\ tlm.held /\ ack.kind \in {"none", "telemetry"}
  BY <1>1 DEF SchedInv, InSend
<1>3. PICK o \in Outcomes("telemetry") :
        TlmEnds(Result(ack, "telemetry", o), tlm, AckAfter(ack, "telemetry", o, tlm.page), txWork,
                IF AckAfter(ack, "telemetry", o, tlm.page) = NoAck
                THEN WakesHist(ack, "telemetry", hist, histWork) ELSE histWork)
  BY DEF TlmReturns
<1>4. o \in {"ok", "fault", "noack", "again", "toobig"}
  BY <1>3, Zenon DEF Outcomes
<1> DEFINE k == "telemetry"
           r == Result(ack, k, o)
           a == AckAfter(ack, k, o, tlm.page)
           h == IF a = NoAck THEN WakesHist(ack, k, hist, histWork) ELSE histWork
<1>5. tlm.page \in Place /\ k \in Kinds
  BY <1>0, Limits DEF Report, Place, Kinds
<1>6. /\ a \in Slot /\ r \in Results \ {"busy", "wait"} /\ a.kind \in {"none", k}
      /\ r \in {"ok", "toobig"} => a.kind = "none"
      /\ r = "ackretry" => a.kind = k /\ a.frame = tlm.page
      /\ r \in {"fault", "again", "backoff"} => a = ack
      /\ a.kind = "none" => a = IF ack.kind = k THEN NoAck ELSE ack
  <2>1. SlotAfter(ack, a, r, k, tlm.page)
    BY <1>0, <1>2, <1>4, <1>5, AckAfterOps
  <2> HIDE DEF r, a, h
  <2> QED BY <2>1 DEF SlotAfter
<1>7. /\ h \in Work /\ (Due(histWork) => Due(h))
      /\ a = NoAck /\ ack.kind = k /\ hist.active => Due(h)
  BY <1>0, WakesHistOps
<1>8. TlmEnds(r, tlm, a, txWork, h)
  BY <1>3
<1> HIDE DEF r, a, h
<1>9. SlotHeld(a, cur, tlm, hist)
  BY <1>0, <1>2, <1>6 DEF SlotHeld, Results
<1>10. /\ tlm' \in Report /\ ack' \in Slot /\ txWork' \in Work /\ histWork' \in Work
       /\ SlotHeld(ack', cur, tlm', hist)
       /\ Due(txWork) => Due(txWork')
       /\ ~tlm'.open \/ Due(txWork')
       /\ \/ ack' = a /\ histWork' = h
          \/ a.kind = k /\ ack'.kind = "none" /\ (hist.active => Due(histWork'))
  BY <1>0, <1>6, <1>7, <1>8, <1>9, TlmEndsOps
<1>11. StepKeeps
  BY <1>0, <1>1, <1>10 DEF StepKeeps, InSend, Overtaken
<1>12. Awake /\ ~DropsReport => Awake'
  <2> SUFFICES ASSUME Awake, ~DropsReport, Up' PROVE Awake'
    BY AwakeHalvesNext
  <2>1. Up /\ ready
    BY <1>1 DEF Up, link
  <2>2. HistServed(hist, ack, histWork, "tlm")
    BY <1>1, <2>1, AwakeHalves
  <2>3. HistServed(hist, ack', histWork', "none")
    BY <1>2, <1>6, <1>7, <1>10, <2>2 DEF HistServed
  <2>4. TxServed(cur', answers', alarms', tlm', ack', txWork', run'.path)
    <3>1. CASE Due(txWork')
      BY <3>1 DEF TxServed
    <3>2. CASE ~Due(txWork')
      <4>1. ~tlm'.open /\ ack.kind # "telemetry"
        BY <1>2, <1>10, <2>1, <3>2 DEF DropsReport
      <4>2. ~Waiting(cur, answers, alarms)
        BY <1>1, <1>10, <3>2, <4>1 DEF SchedInv, Overtaken
      <4> QED BY <1>1, <4>1, <4>2 DEF TxServed
    <3> QED BY <3>1, <3>2
  <2> QED BY <1>1, <2>3, <2>4, AwakeHalvesNext
<1> QED BY <1>1, <1>11, <1>12, StepIsSafe

LEMMA FlushReturnsKeeps ==
  ASSUME SchedInv, UNCHANGED p2p, FlushReturns
  PROVE  SchedInv' /\ (Awake => Awake')
<1>0. /\ p2p \in Radios /\ alarms \in Seq(Frames) /\ Len(alarms) <= QueueDepth
      /\ answers \in Seq(Answer) /\ Len(answers) <= QueueDepth /\ cur \in Hand
      /\ tlm \in Report /\ hist \in Replay /\ ack \in Slot
      /\ txWork \in Work /\ histWork \in Work
      /\ SlotHeld(ack, cur, tlm, hist) /\ InOrder(cur, answers, made)
  BY TypeParts DEF SchedInv
<1>1. /\ run.path = "flush" /\ run' = Idle /\ run' \in Sends /\ run'.path = "none"
      /\ UNCHANGED <<link, hist, made>> /\ answers' = answers /\ alarms' = alarms /\ cur' = cur
      /\ FlushEnds("again", tlm, ack, txWork, histWork)
  BY DEF FlushReturns, queues, Idle, Sends
<1>2. tlm.open /\ ack.kind = "none"
  BY <1>1 DEF SchedInv, InSend
<1>3. "again" \in Results /\ "again" # "busy"
  BY DEF Results
<1>4. /\ tlm' \in Report /\ ack' \in Slot /\ txWork' \in Work /\ histWork' \in Work
      /\ SlotHeld(ack', cur, tlm', hist)
      /\ Due(txWork) => Due(txWork')
      /\ ~tlm'.open \/ Due(txWork')
      /\ ack' = ack /\ histWork' = histWork
  BY <1>0, <1>1, <1>2, <1>3, FlushEndsOps
<1>5. StepKeeps
  BY <1>0, <1>1, <1>4 DEF StepKeeps, InSend, Overtaken
<1>6. Awake => Awake'
  <2> SUFFICES ASSUME Awake, Up' PROVE Awake'
    BY AwakeHalvesNext
  <2>1. Up
    BY <1>1 DEF Up, link
  <2>2. HistServed(hist, ack', histWork', "none")
    BY <1>1, <1>4, <2>1, AwakeHalves DEF HistServed
  <2>3. TxServed(cur', answers', alarms', tlm', ack', txWork', run'.path)
    <3>1. CASE Due(txWork')
      BY <3>1 DEF TxServed
    <3>2. CASE ~Due(txWork')
      <4>1. ~tlm'.open /\ ~Waiting(cur, answers, alarms)
        BY <1>1, <1>2, <1>4, <3>2 DEF SchedInv, Overtaken
      <4> QED BY <1>1, <4>1 DEF TxServed
    <3> QED BY <3>1, <3>2
  <2> QED BY <1>1, <2>2, <2>3, AwakeHalvesNext
<1> QED BY <1>1, <1>5, <1>6, StepIsSafe

-----------------------------------------------------------------------------
(* m_hist_work *)

\* A replay that ends frees its slot and wakes m_tx_work.
LEMMA HistFinishesOps ==
  ASSUME p2p \in Radios, txWork \in Work, NEW a \in Slot, NEW w \in Work, NEW c, NEW t, NEW g,
         SlotHeld(a, c, t, g), HistFinishes(a, w)
  PROVE  /\ hist' \in Replay /\ ack' \in Slot /\ txWork' \in Work /\ histWork' \in Work
         /\ SlotHeld(ack', c, t, hist') /\ ~hist'.active /\ Due(txWork')
         /\ ack' = a \/ (a.kind = "history" /\ ack'.kind = "none")
<1>1. /\ hist' = NoReplay /\ ack' = Released(a, "history")
      /\ txWork' = Submit(txWork) /\ histWork' = w
  BY DEF HistFinishes
<1>2. NoReplay \in Replay
  <2>1. 0 \in 0..MaxReplay /\ 0 \in Failures
    BY Limits DEF Failures
  <2> QED BY <2>1 DEF NoReplay, Replay
<1>3. SlotHeld(ack', c, t, hist')
  <2>1. CASE a.kind = "history"
    BY <1>1, <2>1, ReleasedOps DEF SlotHeld
  <2>2. CASE a.kind # "history"
    BY <1>1, <2>2, ReleasedOps DEF SlotHeld
  <2> QED BY <2>1, <2>2
<1> QED BY <1>1, <1>2, <1>3, ReleasedOps, WorkOps DEF NoReplay

\* The frame of the replay g after a send that came to r.
LEMMA HistEndsOps ==
  ASSUME p2p \in Radios, txWork \in Work, NEW r \in Results, NEW g \in Replay, NEW a \in Slot,
         NEW x \in Work, NEW w \in Work, NEW c, NEW t, g.active, SlotHeld(a, c, t, g),
         HistEnds(r, g, a, x, w)
  PROVE  /\ hist' \in Replay /\ ack' \in Slot /\ txWork' \in Work /\ histWork' \in Work
         /\ SlotHeld(ack', c, t, hist')
         /\ r = "busy" => hist' = g /\ ack' = a /\ txWork' = x /\ histWork' = w
         /\ r # "busy" => ~hist'.active \/ Due(histWork')
         /\ \/ ack' = a /\ txWork' = x
            \/ /\ ~hist'.active /\ Due(txWork')
               /\ ack' = a \/ (a.kind = "history" /\ ack'.kind = "none")
<1>2. CASE HistFinishes(a, w) /\ r # "busy"
  BY <1>2, HistFinishesOps
<1>3. CASE /\ r = "ok" /\ g.left > 1 /\ hist' = [g EXCEPT !.left = @ - 1, !.tries = 0]
           /\ ack' = a /\ txWork' = x /\ histWork' = Later(w, "wait")
  <2>1. g.left - 1 \in 0..MaxReplay /\ 0 \in Failures
    BY <1>3, Limits DEF Replay, Failures
  <2>2. hist' \in Replay
    BY <1>3, <2>1 DEF Replay
  <2>3. SlotHeld(ack', c, t, hist')
    BY <1>3 DEF SlotHeld, Replay
  <2> QED BY <1>3, <2>2, <2>3, WorkOps
<1>4. CASE r = "busy" /\ hist' = g /\ ack' = a /\ txWork' = x /\ histWork' = w
  BY <1>4
<1>5. CASE r = "ackretry" /\ hist' = g /\ ack' = a /\ txWork' = x /\ histWork' = Later(w, "wait")
  BY <1>5, WorkOps
<1>6. CASE /\ r # "busy" /\ g.tries < TxRetries[p2p] /\ hist' = [g EXCEPT !.tries = @ + 1]
           /\ ack' = a /\ txWork' = x /\ histWork' \in {Later(w, "wait"), Later(w, "backoff")}
  <2>1. g.tries + 1 \in Failures
    BY <1>6, Limits DEF Replay, Failures
  <2>2. hist' \in Replay
    BY <1>6, <2>1 DEF Replay
  <2>3. SlotHeld(ack', c, t, hist')
    BY <1>6 DEF SlotHeld, Replay
  <2> QED BY <1>6, <2>2, <2>3, WorkOps
<1> QED BY <1>2, <1>3, <1>4, <1>5, <1>6 DEF HistEnds

\* A frame of the replay g given to the radio.
LEMMA HistSendOps ==
  ASSUME p2p \in Radios, txWork \in Work, ack \in Slot, run \in Sends, run.path = "none",
         NEW g \in Replay, NEW empty \in BOOLEAN, NEW w \in Work, g.active,
         SlotHeld(ack, cur, tlm, g), HistSend(g, empty, w)
  PROVE  /\ hist' \in Replay /\ ack' \in Slot /\ txWork' \in Work /\ histWork' \in Work
         /\ run' \in Sends /\ run'.path \in {"none", "hist"}
         /\ SlotHeld(ack', cur, tlm, hist')
         /\ run'.path = "hist" => hist'.active /\ ack'.kind \in {"none", "history"}
         /\ \/ listening \/ ~hist'.active \/ ack'.kind \notin {"none", "history"}
            \/ Due(histWork') \/ run'.path = "hist"
         /\ \/ ack' = ack /\ txWork' = txWork
            \/ /\ Due(txWork')
               /\ ack' = ack \/ (ack.kind = "history" /\ ack'.kind = "none")
<1>1. CASE MayBounce(ack, "history") /\ HistEnds("busy", g, ack, txWork, w) /\ run' = run
  <2>1. hist' = g /\ ack' = ack /\ txWork' = txWork /\ histWork' = w
    BY <1>1 DEF HistEnds, HistFinishes
  <2>2. listening \/ ack'.kind \notin {"none", "history"}
    BY <1>1, <2>1 DEF MayBounce, Bounced
  <2> QED BY <1>1, <2>1, <2>2
<1>2. CASE ~Bounced(ack, "history") /\ run' = run /\ HistEnds(HoldOf("history"), g, ack, txWork, w)
  <2> DEFINE r == HoldOf("history")
  <2>1. r \in Results /\ r # "busy"
    BY DEF HoldOf, Results
  <2>2. HistEnds(r, g, ack, txWork, w)
    BY <1>2
  <2> HIDE DEF r
  <2> QED BY <1>2, <2>1, <2>2, HistEndsOps
<1>3. CASE /\ Transmits(ack, "history") /\ InFlight("hist", "history", ack, empty)
           /\ hist' = g /\ histWork' = w /\ UNCHANGED <<ack, txWork>>
  <2>1. run'.path = "hist" /\ run' \in Sends
    BY <1>3 DEF InFlight, Sends
  <2>2. ack.kind \in {"none", "history"}
    BY <1>3 DEF Transmits, Bounced
  <2> QED BY <1>3, <2>1, <2>2
<1> QED BY <1>1, <1>2, <1>3 DEF HistSend

\* What a run of m_hist_work leaves is safe, and serves whom it should.
LEMMA HistStepIsSafe ==
  ASSUME SchedInv, UNCHANGED p2p, UNCHANGED <<link, queues, cur, tlm>>,
         run.path \in {"none", "hist"},
         hist' \in Replay, ack' \in Slot, txWork' \in Work, histWork' \in Work, run' \in Sends,
         run'.path \in {"none", "hist"}, SlotHeld(ack', cur, tlm, hist'),
         run'.path = "hist" => hist'.active /\ ack'.kind \in {"none", "history"},
         \/ listening \/ ~ready \/ ~hist'.active \/ ack'.kind \notin {"none", "history"}
         \/ Due(histWork') \/ run'.path = "hist",
         \/ ack' = ack /\ txWork' = txWork
         \/ ack.kind \in {"none", "history"} /\ ack'.kind = "history"
         \/ Due(txWork')
  PROVE  SchedInv' /\ (Awake => Awake')
<1>1. /\ p2p \in Radios /\ Flags /\ answers \in Seq(Answer) /\ Len(answers) <= QueueDepth
      /\ alarms \in Seq(Frames) /\ Len(alarms) <= QueueDepth
      /\ cur \in Hand /\ tlm \in Report /\ made \in Frames
  BY TypeParts DEF SchedInv
<1>2. answers' = answers /\ alarms' = alarms /\ made' = made /\ cur' = cur /\ tlm' = tlm
  BY DEF queues
<1>3. Flags'
  BY <1>1 DEF Flags, link
<1>4. TypeOK'
  BY <1>1, <1>2, <1>3, TypeStays
<1>5. InSend(run', cur', tlm', hist', ack') /\ Overtaken(run', ack', cur', answers', alarms', txWork')
  BY DEF InSend, Overtaken
<1>6. SchedInv'
  BY <1>2, <1>4, <1>5 DEF SchedInv
<1>7. Awake => Awake'
  <2> SUFFICES ASSUME Awake, Up' PROVE Awake'
    BY AwakeHalvesNext
  <2>1. Up /\ ready /\ ~listening
    BY DEF Up, link
  <2>2. TxServed(cur, answers, alarms, tlm, ack, txWork, run.path)
    BY <2>1, AwakeHalves
  <2>3. TxServed(cur', answers', alarms', tlm', ack', txWork', run'.path)
    BY <1>2, <2>2 DEF TxServed
  <2>4. HistServed(hist', ack', histWork', run'.path)
    BY <2>1, Zenon DEF HistServed
  <2> QED BY <2>3, <2>4, AwakeHalvesNext
<1> QED BY <1>6, <1>7

LEMMA HistStartsKeeps ==
  ASSUME SchedInv, UNCHANGED p2p, HistStarts
  PROVE  SchedInv' /\ (Awake => Awake')
<1>0. /\ p2p \in Radios /\ hist \in Replay /\ ack \in Slot /\ run \in Sends
      /\ txWork \in Work /\ histWork \in Work /\ SlotHeld(ack, cur, tlm, hist)
  BY TypeParts DEF SchedInv
<1>1. run.path = "none" /\ UNCHANGED <<link, queues, cur, tlm>>
  BY DEF HistStarts, Idle
<1> DEFINE w == Started(histWork)
<1>2. w \in Work
  BY <1>0, WorkOps
<1>3. \/ ~hist.active /\ histWork' = w /\ UNCHANGED <<hist, ack, txWork, run>>
      \/ HistFinishes(ack, w) /\ run' = run
      \/ hist.active /\ HistSend(hist, FALSE, w)
      \/ hist.active /\ ack.kind # "history" /\ HistSend(Built, FALSE, w)
      \/ hist.active /\ ack.kind # "history" /\ HistSend(Flushed, TRUE, w)
  BY Zenon DEF HistStarts
<1> HIDE DEF w
<1>4. CASE ~hist.active /\ histWork' = w /\ UNCHANGED <<hist, ack, txWork, run>>
  BY <1>0, <1>1, <1>2, <1>4, HistStepIsSafe
<1>5. CASE HistFinishes(ack, w) /\ run' = run
  BY <1>0, <1>1, <1>2, <1>5, HistFinishesOps, HistStepIsSafe
<1>6. ASSUME NEW g \in Replay, NEW empty \in BOOLEAN, g.active, SlotHeld(ack, cur, tlm, g),
             HistSend(g, empty, w)
      PROVE  SchedInv' /\ (Awake => Awake')
  BY <1>0, <1>1, <1>2, <1>6, HistSendOps, HistStepIsSafe
<1>7. CASE hist.active /\ HistSend(hist, FALSE, w)
  BY <1>0, <1>6, <1>7
<1>8. CASE hist.active /\ ack.kind # "history" /\ HistSend(Built, FALSE, w)
  <2>1. Built \in Replay /\ Built.active
    BY <1>0, <1>8 DEF Built, Replay
  <2>2. SlotHeld(ack, cur, tlm, Built)
    BY <1>0, <1>8 DEF SlotHeld
  <2> QED BY <1>6, <1>8, <2>1, <2>2
<1>9. CASE hist.active /\ ack.kind # "history" /\ HistSend(Flushed, TRUE, w)
  <2>1. Flushed \in Replay /\ Flushed.active
    BY <1>0, <1>9 DEF Flushed, Replay
  <2>2. SlotHeld(ack, cur, tlm, Flushed)
    BY <1>0, <1>9 DEF SlotHeld
  <2> QED BY <1>6, <1>9, <2>1, <2>2
<1> QED BY <1>3, <1>4, <1>5, <1>7, <1>8, <1>9

LEMMA HistReturnsKeeps ==
  ASSUME SchedInv, UNCHANGED p2p, HistReturns
  PROVE  SchedInv' /\ (Awake => Awake')
<1>0. /\ p2p \in Radios /\ hist \in Replay /\ ack \in Slot
      /\ txWork \in Work /\ histWork \in Work /\ SlotHeld(ack, cur, tlm, hist)
  BY TypeParts DEF SchedInv
<1>1. run.path = "hist" /\ run' \in Sends /\ run'.path = "none" /\ UNCHANGED <<link, queues, cur, tlm>>
  BY DEF HistReturns, Idle, Sends
<1>2. hist.active /\ ack.kind \in {"none", "history"}
  BY <1>1 DEF SchedInv, InSend
<1>3. PICK o \in IF run.empty THEN {"again"} ELSE Outcomes("history") :
        LET a == AckAfter(ack, "history", o, hist.built)
        IN HistEnds(Result(ack, "history", o), hist, a,
                    IF a = NoAck THEN WakesTx(ack, "history", txWork) ELSE txWork, histWork)
  BY Zenon DEF HistReturns
<1>4. o \in {"ok", "fault", "noack", "again", "toobig"}
  BY <1>3, Zenon DEF Outcomes
<1> DEFINE k == "history"
           r == Result(ack, k, o)
           a == AckAfter(ack, k, o, hist.built)
           x == IF a = NoAck THEN WakesTx(ack, k, txWork) ELSE txWork
<1>5. hist.built \in Place /\ k \in Kinds
  BY <1>0 DEF Replay, Place, Kinds
<1>6. /\ a \in Slot /\ r \in Results \ {"busy", "wait"} /\ a.kind \in {"none", k}
      /\ r \in {"ok", "toobig"} => a.kind = "none"
      /\ r = "ackretry" => a.kind = k /\ a.frame = hist.built
      /\ r \in {"fault", "again", "backoff"} => a = ack
      /\ a.kind = "none" => a = IF ack.kind = k THEN NoAck ELSE ack
  <2>1. SlotAfter(ack, a, r, k, hist.built)
    BY <1>0, <1>2, <1>4, <1>5, AckAfterOps
  <2> HIDE DEF r, a, x
  <2> QED BY <2>1 DEF SlotAfter
<1>7. /\ x \in Work /\ (Due(txWork) => Due(x)) /\ (x = txWork \/ Due(x))
      /\ a = NoAck /\ ack.kind = k => Due(x)
  BY <1>0, WakesTxOps, WorkOps DEF WakesTx
<1>8. HistEnds(r, hist, a, x, histWork)
  BY <1>3
<1> HIDE DEF r, a, x
<1>9. SlotHeld(a, cur, tlm, hist)
  BY <1>0, <1>2, <1>6 DEF SlotHeld, Results
<1>10. /\ hist' \in Replay /\ ack' \in Slot /\ txWork' \in Work /\ histWork' \in Work
       /\ SlotHeld(ack', cur, tlm, hist')
       /\ ~hist'.active \/ Due(histWork')
       /\ \/ ack' = a /\ txWork' = x
          \/ /\ ~hist'.active /\ Due(txWork')
             /\ ack' = a \/ (a.kind = "history" /\ ack'.kind = "none")
  BY <1>0, <1>2, <1>6, <1>7, <1>8, <1>9, HistEndsOps
<1>11. \/ ack' = ack /\ txWork' = txWork
       \/ ack.kind \in {"none", "history"} /\ ack'.kind = "history"
       \/ Due(txWork')
  BY <1>2, <1>6, <1>7, <1>10 DEF Results
<1> QED BY <1>0, <1>1, <1>10, <1>11, HistStepIsSafe

-----------------------------------------------------------------------------
(* The other threads, the gateway, and time *)

\* A step that leaves the frames, the slot and the path inside send() alone, and
\* puts no work to sleep.
LEMMA QuietIsSafe ==
  ASSUME SchedInv, UNCHANGED p2p, Flags', UNCHANGED <<queues, cur, tlm, ack>>,
         hist' = hist, run' \in Sends, run'.path = run.path,
         txWork' \in Work, Due(txWork) => Due(txWork'),
         histWork' \in Work, Due(histWork) => Due(histWork')
  PROVE  SchedInv' /\ (Awake /\ (Up' => Up) => Awake')
<1>1. /\ p2p \in Radios /\ answers \in Seq(Answer) /\ Len(answers) <= QueueDepth
      /\ alarms \in Seq(Frames) /\ Len(alarms) <= QueueDepth
      /\ cur \in Hand /\ tlm \in Report /\ hist \in Replay /\ ack \in Slot /\ made \in Frames
  BY TypeParts DEF SchedInv
<1>2. /\ answers' = answers /\ alarms' = alarms /\ made' = made
      /\ cur' = cur /\ tlm' = tlm /\ ack' = ack
  BY DEF queues
<1>3. TypeOK'
  BY <1>1, <1>2, TypeStays
<1>4. InSend(run', cur', tlm', hist', ack') /\ Overtaken(run', ack', cur', answers', alarms', txWork')
  BY <1>2 DEF SchedInv, InSend, Overtaken
<1>5. SchedInv'
  BY <1>2, <1>3, <1>4 DEF SchedInv
<1>6. Awake /\ (Up' => Up) => Awake'
  <2> SUFFICES ASSUME Awake, Up' => Up, Up' PROVE Awake'
    BY AwakeHalvesNext
  <2>1. /\ TxServed(cur, answers, alarms, tlm, ack, txWork, run.path)
        /\ HistServed(hist, ack, histWork, run.path)
    BY AwakeHalves
  <2>2. /\ TxServed(cur', answers', alarms', tlm', ack', txWork', run'.path)
        /\ HistServed(hist', ack', histWork', run'.path)
    BY <1>2, <2>1 DEF TxServed, HistServed
  <2> QED BY <2>2, AwakeHalvesNext
<1> QED BY <1>5, <1>6

\* app_radio_tx_kick(): m_tx_work is due, and m_hist_work if a replay runs.
LEMMA KickOps ==
  ASSUME txWork \in Work, histWork \in Work, Kick
  PROVE  /\ txWork' \in Work /\ Due(txWork')
         /\ histWork' \in Work /\ (Due(histWork) => Due(histWork'))
         /\ hist.active => Due(histWork')
BY WorkOps DEF Kick

\* Queueing a frame leaves all else alone and makes m_tx_work due.
LEMMA QueueingIsSafe ==
  ASSUME SchedInv, UNCHANGED p2p, UNCHANGED <<link, cur, tlm, hist, ack, run>>,
         answers' \in Seq(Answer), Len(answers') <= QueueDepth,
         alarms' \in Seq(Frames), Len(alarms') <= QueueDepth, made' \in Frames,
         InOrder(cur, answers', made'),
         txWork' \in Work, Due(txWork'), histWork' \in Work, Due(histWork) => Due(histWork')
  PROVE  SchedInv' /\ (Awake => Awake')
<1>1. /\ p2p \in Radios /\ Flags /\ cur \in Hand /\ tlm \in Report /\ hist \in Replay
      /\ ack \in Slot /\ run \in Sends
  BY TypeParts DEF SchedInv
<1>2. Flags'
  BY <1>1 DEF Flags, link
<1>3. TypeOK'
  BY <1>1, <1>2, TypeStays
<1>4. SchedInv'
  BY <1>3 DEF SchedInv, InSend, Overtaken
<1>5. Awake => Awake'
  <2> SUFFICES ASSUME Awake, Up' PROVE Awake'
    BY AwakeHalvesNext
  <2>1. Up
    BY DEF Up, link
  <2>2. HistServed(hist, ack, histWork, run.path)
    BY <2>1, AwakeHalves
  <2>3. /\ TxServed(cur', answers', alarms', tlm', ack', txWork', run'.path)
        /\ HistServed(hist', ack', histWork', run'.path)
    BY <2>2 DEF TxServed, HistServed
  <2> QED BY <2>3, AwakeHalvesNext
<1> QED BY <1>4, <1>5

LEMMA QueueAnswerKeeps ==
  ASSUME SchedInv, UNCHANGED p2p, NEW tag \in {"command", "other"}, QueueAnswer(tag)
  PROVE  SchedInv' /\ (Awake => Awake')
<1>0. /\ p2p \in Radios /\ alarms \in Seq(Frames) /\ Len(alarms) <= QueueDepth
      /\ answers \in Seq(Answer) /\ txWork \in Work /\ histWork \in Work /\ made \in Frames
      /\ cur \in Hand /\ InOrder(cur, answers, made)
  BY TypeParts DEF SchedInv
<1>1. made' = made + 1 /\ made' \in Frames /\ made \in Nat
  BY <1>0, Limits DEF QueueAnswer, Frames
<1> DEFINE e == [id |-> made + 1, tag |-> tag]
<1>2. e \in Answer /\ e.id = made + 1
  BY <1>1 DEF Answer, Tags
<1>3. answers' = Append(answers, e) /\ alarms' = alarms
  BY DEF QueueAnswer
<1> HIDE DEF e
<1>4. answers' \in Seq(Answer) /\ Len(answers') = Len(answers) + 1
  BY <1>0, <1>2, <1>3, AppendProperties
<1>5. Len(answers') <= QueueDepth
  BY <1>0, <1>4, Limits DEF QueueAnswer
<1>6. InOrder(cur, answers', made')
  <2>1. cur.id \in Nat
    BY <1>0, Limits DEF Hand, Frames
  <2> QED BY <1>0, <1>1, <1>2, <1>3, <2>1, AppendKeepsOrder
<1>7. Kick /\ UNCHANGED <<link, cur, tlm, hist, ack, run>>
  BY DEF QueueAnswer
<1> QED BY <1>0, <1>1, <1>3, <1>4, <1>5, <1>6, <1>7, KickOps, QueueingIsSafe

LEMMA QueueAlarmKeeps ==
  ASSUME SchedInv, UNCHANGED p2p, QueueAlarm
  PROVE  SchedInv' /\ (Awake => Awake')
<1>0. /\ p2p \in Radios /\ alarms \in Seq(Frames)
      /\ answers \in Seq(Answer) /\ Len(answers) <= QueueDepth
      /\ txWork \in Work /\ histWork \in Work /\ made \in Frames
      /\ cur \in Hand /\ InOrder(cur, answers, made)
  BY TypeParts DEF SchedInv
<1>1. made' = made + 1 /\ made' \in Frames /\ made \in Nat /\ made + 1 \in Frames
  BY <1>0, Limits DEF QueueAlarm, Frames
<1>2. alarms' = Append(alarms, made + 1) /\ answers' = answers
  BY DEF QueueAlarm
<1>3. alarms' \in Seq(Frames) /\ Len(alarms') = Len(alarms) + 1
  <2>1. PICK e \in Frames : e = made + 1
    BY <1>1
  <2> QED BY <1>0, <1>2, <2>1, AppendProperties
<1>4. Len(alarms') <= QueueDepth
  BY <1>0, <1>3, Limits DEF QueueAlarm
<1>5. InOrder(cur, answers', made')
  <2>1. \A i \in 1..Len(answers) : answers[i].id \in Nat
    <3>1. \A i \in 1..Len(answers) : answers[i] \in Answer
      BY <1>0
    <3> QED BY <1>0, <3>1, Limits DEF Answer, Frames
  <2>2. cur.id \in Nat
    BY <1>0, Limits DEF Hand, Frames
  <2> QED BY <1>0, <1>1, <1>2, <2>1, <2>2 DEF InOrder
<1>6. UNCHANGED <<link, cur, tlm, hist, ack, run>>
  BY DEF QueueAlarm
<1>7. (txWork' = Now(txWork) /\ histWork' = histWork) \/ Kick
  BY Zenon DEF QueueAlarm
<1>8. txWork' \in Work /\ Due(txWork') /\ histWork' \in Work /\ (Due(histWork) => Due(histWork'))
  BY <1>0, <1>7, KickOps, WorkOps
<1> QED BY <1>0, <1>1, <1>2, <1>3, <1>4, <1>5, <1>6, <1>8, QueueingIsSafe

LEMMA RequestReportKeeps ==
  ASSUME SchedInv, UNCHANGED p2p, RequestReport
  PROVE  SchedInv' /\ (Awake => Awake')
<1>0. /\ p2p \in Radios /\ Flags /\ answers \in Seq(Answer) /\ Len(answers) <= QueueDepth
      /\ alarms \in Seq(Frames) /\ Len(alarms) <= QueueDepth
      /\ cur \in Hand /\ tlm \in Report /\ hist \in Replay /\ ack \in Slot /\ run \in Sends
      /\ txWork \in Work /\ histWork \in Work /\ made \in Frames
  BY TypeParts DEF SchedInv
<1>1. /\ tlm' = [tlm EXCEPT !.asked = TRUE] /\ answers' = answers /\ alarms' = alarms
      /\ made' = made /\ cur' = cur /\ hist' = hist /\ ack' = ack /\ run' = run
  BY DEF RequestReport, queues
<1>2. tlm' \in Report /\ tlm'.open = tlm.open /\ tlm'.held = tlm.held /\ tlm'.page = tlm.page
  BY <1>0, <1>1 DEF Report
<1>3. Flags' /\ (Up' => Up)
  BY <1>0 DEF RequestReport, Flags, Up, link
<1>4. /\ txWork' \in Work /\ Due(txWork')
      /\ histWork' \in Work /\ (Due(histWork) => Due(histWork'))
  BY <1>0, KickOps DEF RequestReport
<1>5. TypeOK'
  BY <1>0, <1>1, <1>2, <1>3, <1>4, TypeStays
<1>6. SchedInv'
  BY <1>1, <1>2, <1>4, <1>5 DEF SchedInv, SlotHeld, InSend, Overtaken
<1>7. Awake => Awake'
  <2> SUFFICES ASSUME Awake, Up' PROVE Awake'
    BY AwakeHalvesNext
  <2>1. HistServed(hist, ack, histWork, run.path)
    BY <1>3, AwakeHalves
  <2>2. /\ TxServed(cur', answers', alarms', tlm', ack', txWork', run'.path)
        /\ HistServed(hist', ack', histWork', run'.path)
    BY <1>1, <1>4, <2>1 DEF TxServed, HistServed
  <2> QED BY <2>2, AwakeHalvesNext
<1> QED BY <1>6, <1>7

\* A downlink leaves the path inside send() what it was.
LEMMA DownlinkOps ==
  ASSUME run \in Sends, Downlink
  PROVE  run' \in Sends /\ run'.path = run.path
<1>1. run' = run \/ run' = [run EXCEPT !.acked = TRUE]
  BY Zenon DEF Downlink
<1> QED BY <1>1 DEF Sends

LEMMA StartReplayKeeps ==
  ASSUME SchedInv, UNCHANGED p2p, StartReplay
  PROVE  SchedInv' /\ (Awake => Awake')
<1>0. /\ p2p \in Radios /\ Flags /\ answers \in Seq(Answer) /\ Len(answers) <= QueueDepth
      /\ alarms \in Seq(Frames) /\ Len(alarms) <= QueueDepth
      /\ cur \in Hand /\ tlm \in Report /\ hist \in Replay /\ ack \in Slot /\ run \in Sends
      /\ txWork \in Work /\ histWork \in Work /\ made \in Frames
  BY TypeParts DEF SchedInv
<1>1. /\ answers' = answers /\ alarms' = alarms /\ made' = made /\ cur' = cur
      /\ tlm' = tlm /\ ack' = ack /\ txWork' = txWork /\ UNCHANGED link
      /\ ~hist.active /\ histWork' = Now(histWork)
  BY DEF StartReplay, queues
<1>2. run' \in Sends /\ run'.path = run.path
  BY <1>0, DownlinkOps DEF StartReplay
<1>3. hist' \in Replay
  <2>1. PICK n \in 1..MaxReplay : hist' = [NoReplay EXCEPT !.active = TRUE, !.left = n]
    BY DEF StartReplay
  <2>2. 0 \in Failures /\ n \in 0..MaxReplay
    BY <1>0, <2>1, Limits DEF Failures
  <2>3. hist' = [active |-> TRUE, built |-> 0, left |-> n, tries |-> 0]
    BY <2>1 DEF NoReplay
  <2> QED BY <2>2, <2>3 DEF Replay
<1>4. ack.kind # "history" /\ run.path # "hist"
  BY <1>1 DEF SchedInv, SlotHeld, InSend
<1>5. histWork' \in Work /\ Due(histWork')
  BY <1>0, <1>1, WorkOps
<1>6. Flags'
  BY <1>0, <1>1 DEF Flags, link
<1>7. TypeOK'
  BY <1>0, <1>1, <1>2, <1>3, <1>5, <1>6, TypeStays
<1>8. SchedInv'
  BY <1>1, <1>2, <1>4, <1>7 DEF SchedInv, SlotHeld, InSend, Overtaken
<1>9. Awake => Awake'
  <2> SUFFICES ASSUME Awake, Up' PROVE Awake'
    BY AwakeHalvesNext
  <2>1. Up
    BY <1>1 DEF Up, link
  <2>2. TxServed(cur, answers, alarms, tlm, ack, txWork, run.path)
    BY <2>1, AwakeHalves
  <2>3. /\ TxServed(cur', answers', alarms', tlm', ack', txWork', run'.path)
        /\ HistServed(hist', ack', histWork', run'.path)
    BY <1>1, <1>2, <1>5, <2>2 DEF HistServed
  <2> QED BY <2>3, AwakeHalvesNext
<1> QED BY <1>8, <1>9

\* The steps of the network, the shell and time that touch no frame.
LEMMA SetBackoffKeeps ==
  ASSUME SchedInv, UNCHANGED p2p, NEW on \in BOOLEAN, SetBackoff(on)
  PROVE  SchedInv' /\ (Awake => Awake')
<1>1. Flags /\ run \in Sends /\ txWork \in Work /\ histWork \in Work
  BY TypeParts DEF SchedInv
<1>2. Flags' /\ (Up' => Up)
  BY <1>1, Zenon DEF SetBackoff, Flags, Up
<1>3. run' \in Sends /\ run'.path = run.path
  BY <1>1, DownlinkOps DEF SetBackoff
<1>4. /\ UNCHANGED <<queues, cur, tlm, ack>> /\ hist' = hist
      /\ txWork' = txWork /\ histWork' = histWork
  BY DEF SetBackoff, works
<1> QED BY <1>1, <1>2, <1>3, <1>4, QuietIsSafe

LEMMA BackoffEndsKeeps ==
  ASSUME SchedInv, UNCHANGED p2p, BackoffEnds
  PROVE  SchedInv' /\ (Awake => Awake')
<1>1. Flags /\ run \in Sends /\ txWork \in Work /\ histWork \in Work
  BY TypeParts DEF SchedInv
<1>2. Flags' /\ (Up' => Up)
  BY <1>1, Zenon DEF BackoffEnds, Flags, Up
<1>3. /\ UNCHANGED <<queues, cur, tlm, ack>> /\ hist' = hist /\ run' = run
      /\ txWork' = txWork /\ histWork' = histWork
  BY DEF BackoffEnds, works
<1> QED BY <1>1, <1>2, <1>3, QuietIsSafe

LEMMA LinkDownKeeps ==
  ASSUME SchedInv, UNCHANGED p2p, LinkDown
  PROVE  SchedInv' /\ (Awake => Awake')
<1>1. Flags /\ run \in Sends /\ txWork \in Work /\ histWork \in Work
  BY TypeParts DEF SchedInv
<1>2. Flags' /\ (Up' => Up)
  BY <1>1, Zenon DEF LinkDown, Flags, Up
<1>3. /\ UNCHANGED <<queues, cur, tlm, ack>> /\ hist' = hist /\ run' = run
      /\ txWork' = txWork /\ histWork' = histWork
  BY DEF LinkDown, works
<1> QED BY <1>1, <1>2, <1>3, QuietIsSafe

LEMMA TxTimerKeeps ==
  ASSUME SchedInv, UNCHANGED p2p, TxTimer
  PROVE  SchedInv' /\ (Awake => Awake')
<1>1. Flags /\ run \in Sends /\ txWork \in Work /\ histWork \in Work
  BY TypeParts DEF SchedInv
<1>2. Flags' /\ (Up' => Up)
  BY <1>1, Zenon DEF TxTimer, Flags, Up, link
<1>3. /\ UNCHANGED <<queues, cur, tlm, ack>> /\ hist' = hist /\ run' = run
      /\ txWork' = Now(txWork) /\ histWork' = histWork
  BY DEF TxTimer
<1> QED BY <1>1, <1>2, <1>3, WorkOps, QuietIsSafe

LEMMA HistTimerKeeps ==
  ASSUME SchedInv, UNCHANGED p2p, HistTimer
  PROVE  SchedInv' /\ (Awake => Awake')
<1>1. Flags /\ run \in Sends /\ txWork \in Work /\ histWork \in Work
  BY TypeParts DEF SchedInv
<1>2. Flags' /\ (Up' => Up)
  BY <1>1, Zenon DEF HistTimer, Flags, Up, link
<1>3. /\ UNCHANGED <<queues, cur, tlm, ack>> /\ hist' = hist /\ run' = run
      /\ txWork' = txWork /\ histWork' = Now(histWork)
  BY DEF HistTimer
<1> QED BY <1>1, <1>2, <1>3, WorkOps, QuietIsSafe

\* A listen mode that ends kicks whatever bounced off it.
LEMMA ListenKeeps ==
  ASSUME SchedInv, UNCHANGED p2p, NEW on \in BOOLEAN, Listen(on)
  PROVE  SchedInv' /\ (Awake => Awake')
<1>1. Flags /\ run \in Sends /\ txWork \in Work /\ histWork \in Work
  BY TypeParts DEF SchedInv
<1>2. Flags'
  BY <1>1, Zenon DEF Listen, Flags
<1>3. /\ UNCHANGED <<queues, cur, tlm, ack>> /\ hist' = hist /\ run' = run
  BY DEF Listen
<1>4. CASE on
  <2>1. txWork' = txWork /\ histWork' = histWork /\ ~Up'
    BY <1>4, Zenon DEF Listen, works, Up
  <2> QED BY <1>1, <1>2, <1>3, <2>1, QuietIsSafe
<1>5. CASE ~on
  <2>1. Kick
    BY <1>5, Zenon DEF Listen
  <2>2. /\ txWork' \in Work /\ Due(txWork')
        /\ histWork' \in Work /\ (Due(histWork) => Due(histWork'))
        /\ hist.active => Due(histWork')
    BY <1>1, <2>1, KickOps
  <2>3. Awake'
    BY <1>3, <2>2, AwakeHalvesNext DEF TxServed, HistServed
  <2> QED BY <1>1, <1>2, <1>3, <2>2, <2>3, QuietIsSafe
<1> QED BY <1>4, <1>5

\* A new session starts without a slot taken, a replay or a wait for a kick.
LEMMA LinkUpKeeps ==
  ASSUME SchedInv, UNCHANGED p2p, LinkUp
  PROVE  SchedInv' /\ Awake'
<1>0. /\ p2p \in Radios /\ Flags /\ answers \in Seq(Answer) /\ Len(answers) <= QueueDepth
      /\ alarms \in Seq(Frames) /\ Len(alarms) <= QueueDepth
      /\ cur \in Hand /\ tlm \in Report /\ run \in Sends
      /\ txWork \in Work /\ histWork \in Work /\ made \in Frames
  BY TypeParts DEF SchedInv
<1>1. /\ answers' = answers /\ alarms' = alarms /\ made' = made /\ cur' = cur /\ tlm' = tlm
      /\ run' = run /\ run = Idle /\ hist' = NoReplay /\ ack' = NoAck
      /\ txWork' = Submit(txWork)
  BY DEF LinkUp, queues
<1>2. histWork' \in Work
  BY <1>0 DEF LinkUp, NotDue, Work
<1>3. txWork' \in Work /\ Due(txWork')
  BY <1>0, <1>1, WorkOps
<1>4. Flags'
  BY <1>0, Zenon DEF LinkUp, Flags
<1>5. hist' \in Replay /\ ~hist'.active
  <2>1. 0 \in 0..MaxReplay /\ 0 \in Failures
    BY <1>0, Limits DEF Failures
  <2> QED BY <1>1, <2>1 DEF NoReplay, Replay
<1>6. ack' \in Slot /\ ack'.kind = "none"
  BY <1>0, <1>1, Limits DEF NoAck, Slot
<1>7. TypeOK'
  BY <1>0, <1>1, <1>2, <1>3, <1>4, <1>5, <1>6, TypeStays
<1>8. SlotHeld(ack', cur', tlm', hist')
  BY <1>6 DEF SlotHeld
<1>9. InSend(run', cur', tlm', hist', ack') /\ Overtaken(run', ack', cur', answers', alarms', txWork')
  BY <1>1 DEF Idle, InSend, Overtaken
<1>10. SchedInv'
  BY <1>1, <1>7, <1>8, <1>9 DEF SchedInv
<1>11. Awake'
  BY <1>3, <1>5, AwakeHalvesNext DEF TxServed, HistServed
<1> QED BY <1>10, <1>11

-----------------------------------------------------------------------------
(* The theorems *)

LEMMA InitIsSound == Init => SchedInv
<1> SUFFICES ASSUME Init PROVE SchedInv
  OBVIOUS
<1>1. p2p \in Radios
  BY DEF Init
<1>2. 0 \in Frames /\ 0 \in Failures /\ 0 \in 0..MaxPages[p2p] /\ 0 \in 0..MaxReplay /\ 0 \in 0..AckRetries
  BY <1>1, Limits DEF Frames, Failures
<1>3. cur \in Hand /\ tlm \in Report /\ hist \in Replay
  BY <1>2 DEF Init, NoCur, NoReport, NoReplay, Hand, Report, Replay, Tags
<1>4. ack \in Slot /\ run \in Sends /\ txWork \in Work /\ histWork \in Work
  BY <1>2 DEF Init, NoAck, Idle, NotDue, Slot, Sends, Work
<1>5. ready \in BOOLEAN /\ backoff \in BOOLEAN /\ listening \in BOOLEAN
  BY DEF Init
<1>6. /\ answers \in Seq(Answer) /\ alarms \in Seq(Frames) /\ made \in Frames
      /\ Len(answers) <= QueueDepth /\ Len(alarms) <= QueueDepth
  BY <1>1, <1>2, Limits DEF Init
<1>7. TypeOK
  BY <1>1, <1>3, <1>4, <1>5, <1>6 DEF TypeOK
<1>8. SlotHeld(ack, cur, tlm, hist) /\ InSend(run, cur, tlm, hist, ack)
      /\ Overtaken(run, ack, cur, answers, alarms, txWork)
  BY DEF Init, NoAck, Idle, SlotHeld, InSend, Overtaken
<1>9. InOrder(cur, answers, made)
  BY DEF Init, NoCur, InOrder
<1> QED BY <1>7, <1>8, <1>9 DEF SchedInv

\* Every step keeps the invariant, and the wake-ups bar the one step that may not.
LEMMA StepsAreSound ==
  ASSUME SchedInv, [Next]_vars
  PROVE  SchedInv' /\ (Awake /\ ~DropsReport => Awake')
<1>1. CASE UNCHANGED vars
  <2>1. UNCHANGED p2p /\ UNCHANGED <<link, queues, cur, tlm, ack>>
        /\ hist' = hist /\ run' = run /\ txWork' = txWork /\ histWork' = histWork
    BY <1>1 DEF vars, moving, link, queues
  <2>2. Flags /\ run \in Sends /\ txWork \in Work /\ histWork \in Work
    BY TypeParts DEF SchedInv
  <2>3. Flags' /\ (Up' => Up)
    BY <2>1, <2>2, Zenon DEF Flags, Up, link
  <2> QED BY <2>1, <2>2, <2>3, QuietIsSafe
<1>2. CASE Next
  <2>1. UNCHANGED p2p
    BY <1>2 DEF Next
  <2>2. CASE Works
    BY <2>1, <2>2, TxStartsKeeps, CurReturnsKeeps, TlmReturnsKeeps, FlushReturnsKeeps,
       HistStartsKeeps, HistReturnsKeeps DEF Works
  <2>3. CASE Threads
    BY <2>1, <2>3, QueueAnswerKeeps, QueueAlarmKeeps, RequestReportKeeps, StartReplayKeeps,
       SetBackoffKeeps, ListenKeeps, LinkDownKeeps, LinkUpKeeps, BackoffEndsKeeps, TxTimerKeeps,
       HistTimerKeeps DEF Threads
  <2> QED BY <1>2, <2>2, <2>3 DEF Next
<1> QED BY <1>1, <1>2

LEMMA SchedInvIsInvariant == Spec => []SchedInv
<1>1. SchedInv /\ [Next]_vars => SchedInv'
  BY StepsAreSound
<1> QED BY InitIsSound, <1>1, PTL DEF Spec

\* The confirmed-uplink slot is always held by a path that still has the very frame
\* in hand, and answers keep their order over retries, yields and rejoins (ack_release(),
\* backoff_yield_to_alarm()): for every choice of confirmed kinds, and all depths, retries
\* and lengths of reports and replays.
THEOREM SlotNeverLeaks == Spec => []TxInv
<1>1. SchedInv => TxInv
  <2> SUFFICES ASSUME SchedInv PROVE TxInv
    OBVIOUS
  <2>1. p2p \in Radios /\ cur \in Hand /\ answers \in Seq(Answer) /\ ack \in Slot
    BY TypeParts DEF SchedInv
  <2>2. AnswerOrder
    BY <2>1, OrderIsAnswerOrder DEF SchedInv
  <2>3. ASSUME ack.kind # "none" PROVE ack.frame = InHand(cur, tlm, hist)[ack.kind]
    <3>1. SlotHeld(ack, cur, tlm, hist) /\ ack.kind \in Kinds
      BY <2>1, <2>3 DEF SchedInv, Slot
    <3>2. CASE ack.kind \in {"answer", "alarm"}
      BY <3>1, <3>2 DEF InHand, SlotHeld
    <3>3. CASE ack.kind = "telemetry"
      BY <3>1, <3>3 DEF InHand, SlotHeld
    <3>4. CASE ack.kind = "history"
      BY <3>1, <3>4 DEF InHand, SlotHeld
    <3> QED BY <3>1, <3>2, <3>3, <3>4 DEF Kinds
  <2> QED BY <2>2, <2>3 DEF SchedInv, TxInv, AckOwner
<1> QED BY <1>1, SchedInvIsInvariant, PTL

\* No bounce, hold, retry, yield, listen mode, rejoin or end of a replay leaves a queued
\* frame, an open report or a running replay without a handler that runs or is due; only
\* the end of a report that waited for its Ack may (tx_send(), ack_release(), app_radio_tx_kick()).
THEOREM WakeupsAreKept == Spec => WakeupsKept
<1>1. SchedInv /\ [Next]_vars => [(Awake /\ ~DropsReport) => Awake']_vars
  BY StepsAreSound
<1> QED BY <1>1, SchedInvIsInvariant, PTL DEF Spec, WakeupsKept

\* While a network backoff runs, a run of m_tx_work that finds an alarm takes it, whatever
\* was in hand or waits for its Ack (backoff_yield_to_alarm()).
THEOREM AlarmsPassBackoff == Spec => AlarmPassesBackoff
<1> DEFINE AlarmWins ==
      (TxStarts /\ ready /\ backoff /\ alarms # <<>>
         /\ ~(cur.kind = "answer" /\ Len(answers) = QueueDepth))
      => cur'.kind = "alarm" \/ Len(alarms') < Len(alarms)
<1>1. SchedInv /\ [Next]_vars => [AlarmWins]_vars
  <2> SUFFICES ASSUME SchedInv, TxStarts, ready, backoff, alarms # <<>>,
                      ~(cur.kind = "answer" /\ Len(answers) = QueueDepth)
               PROVE  cur'.kind = "alarm" \/ Len(alarms') < Len(alarms)
    OBVIOUS
  <2> DEFINE y == AfterYield
  <2>1. p2p \in Radios /\ alarms \in Seq(Frames)
    BY TypeParts DEF SchedInv
  <2>2. y.cur.kind \in {"none", "alarm"} /\ y.ack.kind \in {"none", "alarm"}
    BY YieldOps, Zenon DEF Yields
  <2>3. QueuedStep(y) \/ TlmStep(y)
    BY Zenon DEF TxStarts
  <2> HIDE DEF y
  <2>4. ~TlmStep(y)
    BY <2>2 DEF TlmStep, ReportFirst, NothingQueued
  <2>5. CASE y.cur.kind # "none" /\ CurSend(y.cur, y)
    <3>1. \A h : HoldOf(h) \in {"again", "backoff"}
      BY DEF HoldOf
    <3>2. cur' = y.cur
      BY <2>5, <3>1 DEF CurSend, CurEnds
    <3> QED BY <2>2, <2>5, <3>2
  <2>6. CASE alarms' = Tail(alarms)
    <3>1. Len(Tail(alarms)) = Len(alarms) - 1 /\ Len(alarms) \in Nat
      BY <2>1, HeadTailProperties
    <3> QED BY <2>6, <3>1
  <2>7. ~TakesAnswer(y)
    BY Zenon DEF TakesAnswer
  <2> QED BY <2>3, <2>4, <2>5, <2>6, <2>7, Zenon DEF QueuedStep
<1> QED BY <1>1, SchedInvIsInvariant, PTL DEF Spec, AlarmPassesBackoff

-----------------------------------------------------------------------------
(* The cadence, for all intervals and tolerances and all clocks *)

\* A record on unix time, undisturbed since, was made by the RTC of now.
RtcOutlives == ~moved /\ record.synced => RtcIsSet

CadenceInv == SlotsInv /\ RtcOutlives /\ grid \in [anchor : Int, step : Intervals, synced : BOOLEAN]
              /\ record \in [slot : Int, synced : BOOLEAN]

LEMMA SlotConstants ==
  /\ Intervals \subseteq Nat /\ \A i \in Intervals : i > 0
  /\ SlotTolerance \in Nat /\ RtcSteps \subseteq Int /\ MaxUptime \in Nat
BY SlotAssumption

\* A grid point is a time.
LEMMA RoundIsInt ==
  ASSUME NEW a \in Int, NEW s \in Nat, s > 0, NEW t \in Int
  PROVE  SlotRound(a, s, t) \in Int
<1>1. s \div 2 \in Int
  OBVIOUS
<1>2. (t - a + s \div 2) \div s \in Int
  BY <1>1
<1>3. ((t - a + s \div 2) \div s) * s \in Int
  BY <1>2
<1> QED BY <1>3 DEF SlotRound

LEMMA ClockIsInt ==
  ASSUME SlotsType
  PROVE  ClockNow \in Int /\ period \in Nat /\ period > 0 /\ Tolerance \in Nat /\ Tolerance < period
<1>1. uptime \in Int /\ rtc \in Int /\ period \in Nat /\ period > 0
  BY SlotConstants DEF SlotsType
<1>2. period \div 2 \in Nat /\ period \div 2 < period
  BY <1>1
<1> QED BY <1>1, <1>2, SlotConstants DEF ClockNow, Tolerance

\* app_slot_next() from a cadence run: the next slot is an interval after this one, and ahead.
LEMMA PeriodicAims ==
  ASSUME SlotsType, NEW g \in [anchor : Int, step : Intervals, synced : BOOLEAN]
  PROVE  LET r == SlotNext(g, TRUE) IN
         /\ r.grid \in [anchor : Int, step : Intervals, synced : BOOLEAN]
         /\ r.slot \in Int /\ r.next = r.slot + period /\ r.next > ClockNow
<1> DEFINE start == SlotRound(g.anchor, period, ClockNow)
           off == ClockNow - start
<1>1. ClockNow \in Int /\ period \in Nat /\ period > 0 /\ Tolerance \in Nat /\ Tolerance < period
  BY ClockIsInt
<1>2. start \in Int
  BY <1>1, RoundIsInt
<1>3. CASE off > Tolerance \/ off < -Tolerance
  BY <1>1, <1>3 DEF SlotNext
<1>4. CASE ~(off > Tolerance \/ off < -Tolerance)
  <2>1. off <= Tolerance
    BY <1>1, <1>2, <1>4
  <2>2. start + period > ClockNow
    BY <1>1, <1>2, <2>1
  <2>3. SlotNext(g, TRUE).grid = g /\ SlotNext(g, TRUE).slot = start /\ SlotNext(g, TRUE).next = start + period
    BY <1>4 DEF SlotNext
  <2> QED BY <1>2, <2>2, <2>3
<1> QED BY <1>3, <1>4

LEMMA GridIsGrid ==
  ASSUME SlotsType, grid \in [anchor : Int, step : Intervals, synced : BOOLEAN]
  PROVE  Grid(grid) \in [anchor : Int, step : Intervals, synced : BOOLEAN]
<1>1. ClockNow \in Int /\ uptime \in Int /\ period \in Intervals /\ RtcIsSet \in BOOLEAN
  BY ClockIsInt DEF SlotsType, RtcIsSet
<1>2. CASE grid.step # period \/ (grid.synced /\ ~RtcIsSet)
  BY <1>1, <1>2 DEF Grid
<1>3. CASE ~(grid.step # period \/ (grid.synced /\ ~RtcIsSet))
  <2> DEFINE a == IF RtcIsSet /\ ~grid.synced THEN grid.anchor + ClockNow - uptime ELSE grid.anchor
  <2>1. a \in Int
    BY <1>1
  <2>2. Grid(grid) = [grid EXCEPT !.anchor = a, !.synced = RtcIsSet]
    BY <1>3 DEF Grid
  <2> QED BY <1>1, <2>1, <2>2
<1> QED BY <1>2, <1>3

LEMMA SlotsStart == SlotInit => CadenceInv
<1> SUFFICES ASSUME SlotInit PROVE CadenceInv
  OBVIOUS
<1>1. /\ uptime = 0 /\ rtc \in Int /\ period \in Intervals /\ period \in Nat /\ period > 0
      /\ timer = period /\ cycles = <<>> /\ ~moved
      /\ RtcIsSet \in BOOLEAN /\ record = [slot |-> ClockNow, synced |-> RtcIsSet]
      /\ grid = [anchor |-> ClockNow, step |-> period, synced |-> RtcIsSet]
  BY SlotConstants DEF SlotInit, Unset, RtcIsSet
<1>2. ClockNow \in Int
  BY <1>1 DEF ClockNow
<1>3. SlotsType
  BY <1>1, <1>2, SlotConstants DEF SlotsType, IsInjective
<1>4. CadenceGoesOn /\ AimsAtSlot
  BY <1>1, <1>2 DEF CadenceGoesOn, AimsAtSlot, DueSlot, Unset
<1>5. RtcOutlives
  BY <1>1 DEF RtcOutlives
<1> QED BY <1>1, <1>2, <1>3, <1>4, <1>5 DEF CadenceInv, SlotsInv

\* k_work_submit(): the work is in the queue, once, and nothing leaves it.
LEMMA SubmitAdds ==
  ASSUME SlotsType, NEW work \in Cycles
  PROVE  /\ Submitted(work) \in Seq(Cycles) /\ IsInjective(Submitted(work))
         /\ work \in ToSet(Submitted(work)) /\ ToSet(cycles) \subseteq ToSet(Submitted(work))
<1>1. cycles \in Seq(Cycles) /\ IsInjective(cycles)
  BY DEF SlotsType
<1>2. CASE work \in ToSet(cycles)
  BY <1>1, <1>2 DEF Submitted
<1>3. CASE work \notin ToSet(cycles)
  <2>1. Submitted(work) = Append(cycles, work)
    BY <1>3 DEF Submitted
  <2>2. /\ Append(cycles, work) \in Seq(Cycles) /\ DOMAIN Append(cycles, work) = 1..Len(cycles) + 1
        /\ \A i \in 1..Len(cycles) : Append(cycles, work)[i] = cycles[i]
        /\ Append(cycles, work)[Len(cycles) + 1] = work
        /\ DOMAIN cycles = 1..Len(cycles) /\ Len(cycles) \in Nat
    BY <1>1
  <2>3. \A i \in 1..Len(cycles) : cycles[i] # work
    BY <1>3, <2>2 DEF ToSet
  <2>4. IsInjective(Append(cycles, work))
    BY <1>1, <2>2, <2>3 DEF IsInjective
  <2>5. work \in ToSet(Append(cycles, work)) /\ ToSet(cycles) \subseteq ToSet(Append(cycles, work))
    BY <2>2 DEF ToSet
  <2> QED BY <2>1, <2>2, <2>4, <2>5
<1> QED BY <1>2, <1>3

\* The head leaves the queue; what else was in it stays.
LEMMA TailLeaves ==
  ASSUME SlotsType, cycles # <<>>
  PROVE  /\ Tail(cycles) \in Seq(Cycles) /\ IsInjective(Tail(cycles))
         /\ ToSet(cycles) \subseteq ToSet(Tail(cycles)) \union {Head(cycles)}
<1>1. cycles \in Seq(Cycles) /\ IsInjective(cycles) /\ cycles # <<>>
  BY DEF SlotsType
<1>2. /\ Tail(cycles) \in Seq(Cycles) /\ Len(cycles) \in Nat /\ Len(cycles) > 0
      /\ DOMAIN Tail(cycles) = 1..Len(cycles) - 1 /\ DOMAIN cycles = 1..Len(cycles)
      /\ \A i \in 1..Len(cycles) - 1 : Tail(cycles)[i] = cycles[i + 1]
      /\ Head(cycles) = cycles[1]
  BY <1>1
<1>3. IsInjective(Tail(cycles))
  <2> SUFFICES ASSUME NEW i \in 1..Len(cycles) - 1, NEW j \in 1..Len(cycles) - 1,
                      Tail(cycles)[i] = Tail(cycles)[j]
               PROVE  i = j
    BY <1>2 DEF IsInjective
  <2>1. i + 1 \in DOMAIN cycles /\ j + 1 \in DOMAIN cycles /\ cycles[i + 1] = cycles[j + 1]
    BY <1>2
  <2>2. i + 1 = j + 1
    BY <1>1, <2>1 DEF IsInjective
  <2> QED BY <2>2
<1>4. ASSUME NEW i \in 1..Len(cycles) PROVE cycles[i] \in ToSet(Tail(cycles)) \union {Head(cycles)}
  <2>1. CASE i = 1
    BY <1>2, <2>1
  <2>2. CASE i # 1
    <3>1. i - 1 \in 1..Len(cycles) - 1 /\ Tail(cycles)[i - 1] = cycles[i]
      BY <1>2, <1>4, <2>2
    <3> QED BY <1>2, <3>1 DEF ToSet
  <2> QED BY <2>1, <2>2
<1> QED BY <1>2, <1>3, <1>4 DEF ToSet

LEMMA CadenceStep == CadenceInv /\ [SlotsNext]_slotVars => CadenceInv'
<1> SUFFICES ASSUME CadenceInv, [SlotsNext]_slotVars PROVE CadenceInv'
  OBVIOUS
<1>typ. /\ SlotsType /\ CadenceGoesOn /\ AimsAtSlot /\ RtcOutlives
        /\ grid \in [anchor : Int, step : Intervals, synced : BOOLEAN]
        /\ record \in [slot : Int, synced : BOOLEAN]
  BY DEF CadenceInv, SlotsInv
<1>num. /\ ClockNow \in Int /\ period \in Nat /\ period > 0 /\ uptime \in Int /\ rtc \in Int
        /\ timer \in {Unset} \union (Nat \ {0}) /\ Unset \in Int /\ Unset < 0 /\ RtcIsSet \in BOOLEAN
  BY <1>typ, ClockIsInt DEF SlotsType, Unset, RtcIsSet
<1>1. ASSUME RunReport PROVE CadenceInv'
  <2>1. /\ cycles # <<>> /\ cycles' = Tail(cycles) /\ UNCHANGED <<uptime, rtc, period, suspended, upsets>>
    BY <1>1 DEF RunReport
  <2>2. /\ cycles' \in Seq(Cycles) /\ IsInjective(cycles')
        /\ ToSet(cycles) \subseteq ToSet(cycles') \union {Head(cycles)}
    BY <1>typ, <2>1, TailLeaves
  <2>3. ClockNow' = ClockNow /\ RtcIsSet' = RtcIsSet
    BY <2>1 DEF ClockNow, RtcIsSet
  <2>4. CASE Head(cycles) = "periodic"
    <3> DEFINE r == SlotNext(Grid(grid), TRUE)
    <3>1. /\ grid' = r.grid /\ timer' = Delay(r.next) /\ ~moved'
          /\ record' = [slot |-> r.slot, synced |-> RtcIsSet]
      BY <1>1, <2>4 DEF RunReport, Records, Schedule
    <3>2. /\ r.grid \in [anchor : Int, step : Intervals, synced : BOOLEAN]
          /\ r.slot \in Int /\ r.next = r.slot + period /\ r.next > ClockNow
      BY <1>typ, GridIsGrid, PeriodicAims
    <3> HIDE DEF r
    <3>3. timer' = r.slot + period - ClockNow /\ timer' \in Nat \ {0}
      BY <1>num, <3>1, <3>2 DEF Delay
    <3>4. record'.slot = r.slot /\ record'.synced = RtcIsSet
          /\ record' \in [slot : Int, synced : BOOLEAN]
      BY <1>num, <3>1, <3>2
    <3>5. SlotsType'
      BY <1>typ, <2>1, <2>2, <3>1, <3>2, <3>3, <3>4 DEF SlotsType
    <3>6. CadenceGoesOn'
      BY <1>num, <3>3 DEF CadenceGoesOn, Unset
    <3>7. AimsAtSlot'
      BY <1>num, <2>1, <2>3, <3>2, <3>3, <3>4 DEF AimsAtSlot, DueSlot
    <3>8. RtcOutlives'
      BY <2>3, <3>4 DEF RtcOutlives
    <3> QED BY <3>1, <3>2, <3>4, <3>5, <3>6, <3>7, <3>8 DEF CadenceInv, SlotsInv
  <2>5. CASE Head(cycles) # "periodic"
    <3>1. UNCHANGED <<grid, timer, record, moved>>
      BY <1>1, <2>5 DEF RunReport, Records
    <3>2. SlotsType'
      BY <1>typ, <2>1, <2>2, <3>1 DEF SlotsType
    <3>3. CadenceGoesOn' /\ AimsAtSlot' /\ RtcOutlives'
      BY <1>typ, <2>1, <2>2, <2>3, <2>5, <3>1 DEF CadenceGoesOn, AimsAtSlot, DueSlot, RtcOutlives
    <3> QED BY <1>typ, <3>1, <3>2, <3>3 DEF CadenceInv, SlotsInv
  <2> QED BY <2>4, <2>5
<1>2. ASSUME Second PROVE CadenceInv'
  <2>1. /\ uptime < MaxUptime /\ uptime' = uptime + 1
        /\ timer' = IF timer \in {Unset, 1} THEN Unset ELSE timer - 1
        /\ cycles' = IF timer = 1 THEN Submitted("periodic") ELSE cycles
        /\ UNCHANGED <<rtc, period, grid, suspended, record, moved, upsets>>
    BY <1>2 DEF Second
  <2>2. /\ Submitted("periodic") \in Seq(Cycles) /\ IsInjective(Submitted("periodic"))
        /\ "periodic" \in ToSet(Submitted("periodic"))
    BY <1>typ, SubmitAdds DEF Cycles
  <2>3. SlotsType'
    <3>1. uptime' \in 0..MaxUptime
      BY <1>typ, <2>1, SlotConstants DEF SlotsType
    <3>2. timer' \in {Unset} \union (Nat \ {0})
      BY <1>num, <2>1
    <3> QED BY <1>typ, <2>1, <2>2, <3>1, <3>2 DEF SlotsType
  <2>4. CadenceGoesOn'
    BY <1>typ, <1>num, <2>1, <2>2 DEF CadenceGoesOn
  <2>5. RtcIsSet' = RtcIsSet /\ ClockNow' = ClockNow + 1
    BY <1>num, <2>1 DEF ClockNow, RtcIsSet
  <2>6. AimsAtSlot'
    <3>1. DueSlot' = DueSlot /\ DueSlot \in Int
      BY <1>typ, <1>num, <2>1, <2>5 DEF DueSlot
    <3>2. timer' # Unset => timer # Unset /\ timer' = timer - 1
      BY <1>num, <2>1
    <3> QED BY <1>typ, <1>num, <2>1, <2>5, <3>1, <3>2 DEF AimsAtSlot
  <2>7. RtcOutlives'
    BY <1>typ, <2>1, <2>5 DEF RtcOutlives
  <2> QED BY <1>typ, <2>1, <2>3, <2>4, <2>6, <2>7 DEF CadenceInv, SlotsInv
<1>3. ASSUME Suspend PROVE CadenceInv'
  <2>1. suspended' = TRUE /\ timer' = Unset /\ cycles' = <<>>
        /\ UNCHANGED <<uptime, rtc, period, grid, record, moved, upsets>>
    BY <1>3 DEF Suspend
  <2>2. SlotsType'
    BY <1>typ, <2>1 DEF SlotsType, IsInjective
  <2>3. CadenceGoesOn' /\ AimsAtSlot' /\ RtcOutlives'
    BY <1>typ, <2>1 DEF CadenceGoesOn, AimsAtSlot, RtcOutlives, RtcIsSet
  <2> QED BY <1>typ, <2>1, <2>2, <2>3 DEF CadenceInv, SlotsInv
<1>4. ASSUME NEW work \in {"trigger", "force"}, Trigger(work) PROVE CadenceInv'
  <2>1. cycles' = Submitted(work)
        /\ UNCHANGED <<uptime, rtc, period, grid, timer, suspended, record, moved, upsets>>
    BY <1>4 DEF Trigger
  <2>2. /\ Submitted(work) \in Seq(Cycles) /\ IsInjective(Submitted(work))
        /\ ToSet(cycles) \subseteq ToSet(Submitted(work))
    BY <1>typ, SubmitAdds DEF Cycles
  <2>3. SlotsType'
    BY <1>typ, <2>1, <2>2 DEF SlotsType
  <2>4. CadenceGoesOn' /\ AimsAtSlot' /\ RtcOutlives'
    BY <1>typ, <2>1, <2>2 DEF CadenceGoesOn, AimsAtSlot, DueSlot, ClockNow, RtcOutlives, RtcIsSet
  <2> QED BY <1>typ, <2>1, <2>3, <2>4 DEF CadenceInv, SlotsInv
<1>5. ASSUME ClockSync PROVE CadenceInv'
  <2>1. PICK d \in RtcSteps : rtc' = IF RtcIsSet THEN rtc + d ELSE d
    BY <1>5 DEF ClockSync
  <2>2. /\ moved' = (moved \/ RtcIsSet) /\ d \in Int /\ rtc' \in Int
        /\ UNCHANGED <<uptime, period, grid, timer, cycles, suspended, record>>
    BY <1>5, <1>num, <2>1, SlotConstants DEF ClockSync, Upset
  <2>3. SlotsType'
    BY <1>typ, <2>2 DEF SlotsType
  <2>4. CadenceGoesOn'
    BY <1>typ, <2>2 DEF CadenceGoesOn
  <2>5. RtcOutlives'
    BY <1>typ, <2>2 DEF RtcOutlives
  <2>6. AimsAtSlot'
    <3> SUFFICES ASSUME timer # Unset, ~moved, ~RtcIsSet PROVE ClockNow' + timer = DueSlot'
      BY <2>2 DEF AimsAtSlot
    <3>1. ~record.synced /\ ClockNow = uptime /\ uptime + timer = record.slot + period /\ record.slot \in Int
      BY <1>typ, <1>num DEF RtcOutlives, AimsAtSlot, DueSlot, ClockNow
    <3>2. CASE RtcIsSet'
      BY <1>num, <2>2, <3>1, <3>2 DEF ClockNow, DueSlot
    <3>3. CASE ~RtcIsSet'
      BY <1>num, <2>2, <3>1, <3>3 DEF ClockNow, DueSlot
    <3> QED BY <3>2, <3>3
  <2> QED BY <1>typ, <2>2, <2>3, <2>4, <2>5, <2>6 DEF CadenceInv, SlotsInv
<1>6. ASSUME ClockLost PROVE CadenceInv'
  <2>1. rtc' = Unset /\ moved' = TRUE
        /\ UNCHANGED <<uptime, period, grid, timer, cycles, suspended, record>>
    BY <1>6 DEF ClockLost, Upset
  <2>2. SlotsType'
    BY <1>typ, <1>num, <2>1 DEF SlotsType
  <2>3. CadenceGoesOn' /\ AimsAtSlot' /\ RtcOutlives'
    BY <1>typ, <2>1 DEF CadenceGoesOn, AimsAtSlot, RtcOutlives
  <2> QED BY <1>typ, <2>1, <2>2, <2>3 DEF CadenceInv, SlotsInv
<1>7. ASSUME IntervalChanges PROVE CadenceInv'
  <2>1. period' \in Intervals /\ moved' = TRUE
        /\ UNCHANGED <<uptime, rtc, grid, timer, cycles, suspended, record>>
    BY <1>7 DEF IntervalChanges, Upset
  <2>2. SlotsType'
    BY <1>typ, <2>1 DEF SlotsType
  <2>3. CadenceGoesOn' /\ AimsAtSlot' /\ RtcOutlives'
    BY <1>typ, <2>1 DEF CadenceGoesOn, AimsAtSlot, RtcOutlives
  <2> QED BY <1>typ, <2>1, <2>2, <2>3 DEF CadenceInv, SlotsInv
<1>8. CASE UNCHANGED slotVars
  BY <1>typ, <1>8 DEF slotVars, CadenceInv, SlotsInv, SlotsType, CadenceGoesOn, AimsAtSlot, RtcOutlives,
     DueSlot, ClockNow, RtcIsSet
<1> QED BY <1>1, <1>2, <1>3, <1>4, <1>5, <1>6, <1>7, <1>8 DEF SlotsNext

LEMMA CadenceInvariant == SlotsSpec => []CadenceInv
BY SlotsStart, CadenceStep, PTL DEF SlotsSpec

\* The cadence goes on until the power goes, and its timer aims at the slot after the last
\* record, whatever ad-hoc cycles run in between and however late a cycle was: for every
\* interval, tolerance and step of the RTC (schedule_next_report(), app_slot_next()).
THEOREM CadenceAlwaysAims == SlotsSpec => []SlotsInv
<1>1. CadenceInv => SlotsInv
  BY DEF CadenceInv
<1> QED BY <1>1, CadenceInvariant, PTL

---------------------------------------------------------------------------
(* The spacing of the records *)

LEMMA DivBounds ==
  ASSUME NEW x \in Int, NEW s \in Nat, s > 0
  PROVE  x \div s \in Int /\ (x \div s) * s <= x /\ x < (x \div s) * s + s
OBVIOUS

LEMMA MultipleMod ==
  ASSUME NEW n \in Int, NEW s \in Nat, s > 0
  PROVE  (n * s) % s = 0
OBVIOUS

\* A factor of multiples that are less than one step apart is the same.
LEMMA FactorOrder ==
  ASSUME NEW m \in Int, NEW n \in Int, NEW s \in Nat, s > 0, n * s < m * s + s
  PROVE  n <= m
<1> SUFFICES ASSUME n >= m + 1 PROVE FALSE
  OBVIOUS
<1>1. n * s >= (m + 1) * s
  OBVIOUS
<1> QED BY <1>1

\* app_slot_round(): the grid point nearest to t, by its number.
LEMMA RoundIsNearest ==
  ASSUME NEW a \in Int, NEW s \in Nat, s > 0, NEW t \in Int
  PROVE  \E m \in Int : /\ SlotRound(a, s, t) = a + m * s
                        /\ m * s <= t - a + s \div 2 /\ t - a + s \div 2 < m * s + s
<1> DEFINE x == t - a + s \div 2
           m == x \div s
<1>1. s \div 2 \in Int
  OBVIOUS
<1>2. x \in Int
  BY <1>1
<1> HIDE DEF x
<1>3. m \in Int /\ m * s <= x /\ x < m * s + s
  BY <1>2, DivBounds
<1>4. SlotRound(a, s, t) = a + m * s
  BY DEF SlotRound, x
<1> HIDE DEF m
<1>5. m * s <= t - a + s \div 2 /\ t - a + s \div 2 < m * s + s
  BY <1>3 DEF x
<1> QED BY <1>3, <1>4, <1>5

\* d is a slot of the grid with anchor a and step s.
SlotOf(a, s, d) == \E n \in Int : d = a + n * s

LEMMA RoundIsOnGrid ==
  ASSUME NEW a \in Int, NEW s \in Nat, s > 0, NEW t \in Int
  PROVE  SlotOf(a, s, SlotRound(a, s, t))
<1>1. PICK m \in Int : SlotRound(a, s, t) = a + m * s
  BY RoundIsNearest
<1> QED BY <1>1 DEF SlotOf

\* A slot that is near is the one the run is rounded to; a slot that is over is not passed by.
LEMMA RoundFindsSlot ==
  ASSUME NEW a \in Int, NEW s \in Nat, NEW t \in Int, NEW d \in Int, NEW tol \in Nat,
         s > 0, SlotOf(a, s, d), 2 * tol < s
  PROVE  /\ t - d \in -tol..tol => SlotRound(a, s, t) = d
         /\ t >= d => \E j \in Nat : SlotRound(a, s, t) = d + j * s
<1>1. PICK m \in Int : /\ SlotRound(a, s, t) = a + m * s
                       /\ m * s <= t - a + s \div 2 /\ t - a + s \div 2 < m * s + s
  BY RoundIsNearest
<1>2. PICK n \in Int : d = a + n * s
  BY DEF SlotOf
<1>3. m * s \in Int /\ n * s \in Int
  OBVIOUS
<1>4. s \div 2 \in Nat /\ 2 * (s \div 2) <= s /\ s <= 2 * (s \div 2) + 1
  OBVIOUS
<1>5. ASSUME t - d \in -tol..tol PROVE m = n
  <2>1. t - a - n * s <= tol /\ t - a - n * s >= -tol
    BY <1>2, <1>3, <1>5
  <2>2. m * s < n * s + s
    BY <1>1, <1>3, <1>4, <2>1
  <2>3. n * s < m * s + s
    BY <1>1, <1>3, <1>4, <2>1
  <2> QED BY <2>2, <2>3, FactorOrder
<1>6. ASSUME t >= d PROVE n <= m
  <2>1. n * s < m * s + s
    BY <1>1, <1>2, <1>3, <1>4, <1>6
  <2> QED BY <2>1, FactorOrder
<1>7. ASSUME n <= m PROVE \E j \in Nat : SlotRound(a, s, t) = d + j * s
  <2>1. m - n \in Nat /\ m * s = n * s + (m - n) * s
    BY <1>7
  <2>2. a + m * s = (a + n * s) + (m - n) * s
    BY <1>3, <2>1
  <2> QED BY <1>1, <1>2, <2>1, <2>2, Zenon
<1> QED BY <1>1, <1>2, <1>5, <1>6, <1>7

\* The last record is a slot of the grid, on the clock of the grid, ...
OnGrid ==
  /\ grid.synced = record.synced
  /\ \E k \in Int : record.slot = grid.anchor + k * grid.step

\* ... and a periodic cycle that waits is not early.
CycleIsDue == ~moved /\ "periodic" \in ToSet(cycles) => ClockNow >= DueSlot

SpacingInv == CadenceInv /\ OnGrid /\ CycleIsDue

\* A periodic run gets a slot of its grid near to it.
LEMMA PeriodicSlot ==
  ASSUME SlotsType, grid \in [anchor : Int, step : Intervals, synced : BOOLEAN]
  PROVE  LET r == SlotNext(Grid(grid), TRUE) IN
         /\ r.slot - ClockNow \in -Tolerance..Tolerance
         /\ r.grid.synced = RtcIsSet /\ \E k \in Int : r.slot = r.grid.anchor + k * r.grid.step
<1> DEFINE g   == Grid(grid)
           start == SlotRound(g.anchor, period, ClockNow)
           off == ClockNow - start
           r   == SlotNext(g, TRUE)
<1>1. /\ ClockNow \in Int /\ period \in Nat /\ period > 0 /\ Tolerance \in Nat /\ 2 * Tolerance < period
      /\ uptime \in Int /\ rtc \in Int /\ RtcIsSet \in BOOLEAN /\ period \in Intervals
  <2>1. period \in Intervals /\ uptime \in Int /\ rtc \in Int
    BY DEF SlotsType
  <2>2. 2 * SlotTolerance < period /\ SlotTolerance \in Nat
    BY <2>1, OneSlotIsNear, SlotConstants
  <2>3. Tolerance = SlotTolerance
    BY <2>1, <2>2, SlotConstants DEF Tolerance
  <2> QED BY <2>1, <2>2, <2>3, ClockIsInt DEF RtcIsSet
<1>2. g \in [anchor : Int, step : Intervals, synced : BOOLEAN]
  BY GridIsGrid
<1>3. g.step = period /\ g.synced = RtcIsSet
  BY <1>1 DEF Grid
<1> HIDE DEF g
<1>4. PICK m \in Int : start = g.anchor + m * period
  <2>1. g.anchor \in Int
    BY <1>2
  <2>2. SlotOf(g.anchor, period, start)
    BY <1>1, <2>1, RoundIsOnGrid
  <2> QED BY <2>2, Zenon DEF SlotOf
<1>5. CASE off > Tolerance \/ off < -Tolerance
  <2>1. r.slot = ClockNow /\ r.grid = [g EXCEPT !.anchor = ClockNow]
    BY <1>5 DEF SlotNext
  <2>2. r.grid.anchor = ClockNow /\ r.grid.step = period /\ r.grid.synced = RtcIsSet
    BY <1>2, <1>3, <2>1
  <2> HIDE DEF r
  <2>3. ClockNow = ClockNow + 0 * period /\ ClockNow - ClockNow \in -Tolerance..Tolerance
    BY <1>1
  <2>4. \E k \in Int : r.slot = r.grid.anchor + k * r.grid.step
    BY <2>1, <2>2, <2>3
  <2> QED BY <2>1, <2>2, <2>3, <2>4 DEF r, g
<1>6. CASE ~(off > Tolerance \/ off < -Tolerance)
  <2>1. r.slot = start /\ r.grid = g
    BY <1>6 DEF SlotNext
  <2> HIDE DEF r
  <2>2. r.slot \in Int /\ r.slot = r.grid.anchor + m * r.grid.step
    BY <1>1, <1>2, <1>3, <1>4, <2>1
  <2>3. r.slot - ClockNow \in -Tolerance..Tolerance
    BY <1>1, <1>6, <2>1, <2>2
  <2> QED BY <1>3, <2>1, <2>2, <2>3 DEF r, g
<1> QED BY <1>5, <1>6

\* The slot after the last record is one of the grid the next run is rounded to.
LEMMA DueIsOnGrid ==
  ASSUME SlotsType, OnGrid, grid \in [anchor : Int, step : Intervals, synced : BOOLEAN],
         record \in [slot : Int, synced : BOOLEAN], grid.step = period, record.synced => RtcIsSet
  PROVE  \E n \in Int : DueSlot = Grid(grid).anchor + n * period
<1>1. ClockNow \in Int /\ period \in Nat /\ uptime \in Int /\ rtc \in Int /\ grid.anchor \in Int
  BY ClockIsInt DEF SlotsType
<1>2. PICK k \in Int : record.slot = grid.anchor + k * period
  BY DEF OnGrid
<1>3. k * period \in Int /\ (k + 1) * period = k * period + period
  BY <1>1
<1> DEFINE shift == IF RtcIsSet /\ ~record.synced THEN rtc ELSE 0
<1>4. Grid(grid).anchor = grid.anchor + shift
  BY <1>1 DEF Grid, OnGrid, ClockNow
<1>5. shift \in Int
  BY <1>1
<1>6. DueSlot = record.slot + period + shift
  BY DEF DueSlot
<1> HIDE DEF shift
<1>7. DueSlot = Grid(grid).anchor + (k + 1) * period
  BY <1>1, <1>2, <1>3, <1>4, <1>5, <1>6
<1> QED BY <1>7

\* The slot a periodic run of an undisturbed grid gets.
LEMMA UndisturbedSlot ==
  ASSUME SlotsType, OnGrid, grid \in [anchor : Int, step : Intervals, synced : BOOLEAN],
         record \in [slot : Int, synced : BOOLEAN], grid.step = period, record.synced => RtcIsSet
  PROVE  LET slot == SlotNext(Grid(grid), TRUE).slot IN
         /\ Near(DueSlot) => slot = DueSlot
         /\ ClockNow >= DueSlot =>
              slot = ClockNow \/ (slot >= DueSlot /\ (slot - DueSlot) % period = 0)
<1> DEFINE g   == Grid(grid)
           start == SlotRound(g.anchor, period, ClockNow)
           off == ClockNow - start
<1>1. ClockNow \in Int /\ period \in Nat /\ period > 0 /\ Tolerance \in Nat /\ 2 * Tolerance < period
  <2>1. period \in Intervals
    BY DEF SlotsType
  <2>2. 2 * SlotTolerance < period /\ SlotTolerance \in Nat /\ period \in Nat
    BY <2>1, OneSlotIsNear, SlotConstants
  <2>3. Tolerance = SlotTolerance
    BY <2>2 DEF Tolerance
  <2> QED BY <2>2, <2>3, ClockIsInt
<1>2. g.anchor \in Int
  BY GridIsGrid
<1> HIDE DEF g
<1>3. SlotOf(g.anchor, period, DueSlot)
  BY DueIsOnGrid DEF g, SlotOf
<1>4. DueSlot \in Int
  BY <1>1, <1>2, <1>3 DEF SlotOf
<1>round. /\ ClockNow - DueSlot \in -Tolerance..Tolerance => start = DueSlot
          /\ ClockNow >= DueSlot => \E j \in Nat : start = DueSlot + j * period
  BY <1>1, <1>2, <1>3, <1>4, RoundFindsSlot
<1>5. ASSUME Near(DueSlot) PROVE SlotNext(g, TRUE).slot = DueSlot
  <2>1. ClockNow - DueSlot \in -Tolerance..Tolerance
    BY <1>1, <1>2, <1>3, <1>4, <1>5 DEF Near
  <2>2. start = DueSlot
    BY <1>3, <1>round, <2>1
  <2>3. ~(off > Tolerance \/ off < -Tolerance)
    BY <1>1, <2>1, <2>2
  <2> QED BY <2>2, <2>3 DEF SlotNext
<1>6. ASSUME ClockNow >= DueSlot
      PROVE  SlotNext(g, TRUE).slot = ClockNow
             \/ /\ SlotNext(g, TRUE).slot >= DueSlot
                /\ (SlotNext(g, TRUE).slot - DueSlot) % period = 0
  <2>1. PICK j \in Nat : start = DueSlot + j * period
    BY <1>3, <1>round, <1>6
  <2>2. j * period \in Nat /\ DueSlot \in Int
    BY <1>1, <1>2, <1>3, <1>4
  <2>3. start >= DueSlot /\ start - DueSlot = j * period
    BY <2>1, <2>2
  <2>4. (start - DueSlot) % period = 0
    BY <1>1, <2>3, MultipleMod
  <2>5. SlotNext(g, TRUE).slot \in {ClockNow, start}
    BY DEF SlotNext
  <2> HIDE DEF start
  <2> QED BY <2>3, <2>4, <2>5
<1> QED BY <1>5, <1>6 DEF g

\* A work that runs is not in the queue any more; one that is submitted adds itself alone.
LEMMA QueueChanges ==
  ASSUME SlotsType
  PROVE  /\ cycles # <<>> => ToSet(Tail(cycles)) \subseteq ToSet(cycles) \ {Head(cycles)}
         /\ \A work \in Cycles : ToSet(Submitted(work)) \subseteq ToSet(cycles) \union {work}
<1>1. cycles \in Seq(Cycles) /\ IsInjective(cycles)
  BY DEF SlotsType
<1>2. ASSUME cycles # <<>> PROVE ToSet(Tail(cycles)) \subseteq ToSet(cycles) \ {Head(cycles)}
  <2>1. /\ Len(cycles) \in Nat /\ Len(cycles) > 0 /\ Head(cycles) = cycles[1]
        /\ DOMAIN Tail(cycles) = 1..Len(cycles) - 1 /\ DOMAIN cycles = 1..Len(cycles)
        /\ \A i \in 1..Len(cycles) - 1 : Tail(cycles)[i] = cycles[i + 1]
    BY <1>1, <1>2
  <2>2. ASSUME NEW i \in 1..Len(cycles) - 1
        PROVE  Tail(cycles)[i] \in ToSet(cycles) /\ Tail(cycles)[i] # Head(cycles)
    <3>1. i + 1 \in DOMAIN cycles /\ 1 \in DOMAIN cycles /\ i + 1 # 1
      BY <2>1
    <3>2. cycles[i + 1] # cycles[1]
      BY <1>1, <3>1 DEF IsInjective
    <3> QED BY <2>1, <3>1, <3>2 DEF ToSet
  <2> QED BY <2>1, <2>2 DEF ToSet
<1>3. ASSUME NEW work \in Cycles PROVE ToSet(Submitted(work)) \subseteq ToSet(cycles) \union {work}
  <2>1. /\ DOMAIN Append(cycles, work) = 1..Len(cycles) + 1 /\ Len(cycles) \in Nat
        /\ \A i \in 1..Len(cycles) : Append(cycles, work)[i] = cycles[i]
        /\ Append(cycles, work)[Len(cycles) + 1] = work /\ DOMAIN cycles = 1..Len(cycles)
    BY <1>1
  <2> QED BY <2>1 DEF Submitted, ToSet
<1> QED BY <1>2, <1>3

LEMMA SpacingStarts == SlotInit => SpacingInv
<1> SUFFICES ASSUME SlotInit PROVE SpacingInv
  OBVIOUS
<1>1. CadenceInv
  BY SlotsStart
<1>2. ClockNow \in Int /\ period \in Nat
  BY <1>1, ClockIsInt DEF CadenceInv, SlotsInv
<1>3. ClockNow = ClockNow + 0 * period
  BY <1>2
<1>4. OnGrid
  BY <1>3 DEF SlotInit, OnGrid
<1>5. CycleIsDue
  BY DEF SlotInit, CycleIsDue, ToSet
<1> QED BY <1>1, <1>4, <1>5 DEF SpacingInv

LEMMA SpacingStep == SpacingInv /\ [SlotsNext]_slotVars => SpacingInv'
<1> SUFFICES ASSUME SpacingInv, [SlotsNext]_slotVars PROVE SpacingInv'
  OBVIOUS
<1>typ. /\ CadenceInv /\ CadenceInv' /\ SlotsType /\ AimsAtSlot /\ RtcOutlives /\ OnGrid /\ CycleIsDue
        /\ grid \in [anchor : Int, step : Intervals, synced : BOOLEAN]
        /\ record \in [slot : Int, synced : BOOLEAN]
  BY CadenceStep DEF SpacingInv, CadenceInv, SlotsInv
<1>num. /\ ClockNow \in Int /\ period \in Nat /\ uptime \in Int /\ rtc \in Int /\ timer \in Int
        /\ record.slot \in Int /\ DueSlot \in Int /\ Unset # 1
  BY <1>typ, ClockIsInt DEF SlotsType, Unset, DueSlot
<1>1. ASSUME RunReport PROVE OnGrid' /\ CycleIsDue'
  <2>1. /\ cycles # <<>> /\ cycles' = Tail(cycles) /\ UNCHANGED <<uptime, rtc, period>>
        /\ ToSet(cycles') \subseteq ToSet(cycles) \ {Head(cycles)}
    BY <1>1, <1>typ, QueueChanges DEF RunReport
  <2>2. CASE Head(cycles) = "periodic"
    <3> DEFINE r == SlotNext(Grid(grid), TRUE)
    <3>1. grid' = r.grid /\ record' = [slot |-> r.slot, synced |-> RtcIsSet]
      BY <1>1, <2>2 DEF RunReport, Records, Schedule
    <3>2. r.grid.synced = RtcIsSet /\ \E k \in Int : r.slot = r.grid.anchor + k * r.grid.step
      BY <1>typ, PeriodicSlot
    <3> HIDE DEF r
    <3>3. OnGrid'
      BY <3>1, <3>2 DEF OnGrid
    <3>4. CycleIsDue'
      BY <2>1, <2>2 DEF CycleIsDue
    <3> QED BY <3>3, <3>4
  <2>3. CASE Head(cycles) # "periodic"
    <3>1. UNCHANGED <<grid, timer, record, moved>>
      BY <1>1, <2>3 DEF RunReport, Records
    <3> QED BY <1>typ, <2>1, <3>1 DEF OnGrid, CycleIsDue, DueSlot, ClockNow, RtcIsSet
  <2> QED BY <2>2, <2>3
<1>2. ASSUME Second PROVE OnGrid' /\ CycleIsDue'
  <2>1. /\ uptime' = uptime + 1 /\ cycles' = IF timer = 1 THEN Submitted("periodic") ELSE cycles
        /\ UNCHANGED <<rtc, period, grid, record, moved>>
    BY <1>2 DEF Second
  <2>2. ClockNow' = ClockNow + 1 /\ DueSlot' = DueSlot
    BY <1>num, <2>1 DEF ClockNow, DueSlot, RtcIsSet
  <2>3. OnGrid'
    BY <1>typ, <2>1 DEF OnGrid
  <2>4. CycleIsDue'
    <3>1. CASE timer = 1
      BY <1>typ, <1>num, <2>1, <2>2, <3>1 DEF CycleIsDue, AimsAtSlot
    <3>2. CASE timer # 1
      BY <1>typ, <1>num, <2>1, <2>2, <3>2 DEF CycleIsDue
    <3> QED BY <3>1, <3>2
  <2> QED BY <2>3, <2>4
<1>3. ASSUME Suspend PROVE OnGrid' /\ CycleIsDue'
  BY <1>3, <1>typ DEF Suspend, OnGrid, CycleIsDue, ToSet
<1>4. ASSUME NEW work \in {"trigger", "force"}, Trigger(work) PROVE OnGrid' /\ CycleIsDue'
  <2>1. /\ cycles' = Submitted(work) /\ UNCHANGED <<uptime, rtc, period, grid, record, moved>>
        /\ ToSet(cycles') \subseteq ToSet(cycles) \union {work}
    BY <1>4, <1>typ, QueueChanges DEF Trigger, Cycles
  <2> QED BY <1>typ, <2>1 DEF OnGrid, CycleIsDue, DueSlot, ClockNow, RtcIsSet
<1>5. ASSUME ClockSync PROVE OnGrid' /\ CycleIsDue'
  <2>1. PICK d \in RtcSteps : rtc' = IF RtcIsSet THEN rtc + d ELSE d
    BY <1>5 DEF ClockSync
  <2>2. /\ moved' = (moved \/ RtcIsSet) /\ d \in Int /\ UNCHANGED <<uptime, period, grid, cycles, record>>
    BY <1>5, <2>1, SlotConstants DEF ClockSync, Upset
  <2>3. OnGrid'
    BY <1>typ, <2>2 DEF OnGrid
  <2>4. CycleIsDue'
    <3> SUFFICES ASSUME "periodic" \in ToSet(cycles), ~moved, ~RtcIsSet PROVE ClockNow' >= DueSlot'
      BY <2>2 DEF CycleIsDue
    <3>1. ~record.synced /\ ClockNow = uptime /\ uptime >= record.slot + period
      BY <1>typ, <1>num DEF RtcOutlives, CycleIsDue, DueSlot, ClockNow
    <3>2. CASE RtcIsSet'
      BY <1>num, <2>1, <2>2, <3>1, <3>2 DEF ClockNow, DueSlot
    <3>3. CASE ~RtcIsSet'
      BY <1>num, <2>2, <3>1, <3>3 DEF ClockNow, DueSlot
    <3> QED BY <3>2, <3>3
  <2> QED BY <2>3, <2>4
<1>6. ASSUME ClockLost \/ IntervalChanges PROVE OnGrid' /\ CycleIsDue'
  BY <1>6, <1>typ DEF ClockLost, IntervalChanges, Upset, OnGrid, CycleIsDue
<1>7. ASSUME UNCHANGED slotVars PROVE OnGrid' /\ CycleIsDue'
  BY <1>7, <1>typ DEF slotVars, OnGrid, CycleIsDue, DueSlot, ClockNow, RtcIsSet
<1> QED BY <1>typ, <1>1, <1>2, <1>3, <1>4, <1>5, <1>6, <1>7 DEF SlotsNext, SpacingInv

\* A record's place tells its time: a cycle that ran near enough to it takes the slot after
\* the last record, and any other a later slot or its own time: for every interval of more
\* than two tolerances and every clock (app_slot_next(), app_slot_round()).
THEOREM RecordsKeepTheirSlots == SlotsSpec => RecordsSpaced
<1>1. SpacingInv /\ [SlotsNext]_slotVars =>
        [Len(cycles') < Len(cycles) /\ ~suspended' /\ Head(cycles) = "periodic" =>
           /\ Near(record'.slot)
           /\ grid.step = period /\ (record.synced => RtcIsSet) =>
                /\ Near(DueSlot) => record'.slot = DueSlot
                /\ ~moved => \/ record'.slot = ClockNow
                              \/ (record'.slot >= DueSlot /\ (record'.slot - DueSlot) % period = 0)]_slotVars
  <2> SUFFICES ASSUME SpacingInv, SlotsNext, Len(cycles') < Len(cycles), ~suspended',
                      Head(cycles) = "periodic"
               PROVE  /\ Near(record'.slot)
                      /\ grid.step = period /\ (record.synced => RtcIsSet) =>
                           /\ Near(DueSlot) => record'.slot = DueSlot
                           /\ ~moved => \/ record'.slot = ClockNow
                                         \/ (record'.slot >= DueSlot /\ (record'.slot - DueSlot) % period = 0)
    OBVIOUS
  <2>typ. /\ SlotsType /\ OnGrid /\ CycleIsDue
          /\ grid \in [anchor : Int, step : Intervals, synced : BOOLEAN]
          /\ record \in [slot : Int, synced : BOOLEAN]
    BY DEF SpacingInv, CadenceInv, SlotsInv
  <2>seq. cycles \in Seq(Cycles) /\ Len(cycles) \in Nat
    BY <2>typ DEF SlotsType
  <2>1. RunReport
    <3>1. ~Suspend
      BY DEF Suspend
    <3>2. \A work \in Cycles : Len(Submitted(work)) >= Len(cycles)
      BY <2>seq DEF Submitted
    <3>3. ~Second /\ \A work \in {"trigger", "force"} : ~Trigger(work)
      BY <2>seq, <3>2 DEF Second, Trigger, Cycles
    <3>4. ~ClockSync /\ ~ClockLost /\ ~IntervalChanges
      BY <2>seq DEF ClockSync, ClockLost, IntervalChanges, Upset
    <3> QED BY <3>1, <3>3, <3>4 DEF SlotsNext
  <2> DEFINE r == SlotNext(Grid(grid), TRUE)
  <2>2. record'.slot = r.slot /\ cycles # <<>>
    <3>1. cycles # <<>> /\ Schedule(TRUE)
      BY <2>1 DEF RunReport, Records
    <3>2. record' = [slot |-> r.slot, synced |-> RtcIsSet]
      BY <3>1 DEF Schedule
    <3> HIDE DEF r
    <3> QED BY <3>1, <3>2
  <2>3. r.slot - ClockNow \in -Tolerance..Tolerance
    BY <2>typ, PeriodicSlot
  <2>4. "periodic" \in ToSet(cycles)
    BY <2>seq, <2>2 DEF ToSet
  <2>5. ~moved => ClockNow >= DueSlot
    BY <2>typ, <2>4 DEF CycleIsDue
  <2>6. grid.step = period /\ (record.synced => RtcIsSet) =>
          /\ Near(DueSlot) => r.slot = DueSlot
          /\ ClockNow >= DueSlot => r.slot = ClockNow \/ (r.slot >= DueSlot /\ (r.slot - DueSlot) % period = 0)
    BY <2>typ, UndisturbedSlot
  <2> HIDE DEF r
  <2> QED BY <2>2, <2>3, <2>5, <2>6 DEF Near
<1>2. SpacingInv /\ [SlotsNext]_slotVars => SpacingInv'
  BY SpacingStep
<1> QED BY <1>1, <1>2, SpacingStarts, PTL DEF SlotsSpec, RecordsSpaced

-----------------------------------------------------------------------------
(* The M-2 watch, for all intervals, margins, factors and holds: its excuse *)
(* ends, and it spares whoever waits for a hold                             *)

\* The silence of a healthy link is told by the watch's own stamps: short of its limit the
\* age of the last uplink covers it, beyond it a streak has run for as long as it lasts.
SilenceIsTold ==
  /\ lastUplink >= silence \/ lastUplink = Stale + 1
  /\ beaten /\ silence > Stale =>
       dc.since # Never /\ dc.since >= silence - (Stale + 1) /\ silence < Stale + 1 + DcHoldMax
  /\ silence > Stale + 1 => dc.since # Never /\ dc.since >= silence - (Stale + 1)

\* A streak that runs is no older than the frames that started one, and outlasts the holds
\* they wait for.
StreakCovers ==
  \A p \in DOMAIN frames :
    frames[p].age # Never =>
      /\ dc.since # Never => dc.since <= frames[p].age
      /\ frames[p].left > 0 => dc.since # Never /\ frames[p].left <= dc.until

\* A streak has a start when it has a last hold.
StreakStamped == dc.since # Never => dc.last # Never

WatchProofInv ==
  /\ WatchType /\ StreakCovers /\ StreakStamped
  /\ healthy => SilenceIsTold /\ silence <= Stale + DcHoldMax + 1

LEMMA ConstantsAreNumbers ==
  /\ StaleFactor \in Nat /\ StaleFactor > 0 /\ DcHoldMax \in Nat /\ DcRecentMargin \in Nat
  /\ LongestHold \in Nat /\ ReportIntervals \subseteq Nat /\ Holds \subseteq 1..LongestHold
BY StaleAssumption

LEMMA LimitsAreNumbers ==
  ASSUME interval \in ReportIntervals
  PROVE  Stale \in Nat /\ Recent \in Nat
<1>1. interval \in Nat
  BY ConstantsAreNumbers
<1>2. Stale \in Nat
  BY <1>1, ConstantsAreNumbers DEF Stale
<1> QED BY <1>1, <1>2, ConstantsAreNumbers DEF Recent

LEMMA WatchStarts == WatchInit => WatchProofInv
<1> SUFFICES ASSUME WatchInit PROVE WatchProofInv
  OBVIOUS
<1>1. Stale \in Nat /\ Recent \in Nat
  BY LimitsAreNumbers DEF WatchInit
<1>2. DOMAIN frames = {}
  BY DEF WatchInit
<1>a. NoStreak \in [since : Ages(DcHoldMax), last : Ages(Recent + 1), until : LongOver..LongestHold]
  BY <1>1, ConstantsAreNumbers DEF NoStreak, LongOver, Ages
<1>b. frames \in [DOMAIN frames -> [left : 0..LongestHold, age : Ages(DcHoldMax)]]
  BY <1>2 DEF WatchInit
<1>c. lastUplink \in 0..Stale + 1 /\ silence \in 0..Stale + DcHoldMax + 2
  BY <1>1, ConstantsAreNumbers DEF WatchInit
<1>3. WatchType
  BY <1>2, <1>a, <1>b, <1>c DEF WatchInit, WatchType
<1>4. SilenceIsTold /\ StreakCovers /\ StreakStamped /\ silence <= Stale + DcHoldMax + 1
  BY <1>1, <1>2, ConstantsAreNumbers DEF WatchInit, SilenceIsTold, StreakCovers, StreakStamped, NoStreak, Never
<1> QED BY <1>3, <1>4 DEF WatchProofInv

\* What the invariant says of the parts of the state.
LEMMA PartsTyped ==
  ASSUME WatchProofInv
  PROVE  /\ Stale \in Nat /\ Recent \in Nat /\ interval \in Nat
         /\ dc.since \in Ages(DcHoldMax) /\ dc.last \in Ages(Recent + 1)
         /\ dc.until \in LongOver..LongestHold
         /\ \A p \in DOMAIN frames :
              frames[p].left \in 0..LongestHold /\ frames[p].age \in Ages(DcHoldMax)
<1>1. Stale \in Nat /\ Recent \in Nat /\ interval \in Nat
  BY LimitsAreNumbers, ConstantsAreNumbers DEF WatchProofInv, WatchType
<1>2. dc \in [since : Ages(DcHoldMax), last : Ages(Recent + 1), until : LongOver..LongestHold]
  BY DEF WatchProofInv, WatchType
<1>3. \A p \in DOMAIN frames : frames[p] \in [left : 0..LongestHold, age : Ages(DcHoldMax)]
  BY DEF WatchProofInv, WatchType
<1> QED BY <1>1, <1>2, <1>3

\* The stamps after a held send are stamps, and a streak runs.
LEMMA HeldIsTyped ==
  ASSUME WatchProofInv
  PROVE  /\ NoteHeld(dc) \in [since : Ages(DcHoldMax), last : Ages(Recent + 1), until : LongOver..LongestHold]
         /\ NoteHeld(dc).since = (IF dc.since = Never THEN 0 ELSE dc.since)
         /\ NoteHeld(dc).last = 0 /\ NoteHeld(dc).until = dc.until
<1>1. dc \in [since : Ages(DcHoldMax), last : Ages(Recent + 1), until : LongOver..LongestHold]
  BY DEF WatchProofInv, WatchType
<1>2. 0 \in Ages(DcHoldMax) /\ 0 \in Ages(Recent + 1)
  BY PartsTyped, ConstantsAreNumbers DEF Ages
<1> QED BY <1>1, <1>2 DEF NoteHeld

LEMMA HoldIsTyped ==
  ASSUME WatchProofInv, NEW hold \in Holds
  PROVE  /\ NoteHold(dc, hold) \in [since : Ages(DcHoldMax), last : Ages(Recent + 1), until : LongOver..LongestHold]
         /\ NoteHold(dc, hold).since = (IF dc.since = Never THEN 0 ELSE dc.since)
         /\ NoteHold(dc, hold).last = 0
         /\ NoteHold(dc, hold).until = (IF hold > dc.until THEN hold ELSE dc.until)
<1>1. Recent \in Nat /\ hold \in 1..LongestHold /\ LongestHold \in Nat
  BY PartsTyped, ConstantsAreNumbers
<1>2. dc.until \in LongOver..LongestHold
  BY PartsTyped
<1>3. hold > dc.until => hold \in LongOver..LongestHold
  BY <1>1, <1>2 DEF LongOver
<1> QED BY <1>3, HeldIsTyped DEF NoteHold

LEMMA SentIsTyped ==
  ASSUME WatchProofInv
  PROVE  NoteSent(dc) \in [since : Ages(DcHoldMax), last : Ages(Recent + 1), until : LongOver..LongestHold]
<1>1. Recent \in Nat /\ LongestHold \in Nat
  BY PartsTyped, ConstantsAreNumbers
<1> QED BY <1>1 DEF WatchProofInv, WatchType, NoteSent, NoStreak, LongOver, Ages

LEMMA WatchStep == WatchProofInv /\ [WatchNext]_watchVars => WatchProofInv'
<1> SUFFICES ASSUME WatchProofInv, [WatchNext]_watchVars PROVE WatchProofInv'
  OBVIOUS
<1>num. /\ Stale \in Nat /\ Recent \in Nat /\ interval \in Nat
        /\ DcHoldMax \in Nat /\ LongestHold \in Nat
  BY PartsTyped, ConstantsAreNumbers
<1>typ. /\ WatchType /\ StreakCovers /\ StreakStamped
        /\ healthy => SilenceIsTold /\ silence <= Stale + DcHoldMax + 1
  BY DEF WatchProofInv
<1>dc. /\ dc.since \in Ages(DcHoldMax) /\ dc.last \in Ages(Recent + 1)
       /\ dc.until \in LongOver..LongestHold
       /\ \A p \in DOMAIN frames :
            frames[p].left \in 0..LongestHold /\ frames[p].age \in Ages(DcHoldMax)
  BY PartsTyped
<1>lim. interval' = interval => Stale' = Stale /\ Recent' = Recent /\ LongOver' = LongOver
  BY DEF Stale, Recent, LongOver
<1>1. ASSUME NEW p \in Paths, Arrives(p) PROVE WatchProofInv'
  <2>1. UNCHANGED <<interval, healthy, lastUplink, dc, beaten, silence>> /\ frames' = Put(p, NoWait)
    BY <1>1 DEF Arrives
  <2>2. NoWait \in [left : 0..LongestHold, age : Ages(DcHoldMax)]
    BY <1>num DEF NoWait, Ages
  <2>3. WatchType'
    BY <2>1, <2>2, <1>typ, <1>lim DEF WatchType, Put
  <2>4. StreakCovers' /\ StreakStamped'
    BY <2>1, <1>typ DEF StreakCovers, StreakStamped, Put, NoWait
  <2>5. healthy' => SilenceIsTold' /\ silence' <= Stale' + DcHoldMax + 1
    BY <2>1, <1>typ, <1>lim DEF SilenceIsTold
  <2> QED BY <2>3, <2>4, <2>5 DEF WatchProofInv
<1>2. ASSUME NEW p \in Paths, LedgerHolds(p) PROVE WatchProofInv'
  <2>1. PICK hold \in Holds :
          /\ dc' = NoteHold(dc, hold)
          /\ frames' = [frames EXCEPT ![p] = Waits(@, hold)]
          /\ hold >= frames[p].left
    BY <1>2 DEF LedgerHolds
  <2>2. p \in DOMAIN frames /\ UNCHANGED <<interval, healthy, lastUplink, beaten, silence>>
    BY <1>2 DEF LedgerHolds, Tries, HasFrame
  <2>3. /\ dc' \in [since : Ages(DcHoldMax), last : Ages(Recent + 1), until : LongOver..LongestHold]
        /\ dc'.since = (IF dc.since = Never THEN 0 ELSE dc.since) /\ dc'.last = 0
        /\ dc'.until = (IF hold > dc.until THEN hold ELSE dc.until)
    BY <2>1, HoldIsTyped
  <2>4. /\ Waits(frames[p], hold) \in [left : 0..LongestHold, age : Ages(DcHoldMax)]
        /\ Waits(frames[p], hold).left = hold
        /\ Waits(frames[p], hold).age = (IF dc.since = Never THEN 0 ELSE frames[p].age)
        /\ hold \in 1..LongestHold
    BY <2>2, <1>num, <1>dc, ConstantsAreNumbers DEF Waits, Ages
  <2>5. DOMAIN frames' = DOMAIN frames
        /\ \A q \in DOMAIN frames : frames'[q] = IF q = p THEN Waits(frames[p], hold) ELSE frames[q]
    BY <2>1, <1>typ DEF WatchType
  <2>6. WatchType'
    BY <2>1, <2>2, <2>3, <2>4, <1>typ, <1>lim DEF WatchType
  <2>7. StreakCovers'
    <3> SUFFICES ASSUME NEW q \in DOMAIN frames, frames'[q].age # Never
                 PROVE  /\ dc'.since # Never => dc'.since <= frames'[q].age
                        /\ frames'[q].left > 0 => dc'.since # Never /\ frames'[q].left <= dc'.until
      BY <2>5 DEF StreakCovers
    <3>1. CASE q = p
      BY <3>1, <2>2, <2>3, <2>4, <2>5, <1>typ, <1>dc, <1>num DEF StreakCovers, Ages, Never, LongOver
    <3>2. CASE q # p
      BY <3>2, <2>2, <2>3, <2>4, <2>5, <1>typ, <1>dc, <1>num DEF StreakCovers, Ages, Never, LongOver
    <3> QED BY <3>1, <3>2
  <2>8. StreakStamped'
    BY <2>3 DEF StreakStamped, Never
  <2>9. healthy' => SilenceIsTold' /\ silence' <= Stale' + DcHoldMax + 1
    BY <2>2, <2>3, <1>typ, <1>lim, <1>num, <1>dc DEF SilenceIsTold, WatchType, Ages, Never
  <2> QED BY <2>6, <2>7, <2>8, <2>9 DEF WatchProofInv
<1>3. ASSUME NEW p \in Paths, MacRefuses(p) PROVE WatchProofInv'
  <2>1. /\ p \in DOMAIN frames /\ UNCHANGED <<interval, healthy, lastUplink, beaten, silence>>
        /\ dc' = NoteHeld(dc) /\ frames' = [frames EXCEPT ![p] = Waits(@, 0)]
    BY <1>3 DEF MacRefuses, Tries, HasFrame
  <2>2. /\ dc' \in [since : Ages(DcHoldMax), last : Ages(Recent + 1), until : LongOver..LongestHold]
        /\ dc'.since = (IF dc.since = Never THEN 0 ELSE dc.since) /\ dc'.last = 0
        /\ dc'.until = dc.until
    BY <2>1, HeldIsTyped
  <2>3. /\ Waits(frames[p], 0) \in [left : 0..LongestHold, age : Ages(DcHoldMax)]
        /\ Waits(frames[p], 0).left = 0
        /\ Waits(frames[p], 0).age = (IF dc.since = Never THEN 0 ELSE frames[p].age)
    BY <2>1, <1>num, <1>dc DEF Waits, Ages
  <2>4. DOMAIN frames' = DOMAIN frames
        /\ \A q \in DOMAIN frames : frames'[q] = IF q = p THEN Waits(frames[p], 0) ELSE frames[q]
    BY <2>1, <1>typ DEF WatchType
  <2>5. WatchType'
    BY <2>1, <2>2, <2>3, <2>4, <1>typ, <1>lim DEF WatchType
  <2>6. StreakCovers'
    <3> SUFFICES ASSUME NEW q \in DOMAIN frames, frames'[q].age # Never
                 PROVE  /\ dc'.since # Never => dc'.since <= frames'[q].age
                        /\ frames'[q].left > 0 => dc'.since # Never /\ frames'[q].left <= dc'.until
      BY <2>4 DEF StreakCovers
    <3>1. CASE q = p
      BY <3>1, <2>1, <2>2, <2>3, <2>4, <1>typ, <1>dc, <1>num DEF StreakCovers, Ages, Never
    <3>2. CASE q # p
      BY <3>2, <2>1, <2>2, <2>4, <1>typ, <1>dc, <1>num DEF StreakCovers, Ages, Never
    <3> QED BY <3>1, <3>2
  <2>7. StreakStamped'
    BY <2>2 DEF StreakStamped, Never
  <2>8. healthy' => SilenceIsTold' /\ silence' <= Stale' + DcHoldMax + 1
    BY <2>1, <2>2, <1>typ, <1>lim, <1>num, <1>dc DEF SilenceIsTold, WatchType, Ages, Never
  <2> QED BY <2>5, <2>6, <2>7, <2>8 DEF WatchProofInv
<1>snt. ASSUME dc' = NoteSent(dc), silence' = 0, UNCHANGED <<interval, healthy, beaten>>,
               lastUplink' \in {0, lastUplink}, DOMAIN frames' \subseteq Paths,
               frames' \in [DOMAIN frames' -> [left : 0..LongestHold, age : Ages(DcHoldMax)]],
               \A q \in DOMAIN frames' : q \in DOMAIN frames /\ frames'[q] \in {frames[q], NoWait}
        PROVE  WatchProofInv'
  <2>1. dc' \in [since : Ages(DcHoldMax), last : Ages(Recent + 1), until : LongOver..LongestHold]
    BY <1>snt, SentIsTyped
  <2>2. WatchType'
    BY <1>snt, <2>1, <1>typ, <1>lim, <1>num DEF WatchType
  <2>3. StreakCovers'
    <3> SUFFICES ASSUME NEW q \in DOMAIN frames', frames'[q].age # Never
                 PROVE  /\ dc'.since # Never => dc'.since <= frames'[q].age
                        /\ frames'[q].left > 0 => dc'.since # Never /\ frames'[q].left <= dc'.until
      BY DEF StreakCovers
    <3>1. frames'[q] = frames[q] /\ q \in DOMAIN frames
      BY <1>snt DEF NoWait
    <3>2. CASE dc.until > 0
      BY <3>1, <3>2, <1>snt, <1>typ DEF StreakCovers, NoteSent
    <3>3. CASE ~(dc.until > 0)
      <4>1. frames[q].left \in Nat /\ dc.until \in Int
        BY <3>1, <1>dc, <1>num DEF LongOver
      <4>2. ~(frames[q].left > 0)
        BY <3>1, <3>3, <4>1, <1>typ DEF StreakCovers
      <4> QED BY <3>1, <3>3, <4>2, <1>snt DEF NoteSent, NoStreak
    <3> QED BY <3>2, <3>3
  <2>4. StreakStamped'
    BY <1>snt, <1>typ DEF StreakStamped, NoteSent, NoStreak
  <2>5. SilenceIsTold' /\ silence' <= Stale' + DcHoldMax + 1
    BY <1>snt, <2>2, <1>lim, <1>num DEF SilenceIsTold, WatchType
  <2> QED BY <2>2, <2>3, <2>4, <2>5 DEF WatchProofInv
<1>4. ASSUME NEW p \in Paths, Sent(p) PROVE WatchProofInv'
  <2>1. frames' = Drop(p) /\ lastUplink' \in {0, lastUplink}
    BY <1>4 DEF Sent
  <2> QED BY <2>1, <1>snt, <1>4, <1>typ DEF Sent, Drop, WatchType
<1>5. ASSUME NEW p \in Paths, Unacked(p) PROVE WatchProofInv'
  <2>1. frames' = Put(p, NoWait) /\ p \in DOMAIN frames
    BY <1>5 DEF Unacked, Tries, HasFrame
  <2>2. NoWait \in [left : 0..LongestHold, age : Ages(DcHoldMax)]
    BY <1>num DEF NoWait, Ages
  <2> QED BY <2>1, <2>2, <1>snt, <1>5, <1>typ DEF Unacked, Put, WatchType
<1>6. ASSUME AlarmPasses PROVE WatchProofInv'
  BY <1>6, <1>snt, <1>typ DEF AlarmPasses, WatchType
<1>7. ASSUME NEW p \in Paths, Dropped(p) PROVE WatchProofInv'
  <2>1. UNCHANGED <<interval, healthy, lastUplink, dc, beaten, silence>> /\ frames' = Drop(p)
    BY <1>7 DEF Dropped
  <2>2. WatchType'
    BY <2>1, <1>typ, <1>lim DEF WatchType, Drop
  <2>3. StreakCovers' /\ StreakStamped'
    BY <2>1, <1>typ DEF StreakCovers, StreakStamped, Drop
  <2>4. healthy' => SilenceIsTold' /\ silence' <= Stale' + DcHoldMax + 1
    BY <2>1, <1>typ, <1>lim DEF SilenceIsTold
  <2> QED BY <2>2, <2>3, <2>4 DEF WatchProofInv
<1>8. ASSUME Heartbeat PROVE WatchProofInv'
  <2>1. ~beaten /\ beaten' = TRUE /\ UNCHANGED <<interval, dc, frames>>
    BY <1>8 DEF Heartbeat
  <2>2. StreakCovers' /\ StreakStamped'
    BY <2>1, <1>typ DEF StreakCovers, StreakStamped
  <2>3. CASE healthy /\ Rejoins
    <3>1. lastUplink' = 0 /\ silence' = 0 /\ healthy' \in BOOLEAN
      BY <1>8, <2>3 DEF Heartbeat
    <3>2. WatchType'
      BY <2>1, <3>1, <1>typ, <1>lim, <1>num DEF WatchType
    <3>3. SilenceIsTold' /\ silence' <= Stale' + DcHoldMax + 1
      BY <2>1, <3>1, <1>lim, <1>num DEF SilenceIsTold
    <3> QED BY <2>2, <3>2, <3>3 DEF WatchProofInv
  <2>4. CASE ~(healthy /\ Rejoins)
    <3>1. UNCHANGED <<lastUplink, silence, healthy>>
      BY <1>8, <2>4 DEF Heartbeat
    <3>2. WatchType'
      BY <2>1, <3>1, <1>typ, <1>lim DEF WatchType
    <3>3. ASSUME healthy, silence > Stale
          PROVE  dc.since # Never /\ dc.since >= silence - (Stale + 1) /\ silence < Stale + 1 + DcHoldMax
      <4>1. lastUplink > Stale /\ silence \in Nat /\ lastUplink \in Nat
        BY <3>3, <1>typ, <1>num DEF SilenceIsTold, WatchType
      <4>2. Explained(dc)
        BY <2>4, <3>3, <4>1, <1>num DEF Rejoins, StaleCheck
      <4>3. dc.since \in Nat /\ dc.since < DcHoldMax
        BY <4>2, <1>dc, <1>num DEF Explained, Ages
      <4> QED BY <3>3, <4>1, <4>3, <1>typ, <1>num DEF SilenceIsTold, Never
    <3>4. healthy' => SilenceIsTold' /\ silence' <= Stale' + DcHoldMax + 1
      BY <2>1, <3>1, <3>3, <1>typ, <1>lim DEF SilenceIsTold
    <3> QED BY <2>2, <3>2, <3>4 DEF WatchProofInv
  <2> QED BY <2>3, <2>4
<1>9. ASSUME SessionUp PROVE WatchProofInv'
  <2>1. /\ UNCHANGED <<interval, beaten>> /\ healthy' = TRUE /\ lastUplink' = 0 /\ dc' = NoStreak
        /\ silence' = 0 /\ frames' = [p \in DOMAIN frames \ {"replay"} |-> NoWait]
    BY <1>9 DEF SessionUp
  <2>2. NoWait \in [left : 0..LongestHold, age : Ages(DcHoldMax)]
    BY <1>num DEF NoWait, Ages
  <2>3. NoStreak \in [since : Ages(DcHoldMax), last : Ages(Recent + 1), until : LongOver..LongestHold]
    BY <1>num DEF NoStreak, LongOver, Ages
  <2>4. WatchType'
    BY <2>1, <2>2, <2>3, <1>typ, <1>lim, <1>num DEF WatchType
  <2>5. StreakCovers' /\ StreakStamped'
    BY <2>1 DEF StreakCovers, StreakStamped, NoWait, NoStreak
  <2>6. SilenceIsTold' /\ silence' <= Stale' + DcHoldMax + 1
    BY <2>1, <1>lim, <1>num DEF SilenceIsTold
  <2> QED BY <2>4, <2>5, <2>6 DEF WatchProofInv
<1>10. ASSUME Passes PROVE WatchProofInv'
  <2>1. /\ beaten /\ beaten' = FALSE /\ UNCHANGED <<interval, healthy>>
        /\ lastUplink' = Grown(lastUplink, Stale + 1) /\ silence' = Grown(silence, Stale + DcHoldMax + 2)
        /\ dc' = [since |-> Grown(dc.since, DcHoldMax), last |-> Grown(dc.last, Recent + 1),
                  until |-> Nearer(dc.until, LongOver)]
        /\ frames' = [p \in DOMAIN frames |->
                        [left |-> Nearer(frames[p].left, 0), age |-> Grown(frames[p].age, DcHoldMax)]]
    BY <1>10 DEF Passes
  <2>2. ASSUME NEW cap \in Nat, NEW a \in Ages(cap)
        PROVE  /\ Grown(a, cap) \in Ages(cap) /\ (Grown(a, cap) = Never <=> a = Never)
    BY <2>2 DEF Grown, Ages, Never
  <2>3. Nearer(dc.until, LongOver) \in LongOver..LongestHold
    BY <1>dc, <1>num DEF Nearer, LongOver
  <2>4. dc' \in [since : Ages(DcHoldMax), last : Ages(Recent + 1), until : LongOver..LongestHold]
    BY <2>1, <2>2, <2>3, <1>dc, <1>num
  <2>5. \A p \in DOMAIN frames :
          [left |-> Nearer(frames[p].left, 0), age |-> Grown(frames[p].age, DcHoldMax)]
            \in [left : 0..LongestHold, age : Ages(DcHoldMax)]
    BY <2>2, <1>dc, <1>num DEF Nearer
  <2>6. lastUplink' \in 0..Stale + 1 /\ silence' \in 0..Stale + DcHoldMax + 2
    <3>1. lastUplink \in 0..Stale + 1 /\ silence \in 0..Stale + DcHoldMax + 2
      BY <1>typ DEF WatchType
    <3>2. lastUplink' \in 0..Stale + 1
      BY <2>1, <3>1, <1>num DEF Grown, Never
    <3>3. silence' \in 0..Stale + DcHoldMax + 2
      BY <2>1, <3>1, <1>num DEF Grown, Never
    <3> QED BY <3>2, <3>3
  <2>7. WatchType'
    BY <2>1, <2>4, <2>5, <2>6, <1>typ, <1>lim DEF WatchType
  <2>8. StreakStamped'
    BY <2>1, <2>2, <1>dc, <1>typ, <1>num DEF StreakStamped
  <2>9. StreakCovers'
    <3> SUFFICES ASSUME NEW p \in DOMAIN frames, frames'[p].age # Never
                 PROVE  /\ dc'.since # Never => dc'.since <= frames'[p].age
                        /\ frames'[p].left > 0 => dc'.since # Never /\ frames'[p].left <= dc'.until
      BY <2>1 DEF StreakCovers
    <3>1. frames'[p].left = Nearer(frames[p].left, 0) /\ frames'[p].age = Grown(frames[p].age, DcHoldMax)
          /\ dc'.since = Grown(dc.since, DcHoldMax) /\ dc'.until = Nearer(dc.until, LongOver)
      BY <2>1
    <3>2. frames[p].age # Never /\ (dc'.since = Never <=> dc.since = Never)
      BY <3>1, <2>2, <1>dc, <1>num
    <3>3. dc.since # Never => dc.since <= frames[p].age
      BY <3>2, <1>typ DEF StreakCovers
    <3>4. frames[p].left > 0 => dc.since # Never /\ frames[p].left <= dc.until
      BY <3>2, <1>typ DEF StreakCovers
    <3>5. dc'.since # Never => dc'.since <= frames'[p].age
      BY <3>1, <3>2, <3>3, <1>dc, <1>num DEF Grown, Ages, Never
    <3>6. frames'[p].left > 0 => dc'.since # Never /\ frames'[p].left <= dc'.until
      BY <3>1, <3>2, <3>4, <1>dc, <1>num DEF Nearer, LongOver
    <3> QED BY <3>5, <3>6
  <2>10. ASSUME healthy PROVE SilenceIsTold' /\ silence' <= Stale' + DcHoldMax + 1
    <3>1. /\ silence \in Nat /\ lastUplink \in 0..Stale + 1
          /\ lastUplink >= silence \/ lastUplink = Stale + 1
          /\ silence > Stale => dc.since # Never /\ dc.since >= silence - (Stale + 1)
                               /\ silence < Stale + 1 + DcHoldMax
      BY <2>1, <2>10, <1>typ, <1>num DEF SilenceIsTold, WatchType
    <3>2. silence' = silence + 1 /\ silence' <= Stale + DcHoldMax + 1
      BY <2>1, <3>1, <1>num DEF Grown, Never
    <3>3. lastUplink' = IF lastUplink = Stale + 1 THEN lastUplink ELSE lastUplink + 1
      BY <2>1, <3>1, <1>num DEF Grown, Never
    <3>4. silence' > Stale + 1 => dc'.since # Never /\ dc'.since >= silence' - (Stale + 1)
      <4>1. dc'.since = Grown(dc.since, DcHoldMax)
        BY <2>1
      <4> QED BY <4>1, <3>1, <3>2, <1>dc, <1>num DEF Grown, Ages, Never
    <3>5. lastUplink' >= silence' \/ lastUplink' = Stale + 1
      BY <3>1, <3>2, <3>3, <1>num
    <3> QED BY <2>1, <3>2, <3>4, <3>5, <1>lim DEF SilenceIsTold
  <2> QED BY <2>1, <2>7, <2>8, <2>9, <2>10 DEF WatchProofInv
<1>11. CASE UNCHANGED watchVars
  BY <1>11, <1>typ DEF watchVars, WatchProofInv, WatchType, StreakCovers, StreakStamped, SilenceIsTold,
     Stale, Recent, LongOver
<1> QED BY <1>1, <1>2, <1>3, <1>4, <1>5, <1>6, <1>7, <1>8, <1>9, <1>10, <1>11 DEF WatchNext

LEMMA WatchInvariant == WatchSpec => []WatchProofInv
BY WatchStarts, WatchStep, PTL DEF WatchSpec

\* A healthy link on which nothing goes is rejoined in bounded time, whatever the duty cycle
\* says: for every interval, factor, margin and length of a hold (app_radio_stale_check()).
THEOREM MuteAlwaysEnds == WatchSpec => []WatchInv
<1>1. WatchProofInv => WatchInv
  BY DEF WatchProofInv, WatchInv, MuteIsBounded
<1> QED BY <1>1, WatchInvariant, PTL

\* The M-2 watch never rejoins a node one of whose frames still waits for its hold, up to
\* the age the watch excuses (app_radio_stale_note_hold(), F-HIL-10).
THEOREM WaitersAlwaysSpared == WatchSpec => HoldsAreExcused
<1>1. ASSUME WatchProofInv, healthy, Rejoins, NEW p \in DOMAIN frames,
             frames[p].left > 0, frames[p].age # Never
      PROVE  frames[p].age = DcHoldMax
  <2>1. /\ dc.since # Never /\ dc.last # Never
        /\ dc.since <= frames[p].age /\ frames[p].left <= dc.until
    BY <1>1 DEF WatchProofInv, StreakCovers, StreakStamped
  <2>2. /\ Recent \in Nat /\ DcHoldMax \in Nat /\ dc.since \in Ages(DcHoldMax)
        /\ dc.last \in Ages(Recent + 1) /\ dc.until \in Int
        /\ frames[p].left \in Nat /\ frames[p].age \in Ages(DcHoldMax)
    BY <1>1, PartsTyped, ConstantsAreNumbers DEF LongOver
  <2>3. SinceHeld(dc) <= Recent
    BY <1>1, <2>1, <2>2 DEF SinceHeld, Ages, Never
  <2>4. ~Explained(dc)
    BY <1>1 DEF Rejoins, StaleCheck
  <2>5. ~(dc.since < DcHoldMax)
    BY <2>1, <2>3, <2>4 DEF Explained
  <2> QED BY <1>1, <2>1, <2>2, <2>5 DEF Ages, Never
<1>2. WatchProofInv /\ [WatchNext]_watchVars =>
        [healthy /\ ~beaten /\ beaten' /\ Rejoins =>
           \A p \in DOMAIN frames :
             frames[p].left > 0 /\ frames[p].age # Never => frames[p].age = DcHoldMax]_watchVars
  BY <1>1
<1> QED BY <1>2, WatchInvariant, PTL DEF WatchSpec, HoldsAreExcused

=============================================================================
