-------------------------- MODULE LrwLink_proofs ---------------------------
(***************************************************************************)
(* Proofs about the LoRaWAN link, for all thresholds, budgets, intervals,   *)
(* ladders and counts: nothing under way is left without its next step, a   *)
(* failure is counted once, and a rejoin is not spent while a rung is left. *)
(***************************************************************************)
EXTENDS LrwLink, SequenceTheorems, TLAPS

-----------------------------------------------------------------------------
(* The work queue: each item at most once *)

WorkQueue(q) == q \in Seq(Works) /\ IsInjective(q)

\* k_work_submit_to_queue() adds its item, unless it is there.
LEMMA SubmitAdds ==
  ASSUME WorkQueue(queue), NEW w \in Works
  PROVE  WorkQueue(Submitted(w))
         /\ \A v \in Works : Contains(Submitted(w), v) <=> v = w \/ Contains(queue, v)
<1>1. CASE Contains(queue, w)
  BY <1>1 DEF Submitted
<1>2. CASE ~Contains(queue, w)
  <2> DEFINE q == Append(queue, w)
             n == Len(queue)
  <2>1. /\ q \in Seq(Works) /\ Len(q) = n + 1 /\ q[n + 1] = w /\ n \in Nat
        /\ \A i \in 1..n : q[i] = queue[i]
    BY AppendProperties DEF WorkQueue
  <2>2. DOMAIN q = 1..n + 1 /\ DOMAIN queue = 1..n
    BY <2>1 DEF WorkQueue
  <2>3. \A i \in 1..n : queue[i] # w
    BY <1>2 DEF Contains
  <2> HIDE DEF q
  <2>4. IsInjective(q)
    <3> SUFFICES ASSUME NEW i \in 1..n + 1, NEW j \in 1..n + 1, q[i] = q[j] PROVE i = j
      BY <2>2 DEF IsInjective
    <3>1. CASE i \in 1..n /\ j \in 1..n
      BY <2>1, <2>2, <3>1 DEF WorkQueue, IsInjective
    <3>2. CASE i = n + 1 \/ j = n + 1
      BY <2>1, <2>3, <3>2
    <3> QED BY <2>1, <3>1, <3>2
  <2>5. \A v \in Works : Contains(q, v) <=> v = w \/ Contains(queue, v)
    BY <2>1 DEF Contains
  <2>6. Submitted(w) = q
    BY <1>2 DEF Submitted, q
  <2> QED BY <2>1, <2>4, <2>5, <2>6 DEF WorkQueue
<1> QED BY <1>1, <1>2

\* The item that runs leaves the queue.
LEMMA RunTakes ==
  ASSUME WorkQueue(queue), queue # <<>>
  PROVE  /\ WorkQueue(Tail(queue)) /\ Head(queue) \in Works
         /\ \A v \in Works : Contains(Tail(queue), v) <=> Contains(queue, v) /\ v # Head(queue)
<1> DEFINE q == Tail(queue)
           n == Len(q)
<1>1. /\ q \in Seq(Works) /\ Len(queue) = n + 1 /\ n \in Nat /\ Head(queue) \in Works
      /\ \A i \in 1..n : q[i] = queue[i + 1]
  BY HeadTailProperties DEF WorkQueue
<1>2. DOMAIN q = 1..n /\ DOMAIN queue = 1..n + 1 /\ Head(queue) = queue[1]
  BY <1>1 DEF WorkQueue
<1> HIDE DEF q
<1>3. \A i, j \in 1..n + 1 : queue[i] = queue[j] => i = j
  BY <1>2 DEF WorkQueue, IsInjective
<1>4. IsInjective(q)
  <2> SUFFICES ASSUME NEW i \in 1..n, NEW j \in 1..n, q[i] = q[j] PROVE i = j
    BY <1>2 DEF IsInjective
  <2>1. i + 1 \in 1..n + 1 /\ j + 1 \in 1..n + 1 /\ queue[i + 1] = queue[j + 1]
    BY <1>1
  <2>2. i + 1 = j + 1
    BY <1>3, <2>1
  <2> QED BY <2>2
<1>5. ASSUME NEW v \in Works PROVE Contains(q, v) <=> Contains(queue, v) /\ v # Head(queue)
  <2>1. ASSUME NEW i \in 1..n, q[i] = v PROVE Contains(queue, v) /\ v # queue[1]
    <3>1. i + 1 \in 1..n + 1 /\ 1 \in 1..n + 1 /\ queue[i + 1] = v
      BY <1>1, <2>1
    <3> QED BY <1>1, <1>3, <3>1 DEF Contains
  <2>2. ASSUME NEW i \in 1..n + 1, queue[i] = v, v # queue[1] PROVE Contains(q, v)
    <3>1. i # 1 /\ i - 1 \in 1..n
      BY <1>1, <2>2
    <3>2. q[i - 1] = v
      BY <1>1, <2>2, <3>1
    <3> QED BY <3>1, <3>2 DEF Contains
  <2> QED BY <1>1, <1>2, <2>1, <2>2 DEF Contains
<1> QED BY <1>1, <1>4, <1>5 DEF WorkQueue, q

\* k_work_cancel_delayable() takes out its item and no other.
LEMMA CancelTakes ==
  ASSUME NEW s, WorkQueue(s), NEW w \in Works
  PROVE  /\ WorkQueue(RemoveFirst(s, w))
         /\ \A v \in Works : Contains(RemoveFirst(s, w), v) <=> Contains(s, v) /\ v # w
<1>1. CASE ~\E i \in 1..Len(s) : s[i] = w
  BY <1>1 DEF RemoveFirst, Contains
<1>2. ASSUME NEW k \in 1..Len(s), s[k] = w
      PROVE  /\ WorkQueue(RemoveFirst(s, w))
             /\ \A v \in Works : Contains(RemoveFirst(s, w), v) <=> Contains(s, v) /\ v # w
  <2> DEFINE n == Len(s)
             a == SubSeq(s, 1, k - 1)
             b == SubSeq(s, k + 1, n)
             q == a \o b
  <2>0. n \in Nat /\ s \in Seq(Works) /\ DOMAIN s = 1..n
    BY DEF WorkQueue
  <2>1. \A i, j \in 1..n : s[i] = s[j] => i = j
    BY <2>0 DEF WorkQueue, IsInjective
  <2>2. {i \in 1..n : s[i] = w} = {k}
    BY <1>2, <2>1
  <2>3. RemoveFirst(s, w) = RemoveAt(s, k)
    <3>1. SelectInSeq(s, LAMBDA v : v = w) = k
      BY <1>2, <2>0, <2>2 DEF SelectInSeq, Min
    <3> QED BY <1>2, <3>1 DEF RemoveFirst
  <2>4. RemoveFirst(s, w) = q
    BY <2>3 DEF RemoveAt
  <2>5. /\ a \in Seq(Works) /\ Len(a) = k - 1 /\ \A i \in 1..k - 1 : a[i] = s[i]
    <3>1. \A i \in 1..k - 1 : s[i] \in Works
      BY <2>0
    <3>2. /\ a \in Seq(Works) /\ Len(a) = IF 1 <= k - 1 THEN k - 1 - 1 + 1 ELSE 0
          /\ \A i \in 1..k - 1 - 1 + 1 : a[i] = s[1 + i - 1]
      BY <3>1, SubSeqProperties
    <3> QED BY <3>2
  <2>6. /\ b \in Seq(Works) /\ Len(b) = n - k /\ \A i \in 1..n - k : b[i] = s[k + i]
    <3>1. \A i \in k + 1..n : s[i] \in Works
      BY <2>0
    <3>2. /\ b \in Seq(Works) /\ Len(b) = IF k + 1 <= n THEN n - (k + 1) + 1 ELSE 0
          /\ \A i \in 1..n - (k + 1) + 1 : b[i] = s[k + 1 + i - 1]
      BY <2>0, <3>1, SubSeqProperties
    <3>3. n \in Int /\ k \in Int /\ k <= n
      BY <2>0
    <3> HIDE DEF b, n
    <3>4. Len(b) = n - k
      <4>1. CASE k + 1 <= n
        BY <3>2, <3>3, <4>1
      <4>2. CASE k = n
        BY <3>2, <3>3, <4>2
      <4> QED BY <3>3, <4>1, <4>2
    <3>5. \A i \in 1..n - k : b[i] = s[k + i]
      <4> SUFFICES ASSUME NEW i \in 1..n - k PROVE b[i] = s[k + i]
        OBVIOUS
      <4>1. i \in 1..n - (k + 1) + 1 /\ k + 1 + i - 1 = k + i
        BY <3>3
      <4>2. b[i] = s[k + 1 + i - 1]
        BY <3>2, <4>1
      <4> QED BY <4>1, <4>2
    <3> QED BY <3>2, <3>4, <3>5
  <2> HIDE DEF a, b
  <2>7. /\ q \in Seq(Works) /\ Len(q) = n - 1
        /\ \A i \in 1..n - 1 : q[i] = IF i < k THEN s[i] ELSE s[i + 1]
    <3>1. /\ q \in Seq(Works) /\ Len(q) = Len(a) + Len(b)
          /\ \A i \in 1..Len(a) + Len(b) : q[i] = IF i <= Len(a) THEN a[i] ELSE b[i - Len(a)]
      BY <2>5, <2>6, ConcatProperties
    <3> HIDE DEF q
    <3>2. Len(a) + Len(b) = n - 1
      BY <2>0, <2>5, <2>6
    <3>3. \A i \in 1..n - 1 : q[i] = IF i <= k - 1 THEN a[i] ELSE b[i - (k - 1)]
      BY <2>5, <3>1, <3>2
    <3>4. \A i \in 1..n - 1 : q[i] = IF i < k THEN s[i] ELSE s[i + 1]
      BY <2>0, <2>5, <2>6, <3>3
    <3> QED BY <3>1, <3>2, <3>4
  <2> HIDE DEF q
  <2>8. DOMAIN q = 1..n - 1
    BY <2>0, <2>7
  <2>9. IsInjective(q)
    <3> SUFFICES ASSUME NEW i \in 1..n - 1, NEW j \in 1..n - 1, q[i] = q[j] PROVE i = j
      BY <2>8 DEF IsInjective
    <3> QED BY <2>0, <2>1, <2>7
  <2>10. ASSUME NEW v \in Works PROVE Contains(q, v) <=> Contains(s, v) /\ v # w
    <3>1. ASSUME NEW i \in 1..n - 1, q[i] = v PROVE Contains(s, v) /\ v # w
      BY <1>2, <2>0, <2>1, <2>7, <3>1 DEF Contains
    <3>2. ASSUME NEW i \in 1..n, s[i] = v, v # w PROVE Contains(q, v)
      <4>1. CASE i < k
        BY <2>0, <2>7, <3>2, <4>1 DEF Contains
      <4>2. CASE i > k
        <5>1. i - 1 \in 1..n - 1 /\ q[i - 1] = v
          BY <2>0, <2>7, <3>2, <4>2
        <5> QED BY <2>0, <2>7, <5>1 DEF Contains
      <4> QED BY <1>2, <2>0, <3>2, <4>1, <4>2
    <3> QED BY <2>7, <3>1, <3>2 DEF Contains
  <2> QED BY <2>4, <2>7, <2>9, <2>10 DEF WorkQueue
<1> QED BY <1>1, <1>2

-----------------------------------------------------------------------------
(* The inductive invariant *)

\* A check pends in a session only; a join is tried in JOINING only; the frame that waits
\* for an answer is on air; and the failure the pending check may become is not counted yet.
PendingIsHealthy == pending => state = "HEALTHY"
JoinIsJoining == exchange = "join" => state = "JOINING"
WaitedIsOnAir == request.waited => exchange = "report"
FailureIsAsked == pending /\ ~request.waited => link.streak < asked \/ asked = MaxStreak

LEMMA ConstantsAreNumbers ==
  /\ Threshold \in Nat /\ Threshold > 0 /\ Interval \in Nat /\ Interval > 0
  /\ MaxPolls \in Nat /\ MaxPolls > 0 /\ Rejoin \in Nat /\ MaxRungs \in Nat
  /\ MaxStreak \in Nat /\ MaxStreak > 0
BY LinkAssumption

\* LinkInv and these four, with the types of the flags apart from the others.
FlagsTyped ==
  /\ otaa \in BOOLEAN /\ initJoin \in BOOLEAN /\ pollTimer \in BOOLEAN
  /\ rejoinTimer \in BOOLEAN /\ lcTimer \in BOOLEAN /\ pending \in BOOLEAN
  /\ gateways \in BOOLEAN /\ air \in BOOLEAN /\ forced \in BOOLEAN
Links == [streak : 0..MaxStreak, warning : BOOLEAN, fails : 0..MaxStreak, reports : 0..Interval - 1]
DataTyped ==
  /\ state \in {"IDLE", "JOINING", "HEALTHY", "RECONNECT"} /\ polls \in 0..MaxPolls - 1
  /\ queue \in Seq(Works) /\ IsInjective(queue)
  /\ exchange \in {"none", "join", "report", "other"}
  /\ request \in [queued : BOOLEAN, waited : BOOLEAN] /\ report \in {"none", "plain", "check"}
  /\ link \in Links /\ rungs \in 0..MaxRungs /\ asked \in 0..MaxStreak
Rest ==
  /\ CheckIsWatched /\ JoinGoesOn /\ AirIsReleased /\ FailuresWereAsked
  /\ PendingIsHealthy /\ JoinIsJoining /\ WaitedIsOnAir /\ FailureIsAsked
LinkProofInv == FlagsTyped /\ DataTyped /\ Rest

\* At boot no check pends and no join is tried.
LEMMA LinkStarts == Init => LinkProofInv
<1> SUFFICES ASSUME Init PROVE LinkProofInv
  OBVIOUS
<1>1. FlagsTyped
  BY Zenon DEF Init, FlagsTyped
<1>2. queue \in Seq(Works) /\ IsInjective(queue)
  BY DEF Init, IsInjective
<1>3. LinkUp \in Links
  BY ConstantsAreNumbers DEF LinkUp, Links
<1>4. DataTyped
  BY <1>2, <1>3, ConstantsAreNumbers DEF Init, DataTyped, NoRequest
<1>5. LinkUp.streak = 0
  BY DEF LinkUp
<1> QED BY <1>1, <1>4, <1>5 DEF Init, LinkProofInv, Rest, CheckIsWatched, JoinGoesOn, AirIsReleased,
     FailuresWereAsked, PendingIsHealthy, JoinIsJoining, WaitedIsOnAir, FailureIsAsked, NoRequest

-----------------------------------------------------------------------------
(* Steps that submit a work item *)

\* What a submit changes of the queue.
LEMMA SubmitKeeps ==
  ASSUME LinkProofInv, NEW w \in Works, Submit(w)
  PROVE  /\ queue' \in Seq(Works) /\ IsInjective(queue') /\ Contains(queue', w)
         /\ \A v \in Works : Contains(queue, v) => Contains(queue', v)
<1>1. WorkQueue(queue)
  BY DEF LinkProofInv, DataTyped, WorkQueue
<1> QED BY <1>1, SubmitAdds DEF Submit, WorkQueue

LEMMA WorksAre == Works = {"join", "poll", "timeout", "downlink", "answer"}
BY DEF Works

\* The timers' ISRs, a join command and the MAC's callbacks.
LEMMA SubmitsKeep ==
  ASSUME LinkProofInv
  PROVE  JoinAsked \/ Timers \/ Mac => LinkProofInv'
<1>1. ASSUME JoinAsked PROVE LinkProofInv'
  <2>1. /\ queue' \in Seq(Works) /\ IsInjective(queue') /\ Contains(queue', "join")
        /\ \A v \in Works : Contains(queue, v) => Contains(queue', v)
    BY <1>1, SubmitKeeps, WorksAre DEF JoinAsked
  <2>2. FlagsTyped'
    BY <1>1, Zenon DEF JoinAsked, joinVars, checkVars, LinkProofInv, FlagsTyped
  <2>3. DataTyped'
    BY <1>1, <2>1 DEF JoinAsked, joinVars, checkVars, LinkProofInv, DataTyped
  <2>4. Rest'
    BY <1>1, <2>1, WorksAre DEF JoinAsked, joinVars, checkVars, LinkProofInv, DataTyped, Rest,
      CheckIsWatched, JoinGoesOn, AirIsReleased, FailuresWereAsked,
      PendingIsHealthy, JoinIsJoining, WaitedIsOnAir, FailureIsAsked
  <2> QED BY <2>2, <2>3, <2>4 DEF LinkProofInv
<1>2. ASSUME RejoinTimerFires PROVE LinkProofInv'
  <2>1. /\ queue' \in Seq(Works) /\ IsInjective(queue') /\ Contains(queue', "join")
        /\ \A v \in Works : Contains(queue, v) => Contains(queue', v)
    BY <1>2, SubmitKeeps, WorksAre DEF RejoinTimerFires
  <2>2. FlagsTyped'
    BY <1>2, Zenon DEF RejoinTimerFires, joinVars, checkVars, LinkProofInv, FlagsTyped
  <2>3. DataTyped'
    BY <1>2, <2>1 DEF RejoinTimerFires, joinVars, checkVars, LinkProofInv, DataTyped
  <2>4. Rest'
    BY <1>2, <2>1, WorksAre DEF RejoinTimerFires, joinVars, checkVars, LinkProofInv, DataTyped, Rest,
      CheckIsWatched, JoinGoesOn, AirIsReleased, FailuresWereAsked,
      PendingIsHealthy, JoinIsJoining, WaitedIsOnAir, FailureIsAsked
  <2> QED BY <2>2, <2>3, <2>4 DEF LinkProofInv
<1>3. ASSUME LcTimerFires PROVE LinkProofInv'
  <2>1. /\ queue' \in Seq(Works) /\ IsInjective(queue') /\ Contains(queue', "timeout")
        /\ \A v \in Works : Contains(queue, v) => Contains(queue', v)
    BY <1>3, SubmitKeeps, WorksAre DEF LcTimerFires
  <2>2. FlagsTyped'
    BY <1>3, Zenon DEF LcTimerFires, joinVars, checkVars, LinkProofInv, FlagsTyped
  <2>3. DataTyped'
    BY <1>3, <2>1 DEF LcTimerFires, joinVars, checkVars, LinkProofInv, DataTyped
  <2>4. Rest'
    BY <1>3, <2>1, WorksAre DEF LcTimerFires, joinVars, checkVars, LinkProofInv, DataTyped, Rest,
      CheckIsWatched, JoinGoesOn, AirIsReleased, FailuresWereAsked,
      PendingIsHealthy, JoinIsJoining, WaitedIsOnAir, FailureIsAsked
  <2> QED BY <2>2, <2>3, <2>4 DEF LinkProofInv
<1>4. ASSUME PollTimerFires PROVE LinkProofInv'
  <2>1. /\ queue' \in Seq(Works) /\ IsInjective(queue') /\ Contains(queue', "poll")
        /\ \A v \in Works : Contains(queue, v) => Contains(queue', v)
    BY <1>4, SubmitKeeps, WorksAre DEF PollTimerFires
  <2>2. FlagsTyped'
    BY <1>4, Zenon DEF PollTimerFires, joinVars, checkVars, LinkProofInv, FlagsTyped
  <2>3. DataTyped'
    BY <1>4, <2>1 DEF PollTimerFires, joinVars, checkVars, LinkProofInv, DataTyped
  <2>4. Rest'
    BY <1>4, <2>1, WorksAre DEF PollTimerFires, joinVars, checkVars, LinkProofInv, DataTyped, Rest,
      CheckIsWatched, JoinGoesOn, AirIsReleased, FailuresWereAsked,
      PendingIsHealthy, JoinIsJoining, WaitedIsOnAir, FailureIsAsked
  <2> QED BY <2>2, <2>3, <2>4 DEF LinkProofInv
<1>5. ASSUME MacDownlink PROVE LinkProofInv'
  <2>1. /\ queue' \in Seq(Works) /\ IsInjective(queue') /\ Contains(queue', "downlink")
        /\ \A v \in Works : Contains(queue, v) => Contains(queue', v)
    BY <1>5, SubmitKeeps, WorksAre DEF MacDownlink
  <2>2. FlagsTyped'
    BY <1>5, Zenon DEF MacDownlink, joinVars, checkVars, LinkProofInv, FlagsTyped
  <2>3. DataTyped'
    BY <1>5, <2>1 DEF MacDownlink, joinVars, checkVars, LinkProofInv, DataTyped
  <2>4. Rest'
    BY <1>5, <2>1, WorksAre DEF MacDownlink, joinVars, checkVars, LinkProofInv, DataTyped, Rest,
      CheckIsWatched, JoinGoesOn, AirIsReleased, FailuresWereAsked,
      PendingIsHealthy, JoinIsJoining, WaitedIsOnAir, FailureIsAsked
  <2> QED BY <2>2, <2>3, <2>4 DEF LinkProofInv
<1>6. ASSUME MacAnswer PROVE LinkProofInv'
  <2>1. /\ queue' \in Seq(Works) /\ IsInjective(queue') /\ Contains(queue', "answer")
        /\ \A v \in Works : Contains(queue, v) => Contains(queue', v)
    BY <1>6, SubmitKeeps, WorksAre DEF MacAnswer
  <2>2. FlagsTyped'
    BY <1>6, Zenon DEF MacAnswer, joinVars, checkVars, LinkProofInv, FlagsTyped
  <2>3. DataTyped'
    BY <1>6, <2>1 DEF MacAnswer, joinVars, checkVars, LinkProofInv, DataTyped
  <2>4. Rest'
    BY <1>6, <2>1, WorksAre DEF MacAnswer, joinVars, checkVars, LinkProofInv, DataTyped, Rest,
      CheckIsWatched, JoinGoesOn, AirIsReleased, FailuresWereAsked,
      PendingIsHealthy, JoinIsJoining, WaitedIsOnAir, FailureIsAsked
  <2> QED BY <2>2, <2>3, <2>4 DEF LinkProofInv
<1> QED BY <1>1, <1>2, <1>3, <1>4, <1>5, <1>6 DEF Timers, Mac
-----------------------------------------------------------------------------
(* Steps that leave the queue alone *)

\* The counts and records stay what they are.
LEMMA RecordsTyped ==
  ASSUME DataTyped
  PROVE  /\ Counted \in Links /\ Counted.streak = link.streak
         /\ NoRequest \in [queued : BOOLEAN, waited : BOOLEAN] /\ ~NoRequest.waited
         /\ [request EXCEPT !.waited = FALSE] \in [queued : BOOLEAN, waited : BOOLEAN]
         /\ ~[request EXCEPT !.waited = FALSE].waited
         /\ \A n \in 0..MaxStreak : More(n) \in 0..MaxStreak /\ More(n) = IF n < MaxStreak THEN n + 1 ELSE MaxStreak
<1>1. Counted \in Links /\ Counted.streak = link.streak
  <2>1. link.reports \in 0..Interval - 1 /\ Interval \in Nat /\ Interval > 0
    BY ConstantsAreNumbers DEF DataTyped, Links
  <2>2. (link.reports + 1) % Interval \in 0..Interval - 1
    BY <2>1
  <2> QED BY <2>2 DEF DataTyped, Links, Counted
<1>2. /\ NoRequest \in [queued : BOOLEAN, waited : BOOLEAN] /\ ~NoRequest.waited
      /\ [request EXCEPT !.waited = FALSE] \in [queued : BOOLEAN, waited : BOOLEAN]
      /\ ~[request EXCEPT !.waited = FALSE].waited
  BY DEF DataTyped, NoRequest
<1>3. \A n \in 0..MaxStreak : More(n) \in 0..MaxStreak /\ More(n) = IF n < MaxStreak THEN n + 1 ELSE MaxStreak
  BY ConstantsAreNumbers DEF More
<1> QED BY <1>1, <1>2, <1>3

\* The exchanges of reports and other frames.
LEMMA QuietKeep ==
  ASSUME LinkProofInv
  PROVE  (\E lost \in BOOLEAN : JoinReturns(lost)) \/ ReportHeld \/ ReportStarts \/ ReportEnds
           \/ ReportDropped \/ OtherStarts \/ OtherEnds \/ ForceCheck => LinkProofInv'
<1>rec. /\ Counted \in Links /\ Counted.streak = link.streak
        /\ NoRequest \in [queued : BOOLEAN, waited : BOOLEAN] /\ ~NoRequest.waited
        /\ [request EXCEPT !.waited = FALSE] \in [queued : BOOLEAN, waited : BOOLEAN]
        /\ ~[request EXCEPT !.waited = FALSE].waited
        /\ \A n \in 0..MaxStreak : More(n) \in 0..MaxStreak /\ More(n) = IF n < MaxStreak THEN n + 1 ELSE MaxStreak
  BY RecordsTyped DEF LinkProofInv
<1>1. ASSUME NEW lost \in BOOLEAN, JoinReturns(lost) PROVE LinkProofInv'
  <2>1. queue' = queue
    BY <1>1 DEF JoinReturns
  <2>2. FlagsTyped'
    BY <1>1, Zenon DEF JoinReturns, joinVars, checkVars, LinkProofInv, FlagsTyped
  <2>3. DataTyped'
    BY <1>1, <2>1, ConstantsAreNumbers DEF JoinReturns, joinVars, checkVars, LinkProofInv, DataTyped
  <2>4. Rest'
    BY <1>1, <2>1, <2>3, ConstantsAreNumbers DEF JoinReturns, joinVars, checkVars, LinkProofInv, DataTyped, Rest,
      CheckIsWatched, JoinGoesOn, AirIsReleased, FailuresWereAsked,
      PendingIsHealthy, JoinIsJoining, WaitedIsOnAir, FailureIsAsked
  <2> QED BY <2>2, <2>3, <2>4 DEF LinkProofInv
<1>2. ASSUME ReportHeld PROVE LinkProofInv'
  <2>1. queue' = queue
    BY <1>2 DEF ReportHeld, ReportInHand, Flags
  <2>2. FlagsTyped'
    BY <1>2, Zenon DEF ReportHeld, ReportInHand, Flags, joinVars, checkVars, LinkProofInv, FlagsTyped
  <2>3. DataTyped'
    BY <1>2, <2>1, ConstantsAreNumbers DEF ReportHeld, ReportInHand, Flags, joinVars, checkVars, LinkProofInv, DataTyped
  <2>4. Rest'
    BY <1>2, <2>1, <2>3, ConstantsAreNumbers DEF ReportHeld, ReportInHand, Flags, joinVars, checkVars, LinkProofInv, DataTyped, Rest,
      CheckIsWatched, JoinGoesOn, AirIsReleased, FailuresWereAsked,
      PendingIsHealthy, JoinIsJoining, WaitedIsOnAir, FailureIsAsked
  <2> QED BY <2>2, <2>3, <2>4 DEF LinkProofInv
<1>3. ASSUME ReportStarts PROVE LinkProofInv'
  <2>1. queue' = queue
    BY <1>3 DEF ReportStarts, ReportInHand, Flags
  <2>2. FlagsTyped'
    BY <1>3, Zenon DEF ReportStarts, ReportInHand, Flags, joinVars, checkVars, LinkProofInv, FlagsTyped
  <2>3. DataTyped'
    BY <1>3, <2>1, ConstantsAreNumbers DEF ReportStarts, ReportInHand, Flags, joinVars, checkVars, LinkProofInv, DataTyped
  <2>4. Rest'
    BY <1>3, <2>1, <2>3, ConstantsAreNumbers DEF ReportStarts, ReportInHand, Flags, joinVars, checkVars, LinkProofInv, DataTyped, Rest,
      CheckIsWatched, JoinGoesOn, AirIsReleased, FailuresWereAsked,
      PendingIsHealthy, JoinIsJoining, WaitedIsOnAir, FailureIsAsked
  <2> QED BY <2>2, <2>3, <2>4 DEF LinkProofInv
<1>4. ASSUME NEW complete \in BOOLEAN, ReportSent(complete) PROVE LinkProofInv'
  <2>1. queue' = queue
    BY <1>4 DEF ReportSent
  <2>2. FlagsTyped'
    BY <1>4, Zenon DEF ReportSent, joinVars, checkVars, LinkProofInv, FlagsTyped
  <2>3. DataTyped'
    BY <1>4, <2>1, ConstantsAreNumbers, <1>rec DEF ReportSent, joinVars, checkVars, LinkProofInv, DataTyped
  <2>4. /\ link'.streak = link.streak /\ asked' = IF request.waited THEN More(asked) ELSE asked
        /\ link.streak \in 0..MaxStreak /\ asked \in 0..MaxStreak
    BY <1>4, <1>rec DEF ReportSent, LinkProofInv, DataTyped, Links
  <2>5. FailuresWereAsked' /\ FailureIsAsked'
    BY <1>4, <1>rec, <2>4, ConstantsAreNumbers DEF ReportSent, LinkProofInv, Rest, FailuresWereAsked, FailureIsAsked
  <2>6. CheckIsWatched' /\ JoinGoesOn' /\ AirIsReleased' /\ PendingIsHealthy' /\ JoinIsJoining' /\ WaitedIsOnAir'
    BY <1>4, <1>rec, <2>1 DEF ReportSent, joinVars, checkVars, LinkProofInv, Rest, CheckIsWatched, JoinGoesOn,
      AirIsReleased, PendingIsHealthy, JoinIsJoining, WaitedIsOnAir
  <2>7. Rest'
    BY <2>5, <2>6 DEF Rest
  <2> QED BY <2>2, <2>3, <2>7 DEF LinkProofInv
<1>5. ASSUME ReportFails PROVE LinkProofInv'
  <2>1. queue' = queue
    BY <1>5 DEF ReportFails, UnsentPending
  <2>2. FlagsTyped'
    BY <1>5, Zenon DEF ReportFails, UnsentPending, joinVars, checkVars, LinkProofInv, FlagsTyped
  <2>3. DataTyped'
    BY <1>5, <2>1, ConstantsAreNumbers, <1>rec DEF ReportFails, UnsentPending, joinVars, checkVars, LinkProofInv, DataTyped
  <2>4. Rest'
    BY <1>5, <2>1, <2>3, ConstantsAreNumbers, <1>rec DEF ReportFails, UnsentPending, joinVars, checkVars, LinkProofInv, DataTyped, Rest,
      CheckIsWatched, JoinGoesOn, AirIsReleased, FailuresWereAsked,
      PendingIsHealthy, JoinIsJoining, WaitedIsOnAir, FailureIsAsked
  <2> QED BY <2>2, <2>3, <2>4 DEF LinkProofInv
<1>6. ASSUME ReportDropped PROVE LinkProofInv'
  <2>1. queue' = queue
    BY <1>6 DEF ReportDropped
  <2>2. FlagsTyped'
    BY <1>6, Zenon DEF ReportDropped, joinVars, checkVars, LinkProofInv, FlagsTyped
  <2>3. DataTyped'
    BY <1>6, <2>1, ConstantsAreNumbers DEF ReportDropped, joinVars, checkVars, LinkProofInv, DataTyped
  <2>4. Rest'
    BY <1>6, <2>1, <2>3, ConstantsAreNumbers DEF ReportDropped, joinVars, checkVars, LinkProofInv, DataTyped, Rest,
      CheckIsWatched, JoinGoesOn, AirIsReleased, FailuresWereAsked,
      PendingIsHealthy, JoinIsJoining, WaitedIsOnAir, FailureIsAsked
  <2> QED BY <2>2, <2>3, <2>4 DEF LinkProofInv
<1>7. ASSUME OtherStarts PROVE LinkProofInv'
  <2>1. queue' = queue
    BY <1>7 DEF OtherStarts
  <2>2. FlagsTyped'
    BY <1>7, Zenon DEF OtherStarts, joinVars, checkVars, LinkProofInv, FlagsTyped
  <2>3. DataTyped'
    BY <1>7, <2>1, ConstantsAreNumbers DEF OtherStarts, joinVars, checkVars, LinkProofInv, DataTyped
  <2>4. Rest'
    BY <1>7, <2>1, <2>3, ConstantsAreNumbers DEF OtherStarts, joinVars, checkVars, LinkProofInv, DataTyped, Rest,
      CheckIsWatched, JoinGoesOn, AirIsReleased, FailuresWereAsked,
      PendingIsHealthy, JoinIsJoining, WaitedIsOnAir, FailureIsAsked
  <2> QED BY <2>2, <2>3, <2>4 DEF LinkProofInv
<1>8. ASSUME OtherEnds PROVE LinkProofInv'
  <2>1. queue' = queue
    BY <1>8 DEF OtherEnds
  <2>2. FlagsTyped'
    BY <1>8, Zenon DEF OtherEnds, joinVars, checkVars, LinkProofInv, FlagsTyped
  <2>3. DataTyped'
    BY <1>8, <2>1, ConstantsAreNumbers, <1>rec DEF OtherEnds, joinVars, checkVars, LinkProofInv, DataTyped
  <2>4. Rest'
    BY <1>8, <2>1, <2>3, ConstantsAreNumbers, <1>rec DEF OtherEnds, joinVars, checkVars, LinkProofInv, DataTyped, Rest,
      CheckIsWatched, JoinGoesOn, AirIsReleased, FailuresWereAsked,
      PendingIsHealthy, JoinIsJoining, WaitedIsOnAir, FailureIsAsked
  <2> QED BY <2>2, <2>3, <2>4 DEF LinkProofInv
<1>9. ASSUME ForceCheck PROVE LinkProofInv'
  <2>1. queue' = queue
    BY <1>9 DEF ForceCheck
  <2>2. FlagsTyped'
    BY <1>9, Zenon DEF ForceCheck, joinVars, checkVars, LinkProofInv, FlagsTyped
  <2>3. DataTyped'
    BY <1>9, <2>1, ConstantsAreNumbers DEF ForceCheck, joinVars, checkVars, LinkProofInv, DataTyped
  <2>4. Rest'
    BY <1>9, <2>1, <2>3, ConstantsAreNumbers DEF ForceCheck, joinVars, checkVars, LinkProofInv, DataTyped, Rest,
      CheckIsWatched, JoinGoesOn, AirIsReleased, FailuresWereAsked,
      PendingIsHealthy, JoinIsJoining, WaitedIsOnAir, FailureIsAsked
  <2> QED BY <2>2, <2>3, <2>4 DEF LinkProofInv
<1> QED BY <1>1, <1>2, <1>3, <1>4, <1>5, <1>6, <1>7, <1>8, <1>9 DEF ReportEnds

-----------------------------------------------------------------------------
(* Steps that run a work item, or end a join or a session *)

\* An item runs: nothing is on air, and the item is gone from the queue.
LEMMA RunFacts ==
  ASSUME LinkProofInv, NEW w \in Works, Runs(w)
  PROVE  /\ exchange = "none" /\ ~request.waited /\ WorkQueue(Tail(queue))
         /\ \A v \in Works : v # w /\ Contains(queue, v) => Contains(Tail(queue), v)
<1>1. WorkQueue(queue)
  BY DEF LinkProofInv, DataTyped, WorkQueue
<1>2. queue # <<>> /\ Head(queue) = w /\ exchange = "none"
  BY DEF Runs
<1>3. ~request.waited
  BY <1>2 DEF LinkProofInv, Rest, WaitedIsOnAir
<1> QED BY <1>1, <1>2, <1>3, RunTakes

\* The exit and entry actions: no check pends, the air is left to no JOINING.
LEMMA TransitionMoves ==
  ASSUME LinkProofInv, NEW rest, WorkQueue(rest), NEW new \in {"HEALTHY", "RECONNECT"}, StateTransition(new, rest)
  PROVE  /\ queue' \in Seq(Works) /\ IsInjective(queue') /\ state' = new
         /\ (rejoinTimer' <=> new = "RECONNECT") /\ ~pending' /\ (air' => air /\ state # "JOINING")
         /\ rejoinTimer' \in BOOLEAN /\ lcTimer' \in BOOLEAN /\ pollTimer' \in BOOLEAN
         /\ air' \in BOOLEAN /\ pending' \in BOOLEAN
<1>1. queue' \in Seq(Works) /\ IsInjective(queue')
  BY CancelTakes, WorksAre DEF StateTransition, WorkQueue
<1>2. ~pending'
  BY DEF LinkProofInv, Rest, PendingIsHealthy, StateTransition
<1>3. state' = new /\ (rejoinTimer' <=> new = "RECONNECT") /\ (air' => air /\ state # "JOINING")
  BY DEF StateTransition
<1>4. /\ rejoinTimer' \in BOOLEAN /\ lcTimer' \in BOOLEAN /\ pollTimer' \in BOOLEAN
      /\ air' \in BOOLEAN /\ pending' \in BOOLEAN
  BY Zenon DEF StateTransition
<1> QED BY <1>1, <1>2, <1>3, <1>4

\* The join work, the poll of the MAC and the M-2 rejoin.
LEMMA JoinWorkKeeps ==
  ASSUME LinkProofInv
  PROVE  Join \/ JoinRefused \/ Poll \/ StaleRejoin => LinkProofInv'
<1>rec. /\ NoRequest \in [queued : BOOLEAN, waited : BOOLEAN] /\ ~NoRequest.waited
        /\ LinkUp \in Links /\ LinkUp.streak = 0
  BY RecordsTyped, ConstantsAreNumbers DEF LinkProofInv, LinkUp, Links
<1>1. ASSUME JoinIgnored PROVE LinkProofInv'
  <2>1. /\ exchange = "none" /\ ~request.waited /\ WorkQueue(Tail(queue))
        /\ \A v \in Works : v # "join" /\ Contains(queue, v) => Contains(Tail(queue), v)
    BY <1>1, RunFacts, WorksAre DEF JoinIgnored
  <2>2. queue' = Tail(queue) /\ queue' \in Seq(Works) /\ IsInjective(queue')
    BY <1>1, <2>1 DEF JoinIgnored, Stays, WorkQueue
  <2>3. FlagsTyped'
    BY <1>1, <2>2, Zenon DEF JoinIgnored, Stays, joinVars, checkVars, LinkProofInv, FlagsTyped
  <2>4. DataTyped'
    BY <1>1, <2>2, ConstantsAreNumbers DEF JoinIgnored, Stays, joinVars, checkVars, LinkProofInv, DataTyped
  <2>5. Rest'
    BY <1>1, <2>1, <2>2, WorksAre DEF JoinIgnored, Stays, joinVars, checkVars, LinkProofInv, Rest,
      CheckIsWatched, JoinGoesOn, AirIsReleased, FailuresWereAsked,
      PendingIsHealthy, JoinIsJoining, WaitedIsOnAir, FailureIsAsked
  <2> QED BY <2>3, <2>4, <2>5 DEF LinkProofInv
<1>2. ASSUME JoinStarts PROVE LinkProofInv'
  <2>1. /\ exchange = "none" /\ ~request.waited /\ WorkQueue(Tail(queue))
        /\ \A v \in Works : v # "join" /\ Contains(queue, v) => Contains(Tail(queue), v)
    BY <1>2, RunFacts, WorksAre DEF JoinStarts
  <2>2. queue' = Tail(queue) /\ queue' \in Seq(Works) /\ IsInjective(queue')
    BY <1>2, <2>1 DEF JoinStarts, Stays, WorkQueue
  <2>3. FlagsTyped'
    BY <1>2, <2>2, Zenon DEF JoinStarts, Stays, joinVars, checkVars, LinkProofInv, FlagsTyped
  <2>4. DataTyped'
    BY <1>2, <2>2, ConstantsAreNumbers, <1>rec DEF JoinStarts, Stays, joinVars, checkVars, LinkProofInv, DataTyped
  <2>5. Rest'
    BY <1>2, <2>1, <2>2, WorksAre, <1>rec DEF JoinStarts, Stays, joinVars, checkVars, LinkProofInv, Rest,
      CheckIsWatched, JoinGoesOn, AirIsReleased, FailuresWereAsked,
      PendingIsHealthy, JoinIsJoining, WaitedIsOnAir, FailureIsAsked
  <2> QED BY <2>3, <2>4, <2>5 DEF LinkProofInv
<1>3. ASSUME RestartFails PROVE LinkProofInv'
  <2>1. /\ exchange = "none" /\ ~request.waited /\ WorkQueue(Tail(queue))
        /\ \A v \in Works : v # "join" /\ Contains(queue, v) => Contains(Tail(queue), v)
    BY <1>3, RunFacts, WorksAre DEF RestartFails
  <2>2. queue' = Tail(queue) /\ queue' \in Seq(Works) /\ IsInjective(queue')
    BY <1>3, <2>1 DEF RestartFails, Stays, WorkQueue
  <2>3. FlagsTyped'
    BY <1>3, <2>2, Zenon DEF RestartFails, Stays, joinVars, checkVars, LinkProofInv, FlagsTyped
  <2>4. DataTyped'
    BY <1>3, <2>2, ConstantsAreNumbers, <1>rec DEF RestartFails, Stays, joinVars, checkVars, LinkProofInv, DataTyped
  <2>5. Rest'
    BY <1>3, <2>1, <2>2, WorksAre, <1>rec DEF RestartFails, Stays, joinVars, checkVars, LinkProofInv, Rest,
      CheckIsWatched, JoinGoesOn, AirIsReleased, FailuresWereAsked,
      PendingIsHealthy, JoinIsJoining, WaitedIsOnAir, FailureIsAsked
  <2> QED BY <2>3, <2>4, <2>5 DEF LinkProofInv
<1>4. ASSUME JoinRefused PROVE LinkProofInv'
  <2>1. WorkQueue(queue)
    BY DEF LinkProofInv, DataTyped, WorkQueue
  <2>2. /\ queue' \in Seq(Works) /\ IsInjective(queue') /\ state' = "RECONNECT"
        /\ (rejoinTimer' <=> TRUE) /\ ~pending' /\ (air' => air /\ state # "JOINING")
        /\ rejoinTimer' \in BOOLEAN /\ lcTimer' \in BOOLEAN /\ pollTimer' \in BOOLEAN
        /\ air' \in BOOLEAN /\ pending' \in BOOLEAN
    BY <1>4, <2>1, TransitionMoves DEF JoinRefused
  <2>3. FlagsTyped'
    BY <1>4, <2>2, Zenon DEF JoinRefused, Stays, joinVars, checkVars, LinkProofInv, FlagsTyped
  <2>4. DataTyped'
    BY <1>4, <2>2, ConstantsAreNumbers DEF JoinRefused, Stays, joinVars, checkVars, LinkProofInv, DataTyped
  <2>5. Rest'
    BY <1>4, <2>1, <2>2, WorksAre DEF JoinRefused, Stays, joinVars, checkVars, LinkProofInv, Rest,
      CheckIsWatched, JoinGoesOn, AirIsReleased, FailuresWereAsked,
      PendingIsHealthy, JoinIsJoining, WaitedIsOnAir, FailureIsAsked
  <2> QED BY <2>3, <2>4, <2>5 DEF LinkProofInv
<1>5. ASSUME PollBusy PROVE LinkProofInv'
  <2>1. /\ exchange = "none" /\ ~request.waited /\ WorkQueue(Tail(queue))
        /\ \A v \in Works : v # "poll" /\ Contains(queue, v) => Contains(Tail(queue), v)
    BY <1>5, RunFacts, WorksAre DEF PollBusy
  <2>2. queue' = Tail(queue) /\ queue' \in Seq(Works) /\ IsInjective(queue')
    BY <1>5, <2>1 DEF PollBusy, Stays, WorkQueue
  <2>3. FlagsTyped'
    BY <1>5, <2>2, Zenon DEF PollBusy, Stays, joinVars, checkVars, LinkProofInv, FlagsTyped
  <2>4. DataTyped'
    BY <1>5, <2>2, ConstantsAreNumbers DEF PollBusy, Stays, joinVars, checkVars, LinkProofInv, DataTyped
  <2>5. Rest'
    BY <1>5, <2>1, <2>2, WorksAre DEF PollBusy, Stays, joinVars, checkVars, LinkProofInv, Rest,
      CheckIsWatched, JoinGoesOn, AirIsReleased, FailuresWereAsked,
      PendingIsHealthy, JoinIsJoining, WaitedIsOnAir, FailureIsAsked
  <2> QED BY <2>3, <2>4, <2>5 DEF LinkProofInv
<1>6. ASSUME JoinFails PROVE LinkProofInv'
  <2>1. /\ exchange = "none" /\ ~request.waited /\ WorkQueue(Tail(queue))
        /\ \A v \in Works : v # "poll" /\ Contains(queue, v) => Contains(Tail(queue), v)
    BY <1>6, RunFacts, WorksAre DEF JoinFails
  <2>2. /\ queue' \in Seq(Works) /\ IsInjective(queue') /\ state' = "RECONNECT"
        /\ (rejoinTimer' <=> TRUE) /\ ~pending' /\ (air' => air /\ state # "JOINING")
        /\ rejoinTimer' \in BOOLEAN /\ lcTimer' \in BOOLEAN /\ pollTimer' \in BOOLEAN
        /\ air' \in BOOLEAN /\ pending' \in BOOLEAN
    BY <1>6, <2>1, TransitionMoves DEF JoinFails
  <2>3. FlagsTyped'
    BY <1>6, <2>2, Zenon DEF JoinFails, Stays, joinVars, checkVars, LinkProofInv, FlagsTyped
  <2>4. DataTyped'
    BY <1>6, <2>2, ConstantsAreNumbers DEF JoinFails, Stays, joinVars, checkVars, LinkProofInv, DataTyped
  <2>5. Rest'
    BY <1>6, <2>1, <2>2, WorksAre DEF JoinFails, Stays, joinVars, checkVars, LinkProofInv, Rest,
      CheckIsWatched, JoinGoesOn, AirIsReleased, FailuresWereAsked,
      PendingIsHealthy, JoinIsJoining, WaitedIsOnAir, FailureIsAsked
  <2> QED BY <2>3, <2>4, <2>5 DEF LinkProofInv
<1>7. ASSUME JoinSucceeds PROVE LinkProofInv'
  <2>1. /\ exchange = "none" /\ ~request.waited /\ WorkQueue(Tail(queue))
        /\ \A v \in Works : v # "poll" /\ Contains(queue, v) => Contains(Tail(queue), v)
    BY <1>7, RunFacts, WorksAre DEF JoinSucceeds
  <2>2. /\ queue' \in Seq(Works) /\ IsInjective(queue') /\ state' = "HEALTHY"
        /\ (rejoinTimer' <=> FALSE) /\ ~pending' /\ (air' => air /\ state # "JOINING")
        /\ rejoinTimer' \in BOOLEAN /\ lcTimer' \in BOOLEAN /\ pollTimer' \in BOOLEAN
        /\ air' \in BOOLEAN /\ pending' \in BOOLEAN
    BY <1>7, <2>1, TransitionMoves DEF JoinSucceeds
  <2>3. FlagsTyped'
    BY <1>7, <2>2, Zenon DEF JoinSucceeds, Stays, joinVars, checkVars, LinkProofInv, FlagsTyped
  <2>4. DataTyped'
    BY <1>7, <2>2, ConstantsAreNumbers, <1>rec DEF JoinSucceeds, Stays, joinVars, checkVars, LinkProofInv, DataTyped
  <2>5. Rest'
    BY <1>7, <2>1, <2>2, WorksAre, <1>rec DEF JoinSucceeds, Stays, joinVars, checkVars, LinkProofInv, Rest,
      CheckIsWatched, JoinGoesOn, AirIsReleased, FailuresWereAsked,
      PendingIsHealthy, JoinIsJoining, WaitedIsOnAir, FailureIsAsked
  <2> QED BY <2>3, <2>4, <2>5 DEF LinkProofInv
<1>8. ASSUME StaleRejoin PROVE LinkProofInv'
  <2>1. WorkQueue(queue)
    BY DEF LinkProofInv, DataTyped, WorkQueue
  <2>2. /\ queue' \in Seq(Works) /\ IsInjective(queue') /\ state' = "RECONNECT"
        /\ (rejoinTimer' <=> TRUE) /\ ~pending' /\ (air' => air /\ state # "JOINING")
        /\ rejoinTimer' \in BOOLEAN /\ lcTimer' \in BOOLEAN /\ pollTimer' \in BOOLEAN
        /\ air' \in BOOLEAN /\ pending' \in BOOLEAN
    BY <1>8, <2>1, TransitionMoves DEF StaleRejoin
  <2>3. FlagsTyped'
    BY <1>8, <2>2, Zenon DEF StaleRejoin, Stays, joinVars, checkVars, LinkProofInv, FlagsTyped
  <2>4. DataTyped'
    BY <1>8, <2>2, ConstantsAreNumbers DEF StaleRejoin, Stays, joinVars, checkVars, LinkProofInv, DataTyped
  <2>5. Rest'
    BY <1>8, <2>1, <2>2, WorksAre DEF StaleRejoin, Stays, joinVars, checkVars, LinkProofInv, Rest,
      CheckIsWatched, JoinGoesOn, AirIsReleased, FailuresWereAsked,
      PendingIsHealthy, JoinIsJoining, WaitedIsOnAir, FailureIsAsked
  <2> QED BY <2>3, <2>4, <2>5 DEF LinkProofInv
<1> QED BY <1>1, <1>2, <1>3, <1>4, <1>5, <1>6, <1>7, <1>8 DEF Join, Poll

-----------------------------------------------------------------------------
(* The result of a check *)

\* What the handlers of the three results have in common.
Handled(w) == Runs(w) /\ UNCHANGED <<otaa, initJoin, polls, gateways, request, report, forced, exchange>>

\* A result that is ignored was of no check, or of one that is watched otherwise.
LEMMA IgnoredKeeps ==
  ASSUME LinkProofInv, NEW w \in Works \ {"join", "poll"}, Handled(w), Ignored,
         w = "timeout" => ~pending
  PROVE  LinkProofInv'
<1>1. /\ exchange = "none" /\ ~request.waited /\ WorkQueue(Tail(queue))
      /\ \A v \in Works : v # w /\ Contains(queue, v) => Contains(Tail(queue), v)
  BY RunFacts DEF Handled
<1>2. queue' = Tail(queue) /\ queue' \in Seq(Works) /\ IsInjective(queue')
  BY <1>1 DEF Ignored, WorkQueue
<1>3. FlagsTyped'
  BY Zenon DEF Handled, Ignored, LinkProofInv, FlagsTyped
<1>4. DataTyped'
  BY <1>2 DEF Handled, Ignored, LinkProofInv, DataTyped
<1>5. Rest'
  BY <1>1, <1>2, WorksAre DEF Handled, Ignored, LinkProofInv, Rest, CheckIsWatched, JoinGoesOn, AirIsReleased,
    FailuresWereAsked, PendingIsHealthy, JoinIsJoining, WaitedIsOnAir, FailureIsAsked
<1> QED BY <1>3, <1>4, <1>5 DEF LinkProofInv

\* A result resolves the check and leaves the session as it is.
LEMMA ResolvedKeeps ==
  ASSUME LinkProofInv, NEW w \in Works \ {"join", "poll"}, Handled(w), Resolved, queue' = Tail(queue),
         UNCHANGED <<state, pollTimer, rejoinTimer, air>>,
         link' \in Links, rungs' \in 0..MaxRungs, asked' \in 0..MaxStreak, link'.streak <= asked'
  PROVE  LinkProofInv'
<1>1. /\ exchange = "none" /\ ~request.waited /\ WorkQueue(Tail(queue))
      /\ \A v \in Works : v # w /\ Contains(queue, v) => Contains(Tail(queue), v)
  BY RunFacts DEF Handled
<1>2. queue' \in Seq(Works) /\ IsInjective(queue')
  BY <1>1 DEF WorkQueue
<1>3. FlagsTyped'
  BY Zenon DEF Handled, Resolved, LinkProofInv, FlagsTyped
<1>4. DataTyped'
  BY <1>2 DEF Handled, LinkProofInv, DataTyped
<1>5. Rest'
  BY <1>1, WorksAre DEF Handled, Resolved, LinkProofInv, Rest, CheckIsWatched, JoinGoesOn, AirIsReleased,
    FailuresWereAsked, PendingIsHealthy, JoinIsJoining, WaitedIsOnAir, FailureIsAsked
<1> QED BY <1>3, <1>4, <1>5 DEF LinkProofInv

LEMMA GoodKeeps ==
  ASSUME LinkProofInv, NEW w \in Works \ {"join", "poll"}, Handled(w), LinkGood
  PROVE  LinkProofInv'
<1>1. link' \in Links /\ link'.streak = 0
  <2>1. link.reports \in 0..Interval - 1 /\ LinkUp \in Links /\ LinkUp.streak = 0
    BY ConstantsAreNumbers DEF LinkUp, Links, LinkProofInv, DataTyped
  <2>2. link' = [LinkUp EXCEPT !.reports = link.reports]
    BY DEF LinkGood
  <2> QED BY <2>1, <2>2 DEF Links
<1>2. asked' = 0 /\ rungs' \in 0..MaxRungs /\ asked' \in 0..MaxStreak /\ Resolved /\ queue' = Tail(queue)
      /\ UNCHANGED <<state, pollTimer, rejoinTimer, air>>
  BY ConstantsAreNumbers DEF LinkGood, LinkProofInv, DataTyped
<1> QED BY <1>1, <1>2, ResolvedKeeps

\* A failure that resolves the pending check was asked for.
LEMMA BadKeeps ==
  ASSUME LinkProofInv, NEW w \in Works \ {"join", "poll"}, Handled(w), LinkBad, pending
  PROVE  LinkProofInv'
<1>1. /\ link.streak \in 0..MaxStreak /\ link.fails \in 0..MaxStreak /\ asked \in 0..MaxStreak
      /\ link \in Links /\ rungs \in 0..MaxRungs
  BY DEF LinkProofInv, DataTyped, Links
<1>2. exchange = "none" /\ ~request.waited /\ WorkQueue(Tail(queue))
  BY RunFacts DEF Handled
<1>3. link.streak < asked \/ asked = MaxStreak
  BY <1>2 DEF LinkProofInv, Rest, FailureIsAsked
<1>4. \A n \in 0..MaxStreak : More(n) \in 0..MaxStreak /\ More(n) = IF n < MaxStreak THEN n + 1 ELSE MaxStreak
  BY RecordsTyped DEF LinkProofInv
<1>5. More(link.streak) <= asked /\ More(link.streak) \in 0..MaxStreak
  BY <1>1, <1>3, <1>4, ConstantsAreNumbers
<1>6. \A b \in BOOLEAN : Failed(b) \in Links /\ Failed(b).streak = More(link.streak)
  BY <1>1, <1>5 DEF Failed, Links
<1>7. Step => rungs' \in 0..MaxRungs
  BY <1>1, ConstantsAreNumbers DEF Step
<1>8. asked' = asked
  BY DEF LinkBad
<1>9. CASE FailsInHealthy
  <2>1. Warns \in BOOLEAN
    BY DEF Warns
  <2>2. link' = Failed(Warns)
    BY <1>9 DEF FailsInHealthy
  <2>3. link' \in Links /\ link'.streak <= asked'
    BY <1>5, <1>6, <1>8, <2>1, <2>2
  <2>4. rungs' \in 0..MaxRungs
    BY <1>1, <1>7, <1>9 DEF FailsInHealthy
  <2>5. Resolved /\ queue' = Tail(queue) /\ UNCHANGED <<state, pollTimer, rejoinTimer, air>>
    BY <1>9 DEF FailsInHealthy
  <2> QED BY <1>1, <1>8, <2>3, <2>4, <2>5, ResolvedKeeps
<1>10. CASE FailsInWarning
  <2>1. link' = [Failed(TRUE) EXCEPT !.fails = IF Spent /\ ~otaa THEN 0 ELSE More(@)]
    BY <1>10 DEF FailsInWarning
  <2>2. Failed(TRUE).fails = link.fails /\ More(link.fails) \in 0..MaxStreak
    BY <1>1, <1>4 DEF Failed, Links
  <2>0. 0 \in 0..MaxStreak
    BY ConstantsAreNumbers
  <2>3. (IF Spent /\ ~otaa THEN 0 ELSE More(Failed(TRUE).fails)) \in 0..MaxStreak
    BY <2>0, <2>2, Zenon
  <2>4. link' \in Links /\ link'.streak <= asked'
    BY <1>5, <1>6, <1>8, <2>1, <2>3 DEF Links
  <2>5. rungs' \in 0..MaxRungs
    BY <1>7, <1>10 DEF FailsInWarning
  <2>6. CASE ~(Spent /\ otaa)
    <3>1. Resolved /\ queue' = Tail(queue) /\ UNCHANGED <<state, pollTimer, rejoinTimer, air>>
      BY <1>10, <2>6 DEF FailsInWarning
    <3> QED BY <1>1, <1>8, <2>4, <2>5, <3>1, ResolvedKeeps
  <2>7. CASE Spent /\ otaa
    <3>1. /\ queue' \in Seq(Works) /\ IsInjective(queue') /\ state' = "RECONNECT"
          /\ rejoinTimer' /\ ~pending' /\ (air' => air /\ state # "JOINING")
          /\ rejoinTimer' \in BOOLEAN /\ lcTimer' \in BOOLEAN /\ pollTimer' \in BOOLEAN
          /\ air' \in BOOLEAN /\ pending' \in BOOLEAN
      BY <1>2, <1>10, <2>7, TransitionMoves DEF FailsInWarning
    <3>2. FlagsTyped'
      BY <3>1, Zenon DEF Handled, LinkProofInv, FlagsTyped
    <3>3. DataTyped'
      BY <1>1, <1>8, <2>4, <2>5, <3>1 DEF Handled, LinkProofInv, DataTyped
    <3>4. Rest'
      BY <1>2, <2>4, <3>1 DEF Handled, LinkProofInv, Rest, CheckIsWatched, JoinGoesOn, AirIsReleased,
        FailuresWereAsked, PendingIsHealthy, JoinIsJoining, WaitedIsOnAir, FailureIsAsked
    <3> QED BY <3>2, <3>3, <3>4 DEF LinkProofInv
  <2> QED BY <2>6, <2>7
<1> QED BY <1>9, <1>10 DEF LinkBad

LEMMA LinkWorkKeeps ==
  ASSUME LinkProofInv, LinkWork
  PROVE  LinkProofInv'
<1>1. \A w : Handler(w) => Handled(w)
  BY DEF Handler, Handled, joinVars, checkVars
<1>2. {"timeout", "downlink", "answer"} \subseteq Works \ {"join", "poll"}
  BY WorksAre
<1>3. CASE TimeoutWork
  <2>1. Handled("timeout")
    BY <1>1, <1>3 DEF TimeoutWork
  <2>2. CASE state = "HEALTHY" /\ pending
    BY <1>2, <1>3, <2>1, <2>2, BadKeeps DEF TimeoutWork
  <2>3. CASE ~(state = "HEALTHY" /\ pending)
    <3>1. ~pending
      BY <2>3 DEF LinkProofInv, Rest, PendingIsHealthy
    <3> QED BY <1>2, <1>3, <2>1, <2>3, <3>1, IgnoredKeeps DEF TimeoutWork
  <2> QED BY <2>2, <2>3
<1>4. CASE DownlinkWork
  <2>1. Handled("downlink") /\ (LinkGood \/ Ignored)
    BY <1>1, <1>4 DEF DownlinkWork
  <2> QED BY <1>2, <2>1, GoodKeeps, IgnoredKeeps
<1>5. CASE AnswerWork
  <2>1. Handled("answer") /\ (Ignored \/ LinkGood \/ (pending /\ LinkBad))
    BY <1>1, <1>5 DEF AnswerWork, AnswerCounts
  <2> QED BY <1>2, <2>1, BadKeeps, GoodKeeps, IgnoredKeeps
<1> QED BY <1>3, <1>4, <1>5 DEF LinkWork

-----------------------------------------------------------------------------
(* The theorems *)

LEMMA StutterKeeps == LinkProofInv /\ UNCHANGED vars => LinkProofInv'
BY DEF vars, joinVars, checkVars, LinkProofInv, FlagsTyped, DataTyped, Rest, CheckIsWatched, JoinGoesOn,
  AirIsReleased, FailuresWereAsked, PendingIsHealthy, JoinIsJoining, WaitedIsOnAir, FailureIsAsked

LEMMA StepKeeps == LinkProofInv /\ [Next]_vars => LinkProofInv'
<1> SUFFICES ASSUME LinkProofInv, Next PROVE LinkProofInv'
  BY StutterKeeps
<1> QED BY SubmitsKeep, QuietKeep, JoinWorkKeeps, LinkWorkKeeps DEF Next, JoinExchange

\* Whatever timers, work items, MAC answers and joins come in what order: a pending check
\* is watched, a lost session has its next step, the air is released, and a failure was
\* asked for and counts once (app_radio_lrw.c, app_radio_link_result()).
THEOREM LinkNeverStalls == Spec => []LinkInv
<1>1. LinkProofInv => LinkInv
  BY Zenon DEF LinkProofInv, FlagsTyped, DataTyped, Links, Rest, LinkInv, TypeOK
<1> QED BY <1>1, LinkStarts, StepKeeps, PTL DEF Spec

\* Of all the ways out of a session only the supervision's changes the link's counts, and it
\* takes them with no rung left and not under ABP (app_radio_link_result()).
THEOREM RejoinsAreLastResort == Spec => RejoinAtTheFloor
<1>1. [Next]_vars => [state = "HEALTHY" /\ state' = "RECONNECT" /\ link' # link => rungs = 0 /\ otaa]_vars
  <2> SUFFICES ASSUME Next, state = "HEALTHY", state' = "RECONNECT", link' # link
               PROVE  rungs = 0 /\ otaa
    OBVIOUS
  <2>1. ~JoinAsked /\ ~Timers /\ ~Mac /\ ~ForceCheck
    BY DEF JoinAsked, Timers, RejoinTimerFires, LcTimerFires, PollTimerFires, Mac, MacDownlink, MacAnswer,
      ForceCheck
  <2>2. ~Join /\ ~JoinExchange /\ ~StaleRejoin
    BY DEF Join, JoinIgnored, JoinStarts, RestartFails, JoinExchange, JoinRefused, JoinReturns, StaleRejoin
  <2>3. ~Poll
    BY DEF Poll, PollBusy, JoinFails, JoinSucceeds, StateTransition
  <2>4. ~ReportHeld /\ ~ReportStarts /\ ~ReportEnds /\ ~ReportDropped /\ ~OtherStarts /\ ~OtherEnds
    BY DEF ReportHeld, ReportInHand, ReportStarts, ReportEnds, ReportFails, ReportSent, ReportDropped,
      OtherStarts, OtherEnds
  <2>5. LinkBad /\ ~FailsInHealthy
    BY <2>1, <2>2, <2>3, <2>4 DEF Next, LinkWork, TimeoutWork, DownlinkWork, AnswerWork, Ignored, LinkGood,
      FailsInHealthy
  <2>6. FailsInWarning /\ Spent /\ otaa
    BY <2>5 DEF LinkBad, FailsInWarning
  <2> QED BY <2>6 DEF Spent
<1> QED BY <1>1, PTL DEF Spec, RejoinAtTheFloor
=============================================================================
