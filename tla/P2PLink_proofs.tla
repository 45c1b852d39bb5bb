-------------------------- MODULE P2PLink_proofs ---------------------------
(***************************************************************************)
(* Proofs about the P2P data plane, for all repetitions, tries, scripts and *)
(* counter widths: however frames and ACKs are lost, what is confirmed is   *)
(* delivered once, in order, and not acknowledged before; and no control    *)
(* request waits for nobody.                                                *)
(***************************************************************************)
EXTENDS P2PLink, SequenceTheorems, TLAPS

-----------------------------------------------------------------------------
(* Types *)

Steps == Whats \union Frames \union {"time"}
Exchanges ==
  [stage : Stages, kind : {"app", "ctrl"}, bits : SUBSET Requests, counter : 0..MaxCounter,
   n : 0..Reps, sent : 0..Reps, acked : BOOLEAN, tail : SUBSET {"check", "time", "more"},
   dl : Nat, what : Whats \union {"none"}, owed : BOOLEAN]
Gateways ==
  [ctr : Nat, heard : 0..MaxCounter, got : Seq(Nat), queue : Seq(Item), acked : SUBSET Nat]
Retxs == [valid : BOOLEAN, counter : 0..MaxCounter, id : Nat]
Controls == [bits : SUBSET Requests, tries : 0..CtrlTries - 1, due : BOOLEAN]
Waits == [check : BOOLEAN, reports : Nat, time : BOOLEAN, wanted : BOOLEAN]
Apps == [id : Nat, tries : 0..AckRetries, confirmed : BOOLEAN]

\* TypeOK, the script apart; a transmission that is due has a repetition left.
Types ==
  /\ link \in {"paired", "joining", "idle"}
  /\ fcnt \in 0..MaxCounter /\ lane \in Nat /\ retx \in Retxs
  /\ x \in Exchanges /\ x.sent = x.n /\ (x.stage = "send" => x.n < Reps)
  /\ ctrl \in Controls /\ answers \in Waits /\ drains \in Nat /\ app \in Apps /\ gw \in Gateways
  /\ taken \in Seq(Nat) /\ script \in Seq(Steps)

LEMMA ConstantsAreNumbers ==
  /\ Reps \in Nat /\ Reps > 0 /\ CtrlTries \in Nat /\ CtrlTries > 0 /\ AckRetries \in Nat
  /\ AckRetries > 0 /\ DrainMax \in Nat /\ DrainMax > 0 /\ AnswerReports \in Nat /\ MaxCounter \in Nat
  /\ MaxCounter > 0
BY P2PLinkAssumption

\* The records a session begins with.
LEMMA FirstRecords ==
  /\ Idle \in Exchanges /\ Idle.stage = "idle" /\ Idle.dl = 0 /\ Idle.sent = 0 /\ Idle.n = 0
  /\ ~Idle.acked /\ Idle.what = "none" /\ Idle.kind = "app" /\ Idle.tail = {}
  /\ NoRetx \in Retxs /\ NoFrame \in Apps /\ NoFrame.id = 0 /\ NoFrame.tries = 0
  /\ NoAnswers \in Waits /\ NewGateway \in Gateways
  /\ NewGateway.got = <<>> /\ NewGateway.acked = {} /\ NewGateway.queue = <<>>
  /\ NewGateway.ctr = 0 /\ NewGateway.heard = 0
<1>1. 0 \in 0..MaxCounter /\ 0 \in 0..Reps /\ 0 \in 0..AckRetries
  BY ConstantsAreNumbers
<1>2. /\ Idle \in Exchanges /\ Idle.stage = "idle" /\ Idle.dl = 0 /\ Idle.sent = 0 /\ Idle.n = 0
      /\ ~Idle.acked /\ Idle.what = "none" /\ Idle.kind = "app" /\ Idle.tail = {}
  BY <1>1 DEF Idle, Exchanges, Stages
<1>3. NoRetx \in Retxs /\ NoFrame \in Apps /\ NoFrame.id = 0 /\ NoFrame.tries = 0 /\ NoAnswers \in Waits
  BY <1>1 DEF NoRetx, Retxs, NoFrame, Apps, NoAnswers, Waits
<1>4. <<>> \in Seq(Nat) /\ <<>> \in Seq(Item)
  OBVIOUS
<1>5. /\ NewGateway \in Gateways
      /\ NewGateway.got = <<>> /\ NewGateway.acked = {} /\ NewGateway.queue = <<>>
      /\ NewGateway.ctr = 0 /\ NewGateway.heard = 0
  BY <1>1, <1>4 DEF NewGateway, Gateways
<1> QED BY <1>2, <1>3, <1>5

\* What p2p_exchange() begins.
LEMMA Begun ==
  ASSUME Types, NEW kind \in {"app", "ctrl"}, NEW id \in Nat, NEW bits \in SUBSET Requests,
         NEW confirmed \in BOOLEAN, NEW again \in BOOLEAN, Exchange(kind, id, bits, confirmed, again)
  PROVE  /\ x' \in Exchanges /\ (x'.stage = "send" => x'.n < Reps) /\ x'.sent = x'.n
         /\ fcnt' \in 0..MaxCounter /\ retx' \in Retxs
         /\ x'.kind = kind /\ x'.bits = bits /\ x'.dl = 0 /\ x'.sent = 0 /\ ~x'.acked /\ x'.what = "none"
         /\ \/ x'.stage = "end" /\ ~(again /\ RetxCounter(id)) /\ UNCHANGED <<fcnt, retx>>
            \/ /\ x'.stage = "send" /\ x'.counter = fcnt'
               /\ fcnt' = IF again /\ RetxCounter(id) THEN fcnt ELSE fcnt + 1
               /\ retx' = IF confirmed /\ kind = "app" THEN [valid |-> TRUE, counter |-> fcnt', id |-> id]
                                                       ELSE NoRetx
<1> DEFINE reuse == again /\ RetxCounter(id)
           c == IF reuse THEN retx.counter ELSE fcnt + 1
           y == [Idle EXCEPT !.stage = "end", !.kind = kind, !.bits = bits]
           z == [Idle EXCEPT !.stage = "send", !.kind = kind, !.bits = bits, !.counter = c]
<1>0. fcnt \in 0..MaxCounter /\ retx \in Retxs /\ MaxCounter \in Nat /\ retx.counter \in 0..MaxCounter
      /\ Reps \in Nat /\ Reps > 0
  BY ConstantsAreNumbers DEF Types, Retxs
<1>1. CASE ~reuse /\ fcnt = MaxCounter
  <2>1. x' = y /\ UNCHANGED <<fcnt, retx>>
    BY <1>1 DEF Exchange
  <2>2. /\ y \in Exchanges /\ y.stage = "end" /\ y.kind = kind /\ y.bits = bits /\ y.dl = 0 /\ y.sent = 0 /\ y.n = 0
        /\ ~y.acked /\ y.what = "none"
    BY FirstRecords DEF Exchanges, Stages
  <2> HIDE DEF y
  <2> QED BY <1>0, <1>1, <2>1, <2>2
<1>2. CASE ~(~reuse /\ fcnt = MaxCounter)
  <2>1. /\ x' = z /\ fcnt' = IF reuse THEN fcnt ELSE c
        /\ retx' = IF confirmed /\ kind = "app" THEN [valid |-> TRUE, counter |-> c, id |-> id] ELSE NoRetx
    BY <1>2 DEF Exchange
  <2>2. c \in 0..MaxCounter /\ c = fcnt' /\ fcnt' = IF reuse THEN fcnt ELSE fcnt + 1
    BY <1>0, <1>2, <2>1 DEF RetxCounter
  <2>3. /\ z \in Exchanges /\ z.stage = "send" /\ z.kind = kind /\ z.bits = bits /\ z.dl = 0 /\ z.sent = 0
        /\ z.n = 0 /\ ~z.acked /\ z.what = "none" /\ z.counter = c
    BY <2>2, FirstRecords DEF Exchanges, Stages
  <2> HIDE DEF z, c
  <2>4. [valid |-> TRUE, counter |-> c, id |-> id] \in Retxs /\ NoRetx \in Retxs
    BY <2>2, FirstRecords DEF Retxs
  <2> QED BY <1>0, <2>1, <2>2, <2>3, <2>4
<1> QED BY <1>1, <1>2

-----------------------------------------------------------------------------
(* Sequences *)

Falls(s) == \A i, j \in DOMAIN s : i < j => s[i] > s[j]

\* A number below all of a falling sequence, or new to one without repetitions, goes last.
LEMMA AppendedIs ==
  ASSUME NEW s \in Seq(Nat), NEW e \in Nat
  PROVE  /\ Append(s, e) \in Seq(Nat) /\ ToSet(Append(s, e)) = ToSet(s) \union {e}
         /\ (Falls(s) /\ \A t \in ToSet(s) : t > e) => Falls(Append(s, e))
         /\ (IsInjective(s) /\ e \notin ToSet(s)) => IsInjective(Append(s, e))
<1> DEFINE n == Len(s)
           q == Append(s, e)
<1>1. /\ q \in Seq(Nat) /\ Len(q) = n + 1 /\ n \in Nat /\ q[n + 1] = e
      /\ \A i \in 1..n : q[i] = s[i]
  BY AppendProperties
<1>2. DOMAIN q = 1..n + 1 /\ DOMAIN s = 1..n
  BY <1>1
<1> HIDE DEF q, n
<1>3. ToSet(q) = ToSet(s) \union {e}
  <2>1. \A i \in 1..n : i \in 1..n + 1 /\ s[i] = q[i]
    BY <1>1
  <2>2. n + 1 \in 1..n + 1 /\ \A i \in 1..n + 1 : i \in 1..n \/ i = n + 1
    BY <1>1
  <2> QED BY <1>1, <1>2, <2>1, <2>2 DEF ToSet
<1>4. ASSUME Falls(s), \A t \in ToSet(s) : t > e PROVE Falls(q)
  <2> SUFFICES ASSUME NEW i \in 1..n + 1, NEW j \in 1..n + 1, i < j PROVE q[i] > q[j]
    BY <1>2 DEF Falls
  <2>1. i \in 1..n /\ q[i] = s[i] /\ s[i] \in ToSet(s)
    BY <1>1, <1>2 DEF ToSet
  <2>2. CASE j = n + 1
    BY <1>1, <1>4, <2>1, <2>2
  <2>3. CASE j # n + 1
    <3>1. j \in 1..n /\ q[j] = s[j]
      BY <1>1, <2>3
    <3> QED BY <1>2, <1>4, <2>1, <3>1 DEF Falls
  <2> QED BY <2>2, <2>3
<1>5. ASSUME IsInjective(s), e \notin ToSet(s) PROVE IsInjective(q)
  <2> SUFFICES ASSUME NEW i \in 1..n + 1, NEW j \in 1..n + 1, q[i] = q[j] PROVE i = j
    BY <1>2 DEF IsInjective
  <2>1. \A k \in 1..n : s[k] # e
    BY <1>2, <1>5 DEF ToSet
  <2>2. CASE i \in 1..n /\ j \in 1..n
    BY <1>1, <1>2, <1>5, <2>2 DEF IsInjective
  <2>3. \A k \in 1..n : q[k] # e
    BY <1>1, <2>1
  <2>4. CASE i = n + 1
    <3>1. j \notin 1..n
      BY <1>1, <2>3, <2>4
    <3> QED BY <1>1, <2>4, <3>1
  <2>5. CASE j = n + 1
    <3>1. i \notin 1..n
      BY <1>1, <2>3, <2>5
    <3> QED BY <1>1, <2>5, <3>1
  <2> QED BY <1>1, <2>2, <2>4, <2>5
<1> QED BY <1>1, <1>3, <1>4, <1>5 DEF q

-----------------------------------------------------------------------------
(* The gateway *)

\* The first downlink, sent under the counter it has or the gateway's next one.
LEMMA DownSentIs ==
  ASSUME gw \in Gateways, gw.queue # <<>>
  PROVE  /\ Downlink \in Item /\ DownCounter \in Nat /\ DownSent \in Gateways
         /\ DownSent.got = gw.got /\ DownSent.heard = gw.heard /\ DownSent.acked = gw.acked
         /\ DownSent.ctr = (IF Downlink.ctr = 0 THEN gw.ctr + 1 ELSE gw.ctr)
         /\ Len(DownSent.queue) = Len(gw.queue)
         /\ \A i \in 1..Len(gw.queue) :
              /\ DownSent.queue[i].id = gw.queue[i].id
              /\ DownSent.queue[i].ctr = IF i = 1 THEN DownCounter ELSE gw.queue[i].ctr
<1>1. /\ gw.queue \in Seq(Item) /\ gw.ctr \in Nat /\ Len(gw.queue) \in Nat /\ Len(gw.queue) > 0
      /\ \A i \in 1..Len(gw.queue) : gw.queue[i] \in Item
  BY DEF Gateways
<1>2. Downlink \in Item /\ DownCounter \in Nat
  BY <1>1 DEF Downlink, DownCounter, Item
<1> DEFINE q == [gw.queue EXCEPT ![1].ctr = DownCounter]
<1>3. /\ q \in Seq(Item) /\ Len(q) = Len(gw.queue)
      /\ \A i \in 1..Len(gw.queue) :
           q[i].id = gw.queue[i].id /\ q[i].ctr = IF i = 1 THEN DownCounter ELSE gw.queue[i].ctr
  <2>1. q = [gw.queue EXCEPT ![1] = [gw.queue[1] EXCEPT !.ctr = DownCounter]]
    OBVIOUS
  <2>2. [gw.queue[1] EXCEPT !.ctr = DownCounter] \in Item
    BY <1>1, <1>2, SMTT(30) DEF Item
  <2>3. q \in Seq(Item) /\ Len(q) = Len(gw.queue)
    BY <1>1, <2>1, <2>2, ExceptSeq
  <2>4. \A i \in 1..Len(gw.queue) :
          q[i] = IF i = 1 THEN [gw.queue[1] EXCEPT !.ctr = DownCounter] ELSE gw.queue[i]
    BY <1>1, <2>1
  <2> HIDE DEF q
  <2> QED BY <1>1, <1>2, <2>3, <2>4 DEF Item
<1>4. DownSent = [gw EXCEPT !.ctr = (IF Downlink.ctr = 0 THEN gw.ctr + 1 ELSE gw.ctr), !.queue = q]
  BY DEF DownSent, Gateways
<1> HIDE DEF q
<1>5. (IF Downlink.ctr = 0 THEN gw.ctr + 1 ELSE gw.ctr) \in Nat
  BY <1>1
<1> QED BY <1>2, <1>3, <1>4, <1>5 DEF Gateways

-----------------------------------------------------------------------------
(* The inductive invariant *)

\* Where an exchange is, and what it carries.
Places ==
  /\ x.stage # "idle" => link = "paired"
  /\ x.stage = "idle" => x = Idle
  /\ x.stage \in {"send", "reply"} => ~x.acked /\ x.dl = 0 /\ x.counter = fcnt
  /\ x.stage = "dl" => x.dl = 0
  /\ x.stage \in {"dl", "ack"} => x.acked /\ gw.queue # <<>>
  /\ x.dl # 0 => x.acked
  /\ x.stage # "idle" /\ x.kind = "app" => app.id # 0
  /\ x.stage \in {"send", "reply"} /\ x.kind = "app" /\ app.confirmed =>
       retx = [valid |-> TRUE, counter |-> fcnt, id |-> app.id]

\* The frame in hand the gateway already has is not sent under another counter: it is the
\* one of the exchange, or waits for its retry.
FrameHeard == app.id \in ToSet(gw.got)
Uplinks ==
  /\ IsInjective(gw.got)
  /\ \A g \in ToSet(gw.got) : g > Len(script)
  /\ app.id # 0 => app.id > Len(script)
  /\ ~app.confirmed => app.tries = 0
  /\ FrameHeard =>
       /\ x.stage # "idle" => x.kind = "app"
       /\ ~x.acked => /\ gw.heard >= fcnt /\ (app.tries > 0 \/ x.sent > 0)
                      /\ app.confirmed => retx = [valid |-> TRUE, counter |-> fcnt, id |-> app.id]

\* The downlinks fall, and only the first has its counter; what the node has taken is not
\* behind it, and if it is the first, its counter is known.
Done == ToSet(taken) \union ({x.dl} \ {0})
Downlinks ==
  /\ \A i \in DOMAIN gw.queue :
       /\ gw.queue[i].id > Len(script) /\ gw.queue[i].ctr <= gw.ctr
       /\ i > 1 => gw.queue[i].ctr = 0
       /\ \A j \in DOMAIN gw.queue : i < j => gw.queue[i].id > gw.queue[j].id
       /\ \A d \in Done : d >= gw.queue[i].id
  /\ Falls(taken) /\ \A d \in Done : d > Len(script)
  /\ x.dl # 0 => \A t \in ToSet(taken) : t > x.dl
  /\ link = "paired" => lane <= gw.ctr
  /\ link = "paired" /\ gw.queue # <<>> /\ gw.queue[1].id \in Done =>
       gw.queue[1].ctr # 0 /\ lane >= gw.queue[1].ctr
  /\ link = "paired" /\ gw.queue # <<>> /\ gw.queue[1].ctr # 0 /\ lane = gw.queue[1].ctr =>
       gw.queue[1].id \in Done
  /\ x.stage = "ack" => gw.queue[1].id \in Done
  /\ gw.acked \subseteq Done /\ 0 \notin gw.acked

P2PProofInv == Types /\ Places /\ Uplinks /\ Downlinks

-----------------------------------------------------------------------------
(* A step of the exchange *)

\* The next step of an exchange after a transmission.
LEMMA NextRepIs ==
  ASSUME NEW y \in Exchanges
  PROVE  /\ NextRep(y) \in Exchanges /\ NextRep(y).stage \in {"send", "end"}
         /\ NextRep(y).stage = "send" => y.n < Reps
         /\ NextRep(y).kind = y.kind /\ NextRep(y).counter = y.counter /\ NextRep(y).n = y.n
         /\ NextRep(y).sent = y.sent /\ NextRep(y).acked = y.acked /\ NextRep(y).dl = y.dl
<1>1. y.n \in 0..Reps /\ Reps \in Nat
  BY ConstantsAreNumbers DEF Exchanges
<1>2. (IF y.n >= Reps \/ ~Confirmed THEN "end" ELSE "send") \in Stages
  BY DEF Stages
<1>3. (IF y.n >= Reps \/ ~Confirmed THEN "end" ELSE "send") = "send" => y.n < Reps
  BY <1>1
<1> QED BY <1>2, <1>3 DEF NextRep, Exchanges

LEMMA SentIs ==
  ASSUME Types, x.stage = "send"
  PROVE  /\ Sent \in Exchanges /\ Sent.n = Sent.sent /\ Sent.sent > 0 /\ Sent.stage = "send"
         /\ Sent.kind = x.kind /\ Sent.counter = x.counter /\ Sent.acked = x.acked /\ Sent.dl = x.dl
         /\ [Sent EXCEPT !.stage = "reply"] \in Exchanges
         /\ [Sent EXCEPT !.stage = "reply"].n = Sent.n
<1>1. x.n + 1 \in 0..Reps /\ x.sent + 1 \in 0..Reps /\ x.n + 1 = x.sent + 1 /\ x.sent + 1 > 0 /\ x \in Exchanges
  BY ConstantsAreNumbers DEF Types, Exchanges
<1> QED BY <1>1 DEF Sent, Exchanges, Stages

\* What a step of the exchange leaves alone.
Kept == UNCHANGED <<link, ctrl, answers, drains, app, taken, script>>

\* The gateway's record, by its parts.
LEMMA GatewayIs ==
  ASSUME gw \in Gateways
  PROVE  /\ gw.ctr \in Nat /\ gw.heard \in 0..MaxCounter /\ gw.got \in Seq(Nat) /\ gw.acked \subseteq Nat
         /\ gw.queue \in Seq(Item) /\ Len(gw.queue) \in Nat /\ DOMAIN gw.queue = 1..Len(gw.queue)
         /\ \A i \in DOMAIN gw.queue :
              gw.queue[i] \in Item /\ gw.queue[i].ctr \in Nat /\ gw.queue[i].id \in Nat
         /\ [gw EXCEPT !.ctr = @ + 1] \in Gateways
<1>1. /\ gw.ctr \in Nat /\ gw.heard \in 0..MaxCounter /\ gw.got \in Seq(Nat) /\ gw.acked \subseteq Nat
      /\ gw.queue \in Seq(Item)
  BY DEF Gateways
<1>2. Len(gw.queue) \in Nat /\ DOMAIN gw.queue = 1..Len(gw.queue) /\ \A i \in DOMAIN gw.queue : gw.queue[i] \in Item
  BY <1>1
<1>3. [gw EXCEPT !.ctr = @ + 1] \in Gateways
  BY <1>1, SMTT(30) DEF Gateways
<1> QED BY <1>1, <1>2, <1>3 DEF Item

\* A step that transmits nothing the gateway takes, or loses the ACK.
LEMMA LossKeeps ==
  ASSUME P2PProofInv, Kept, UNCHANGED node, x.stage # "idle", x' \in Exchanges, x'.sent = x'.n,
         x'.stage \in {"send", "end"}, x'.stage = "send" => x'.n < Reps /\ x.stage \in {"send", "reply"},
         x'.kind = x.kind, x'.counter = x.counter, x'.dl = x.dl, x'.acked = x.acked, x'.sent >= x.sent,
         gw' \in Gateways, gw'.ctr >= gw.ctr, gw'.queue = gw.queue, gw'.got = gw.got,
         gw'.heard = gw.heard, gw'.acked = gw.acked
  PROVE  P2PProofInv'
<1>1. Types'
  BY DEF P2PProofInv, Types, Kept, node
<1>2. Places'
  BY DEF P2PProofInv, Places, Kept, node
<1>3. Uplinks'
  <2>1. x.sent \in Nat /\ x'.sent \in Nat
    BY ConstantsAreNumbers DEF P2PProofInv, Types, Exchanges
  <2>2. FrameHeard' <=> FrameHeard
    BY DEF FrameHeard, Kept
  <2> QED BY <2>1, <2>2 DEF P2PProofInv, Uplinks, Kept, node
<1>4. Downlinks'
  <2>1. Done' = Done
    BY DEF Done, Kept
  <2>2. gw.ctr \in Nat /\ gw'.ctr \in Nat /\ lane \in Nat /\ \A i \in DOMAIN gw.queue : gw.queue[i].ctr \in Nat
    <3>1. gw'.ctr \in Nat
      BY DEF Gateways
    <3> QED BY <3>1, GatewayIs DEF P2PProofInv, Types
  <2> QED BY <2>1, <2>2 DEF P2PProofInv, Downlinks, Kept, node
<1> QED BY <1>1, <1>2, <1>3, <1>4 DEF P2PProofInv

\* A frame, a repetition or an ACK is lost or held.
LEMMA LossesKeep ==
  ASSUME P2PProofInv, TransmitFails \/ TransmitLost \/ AckLost \/ AutoAckHeld
  PROVE  P2PProofInv'
<1>0. x \in Exchanges /\ x.sent = x.n /\ gw \in Gateways /\ gw.ctr \in Nat /\ x.sent \in 0..Reps
  BY DEF P2PProofInv, Types, Gateways, Exchanges
<1> DEFINE y == [x EXCEPT !.stage = "end"]
<1>1. /\ y \in Exchanges /\ y.sent = y.n /\ y.stage = "end" /\ y.kind = x.kind /\ y.counter = x.counter
      /\ y.dl = x.dl /\ y.acked = x.acked /\ y.sent >= x.sent
  BY <1>0, ConstantsAreNumbers DEF Exchanges, Stages
<1>2. gw.ctr >= gw.ctr
  BY <1>0
<1>3. CASE TransmitFails \/ AutoAckHeld
  <2>1. x' = y /\ UNCHANGED gw /\ x.stage # "idle" /\ Kept /\ UNCHANGED node
    BY <1>3 DEF TransmitFails, AutoAckHeld, Kept
  <2> HIDE DEF y
  <2> QED BY <1>0, <1>1, <1>2, <2>1, LossKeeps
<1>4. CASE TransmitLost
  <2> DEFINE z == NextRep(Sent)
  <2>1. x.stage = "send" /\ x' = z /\ UNCHANGED gw /\ Kept /\ UNCHANGED node
    BY <1>4 DEF TransmitLost, Kept
  <2>2. Sent \in Exchanges /\ Sent.n = Sent.sent /\ Sent.sent >= x.sent /\ Sent.kind = x.kind
        /\ Sent.counter = x.counter /\ Sent.acked = x.acked /\ Sent.dl = x.dl
    BY <1>0, <2>1, SentIs, ConstantsAreNumbers DEF P2PProofInv, Sent, Exchanges
  <2>3. /\ z \in Exchanges /\ z.stage \in {"send", "end"} /\ (z.stage = "send" => z.n < Reps)
        /\ z.kind = x.kind /\ z.counter = x.counter /\ z.dl = x.dl /\ z.acked = x.acked
        /\ z.sent = z.n /\ z.sent >= x.sent
    BY <2>2, NextRepIs
  <2> HIDE DEF z
  <2> QED BY <1>0, <1>2, <2>1, <2>3, LossKeeps
<1>5. CASE AckLost
  <2> DEFINE z == NextRep(x)
             g == [gw EXCEPT !.ctr = @ + 1]
  <2>1. x.stage = "reply" /\ x' = z /\ gw' = g /\ Kept /\ UNCHANGED node
    BY <1>5 DEF AckLost, Kept
  <2>2. /\ z \in Exchanges /\ z.stage \in {"send", "end"} /\ (z.stage = "send" => z.n < Reps)
        /\ z.kind = x.kind /\ z.counter = x.counter /\ z.dl = x.dl /\ z.acked = x.acked
        /\ z.sent = z.n /\ z.sent >= x.sent
    BY <1>0, NextRepIs, ConstantsAreNumbers
  <2>3. /\ g \in Gateways /\ g.ctr >= gw.ctr /\ g.queue = gw.queue /\ g.got = gw.got
        /\ g.heard = gw.heard /\ g.acked = gw.acked
    <3>1. g \in Gateways
      BY <1>0, GatewayIs
    <3>2. g.ctr = gw.ctr + 1
      BY <1>0 DEF Gateways
    <3>3. g.queue = gw.queue /\ g.got = gw.got /\ g.heard = gw.heard /\ g.acked = gw.acked
      BY <1>0 DEF Gateways
    <3> QED BY <1>0, <3>1, <3>2, <3>3
  <2> HIDE DEF z, g
  <2> QED BY <2>1, <2>2, <2>3, LossKeeps
<1> QED BY <1>3, <1>4, <1>5

\* The gateway hears a frame, and takes its payload if the counter is new: then the payload
\* is one it does not have.
LEMMA HeardKeeps ==
  ASSUME P2PProofInv, TransmitHeard
  PROVE  P2PProofInv'
<1> DEFINE g == [gw EXCEPT !.heard = x.counter, !.got = IF x.kind = "app" THEN Append(@, app.id) ELSE @]
<1>0. /\ x \in Exchanges /\ x.counter \in 0..MaxCounter /\ gw \in Gateways /\ gw.got \in Seq(Nat)
      /\ app \in Apps /\ app.id \in Nat /\ gw.heard \in 0..MaxCounter /\ MaxCounter \in Nat /\ gw.ctr \in Nat
      /\ fcnt \in 0..MaxCounter
  BY GatewayIs, ConstantsAreNumbers DEF P2PProofInv, Types, Exchanges, Apps
<1>1. x.stage = "send" /\ Kept /\ UNCHANGED node /\ gw' = IF x.counter > gw.heard THEN g ELSE gw
  BY DEF TransmitHeard, Kept
<1>2. /\ x' \in Exchanges /\ x'.stage \in {"send", "reply", "end"} /\ (x'.stage = "send" => x'.n < Reps)
      /\ x'.kind = x.kind /\ x'.counter = x.counter /\ x'.dl = x.dl /\ x'.acked = x.acked
      /\ x'.sent = x'.n /\ x'.sent > 0
  <2>1. Types
    BY DEF P2PProofInv
  <2>2. CASE Confirmed
    <3>1. x' = [Sent EXCEPT !.stage = "reply"]
      BY <2>2 DEF TransmitHeard
    <3> QED BY <1>1, <2>1, <3>1, SentIs DEF Exchanges
  <2>3. CASE ~Confirmed
    <3>1. x' = NextRep(Sent)
      BY <2>3 DEF TransmitHeard
    <3> QED BY <1>1, <2>1, <3>1, SentIs, NextRepIs
  <2> QED BY <2>2, <2>3
<1>3. ~x.acked /\ x.dl = 0 /\ x.counter = fcnt /\ link = "paired"
  BY <1>1 DEF P2PProofInv, Places
<1>4. /\ g \in Gateways /\ g.ctr = gw.ctr /\ g.queue = gw.queue /\ g.acked = gw.acked /\ g.heard = x.counter
      /\ g.got = IF x.kind = "app" THEN Append(gw.got, app.id) ELSE gw.got
  <2>1. (IF x.kind = "app" THEN Append(gw.got, app.id) ELSE gw.got) \in Seq(Nat)
    BY <1>0, AppendedIs
  <2> QED BY <1>0, <2>1 DEF Gateways
<1> HIDE DEF g
<1>5. gw' \in Gateways /\ gw'.ctr = gw.ctr /\ gw'.queue = gw.queue /\ gw'.acked = gw.acked
  BY <1>0, <1>1, <1>4
<1>6. Types'
  BY <1>1, <1>2, <1>5 DEF P2PProofInv, Types, Kept, node
<1>7. Places'
  BY <1>1, <1>2, <1>3, <1>5 DEF P2PProofInv, Places, Kept, node
<1>8. Downlinks'
  <2>1. Done' = Done
    BY <1>1, <1>2 DEF Done, Kept
  <2> QED BY <1>1, <1>2, <1>5, <2>1 DEF P2PProofInv, Downlinks, Kept, node
<1>9. Uplinks'
  <2>1. x.kind = "app" => app.id # 0 /\ app.id > Len(script)
    BY <1>1 DEF P2PProofInv, Places, Uplinks
  <2>2. CASE x.counter > gw.heard /\ x.kind = "app"
    <3>1. app.id \notin ToSet(gw.got)
      BY <1>0, <1>3, <2>2 DEF P2PProofInv, Uplinks, FrameHeard
    <3>2. IsInjective(gw'.got) /\ ToSet(gw'.got) = ToSet(gw.got) \union {app.id} /\ gw'.heard = fcnt
      BY <1>0, <1>1, <1>3, <1>4, <2>2, <3>1, AppendedIs DEF P2PProofInv, Uplinks
    <3>3. app.confirmed => retx = [valid |-> TRUE, counter |-> fcnt, id |-> app.id]
      BY <1>1, <2>2 DEF P2PProofInv, Places
    <3> QED BY <1>0, <1>1, <1>2, <2>1, <2>2, <3>2, <3>3 DEF P2PProofInv, Uplinks, FrameHeard, Kept, node
  <2>3. CASE x.counter > gw.heard /\ x.kind # "app"
    <3>1. ~FrameHeard /\ gw'.got = gw.got
      BY <1>1, <1>4, <2>3 DEF P2PProofInv, Uplinks
    <3> QED BY <1>1, <3>1 DEF P2PProofInv, Uplinks, FrameHeard, Kept, node
  <2>4. CASE ~(x.counter > gw.heard)
    <3>1. gw' = gw
      BY <1>1, <2>4
    <3> QED BY <1>1, <1>2, <3>1 DEF P2PProofInv, Uplinks, FrameHeard, Kept, node
  <2> QED BY <2>2, <2>3, <2>4
<1> QED BY <1>6, <1>7, <1>8, <1>9 DEF P2PProofInv

\* An ACK that is fresh moves the lane past the first downlink's counter.
LEMMA AckKeeps ==
  ASSUME P2PProofInv, AckHeard
  PROVE  P2PProofInv'
<1> DEFINE g == [gw EXCEPT !.ctr = @ + 1]
<1>0. /\ x \in Exchanges /\ gw \in Gateways /\ gw.ctr \in Nat /\ lane \in Nat /\ x.sent = x.n
      /\ \A i \in DOMAIN gw.queue : gw.queue[i].ctr \in Nat
  BY GatewayIs DEF P2PProofInv, Types
<1>1. /\ x.stage = "reply" /\ gw' = g /\ lane' = gw'.ctr
      /\ UNCHANGED <<link, fcnt, retx, ctrl, answers, drains, app, taken, script>>
  BY DEF AckHeard
<1>2. /\ g \in Gateways /\ g.queue = gw.queue /\ g.got = gw.got /\ g.heard = gw.heard /\ g.acked = gw.acked
      /\ g.ctr = gw.ctr + 1
  <2>1. g \in Gateways
    BY <1>0, GatewayIs
  <2> QED BY <1>0, <2>1 DEF Gateways
<1> HIDE DEF g
<1>3. /\ x' \in Exchanges /\ x'.stage = (IF gw.queue = <<>> THEN "end" ELSE "dl")
      /\ x'.kind = x.kind /\ x'.counter = x.counter /\ x'.dl = x.dl /\ x'.acked /\ x'.sent = x.sent /\ x'.n = x.n
  <2>1. PICK t \in Tails : x' = [x EXCEPT !.acked = TRUE, !.tail = t,
                                          !.stage = IF gw.queue = <<>> THEN "end" ELSE "dl"]
    BY DEF AckHeard
  <2>2. t \in SUBSET {"check", "time", "more"}
    BY <2>1 DEF Tails
  <2>3. (IF gw.queue = <<>> THEN "end" ELSE "dl") \in Stages
    BY DEF Stages
  <2> QED BY <1>0, <2>1, <2>2, <2>3 DEF Exchanges
<1>4. ~x.acked /\ x.dl = 0 /\ link = "paired"
  BY <1>1 DEF P2PProofInv, Places
<1>5. Types'
  BY <1>0, <1>1, <1>2, <1>3 DEF P2PProofInv, Types
<1>6. Places'
  BY <1>1, <1>2, <1>3, <1>4 DEF P2PProofInv, Places
<1>7. Uplinks'
  BY <1>1, <1>2, <1>3, <1>4 DEF P2PProofInv, Uplinks, FrameHeard
<1>8. Downlinks'
  <2>1. Done' = Done
    BY <1>1, <1>3 DEF Done
  <2>2. \A i \in DOMAIN gw.queue : gw.queue[i].ctr <= gw.ctr
    BY DEF P2PProofInv, Downlinks
  <2>3. \A i \in DOMAIN gw.queue : gw.queue[i].ctr <= gw'.ctr /\ lane' # gw.queue[i].ctr /\ lane' >= gw.queue[i].ctr
    BY <1>0, <1>1, <1>2, <2>2
  <2>4. gw.queue # <<>> => 1 \in DOMAIN gw.queue
    BY <1>0, GatewayIs
  <2>5. x'.stage # "ack" /\ lane' <= gw'.ctr
    BY <1>0, <1>1, <1>2, <1>3
  <2> QED BY <1>1, <1>2, <1>3, <1>4, <2>1, <2>3, <2>4, <2>5 DEF P2PProofInv, Downlinks
<1> QED BY <1>5, <1>6, <1>7, <1>8 DEF P2PProofInv

\* The first downlink goes out under its counter, or under a new one above the lane.
LEMMA DownSentKeeps ==
  ASSUME P2PProofInv, x.stage = "dl", gw' = DownSent
  PROVE  /\ gw' \in Gateways /\ gw'.got = gw.got /\ gw'.heard = gw.heard /\ gw'.acked = gw.acked
         /\ gw'.ctr \in Nat /\ gw'.ctr >= gw.ctr /\ gw'.queue # <<>> /\ lane <= gw'.ctr
         /\ DOMAIN gw'.queue = DOMAIN gw.queue /\ 1 \in DOMAIN gw.queue
         /\ \A i \in DOMAIN gw.queue :
              /\ gw'.queue[i].id = gw.queue[i].id /\ gw'.queue[i].id \in Nat
              /\ gw'.queue[i].ctr \in Nat /\ gw'.queue[i].ctr <= gw'.ctr /\ (i > 1 => gw'.queue[i].ctr = 0)
         /\ gw'.queue[1].ctr = DownCounter /\ DownCounter \in Nat /\ DownCounter # 0
         /\ DownCounter > lane => Downlink.id \notin Done
         /\ DownCounter = lane => Downlink.id \in Done
         /\ Downlink.id \in Done => lane >= DownCounter
<1>1. /\ gw \in Gateways /\ gw.queue # <<>> /\ gw.ctr \in Nat /\ lane \in Nat /\ link = "paired"
      /\ gw.queue \in Seq(Item) /\ DOMAIN gw.queue = 1..Len(gw.queue) /\ Len(gw.queue) \in Nat
      /\ \A i \in DOMAIN gw.queue : gw.queue[i].ctr \in Nat /\ gw.queue[i].id \in Nat
  BY GatewayIs DEF P2PProofInv, Types, Places
<1>2. 1 \in DOMAIN gw.queue /\ Downlink = gw.queue[1]
  BY <1>1 DEF Downlink
<1>3. /\ Downlink \in Item /\ DownCounter \in Nat /\ gw' \in Gateways
      /\ gw'.got = gw.got /\ gw'.heard = gw.heard /\ gw'.acked = gw.acked
      /\ gw'.ctr = (IF Downlink.ctr = 0 THEN gw.ctr + 1 ELSE gw.ctr)
      /\ Len(gw'.queue) = Len(gw.queue)
      /\ \A i \in 1..Len(gw.queue) :
           /\ gw'.queue[i].id = gw.queue[i].id
           /\ gw'.queue[i].ctr = IF i = 1 THEN DownCounter ELSE gw.queue[i].ctr
  BY <1>1, DownSentIs
<1>4. gw'.queue \in Seq(Item)
  BY <1>3 DEF Gateways
<1>5. DOMAIN gw'.queue = DOMAIN gw.queue /\ gw'.queue # <<>>
  BY <1>1, <1>3, <1>4
<1>6. /\ Downlink.ctr \in Nat /\ Downlink.ctr <= gw.ctr /\ lane <= gw.ctr
      /\ DownCounter = (IF Downlink.ctr = 0 THEN gw.ctr + 1 ELSE Downlink.ctr)
      /\ \A i \in DOMAIN gw.queue : gw.queue[i].ctr <= gw.ctr /\ (i > 1 => gw.queue[i].ctr = 0)
  BY <1>1, <1>2 DEF P2PProofInv, Downlinks, DownCounter
<1>7. /\ Downlink.id \in Done => Downlink.ctr # 0 /\ lane >= Downlink.ctr
      /\ Downlink.ctr # 0 /\ lane = Downlink.ctr => Downlink.id \in Done
  BY <1>1, <1>2 DEF P2PProofInv, Downlinks
<1>8. /\ gw'.ctr \in Nat /\ gw'.ctr >= gw.ctr /\ lane <= gw'.ctr /\ DownCounter # 0 /\ DownCounter <= gw'.ctr
  BY <1>1, <1>3, <1>6
<1>9. /\ DownCounter > lane => Downlink.id \notin Done
      /\ DownCounter = lane => Downlink.id \in Done
      /\ Downlink.id \in Done => lane >= DownCounter
  BY <1>1, <1>6, <1>7
<1>10. \A i \in DOMAIN gw.queue :
         /\ gw'.queue[i].id = gw.queue[i].id /\ gw'.queue[i].id \in Nat
         /\ gw'.queue[i].ctr \in Nat /\ gw'.queue[i].ctr <= gw'.ctr /\ (i > 1 => gw'.queue[i].ctr = 0)
  BY <1>1, <1>3, <1>6, <1>8, SMTT(30)
<1> QED BY <1>1, <1>2, <1>3, <1>5, <1>8, <1>9, <1>10

LEMMA DownlinkLostKeeps ==
  ASSUME P2PProofInv, DownlinkLost
  PROVE  P2PProofInv'
<1>1. /\ x.stage = "dl" /\ gw' = DownSent /\ x' = [x EXCEPT !.stage = "end"] /\ Kept /\ UNCHANGED node
  BY DEF DownlinkLost, Kept
<1>2. /\ x' \in Exchanges /\ x'.stage = "end" /\ x'.dl = x.dl /\ x'.acked = x.acked /\ x'.kind = x.kind
      /\ x'.sent = x.sent /\ x'.n = x.n
  BY <1>1 DEF P2PProofInv, Types, Exchanges, Stages
<1>3. /\ gw' \in Gateways /\ gw'.got = gw.got /\ gw'.heard = gw.heard /\ gw'.acked = gw.acked
      /\ gw'.ctr \in Nat /\ gw'.queue # <<>> /\ lane <= gw'.ctr
      /\ DOMAIN gw'.queue = DOMAIN gw.queue /\ 1 \in DOMAIN gw.queue
      /\ \A i \in DOMAIN gw.queue :
           /\ gw'.queue[i].id = gw.queue[i].id
           /\ gw'.queue[i].ctr <= gw'.ctr /\ (i > 1 => gw'.queue[i].ctr = 0)
      /\ gw'.queue[1].ctr = DownCounter /\ DownCounter # 0
      /\ DownCounter = lane => Downlink.id \in Done
      /\ Downlink.id \in Done => lane >= DownCounter
  BY <1>1, DownSentKeeps
<1>4. x.acked /\ link = "paired" /\ x.dl = 0
  BY <1>1 DEF P2PProofInv, Places
<1>5. Types'
  BY <1>1, <1>2, <1>3 DEF P2PProofInv, Types, Kept, node
<1>6. Places'
  BY <1>1, <1>2, <1>3, <1>4 DEF P2PProofInv, Places, Kept, node
<1>7. Uplinks'
  BY <1>1, <1>2, <1>3, <1>4 DEF P2PProofInv, Uplinks, FrameHeard, Kept, node
<1>8. Downlinks'
  <2>1. Done' = Done
    BY <1>1, <1>2 DEF Done, Kept
  <2> QED BY <1>1, <1>2, <1>3, <1>4, <2>1 DEF P2PProofInv, Downlinks, Downlink, Kept, node
<1> QED BY <1>5, <1>6, <1>7, <1>8 DEF P2PProofInv

\* A fresh downlink was not taken yet; a repeated one was.
LEMMA DownlinkHeardKeeps ==
  ASSUME P2PProofInv, DownlinkHeard
  PROVE  P2PProofInv'
<1> DEFINE v == Verdict(lane, DownCounter)
<1>1. /\ x.stage = "dl" /\ gw' = DownSent /\ lane' = (IF v = "fresh" THEN DownCounter ELSE lane)
      /\ x' = [x EXCEPT !.stage = IF v # "replay" THEN "ack" ELSE "end", !.owed = v # "replay",
                        !.dl = IF v = "fresh" THEN Downlink.id ELSE 0,
                        !.what = IF v = "fresh" THEN Downlink.what ELSE "none"]
      /\ UNCHANGED <<link, fcnt, retx, ctrl, answers, drains, app, taken, script>>
  BY DEF DownlinkHeard, IsTaken, Owed
<1>2. /\ gw' \in Gateways /\ gw'.got = gw.got /\ gw'.heard = gw.heard /\ gw'.acked = gw.acked
      /\ gw'.ctr \in Nat /\ gw'.queue # <<>> /\ lane <= gw'.ctr
      /\ DOMAIN gw'.queue = DOMAIN gw.queue /\ 1 \in DOMAIN gw.queue
      /\ \A i \in DOMAIN gw.queue :
           /\ gw'.queue[i].id = gw.queue[i].id /\ gw'.queue[i].id \in Nat
           /\ gw'.queue[i].ctr \in Nat /\ gw'.queue[i].ctr <= gw'.ctr /\ (i > 1 => gw'.queue[i].ctr = 0)
      /\ gw'.queue[1].ctr = DownCounter /\ DownCounter \in Nat /\ DownCounter # 0
      /\ DownCounter > lane => Downlink.id \notin Done
      /\ DownCounter = lane => Downlink.id \in Done
      /\ Downlink.id \in Done => lane >= DownCounter
  BY <1>1, DownSentKeeps
<1>3. x.acked /\ link = "paired" /\ x.dl = 0 /\ lane \in Nat /\ x \in Exchanges /\ x.sent = x.n
  BY <1>1 DEF P2PProofInv, Places, Types
<1>4. Downlink.id \in Nat /\ Downlink.what \in Whats /\ Downlink.id > Len(script) /\ Downlink.id > 0
      /\ Downlink = gw.queue[1] /\ Downlink.id = gw'.queue[1].id
  <2>1. gw \in Gateways /\ script \in Seq(Steps)
    BY DEF P2PProofInv, Types
  <2>2. Downlink \in Item /\ Downlink.id > Len(script)
    BY <1>2, <2>1, GatewayIs DEF P2PProofInv, Downlinks, Downlink
  <2> QED BY <1>2, <2>1, <2>2 DEF Item, Downlink
<1>5. v = (IF DownCounter < lane THEN "replay" ELSE IF DownCounter = lane THEN "repeat" ELSE "fresh")
  BY <1>2 DEF Verdict
<1> HIDE DEF v
<1>6. /\ x' \in Exchanges /\ x'.stage = (IF v # "replay" THEN "ack" ELSE "end")
      /\ x'.dl = (IF v = "fresh" THEN Downlink.id ELSE 0) /\ x'.acked = x.acked /\ x'.kind = x.kind
      /\ x'.sent = x.sent /\ x'.n = x.n
  BY <1>1, <1>3, <1>4, ZenonT(60) DEF Exchanges, Stages
<1>7. Types'
  BY <1>1, <1>2, <1>3, <1>6 DEF P2PProofInv, Types
<1>8. Places'
  BY <1>1, <1>2, <1>3, <1>6 DEF P2PProofInv, Places
<1>9. Uplinks'
  BY <1>1, <1>2, <1>3, <1>6 DEF P2PProofInv, Uplinks, FrameHeard
<1>10. Downlinks'
  <2>0. Done = ToSet(taken) /\ \A d \in Done : d \in Nat
    <3>1. taken \in Seq(Nat)
      BY DEF P2PProofInv, Types
    <3> QED BY <1>3, <3>1 DEF Done, ToSet
  <2>1. CASE v = "fresh"
    <3>1. Done' = Done \union {Downlink.id}
      BY <1>1, <1>4, <1>6, <2>0, <2>1 DEF Done
    <3>2. DownCounter > lane /\ Downlink.id \notin Done /\ lane' = DownCounter
      BY <1>1, <1>2, <1>3, <1>5, <2>1
    <3>3. ASSUME NEW i \in DOMAIN gw.queue PROVE Downlink.id >= gw.queue[i].id
      <4>1. /\ i \in Nat /\ i >= 1 /\ gw.queue[i].id \in Nat
            /\ \A j \in DOMAIN gw.queue : i < j => gw.queue[i].id > gw.queue[j].id
        BY GatewayIs DEF P2PProofInv, Types, Downlinks
      <4>2. \A j \in DOMAIN gw.queue : 1 < j => gw.queue[1].id > gw.queue[j].id
        BY <1>2 DEF P2PProofInv, Downlinks
      <4>3. CASE i = 1
        BY <1>4, <4>3
      <4>4. CASE i # 1
        <5>1. 1 < i
          BY <4>1, <4>4
        <5>2. gw.queue[1].id > gw.queue[i].id
          BY <4>2, <5>1
        <5> QED BY <1>4, <4>1, <5>2
      <4> QED BY <4>3, <4>4
    <3>4. \A d \in Done : d > Downlink.id
      BY <1>2, <1>4, <2>0, <3>2 DEF P2PProofInv, Downlinks
    <3> QED BY <1>1, <1>2, <1>3, <1>4, <1>6, <2>0, <2>1, <3>1, <3>2, <3>3, <3>4 DEF P2PProofInv, Downlinks
  <2>2. CASE v # "fresh"
    <3>1. Done' = Done /\ lane' = lane /\ lane >= DownCounter
      BY <1>1, <1>2, <1>3, <1>5, <1>6, <2>0, <2>2 DEF Done
    <3>2. x'.stage = "ack" => DownCounter = lane
      BY <1>2, <1>3, <1>5, <1>6, <2>2
    <3> QED BY <1>1, <1>2, <1>3, <1>4, <1>6, <2>2, <3>1, <3>2 DEF P2PProofInv, Downlinks
  <2> QED BY <2>1, <2>2
<1> QED BY <1>7, <1>8, <1>9, <1>10 DEF P2PProofInv

\* The gateway drops what the node acknowledges, if it hears it.
LEMMA AutoAckKeeps ==
  ASSUME P2PProofInv, AutoAck
  PROVE  P2PProofInv'
<1> DEFINE g == [gw EXCEPT !.heard = fcnt', !.queue = Tail(@), !.acked = @ \union {Downlink.id}]
<1>1. /\ x.stage = "ack" /\ fcnt < MaxCounter /\ fcnt' = fcnt + 1 /\ x' = [x EXCEPT !.stage = "end"]
      /\ gw' \in {gw, g}
      /\ UNCHANGED <<link, lane, retx, ctrl, answers, drains, app, taken, script>>
  BY DEF AutoAck
<1>2. /\ x \in Exchanges /\ x.acked /\ gw.queue # <<>> /\ link = "paired" /\ x.sent = x.n
      /\ fcnt \in 0..MaxCounter /\ MaxCounter \in Nat /\ gw \in Gateways
  BY <1>1, ConstantsAreNumbers DEF P2PProofInv, Types, Places
<1>3. /\ x' \in Exchanges /\ x'.stage = "end" /\ x'.dl = x.dl /\ x'.acked = x.acked /\ x'.kind = x.kind
      /\ x'.sent = x.sent /\ x'.n = x.n
  BY <1>1, <1>2 DEF Exchanges, Stages
<1>4. fcnt' \in 0..MaxCounter
  BY <1>1, <1>2
<1>5. /\ gw.queue \in Seq(Item) /\ Len(gw.queue) \in Nat /\ 1 \in DOMAIN gw.queue /\ DOMAIN gw.queue = 1..Len(gw.queue)
      /\ Downlink.id \in Nat /\ Downlink.id \in Done /\ Downlink.id > Len(script) /\ Downlink.id # 0
      /\ gw.acked \subseteq Nat
  <2>1. Downlink.id \in Done /\ script \in Seq(Steps)
    BY <1>1 DEF P2PProofInv, Downlinks, Downlink, Types
  <2>2. 1 \in DOMAIN gw.queue /\ Downlink.id \in Nat
    BY <1>2, GatewayIs DEF Downlink
  <2>3. Downlink.id > Len(script)
    BY <2>2 DEF P2PProofInv, Downlinks, Downlink
  <2> QED BY <1>2, <2>1, <2>2, <2>3, GatewayIs
<1>6. /\ g \in Gateways /\ g.ctr = gw.ctr /\ g.got = gw.got /\ g.queue = Tail(gw.queue)
      /\ g.acked = gw.acked \union {Downlink.id}
  <2>1. Tail(gw.queue) \in Seq(Item)
    BY <1>2, <1>5
  <2> QED BY <1>2, <1>4, <1>5, <2>1 DEF Gateways
<1> HIDE DEF g
<1>7. gw' \in Gateways /\ gw'.got = gw.got /\ gw'.ctr = gw.ctr
  BY <1>1, <1>2, <1>6
<1>8. Types'
  BY <1>1, <1>2, <1>3, <1>4, <1>7 DEF P2PProofInv, Types
<1>9. Places'
  BY <1>1, <1>2, <1>3 DEF P2PProofInv, Places
<1>10. Uplinks'
  BY <1>1, <1>2, <1>3, <1>7 DEF P2PProofInv, Uplinks, FrameHeard
<1>11. Downlinks'
  <2>1. Done' = Done
    BY <1>1, <1>3 DEF Done
  <2>2. CASE gw' = gw
    BY <1>1, <1>3, <2>1, <2>2 DEF P2PProofInv, Downlinks
  <2>3. CASE gw' = g
    <3>1. /\ DOMAIN gw'.queue = 1..Len(gw.queue) - 1
          /\ \A i \in 1..Len(gw.queue) - 1 : gw'.queue[i] = gw.queue[i + 1] /\ i + 1 \in DOMAIN gw.queue
      <4>1. gw'.queue = Tail(gw.queue)
        BY <1>6, <2>3
      <4>2. /\ Tail(gw.queue) \in Seq(Item) /\ Len(Tail(gw.queue)) = Len(gw.queue) - 1
            /\ \A i \in 1..Len(Tail(gw.queue)) : Tail(gw.queue)[i] = gw.queue[i + 1]
        BY <1>2, <1>5, HeadTailProperties
      <4>3. DOMAIN Tail(gw.queue) = 1..Len(gw.queue) - 1
        BY <4>2
      <4>4. \A i \in 1..Len(gw.queue) - 1 : i + 1 \in 1..Len(gw.queue)
        BY <1>5
      <4> QED BY <1>5, <4>1, <4>2, <4>3, <4>4
    <3>2. \A i \in DOMAIN gw'.queue :
            /\ gw'.queue[i].id > Len(script) /\ gw'.queue[i].ctr = 0 /\ gw'.queue[i].ctr <= gw'.ctr
            /\ \A j \in DOMAIN gw'.queue : i < j => gw'.queue[i].id > gw'.queue[j].id
            /\ \A d \in Done : d >= gw'.queue[i].id
      <4> SUFFICES ASSUME NEW i \in 1..Len(gw.queue) - 1
                   PROVE  /\ gw.queue[i + 1].id > Len(script) /\ gw.queue[i + 1].ctr = 0
                          /\ gw.queue[i + 1].ctr <= gw'.ctr
                          /\ \A j \in 1..Len(gw.queue) - 1 : i < j => gw.queue[i + 1].id > gw.queue[j + 1].id
                          /\ \A d \in Done : d >= gw.queue[i + 1].id
        BY <3>1
      <4>1. i + 1 \in DOMAIN gw.queue /\ i + 1 > 1
        BY <3>1
      <4>2. \A j \in 1..Len(gw.queue) - 1 : i < j => j + 1 \in DOMAIN gw.queue /\ i + 1 < j + 1
        BY <3>1
      <4> QED BY <1>7, <4>1, <4>2 DEF P2PProofInv, Downlinks
    <3>3. gw'.queue # <<>> => 1 \in DOMAIN gw'.queue /\ gw'.queue[1].ctr = 0 /\ gw'.queue[1].id \notin Done
      <4> SUFFICES ASSUME gw'.queue # <<>>
                   PROVE  1 \in DOMAIN gw'.queue /\ gw'.queue[1].ctr = 0 /\ gw'.queue[1].id \notin Done
        OBVIOUS
      <4>1. 1 \in 1..Len(gw.queue) - 1 /\ 2 \in DOMAIN gw.queue /\ gw'.queue[1] = gw.queue[2]
        <5>1. gw'.queue \in Seq(Item)
          BY <1>7 DEF Gateways
        <5>2. 1 \in DOMAIN gw'.queue
          BY <5>1
        <5> QED BY <3>1, <5>2
      <4>2. \A d \in Done : d >= gw.queue[1].id
        BY <1>5 DEF P2PProofInv, Downlinks
      <4>3. gw.queue[1].id > gw.queue[2].id /\ gw.queue[1].id \in Nat /\ gw.queue[2].id \in Nat
        BY <1>2, <1>5, <4>1, GatewayIs, SMTT(30) DEF P2PProofInv, Downlinks
      <4>4. gw.queue[2].id \notin Done
        BY <4>2, <4>3
      <4> QED BY <3>1, <3>2, <4>1, <4>4
    <3>4. gw'.acked \subseteq Done /\ 0 \notin gw'.acked
      BY <1>5, <1>6, <2>3 DEF P2PProofInv, Downlinks
    <3> QED BY <1>1, <1>2, <1>3, <1>7, <2>1, <3>2, <3>3, <3>4 DEF P2PProofInv, Downlinks
  <2> QED BY <1>1, <2>2, <2>3
<1> QED BY <1>8, <1>9, <1>10, <1>11 DEF P2PProofInv

-----------------------------------------------------------------------------
(* The end of an exchange *)

\* What an exchange delivers has the types of the session's records.
LEMMA DeliveredIs ==
  ASSUME Types, NEW c \in Controls, NEW a \in Waits, NEW d \in Nat, DeliverXfer(c, a, d)
  PROVE  /\ link' \in {"paired", "joining", "idle"} /\ lane' \in Nat /\ retx' \in Retxs
         /\ ctrl' \in Controls /\ answers' \in Waits /\ drains' \in Nat
         /\ taken' = (IF x.dl = 0 THEN taken ELSE Append(taken, x.dl))
         /\ link' = "paired" => link = "paired" /\ lane' = lane
<1> DEFINE more == TailAsks(c, d)
           due == [more EXCEPT !.due = @ \/ (x.kind = "ctrl" /\ more.bits # {})]
           t == TailAnswers(a)
<1>1. /\ Delivered(x.what, due, t) /\ taken' = (IF x.dl = 0 THEN taken ELSE Append(taken, x.dl))
      /\ drains' = IF x.what = "detach" THEN 0 ELSE d
  BY DEF DeliverXfer
<1>2. more \in Controls
  <2>1. Asked(c, {"drain"}) \in Controls
    BY Zenon DEF Asked, Controls, Requests
  <2> QED BY <2>1 DEF TailAsks
<1> HIDE DEF more
<1>3. due \in Controls
  BY <1>2, Zenon DEF Controls
<1>4. t \in Waits
  BY Zenon DEF TailAnswers, Waits
<1> HIDE DEF due, t
<1>5. /\ Asked(due, {"status"}) \in Controls /\ [due EXCEPT !.bits = {}, !.tries = 0] \in Controls
      /\ SessionReset(t) \in Waits
  <2>1. Asked(due, {"status"}) \in Controls
    <3>1. {"status"} \subseteq Requests
      BY DEF Requests
    <3> QED BY <1>3, <3>1 DEF Asked, Controls
  <2>2. [due EXCEPT !.bits = {}, !.tries = 0] \in Controls
    <3>1. 0 \in 0..CtrlTries - 1 /\ {} \in SUBSET Requests
      BY ConstantsAreNumbers
    <3> QED BY <1>3, <3>1 DEF Controls
  <2>3. t.wanted \in BOOLEAN
    BY <1>4 DEF Waits
  <2>4. SessionReset(t) \in Waits
    BY <2>3, FirstRecords DEF SessionReset, Waits
  <2> QED BY <2>1, <2>2, <2>4
<1>6. link \in {"paired", "joining", "idle"} /\ lane \in Nat /\ retx \in Retxs
  BY DEF Types
<1>7. CASE x.what = "detach"
  BY <1>1, <1>5, <1>6, <1>7, FirstRecords DEF Delivered
<1>8. CASE x.what = "status"
  BY <1>1, <1>4, <1>5, <1>6, <1>8 DEF Delivered
<1>9. CASE x.what \notin {"detach", "status"}
  <2>1. ctrl' = due /\ answers' = t /\ UNCHANGED <<lane, retx>> /\ link' = IF x.what = "rejoin" THEN "joining" ELSE link
    BY <1>1, <1>9 DEF Delivered
  <2> QED BY <1>1, <1>3, <1>4, <1>6, <1>9, <2>1
<1> QED BY <1>7, <1>8, <1>9

\* The downlink of the exchange is delivered with it.
LEMMA EndKeepsDownlinks ==
  ASSUME P2PProofInv, x' = Idle, UNCHANGED <<gw, script>>,
         link' = "paired" => link = "paired" /\ lane' = lane,
         taken' = (IF x.dl = 0 THEN taken ELSE Append(taken, x.dl))
  PROVE  Downlinks' /\ taken' \in Seq(Nat)
<1>1. x.dl \in Nat /\ taken \in Seq(Nat)
  BY DEF P2PProofInv, Types, Exchanges
<1>2. x'.dl = 0 /\ x'.stage = "idle"
  BY FirstRecords
<1>3. Falls(taken) /\ (x.dl # 0 => \A t \in ToSet(taken) : t > x.dl)
  BY DEF P2PProofInv, Downlinks
<1>4. taken' \in Seq(Nat) /\ ToSet(taken') = ToSet(taken) \union ({x.dl} \ {0}) /\ Falls(taken')
  <2>1. CASE x.dl = 0
    BY <1>1, <1>3, <2>1
  <2>2. CASE x.dl # 0
    BY <1>1, <1>3, <2>2, AppendedIs
  <2> QED BY <2>1, <2>2
<1>5. Done' = Done
  BY <1>2, <1>4 DEF Done
<1>6. Falls(taken)'
  BY <1>4 DEF Falls
<1> QED BY <1>2, <1>4, <1>5, <1>6 DEF P2PProofInv, Downlinks

\* A frame in hand is not the number 0, and the gateway has no such number.
LEMMA NoFrameIsNotHeard ==
  ASSUME P2PProofInv, x' = Idle, app' = NoFrame, UNCHANGED <<gw, script>>
  PROVE  Uplinks'
<1>1. script \in Seq(Steps) /\ gw.got \in Seq(Nat)
  BY GatewayIs DEF P2PProofInv, Types
<1>2. 0 \notin ToSet(gw.got)
  <2>1. Len(script) \in Nat
    BY <1>1
  <2> QED BY <2>1 DEF P2PProofInv, Uplinks
<1> QED BY <1>2, FirstRecords DEF P2PProofInv, Uplinks, FrameHeard

LEMMA AppEndKeeps ==
  ASSUME P2PProofInv, AppEnd
  PROVE  P2PProofInv'
<1>1. /\ x.stage = "end" /\ x.kind = "app" /\ x' = Idle /\ UNCHANGED <<fcnt, gw, script>>
      /\ Types /\ app \in Apps
  BY DEF AppEnd, P2PProofInv, Types
<1>2. Places'
  BY <1>1, FirstRecords DEF Places
<1>3. CASE x.acked
  <2>1. DeliverXfer(ctrl, answers, 0) /\ app' = NoFrame
    BY <1>3 DEF AppEnd
  <2>2. ctrl \in Controls /\ answers \in Waits /\ 0 \in Nat
    BY DEF P2PProofInv, Types
  <2>3. /\ link' \in {"paired", "joining", "idle"} /\ lane' \in Nat /\ retx' \in Retxs
        /\ ctrl' \in Controls /\ answers' \in Waits /\ drains' \in Nat
        /\ taken' = (IF x.dl = 0 THEN taken ELSE Append(taken, x.dl))
        /\ link' = "paired" => link = "paired" /\ lane' = lane
    BY <1>1, <2>1, <2>2, DeliveredIs
  <2>4. Downlinks' /\ taken' \in Seq(Nat)
    BY <1>1, <2>3, EndKeepsDownlinks
  <2>5. Uplinks'
    BY <1>1, <2>1, NoFrameIsNotHeard
  <2>6. Types'
    BY <1>1, <2>1, <2>3, <2>4, FirstRecords DEF Types
  <2> QED BY <1>2, <2>4, <2>5, <2>6 DEF P2PProofInv
<1>4. CASE ~x.acked
  <2>1. /\ drains' = (IF x.sent > 0 THEN 0 ELSE drains) /\ app' = (IF x.sent > 0 THEN Retried(app) ELSE app)
        /\ UNCHANGED <<link, lane, retx, ctrl, answers, taken>> /\ x.dl = 0
    BY <1>1, <1>4 DEF AppEnd, P2PProofInv, Places
  <2>2. Downlinks'
    BY <1>1, <2>1, EndKeepsDownlinks
  <2>3. app' = NoFrame \/ (app' \in Apps /\ app'.id = app.id /\ app'.confirmed = app.confirmed
                           /\ ((x.sent > 0 /\ app.confirmed /\ app'.tries > 0) \/ (~(x.sent > 0) /\ app' = app)))
    <3>1. CASE x.sent > 0 /\ app.confirmed /\ app.tries < AckRetries
      <4>1. app' = [app EXCEPT !.tries = @ + 1]
        BY <2>1, <3>1 DEF Retried
      <4>2. app.tries \in 0..AckRetries /\ app.tries + 1 \in 0..AckRetries /\ app.tries + 1 > 0
        BY <1>1, <3>1, ConstantsAreNumbers DEF Apps
      <4> QED BY <1>1, <3>1, <4>1, <4>2 DEF Apps
    <3>2. CASE x.sent > 0 /\ ~(app.confirmed /\ app.tries < AckRetries)
      BY <2>1, <3>2 DEF Retried
    <3>3. CASE ~(x.sent > 0)
      BY <1>1, <2>1, <3>3
    <3> QED BY <3>1, <3>2, <3>3
  <2>4. app' \in Apps
    BY <2>3, FirstRecords
  <2>5. Types'
    BY <1>1, <2>1, <2>4, FirstRecords DEF Types
  <2>6. Uplinks'
    <3>1. CASE app' = NoFrame
      BY <1>1, <3>1, NoFrameIsNotHeard
    <3>2. CASE app' # NoFrame
      <4>1. app'.id = app.id /\ app'.confirmed = app.confirmed /\ (~app'.confirmed => app'.tries = 0)
        BY <2>3, <3>2 DEF P2PProofInv, Uplinks
      <4>2. FrameHeard => /\ gw.heard >= fcnt /\ app'.tries > 0
                          /\ (app.confirmed => retx = [valid |-> TRUE, counter |-> fcnt, id |-> app.id])
        BY <1>4, <2>3, <3>2 DEF P2PProofInv, Uplinks
      <4>3. FrameHeard' <=> FrameHeard
        BY <1>1, <4>1 DEF FrameHeard
      <4>4. ~x'.acked /\ x'.stage = "idle"
        BY <1>1, FirstRecords
      <4> QED BY <1>1, <2>1, <4>1, <4>2, <4>3, <4>4 DEF P2PProofInv, Uplinks
    <3> QED BY <3>1, <3>2
  <2> QED BY <1>2, <2>2, <2>5, <2>6 DEF P2PProofInv
<1> QED BY <1>3, <1>4

LEMMA CtrlEndKeeps ==
  ASSUME P2PProofInv, CtrlEnd
  PROVE  P2PProofInv'
<1>1. /\ x.stage = "end" /\ x.kind = "ctrl" /\ x' = Idle /\ UNCHANGED <<fcnt, app, gw, script>>
      /\ Types /\ x \in Exchanges /\ ctrl \in Controls /\ answers \in Waits /\ drains \in Nat
  BY DEF CtrlEnd, P2PProofInv, Types
<1>2. Places'
  BY <1>1, FirstRecords DEF Places
<1>3. Uplinks'
  <2>1. ~FrameHeard
    BY <1>1 DEF P2PProofInv, Uplinks
  <2> QED BY <1>1, <2>1 DEF P2PProofInv, Uplinks, FrameHeard
<1>4. CASE x.acked
  <2> DEFINE d == IF "drain" \in x.bits THEN drains + 1 ELSE drains
             c == [ctrl EXCEPT !.bits = @ \ x.bits, !.tries = 0]
             a == CtrlSent(answers)
  <2>1. DeliverXfer(c, a, d)
    BY <1>4 DEF CtrlEnd
  <2>2. d \in Nat
    BY <1>1
  <2>3. c \in Controls
    <3>1. 0 \in 0..CtrlTries - 1 /\ ctrl.bits \ x.bits \in SUBSET Requests
      BY <1>1, ConstantsAreNumbers DEF Controls
    <3> QED BY <1>1, <3>1 DEF Controls
  <2>4. a \in Waits
    <3>1. (IF x.bits \intersect {"check", "time"} # {} THEN 0 ELSE answers.reports) \in Nat
      BY <1>1 DEF Waits
    <3> QED BY <1>1, <3>1, Zenon DEF CtrlSent, Waits
  <2> HIDE DEF a, c, d
  <2>5. /\ link' \in {"paired", "joining", "idle"} /\ lane' \in Nat /\ retx' \in Retxs
        /\ ctrl' \in Controls /\ answers' \in Waits /\ drains' \in Nat
        /\ taken' = (IF x.dl = 0 THEN taken ELSE Append(taken, x.dl))
        /\ link' = "paired" => link = "paired" /\ lane' = lane
    BY <1>1, <2>1, <2>2, <2>3, <2>4, DeliveredIs
  <2>6. Downlinks' /\ taken' \in Seq(Nat)
    BY <1>1, <2>5, EndKeepsDownlinks
  <2>7. Types'
    BY <1>1, <2>5, <2>6, FirstRecords DEF Types
  <2> QED BY <1>2, <1>3, <2>6, <2>7 DEF P2PProofInv
<1>5. CASE ~x.acked
  <2>1. ctrl' = CtrlFailed(ctrl) /\ UNCHANGED <<link, lane, retx, answers, drains, taken>> /\ x.dl = 0
    BY <1>1, <1>5 DEF CtrlEnd, P2PProofInv, Places
  <2>2. CtrlFailed(ctrl) \in Controls
    <3>1. CASE ctrl.tries + 1 < CtrlTries
      <4>1. ctrl.tries + 1 \in 0..CtrlTries - 1
        BY <1>1, <3>1, ConstantsAreNumbers DEF Controls
      <4> QED BY <1>1, <3>1, <4>1 DEF CtrlFailed, Controls
    <3>2. CASE ~(ctrl.tries + 1 < CtrlTries)
      <4>1. 0 \in 0..CtrlTries - 1 /\ ctrl.bits \ x.bits \in SUBSET Requests
        BY <1>1, ConstantsAreNumbers DEF Controls
      <4> QED BY <1>1, <3>2, <4>1 DEF CtrlFailed, Dropped, Controls
    <3> QED BY <3>1, <3>2
  <2>3. Downlinks'
    BY <1>1, <2>1, EndKeepsDownlinks
  <2>4. Types'
    BY <1>1, <2>1, <2>2, FirstRecords DEF Types
  <2> QED BY <1>2, <1>3, <2>3, <2>4 DEF P2PProofInv
<1> QED BY <1>4, <1>5

-----------------------------------------------------------------------------
(* What begins an exchange *)

\* A frame taken from the script has a number nobody has seen.
LEMMA SendFrameKeeps ==
  ASSUME P2PProofInv, SendFrame
  PROVE  P2PProofInv'
<1> DEFINE kind == Head(script)
           id == Len(script)
           sure == kind # "unconfirmed"
<1>1. /\ link = "paired" /\ x.stage = "idle" /\ x = Idle /\ script # <<>> /\ script \in Seq(Steps) /\ Types
      /\ kind \in Frames /\ app' = [id |-> id, tries |-> 0, confirmed |-> sure]
      /\ Exchange("app", id, {}, sure, FALSE)
      /\ script' = Tail(script) /\ UNCHANGED <<link, lane, drains, gw, taken>>
  BY DEF SendFrame, P2PProofInv, Types, Places
<1>2. id \in Nat /\ id > 0 /\ script' \in Seq(Steps) /\ Len(script') = id - 1
  BY <1>1, HeadTailProperties
<1> HIDE DEF id, kind
<1>3. /\ x' \in Exchanges /\ (x'.stage = "send" => x'.n < Reps) /\ x'.sent = x'.n
      /\ fcnt' \in 0..MaxCounter /\ retx' \in Retxs
      /\ x'.kind = "app" /\ x'.dl = 0 /\ x'.sent = 0 /\ ~x'.acked
      /\ \/ x'.stage = "end"
         \/ /\ x'.stage = "send" /\ x'.counter = fcnt'
            /\ sure => retx' = [valid |-> TRUE, counter |-> fcnt', id |-> id]
  <2>1. sure \in BOOLEAN /\ FALSE \in BOOLEAN /\ {} \in SUBSET Requests /\ "app" \in {"app", "ctrl"}
    OBVIOUS
  <2> HIDE DEF sure
  <2> QED BY <1>1, <1>2, <2>1, Begun
<1>4. ctrl' \in Controls /\ answers' \in Waits
  <2>1. ctrl \in Controls /\ answers \in Waits
    BY <1>1 DEF Types
  <2>2. Asked(ctrl, {"check"}) \in Controls
    <3>1. {"check"} \subseteq Requests
      BY DEF Requests
    <3> QED BY <2>1, <3>1 DEF Asked, Controls
  <2>3. AnswerFetchCount(answers) \in Waits
    <3>1. answers.reports + 1 \in Nat /\ (answers.check /\ answers.reports < AnswerReports) \in BOOLEAN
      BY <2>1 DEF Waits
    <3> QED BY <2>1, <3>1 DEF AnswerFetchCount, Waits
  <2> QED BY <2>1, <2>2, <2>3 DEF SendFrame
<1>5. app' \in Apps /\ app'.id = id /\ app'.tries = 0 /\ app'.confirmed = sure
  BY <1>1, <1>2, ConstantsAreNumbers DEF Apps
<1>6. Types'
  BY <1>1, <1>2, <1>3, <1>4, <1>5 DEF Types
<1>7. Places'
  <2>0. app'.confirmed => sure
    BY <1>5, Zenon
  <2>1. app'.id # 0 /\ (app'.confirmed => sure)
    BY <1>2, <1>5, <2>0
  <2>2. x'.stage \in {"send", "end"}
    BY <1>3
  <2>3. x'.stage = "send" /\ app'.confirmed => retx' = [valid |-> TRUE, counter |-> fcnt', id |-> app'.id]
    BY <1>3, <1>5, <2>1
  <2> HIDE DEF sure
  <2> QED BY <1>1, <1>3, <2>1, <2>2, <2>3 DEF Places
<1>8. Uplinks'
  <2>1. \A g \in ToSet(gw.got) : g \in Nat /\ g > id
    <3>1. gw.got \in Seq(Nat)
      BY <1>1, GatewayIs DEF Types
    <3> QED BY <3>1 DEF P2PProofInv, Uplinks, ToSet, id
  <2>2. id \notin ToSet(gw.got)
    BY <1>2, <2>1
  <2>3. ~FrameHeard'
    BY <1>1, <1>5, <2>2 DEF FrameHeard
  <2>4. \A g \in ToSet(gw.got) : g > id - 1
    BY <1>2, <2>1
  <2> QED BY <1>1, <1>2, <1>5, <2>3, <2>4 DEF P2PProofInv, Uplinks
<1>9. Downlinks'
  <2>1. Done' = Done
    BY <1>1, <1>3, FirstRecords DEF Done
  <2>2. \A d \in Done : d \in Nat /\ d > id
    <3>1. taken \in Seq(Nat) /\ x.dl \in Nat
      BY <1>1 DEF Types, Exchanges
    <3> QED BY <3>1 DEF P2PProofInv, Downlinks, Done, ToSet, id
  <2>3. \A i \in DOMAIN gw.queue : gw.queue[i].id \in Nat /\ gw.queue[i].id > id
    BY <1>1, GatewayIs DEF P2PProofInv, Types, Downlinks, id
  <2>4. \A d \in Done : d > id - 1
    BY <1>2, <2>2
  <2>5. \A i \in DOMAIN gw.queue : gw.queue[i].id > id - 1
    BY <1>2, <2>3
  <2>6. x'.stage # "ack"
    BY <1>3
  <2> QED BY <1>1, <1>2, <1>3, <2>1, <2>4, <2>5, <2>6 DEF P2PProofInv, Downlinks
<1> QED BY <1>6, <1>7, <1>8, <1>9 DEF P2PProofInv

\* A frame the gateway has goes out under the counter the gateway knows.
LEMMA RetryFrameKeeps ==
  ASSUME P2PProofInv, RetryFrame
  PROVE  P2PProofInv'
<1> DEFINE again == app.tries > 0
<1>1. /\ link = "paired" /\ x.stage = "idle" /\ x = Idle /\ app.id # 0 /\ Types
      /\ Exchange("app", app.id, {}, app.confirmed, again)
      /\ UNCHANGED <<link, lane, ctrl, answers, drains, app, gw, taken, script>>
  BY DEF RetryFrame, P2PProofInv, Places
<1>0. again \in BOOLEAN /\ (again <=> app.tries > 0)
  OBVIOUS
<1> HIDE DEF again
<1>2. app.id \in Nat /\ app.confirmed \in BOOLEAN /\ app.tries \in Nat /\ fcnt \in Nat
  BY <1>1, ConstantsAreNumbers DEF Types, Apps
<1>3. /\ x' \in Exchanges /\ (x'.stage = "send" => x'.n < Reps) /\ x'.sent = x'.n
      /\ fcnt' \in 0..MaxCounter /\ retx' \in Retxs
      /\ x'.kind = "app" /\ x'.dl = 0 /\ x'.sent = 0 /\ ~x'.acked
      /\ \/ x'.stage = "end" /\ UNCHANGED <<fcnt, retx>>
         \/ /\ x'.stage = "send" /\ x'.counter = fcnt'
            /\ fcnt' = IF again /\ RetxCounter(app.id) THEN fcnt ELSE fcnt + 1
            /\ retx' = IF app.confirmed THEN [valid |-> TRUE, counter |-> fcnt', id |-> app.id] ELSE NoRetx
  <2>1. {} \in SUBSET Requests /\ "app" \in {"app", "ctrl"}
    OBVIOUS
  <2> QED BY <1>0, <1>1, <1>2, <2>1, Begun
<1>4. Types'
  BY <1>1, <1>3 DEF Types
<1>5. Places'
  BY <1>1, <1>3 DEF Places
<1>6. Uplinks'
  <2>1. FrameHeard' <=> FrameHeard
    BY <1>1 DEF FrameHeard
  <2>2. FrameHeard => app.tries > 0 /\ app.confirmed /\ gw.heard >= fcnt
                      /\ retx = [valid |-> TRUE, counter |-> fcnt, id |-> app.id]
    <3>1. ~x.acked /\ x.sent = 0
      BY <1>1, FirstRecords
    <3> QED BY <1>2, <3>1 DEF P2PProofInv, Uplinks
  <2>3. FrameHeard => fcnt' = fcnt /\ retx' = retx
    <3>1. SUFFICES ASSUME FrameHeard PROVE fcnt' = fcnt /\ retx' = retx
      OBVIOUS
    <3>2. retx.valid /\ retx.counter = fcnt /\ retx.id = app.id
      BY <2>2, <3>1
    <3>3. app.tries > 0 /\ RetxCounter(app.id)
      BY <2>2, <3>1, <3>2 DEF RetxCounter
    <3> QED BY <1>0, <1>3, <2>2, <3>1, <3>3
  <2> QED BY <1>1, <1>3, <2>1, <2>2, <2>3 DEF P2PProofInv, Uplinks
<1>7. Downlinks'
  <2>1. Done' = Done
    BY <1>1, <1>3, FirstRecords DEF Done
  <2> QED BY <1>1, <1>3, <2>1 DEF P2PProofInv, Downlinks
<1> QED BY <1>4, <1>5, <1>6, <1>7 DEF P2PProofInv

\* The control uplink has its own counter; no frame waits for a retry under the last one.
LEMMA CtrlSendKeeps ==
  ASSUME P2PProofInv, CtrlSend
  PROVE  P2PProofInv'
<1>1. /\ link = "paired" /\ x.stage = "idle" /\ x = Idle /\ ~(app.tries > 0) /\ Types
      /\ Exchange("ctrl", 0, ctrl.bits, TRUE, FALSE) /\ ctrl' = [ctrl EXCEPT !.due = FALSE]
      /\ UNCHANGED <<link, lane, answers, drains, app, gw, taken, script>>
  BY DEF CtrlSend, P2PProofInv, Places, AckPending
<1>2. ctrl \in Controls /\ ctrl.bits \in SUBSET Requests /\ ctrl' \in Controls
  <2>1. ctrl \in Controls
    BY <1>1 DEF Types
  <2> QED BY <1>1, <2>1 DEF Controls
<1>3. /\ x' \in Exchanges /\ (x'.stage = "send" => x'.n < Reps) /\ x'.sent = x'.n
      /\ fcnt' \in 0..MaxCounter /\ retx' \in Retxs
      /\ x'.kind = "ctrl" /\ x'.dl = 0 /\ x'.sent = 0 /\ ~x'.acked
      /\ \/ x'.stage = "end"
         \/ x'.stage = "send" /\ x'.counter = fcnt'
  <2>1. 0 \in Nat /\ TRUE \in BOOLEAN /\ FALSE \in BOOLEAN /\ "ctrl" \in {"app", "ctrl"}
    OBVIOUS
  <2> QED BY <1>1, <1>2, <2>1, Begun
<1>4. Types'
  BY <1>1, <1>2, <1>3 DEF Types
<1>5. Places'
  BY <1>1, <1>3 DEF Places
<1>6. Uplinks'
  <2>1. ~FrameHeard
    <3>1. ~x.acked /\ x.sent = 0
      BY <1>1, FirstRecords
    <3> QED BY <1>1, <3>1 DEF P2PProofInv, Uplinks
  <2>2. ~FrameHeard'
    BY <1>1, <2>1 DEF FrameHeard
  <2> QED BY <1>1, <2>2 DEF P2PProofInv, Uplinks
<1>7. Downlinks'
  <2>1. Done' = Done
    BY <1>1, <1>3, FirstRecords DEF Done
  <2> QED BY <1>1, <1>3, <2>1 DEF P2PProofInv, Downlinks
<1> QED BY <1>4, <1>5, <1>6, <1>7 DEF P2PProofInv

-----------------------------------------------------------------------------
(* The other threads, the gateway and the session *)

\* Steps that leave the exchange, the session's counters and the gateway alone.
LEMMA QuietStepsKeep ==
  ASSUME P2PProofInv, CtrlIdle \/ GiveUp \/ Rejoin
  PROVE  P2PProofInv'
<1>1. /\ x.stage = "idle" /\ x = Idle /\ x' = Idle /\ UNCHANGED <<fcnt, lane, retx, answers, drains, gw, taken, script>>
      /\ Types
  BY DEF CtrlIdle, GiveUp, Rejoin, node, P2PProofInv, Places
<1>2. Types'
  <2>1. ctrl \in Controls /\ [ctrl EXCEPT !.due = FALSE] \in Controls
    <3>1. ctrl \in Controls
      BY <1>1 DEF Types
    <3> QED BY <3>1 DEF Controls
  <2>2. ctrl' \in Controls
    BY <2>1 DEF CtrlIdle, GiveUp, Rejoin
  <2>3. app' \in Apps
    BY <1>1, FirstRecords DEF CtrlIdle, GiveUp, Rejoin, Types
  <2>4. link' \in {"paired", "joining", "idle"}
    BY <1>1 DEF CtrlIdle, GiveUp, Rejoin, Types
  <2> QED BY <1>1, <2>2, <2>3, <2>4 DEF Types
<1>3. Places'
  BY <1>1, FirstRecords DEF Places
<1>4. Uplinks'
  <2>1. CASE app' = NoFrame
    BY <1>1, <2>1, NoFrameIsNotHeard
  <2>2. CASE app' = app
    BY <1>1, <2>2 DEF P2PProofInv, Uplinks, FrameHeard
  <2> QED BY <2>1, <2>2 DEF CtrlIdle, GiveUp, Rejoin
<1>5. Downlinks'
  <2>1. Done' = Done
    BY <1>1 DEF Done
  <2>2. link' = "paired" => link = "paired"
    BY DEF CtrlIdle, GiveUp, Rejoin
  <2> QED BY <1>1, <2>1, <2>2 DEF P2PProofInv, Downlinks
<1> QED BY <1>2, <1>3, <1>4, <1>5 DEF P2PProofInv

\* The rest of the script has the smaller numbers.
LEMMA ScriptShrinks ==
  ASSUME P2PProofInv, script # <<>>, script' = Tail(script)
  PROVE  /\ script' \in Seq(Steps) /\ Len(script') \in Nat /\ Len(script) \in Nat /\ Len(script) > 0
         /\ Len(script') = Len(script) - 1
         /\ \A g \in ToSet(gw.got) : g > Len(script')
         /\ app.id # 0 => app.id > Len(script')
         /\ \A d \in Done : d > Len(script) /\ d > Len(script')
         /\ \A i \in DOMAIN gw.queue : gw.queue[i].id > Len(script) /\ gw.queue[i].id > Len(script')
<1>1. /\ script \in Seq(Steps) /\ gw.got \in Seq(Nat) /\ app.id \in Nat /\ taken \in Seq(Nat) /\ x.dl \in Nat
      /\ \A i \in DOMAIN gw.queue : gw.queue[i].id \in Nat
  BY GatewayIs DEF P2PProofInv, Types, Apps, Exchanges
<1>2. /\ script' \in Seq(Steps) /\ Len(script') \in Nat /\ Len(script) \in Nat /\ Len(script) > 0
      /\ Len(script') = Len(script) - 1
  BY <1>1, HeadTailProperties
<1>3. \A g \in ToSet(gw.got) : g \in Nat /\ g > Len(script)
  BY <1>1 DEF P2PProofInv, Uplinks, ToSet
<1>4. app.id # 0 => app.id > Len(script)
  BY DEF P2PProofInv, Uplinks
<1>5. \A d \in Done : d \in Nat /\ d > Len(script)
  BY <1>1 DEF P2PProofInv, Downlinks, Done, ToSet
<1>6. \A i \in DOMAIN gw.queue : gw.queue[i].id > Len(script)
  BY DEF P2PProofInv, Downlinks
<1> QED BY <1>1, <1>2, <1>3, <1>4, <1>5, <1>6

LEMMA TimeRequestKeeps ==
  ASSUME P2PProofInv, TimeRequest
  PROVE  P2PProofInv'
<1>1. /\ script # <<>> /\ script' = Tail(script) /\ answers' = [answers EXCEPT !.wanted = TRUE]
      /\ ctrl' = Asked(ctrl, {"time"}) /\ UNCHANGED <<link, fcnt, lane, retx, x, drains, app, gw, taken>>
  BY DEF TimeRequest, node
<1>2. Types'
  <2>1. ctrl \in Controls /\ answers \in Waits /\ {"time"} \subseteq Requests
    BY DEF P2PProofInv, Types, Requests
  <2>2. ctrl' \in Controls
    BY <1>1, <2>1 DEF Asked, Controls
  <2>3. answers' \in Waits
    BY <1>1, <2>1 DEF Waits
  <2>4. script' \in Seq(Steps)
    BY <1>1, ScriptShrinks
  <2> QED BY <1>1, <2>2, <2>3, <2>4 DEF P2PProofInv, Types
<1>3. Places'
  BY <1>1 DEF P2PProofInv, Places
<1>4. Uplinks'
  <2>1. (\A g \in ToSet(gw.got) : g > Len(script')) /\ (app.id # 0 => app.id > Len(script'))
    BY <1>1, ScriptShrinks
  <2> QED BY <1>1, <2>1 DEF P2PProofInv, Uplinks, FrameHeard
<1>5. Downlinks'
  <2>1. Done' = Done
    BY <1>1 DEF Done
  <2>2. (\A d \in Done : d > Len(script')) /\ \A i \in DOMAIN gw.queue : gw.queue[i].id > Len(script')
    BY <1>1, ScriptShrinks
  <2> QED BY <1>1, <2>1, <2>2 DEF P2PProofInv, Downlinks
<1> QED BY <1>2, <1>3, <1>4, <1>5 DEF P2PProofInv

\* A new downlink has the smallest number yet, and nobody has it.
LEMMA QueueKeeps ==
  ASSUME P2PProofInv, Queue
  PROVE  P2PProofInv'
<1> DEFINE e == [id |-> Len(script), what |-> Head(script), ctr |-> 0]
           g == [gw EXCEPT !.queue = Append(@, e)]
           n == Len(gw.queue)
<1>1. /\ script # <<>> /\ script' = Tail(script) /\ Head(script) \in Whats /\ gw' = g
      /\ UNCHANGED <<link, fcnt, lane, retx, x, ctrl, answers, drains, app, taken>>
  BY DEF Queue, node
<1>2. /\ script' \in Seq(Steps) /\ Len(script') \in Nat /\ Len(script) \in Nat /\ Len(script) > 0
      /\ Len(script') = Len(script) - 1
      /\ \A h \in ToSet(gw.got) : h > Len(script')
      /\ app.id # 0 => app.id > Len(script')
      /\ \A d \in Done : d > Len(script) /\ d > Len(script')
      /\ \A i \in DOMAIN gw.queue : gw.queue[i].id > Len(script) /\ gw.queue[i].id > Len(script')
  BY <1>1, ScriptShrinks
<1>3. gw \in Gateways /\ gw.queue \in Seq(Item) /\ n \in Nat /\ DOMAIN gw.queue = 1..n /\ gw.ctr \in Nat
  BY GatewayIs DEF P2PProofInv, Types
<1>4. e \in Item /\ e.id = Len(script) /\ e.ctr = 0
  BY <1>1, <1>2 DEF Item
<1> HIDE DEF e
<1>5. /\ Append(gw.queue, e) \in Seq(Item) /\ Len(Append(gw.queue, e)) = n + 1
      /\ \A i \in 1..n : Append(gw.queue, e)[i] = gw.queue[i]
      /\ Append(gw.queue, e)[n + 1] = e
  BY <1>3, <1>4, AppendProperties
<1>6. /\ g \in Gateways /\ g.ctr = gw.ctr /\ g.got = gw.got /\ g.heard = gw.heard /\ g.acked = gw.acked
      /\ g.queue = Append(gw.queue, e)
  BY <1>3, <1>5 DEF Gateways
<1> HIDE DEF g
<1>7. /\ DOMAIN gw'.queue = 1..n + 1 /\ gw'.queue # <<>>
      /\ \A i \in 1..n : gw'.queue[i] = gw.queue[i] /\ i \in DOMAIN gw.queue
      /\ gw'.queue[n + 1] = e
  <2>1. gw'.queue \in Seq(Item) /\ Len(gw'.queue) = n + 1
    BY <1>1, <1>5, <1>6
  <2>2. DOMAIN gw'.queue = 1..n + 1
    BY <2>1
  <2>3. gw'.queue # <<>>
    BY <1>3, <2>1
  <2> QED BY <1>1, <1>3, <1>5, <1>6, <2>2, <2>3
<1> HIDE DEF n
<1>8. Types'
  BY <1>1, <1>2, <1>6 DEF P2PProofInv, Types
<1>9. Places'
  BY <1>1, <1>7 DEF P2PProofInv, Places
<1>10. Uplinks'
  BY <1>1, <1>2, <1>6 DEF P2PProofInv, Uplinks, FrameHeard
<1>11. Downlinks'
  <2>1. Done' = Done
    BY <1>1 DEF Done
  <2>2. \A d \in Done : d \in Nat
    <3>1. taken \in Seq(Nat) /\ x.dl \in Nat
      BY DEF P2PProofInv, Types, Exchanges
    <3> QED BY <3>1 DEF Done, ToSet
  <2>3. ASSUME NEW i \in 1..n + 1
        PROVE  /\ gw'.queue[i].id > Len(script') /\ gw'.queue[i].ctr <= gw'.ctr
               /\ i > 1 => gw'.queue[i].ctr = 0
               /\ \A j \in 1..n + 1 : i < j => gw'.queue[i].id > gw'.queue[j].id
               /\ \A d \in Done : d >= gw'.queue[i].id
    <3>1. i \in 1..n \/ i = n + 1
      BY <1>3
    <3>2. CASE i = n + 1
      BY <1>1, <1>2, <1>3, <1>4, <1>6, <1>7, <2>2, <3>2
    <3>3. CASE i \in 1..n
      <4>1. gw'.queue[i] = gw.queue[i] /\ i \in DOMAIN gw.queue
        BY <1>7, <3>3
      <4>2. \A j \in 1..n + 1 : i < j => gw'.queue[i].id > gw'.queue[j].id
        <5> SUFFICES ASSUME NEW j \in 1..n + 1, i < j PROVE gw'.queue[i].id > gw'.queue[j].id
          OBVIOUS
        <5>1. CASE j = n + 1
          BY <1>2, <1>4, <1>7, <4>1, <5>1
        <5>2. CASE j # n + 1
          <6>1. j \in 1..n
            BY <1>3, <5>2
          <6>2. gw'.queue[j] = gw.queue[j] /\ j \in DOMAIN gw.queue
            BY <1>7, <6>1
          <6> QED BY <4>1, <6>2 DEF P2PProofInv, Downlinks
        <5> QED BY <5>1, <5>2
      <4>3. gw'.ctr = gw.ctr
        BY <1>1, <1>6
      <4> QED BY <1>2, <4>1, <4>2, <4>3 DEF P2PProofInv, Downlinks
    <3> QED BY <3>1, <3>2, <3>3
  <2>4. CASE gw.queue = <<>>
    <3>1. n = 0
      BY <1>3, <2>4 DEF n
    <3>2. gw'.queue[1] = e /\ e.ctr = 0 /\ e.id \notin Done
      BY <1>2, <1>4, <1>7, <2>2, <3>1
    <3>3. x.stage # "ack"
      BY <2>4 DEF P2PProofInv, Places
    <3> QED BY <1>1, <1>2, <1>6, <1>7, <2>1, <2>3, <3>2, <3>3 DEF P2PProofInv, Downlinks
  <2>5. CASE gw.queue # <<>>
    <3>1. 1 \in 1..n
      BY <1>3, <2>5 DEF n
    <3>2. gw'.queue[1] = gw.queue[1]
      BY <1>7, <3>1
    <3> QED BY <1>1, <1>2, <1>6, <1>7, <2>1, <2>3, <2>5, <3>2 DEF P2PProofInv, Downlinks
  <2> QED BY <2>4, <2>5
<1> QED BY <1>8, <1>9, <1>10, <1>11 DEF P2PProofInv

\* A new session starts with nothing taken and no downlink's counter given.
LEMMA JoinedKeeps ==
  ASSUME P2PProofInv, Joined
  PROVE  P2PProofInv'
<1> DEFINE q == [i \in DOMAIN gw.queue |-> [gw.queue[i] EXCEPT !.ctr = 0]]
<1>1. /\ x.stage = "idle" /\ x = Idle /\ link' = "paired" /\ fcnt' = 0 /\ lane' = 0 /\ retx' = NoRetx /\ drains' = 0
      /\ answers' = SessionReset(answers)
      /\ ctrl' = [bits |-> {"hello"} \union (IF answers.wanted THEN {"time"} ELSE {}), tries |-> 0, due |-> TRUE]
      /\ app' = [app EXCEPT !.tries = 0] /\ gw' = NewSession(gw) /\ taken' = <<>>
      /\ UNCHANGED <<x, script>>
  BY DEF Joined, P2PProofInv, Places
<1>2. /\ app \in Apps /\ answers \in Waits /\ gw \in Gateways /\ gw.queue \in Seq(Item) /\ Len(gw.queue) \in Nat
      /\ DOMAIN gw.queue = 1..Len(gw.queue)
      /\ \A i \in DOMAIN gw.queue : gw.queue[i] \in Item
  BY GatewayIs DEF P2PProofInv, Types
<1>3. /\ q \in Seq(Item) /\ DOMAIN q = DOMAIN gw.queue
      /\ \A i \in DOMAIN gw.queue : q[i].id = gw.queue[i].id /\ q[i].ctr = 0
  <2>1. \A i \in DOMAIN gw.queue : [gw.queue[i] EXCEPT !.ctr = 0] \in Item
    BY <1>2 DEF Item
  <2>2. q \in Seq(Item)
    BY <1>2, <2>1, IsASeq
  <2> QED BY <1>2, <2>1, <2>2 DEF Item
<1>4. gw' = [NewGateway EXCEPT !.queue = q]
  BY <1>1 DEF NewSession
<1> HIDE DEF q
<1>5. gw' \in Gateways /\ gw'.ctr = 0 /\ gw'.got = <<>> /\ gw'.acked = {} /\ gw'.queue = q /\ gw'.heard = 0
  BY <1>3, <1>4, FirstRecords DEF Gateways
<1>6. app' \in Apps /\ app'.id = app.id /\ app'.confirmed = app.confirmed /\ app'.tries = 0
  BY <1>1, <1>2, ConstantsAreNumbers DEF Apps
<1>7. Types'
  <2>1. answers' \in Waits
    <3>1. answers.wanted \in BOOLEAN
      BY <1>2 DEF Waits
    <3> QED BY <1>1, <3>1, FirstRecords DEF SessionReset, Waits
  <2>2. ctrl' \in Controls
    <3>1. {"hello"} \union (IF answers.wanted THEN {"time"} ELSE {}) \in SUBSET Requests
      BY DEF Requests
    <3>2. 0 \in 0..CtrlTries - 1
      BY ConstantsAreNumbers
    <3> QED BY <1>1, <3>1, <3>2 DEF Controls
  <2>3. 0 \in 0..MaxCounter /\ <<>> \in Seq(Nat)
    BY ConstantsAreNumbers
  <2> QED BY <1>1, <1>5, <1>6, <2>1, <2>2, <2>3, FirstRecords DEF P2PProofInv, Types
<1>8. ToSet(<<>>) = {} /\ IsInjective(<<>>)
  BY DEF ToSet, IsInjective
<1>9. Places'
  BY <1>1, FirstRecords DEF Places
<1>10. Uplinks'
  BY <1>1, <1>5, <1>6, <1>8 DEF P2PProofInv, Uplinks, FrameHeard
<1>11. Downlinks'
  <2>1. Done' = {} /\ Falls(<<>>)
    BY <1>1, <1>8, FirstRecords DEF Done, Falls
  <2>2. gw.queue = <<>> <=> q = <<>>
    BY <1>2, <1>3
  <2> QED BY <1>1, <1>3, <1>5, <1>8, <2>1, <2>2, FirstRecords DEF P2PProofInv, Downlinks
<1> QED BY <1>7, <1>9, <1>10, <1>11 DEF P2PProofInv

-----------------------------------------------------------------------------
(* The invariant *)

LEMMA InitIsProofInv ==
  ASSUME Init
  PROVE  P2PProofInv
<1>1. /\ link = "paired" /\ fcnt = 0 /\ lane = 0 /\ retx = NoRetx /\ x = Idle
      /\ ctrl = [bits |-> {"hello"}, tries |-> 0, due |-> TRUE]
      /\ answers = NoAnswers /\ drains = 0 /\ app = NoFrame
      /\ gw = NewGateway /\ taken = <<>> /\ script \in Scripts
  BY DEF Init
<1>2. script \in Seq(Steps) /\ Len(script) \in Nat
  BY <1>1, ScriptAssumption DEF Steps
<1>3. ToSet(<<>>) = {} /\ IsInjective(<<>>) /\ Falls(<<>>)
  BY DEF ToSet, IsInjective, Falls
<1>4. Types
  <2>1. 0 \in 0..MaxCounter /\ <<>> \in Seq(Nat) /\ 0 \in 0..CtrlTries - 1 /\ {"hello"} \in SUBSET Requests
    BY ConstantsAreNumbers DEF Requests
  <2>2. ctrl \in Controls
    BY <1>1, <2>1 DEF Controls
  <2> QED BY <1>1, <1>2, <2>1, <2>2, FirstRecords DEF Types
<1>5. Places
  BY <1>1, FirstRecords DEF Places
<1>6. Uplinks
  BY <1>1, <1>3, FirstRecords DEF Uplinks, FrameHeard
<1>7. Downlinks
  BY <1>1, <1>3, FirstRecords DEF Downlinks, Done
<1> QED BY <1>4, <1>5, <1>6, <1>7 DEF P2PProofInv

LEMMA StutterKeepsProofInv ==
  ASSUME P2PProofInv, UNCHANGED vars
  PROVE  P2PProofInv'
<1>1. UNCHANGED <<link, fcnt, lane, retx, x, ctrl, answers, drains, app, gw, taken, script>>
  BY DEF vars, node
<1>2. Types'
  BY <1>1 DEF P2PProofInv, Types
<1>3. Places'
  BY <1>1 DEF P2PProofInv, Places
<1>4. Uplinks'
  BY <1>1 DEF P2PProofInv, Uplinks, FrameHeard
<1>5. Downlinks'
  BY <1>1 DEF P2PProofInv, Downlinks, Done
<1> QED BY <1>2, <1>3, <1>4, <1>5 DEF P2PProofInv

LEMMA ProofInvIsInductive == P2PProofInv /\ [Next]_vars => P2PProofInv'
<1> SUFFICES ASSUME P2PProofInv, [Next]_vars PROVE P2PProofInv'
  OBVIOUS
<1>1. CASE TransmitFails \/ TransmitLost \/ AckLost \/ AutoAckHeld
  BY <1>1, LossesKeep
<1>2. CASE TransmitHeard
  BY <1>2, HeardKeeps
<1>3. CASE AckHeard
  BY <1>3, AckKeeps
<1>4. CASE DownlinkLost
  BY <1>4, DownlinkLostKeeps
<1>5. CASE DownlinkHeard
  BY <1>5, DownlinkHeardKeeps
<1>6. CASE AutoAck
  BY <1>6, AutoAckKeeps
<1>7. CASE AppEnd
  BY <1>7, AppEndKeeps
<1>8. CASE CtrlEnd
  BY <1>8, CtrlEndKeeps
<1>9. CASE SendFrame
  BY <1>9, SendFrameKeeps
<1>10. CASE RetryFrame
  BY <1>10, RetryFrameKeeps
<1>11. CASE CtrlSend
  BY <1>11, CtrlSendKeeps
<1>12. CASE CtrlIdle \/ GiveUp \/ Rejoin
  BY <1>12, QuietStepsKeep
<1>13. CASE TimeRequest
  BY <1>13, TimeRequestKeeps
<1>14. CASE Queue
  BY <1>14, QueueKeeps
<1>15. CASE Joined
  BY <1>15, JoinedKeeps
<1>16. CASE UNCHANGED vars
  BY <1>16, StutterKeepsProofInv
<1> QED BY <1>1, <1>2, <1>3, <1>4, <1>5, <1>6, <1>7, <1>8, <1>9, <1>10, <1>11, <1>12, <1>13, <1>14,
           <1>15, <1>16 DEF Next, Air, Ends, Begins

LEMMA ProofInvAlwaysHolds == Spec => []P2PProofInv
<1>1. Init => P2PProofInv
  BY InitIsProofInv
<1> QED BY <1>1, ProofInvIsInductive, PTL DEF Spec

-----------------------------------------------------------------------------
(* What holds of every run *)

\* However frames, ACKs and the node's own ACKs are lost, and however many retries, sessions
\* and control uplinks there are between: what the node delivers falls in the order it was
\* queued and has no repetitions, the gateway gets no uplink twice, and nothing the gateway
\* dropped as acknowledged is missing (retx_counter(), p2p_wait_ack(), p2p_wait_dl(),
\* p2p_auto_ack()).
THEOREM ConfirmedDeliveredOnce == Spec => []DeliveredOnce
<1>1. P2PProofInv => DeliveredOnce
  <2> SUFFICES ASSUME P2PProofInv PROVE DeliveredOnce
    OBVIOUS
  <2>1. InOrderOnce
    BY DEF P2PProofInv, Uplinks, Downlinks, InOrderOnce, Falls
  <2>2. AckedIsDelivered
    BY DEF P2PProofInv, Downlinks, Done, AckedIsDelivered
  <2> QED BY <2>1, <2>2 DEF DeliveredOnce
<1> QED BY <1>1, ProofInvAlwaysHolds, PTL

-----------------------------------------------------------------------------
(* Control requests, answers and drains *)

\* A drain is asked for only while one more is allowed; nobody asks while one is under way.
DrainsAreCounted ==
  /\ drains \in 0..DrainMax
  /\ "drain" \in ctrl.bits => drains < DrainMax
  /\ x.kind = "ctrl" => /\ "drain" \in x.bits => drains < DrainMax
                        /\ "drain" \in ctrl.bits => "drain" \in x.bits

\* What was asked while the control uplink is on the air has made it due again.
NewRequestsAreDue == x.kind = "ctrl" /\ ctrl.bits \ x.bits # {} => ctrl.due

ScriptIsLeft == \E s \in Scripts : IsSuffix(script, s)

ControlInv ==
  /\ x.kind = "ctrl" => x.stage # "idle"
  /\ DrainsAreCounted /\ NewRequestsAreDue /\ ControlIsDue /\ CheckIsGivenUp /\ ScriptIsLeft
LEMMA TailIsLeft ==
  ASSUME Types, ScriptIsLeft, script # <<>>, script' = Tail(script)
  PROVE  ScriptIsLeft'
<1>1. PICK s \in Scripts : IsSuffix(script, s)
  BY DEF ScriptIsLeft
<1> DEFINE n == Len(script)
           m == Len(s)
<1>2. script \in Seq(Steps) /\ s \in Seq(Steps) /\ n \in Nat /\ m \in Nat /\ n > 0
  BY ScriptAssumption, EmptySeq DEF Types, Steps
<1>3. /\ Len(Tail(script)) = n - 1 /\ \A i \in 1..n - 1 : Tail(script)[i] = script[i + 1]
      /\ Tail(script) \in Seq(Steps)
  BY <1>2
<1>4. n <= m /\ \A i \in 1..n : script[n - i + 1] = s[m - i + 1]
  <2>1. /\ Len(Reverse(script)) = n /\ \A i \in 1..n : Reverse(script)[i] = script[n - i + 1]
        /\ Len(Reverse(s)) = m /\ \A i \in 1..m : Reverse(s)[i] = s[m - i + 1]
    BY <1>2 DEF Reverse
  <2>2. n <= m /\ SubSeq(Reverse(script), 1, n) = SubSeq(Reverse(s), 1, n)
    BY <1>1, <2>1 DEF IsSuffix, IsPrefix
  <2>3. \A i \in 1..n : SubSeq(Reverse(script), 1, n)[i] = Reverse(script)[i]
    BY <1>2, <2>1
  <2>4. \A i \in 1..n : SubSeq(Reverse(s), 1, n)[i] = Reverse(s)[i]
    BY <1>2, <2>1, <2>2
  <2>5. \A i \in 1..n : i \in 1..m
    BY <1>2, <2>2
  <2> QED BY <2>1, <2>2, <2>3, <2>4, <2>5
<1>5. IsSuffix(Tail(script), s)
  <2> DEFINE t == Tail(script)
  <2>1. Len(t) = n - 1 /\ t \in Seq(Steps)
    BY <1>3
  <2>2. \A i \in 1..n - 1 : t[(n - 1) - i + 1] = s[m - i + 1]
    <3> SUFFICES ASSUME NEW i \in 1..n - 1 PROVE t[(n - 1) - i + 1] = s[m - i + 1]
      OBVIOUS
    <3>1. (n - 1) - i + 1 \in 1..n - 1 /\ i \in 1..n /\ ((n - 1) - i + 1) + 1 = n - i + 1
      BY <1>2
    <3> QED BY <1>3, <1>4, <3>1
  <2> HIDE DEF t
  <2>3. /\ Len(Reverse(t)) = n - 1 /\ \A i \in 1..n - 1 : Reverse(t)[i] = t[(n - 1) - i + 1]
        /\ Len(Reverse(s)) = m /\ \A i \in 1..m : Reverse(s)[i] = s[m - i + 1]
    BY <1>2, <2>1 DEF Reverse
  <2>4. \A i \in 1..n - 1 : i \in 1..m
    BY <1>2, <1>4
  <2>5. \A i \in 1..n - 1 : Reverse(t)[i] = Reverse(s)[i]
    BY <2>2, <2>3, <2>4
  <2>6. SubSeq(Reverse(t), 1, n - 1) = SubSeq(Reverse(s), 1, n - 1)
    BY <1>2, <1>4, <2>3, <2>5
  <2>7. n - 1 <= m
    BY <1>2, <1>4
  <2>8. IsPrefix(Reverse(t), Reverse(s))
    BY <2>3, <2>6, <2>7 DEF IsPrefix
  <2> QED BY <2>8 DEF IsSuffix, t
<1> QED BY <1>5 DEF ScriptIsLeft

\* On the air, nobody asks, answers or drains.
LEMMA AirKeepsControl ==
  ASSUME P2PProofInv, ControlInv, Air
  PROVE  ControlInv'
<1>1. x \in Exchanges
  BY DEF P2PProofInv, Types
<1>2. /\ x.stage # "idle" /\ x'.kind = x.kind /\ x'.bits = x.bits /\ x'.stage # "idle"
      /\ UNCHANGED <<link, ctrl, answers, drains, script>>
  <2>1. CASE TransmitFails \/ TransmitLost \/ TransmitHeard
    BY <1>1, <2>1 DEF TransmitFails, TransmitLost, TransmitHeard, NextRep, Sent, Exchanges
  <2>2. CASE AckLost \/ AckHeard
    BY <1>1, <2>2 DEF AckLost, AckHeard, NextRep, Exchanges
  <2>3. CASE DownlinkLost \/ DownlinkHeard
    BY <1>1, <2>3 DEF DownlinkLost, DownlinkHeard, Exchanges
  <2>4. CASE AutoAckHeld \/ AutoAck
    BY <1>1, <2>4 DEF AutoAckHeld, AutoAck, Exchanges
  <2> QED BY <2>1, <2>2, <2>3, <2>4 DEF Air
<1> QED BY <1>2 DEF ControlInv, DrainsAreCounted, NewRequestsAreDue, ControlIsDue, CheckIsGivenUp, ScriptIsLeft
\* What the tail and the downlink ask for is due at once; a drain only while one more is allowed.
LEMMA DeliveredControl ==
  ASSUME Types, NEW c \in Controls, NEW a \in Waits, NEW d \in 0..DrainMax, DeliverXfer(c, a, d),
         "drain" \in c.bits => d < DrainMax,
         a.check => a.reports <= AnswerReports,
         c.bits # {} /\ link = "paired" => c.due \/ x.kind = "ctrl"
  PROVE  /\ drains' \in 0..DrainMax /\ ("drain" \in ctrl'.bits => drains' < DrainMax)
         /\ answers'.check => answers'.reports <= AnswerReports
         /\ ctrl'.bits # {} /\ link' = "paired" => ctrl'.due
<1> DEFINE more == TailAsks(c, d)
           due == [more EXCEPT !.due = @ \/ (x.kind = "ctrl" /\ more.bits # {})]
           t == TailAnswers(a)
<1>0. DrainMax \in Nat /\ DrainMax > 0 /\ 0 \in 0..DrainMax
  BY ConstantsAreNumbers
<1>1. /\ Delivered(x.what, due, t)
      /\ drains' = IF x.what = "detach" THEN 0 ELSE d
  BY DEF DeliverXfer
<1>2. /\ more \in Controls /\ more.bits \subseteq c.bits \union {"drain"}
      /\ "drain" \in more.bits => d < DrainMax
      /\ more.bits # {} /\ link = "paired" => more.due \/ x.kind = "ctrl"
  <2>1. CASE "more" \in x.tail /\ MayDrain(d)
    <3>1. more = [c EXCEPT !.bits = c.bits \union {"drain"}, !.due = TRUE]
      BY <2>1 DEF TailAsks, Asked
    <3>2. more.bits = c.bits \union {"drain"} /\ more.due /\ more \in Controls
      BY <3>1 DEF Controls, Requests
    <3> HIDE DEF more
    <3> QED BY <2>1, <3>2 DEF MayDrain
  <2>2. CASE ~("more" \in x.tail /\ MayDrain(d))
    BY <2>2 DEF TailAsks
  <2> QED BY <2>1, <2>2
<1> HIDE DEF more
<1>3. due \in Controls /\ due.bits = more.bits /\ (due.bits # {} /\ link = "paired" => due.due)
  <2>1. due.bits = more.bits /\ due.due = (more.due \/ (x.kind = "ctrl" /\ more.bits # {}))
    BY <1>2 DEF Controls
  <2>2. due \in Controls
    BY <1>2, Zenon DEF Controls
  <2> HIDE DEF due
  <2> QED BY <1>2, <2>1, <2>2
<1>4. t.check => t.reports <= AnswerReports
  <2>1. t.reports = a.reports /\ (t.check = (a.check /\ "check" \notin x.tail))
    BY DEF TailAnswers, Waits
  <2> HIDE DEF t
  <2> QED BY <2>1
<1> HIDE DEF due, t
<1>5. CASE x.what = "detach"
  <2>1. /\ ctrl' = [due EXCEPT !.bits = {}, !.tries = 0] /\ answers' = SessionReset(t) /\ drains' = 0
    BY <1>1, <1>5 DEF Delivered
  <2>2. ctrl'.bits = {} /\ ~answers'.check
    BY <1>3, <2>1 DEF Controls, SessionReset, NoAnswers
  <2> QED BY <1>0, <2>1, <2>2
<1>6. CASE x.what = "status"
  <2>1. ctrl' = Asked(due, {"status"}) /\ answers' = t /\ drains' = d
    BY <1>1, <1>6 DEF Delivered
  <2>2. ctrl'.bits = due.bits \union {"status"} /\ ctrl'.due
    BY <1>3, <2>1 DEF Controls, Asked
  <2> QED BY <1>0, <1>2, <1>3, <1>4, <2>1, <2>2
<1>7. CASE x.what \notin {"detach", "status"}
  <2>1. ctrl' = due /\ answers' = t /\ drains' = d /\ link' = IF x.what = "rejoin" THEN "joining" ELSE link
    BY <1>1, <1>7 DEF Delivered
  <2> QED BY <1>0, <1>2, <1>3, <1>4, <2>1
<1> QED BY <1>5, <1>6, <1>7

LEMMA AppEndControl ==
  ASSUME P2PProofInv, ControlInv, AppEnd
  PROVE  ControlInv'
<1>1. /\ x.stage = "end" /\ x.kind = "app" /\ x' = Idle /\ UNCHANGED script /\ Types
      /\ ctrl \in Controls /\ answers \in Waits /\ x'.kind = "app"
  BY FirstRecords DEF AppEnd, P2PProofInv, Types
<1>2. DrainMax \in Nat /\ DrainMax > 0 /\ 0 \in 0..DrainMax
  BY ConstantsAreNumbers
<1>3. /\ drains' \in 0..DrainMax /\ ("drain" \in ctrl'.bits => drains' < DrainMax)
      /\ answers'.check => answers'.reports <= AnswerReports
      /\ ctrl'.bits # {} /\ link' = "paired" => ctrl'.due
  <2>1. CASE x.acked
    <3>1. DeliverXfer(ctrl, answers, 0)
      BY <2>1 DEF AppEnd
    <3>2. /\ "drain" \in ctrl.bits => 0 < DrainMax
          /\ answers.check => answers.reports <= AnswerReports
          /\ ctrl.bits # {} /\ link = "paired" => ctrl.due \/ x.kind = "ctrl"
      BY <1>2 DEF ControlInv, CheckIsGivenUp, ControlIsDue
    <3> QED BY <1>1, <1>2, <3>1, <3>2, DeliveredControl
  <2>2. CASE ~x.acked
    BY <1>1, <1>2, <2>2 DEF AppEnd, ControlInv, DrainsAreCounted, CheckIsGivenUp, ControlIsDue
  <2> QED BY <2>1, <2>2
<1> QED BY <1>1, <1>3
     DEF ControlInv, DrainsAreCounted, NewRequestsAreDue, ControlIsDue, CheckIsGivenUp, ScriptIsLeft

LEMMA CtrlEndControl ==
  ASSUME P2PProofInv, ControlInv, CtrlEnd
  PROVE  ControlInv'
<1>1. /\ x.stage = "end" /\ x.kind = "ctrl" /\ x' = Idle /\ UNCHANGED script /\ Types
      /\ ctrl \in Controls /\ answers \in Waits /\ x \in Exchanges /\ x'.kind = "app"
  BY FirstRecords DEF CtrlEnd, P2PProofInv, Types
<1>2. DrainMax \in Nat /\ DrainMax > 0 /\ 0 \in 0..DrainMax /\ AnswerReports \in Nat
  BY ConstantsAreNumbers
<1>3. /\ drains \in 0..DrainMax /\ ("drain" \in x.bits => drains < DrainMax)
      /\ "drain" \in ctrl.bits => "drain" \in x.bits /\ drains < DrainMax
      /\ ctrl.bits \ x.bits # {} => ctrl.due
      /\ answers.check => answers.reports <= AnswerReports
  BY <1>1 DEF ControlInv, DrainsAreCounted, NewRequestsAreDue, CheckIsGivenUp
<1>4. /\ drains' \in 0..DrainMax /\ ("drain" \in ctrl'.bits => drains' < DrainMax)
      /\ answers'.check => answers'.reports <= AnswerReports
      /\ ctrl'.bits # {} /\ link' = "paired" => ctrl'.due
  <2>1. CASE x.acked
    <3> DEFINE d == IF "drain" \in x.bits THEN drains + 1 ELSE drains
               c == [ctrl EXCEPT !.bits = @ \ x.bits, !.tries = 0]
               a == CtrlSent(answers)
    <3>1. DeliverXfer(c, a, d)
      BY <2>1 DEF CtrlEnd
    <3>2. d \in 0..DrainMax
      BY <1>2, <1>3
    <3>3. c \in Controls /\ c.bits = ctrl.bits \ x.bits
      <4>1. 0 \in 0..CtrlTries - 1 /\ ctrl.bits \ x.bits \in SUBSET Requests
        BY <1>1, ConstantsAreNumbers DEF Controls
      <4> QED BY <1>1, <4>1 DEF Controls
    <3>4. "drain" \notin c.bits
      BY <1>3, <3>3
    <3>5. a \in Waits /\ (a.check => a.reports <= AnswerReports)
      <4>1. (IF x.bits \intersect {"check", "time"} # {} THEN 0 ELSE answers.reports) \in Nat
        BY <1>1 DEF Waits
      <4>2. a \in Waits
        BY <1>1, <4>1, Zenon DEF CtrlSent, Waits
      <4>3. /\ a.check = (answers.check \/ "check" \in x.bits)
            /\ a.reports = IF x.bits \intersect {"check", "time"} # {} THEN 0 ELSE answers.reports
        BY <1>1 DEF CtrlSent, Waits
      <4> HIDE DEF a
      <4>4. CASE x.bits \intersect {"check", "time"} # {}
        BY <1>2, <4>2, <4>3, <4>4
      <4>5. CASE x.bits \intersect {"check", "time"} = {}
        <5>1. "check" \notin x.bits
          BY <4>5
        <5>2. a.reports = answers.reports /\ (a.check => answers.check)
          BY <4>3, <4>5, <5>1
        <5> QED BY <1>3, <4>2, <5>2
      <4> QED BY <4>4, <4>5
    <3> HIDE DEF a, c, d
    <3> QED BY <1>1, <3>1, <3>2, <3>3, <3>4, <3>5, DeliveredControl
  <2>2. CASE ~x.acked
    <3>1. ctrl' = CtrlFailed(ctrl) /\ UNCHANGED <<link, answers, drains>>
      BY <2>2 DEF CtrlEnd
    <3>2. CASE ctrl.tries + 1 < CtrlTries
      <4>1. ctrl'.bits = ctrl.bits /\ ctrl'.due
        BY <1>1, <3>1, <3>2 DEF CtrlFailed, Controls
      <4> QED BY <1>3, <3>1, <4>1
    <3>3. CASE ~(ctrl.tries + 1 < CtrlTries)
      <4>1. ctrl'.bits = ctrl.bits \ x.bits /\ ctrl'.due = ctrl.due
        BY <1>1, <3>1, <3>3 DEF CtrlFailed, Dropped, Controls
      <4> QED BY <1>3, <3>1, <4>1
    <3> QED BY <3>2, <3>3
  <2> QED BY <2>1, <2>2
<1> QED BY <1>1, <1>4
     DEF ControlInv, DrainsAreCounted, NewRequestsAreDue, ControlIsDue, CheckIsGivenUp, ScriptIsLeft
\* An exchange of app_radio leaves the requests alone; the check it carries is due at once.
LEMMA FrameControl ==
  ASSUME P2PProofInv, ControlInv, SendFrame \/ RetryFrame
  PROVE  ControlInv'
<1>1. /\ Types /\ x.stage = "idle" /\ x.kind = "app" /\ UNCHANGED <<link, drains>>
      /\ ctrl \in Controls /\ answers \in Waits
  BY FirstRecords DEF SendFrame, RetryFrame, P2PProofInv, Types, Places
<1>2. DrainMax \in Nat /\ AnswerReports \in Nat
  BY ConstantsAreNumbers
<1>3. x'.kind = "app"
  BY <1>1, FirstRecords DEF SendFrame, RetryFrame, Exchange, Exchanges
<1>4. ScriptIsLeft'
  <2>1. CASE SendFrame
    BY <1>1, <2>1, TailIsLeft DEF SendFrame, ControlInv
  <2>2. CASE RetryFrame
    BY <2>2 DEF RetryFrame, ControlInv, ScriptIsLeft
  <2> QED BY <2>1, <2>2
<1>5. CheckIsGivenUp'
  <2>1. answers' = answers \/ answers' = AnswerFetchCount(answers)
    BY DEF SendFrame, RetryFrame
  <2>2. AnswerFetchCount(answers).check => AnswerFetchCount(answers).reports <= AnswerReports
    <3>1. CASE Awaited(answers)
      <4>1. /\ AnswerFetchCount(answers).check = (answers.check /\ answers.reports < AnswerReports)
            /\ AnswerFetchCount(answers).reports = answers.reports + 1
        BY <1>1, <3>1 DEF AnswerFetchCount, Waits
      <4>2. answers.reports \in Nat
        BY <1>1 DEF Waits
      <4>3. answers.reports < AnswerReports => answers.reports + 1 <= AnswerReports
        BY <1>2, <4>2
      <4> QED BY <4>1, <4>3
    <3>2. CASE ~Awaited(answers)
      BY <3>2 DEF AnswerFetchCount, ControlInv, CheckIsGivenUp
    <3> QED BY <3>1, <3>2
  <2> QED BY <2>1, <2>2 DEF ControlInv, CheckIsGivenUp
<1>6. DrainsAreCounted' /\ ControlIsDue'
  <2>1. CASE ctrl' = ctrl
    BY <1>1, <1>3, <2>1 DEF ControlInv, DrainsAreCounted, ControlIsDue
  <2>2. CASE ctrl' = Asked(ctrl, {"check"})
    <3>1. ctrl'.bits = ctrl.bits \union {"check"} /\ ctrl'.due
      BY <1>1, <2>2 DEF Asked, Controls
    <3> QED BY <1>1, <1>3, <3>1 DEF ControlInv, DrainsAreCounted, ControlIsDue
  <2> QED BY <2>1, <2>2 DEF SendFrame, RetryFrame
<1> QED BY <1>3, <1>4, <1>5, <1>6 DEF ControlInv, NewRequestsAreDue

LEMMA CtrlSendControl ==
  ASSUME P2PProofInv, ControlInv, CtrlSend
  PROVE  ControlInv'
<1>1. /\ Types /\ ctrl \in Controls /\ UNCHANGED <<link, answers, drains, script>>
      /\ ctrl' = [ctrl EXCEPT !.due = FALSE] /\ Exchange("ctrl", 0, ctrl.bits, TRUE, FALSE)
  BY DEF CtrlSend, P2PProofInv, Types
<1>2. ctrl'.bits = ctrl.bits
  BY <1>1 DEF Controls
<1>3. x'.kind = "ctrl" /\ x'.bits = ctrl.bits /\ x'.stage # "idle"
  BY <1>1 DEF Exchange, Idle
<1> QED BY <1>1, <1>2, <1>3
     DEF ControlInv, DrainsAreCounted, NewRequestsAreDue, ControlIsDue, CheckIsGivenUp, ScriptIsLeft

\* Who asks makes the control work due.
LEMMA TimeRequestControl ==
  ASSUME P2PProofInv, ControlInv, TimeRequest
  PROVE  ControlInv'
<1>1. /\ Types /\ ctrl \in Controls /\ answers \in Waits /\ UNCHANGED <<link, x, drains>>
      /\ answers' = [answers EXCEPT !.wanted = TRUE] /\ ctrl' = Asked(ctrl, {"time"})
  BY DEF TimeRequest, P2PProofInv, Types
<1>2. ctrl'.bits = ctrl.bits \union {"time"} /\ ctrl'.due
  BY <1>1 DEF Asked, Controls
<1>3. answers'.check = answers.check /\ answers'.reports = answers.reports
  BY <1>1 DEF Waits
<1>4. ScriptIsLeft'
  BY <1>1, TailIsLeft DEF TimeRequest, ControlInv
<1> QED BY <1>1, <1>2, <1>3, <1>4
     DEF ControlInv, DrainsAreCounted, NewRequestsAreDue, ControlIsDue, CheckIsGivenUp

\* The control work stands still when it has nothing to send, or nobody to send to.
LEMMA QuietControl ==
  ASSUME P2PProofInv, ControlInv, CtrlIdle \/ GiveUp \/ Rejoin \/ Queue \/ UNCHANGED vars
  PROVE  ControlInv'
<1>1. Types /\ ctrl \in Controls
  BY DEF P2PProofInv, Types
<1>2. CASE CtrlIdle
  <2>1. x' = x /\ x.kind = "app" /\ UNCHANGED <<link, answers, drains, script>> /\ ctrl'.bits = ctrl.bits
        /\ (link # "paired" \/ ctrl.bits = {})
    BY <1>1, <1>2, FirstRecords DEF CtrlIdle, Controls, P2PProofInv, Places
  <2> QED BY <2>1
       DEF ControlInv, DrainsAreCounted, NewRequestsAreDue, ControlIsDue, CheckIsGivenUp, ScriptIsLeft
<1>3. CASE GiveUp \/ UNCHANGED vars
  <2>1. UNCHANGED <<link, x, ctrl, answers, drains, script>>
    BY <1>3 DEF GiveUp, vars
  <2> QED BY <2>1
       DEF ControlInv, DrainsAreCounted, NewRequestsAreDue, ControlIsDue, CheckIsGivenUp, ScriptIsLeft
<1>4. CASE Rejoin
  <2>1. link' = "joining" /\ UNCHANGED <<x, ctrl, answers, drains, script>>
    BY <1>4 DEF Rejoin
  <2> QED BY <2>1
       DEF ControlInv, DrainsAreCounted, NewRequestsAreDue, ControlIsDue, CheckIsGivenUp, ScriptIsLeft
<1>5. CASE Queue
  <2>1. UNCHANGED <<link, x, ctrl, answers, drains>> /\ ScriptIsLeft'
    BY <1>1, <1>5, TailIsLeft DEF Queue, ControlInv
  <2> QED BY <2>1 DEF ControlInv, DrainsAreCounted, NewRequestsAreDue, ControlIsDue, CheckIsGivenUp
<1> QED BY <1>2, <1>3, <1>4, <1>5

LEMMA JoinedControl ==
  ASSUME P2PProofInv, ControlInv, Joined
  PROVE  ControlInv'
<1>1. x' = x /\ x.kind = "app" /\ drains' = 0 /\ UNCHANGED script /\ ctrl'.due
      /\ "drain" \notin ctrl'.bits /\ answers' = SessionReset(answers)
  BY FirstRecords DEF Joined, P2PProofInv, Places
<1>2. DrainMax \in Nat /\ ~answers'.check
  BY <1>1, ConstantsAreNumbers DEF SessionReset, NoAnswers
<1> QED BY <1>1, <1>2
     DEF ControlInv, DrainsAreCounted, NewRequestsAreDue, ControlIsDue, CheckIsGivenUp, ScriptIsLeft

LEMMA InitIsControl == Init => ControlInv
<1> SUFFICES ASSUME Init PROVE ControlInv
  OBVIOUS
<1>1. /\ x = Idle /\ x.kind = "app" /\ ctrl = [bits |-> {"hello"}, tries |-> 0, due |-> TRUE]
      /\ ~answers.check /\ drains = 0 /\ script \in Scripts
  BY FirstRecords DEF Init, NoAnswers
<1>2. IsSuffix(script, script)
  BY DEF IsSuffix, IsPrefix
<1>3. DrainMax \in Nat
  BY ConstantsAreNumbers
<1> QED BY <1>1, <1>2, <1>3
     DEF ControlInv, DrainsAreCounted, NewRequestsAreDue, ControlIsDue, CheckIsGivenUp, ScriptIsLeft

LEMMA ControlInvIsInductive == P2PProofInv /\ ControlInv /\ [Next]_vars => ControlInv'
<1> SUFFICES ASSUME P2PProofInv, ControlInv, [Next]_vars PROVE ControlInv'
  OBVIOUS
<1>1. CASE Air
  BY <1>1, AirKeepsControl
<1>2. CASE AppEnd
  BY <1>2, AppEndControl
<1>3. CASE CtrlEnd
  BY <1>3, CtrlEndControl
<1>4. CASE SendFrame \/ RetryFrame
  BY <1>4, FrameControl
<1>5. CASE CtrlSend
  BY <1>5, CtrlSendControl
<1>6. CASE TimeRequest
  BY <1>6, TimeRequestControl
<1>7. CASE CtrlIdle \/ GiveUp \/ Rejoin \/ Queue \/ UNCHANGED vars
  BY <1>7, QuietControl
<1>8. CASE Joined
  BY <1>8, JoinedControl
<1> QED BY <1>1, <1>2, <1>3, <1>4, <1>5, <1>6, <1>7, <1>8 DEF Next, Ends, Begins

\* However control uplinks and answers are lost, and whatever is asked while one is on the air:
\* what is asked has the control work due or a control uplink under way, a link check that is
\* not answered is given up after AnswerReports reports, and no more than DrainMax drains go
\* out between two frames of the node (ctrl_request(), ctrl_work_handler(), ctrl_downlink(),
\* p2p_tx_report_flags()).
THEOREM ControlNeverStalls == Spec => []P2PInv
<1>1. P2PProofInv /\ ControlInv => P2PInv
  <2> SUFFICES ASSUME P2PProofInv, ControlInv PROVE P2PInv
    OBVIOUS
  <2>1. TypeOK
    BY DEF P2PProofInv, Types, ControlInv, DrainsAreCounted, ScriptIsLeft, TypeOK,
           Exchanges, Gateways, Retxs, Controls, Waits, Apps
  <2> QED BY <2>1 DEF P2PInv, ControlInv, DrainsAreCounted, DrainsAreBounded
<1> QED BY <1>1, InitIsControl, ControlInvIsInductive, ProofInvAlwaysHolds, PTL DEF Spec
=============================================================================
