------------------------------ MODULE P2PLink ------------------------------
(***************************************************************************)
(* The P2P data plane of app/src/app_radio_p2p.c: one exchange with the    *)
(* gateway (a frame and its repetitions, the ACK window, the downlink that *)
(* an ACK announces, the node's own ACK of it), the 0x91 control uplink,   *)
(* and what a delivered control list does.                                 *)
(*                                                                         *)
(* The radio work queue runs one exchange at a time; its steps are the     *)
(* transmissions and windows, and each of the four frames on the air may   *)
(* be lost.  Outside its windows the node hears nothing, so a late frame   *)
(* is a lost one.  The gateway is external: as the comments have it, it    *)
(* repeats a downlink under its counter until it is acknowledged, answers  *)
(* a repetition with a new ACK and delivers it no more.  app_radio is the  *)
(* frame in hand and its retries.  The join is P2PJoin's business: a       *)
(* session ends and another begins.                                        *)
(***************************************************************************)
EXTENDS Integers, Sequences, SequencesExt

CONSTANTS
  Scripts,       \* what an instance feeds in: frames, time requests, downlinks, in turn
  Reps,          \* P2P_REPS
  CtrlTries,     \* P2P_CTRL_TRIES
  AckRetries,    \* APP_RADIO_ACK_MAX_RETRIES
  DrainMax,      \* P2P_DRAIN_MAX
  AnswerReports, \* P2P_ANSWER_REPORTS_MAX
  MaxCounter     \* bound: counters of a session, the last one usable

ASSUME P2PLinkAssumption ==
  {Reps, CtrlTries, AckRetries, DrainMax, AnswerReports, MaxCounter} \subseteq Nat \ {0}

Whats == {"command", "status", "rejoin", "detach"}
Frames == {"report", "check", "answer", "unconfirmed"}
Requests == {"hello", "check", "time", "drain", "status"}

ASSUME ScriptAssumption == Scripts \subseteq Seq(Whats \union Frames \union {"time"})

VARIABLES
  link,      \* m_link_state and m_started: "paired", "joining", "idle"
  fcnt,      \* m_fcnt: the last counter taken
  lane,      \* m_gw_last
  retx,      \* m_retx: the confirmed app_radio frame sent last, and its counter
  x,         \* struct p2p_xfer of the exchange, and where it is
  ctrl,      \* m_ctrl_pending, m_ctrl_tries, m_ctrl_work
  answers,   \* m_lc_outstanding, m_answer_reports, m_time_req_valid, the time wanted
  drains,    \* m_drains
  app,       \* app_radio's frame in hand and its retry
  gw,        \* external: the gateway's counter, its queue, what it heard last and took
  taken,     \* the commands and control lists delivered in this session
  script     \* what is still to come; its length names the item

node == <<fcnt, lane, retx>>
vars == <<link, node, x, ctrl, answers, drains, app, gw, taken, script>>

Idle == [stage |-> "idle", kind |-> "app", bits |-> {}, counter |-> 0, n |-> 0, sent |-> 0,
         acked |-> FALSE, tail |-> {}, dl |-> 0, what |-> "none", owed |-> FALSE]
NoRetx == [valid |-> FALSE, counter |-> 0, id |-> 0]
NoFrame == [id |-> 0, tries |-> 0, confirmed |-> TRUE]
NoAnswers == [check |-> FALSE, reports |-> 0, time |-> FALSE, wanted |-> FALSE]
NewGateway == [ctr |-> 0, heard |-> 0, got |-> <<>>, queue |-> <<>>, acked |-> {}]

Stages == {"idle", "send", "reply", "dl", "ack", "end"}
Item == [id : Nat, what : Whats, ctr : Nat]

TypeOK ==
  /\ link \in {"paired", "joining", "idle"}
  /\ fcnt \in 0..MaxCounter /\ lane \in Nat
  /\ retx \in [valid : BOOLEAN, counter : 0..MaxCounter, id : Nat]
  /\ x \in [stage : Stages, kind : {"app", "ctrl"}, bits : SUBSET Requests,
            counter : 0..MaxCounter, n : 0..Reps, sent : 0..Reps, acked : BOOLEAN,
            tail : SUBSET {"check", "time", "more"}, dl : Nat, what : Whats \union {"none"},
            owed : BOOLEAN]
  /\ ctrl \in [bits : SUBSET Requests, tries : 0..CtrlTries - 1, due : BOOLEAN]
  /\ answers \in [check : BOOLEAN, reports : Nat, time : BOOLEAN, wanted : BOOLEAN]
  /\ drains \in 0..DrainMax
  /\ app \in [id : Nat, tries : 0..AckRetries, confirmed : BOOLEAN]
  /\ gw \in [ctr : Nat, heard : 0..MaxCounter, got : Seq(Nat), queue : Seq(Item),
             acked : SUBSET Nat]
  /\ taken \in Seq(Nat)
  /\ \E s \in Scripts : IsSuffix(script, s)

\* A boot with a stored pairing: mark_ready() has run.
Init ==
  /\ link = "paired" /\ fcnt = 0 /\ lane = 0 /\ retx = NoRetx /\ x = Idle
  /\ ctrl = [bits |-> {"hello"}, tries |-> 0, due |-> TRUE]
  /\ answers = NoAnswers /\ drains = 0 /\ app = NoFrame
  /\ gw = NewGateway /\ taken = <<>> /\ script \in Scripts

-----------------------------------------------------------------------------
(* An exchange *)

\* p2p_replay_check()
Verdict(last, c) == IF c = 0 \/ c < last THEN "replay" ELSE IF c = last THEN "repeat" ELSE "fresh"

\* retx_counter()
RetxCounter(id) == retx.valid /\ retx.id = id /\ fcnt = retx.counter

\* p2p_exchange() up to its first transmission.  No counter left: nothing is sent.
Exchange(kind, id, bits, confirmed, again) ==
  LET reuse == again /\ RetxCounter(id)
      c == IF reuse THEN retx.counter ELSE fcnt + 1
  IN IF ~reuse /\ fcnt = MaxCounter
       THEN /\ x' = [Idle EXCEPT !.stage = "end", !.kind = kind, !.bits = bits]
            /\ UNCHANGED <<fcnt, retx>>
       ELSE /\ x' = [Idle EXCEPT !.stage = "send", !.kind = kind, !.bits = bits, !.counter = c]
            /\ fcnt' = IF reuse THEN fcnt ELSE c
            /\ retx' = IF confirmed /\ kind = "app" THEN [valid |-> TRUE, counter |-> c, id |-> id]
                                                   ELSE NoRetx

Confirmed == x.kind = "ctrl" \/ app.confirmed
Sent == [x EXCEPT !.n = @ + 1, !.sent = @ + 1]
NextRep(y) == [y EXCEPT !.stage = IF y.n >= Reps \/ ~Confirmed THEN "end" ELSE "send"]

\* A repetition that the duty cycle holds, or a radio that fails.
TransmitFails ==
  /\ x.stage = "send" /\ x' = [x EXCEPT !.stage = "end"]
  /\ UNCHANGED <<link, node, ctrl, answers, drains, app, gw, taken, script>>

TransmitLost ==
  /\ x.stage = "send" /\ x' = NextRep(Sent)
  /\ UNCHANGED <<link, node, ctrl, answers, drains, app, gw, taken, script>>

\* external: the gateway takes a new counter's frame, and answers a confirmed one.
TransmitHeard ==
  /\ x.stage = "send"
  /\ gw' = IF x.counter > gw.heard
             THEN [gw EXCEPT !.heard = x.counter,
                             !.got = IF x.kind = "app" THEN Append(@, app.id) ELSE @]
             ELSE gw
  /\ x' = IF Confirmed THEN [Sent EXCEPT !.stage = "reply"] ELSE NextRep(Sent)
  /\ UNCHANGED <<link, node, ctrl, answers, drains, app, taken, script>>

\* external: what the ACK's tail may carry.
Tails ==
  LET more == IF Len(gw.queue) > 1 THEN {"more"} ELSE {}
  IN {more, more \union (x.bits \intersect {"check", "time"})}

AckLost ==
  /\ x.stage = "reply" /\ x' = NextRep(x)
  /\ gw' = [gw EXCEPT !.ctr = @ + 1]
  /\ UNCHANGED <<link, node, ctrl, answers, drains, app, taken, script>>

\* p2p_wait_ack(): a fresh ACK of the counter, which may announce a downlink.
AckHeard ==
  /\ x.stage = "reply"
  /\ gw' = [gw EXCEPT !.ctr = @ + 1]
  /\ Verdict(lane, gw'.ctr) = "fresh" /\ lane' = gw'.ctr
  /\ \E t \in Tails :
       x' = [x EXCEPT !.acked = TRUE, !.tail = t,
                      !.stage = IF gw.queue = <<>> THEN "end" ELSE "dl"]
  /\ UNCHANGED <<link, fcnt, retx, ctrl, answers, drains, app, taken, script>>

\* external: the gateway sends its first downlink, under the counter it has.
Downlink == gw.queue[1]
DownCounter == IF Downlink.ctr = 0 THEN gw.ctr + 1 ELSE Downlink.ctr
DownSent ==
  [gw EXCEPT !.ctr = IF Downlink.ctr = 0 THEN @ + 1 ELSE @, !.queue[1].ctr = DownCounter]

DownlinkLost ==
  /\ x.stage = "dl" /\ gw' = DownSent /\ x' = [x EXCEPT !.stage = "end"]
  /\ UNCHANGED <<link, node, ctrl, answers, drains, app, taken, script>>

\* Mutant: the lane is not looked at.
TakenAgain(v) == TRUE
\* The lane and the downlink are taken for a fresh frame only.
IsTaken(v) == v = "fresh"

Owed(v) == v # "replay"

\* p2p_wait_dl(): a replay is not heard, any other confirmed downlink is owed an ACK.
DownlinkHeard ==
  /\ x.stage = "dl" /\ gw' = DownSent
  /\ LET v == Verdict(lane, DownCounter)
     IN /\ lane' = IF IsTaken(v) THEN DownCounter ELSE lane
        /\ x' = [x EXCEPT !.stage = IF Owed(v) THEN "ack" ELSE "end",
                          !.owed = Owed(v),
                          !.dl = IF IsTaken(v) THEN Downlink.id ELSE 0,
                          !.what = IF IsTaken(v) THEN Downlink.what ELSE "none"]
  /\ UNCHANGED <<link, fcnt, retx, ctrl, answers, drains, app, taken, script>>

\* p2p_auto_ack(), held by the duty cycle or without a counter.
AutoAckHeld ==
  /\ x.stage = "ack" /\ x' = [x EXCEPT !.stage = "end"]
  /\ UNCHANGED <<link, node, ctrl, answers, drains, app, gw, taken, script>>

\* Sent under the node's next counter; external: the gateway drops what it acknowledges.
AutoAck ==
  /\ x.stage = "ack" /\ fcnt < MaxCounter
  /\ fcnt' = fcnt + 1 /\ x' = [x EXCEPT !.stage = "end"]
  /\ gw' \in {gw, [gw EXCEPT !.heard = fcnt', !.queue = Tail(@),
                             !.acked = @ \union {Downlink.id}]}
  /\ UNCHANGED <<link, lane, retx, ctrl, answers, drains, app, taken, script>>

-----------------------------------------------------------------------------
(* What an exchange delivers *)

\* ctrl_request(): on the record of the control uplink.
Asked(c, bits) == [c EXCEPT !.bits = @ \union bits, !.due = TRUE]

MayDrain(d) == d < DrainMax

\* ctrl_downlink() of an ACK's tail: on the control uplink, the answers and the drains.
TailAnswers(a) ==
  [a EXCEPT !.check = @ /\ "check" \notin x.tail,
            !.time = @ /\ "time" \notin x.tail,
            !.wanted = @ /\ ~("time" \in x.tail /\ a.time)]
TailAsks(c, d) ==
  IF "more" \in x.tail /\ MayDrain(d) THEN Asked(c, {"drain"}) ELSE c

-----------------------------------------------------------------------------
(* The session *)

\* session_reset()
SessionReset(a) == [NoAnswers EXCEPT !.wanted = a.wanted]
NewSession(g) ==
  [NewGateway EXCEPT !.queue = [i \in DOMAIN g.queue |-> [g.queue[i] EXCEPT !.ctr = 0]]]

\* A JoinAccept is persisted, and mark_ready() runs; external: the gateway starts anew.
Joined ==
  /\ link = "joining" /\ x.stage = "idle"
  /\ link' = "paired" /\ fcnt' = 0 /\ lane' = 0 /\ retx' = NoRetx /\ drains' = 0
  /\ answers' = SessionReset(answers)
  /\ ctrl' = [bits |-> {"hello"} \union (IF answers.wanted THEN {"time"} ELSE {}),
              tries |-> 0, due |-> TRUE]
  /\ app' = [app EXCEPT !.tries = 0]
  /\ gw' = NewSession(gw) /\ taken' = <<>>
  /\ UNCHANGED <<x, script>>

-----------------------------------------------------------------------------
(* The end of an exchange *)

\* ctrl_downlink() and p2p_deliver() of the downlink, after the tail's c and a.
Delivered(what, c, a) ==
  /\ link' = CASE what = "rejoin" -> "joining" [] what = "detach" -> "idle" [] OTHER -> link
  /\ CASE what = "detach" ->
            /\ ctrl' = [c EXCEPT !.bits = {}, !.tries = 0]
            /\ answers' = SessionReset(a) /\ lane' = 0 /\ retx' = NoRetx
       [] what = "status" ->
            ctrl' = Asked(c, {"status"}) /\ answers' = a /\ UNCHANGED <<lane, retx>>
       [] OTHER -> ctrl' = c /\ answers' = a /\ UNCHANGED <<lane, retx>>

\* p2p_deliver_xfer(), with the drains counted so far.
DeliverXfer(c, a, d) ==
  LET more == TailAsks(c, d)
      due  == [more EXCEPT !.due = @ \/ (x.kind = "ctrl" /\ more.bits # {})]
  IN /\ Delivered(x.what, due, TailAnswers(a))
     /\ taken' = IF x.dl = 0 THEN taken ELSE Append(taken, x.dl)
     /\ drains' = IF x.what = "detach" THEN 0 ELSE d

\* p2p_tx_send() returns: a frame without its ACK is retried, or given up.
Retried(a) ==
  IF a.confirmed /\ a.tries < AckRetries THEN [a EXCEPT !.tries = @ + 1] ELSE NoFrame

AppEnd ==
  /\ x.stage = "end" /\ x.kind = "app" /\ x' = Idle
  /\ IF x.acked
       THEN /\ DeliverXfer(ctrl, answers, 0)
            /\ app' = NoFrame
       ELSE /\ drains' = IF x.sent > 0 THEN 0 ELSE drains
            /\ app' = IF x.sent > 0 THEN Retried(app) ELSE app
            /\ UNCHANGED <<link, lane, retx, ctrl, answers, taken>>
  /\ UNCHANGED <<fcnt, gw, script>>

\* ctrl_sent()
CtrlSent(a) ==
  [a EXCEPT !.check = @ \/ "check" \in x.bits, !.time = @ \/ "time" \in x.bits,
            !.reports = IF x.bits \intersect {"check", "time"} # {} THEN 0 ELSE @]

\* Mutant: the tries run out and the requests stay, with nobody to send them.
GivesUpQuietly(c) == [c EXCEPT !.tries = 0, !.due = FALSE]
\* No ACK after the last try: the requests are dropped.
Dropped(c) == [c EXCEPT !.bits = @ \ x.bits, !.tries = 0]

\* ctrl_work_handler() without an ACK.
CtrlFailed(c) ==
  IF c.tries + 1 < CtrlTries THEN [c EXCEPT !.tries = @ + 1, !.due = TRUE] ELSE Dropped(c)

\* The rest of ctrl_work_handler(), the exchange over.
CtrlEnd ==
  /\ x.stage = "end" /\ x.kind = "ctrl" /\ x' = Idle
  /\ IF x.acked
       THEN LET d == IF "drain" \in x.bits THEN drains + 1 ELSE drains
            IN DeliverXfer([ctrl EXCEPT !.bits = @ \ x.bits, !.tries = 0], CtrlSent(answers), d)
       ELSE /\ ctrl' = CtrlFailed(ctrl)
            /\ UNCHANGED <<link, lane, retx, answers, drains, taken>>
  /\ UNCHANGED <<fcnt, app, gw, script>>

-----------------------------------------------------------------------------
(* The radio work queue begins an exchange *)

\* p2p_tx_report_flags(): an answer is awaited for so many reports.
Awaited(a) == (a.time /\ a.wanted) \/ a.check
\* Mutant: a lost LinkCheckAns stays outstanding.
WaitsOn(a) == IF Awaited(a) THEN [a EXCEPT !.reports = @ + 1] ELSE a
AnswerFetchCount(a) ==
  IF Awaited(a) THEN [a EXCEPT !.reports = @ + 1, !.check = @ /\ a.reports < AnswerReports]
                ELSE a

\* app_radio sends a new frame: a report, which may be the link check, another
\* confirmed frame, or one nobody acknowledges.
SendFrame ==
  /\ link = "paired" /\ x.stage = "idle" /\ app.id = 0 /\ script # <<>>
  /\ LET kind == Head(script)
         id   == Len(script)
         a    == IF kind \in {"report", "check"} THEN AnswerFetchCount(answers) ELSE answers
     IN /\ kind \in Frames
        /\ answers' = a
        /\ ctrl' = IF kind = "check" /\ ~a.check THEN Asked(ctrl, {"check"}) ELSE ctrl
        /\ app' = [id |-> id, tries |-> 0, confirmed |-> kind # "unconfirmed"]
        /\ Exchange("app", id, {}, kind # "unconfirmed", FALSE)
  /\ script' = Tail(script)
  /\ UNCHANGED <<link, lane, drains, gw, taken>>

\* ... or one that got no ACK, or found no air, again.
RetryFrame ==
  /\ link = "paired" /\ x.stage = "idle" /\ app.id # 0
  /\ Exchange("app", app.id, {}, app.confirmed, app.tries > 0)
  /\ UNCHANGED <<link, lane, ctrl, answers, drains, app, gw, taken, script>>

\* Given up by app_radio: a fault, its own retries.
GiveUp ==
  /\ x.stage = "idle" /\ app.id # 0 /\ app' = NoFrame
  /\ UNCHANGED <<link, node, x, ctrl, answers, drains, gw, taken, script>>

\* app_radio_ack_pending(): a confirmed frame waits for its retry.
AckPending == app.tries > 0

\* ctrl_work_handler(), with nothing to send; mark_ready() schedules it again.
CtrlIdle ==
  /\ ctrl.due /\ x.stage = "idle" /\ (link # "paired" \/ ctrl.bits = {})
  /\ ctrl' = [ctrl EXCEPT !.due = FALSE]
  /\ UNCHANGED <<link, node, x, answers, drains, app, gw, taken, script>>

\* While an ACK is pending, a backoff runs or the duty cycle holds, it stays due.
CtrlSend ==
  /\ ctrl.due /\ x.stage = "idle" /\ link = "paired" /\ ctrl.bits # {} /\ ~AckPending
  /\ ctrl' = [ctrl EXCEPT !.due = FALSE]
  /\ Exchange("ctrl", 0, ctrl.bits, TRUE, FALSE)
  /\ UNCHANGED <<link, lane, answers, drains, app, gw, taken, script>>

-----------------------------------------------------------------------------
(* Other threads, and the gateway *)

\* p2p_time_request()
TimeRequest ==
  /\ script # <<>> /\ Head(script) = "time" /\ script' = Tail(script)
  /\ answers' = [answers EXCEPT !.wanted = TRUE] /\ ctrl' = Asked(ctrl, {"time"})
  /\ UNCHANGED <<link, node, x, drains, app, gw, taken>>

\* external: the central queues the next downlink.
Queue ==
  /\ script # <<>> /\ Head(script) \in Whats /\ script' = Tail(script)
  /\ gw' = [gw EXCEPT !.queue =
              Append(@, [id |-> Len(script), what |-> Head(script), ctr |-> 0])]
  /\ UNCHANGED <<link, node, x, ctrl, answers, drains, app, taken>>

\* An operator's join after a Detach.
Rejoin ==
  /\ link = "idle" /\ x.stage = "idle" /\ link' = "joining"
  /\ UNCHANGED <<node, x, ctrl, answers, drains, app, gw, taken, script>>

-----------------------------------------------------------------------------
Air == TransmitFails \/ TransmitLost \/ TransmitHeard \/ AckLost \/ AckHeard
         \/ DownlinkLost \/ DownlinkHeard \/ AutoAckHeld \/ AutoAck
Ends == AppEnd \/ CtrlEnd
Begins == SendFrame \/ RetryFrame \/ CtrlIdle \/ CtrlSend
Next == Air \/ Ends \/ Begins \/ GiveUp \/ TimeRequest \/ Queue \/ Joined \/ Rejoin

Spec == Init /\ [][Next]_vars

\* An exchange goes on, the duty cycle does not hold for ever, a frame whose ACK is pending
\* is retried or given up, and the control work, which looks again by itself, gets a turn.
Fairness ==
  /\ WF_vars(Air) /\ WF_vars(Ends) /\ SF_vars(TransmitHeard \/ TransmitLost)
  /\ WF_vars(RetryFrame \/ GiveUp)
  /\ SF_vars(CtrlSend \/ CtrlIdle)

FairSpec == Spec /\ Fairness

-----------------------------------------------------------------------------
(* Properties *)

\* A session delivers a downlink once, and in the order it was queued (the script's
\* numbers fall); the gateway gets an uplink once, however often its ACKs are lost.
InOrderOnce ==
  /\ \A i, j \in DOMAIN taken : i < j => taken[i] > taken[j]
  /\ IsInjective(gw.got)

\* What the gateway dropped from its queue as acknowledged has been delivered, or is about
\* to be.
AckedIsDelivered == gw.acked \subseteq ToSet(taken) \union {x.dl}

\* Lost frames and lost ACKs neither repeat, reorder nor lose what is confirmed.
DeliveredOnce == InOrderOnce /\ AckedIsDelivered

\* Control requests wait for somebody who sends them.
ControlIsDue ==
  ctrl.bits # {} /\ link = "paired" => ctrl.due \/ (x.kind = "ctrl" /\ x.stage # "idle")

\* A LinkCheckAns that does not come is given up, and the next check asks again.
CheckIsGivenUp == answers.check => answers.reports <= AnswerReports

\* The node fetches at most DrainMax downlinks between two frames of its own.
DrainsAreBounded == drains <= DrainMax

\* No control traffic is forgotten, and none goes on for ever.
P2PInv == TypeOK /\ ControlIsDue /\ CheckIsGivenUp /\ DrainsAreBounded

\* A control request is sent or dropped, or its session ends (the bound's counters may run
\* out before).
RequestEnds ==
  \A b \in Requests :
    (b \in ctrl.bits /\ link = "paired") ~> (b \notin ctrl.bits \/ link # "paired" \/ fcnt = MaxCounter)

=============================================================================
