------------------------------ MODULE RadioTx ------------------------------
(***************************************************************************)
(* The uplink scheduler of app/src/app_radio.c: the answer and alarm       *)
(* queues, the frame in hand, the report, the history replay, the one slot *)
(* for a confirmed frame, and the two delayable work items m_tx_work and   *)
(* m_hist_work that run on the radio work queue.                           *)
(*                                                                         *)
(* A handler is two steps, before and after the backend's send(): the work *)
(* queue runs nothing else in between, but other threads queue, kick and   *)
(* request, and a P2P exchange delivers downlinks.  A timer may fire at    *)
(* any time after it is armed, the ledger may hold any frame, a backoff    *)
(* may end at any time.  -ENOTCONN is left out: tx_ready() was asked in    *)
(* the same run.  The announce and the clean-up of app_compose are         *)
(* elsewhere; an over-budget announce frame is only dropped here.          *)
(***************************************************************************)
EXTENDS Integers, Sequences

CONSTANTS
  Radios,      \* the radios an instance looks at: P2P (TRUE), LoRaWAN (FALSE)
  Confirmed,   \* of each, the kinds sent confirmed (confirm_kinds, radio-alarm-ack, report_flags)
  QueueDepth,  \* APP_RADIO_TX_QUEUE_DEPTH
  TxRetries,   \* of each, TX_MAX_RETRIES
  AckRetries,  \* APP_RADIO_ACK_MAX_RETRIES
  MaxPages,    \* of each, bound: frames of a report
  MaxReplay,   \* bound: frames of a replay
  MaxFrames    \* of each, bound: answers and alarms queued in a run

Kinds == {"answer", "alarm", "telemetry", "history"}

ASSUME RadioAssumption == Radios \subseteq BOOLEAN /\ Confirmed \in [BOOLEAN -> SUBSET Kinds]
ASSUME LimitAssumption ==
  /\ {QueueDepth, MaxReplay, AckRetries} \subseteq Nat \ {0}
  /\ TxRetries \in [BOOLEAN -> Nat]
  /\ {MaxPages, MaxFrames} \subseteq [BOOLEAN -> Nat \ {0}]

VARIABLES
  p2p,        \* m_be: the backend, P2P or LoRaWAN, chosen at boot
  ready,      \* m_be->tx_ready()
  backoff,    \* the network backoff (P2P 0x15) is running
  listening,  \* P2P listen mode
  answers,    \* m_answer_q
  alarms,     \* m_alarm_q
  cur,        \* m_cur, m_cur_kind, m_cur_retries
  tlm,        \* m_tlm_requested and the report being sent
  hist,       \* m_hist_active, the frame built last, frames left, m_hist_retries
  ack,        \* m_ack_kind ("none": not pending), m_ack_retries, and the frame it waits for
  txWork,     \* m_tx_work
  histWork,   \* m_hist_work
  run,        \* the handler inside m_be->send(), if any
  made        \* counter: frames queued so far

moving == <<ready, backoff, listening, answers, alarms, cur, tlm, hist, ack,
          txWork, histWork, run, made>>
vars == <<p2p, moving>>
queues == <<answers, alarms, made>>
works == <<txWork, histWork>>
link == <<ready, backoff, listening>>

NoCur == [kind |-> "none", id |-> 0, tag |-> "other", tries |-> 0]
NoReport == [asked |-> FALSE, open |-> FALSE, held |-> FALSE, page |-> 0, more |-> FALSE,
             tries |-> 0]
NoReplay == [active |-> FALSE, built |-> 0, left |-> 0, tries |-> 0]
NoAck == [kind |-> "none", tries |-> 0, frame |-> 0]
NotDue == [queued |-> FALSE, timer |-> "none"]
Idle == [path |-> "none", retry |-> FALSE, empty |-> FALSE, acked |-> FALSE]

Work == [queued : BOOLEAN, timer : {"none", "wait", "backoff"}]
Frames == 0..MaxFrames[p2p]
Tags == {"command", "other"}
Answer == [id : Frames, tag : Tags]
Failures == 0..TxRetries[p2p]
Hand == [kind : {"none", "answer", "alarm"}, id : Frames, tag : Tags, tries : Failures]
Report == [asked : BOOLEAN, open : BOOLEAN, held : BOOLEAN, page : 0..MaxPages[p2p],
           more : BOOLEAN, tries : Failures]
Replay == [active : BOOLEAN, built : 0..2, left : 0..MaxReplay, tries : Failures]
Slot == [kind : Kinds \union {"none"}, tries : 0..AckRetries, frame : Nat]
Sends == [path : {"none", "cur", "tlm", "flush", "hist"}, retry : BOOLEAN,
          empty : BOOLEAN, acked : BOOLEAN]

TypeOK ==
  /\ p2p \in Radios
  /\ ready \in BOOLEAN /\ backoff \in BOOLEAN /\ listening \in BOOLEAN
  /\ answers \in Seq(Answer) /\ Len(answers) <= QueueDepth
  /\ alarms \in Seq(Frames) /\ Len(alarms) <= QueueDepth
  /\ cur \in Hand /\ tlm \in Report /\ hist \in Replay /\ ack \in Slot
  /\ txWork \in Work /\ histWork \in Work /\ run \in Sends
  /\ made \in Frames

Init ==
  /\ p2p \in Radios
  /\ ready = FALSE /\ backoff = FALSE /\ listening = FALSE
  /\ answers = <<>> /\ alarms = <<>> /\ made = 0
  /\ cur = NoCur /\ hist = NoReplay /\ ack = NoAck /\ run = Idle
  /\ tlm = NoReport
  /\ txWork = NotDue /\ histWork = NotDue

-----------------------------------------------------------------------------
(* Zephyr's delayable work.  A running item may be queued once more; a      *)
(* reschedule cancels the timer and leaves a queued item queued.            *)

\* k_work_schedule_for_queue(K_NO_WAIT)
Submit(w) == IF w.timer = "none" THEN [w EXCEPT !.queued = TRUE] ELSE w

\* k_work_reschedule_for_queue() with no delay, with a delay
Now(w) == [queued |-> TRUE, timer |-> "none"]
Later(w, t) == [w EXCEPT !.timer = t]

Due(w) == w.queued \/ w.timer # "none"
Started(w) == [w EXCEPT !.queued = FALSE]

(* The frame a path has in hand: what it would send next. *)
InHand(c, t, h) ==
  [k \in Kinds |-> CASE k \in {"answer", "alarm"} -> IF c.kind = k THEN c.id ELSE 0
                     [] k = "telemetry" -> IF t.open /\ t.held THEN t.page ELSE 0
                     [] k = "history" -> IF h.active THEN h.built ELSE 0]

\* Mutant: the slot stays taken.
NotReleased(a, k) == a

\* ack_release(): the slot, and the other path's work it wakes.
Released(a, k) == IF a.kind = k THEN NoAck ELSE a
\* Mutant: a release does not wake the queued frames.
WakesNoTx(a, k, w) == w
WakesTx(a, k, w) == IF a.kind = k /\ k = "history" THEN Submit(w) ELSE w

WakesHist(a, k, h, w) ==
  IF a.kind = k /\ k # "history" /\ h.active THEN Submit(w) ELSE w

-----------------------------------------------------------------------------
(* tx_send() *)

\* The timer of a frame of kind k that is held: by the ledger at any time, by a
\* backoff unless it is an alarm.
HoldOf(k) == IF backoff /\ k # "alarm" THEN "backoff" ELSE "again"
MayGo(k) == ~backoff \/ k = "alarm"

\* -EBUSY: another kind waits for its Ack (kicked by ack_release()), or the
\* radio listens (kicked by app_radio_p2p_listen()).
Bounced(a, k) == a.kind \notin {"none", k}
MayBounce(a, k) == Bounced(a, k) \/ (listening /\ MayGo(k))
Transmits(a, k) == ~Bounced(a, k) /\ MayGo(k) /\ ~listening

\* The results the backend's send() can come back with.
Outcomes(k) ==
  IF run.acked THEN {"ok"}
  ELSE {"ok", "fault"}
         \union (IF k \in Confirmed[p2p] \/ run.retry THEN {"noack"} ELSE {})
         \union (IF p2p THEN {"again"} ELSE {"again", "toobig"})

\* ... and what tx_send() makes of it.
Spent(a, k) == a.kind = k /\ a.tries = AckRetries
Result(a, k, o) ==
  IF o = "noack" THEN IF Spent(a, k) THEN "ok" ELSE "ackretry" ELSE o
AckAfter(a, k, o, frame) ==
  CASE o \in {"ok", "toobig"} \/ (o = "noack" /\ Spent(a, k)) -> Released(a, k)
    [] o = "noack" /\ ~Spent(a, k) ->
         [kind |-> k, tries |-> (IF a.kind = k THEN a.tries ELSE 0) + 1, frame |-> frame]
    [] OTHER -> a

-----------------------------------------------------------------------------
(* The path of a queued frame: tx_queued_step() *)

\* backoff_yield_to_alarm(): the frame in hand goes back to the head of its
\* queue and a waiting retry gives its slot up.
Yields ==
  alarms # <<>> /\ backoff /\ ~(cur.kind = "answer" /\ Len(answers) = QueueDepth)
PutBack(q) == <<[id |-> cur.id, tag |-> cur.tag]>> \o q

\* What the handler goes on with: queues, frame in hand, slot and works.
AfterYield ==
  LET gives == Yields /\ ack.kind # "alarm"
      w == Started(txWork)
  IN [answers |-> IF Yields /\ cur.kind = "answer" THEN PutBack(answers) ELSE answers,
      cur |-> IF Yields /\ cur.kind = "answer" THEN NoCur ELSE cur,
      ack |-> IF gives THEN NoAck ELSE ack,
      tx |-> IF gives THEN WakesTx(ack, ack.kind, w) ELSE w,
      hist |-> IF gives THEN WakesHist(ack, ack.kind, hist, histWork) ELSE histWork]

InFlight(p, k, a, empty) ==
  run' = [path |-> p, retry |-> a.kind = k, empty |-> empty, acked |-> FALSE]

\* The frame c after result r, with the slot a and the works w, h of that moment.
\* recover_over_budget(): a command's answer becomes a short error, all else goes.
CurEnds(r, c, a, w, h) ==
  LET gone(d) == cur' = d /\ ack' = a /\ txWork' = Now(w) /\ histWork' = h
      stays(d, v) == cur' = d /\ ack' = a /\ txWork' = v /\ histWork' = h
  IN \/ r = "ok" /\ gone(NoCur)
     \/ r = "toobig" /\ gone(NoCur)
     \/ r = "toobig" /\ c.kind = "answer" /\ c.tag = "command"
          /\ gone([c EXCEPT !.tag = "other"])
     \/ r = "busy" /\ stays(c, w)
     \/ r \in {"again", "ackretry"} /\ stays(c, Later(w, "wait"))
     \/ r = "backoff" /\ stays(c, Later(w, "backoff"))
     \/ /\ r = "fault" /\ c.tries < TxRetries[p2p]
        /\ stays([c EXCEPT !.tries = @ + 1], Later(w, "wait"))
     \/ /\ r = "fault" /\ c.tries = TxRetries[p2p]
        /\ cur' = NoCur /\ ack' = Released(a, c.kind) /\ txWork' = Now(w)
        /\ histWork' = WakesHist(a, c.kind, hist, h)

\* tx_send() before the send: the frame bounces, is held, or goes out.
CurSend(c, y) ==
  \/ MayBounce(y.ack, c.kind) /\ CurEnds("busy", c, y.ack, y.tx, y.hist) /\ run' = run
  \/ /\ ~Bounced(y.ack, c.kind) /\ run' = run
     /\ CurEnds(HoldOf(c.kind), c, y.ack, y.tx, y.hist)
  \/ /\ Transmits(y.ack, c.kind) /\ InFlight("cur", c.kind, y.ack, FALSE)
     /\ cur' = c /\ ack' = y.ack /\ txWork' = y.tx /\ histWork' = y.hist

FromQueue(q) == [kind |-> "answer", id |-> q.id, tag |-> q.tag, tries |-> 0]
\* Mutant: an answer is taken off its queue during a backoff.
TakesHeldAnswer(y) == y.cur.kind = "none" /\ y.answers # <<>>
TakesAnswer(y) == y.cur.kind = "none" /\ ~backoff /\ y.answers # <<>>
TakesAlarm(y) == y.cur.kind = "none" /\ ~TakesAnswer(y) /\ alarms # <<>>
NothingQueued(y) == y.cur.kind = "none" /\ y.answers = <<>> /\ alarms = <<>>
ReportFirst(y) == y.ack.kind = "telemetry"

QueuedStep(y) ==
  /\ ~ReportFirst(y)
  /\ \/ /\ y.cur.kind # "none" /\ CurSend(y.cur, y)
        /\ answers' = y.answers /\ alarms' = alarms
     \/ /\ TakesAnswer(y)
        /\ CurSend(FromQueue(Head(y.answers)), y)
        /\ answers' = Tail(y.answers) /\ alarms' = alarms
     \/ /\ TakesAlarm(y)
        /\ CurSend([NoCur EXCEPT !.kind = "alarm", !.id = Head(alarms)], y)
        /\ answers' = y.answers /\ alarms' = Tail(alarms)
     \/ /\ y.cur.kind = "none" /\ backoff /\ alarms = <<>> /\ y.answers # <<>>
        /\ txWork' = Later(y.tx, "backoff") /\ histWork' = y.hist
        /\ answers' = y.answers /\ cur' = y.cur /\ ack' = y.ack
        /\ UNCHANGED <<alarms, run>>
  /\ UNCHANGED tlm

-----------------------------------------------------------------------------
(* The path of a report: tlm_step() *)

Closed(t) == [NoReport EXCEPT !.asked = t.asked]

\* tlm_close()
TlmCloses(t, a, w, h) ==
  /\ tlm' = Closed(t) /\ ack' = Released(a, "telemetry") /\ txWork' = w
  /\ histWork' = WakesHist(a, "telemetry", hist, h)

\* The gap to the next frame: none on P2P.
Gap(w) == IF p2p THEN Now(w) ELSE Later(w, "wait")

TlmEnds(r, t, a, w, h) ==
  LET stays(u, v) == tlm' = u /\ ack' = a /\ txWork' = v /\ histWork' = h
  IN \/ r \in {"ok", "toobig"} /\ t.more /\ stays([t EXCEPT !.held = FALSE], Gap(w))
     \/ r \in {"ok", "toobig"} /\ ~t.more /\ TlmCloses(t, a, IF t.asked THEN Gap(w) ELSE w, h)
     \/ r = "busy" /\ stays(t, w)
     \/ r \in {"again", "ackretry"} /\ stays(t, Later(w, "wait"))
     \/ r = "backoff" /\ stays(t, Later(w, "backoff"))
     \/ r \in {"again", "backoff"} /\ TlmCloses(t, a, w, h) \* held a whole interval
     \/ /\ r = "fault" /\ t.tries < TxRetries[p2p]
        /\ stays([t EXCEPT !.tries = @ + 1], Later(w, "wait"))
     \/ r = "fault" /\ t.tries = TxRetries[p2p] /\ TlmCloses(t, a, w, h)

\* The empty frame that drains the MAC answers.
FlushEnds(r, t, a, w, h) ==
  \/ r = "busy" /\ tlm' = t /\ ack' = a /\ txWork' = w /\ histWork' = h
  \/ r = "wait" /\ tlm' = t /\ ack' = a /\ txWork' = Later(w, r) /\ histWork' = h
  \/ r # "busy" /\ TlmCloses(t, a, w, h)

Opened == [NoReport EXCEPT !.open = TRUE]
Composed(t) ==
  {[t EXCEPT !.held = TRUE, !.page = @ + 1, !.more = m, !.tries = 0] :
     m \in {FALSE} \union {t.page + 1 < MaxPages[p2p]}}

TlmSend(t, y) ==
  \/ MayBounce(y.ack, "telemetry") /\ TlmEnds("busy", t, y.ack, y.tx, y.hist) /\ run' = run
  \/ /\ ~Bounced(y.ack, "telemetry") /\ run' = run
     /\ TlmEnds(HoldOf("telemetry"), t, y.ack, y.tx, y.hist)
  \/ /\ Transmits(y.ack, "telemetry") /\ InFlight("tlm", "telemetry", y.ack, FALSE)
     /\ tlm' = t /\ ack' = y.ack /\ txWork' = y.tx /\ histWork' = y.hist

FlushSend(t, y) ==
  \/ Bounced(y.ack, "telemetry") /\ FlushEnds("busy", t, y.ack, y.tx, y.hist) /\ run' = run
  \/ ~Bounced(y.ack, "telemetry") /\ FlushEnds("wait", t, y.ack, y.tx, y.hist) /\ run' = run
  \/ /\ Transmits(y.ack, "telemetry") /\ InFlight("flush", "telemetry", y.ack, TRUE)
     /\ tlm' = t /\ ack' = y.ack /\ txWork' = y.tx /\ histWork' = y.hist

TlmStep(y) ==
  /\ ReportFirst(y) \/ NothingQueued(y)
  /\ answers' = y.answers /\ cur' = y.cur /\ UNCHANGED alarms
  /\ \/ /\ ~tlm.open /\ (~tlm.asked \/ hist.active)
        /\ txWork' = y.tx /\ histWork' = y.hist /\ ack' = y.ack /\ UNCHANGED <<tlm, run>>
     \/ /\ tlm.open \/ (tlm.asked /\ ~hist.active)
        /\ LET t == IF tlm.open THEN tlm ELSE Opened
           IN \/ t.held /\ TlmSend(t, y)
              \/ ~t.held /\ t.page < MaxPages[p2p] /\ \E u \in Composed(t) : TlmSend(u, y)
              \/ ~t.held /\ ~p2p /\ FlushSend(t, y)
              \/ ~t.held /\ TlmCloses(t, y.ack, y.tx, y.hist) /\ run' = run \* nothing to report

-----------------------------------------------------------------------------
(* m_tx_work: tx_work_handler() *)

TxStarts ==
  /\ run = Idle /\ txWork.queued
  /\ \/ /\ ~ready /\ tlm.open
        /\ TlmCloses(tlm, ack, Started(txWork), histWork)
        /\ UNCHANGED <<answers, alarms, cur, run>>
     \/ /\ ~ready /\ ~tlm.open /\ txWork' = Started(txWork)
        /\ UNCHANGED <<answers, alarms, cur, run, tlm, ack, histWork>>
     \/ ready /\ QueuedStep(AfterYield)
     \/ ready /\ TlmStep(AfterYield)
  /\ UNCHANGED <<link, hist, made>>

CurReturns ==
  /\ run.path = "cur" /\ run' = Idle
  /\ \E o \in Outcomes(cur.kind) :
       CurEnds(Result(ack, cur.kind, o), cur, AckAfter(ack, cur.kind, o, cur.id), txWork,
               IF AckAfter(ack, cur.kind, o, cur.id) = NoAck
               THEN WakesHist(ack, cur.kind, hist, histWork) ELSE histWork)
  /\ UNCHANGED <<link, queues, tlm, hist>>

TlmReturns ==
  /\ run.path = "tlm" /\ run' = Idle
  /\ \E o \in Outcomes("telemetry") :
       TlmEnds(Result(ack, "telemetry", o), tlm, AckAfter(ack, "telemetry", o, tlm.page), txWork,
               IF AckAfter(ack, "telemetry", o, tlm.page) = NoAck
               THEN WakesHist(ack, "telemetry", hist, histWork) ELSE histWork)
  /\ UNCHANGED <<link, queues, cur, hist>>

\* The backend reports a flush as -EAGAIN and does not hold it.
FlushReturns ==
  /\ run.path = "flush" /\ run' = Idle
  /\ FlushEnds("again", tlm, ack, txWork, histWork)
  /\ UNCHANGED <<link, queues, cur, hist>>

-----------------------------------------------------------------------------
(* m_hist_work: hist_work_handler() *)

\* Mutant: the replay ends with its slot taken.
HistFinishesTaken(a, w) ==
  hist' = NoReplay /\ ack' = a /\ txWork' = Submit(txWork) /\ histWork' = w

\* hist_finish(): the replay ends, its slot is free, the report it held may go.
HistFinishes(a, w) ==
  /\ hist' = NoReplay /\ ack' = Released(a, "history")
  /\ txWork' = Submit(txWork) /\ histWork' = w

\* The frame h after result r.
HistEnds(r, h, a, tx, w) ==
  LET stays(g, v) == hist' = g /\ ack' = a /\ txWork' = tx /\ histWork' = v
      failed == r \in {"again", "backoff", "toobig", "fault"}
  IN \/ r = "ok" /\ h.left > 1 /\ stays([h EXCEPT !.left = @ - 1, !.tries = 0], Later(w, "wait"))
     \/ r = "ok" /\ h.left = 1 /\ HistFinishes(a, w)
     \/ r = "busy" /\ stays(h, w)
     \/ r = "ackretry" /\ stays(h, Later(w, "wait"))
     \/ /\ failed /\ h.tries < TxRetries[p2p]
        /\ stays([h EXCEPT !.tries = @ + 1], Later(w, IF r = "backoff" THEN r ELSE "wait"))
     \/ failed /\ h.tries = TxRetries[p2p] /\ HistFinishes(a, w)

\* hist_build(): every frame is built for its send, a retry goes as it was.
Built == [hist EXCEPT !.built = (@ % 2) + 1]
Flushed == [hist EXCEPT !.built = 0]

HistSend(h, empty, w) ==
  \/ MayBounce(ack, "history") /\ HistEnds("busy", h, ack, txWork, w) /\ run' = run
  \/ /\ ~Bounced(ack, "history") /\ run' = run
     /\ HistEnds(HoldOf("history"), h, ack, txWork, w)
  \/ /\ Transmits(ack, "history") /\ InFlight("hist", "history", ack, empty)
     /\ hist' = h /\ histWork' = w /\ UNCHANGED <<ack, txWork>>

HistStarts ==
  /\ run = Idle /\ histWork.queued
  /\ LET w == Started(histWork)
         retry == ack.kind = "history"
     IN \/ /\ ~hist.active /\ histWork' = w /\ UNCHANGED <<hist, ack, txWork, run>>
        \/ hist.active /\ ~ready /\ HistFinishes(ack, w) /\ run' = run
        \/ hist.active /\ ready /\ retry /\ HistSend(hist, FALSE, w)
        \/ hist.active /\ ready /\ ~retry /\ HistSend(Built, FALSE, w)
        \/ hist.active /\ ready /\ ~retry /\ ~p2p /\ HistSend(Flushed, TRUE, w)
        \/ hist.active /\ ready /\ ~retry /\ HistFinishes(ack, w) /\ run' = run \* nothing left
  /\ UNCHANGED <<link, queues, cur, tlm>>

HistReturns ==
  /\ run.path = "hist" /\ run' = Idle
  /\ \E o \in IF run.empty THEN {"again"} ELSE Outcomes("history") :
       LET a == AckAfter(ack, "history", o, hist.built)
       IN HistEnds(Result(ack, "history", o), hist, a,
                   IF a = NoAck THEN WakesTx(ack, "history", txWork) ELSE txWork, histWork)
  /\ UNCHANGED <<link, queues, cur, tlm>>

-----------------------------------------------------------------------------
(* The other threads, the gateway, and time *)

\* app_radio_tx_kick()
Kick ==
  /\ txWork' = Submit(txWork)
  /\ histWork' = IF hist.active THEN Submit(histWork) ELSE histWork

QueueAnswer(tag) ==
  /\ made < MaxFrames[p2p] /\ Len(answers) < QueueDepth
  /\ answers' = Append(answers, [id |-> made + 1, tag |-> tag]) /\ made' = made + 1
  /\ Kick /\ UNCHANGED <<link, alarms, cur, tlm, hist, ack, run>>

\* An alarm does not wait for a run another frame scheduled, bar an Ack retry.
QueueAlarm ==
  /\ made < MaxFrames[p2p] /\ Len(alarms) < QueueDepth
  /\ alarms' = Append(alarms, made + 1) /\ made' = made + 1
  /\ IF backoff \/ ack.kind = "none" THEN txWork' = Now(txWork) /\ UNCHANGED histWork ELSE Kick
  /\ UNCHANGED <<link, answers, cur, tlm, hist, ack, run>>

\* tx_request_telemetry()
RequestReport ==
  /\ tlm' = [tlm EXCEPT !.asked = TRUE] /\ Kick
  /\ UNCHANGED <<link, queues, cur, hist, ack, run>>

\* A P2P downlink comes with the Ack of the exchange it rides on, or with one of
\* the control set's; LoRaWAN's is handled by a work of its own.
RunKind == CASE run.path = "cur" -> cur.kind
             [] run.path = "tlm" -> "telemetry"
             [] run.path = "hist" -> "history"
             [] OTHER -> "none"
Downlink ==
  /\ ready
  /\ \/ run = Idle /\ run' = run
     \/ p2p /\ (run.retry \/ RunKind \in Confirmed[p2p]) /\ run' = [run EXCEPT !.acked = TRUE]

\* app_radio_history_replay_start()
StartReplay ==
  /\ Downlink /\ ~hist.active
  /\ \E n \in 1..MaxReplay : hist' = [NoReplay EXCEPT !.active = TRUE, !.left = n]
  /\ histWork' = Now(histWork)
  /\ UNCHANGED <<link, queues, cur, tlm, ack, txWork>>

\* app_radio_backoff_set()
SetBackoff(on) ==
  /\ p2p /\ Downlink /\ backoff' = on
  /\ UNCHANGED <<ready, listening, queues, cur, tlm, hist, ack, works>>

BackoffEnds ==
  /\ backoff /\ backoff' = FALSE
  /\ UNCHANGED <<ready, listening, queues, cur, tlm, hist, ack, works, run>>

Listen(on) ==
  /\ p2p /\ run = Idle /\ listening' = on /\ on # listening
  /\ IF on THEN UNCHANGED works ELSE Kick
  /\ UNCHANGED <<ready, backoff, queues, cur, tlm, hist, ack, run>>

\* A (re)join starts: tx_ready() is false until the link is up again.
LinkDown ==
  /\ ready /\ run = Idle /\ ready' = FALSE
  /\ UNCHANGED <<backoff, listening, queues, cur, tlm, hist, ack, works, run>>

\* app_radio_link_up(), then the backend's kick; a new P2P session drops the backoff.
LinkUp ==
  /\ ~ready /\ run = Idle /\ ready' = TRUE
  /\ backoff' = FALSE /\ hist' = NoReplay /\ ack' = NoAck
  /\ histWork' = IF hist.active THEN NotDue ELSE histWork
  /\ txWork' = Submit(txWork)
  /\ UNCHANGED <<listening, queues, cur, tlm, run>>

\* A work's delay is over.
TxTimer ==
  /\ txWork.timer # "none" /\ txWork' = Now(txWork)
  /\ UNCHANGED <<link, queues, cur, tlm, hist, ack, histWork, run>>
HistTimer ==
  /\ histWork.timer # "none" /\ histWork' = Now(histWork)
  /\ UNCHANGED <<link, queues, cur, tlm, hist, ack, txWork, run>>

Works == TxStarts \/ CurReturns \/ TlmReturns \/ FlushReturns \/ HistStarts \/ HistReturns
Threads ==
  \/ \E tag \in {"command", "other"} : QueueAnswer(tag)
  \/ QueueAlarm \/ RequestReport \/ StartReplay
  \/ \E on \in BOOLEAN : SetBackoff(on) \/ Listen(on)
  \/ LinkDown \/ LinkUp \/ BackoffEnds \/ TxTimer \/ HistTimer

Next == (Works \/ Threads) /\ UNCHANGED p2p

Spec == Init /\ [][Next]_vars

\* The work queue serves its items in turn and every timer fires; a backoff and
\* a listen mode end, a (re)join succeeds, reports are asked for on a schedule,
\* and the ledger, a sliding window, does not hold one frame for ever.
Fairness ==
  /\ SF_moving(TxStarts) /\ SF_moving(HistStarts)
  /\ WF_moving(CurReturns \/ TlmReturns \/ FlushReturns \/ HistReturns)
  /\ WF_moving(TxTimer) /\ WF_moving(HistTimer) /\ WF_moving(BackoffEnds)
  /\ WF_moving(Listen(FALSE)) /\ WF_moving(LinkUp) /\ WF_moving(RequestReport)
  /\ SF_moving(TxStarts /\ run' # Idle)
  /\ SF_moving(CurReturns /\ <<cur, ack>>' # <<cur, ack>>)
  /\ SF_moving(TlmReturns /\ <<tlm, ack>>' # <<tlm, ack>>)

FairSpec == Spec /\ Fairness

-----------------------------------------------------------------------------
(* Properties *)

\* A frame that waits for its Ack retry stays, as it was, in the hand of its
\* path (the block comment "Confirmed uplinks"): no abandoned, dropped, rebuilt
\* or re-queued frame leaves the slot taken, which would silence every other path.
AckOwner ==
  ack.kind # "none" => ack.frame = InHand(cur, tlm, hist)[ack.kind]

\* With the link up, a queued frame, an open report and a running replay each
\* have a handler that runs or is due, unless they wait for the slot and its
\* owner's is.
TxHasFrame == cur.kind # "none" \/ answers # <<>> \/ alarms # <<>> \/ tlm.open
TxAwake == Due(txWork) \/ run.path \in {"cur", "tlm", "flush"}
HistAwake == Due(histWork) \/ run.path = "hist"
Awake ==
  (ready /\ ~listening) =>
    /\ (TxHasFrame /\ ack.kind # "history") => TxAwake
    /\ (hist.active /\ ack.kind \in {"none", "history"}) => HistAwake

\* The step that ends a report, on a link that is up, whose frame waited for its
\* Ack: what was queued behind that wait did not kick.
DropsReport == ready /\ ack.kind = "telemetry" /\ tlm.open /\ ~tlm'.open

\* No step but the end of such a report leaves a frame behind with nothing to send
\* it: every bounce, hold, retry, yield, listen mode and rejoin has its wake-up.
WakeupsKept == [][(Awake /\ ~DropsReport) => Awake']_vars

\* Answers keep the order they were queued in, the frame in hand first, over
\* retries, yields to an alarm and answers queued meanwhile.
AnswerOrder ==
  LET q == (IF cur.kind = "answer" THEN <<cur.id>> ELSE <<>>)
             \o [i \in 1..Len(answers) |-> answers[i].id]
  IN \A i, j \in 1..Len(q) : i < j => q[i] < q[j]

\* The state of the transmit paths is sound.
TxInv == TypeOK /\ AckOwner /\ AnswerOrder

\* While a network backoff runs, a handler that finds an alarm takes it, whatever
\* else is in hand or waits for its Ack (backoff_yield_to_alarm()); only a full
\* answer queue keeps an answer in hand.
AlarmPassesBackoff ==
  [][(TxStarts /\ ready /\ backoff /\ alarms # <<>>
        /\ ~(cur.kind = "answer" /\ Len(answers) = QueueDepth))
     => cur'.kind = "alarm" \/ Len(alarms') < Len(alarms)]_vars

\* The link stays up, unheld by the network and by the shell's listen mode.
Settled == <>[](ready /\ ~listening /\ ~backoff)

\* On such a link a replay ends, whatever bounces, holds or loses its frames: the
\* report it holds back goes, and the history's page rollover is let on.  And every
\* answer and alarm leaves.
BacklogEnds ==
  Settled => /\ []<>~hist.active
             /\ <>[](answers = <<>> /\ alarms = <<>> /\ cur = NoCur)

=============================================================================
