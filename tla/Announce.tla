------------------------------ MODULE Announce ------------------------------
(***************************************************************************)
(* The boot/join sequence of app/src/app_radio.c: Info, settings-info, then *)
(* the data it holds: the alarm batch of AlarmBatch and the report.         *)
(*                                                                         *)
(* Three threads.  The system work queue runs the delayable items of swq   *)
(* in turn, each of them whole.  The radio work queue runs m_announce_work, *)
(* m_page_stream_work, the link-up and the sends; the release of the       *)
(* sequence there is two steps, which the others may come between.  The    *)
(* report thread marks a report and looks at the sequence in steps of its  *)
(* own.  A timer may fire at any time after it is armed.  What a frame     *)
(* holds, the duty cycle and the retries are RadioTx's business.           *)
(***************************************************************************)
EXTENDS AlarmBatch, SequencesExt

CONSTANTS
  Setups,       \* the nodes an instance looks at: alarm_limit > 0, interval_announce > 0,
                \* and, as bounds, the pages of a stream after its first, and how many
                \* edges, reports, paged answers and over-budget frames come
  AnswerDepth   \* APP_RADIO_TX_QUEUE_DEPTH, of the answers

ASSUME AnnounceAssumption ==
  /\ Setups \subseteq [limit : BOOLEAN, period : BOOLEAN, pages : Nat,
                      edges : Nat, reports : Nat, answers : Nat, drops : Nat]
  /\ AnswerDepth \in Nat \ {0, 1}

Tags == {"info", "settings", "command"}
Bits == {"info", "settings"}
SysItems == {"deadline", "spread", "periodic", "batch", "jitter"}
RadioItems == {"announce", "pages"}

VARIABLES
  setup,      \* of Setups, set at boot
  link,       \* "up": HEALTHY or WARNING, app_radio_is_ready(); "down"
  bits,       \* m_announce
  spreading,  \* m_announce_spreading
  closed,     \* m_seq_closed
  held,       \* m_telemetry_held
  stream,     \* m_page_stream: pages still to queue
  answers,    \* m_answer_q, as the tags of its frames
  alarms,     \* m_alarm_q, as a count
  tlm,        \* m_tlm_requested, or the report being sent
  batch,      \* the alarm batch
  armed,      \* the items whose timer runs
  swq,        \* the system work queue's items, in order
  rwq,        \* the radio work queue's items
  radio,      \* where the radio work queue is in announce_run() and seq_release()
  report,     \* where the report thread is in app_radio_send_telemetry()
  made        \* counters: edges, reports, paged answers, over-budget frames

sequence == <<bits, spreading, closed, held>>
queues == <<stream, answers, alarms, tlm>>
works == <<armed, swq, rwq>>
vars == <<setup, link, sequence, queues, batch, works, radio, report, made>>

NoReport == [pc |-> 0, saw |-> FALSE]

TypeOK ==
  /\ setup \in Setups
  /\ link \in {"up", "down"}
  /\ bits \subseteq Bits /\ spreading \in BOOLEAN /\ closed \in BOOLEAN /\ held \in BOOLEAN
  /\ stream \in 0..setup.pages
  /\ answers \in Seq(Tags) /\ Len(answers) <= AnswerDepth
  /\ alarms \in 0..AlarmDepth /\ tlm \in BOOLEAN
  /\ batch \in BatchType(made.edges)
  /\ armed \subseteq SysItems \union RadioItems
  /\ swq \in Seq(SysItems) /\ IsInjective(swq)
  /\ rwq \subseteq RadioItems
  /\ radio \in {"idle", "settings", "end", "kick"}
  /\ report \in [pc : 0..3, saw : BOOLEAN]
  /\ made \in [edges : 0..setup.edges, reports : 0..setup.reports,
               answers : 0..setup.answers, drops : 0..setup.drops]

Init ==
  /\ setup \in Setups
  /\ link = "down" /\ bits = {} /\ spreading = FALSE /\ closed = FALSE /\ held = FALSE
  /\ stream = 0 /\ answers = <<>> /\ alarms = 0 /\ tlm = FALSE /\ batch = NoBatch
  /\ armed = {} /\ swq = <<>> /\ rwq = {} /\ radio = "idle" /\ report = NoReport
  /\ made = [edges |-> 0, reports |-> 0, answers |-> 0, drops |-> 0]

Counted(c) == made' = [made EXCEPT ![c] = @ + 1]
MayCount(c) == made[c] < setup[c]

-----------------------------------------------------------------------------
(* Zephyr's delayable work, on the timers a and the queue q it is given.     *)

Enqueued(q, i) == IF i \in ToSet(q) THEN q ELSE Append(q, i)
Pending(i) == i \in armed \union ToSet(swq) \union rwq

\* app_radio_data_hold_ms()
Hold == IF link = "down" THEN "down" ELSE IF closed THEN "wait" ELSE "none"

AlarmRoom == AlarmDepth - alarms
AnswerRoom == AnswerDepth - Len(answers)

\* A timer fires: its item is queued.
Fires(i) ==
  /\ i \in armed
  /\ armed' = armed \ {i}
  /\ IF i \in SysItems THEN swq' = Enqueued(swq, i) /\ UNCHANGED rwq
                       ELSE rwq' = rwq \union {i} /\ UNCHANGED swq
  /\ UNCHANGED <<setup, link, sequence, queues, batch, radio, report, made>>

\* The system work queue runs before the other threads, but for the handlers that may
\* wait for m_lock.
SystemBusy == swq # <<>> /\ Head(swq) \notin {"batch", "deadline"}

Runs(i) == swq # <<>> /\ Head(swq) = i

\* app_alarm_flush_held(): on the timers and the system work queue.
FlushHeld(a, q) ==
  IF batch.held THEN <<a \ {"batch"}, Enqueued(q, "batch")>> ELSE <<a, q>>

\* The held report, asked for at once.
KickHeld(a, q) ==
  IF held THEN <<a \ {"jitter"}, Enqueued(q, "jitter")>> ELSE <<a, q>>

-----------------------------------------------------------------------------
(* The link *)

\* The timers app_radio_announce() leaves.
AnnouncedTimers(a) ==
  (a \union {"deadline", "spread"} \union (IF setup.period THEN {"periodic"} ELSE {}))
    \ (IF setup.period THEN {} ELSE {"periodic"})

\* app_radio_announce(), called as the link comes up, and the TX kick after it
\* (the sends below need no work item of their own here).
LinkUp ==
  /\ link = "down" /\ radio = "idle"
  /\ link' = "up" /\ spreading' = TRUE /\ closed' = TRUE /\ bits' = Bits
  /\ armed' = AnnouncedTimers(armed)
  /\ UNCHANGED <<setup, held, queues, batch, swq, rwq, radio, report, made>>

LinkDown ==
  /\ link = "up" /\ link' = "down"
  /\ UNCHANGED <<setup, sequence, queues, batch, works, radio, report, made>>

-----------------------------------------------------------------------------
(* The announce, on the radio work queue *)

\* m_announce_jitter_work: the spread is over, the announce is kicked.
SpreadOver ==
  /\ Runs("spread")
  /\ spreading' = FALSE /\ swq' = Tail(swq)
  /\ rwq' = rwq \union {"announce"} /\ armed' = armed \ {"announce"}
  /\ UNCHANGED <<setup, link, bits, closed, held, queues, batch, radio, report, made>>

\* m_periodic_announce_work: a lost link's next announce re-arms it.
PeriodicAnnounce ==
  /\ Runs("periodic") /\ swq' = Tail(swq)
  /\ IF link = "up"
       THEN /\ bits' = Bits
            /\ rwq' = rwq \union {"announce"}
            /\ armed' = (armed \ {"announce"}) \union {"periodic"}
       ELSE UNCHANGED <<bits, rwq, armed>>
  /\ UNCHANGED <<setup, link, spreading, closed, held, queues, batch, radio, report, made>>

\* The run ends and comes again in ANNOUNCE_RETRY_SEC.
Again == armed' = armed \union {"announce"} /\ radio' = "idle"

\* announce_frame(): a page of b is queued, its bit cleared and the stream of its
\* other pages begun (page_stream_kick()); or nothing fits now and all stays.
AnnounceFrame(b) ==
  \/ /\ answers' = Append(answers, b) /\ bits' = bits \ {b}
     /\ \E p \in 0..setup.pages : stream' = p
  \/ UNCHANGED <<answers, bits, stream>>

StreamTimer(a) == IF stream' > 0 /\ ~Pending("pages") THEN a \union {"pages"} ELSE a

\* announce_run() up to the Info.
AnnounceInfo ==
  /\ radio = "idle" /\ "announce" \in rwq /\ rwq' = rwq \ {"announce"}
  /\ IF link = "down" \/ spreading \/ stream > 0
       THEN /\ UNCHANGED <<bits, answers, stream>>
            /\ IF link = "down" THEN UNCHANGED <<armed, radio>> ELSE Again
       ELSE /\ IF "info" \in bits /\ AnswerRoom > 0
                 THEN AnnounceFrame("info")
                 ELSE UNCHANGED <<bits, answers, stream>>
            /\ IF stream' > 0 THEN /\ armed' = StreamTimer(armed) \union {"announce"}
                                   /\ UNCHANGED radio
                              ELSE radio' = "settings" /\ UNCHANGED armed
  /\ UNCHANGED <<setup, link, spreading, closed, held, alarms, tlm, batch, swq, report, made>>

\* The settings-info, and the test that all is out.
AnnounceSettings ==
  /\ radio = "settings"
  /\ IF "settings" \in bits /\ AnswerRoom > 0
       THEN AnnounceFrame("settings")
       ELSE UNCHANGED <<bits, answers, stream>>
  /\ IF bits' # {} \/ stream' > 0
       THEN armed' = StreamTimer(armed) \union {"announce"} /\ radio' = "idle"
       ELSE radio' = "end" /\ UNCHANGED armed
  /\ UNCHANGED <<setup, link, spreading, closed, held, alarms, tlm, batch, swq, rwq, report,
                 made>>

\* Mutant: the held report is kicked before the held alarms.
ReportFirst(a, q) ==
  LET k == KickHeld(a, q) IN FlushHeld(k[1], k[2])
\* What seq_release() wakes once the sequence is open: the alarms, then the report.
Woken(a, q) ==
  LET f == FlushHeld(a, q) IN KickHeld(f[1], f[2])

\* seq_release() on the radio work queue: opened, and the alarms flushed ...
Release ==
  /\ radio = "end"
  /\ IF closed
       THEN LET f == FlushHeld(armed \ {"deadline"}, RemoveFirst(swq, "deadline"))
            IN armed' = f[1] /\ swq' = f[2] /\ radio' = "kick"
       ELSE radio' = "idle" /\ UNCHANGED <<armed, swq>>
  /\ closed' = FALSE
  /\ UNCHANGED <<setup, link, bits, spreading, held, queues, batch, rwq, report, made>>

\* ... then the held report kicked.
ReleaseReport ==
  /\ radio = "kick" /\ radio' = "idle"
  /\ LET k == KickHeld(armed, swq) IN armed' = k[1] /\ swq' = k[2]
  /\ held' = FALSE
  /\ UNCHANGED <<setup, link, bits, spreading, closed, queues, batch, rwq, report, made>>

\* m_seq_deadline_work: held data goes first.
Deadline ==
  /\ Runs("deadline")
  /\ IF closed
       THEN LET w == Woken(armed \ {"deadline"}, Tail(swq)) IN armed' = w[1] /\ swq' = w[2]
       ELSE swq' = Tail(swq) /\ UNCHANGED armed
  /\ closed' = FALSE /\ held' = IF closed THEN FALSE ELSE held
  /\ UNCHANGED <<setup, link, bits, spreading, queues, batch, rwq, radio, report, made>>

-----------------------------------------------------------------------------
(* The page stream, on the radio work queue *)

\* app_radio_announce_kick()
Kicked(q, b) == IF b # {} \/ closed THEN q \union {"announce"} ELSE q

PageStream ==
  /\ radio = "idle" /\ "pages" \in rwq
  /\ \/ \* a lost link ends the stream
        /\ link = "down" /\ stream' = 0 /\ rwq' = rwq \ {"pages"}
        /\ UNCHANGED <<answers, armed>>
     \/ /\ link = "up" /\ AnswerRoom < 2 /\ rwq' = rwq \ {"pages"}
        /\ armed' = armed \union {"pages"}
        /\ UNCHANGED <<stream, answers>>
     \/ \* all pages are out, or the next cannot be built: an announce may wait
        /\ link = "up" /\ AnswerRoom >= 2
        /\ stream' = 0
        /\ rwq' = Kicked(rwq \ {"pages"}, bits)
        /\ armed' = armed \ (rwq' \intersect {"announce"})
        /\ UNCHANGED answers
     \/ /\ link = "up" /\ AnswerRoom >= 2 /\ stream > 0
        /\ stream' = stream - 1
        /\ answers' = Append(answers, "command")
        /\ rwq' = rwq \ {"pages"} /\ armed' = armed \union {"pages"}
  /\ UNCHANGED <<setup, link, sequence, alarms, tlm, batch, swq, radio, report, made>>

\* A downlink command whose answer takes several pages; a second stream is refused.
CommandAnswered ==
  /\ radio = "idle" /\ link = "up" /\ AnswerRoom > 0
  /\ MayCount("answers") /\ Counted("answers")
  /\ answers' = Append(answers, "command")
  /\ \E p \in 0..setup.pages :
       IF stream = 0 /\ p > 0
         THEN /\ stream' = p
              /\ armed' = IF Pending("pages") THEN armed ELSE armed \union {"pages"}
         ELSE UNCHANGED <<stream, armed>>
  /\ UNCHANGED <<setup, link, sequence, alarms, tlm, batch, swq, rwq, radio, report>>

\* datarate_changed_callback(): a higher rate may fit what was deferred.
DatarateChanged ==
  /\ link = "up" /\ (bits # {} \/ closed) /\ "announce" \notin rwq
  /\ rwq' = Kicked(rwq, bits) /\ armed' = armed \ {"announce"}
  /\ UNCHANGED <<setup, link, sequence, queues, batch, swq, radio, report, made>>

-----------------------------------------------------------------------------
(* The sends: answers, then alarms, then the report *)

\* recover_over_budget(): the announce's frames are re-armed, with no kick.
Rearmed(tag) == bits \union ({tag} \intersect Bits)

SendAnswer ==
  /\ radio = "idle" /\ link = "up" /\ answers # <<>>
  /\ answers' = Tail(answers)
  /\ \/ UNCHANGED <<bits, made>>
     \/ /\ MayCount("drops") /\ Counted("drops")
        /\ bits' = Rearmed(Head(answers))
  /\ UNCHANGED <<setup, link, spreading, closed, held, stream, alarms, tlm, batch, works, radio,
                 report>>

\* Taking an alarm frees a slot: app_alarm_flush_held().
TakeWakes == LET f == FlushHeld(armed, swq) IN armed' = f[1] /\ swq' = f[2]

SendAlarm ==
  /\ radio = "idle" /\ link = "up" /\ answers = <<>> /\ alarms > 0
  /\ alarms' = alarms - 1
  /\ TakeWakes
  /\ UNCHANGED <<setup, link, sequence, stream, answers, tlm, batch, rwq, radio, report, made>>

SendReport ==
  /\ radio = "idle" /\ link = "up" /\ answers = <<>> /\ alarms = 0
  /\ tlm /\ tlm' = FALSE
  /\ UNCHANGED <<setup, link, sequence, stream, answers, alarms, batch, works, radio, report,
                 made>>

-----------------------------------------------------------------------------
(* The alarm batch, on the system work queue *)

Flushed(b, a, q) ==
  \E f \in Flushes(b, Hold, AlarmRoom) :
    /\ batch' = f.batch
    /\ alarms' = alarms + f.pages
    /\ armed' = IF f.timer THEN a \union {"batch"} ELSE a
    /\ swq' = q

\* alarm_queue(): an edge.
AlarmEdge ==
  /\ MayCount("edges") /\ Counted("edges")
  /\ IF setup.limit
       THEN LET b == Collected(batch)
            IN /\ batch' = b
               /\ armed' = IF Opens(batch) /\ ~Pending("batch") THEN armed \union {"batch"}
                           ELSE IF ClosesEarly(b) THEN armed \ {"batch"} ELSE armed
               /\ swq' = IF ClosesEarly(b) THEN Enqueued(swq, "batch") ELSE swq
               /\ UNCHANGED alarms
       ELSE Flushed(CollectedAlone(batch), armed, swq)
  /\ UNCHANGED <<setup, link, sequence, stream, answers, tlm, rwq, radio, report>>

\* m_alarm_batch_work
BatchWork ==
  /\ Runs("batch")
  /\ Flushed(batch, armed, Tail(swq))
  /\ UNCHANGED <<setup, link, sequence, stream, answers, tlm, rwq, radio, report, made>>

\* app_alarm_flush_pending(), asked while a deferred action waits.
FlushPending ==
  /\ batch.n > 0 /\ Hold = "none"
  /\ armed' = armed \ {"batch"} /\ swq' = Enqueued(swq, "batch")
  /\ UNCHANGED <<setup, link, sequence, queues, batch, rwq, radio, report, made>>

-----------------------------------------------------------------------------
(* The report *)

\* Mutant: the look comes before the mark.
LookFirst == <<"look", "mark", "go">>
\* The steps of app_radio_send_telemetry().
ReportSteps == <<"mark", "look", "go">>

AtStep(s) == report.pc > 0 /\ ReportSteps[report.pc] = s
NextStep == [report EXCEPT !.pc = @ + 1]

\* run_report(): the link gate.
ReportDue ==
  /\ report.pc = 0 /\ link = "up"
  /\ MayCount("reports") /\ Counted("reports")
  /\ report' = [NoReport EXCEPT !.pc = 1]
  /\ UNCHANGED <<setup, link, sequence, queues, batch, works, radio>>

ReportMark ==
  /\ AtStep("mark") /\ held' = TRUE /\ report' = NextStep
  /\ UNCHANGED <<setup, link, bits, spreading, closed, queues, batch, works, radio, made>>

ReportLook ==
  /\ AtStep("look") /\ report' = [NextStep EXCEPT !.saw = closed]
  /\ UNCHANGED <<setup, link, sequence, queues, batch, works, radio, made>>

ReportGo ==
  /\ AtStep("go") /\ report' = NoReport
  /\ IF report.saw \/ ~held
       THEN UNCHANGED <<held, armed>>
       ELSE held' = FALSE /\ armed' = armed \union {"jitter"}
  /\ UNCHANGED <<setup, link, bits, spreading, closed, queues, batch, swq, rwq, radio, made>>

\* app_radio_send_telemetry_now()
ReportNow ==
  /\ report.pc = 0 /\ link = "up"
  /\ MayCount("reports") /\ Counted("reports")
  /\ armed' = armed \ {"jitter"} /\ swq' = Enqueued(swq, "jitter")
  /\ UNCHANGED <<setup, link, sequence, queues, batch, rwq, radio, report>>

\* m_jitter_work
JitterOver ==
  /\ Runs("jitter") /\ swq' = Tail(swq)
  /\ held' = FALSE /\ tlm' = TRUE
  /\ UNCHANGED <<setup, link, bits, spreading, closed, stream, answers, alarms, batch, armed,
                 rwq, radio, report, made>>

-----------------------------------------------------------------------------
SystemQueue == Deadline \/ SpreadOver \/ PeriodicAnnounce \/ BatchWork \/ JitterOver
RadioQueue == AnnounceInfo \/ AnnounceSettings \/ Release \/ ReleaseReport \/ PageStream
Sends == SendAnswer \/ SendAlarm \/ SendReport
ReportThread == ReportMark \/ ReportLook \/ ReportGo

Next ==
  \/ SystemQueue
  \/ \E i \in SysItems \union RadioItems : Fires(i)
  \/ /\ ~SystemBusy
     /\ \/ RadioQueue \/ Sends \/ ReportThread
        \/ LinkUp \/ LinkDown
        \/ CommandAnswered \/ DatarateChanged
        \/ AlarmEdge \/ FlushPending
        \/ ReportDue \/ ReportNow

Spec == Init /\ [][Next]_vars

\* Timers expire and the system work queue is served; what it preempts, and the items that
\* share the radio work queue, get their turn again and again.  A frame goes some day.
Fairness ==
  /\ \A i \in SysItems \union RadioItems : WF_vars(Fires(i))
  /\ WF_vars(SystemQueue)
  /\ SF_vars(RadioQueue) /\ SF_vars(Sends) /\ SF_vars(ReportThread)

FairSpec == Spec /\ Fairness

-----------------------------------------------------------------------------
(* Properties *)

\* A closed sequence has its way out: the fallback deadline runs, or is due.
ClosedHasDeadline == closed => Pending("deadline")

\* A report that is marked as held is released by somebody: the closed sequence, the
\* release under way, or the thread that has not looked yet.
HeldIsReleased == held => closed \/ radio = "kick" \/ report.pc > 0 \/ Pending("jitter")

\* No batch is stranded: its work is due, or a link-up, a release or the next alarm taken
\* will flush it.
BatchAwaited ==
  batch.n > 0 =>
    \/ Pending("batch")
    \/ batch.held /\ (Hold # "none" \/ alarms > 0)

\* Every edge is in one report's total, in the batch, or was never given a page.
EdgesAccounted == batch.told + batch.silent + batch.total = made.edges

\* A link that is up has a periodic announce ahead of it.
AnnouncesAgain == setup.period /\ link = "up" => Pending("periodic")

\* Whatever the sequence holds back has somebody who lets it go.
AnnounceInv ==
  /\ TypeOK /\ ClosedHasDeadline /\ HeldIsReleased
  /\ BatchAwaited /\ EdgesAccounted /\ AnnouncesAgain

\* The release that kicks a held report has queued the held alarms ahead of it, unless
\* they wait for room.
AlarmsFirst ==
  [][ closed /\ ~closed' /\ batch.held
        => /\ "batch" \in ToSet(swq')
           /\ held /\ ~held' /\ "jitter" \notin ToSet(swq)
                => \E i, j \in DOMAIN swq' : i < j /\ swq'[i] = "batch" /\ swq'[j] = "jitter" ]_vars

\* A batch is told, or the link is lost.
BatchLeaves == batch.n > 0 /\ link = "up" ~> batch.n = 0 \/ link = "down"

=============================================================================
