------------------------------ MODULE LrwLink ------------------------------
(***************************************************************************)
(* The LoRaWAN link of app/src/app_radio_lrw.c, its state machine, join    *)
(* and link checks, under the link supervision of app/src/app_radio.c:     *)
(* WARNING, the recovery ladder and the rejoin.                            *)
(*                                                                         *)
(* All of it runs on the radio work queue.  An exchange (lorawan_send(),   *)
(* lorawan_join()) blocks that queue; meanwhile MAC callbacks and timers   *)
(* append work items, each at most once.  A timer may fire any time after  *)
(* it is started.  Frames other than the first of a report only open an    *)
(* exchange here (RadioTx schedules them).  The length of the rejoin       *)
(* backoff, the M-2 rule that calls rejoin(true) and a radio that is OFF   *)
(* are left out; a rung the MAC refuses is no rung.                        *)
(***************************************************************************)
EXTENDS Integers, SequencesExt

CONSTANTS
  Threshold,  \* APP_RADIO_LINK_WARNING_THRESHOLD
  Rejoin,     \* radio-link-check-fail-rejoin
  Interval,   \* radio-link-check-interval
  MaxPolls,   \* JOIN_BUSY_MAX_POLLS
  MaxRungs,   \* bound: steps from the best data rate to the floor of the ladder
  MaxStreak   \* bound: where the failure counts stop

ASSUME LinkAssumption ==
  /\ {Threshold, Interval, MaxPolls} \subseteq Nat \ {0}
  /\ Rejoin \in Nat /\ MaxRungs \in Nat /\ MaxStreak \in Nat /\ MaxStreak >= Threshold

VARIABLES
  otaa,         \* lrw-activation is OTAA, else ABP
  state,        \* m_state
  initJoin,     \* m_init_join
  polls,        \* m_join_busy_polls
  pollTimer,    \* m_join_complete_work waits for its time
  rejoinTimer,  \* m_rejoin_timer runs
  lcTimer,      \* m_lc_timeout_timer runs
  pending,      \* m_link_check_pending
  gateways,     \* m_lc_response_gw_count # 0
  queue,        \* work items of this backend on the radio work queue
  exchange,     \* what lorawan_join() / lorawan_send() is doing
  air,          \* app_radio_air_begin() without app_radio_air_end()
  request,      \* a LinkCheckReq is in the MAC, and the frame on air waits for its answer
  report,       \* m_tlm_flags of the report in hand
  link,         \* m_link
  forced,       \* m_link_forced
  rungs,        \* steps of the ladder still untried
  asked         \* history: checks on air since the link was last known good

joinVars == <<initJoin, polls>>
checkVars == <<gateways, request, report, forced>>
vars == <<otaa, state, joinVars, pollTimer, rejoinTimer, lcTimer, pending, checkVars,
          queue, exchange, air, link, rungs, asked>>

Works == {"join", "poll", "timeout", "downlink", "answer"}
LinkUp == [streak |-> 0, warning |-> FALSE, fails |-> 0, reports |-> 0]
NoRequest == [queued |-> FALSE, waited |-> FALSE]

\* Of the variables' types and the bounds the code keeps: one queue entry per
\* work item, polls below the limit.
TypeOK ==
  /\ otaa \in BOOLEAN /\ initJoin \in BOOLEAN /\ pollTimer \in BOOLEAN
  /\ rejoinTimer \in BOOLEAN /\ lcTimer \in BOOLEAN /\ pending \in BOOLEAN
  /\ gateways \in BOOLEAN /\ air \in BOOLEAN /\ forced \in BOOLEAN
  /\ state \in {"IDLE", "JOINING", "HEALTHY", "RECONNECT"}
  /\ polls \in 0..MaxPolls - 1
  /\ queue \in Seq(Works) /\ IsInjective(queue)
  /\ exchange \in {"none", "join", "report", "other"}
  /\ request \in [queued : BOOLEAN, waited : BOOLEAN]
  /\ report \in {"none", "plain", "check"}
  /\ link \in [streak : 0..MaxStreak, warning : BOOLEAN, fails : 0..MaxStreak,
               reports : 0..Interval - 1]
  /\ rungs \in 0..MaxRungs /\ asked \in 0..MaxStreak

Init ==
  /\ otaa \in BOOLEAN /\ state = "IDLE" /\ initJoin = TRUE /\ polls = 0
  /\ pollTimer = FALSE /\ rejoinTimer = FALSE /\ lcTimer = FALSE /\ pending = FALSE
  /\ gateways = FALSE /\ queue = <<>> /\ exchange = "none" /\ air = FALSE
  /\ request = NoRequest /\ report = "none" /\ link = LinkUp /\ forced = FALSE
  /\ rungs \in 0..MaxRungs /\ asked = 0

-----------------------------------------------------------------------------
\* k_work_submit_to_queue(): an item already queued stays where it is.
Submitted(w) == IF Contains(queue, w) THEN queue ELSE Append(queue, w)
Submit(w) == queue' = Submitted(w)

\* The queue takes its oldest item when nothing is running.
Runs(w) == exchange = "none" /\ queue # <<>> /\ Head(queue) = w

More(n) == IF n < MaxStreak THEN n + 1 ELSE n

\* Mutant: leaving JOINING forgets the exchange a lost join confirm left open.
ExitLeavesAirOpen(new, rest) ==
  /\ state' = new /\ pollTimer' = (pollTimer /\ state # "JOINING")
  /\ queue' = IF state = "JOINING" THEN RemoveFirst(rest, "poll") ELSE rest
  /\ lcTimer' = (lcTimer /\ state # "HEALTHY") /\ pending' = (pending /\ state # "HEALTHY")
  /\ rejoinTimer' = (new = "RECONNECT") /\ air' = air
\* Exit actions of the old state, then entry actions of the new one.  Every
\* state but RECONNECT has the rejoin timer stopped.
StateTransition(new, rest) ==
  /\ state' = new
  /\ pollTimer' = (pollTimer /\ state # "JOINING")
  /\ queue' = IF state = "JOINING" THEN RemoveFirst(rest, "poll") ELSE rest
  /\ air' = (air /\ state # "JOINING")
  /\ lcTimer' = (lcTimer /\ state # "HEALTHY")
  /\ pending' = (pending /\ state # "HEALTHY")
  /\ rejoinTimer' = (new = "RECONNECT")

Stays(rest) ==
  /\ queue' = rest
  /\ UNCHANGED <<state, pollTimer, rejoinTimer, lcTimer, pending, air>>
-----------------------------------------------------------------------------
\* app_radio_lrw_join(): at boot, on a join command, from calibration.
JoinAsked ==
  /\ Submit("join")
  /\ UNCHANGED <<otaa, state, joinVars, pollTimer, rejoinTimer, lcTimer, pending, checkVars,
                 exchange, air, link, rungs, asked>>

\* A timer's ISR submits its work item.
RejoinTimerFires ==
  /\ rejoinTimer /\ rejoinTimer' = FALSE
  /\ Submit("join")
  /\ UNCHANGED <<otaa, state, joinVars, pollTimer, lcTimer, pending, checkVars,
                 exchange, air, link, rungs, asked>>

LcTimerFires ==
  /\ lcTimer /\ lcTimer' = FALSE
  /\ Submit("timeout")
  /\ UNCHANGED <<otaa, state, joinVars, pollTimer, rejoinTimer, pending, checkVars,
                 exchange, air, link, rungs, asked>>

PollTimerFires ==
  /\ pollTimer /\ pollTimer' = FALSE
  /\ Submit("poll")
  /\ UNCHANGED <<otaa, state, joinVars, rejoinTimer, lcTimer, pending, checkVars,
                 exchange, air, link, rungs, asked>>

\* A join work item that finds a join in progress.
JoinIgnored ==
  /\ Runs("join") /\ state = "JOINING"
  /\ Stays(Tail(queue))
  /\ UNCHANGED <<otaa, joinVars, checkVars, exchange, link, rungs, asked>>

\* join_work_handler() up to lorawan_join().
JoinStarts ==
  /\ Runs("join") /\ state # "JOINING"
  /\ state' = "JOINING" /\ queue' = Tail(queue)
  /\ rejoinTimer' = FALSE /\ lcTimer' = FALSE /\ pending' = FALSE
  /\ polls' = 0 /\ exchange' = "join" /\ air' = TRUE
  /\ request' = NoRequest
  /\ UNCHANGED <<otaa, initJoin, pollTimer, gateways, report, forced, link, rungs, asked>>

\* A rejoin whose MAC re-init fails: JOINING is left at once.
RestartFails ==
  /\ Runs("join") /\ state # "JOINING" /\ ~initJoin
  /\ state' = "RECONNECT" /\ queue' = Tail(queue)
  /\ rejoinTimer' = TRUE /\ lcTimer' = FALSE /\ pending' = FALSE
  /\ request' = NoRequest
  /\ UNCHANGED <<otaa, joinVars, pollTimer, gateways, exchange, air, report, forced, link,
                 rungs, asked>>

\* lorawan_join() returned 0 or -ETIMEDOUT: the MAC is polled; a lost confirm
\* keeps the exchange open.
JoinReturns(lost) ==
  /\ exchange = "join" /\ exchange' = "none"
  /\ air' = lost /\ pollTimer' = TRUE
  /\ UNCHANGED <<otaa, state, joinVars, rejoinTimer, lcTimer, pending, checkVars, queue,
                 link, rungs, asked>>

\* Any other error of lorawan_join().
JoinRefused ==
  /\ exchange = "join" /\ exchange' = "none"
  /\ StateTransition("RECONNECT", queue)
  /\ UNCHANGED <<otaa, joinVars, checkVars, link, rungs, asked>>

PollBusy ==
  /\ Runs("poll") /\ polls + 1 < MaxPolls
  /\ polls' = polls + 1 /\ pollTimer' = TRUE /\ queue' = Tail(queue)
  /\ UNCHANGED <<otaa, state, initJoin, rejoinTimer, lcTimer, pending, checkVars, exchange,
                 air, link, rungs, asked>>

\* The MAC stayed busy up to the limit, or is not activated.  (polls is dead
\* until the next join sets it.)
JoinFails ==
  /\ Runs("poll")
  /\ StateTransition("RECONNECT", Tail(queue))
  /\ UNCHANGED <<otaa, joinVars, checkVars, exchange, link, rungs, asked>>

\* on_join_success() and app_radio_link_up(); the MAC has its default power
\* and the region's or the configured data rate.
JoinSucceeds ==
  /\ Runs("poll")
  /\ StateTransition("HEALTHY", Tail(queue))
  /\ initJoin' = FALSE /\ link' = LinkUp /\ forced' = FALSE /\ asked' = 0
  /\ rungs' \in 0..MaxRungs
  /\ UNCHANGED <<otaa, polls, gateways, request, report, exchange>>

-----------------------------------------------------------------------------
\* report_flags(): a due check rides, unless one is still unanswered.
Flags == ~pending /\ (forced \/ link.warning \/ link.reports = 0)

\* Compose or keep the report's first frame.
ReportInHand ==
  /\ state = "HEALTHY" /\ exchange = "none"
  /\ report' = IF report # "none" THEN report ELSE IF Flags THEN "check" ELSE "plain"
  /\ forced' = (forced /\ ~(report = "none" /\ Flags))

\* The duty cycle holds it, or the backend finds no room.
ReportHeld ==
  /\ ReportInHand /\ report = "none"
  /\ UNCHANGED <<otaa, state, joinVars, pollTimer, rejoinTimer, lcTimer, pending, gateways,
                 request, queue, exchange, air, link, rungs, asked>>

\* lrw_tx_send() up to lorawan_send(); the MAC may refuse the request.
ReportStarts ==
  /\ ReportInHand
  /\ exchange' = "report" /\ air' = TRUE
  /\ \E ok \in BOOLEAN :
       LET asks == ok /\ report' = "check" IN
         /\ pending' = (pending \/ asks)
         /\ request' = [queued |-> request.queued \/ asks, waited |-> asks]
  /\ UNCHANGED <<otaa, state, joinVars, pollTimer, rejoinTimer, lcTimer, gateways, queue,
                 link, rungs, asked>>

\* Reports, not frames, drive the cadence of the checks.
Counted == [link EXCEPT !.reports = (@ + 1) % Interval]

\* lorawan_send() sent it; complete: its last frame, and the report counts.
ReportSent(complete) ==
  /\ exchange = "report" /\ exchange' = "none" /\ air' = FALSE
  /\ report' = "none" /\ request' = NoRequest
  /\ lcTimer' = (lcTimer \/ request.waited)
  /\ asked' = IF request.waited THEN More(asked) ELSE asked
  /\ link' = IF complete THEN Counted ELSE link
  /\ UNCHANGED <<otaa, state, joinVars, pollTimer, rejoinTimer, pending, gateways, queue,
                 forced, rungs>>

\* Mutant: a check whose frame never left stays pending.
UnsentStaysPending == pending
\* A check whose frame did not leave is no longer pending; the MAC keeps the request.
UnsentPending == pending /\ ~request.waited

\* The frame is kept for a retry, or dropped: the rest of the report may
\* still leave (-EMSGSIZE) and complete it.
ReportFails ==
  /\ exchange = "report" /\ exchange' = "none" /\ air' = FALSE
  /\ pending' = UnsentPending
  /\ request' = [request EXCEPT !.waited = FALSE]
  /\ \/ report' = "none" /\ link' \in {link, Counted}
     \/ UNCHANGED <<report, link>>
  /\ UNCHANGED <<otaa, state, joinVars, pollTimer, rejoinTimer, lcTimer, gateways, queue,
                 forced, rungs, asked>>

\* A report of a link that is down is closed.
ReportDropped ==
  /\ state # "HEALTHY" /\ exchange = "none" /\ report # "none"
  /\ report' = "none"
  /\ UNCHANGED <<otaa, state, joinVars, pollTimer, rejoinTimer, lcTimer, pending, gateways,
                 request, queue, exchange, air, forced, link, rungs, asked>>

\* Any other frame, or an empty one: an exchange, and it carries the requests
\* the MAC still has.
OtherStarts ==
  /\ state = "HEALTHY" /\ exchange = "none"
  /\ exchange' = "other" /\ air' = TRUE
  /\ UNCHANGED <<otaa, state, joinVars, pollTimer, rejoinTimer, lcTimer, pending, checkVars,
                 queue, link, rungs, asked>>

OtherEnds ==
  /\ exchange = "other" /\ exchange' = "none" /\ air' = FALSE
  /\ request' \in {request, NoRequest}
  /\ UNCHANGED <<otaa, state, joinVars, pollTimer, rejoinTimer, lcTimer, pending, gateways,
                 report, forced, queue, link, rungs, asked>>
-----------------------------------------------------------------------------
Receiving == exchange \in {"report", "other"}

\* downlink_callback(); with it ADR may have raised power and data rate.
MacDownlink ==
  /\ Receiving /\ Submit("downlink")
  /\ rungs' \in rungs..MaxRungs
  /\ UNCHANGED <<otaa, state, joinVars, pollTimer, rejoinTimer, lcTimer, pending, checkVars,
                 exchange, air, link, asked>>

\* link_check_callback(): the answer to the request in this frame.
MacAnswer ==
  /\ Receiving /\ request.queued /\ Submit("answer")
  /\ gateways' \in BOOLEAN
  /\ request' = [request EXCEPT !.queued = FALSE]
  /\ UNCHANGED <<otaa, state, joinVars, pollTimer, rejoinTimer, lcTimer, pending, exchange,
                 air, report, forced, link, rungs, asked>>

\* app_radio_force_link_check(), any thread.
ForceCheck ==
  /\ ~forced /\ forced' = TRUE
  /\ UNCHANGED <<otaa, state, joinVars, pollTimer, rejoinTimer, lcTimer, pending, gateways,
                 request, report, queue, exchange, air, link, rungs, asked>>

\* Resolves the pending check without a result of its own.
Resolved == lcTimer' = FALSE /\ pending' = FALSE

\* app_radio_link_result(true).
LinkGood ==
  /\ link' = [LinkUp EXCEPT !.reports = link.reports] /\ asked' = 0
  /\ Resolved /\ queue' = Tail(queue)
  /\ UNCHANGED <<state, pollTimer, rejoinTimer, air, rungs>>

Failed(warning) == [link EXCEPT !.streak = More(@), !.warning = warning]

\* This failure is the one that makes the link WARNING.
Warns == link.streak + 1 >= Threshold

\* lrw_backoff_step(): a rung if one is left.
Step == rungs' = IF rungs > 0 THEN rungs - 1 ELSE 0

\* A failure while the link was good; the one that makes it WARNING takes a rung.
FailsInHealthy ==
  /\ ~link.warning
  /\ link' = Failed(Warns)
  /\ IF Warns THEN Step ELSE UNCHANGED rungs
  /\ Resolved /\ queue' = Tail(queue)
  /\ UNCHANGED <<state, pollTimer, rejoinTimer, air>>

\* Mutant: the rejoin budget counts whether or not a rung was taken.
SpentAnyway == link.fails + 1 >= (IF Rejoin > 1 THEN Rejoin ELSE 1)
\* No rung was left and the budget is used up.
Spent == rungs = 0 /\ link.fails + 1 >= (IF Rejoin > 1 THEN Rejoin ELSE 1)

\* A failure in WARNING: a rung, or a rejoin, which ABP refuses.
FailsInWarning ==
  /\ link.warning /\ Step
  /\ link' = [Failed(TRUE) EXCEPT !.fails = IF Spent /\ ~otaa THEN 0 ELSE More(@)]
  /\ IF Spent /\ otaa
       THEN StateTransition("RECONNECT", Tail(queue))
       ELSE Resolved /\ queue' = Tail(queue) /\ UNCHANGED <<state, pollTimer, rejoinTimer, air>>

\* app_radio_link_result(false).
LinkBad == (FailsInHealthy \/ FailsInWarning) /\ UNCHANGED asked

Handler(w) ==
  /\ Runs(w)
  /\ UNCHANGED <<otaa, joinVars, checkVars, exchange>>

Ignored ==
  /\ queue' = Tail(queue)
  /\ UNCHANGED <<state, pollTimer, rejoinTimer, lcTimer, pending, air, link, rungs, asked>>

\* on_lc_timeout()
TimeoutWork ==
  /\ Handler("timeout")
  /\ IF state = "HEALTHY" /\ pending THEN LinkBad ELSE Ignored

\* on_downlink_received(): any downlink proves the link.
DownlinkWork ==
  /\ Handler("downlink")
  /\ IF state = "HEALTHY" THEN LinkGood ELSE Ignored

\* lc_response_work_handler() counts the answer of the pending check only.
AnswerCounts == state = "HEALTHY" /\ pending

AnswerWork ==
  /\ Handler("answer")
  /\ IF ~AnswerCounts THEN Ignored ELSE IF gateways THEN LinkGood ELSE LinkBad

\* stale_tick() finds the node mute (M-2): lrw_tx_rejoin(true).
StaleRejoin ==
  /\ state = "HEALTHY" /\ exchange = "none"
  /\ StateTransition("RECONNECT", queue)
  /\ UNCHANGED <<otaa, joinVars, checkVars, link, rungs, asked, exchange>>

Timers == RejoinTimerFires \/ LcTimerFires \/ PollTimerFires
Join == JoinIgnored \/ JoinStarts \/ RestartFails
JoinExchange == JoinRefused \/ \E lost \in BOOLEAN : JoinReturns(lost)
Poll == PollBusy \/ JoinFails \/ JoinSucceeds
LinkWork == TimeoutWork \/ DownlinkWork \/ AnswerWork
ReportEnds == ReportFails \/ \E complete \in BOOLEAN : ReportSent(complete)
Mac == MacDownlink \/ MacAnswer

Next ==
  \/ JoinAsked \/ Timers \/ Join \/ JoinExchange \/ Poll
  \/ ReportHeld \/ ReportStarts \/ ReportEnds \/ ReportDropped
  \/ OtherStarts \/ OtherEnds \/ Mac \/ ForceCheck \/ LinkWork \/ StaleRejoin

Spec == Init /\ [][Next]_vars

\* The work queue runs what is queued, the timer of the state fires, calls
\* into the MAC return.
Scheduling ==
  /\ SF_vars(Join \/ Poll \/ LinkWork)
  /\ WF_vars(Timers)
  /\ WF_vars(JoinExchange \/ ReportEnds \/ OtherEnds)

\* Reports keep coming, the MAC takes some of their requests, and some of
\* those reports are sent whole.
Reporting ==
  /\ SF_vars(ReportStarts) /\ SF_vars(ReportStarts /\ request'.waited)
  /\ SF_vars(ReportSent(TRUE)) /\ SF_vars(ReportSent(TRUE) /\ request.waited)

FairSpec == Spec /\ Scheduling /\ Reporting

-----------------------------------------------------------------------------
\* A link check that is pending is going to be resolved: its frame is on air,
\* its timeout runs or is queued.  Otherwise report_flags() would never ask
\* again and a deaf node would look healthy (on_lc_timeout(), lrw_tx_send()).
CheckIsWatched ==
  pending => request.waited \/ lcTimer \/ Contains(queue, "timeout")

\* A state without a session always has a next step: the rejoin timer, a
\* queued join, the join exchange or the poll of the MAC (state_transition(),
\* join_work_handler(), the re-entry guard MED-10).
JoinGoesOn ==
  /\ state = "RECONNECT" => rejoinTimer \/ Contains(queue, "join")
  /\ state = "JOINING" => exchange = "join" \/ pollTimer \/ Contains(queue, "poll")

\* Outside an exchange the air is held only by a join whose confirm was lost,
\* and never past JOINING: flash writers wait for it (#485 R10).
AirIsReleased == air => exchange # "none" \/ state = "JOINING"

\* Only a check that was on air counts against the link, and once: a late
\* answer, a stale timeout or a downlink in between adds nothing (#340 M13).
FailuresWereAsked == link.streak <= asked

\* Nothing the link has under way is left without its next step, and what it counts
\* has happened.
LinkInv == TypeOK /\ CheckIsWatched /\ JoinGoesOn /\ AirIsReleased /\ FailuresWereAsked

\* A rejoin, which costs the session and a DevNonce, is not spent by the link
\* supervision while a rung is untried (app_radio.c, app_radio_link_result()).
\* The M-2 rejoin leaves m_link alone.
RejoinAtTheFloor ==
  [][state = "HEALTHY" /\ state' = "RECONNECT" /\ link' # link => rungs = 0 /\ otaa]_vars

\* A node that hears nothing any more leaves its session (OTAA; ABP keeps it).
DeafNodeRejoins == otaa /\ <>[][~Mac]_vars => []<>(state # "HEALTHY")
=============================================================================
