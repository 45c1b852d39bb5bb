----------------------------- MODULE StaleWatch -----------------------------
(***************************************************************************)
(* The M-2 watch of app/src/app_radio.c and app_radio.h: a joined node      *)
(* whose telemetry does not leave rejoins, unless the duty cycle explains   *)
(* it.                                                                      *)
(*                                                                         *)
(* Three paths bring frames to the radio: the queued frame in hand and the  *)
(* report share m_tx_work, in this order; the replay has its own work item. *)
(* A send is held for a known time, refused by the MAC, failed, or sent.    *)
(* Uptimes are ages: a stamp is the ticks since it was taken, the end of a  *)
(* hold the ticks it is ahead; an age stops where the code no longer tells  *)
(* it from an older one.  The heartbeat is far shorter than a tick.         *)
(***************************************************************************)
EXTENDS Integers

CONSTANTS
  ReportIntervals,   \* interval_report
  StaleFactor,       \* APP_RADIO_STALE_FACTOR
  DcHoldMax,         \* APP_RADIO_STALE_DC_HOLD_MAX_MS
  DcRecentMargin,    \* APP_RADIO_STALE_DC_RECENT_MARGIN_MS
  LongestHold,       \* the window of the duty cycle, or the longest network backoff
  Holds              \* how long a hold may be

ASSUME StaleAssumption ==
  /\ ReportIntervals \subseteq Nat \ {0} /\ StaleFactor \in Nat \ {0}
  /\ DcHoldMax \in Nat /\ DcRecentMargin \in Nat /\ LongestHold \in Nat /\ Holds \subseteq 1..LongestHold

Never == -1                         \* the age of a stamp that is 0
Paths == {"queued", "report", "replay"}
NoWait == [left |-> 0, age |-> Never]

VARIABLES
  interval,     \* interval_report, fixed
  healthy,      \* get_state() = HEALTHY
  lastUplink,   \* age of m_last_uplink_ms
  dc,           \* m_dc: ages of since and last, ticks until until
  frames,       \* the paths that have a frame: how long it is held yet, and (history), of a
                \* frame whose hold was the first since a frame went, since when
  beaten,       \* the heartbeat ran in this tick
  silence       \* history: ticks since a frame went, the link came up or a rejoin was asked

watchVars == <<interval, healthy, lastUplink, dc, frames, beaten, silence>>

Stale  == StaleFactor * interval
Recent == interval + DcRecentMargin

\* The end of a hold so long over that it excuses nothing: the same as none.
LongOver == -(Recent + 1)
NoStreak == [since |-> Never, last |-> Never, until |-> LongOver]

Ages(cap) == {Never} \union 0..cap
WatchType ==
  /\ interval \in ReportIntervals /\ healthy \in BOOLEAN /\ beaten \in BOOLEAN
  /\ lastUplink \in 0..Stale + 1 /\ silence \in 0..Stale + DcHoldMax + 2
  /\ dc \in [since : Ages(DcHoldMax), last : Ages(Recent + 1), until : LongOver..LongestHold]
  /\ DOMAIN frames \subseteq Paths
  /\ frames \in [DOMAIN frames -> [left : 0..LongestHold, age : Ages(DcHoldMax)]]

WatchInit ==
  /\ interval \in ReportIntervals /\ healthy = TRUE /\ lastUplink = 0 /\ dc = NoStreak
  /\ frames = [p \in {} |-> NoWait] /\ beaten = FALSE /\ silence = 0

-----------------------------------------------------------------------------
(* app_radio_stale_note(), _note_hold(), _check() *)

\* Mutant: a frame that goes clears the streak of a hold that still runs.
NoteSentAlways(d) == NoStreak
NoteSent(d) == IF d.until > 0 THEN d ELSE NoStreak

\* Mutant: every held send starts the streak anew.
NoteHeldAgain(d) == [d EXCEPT !.since = 0, !.last = 0]
NoteHeld(d) == [d EXCEPT !.since = IF @ = Never THEN 0 ELSE @, !.last = 0]

NoteHold(d, hold) ==
  LET e == NoteHeld(d) IN [e EXCEPT !.until = IF hold > @ THEN hold ELSE @]

SinceHeld(d) == IF -d.until < d.last THEN -d.until ELSE d.last

Explained(d) == d.since # Never /\ SinceHeld(d) <= Recent /\ d.since < DcHoldMax

StaleCheck(d) ==
  IF lastUplink <= Stale THEN "ok" ELSE IF Explained(d) THEN "hold" ELSE "rejoin"

-----------------------------------------------------------------------------
(* The sends *)

HasFrame(p)   == p \in DOMAIN frames
Put(p, w) == [q \in DOMAIN frames \union {p} |-> IF q = p THEN w ELSE frames[q]]
Drop(p)  == [q \in DOMAIN frames \ {p} |-> frames[q]]

\* A frame is queued, a report is requested or a replay started.
Arrives(p) ==
  /\ healthy /\ ~HasFrame(p) /\ (p = "report" => ~HasFrame("replay"))
  /\ frames' = Put(p, NoWait)
  /\ UNCHANGED <<interval, healthy, lastUplink, dc, beaten, silence>>

\* A run of a work item that gets to the path's frame; a kick may come within its hold,
\* but a frame that waits for its hold alone is not tried before.
Tries(p) == healthy /\ HasFrame(p) /\ (p = "report" => ~HasFrame("queued"))

Waits(w, hold) == [left |-> hold, age |-> IF dc.since = Never THEN 0 ELSE w.age]

\* tx_send() holds it: the ledger, or a network backoff.
LedgerHolds(p) ==
  /\ Tries(p)
  /\ \E hold \in Holds :
       /\ hold >= frames[p].left
       /\ dc' = NoteHold(dc, hold)
       /\ frames' = [frames EXCEPT ![p] = Waits(@, hold)]
  /\ UNCHANGED <<interval, healthy, lastUplink, beaten, silence>>

\* The LoRaWAN MAC refuses it for its own credits (-ECONNREFUSED).
MacRefuses(p) ==
  /\ Tries(p) /\ frames[p].left = 0
  /\ dc' = NoteHeld(dc)
  /\ frames' = [frames EXCEPT ![p] = Waits(@, 0)]
  /\ UNCHANGED <<interval, healthy, lastUplink, beaten, silence>>

\* It goes: a report's and a replay's frame tell that the channel is alive.
Sent(p) ==
  /\ Tries(p) /\ frames[p].left = 0
  /\ dc' = NoteSent(dc)
  /\ frames' = Drop(p)
  /\ lastUplink' = IF p = "queued" THEN lastUplink ELSE 0
  /\ silence' = 0
  /\ UNCHANGED <<interval, healthy, beaten>>

\* A confirmed frame goes, its Ack does not come, and it waits to be sent again.
Unacked(p) ==
  /\ Tries(p) /\ frames[p].left = 0
  /\ dc' = NoteSent(dc)
  /\ frames' = Put(p, NoWait)
  /\ silence' = 0
  /\ UNCHANGED <<interval, healthy, lastUplink, beaten>>

\* An alarm passes the network backoff that holds the others.
AlarmPasses ==
  /\ healthy /\ \E p \in DOMAIN frames : frames[p].left > 0
  /\ dc' = NoteSent(dc) /\ silence' = 0
  /\ UNCHANGED <<interval, healthy, lastUplink, frames, beaten>>

\* The radio fails it for the last time, a report was held for its interval, or
\* the replay is dropped.
Dropped(p) ==
  /\ HasFrame(p) /\ frames' = Drop(p)
  /\ UNCHANGED <<interval, healthy, lastUplink, dc, beaten, silence>>

-----------------------------------------------------------------------------
(* The watch *)

Rejoins == StaleCheck(dc) = "rejoin"

\* heartbeat_work_handler(): stale_tick().  A backend may refuse the rejoin (a TOWER pairing,
\* no key): it is asked again an age later.
Heartbeat ==
  /\ ~beaten /\ beaten' = TRUE
  /\ \/ healthy /\ Rejoins /\ lastUplink' = 0 /\ silence' = 0 /\ healthy' \in BOOLEAN
     \/ ~(healthy /\ Rejoins) /\ UNCHANGED <<lastUplink, silence, healthy>>
  /\ UNCHANGED <<interval, dc, frames>>

\* app_radio_link_up(): the frames go on, bar the replay.
SessionUp ==
  /\ ~healthy /\ healthy' = TRUE
  /\ lastUplink' = 0 /\ dc' = NoStreak /\ silence' = 0
  /\ frames' = [p \in DOMAIN frames \ {"replay"} |-> NoWait]
  /\ UNCHANGED <<interval, beaten>>

Grown(age, cap) == IF age = Never \/ age = cap THEN age ELSE age + 1
Nearer(left, least) == IF left = least THEN left ELSE left - 1

\* Another tick, after the heartbeat of the last one.
Passes ==
  /\ beaten /\ beaten' = FALSE
  /\ lastUplink' = Grown(lastUplink, Stale + 1)
  /\ dc' = [since |-> Grown(dc.since, DcHoldMax), last |-> Grown(dc.last, Recent + 1),
            until |-> Nearer(dc.until, LongOver)]
  /\ frames' = [p \in DOMAIN frames |->
                  [left |-> Nearer(frames[p].left, 0), age |-> Grown(frames[p].age, DcHoldMax)]]
  /\ silence' = Grown(silence, Stale + DcHoldMax + 2)
  /\ UNCHANGED <<interval, healthy>>

WatchNext ==
  \/ \E p \in Paths :
       Arrives(p) \/ LedgerHolds(p) \/ MacRefuses(p) \/ Sent(p) \/ Unacked(p) \/ Dropped(p)
  \/ AlarmPasses \/ Heartbeat \/ SessionUp \/ Passes
WatchSpec == WatchInit /\ [][WatchNext]_watchVars

-----------------------------------------------------------------------------
(* Properties *)

\* A healthy link on which nothing goes is rejoined: the excuse of the duty cycle ends.
MuteIsBounded == healthy => silence <= Stale + DcHoldMax + 1

WatchInv == WatchType /\ MuteIsBounded

\* The watch does not rejoin a node one of whose frames waits for a hold to end: not when
\* other frames go meanwhile, which fit, until the frame has waited for as long as the watch
\* excuses (F-HIL-10).  A frame that is held when others wait already shares their streak.
HoldsAreExcused ==
  [][healthy /\ ~beaten /\ beaten' /\ Rejoins =>
       \A p \in DOMAIN frames :
         frames[p].left > 0 /\ frames[p].age # Never => frames[p].age = DcHoldMax]_watchVars
=============================================================================
