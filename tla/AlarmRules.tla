----------------------------- MODULE AlarmRules -----------------------------
(***************************************************************************)
(* The rule latches of app/src/app_alarm.c: what one evaluation, by the    *)
(* poll or by an event, makes of the runtime latch of one rule.            *)
(*                                                                         *)
(* Each operator returns the latch after, with the edges it collected, in  *)
(* order.  Times are counted down: a deadline is the ticks it is away, due *)
(* at 0; the age of a counting window is counted up and saturates.         *)
(***************************************************************************)
EXTENDS Integers, Sequences

CONSTANTS
  MaxHold,      \* bound: the longest hold of a rule, in ticks
  RateHi,       \* hi of the rate rules
  Wide,         \* 2^32, the width of a counter
  RateWindow,   \* interval_report, the window of a rate rule without a hold
  Lo, Hi        \* the band of the threshold rules

ASSUME AlarmAssumption ==
  /\ {MaxHold, RateWindow} \subseteq Nat
  /\ {RateHi, Wide} \subseteq Nat \ {0} /\ Lo \in Int /\ Hi \in Int /\ Lo < Hi

\* A NaN reading, a deadline that is not armed, a baseline or level not seen.
None == -1
NoRule == [kind |-> "none"]

(* kind "state" is a digital level, "pulse" a channel that only asserts      *)
(* (APP_SENSOR_F_MOMENTARY).  hold is `dwell`: ticks, or the deadband of a   *)
(* threshold.  w1: the rule is on a 1-Wire slot.  tag: what else tells two   *)
(* rules apart (the target).                                                 *)
IsEdge(r)      == r.kind \in {"state", "pulse"} /\ r.from # r.to
IsStillness(r) == r.kind = "pulse" /\ r.from = 0 /\ r.to = 0
IsMotion(r)    == r.kind = "pulse" /\ r.from = 1 /\ r.to = 1

NoLatch == [used |-> FALSE, active |-> FALSE, type |-> "none", prev |-> None,
            base |-> None, window |-> 0, expiry |-> None, confirm |-> None,
            last |-> NoRule]

\* One tick of the clock.
Older(t) == IF t > 0 THEN t - 1 ELSE t
Aged(rt) ==
  [rt EXCEPT !.expiry = Older(@), !.confirm = Older(@),
             !.window = IF @ < MaxHold + RateWindow THEN @ + 1 ELSE @]

\* The activation of an edge rule is a message: its hold ends without an edge.
Edge(act, r, type) ==
  [act |-> act, tag |-> r.tag, type |-> type, message |-> act /\ IsEdge(r)]
Same(rt)           == [rt |-> rt, edges |-> <<>>]
Raised(rt, r, type) ==
  [rt |-> [rt EXCEPT !.active = TRUE], edges |-> <<Edge(TRUE, r, type)>>]
Cleared(rt, r, type) ==
  [rt |-> [rt EXCEPT !.active = FALSE],
   edges |-> IF rt.active THEN <<Edge(FALSE, r, type)>> ELSE <<>>]
\* The edges of an earlier part of the same evaluation come first.
After(first, out) == [out EXCEPT !.edges = first.edges \o @]

\* rt_edge_type().
EdgeType(rt) == IF rt.type = "none" THEN "trigger" ELSE rt.type

(* rt_sync(): the latch of a rule that is gone or changed is reset, and an   *)
(* alarm it held is ended under the old rule.                                *)
Synced(rt, r) ==
  LET ended == Cleared(rt, rt.last, EdgeType(rt)) IN
  CASE r = NoRule                        -> [ended EXCEPT !.rt = NoLatch]
    [] r # NoRule /\ rt.used /\ rt.last = r -> Same(rt)
    [] OTHER -> [ended EXCEPT !.rt = [NoLatch EXCEPT !.used = TRUE, !.last = r]]

\* eval_threshold(); on: the rule is armed.
Side(v) == IF v < Lo THEN "low" ELSE IF v > Hi THEN "high" ELSE "none"
PastBand(r, type, v) ==
  IF type = "high" THEN v < Hi - r.hold ELSE v > Lo + r.hold
Threshold(rt, r, on, v) ==
  LET want  == Side(v)
      raise == [Raised(rt, r, want) EXCEPT !.rt.type = want]
  IN CASE ~on \/ v = None -> Cleared(rt, r, rt.type)
       [] on /\ v # None /\ ~rt.active /\ want = "none" -> Same(rt)
       [] on /\ v # None /\ ~rt.active /\ want # "none" -> raise
       [] OTHER ->
            IF want = rt.type \/ (want = "none" /\ ~PastBand(r, rt.type, v)) THEN Same(rt)
            ELSE After(Cleared(rt, r, rt.type),
                       IF want = "none" THEN Same([rt EXCEPT !.active = FALSE]) ELSE raise)

Disabled(rt, r, cur) ==
  LET out == Cleared(rt, r, "trigger")
      lat == [out.rt EXCEPT !.confirm = None, !.prev = cur]
  IN [out EXCEPT !.rt = IF rt.active THEN [lat EXCEPT !.expiry = None] ELSE lat]

(* eval_state() on a pulse channel: a stillness rule takes an event as its   *)
(* end; any other fires on it and holds.                                     *)
Stillness(rt, r, cur) ==
  IF cur = 1 THEN Cleared([rt EXCEPT !.confirm = r.hold, !.prev = cur], r, "trigger")
  ELSE Same([rt EXCEPT !.prev = cur])

Lapsed(rt, r) ==
  IF ~(rt.active /\ rt.expiry = 0) THEN Same(rt)
  ELSE LET out == Cleared([rt EXCEPT !.expiry = None], r, "trigger")
       IN IF IsEdge(r) THEN [out EXCEPT !.edges = <<>>] ELSE out
Pulse(rt0, r, cur) ==
  LET lapsed == Lapsed(rt0, r)
      rt     == [lapsed.rt EXCEPT !.prev = cur]
  IN After(lapsed,
       IF cur = 1 /\ ~rt.active THEN [Raised(rt, r, "trigger") EXCEPT !.rt.expiry = r.hold]
       ELSE IF cur = 1 /\ ~IsEdge(r) THEN Same([rt EXCEPT !.expiry = r.hold])
       ELSE Same(rt))

\* eval_state() on a level, an edge rule: confirmed, fired, then held.
EdgeRule(rt0, r, cur) ==
  LET rt   == [rt0 EXCEPT !.prev = cur]
      turn == rt0.prev = r.from /\ cur = r.to
  IN CASE turn /\ rt0.confirm = None /\ r.hold = 0 ->
            [Raised(rt, r, "trigger") EXCEPT !.rt.expiry = 0]
       [] turn /\ rt0.confirm = None /\ r.hold > 0 -> Same([rt EXCEPT !.confirm = r.hold])
       [] rt0.confirm # None /\ cur # r.to -> Same([rt EXCEPT !.confirm = None])
       [] rt0.confirm = 0 /\ cur = r.to ->
            [Raised([rt EXCEPT !.confirm = None], r, "trigger") EXCEPT !.rt.expiry = r.hold]
       [] OTHER -> Same(rt)

\* A level rule: active while the level is at `to`, after its dwell.
LevelRule(rt0, r, cur) ==
  LET rt == [rt0 EXCEPT !.prev = cur]
  IN CASE cur # r.to -> Cleared([rt EXCEPT !.confirm = None], r, "trigger")
       [] cur = r.to /\ rt.active -> Same(rt)
       [] cur = r.to /\ ~rt.active /\ (r.hold = 0 \/ rt.confirm = 0) ->
            [Raised(rt, r, "trigger") EXCEPT
               !.rt.confirm = IF r.hold = 0 THEN @ ELSE None]
       [] OTHER -> Same([rt EXCEPT !.confirm = IF @ = None THEN r.hold ELSE @])

\* eval_state().
State(rt, r, on, cur) ==
  IF ~on THEN Disabled(rt, r, cur)
  ELSE IF IsStillness(r) THEN Stillness(rt, r, cur)
  ELSE IF r.kind = "pulse" THEN Pulse(rt, r, cur)
  ELSE IF IsEdge(r) THEN EdgeRule(rt, r, cur)
  ELSE LevelRule(rt, r, cur)

\* eval_count(): a tumbling window that fires early.
Window(r) == IF r.hold > 0 THEN r.hold ELSE RateWindow
\* Mutant: the difference is taken whatever the counter did.
FellNever(rt, cur) == FALSE
Fell(rt, cur) == cur < rt.base
Count(rt, r, on, cur) ==
  LET anew   == [rt EXCEPT !.base = cur, !.window = 0]
      over   == (cur - rt.base) % Wide >= RateHi
      closed == rt.window >= Window(r)
  IN CASE rt.base = None \/ ~on -> Cleared(anew, r, "trigger")
       [] rt.base # None /\ on /\ Fell(rt, cur) -> Same(anew)
       [] OTHER ->
            IF ~rt.active THEN (IF over THEN Raised(anew, r, "trigger")
                                ELSE IF closed THEN Same(anew) ELSE Same(rt))
            ELSE (IF ~closed THEN Same(rt)
                  ELSE IF over THEN Same(anew) ELSE Cleared(anew, r, "trigger"))

(* eval_rule(): in is what the poll reads, `reads` whether the channel of    *)
(* the rule can be read at all.  A pulse channel is never polled; a level    *)
(* that cannot be read still ends the alarm of a rule that is off.           *)
EvalRule(rt, r, on, reads, in) ==
  CASE r.kind = "threshold" -> Threshold(rt, r, on, IF reads THEN in.value ELSE None)
    [] r.kind = "rate"      -> Count(rt, r, on, in.count)
    [] r.kind = "state"     ->
         IF reads \/ (~on /\ rt.active)
           THEN State(rt, r, on, IF reads THEN in.level ELSE IF rt.prev = 1 THEN 1 ELSE 0)
           ELSE Same(rt)
    [] OTHER -> Same(rt)

(* The sweep of the poll over a latch in use: stillness is armed and raised, *)
(* and a hold that is over ends, silently unless it was a motion's.          *)
Quiet(rt, armed) ==
  IF ~(armed /\ IsStillness(rt.last) /\ ~rt.active) THEN Same(rt)
  ELSE IF rt.confirm = None THEN Same([rt EXCEPT !.confirm = rt.last.hold])
  ELSE IF rt.confirm = 0
    THEN [Raised(rt, rt.last, "trigger") EXCEPT !.rt.confirm = None]
  ELSE Same(rt)
HoldOver(rt) ==
  IF rt.expiry # 0 THEN Same(rt)
  ELSE LET out == Cleared([rt EXCEPT !.expiry = None], rt.last, "trigger")
       IN IF IsMotion(rt.last) THEN out ELSE [out EXCEPT !.edges = <<>>]
Sweep(rt, armed) ==
  IF ~rt.used THEN Same(rt)
  ELSE LET quiet == Quiet(rt, armed) IN After(quiet, HoldOver(quiet.rt))
=============================================================================
