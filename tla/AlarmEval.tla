----------------------------- MODULE AlarmEval ------------------------------
(***************************************************************************)
(* The alarm engine of app/src/app_alarm.c and app_alarm_rules.c: the poll *)
(* of the main loop, the events of the input drivers and the PIR, the      *)
(* no-data, mismatch and battery watchdogs, the active mask and the buzzer.*)
(*                                                                         *)
(* The poll and an event each run under m_lock and are one action; a level *)
(* and the event that reports it are two, since the poll reads the driver's*)
(* level directly and may see it first.  Rules are edited at any time by a *)
(* command or the shell.  What the edges told the backend, and how long a  *)
(* level has held, are observed beside the code.                           *)
(***************************************************************************)
EXTENDS AlarmRules, FiniteSets, FiniteSetsExt

CONSTANTS
  Idx,          \* the rule indices, from 1
  RuleSet,      \* the rules a command may store
  Values,       \* readings of the threshold channel
  MaxCount,     \* bound: where the counter stops
  Slots,        \* the 1-Wire slots
  Types,        \* registry types of a 1-Wire slot
  PartsOf,      \* Types -> the number of parts (chips) of a type
  NoDataTicks,  \* APP_ALARM_NO_DATA_MS
  Volts,        \* readings of the battery
  VoltLow, VoltHyst,   \* battery_level and APP_ALARM_BATTERY_HYST_V
  Limit         \* alarm_limit in ticks; 0: off

ASSUME EvalAssumption ==
  /\ Idx \subseteq Nat \ {0}
  /\ \A r \in RuleSet :
       /\ r.kind \in {"threshold", "state", "pulse", "rate"}
       /\ r.w1 \in BOOLEAN /\ r.on \in BOOLEAN /\ {r.from, r.to} \subseteq {0, 1}
       /\ r.hold \in Nat /\ (r.kind # "threshold" => r.hold <= MaxHold)
       /\ r.kind = "pulse" => ~r.w1      \* only the motherboard has such channels
  /\ None \notin Values /\ Values \subseteq Int /\ Limit \in Nat
  /\ MaxCount \in Nat /\ NoDataTicks \in Nat \ {0}
  /\ PartsOf \in [Types -> Nat] /\ "none" \notin Types /\ "mb" \notin Slots

VARIABLES
  rule,        \* m_rules[i]
  rt,          \* m_rt[i]
  value, level, count,  \* what the sensors and drivers read
  unheard,     \* the level changed and its event is not handled yet
  stale,       \* the 1-Wire slot of the w1 rules has another type
  expected, taught,     \* sensorN_type; a ROM is configured
  state,       \* app_w1_slot_get_state() = MISMATCH: the foreign type, or "none"
  data,        \* g_app_sensor_data.w1[s]: type and how each part reports
  mbOk,        \* the liveness channel of the motherboard reports
  volt,        \* the battery reading
  nodata,      \* m_nodata
  ndType,      \* m_nodata_type
  mm,          \* m_mismatch_active, _expected, _detected
  lowBatt,     \* m_battery_low_active
  mask,        \* m_active_mask
  buzz,        \* the alarm melody is playing or repeating
  sinceSent,   \* m_last_alarm_send_ms, as an age
  open,        \* observer: the alarms the collected edges left open
  held, quiet, pulsed  \* observers: age of the level, of the last pulse; pulses counted

ruleVars == <<rule, rt, value, level, count, unheard, stale, held, quiet, pulsed>>
watch    == <<expected, taught, state, data, mbOk, volt, nodata, ndType, mm, lowBatt>>
outputs  == <<mask, buzz, sinceSent, open>>
alarmVars == <<ruleVars, watch, outputs>>

(***************************************************************************)
(* Latches of the no-data watchdog: <<slot, 0>> the motherboard channel or *)
(* the whole device, <<slot, p>> its part p.                               *)
(***************************************************************************)
MaxParts == Max({0} \cup {PartsOf[t] : t \in Types})
NdSlots  == Slots \cup {"mb"}
Latch    == ({"mb"} \X {0}) \cup (Slots \X (0..MaxParts))
NoData   == [age |-> None, active |-> FALSE, seen |-> FALSE, channel |-> None]

Owner(src, name, type) == [src |-> src, name |-> name, type |-> type]
\* The alarms a source's edges leave on, or off, at the backend: for each alarm the last
\* edge that names it counts, and a message opens nothing.
Names(src, e) == Owner(src, e.tag, e.type)
Says(on, src, edges) ==
  {Names(src, edges[k]) : k \in {j \in DOMAIN edges :
     /\ edges[j].act = on /\ ~edges[j].message
     /\ \A l \in DOMAIN edges :
          l > j /\ ~edges[l].message => Names(src, edges[l]) # Names(src, edges[j])}}

(***************************************************************************)
(* The watchdogs.  Each returns its latch and edges, like a rule.          *)
(***************************************************************************)
Watches(act, tag, type) == [act |-> act, tag |-> tag, type |-> type, message |-> FALSE]
NdEdge(act, s, type, l) == Watches(act, <<s, type, "no data", l.channel>>, "no_data")

\* Mutant: a slot that is dropped forgets its alarm without an edge.
NdForgotten(s, type, l) == [l |-> NoData, edges |-> <<>>]
\* nodata_reset(): the channel stays, as the code leaves it.
NdReset(s, type, l) ==
  [l |-> [NoData EXCEPT !.channel = l.channel],
   edges |-> IF l.active THEN <<NdEdge(FALSE, s, type, l)>> ELSE <<>>]

\* nodata_step().
NdStep(s, type, l, ok) ==
  IF ok THEN [l |-> [l EXCEPT !.age = None, !.active = FALSE],
              edges |-> IF l.active THEN <<NdEdge(FALSE, s, type, l)>> ELSE <<>>]
  ELSE LET aged == [l EXCEPT !.age = IF @ = None THEN 0 ELSE @]
       IN IF ~l.active /\ aged.age >= NoDataTicks
            THEN [l |-> [aged EXCEPT !.active = TRUE],
                  edges |-> <<NdEdge(TRUE, s, type, l)>>]
            ELSE [l |-> aged, edges |-> <<>>]

Reports(s, p) == data[s].parts[p]          \* "none", "some" or "all" its channels
AnyPart(s, type) ==
  data[s].type = type /\ \E p \in 1..PartsOf[type] : Reports(s, p) # "none"

\* nodata_poll_w1(): part p is held while the whole device is silent.
NdPart(s, type, p, l0) ==
  LET l    == [l0 EXCEPT !.channel = p]
      seen == [l EXCEPT !.seen = @ \/ Reports(s, p) # "none"]
  IN IF ~AnyPart(s, type) THEN [l |-> [l EXCEPT !.age = None], edges |-> <<>>]
     ELSE IF seen.seen THEN NdStep(s, type, seen, Reports(s, p) = "all")
     ELSE [l |-> seen, edges |-> <<>>]

\* nodata_slot_type(), after mismatch_poll().
SlotType(s, m) ==
  IF s = "mb" THEN "mb"
  ELSE IF ~taught[s] \/ m[s].active THEN "none"
  ELSE IF expected[s] # "none" THEN expected[s] ELSE data[s].type

NdPoll(s, p, type, l) ==
  CASE s = "mb" -> NdStep(s, type, [l EXCEPT !.channel = 0], mbOk)
    [] s # "mb" /\ type = "none" -> [l |-> l, edges |-> <<>>]
    [] s # "mb" /\ type # "none" /\ p = 0 ->
         NdStep(s, type, [l EXCEPT !.channel = 0], AnyPart(s, type))
    [] OTHER -> IF p <= PartsOf[type] THEN NdPart(s, type, p, l)
                ELSE [l |-> l, edges |-> <<>>]
\* nodata_poll() of one latch: a changed type first ends it under the old one.
NdLatch(s, p, m) ==
  LET type  == SlotType(s, m)
      reset == IF type # ndType[s] THEN NdReset(s, ndType[s], nodata[<<s, p>>])
               ELSE [l |-> nodata[<<s, p>>], edges |-> <<>>]
      out   == NdPoll(s, p, type, reset.l)
  IN [out EXCEPT !.edges = reset.edges \o @]

MmEdge(act, s, m) == Watches(act, <<s, m.expected, m.detected>>, "mismatch")
\* mismatch_poll(): the types are cached so that the end names what cleared.
MmPoll(s) ==
  LET now == [active |-> TRUE, expected |-> expected[s], detected |-> state[s]] IN
  CASE state[s] # "none" /\ ~mm[s].active -> [m |-> now, edges |-> <<MmEdge(TRUE, s, now)>>]
    [] state[s] = "none" /\ mm[s].active ->
         [m |-> [mm[s] EXCEPT !.active = FALSE], edges |-> <<MmEdge(FALSE, s, mm[s])>>]
    [] OTHER -> [m |-> mm[s], edges |-> <<>>]

\* battery_poll(): with hysteresis; 0 is no reading yet.
LowNow == IF volt = 0 THEN lowBatt
          ELSE IF ~lowBatt THEN volt < VoltLow ELSE volt <= VoltLow + VoltHyst
BattEdges == IF LowNow = lowBatt THEN <<>>
             ELSE <<Watches(LowNow, <<"battery">>, "low")>>

(***************************************************************************)
(* alarm_send() and alarm_buzzer_sync().                                   *)
(***************************************************************************)
Send(told) ==
  IF told /\ (Limit = 0 \/ sinceSent = None \/ sinceSent >= Limit) THEN sinceSent' = 0
  ELSE UNCHANGED sinceSent

Buzz(new, cleared) ==
  buzz' = CASE cleared            -> FALSE
            [] ~cleared /\ new # {} -> TRUE
            [] OTHER              -> buzz

(***************************************************************************)
(* app_alarm_poll() and app_alarm_event().                                 *)
(***************************************************************************)
Armed(r) == r # NoRule /\ r.on /\ ~(r.w1 /\ stale)
Reads(r) == ~r.w1 \/ (~stale /\ value # None)
Inputs   == [value |-> value, level |-> level, count |-> count]

RulePoll(i) ==
  LET r == rule[i]
      synced == Synced(rt[i], r)
      evaled == IF r = NoRule THEN synced
                ELSE After(synced, EvalRule(synced.rt, r, Armed(r), Reads(r), Inputs))
      swept  == Sweep(evaled.rt, evaled.rt.used /\ Armed(evaled.rt.last))
  IN After(evaled, swept)

\* The pulses a rate rule counted restart with its window.
Restarts(i, new) == new.base # None /\ (new.base # rt[i].base \/ new.window # rt[i].window)

Slot0(s) == {p \in 0..MaxParts : <<s, p>> \in Latch}
Poll ==
  LET ruled  == [i \in Idx |-> RulePoll(i)]
      mmed   == [s \in Slots |-> MmPoll(s)]
      newMm  == [s \in Slots |-> mmed[s].m]
      nd     == [sp \in Latch |-> NdLatch(sp[1], sp[2], newMm)]
      told   == \/ \E i \in Idx : ruled[i].edges # <<>>
                \/ \E s \in Slots : mmed[s].edges # <<>>
                \/ \E sp \in Latch : nd[sp].edges # <<>>
                \/ BattEdges # <<>>
      says(on) == (UNION {Says(on, i, ruled[i].edges) : i \in Idx})
                    \cup (UNION {Says(on, 0, mmed[s].edges) : s \in Slots})
                    \cup (UNION {Says(on, 0, nd[sp].edges) : sp \in Latch})
                    \cup Says(on, 0, BattEdges)
      active == {<<"rule", i>> : i \in {j \in Idx : ruled[j].rt.active}}
                  \cup {<<"mismatch", s>> : s \in {t \in Slots : newMm[t].active}}
                  \cup {<<"nodata", sp[1]>> : sp \in {q \in Latch : nd[q].l.active}}
                  \cup (IF LowNow THEN {<<"battery">>} ELSE {})
  IN /\ rt' = [i \in Idx |-> ruled[i].rt]
     /\ mm' = newMm
     /\ nodata' = [sp \in Latch |-> nd[sp].l]
     /\ ndType' = [s \in NdSlots |-> SlotType(s, newMm)]
     /\ lowBatt' = LowNow
     /\ mask' = active
     /\ Send(told)
     /\ Buzz(active \ mask, active = {} /\ mask # {})
     /\ open' = (open \ says(FALSE)) \cup says(TRUE)
     /\ pulsed' = [i \in Idx |-> IF Restarts(i, ruled[i].rt) THEN 0 ELSE pulsed[i]]
     /\ UNCHANGED <<rule, value, level, count, unheard, stale, held, quiet,
                    expected, taught, state, data, mbOk, volt>>

\* One event on a motherboard channel: every rule is synced, those on it run.
RuleEvent(i, kind, cur) ==
  LET r == rule[i]
      synced == Synced(rt[i], r)
  IN IF r = NoRule \/ r.kind # kind \/ r.w1 THEN synced
     ELSE After(synced, State(synced.rt, r, Armed(r), cur))
Event(kind, cur) ==
  LET says(on) == UNION {Says(on, i, RuleEvent(i, kind, cur).edges) : i \in Idx}
  IN /\ rt' = [i \in Idx |-> RuleEvent(i, kind, cur).rt]
     /\ Send(\E i \in Idx : RuleEvent(i, kind, cur).edges # <<>>)
     /\ open' = (open \ says(FALSE)) \cup says(TRUE)
     /\ UNCHANGED <<rule, value, level, count, stale, held, pulsed, watch, mask, buzz>>

LevelEvent == unheard /\ unheard' = FALSE /\ Event("state", level) /\ UNCHANGED quiet
PulseEvent == quiet' = 0 /\ Event("pulse", 1) /\ UNCHANGED unheard

(***************************************************************************)
(* The rules, the sensors and the clock.                                   *)
(***************************************************************************)
\* app_alarm_rules_set(), _clear() and reload: the latch is not touched.
Store(i, r) ==
  /\ rule[i] # r /\ rule' = [rule EXCEPT ![i] = r]
  /\ UNCHANGED <<rt, value, level, count, unheard, stale, held, quiet, pulsed, watch, outputs>>

Reading ==
  /\ \/ value' \in (Values \cup {None}) \ {value} /\ UNCHANGED stale
     \/ stale' = ~stale /\ UNCHANGED value
  /\ UNCHANGED <<rule, rt, level, count, unheard, held, quiet, pulsed, watch, outputs>>
\* The driver's work: the data first, the event after it.
LevelTurns ==
  /\ ~unheard /\ level' = 1 - level /\ unheard' = TRUE /\ held' = 0
  /\ UNCHANGED <<rule, rt, value, count, stale, quiet, pulsed, watch, outputs>>
Counts ==
  /\ \/ /\ count < MaxCount /\ count' = count + 1
        /\ pulsed' = [i \in Idx |-> IF pulsed[i] < RateHi THEN pulsed[i] + 1 ELSE pulsed[i]]
     \/ count > 0 /\ count' = 0 /\ UNCHANGED pulsed     \* counters_reset
  /\ UNCHANGED <<rule, rt, value, level, unheard, stale, held, quiet, watch, outputs>>

(* What a rebind leaves: a mismatch is only decided for a slot that expects  *)
(* another type.  A sample reads the bound device, whose type the rebind has *)
(* made the slot's.                                                          *)
NoDevice == [type |-> "none", parts |-> [p \in 1..MaxParts |-> "none"]]
Readings == {NoDevice} \cup
  UNION {{[type |-> t, parts |-> f] :
            f \in {g \in [1..MaxParts -> {"none", "some", "all"}] :
                    \A p \in 1..MaxParts : p > PartsOf[t] => g[p] = "none"}} : t \in Types}
SlotRebinds(s) ==
  /\ \E t \in Types \cup {"none"}, f \in Types \cup {"none"}, k \in BOOLEAN :
       /\ f # "none" => t \notin {"none", f}
       /\ expected' = [expected EXCEPT ![s] = t]
       /\ state' = [state EXCEPT ![s] = f]
       /\ taught' = [taught EXCEPT ![s] = k]
  /\ UNCHANGED <<ruleVars, data, mbOk, volt, nodata, ndType, mm, lowBatt, outputs>>
Samples(s) ==
  /\ \E d \in Readings \ {data[s]} :
       /\ d.type # "none" => state[s] = "none" /\ taught[s] /\ expected[s] = d.type
       /\ data' = [data EXCEPT ![s] = d]
  /\ UNCHANGED <<ruleVars, expected, taught, state, mbOk, volt, nodata, ndType, mm, lowBatt,
                 outputs>>
BoardReads ==
  /\ \/ mbOk' = ~mbOk /\ UNCHANGED volt
     \/ volt' \in Volts \ {volt} /\ UNCHANGED mbOk
  /\ UNCHANGED <<ruleVars, expected, taught, state, data, nodata, ndType, mm, lowBatt, outputs>>

Younger(age, most) == IF age # None /\ age < most THEN age + 1 ELSE age
Tick ==
  /\ rt' = [i \in Idx |-> Aged(rt[i])]
  /\ nodata' = [sp \in Latch |->
                  [nodata[sp] EXCEPT !.age = Younger(@, NoDataTicks)]]
  /\ held' = Younger(held, MaxHold) /\ quiet' = Younger(quiet, MaxHold)
  /\ sinceSent' = Younger(sinceSent, Limit)
  /\ UNCHANGED <<rule, value, level, count, unheard, stale, pulsed, expected, taught, state,
                 data, mbOk, volt, ndType, mm, lowBatt, mask, buzz, open>>

(***************************************************************************)
(* The specification.  At boot the latches are empty.                      *)
(***************************************************************************)
AlarmInit ==
  /\ rule = [i \in Idx |-> NoRule] /\ rt = [i \in Idx |-> NoLatch]
  /\ value = None /\ level = 0 /\ count = 0 /\ unheard = FALSE /\ stale = FALSE
  /\ expected = [s \in Slots |-> "none"] /\ taught = [s \in Slots |-> FALSE]
  /\ state = [s \in Slots |-> "none"]
  /\ data = [s \in Slots |-> NoDevice]
  /\ mbOk \in BOOLEAN /\ volt = 0
  /\ nodata = [sp \in Latch |-> NoData] /\ ndType = [s \in NdSlots |-> "none"]
  /\ mm = [s \in Slots |-> [active |-> FALSE, expected |-> "none", detected |-> "none"]]
  /\ lowBatt = FALSE /\ mask = {} /\ buzz = FALSE /\ sinceSent = None /\ open = {}
  /\ held = 0 /\ quiet = 0 /\ pulsed = [i \in Idx |-> 0]

RuleInputs ==
  \/ \E i \in Idx, r \in RuleSet \cup {NoRule} : Store(i, r)
  \/ Reading \/ LevelTurns \/ LevelEvent \/ PulseEvent \/ Counts
WatchInputs == (\E s \in Slots : SlotRebinds(s) \/ Samples(s)) \/ BoardReads
AlarmNext == RuleInputs \/ WatchInputs \/ Poll \/ Tick
AlarmSpec == AlarmInit /\ [][AlarmNext]_alarmVars

(***************************************************************************)
(* Properties.                                                             *)
(***************************************************************************)
AlarmType ==
  /\ rule \in [Idx -> RuleSet \cup {NoRule}]
  /\ \A i \in Idx : rt[i].last \in RuleSet \cup {NoRule} /\ rt[i].confirm \in {None} \cup 0..MaxHold
  /\ level \in {0, 1} /\ count \in 0..MaxCount /\ {unheard, stale, mbOk, lowBatt, buzz} \subseteq BOOLEAN
  /\ \A sp \in Latch : nodata[sp].age \in {None} \cup 0..NoDataTicks
  /\ sinceSent \in {None} \cup 0..Limit

\* The alarms that are on; an edge rule's is a message and never on.
Latched ==
  {Owner(i, rt[i].last.tag, EdgeType(rt[i])) :
     i \in {j \in Idx : rt[j].active /\ ~IsEdge(rt[j].last)}}
    \cup {Owner(0, <<sp[1], ndType[sp[1]], "no data", nodata[sp].channel>>, "no_data") :
            sp \in {q \in Latch : nodata[q].active}}
    \cup {Owner(0, <<s, mm[s].expected, mm[s].detected>>, "mismatch") :
            s \in {t \in Slots : mm[t].active}}
    \cup (IF lowBatt THEN {Owner(0, <<"battery">>, "low")} ELSE {})

(* The alarms the edges left open at the backend are the ones latched: a     *)
(* rule that is edited, cleared, disabled or stale, a slot that is retyped,  *)
(* dropped or in mismatch ends what it had raised, under the name it was     *)
(* raised with, and no end is sent for what was never raised.                *)
EdgesPair == open = Latched

(* A slot in mismatch raises that alarm and not a second one for the device  *)
(* that does not report; and the melody only goes on while an alarm is on.   *)
OneAlarm == \A s \in Slots : mm[s].active => \A p \in Slot0(s) : ~nodata[<<s, p>>].active
BuzzIsAlarm == buzz = (mask # {})
AlarmInv == AlarmType /\ EdgesPair /\ OneAlarm /\ BuzzIsAlarm

(* No rule fires before its time: a level rule only on a level that held for *)
(* its dwell, stillness only when no pulse came for its dwell, a motion ends *)
(* only then, and a rate fires only on pulses of its own window.             *)
Fires(i) == rt'[i].active /\ ~(rt[i].active /\ rt[i].last = rt'[i].last)
Ends(i)  == rt[i].active /\ ~rt'[i].active /\ rt'[i].last = rt[i].last
InItsTime(i) ==
  LET r == rt'[i].last IN
  /\ Fires(i) /\ r.kind = "state" /\ ~r.w1 => level = r.to /\ held >= r.hold
  /\ Fires(i) /\ IsStillness(r) => quiet >= r.hold
  /\ Ends(i) /\ IsMotion(r) /\ r.on => quiet >= r.hold
  /\ Fires(i) /\ r.kind = "rate" => pulsed[i] >= RateHi
AlarmsInTime == [][\A i \in Idx : InItsTime(i)]_alarmVars
=============================================================================
