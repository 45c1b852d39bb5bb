---------------------------- MODULE ReportSlots -----------------------------
(***************************************************************************)
(* The report cadence: app/src/app_slot.c, and app/src/app_report.c, whose *)
(* work queue runs the periodic cycle (which records the history), the ad-  *)
(* hoc one and the forced one.                                              *)
(*                                                                         *)
(* Times are seconds.  The timer runs on uptime, the slots on the RTC once  *)
(* it is set: unix = uptime + rtc.  The two drift apart, the RTC is set,    *)
(* stepped or unreadable, and a cycle may wait for the queue.  The sends,   *)
(* the sampling and the counters' save keep nothing of the cadence; a       *)
(* calibration has no records and is left out.                              *)
(***************************************************************************)
EXTENDS Integers, Sequences, SequencesExt

CONSTANTS
  Intervals,       \* interval_report; a reset tier may change it before its reboot
  SlotTolerance,   \* APP_SLOT_TOLERANCE_S
  RtcSteps,        \* what a clock sync changes the RTC by
  MaxUptime,       \* bound
  MaxUpsets        \* bound: steps and failures of the RTC, changes of the interval

ASSUME SlotAssumption ==
  /\ Intervals \subseteq Nat \ {0} /\ SlotTolerance \in Nat
  /\ RtcSteps \subseteq Int /\ MaxUptime \in Nat /\ MaxUpsets \in Nat

\* app_config.c keeps interval_report at 60 s or more, so a run has one slot it is near.
ASSUME OneSlotIsNear == \A i \in Intervals : 2 * SlotTolerance < i

Unset == -1000                     \* rtc_get_time() = -ENODATA, a timer that is off
Cycles == {"periodic", "trigger", "force"}

VARIABLES
  uptime,
  rtc,         \* unix - uptime, or Unset
  period,      \* g_app_config.interval_report
  grid,        \* m_slot
  timer,       \* m_report_timer: seconds left, or Unset
  cycles,      \* m_work_q
  suspended,
  record,      \* history: the slot of the last record (at first of the boot), and its clock
  moved,       \* history: since then the clock moved against the timer, or period changed
  upsets       \* bound: how often so far

slotVars == <<uptime, rtc, period, grid, timer, cycles, suspended, record, moved, upsets>>

-----------------------------------------------------------------------------
(* app_slot.c *)

SlotRound(anchor, step, t) == anchor + ((t - anchor + step \div 2) \div step) * step

\* The clock of the cadence: app_clock_get_unix(), or the uptime.
RtcIsSet == rtc # Unset
ClockNow    == IF RtcIsSet THEN uptime + rtc ELSE uptime

\* Mutant: the first sync lays the grid anew.
GridAtSync(g) == IF g.synced = RtcIsSet /\ g.step = period THEN g
                 ELSE [anchor |-> ClockNow, step |-> period, synced |-> RtcIsSet]
\* The grid is laid for another interval, or its RTC is lost; the first sync carries it over.
Grid(g) ==
  IF g.step # period \/ (g.synced /\ ~RtcIsSet)
  THEN [anchor |-> ClockNow, step |-> period, synced |-> RtcIsSet]
  ELSE [g EXCEPT !.anchor = IF RtcIsSet /\ ~g.synced THEN @ + ClockNow - uptime ELSE @, !.synced = RtcIsSet]

Tolerance == IF period \div 2 < SlotTolerance THEN period \div 2 ELSE SlotTolerance

\* app_slot_next(): the grid, the slot of this run and the next one.
SlotNext(g, periodic) ==
  LET cur == SlotRound(g.anchor, period, ClockNow)
      off == ClockNow - cur
  IN IF periodic /\ (off > Tolerance \/ off < -Tolerance)
     THEN [grid |-> [g EXCEPT !.anchor = ClockNow], slot |-> ClockNow, next |-> ClockNow + period]
     ELSE [grid |-> g, slot |-> cur, next |-> IF periodic \/ cur <= ClockNow THEN cur + period ELSE cur]

-----------------------------------------------------------------------------
(* app_report.c *)

\* app_report_init(): no grid yet, so it is laid here.
SlotInit ==
  /\ uptime = 0 /\ rtc \in {Unset} \union RtcSteps /\ period \in Intervals
  /\ grid = [anchor |-> ClockNow, step |-> period, synced |-> RtcIsSet]
  /\ timer = period /\ cycles = <<>> /\ suspended = FALSE
  /\ record = [slot |-> ClockNow, synced |-> RtcIsSet] /\ moved = FALSE /\ upsets = 0

\* Mutant: after a late run the timer starts for a whole interval.
FixedDelay(next) == period
Delay(next) == IF next > ClockNow THEN next - ClockNow ELSE 1

Schedule(periodic) ==
  LET r == SlotNext(Grid(grid), periodic)
  IN /\ grid' = r.grid /\ timer' = Delay(r.next)
     /\ record' = [slot |-> r.slot, synced |-> RtcIsSet]

\* run_report(): only the periodic cycle re-arms the cadence and records.
Records(work) == work = "periodic"
RunReport ==
  /\ cycles # <<>> /\ cycles' = Tail(cycles)
  /\ IF Records(Head(cycles)) THEN Schedule(TRUE) /\ moved' = FALSE
                             ELSE UNCHANGED <<grid, timer, record, moved>>
  /\ UNCHANGED <<uptime, rtc, period, suspended, upsets>>

\* k_work_submit(): a work that is queued is not queued again.
Submitted(work) == IF work \in ToSet(cycles) THEN cycles ELSE Append(cycles, work)

\* app_report_trigger(), report_kick(), app_report_force().
Trigger(work) ==
  /\ cycles' = Submitted(work)
  /\ UNCHANGED <<uptime, rtc, period, grid, timer, suspended, record, moved, upsets>>

\* report_timer_handler() at the timer's end.
Second ==
  /\ uptime < MaxUptime /\ uptime' = uptime + 1
  /\ timer' = IF timer \in {Unset, 1} THEN Unset ELSE timer - 1
  /\ cycles' = IF timer = 1 THEN Submitted("periodic") ELSE cycles
  /\ UNCHANGED <<rtc, period, grid, suspended, record, moved, upsets>>

\* app_report_suspend()
Suspend ==
  /\ ~suspended /\ suspended' = TRUE
  /\ timer' = Unset /\ cycles' = <<>>
  /\ UNCHANGED <<uptime, rtc, period, grid, record, moved, upsets>>

-----------------------------------------------------------------------------
(* The clocks *)

Upset == upsets < MaxUpsets /\ upsets' = upsets + 1
         /\ UNCHANGED <<uptime, grid, timer, cycles, suspended, record>>

\* A network time or a command sets the RTC: for the first time, or over its drift or a step.
ClockSync ==
  /\ Upset /\ \E d \in RtcSteps : rtc' = IF RtcIsSet THEN rtc + d ELSE d
  /\ moved' = (moved \/ RtcIsSet) /\ UNCHANGED period

\* The RTC cannot be read.
ClockLost ==
  /\ Upset /\ RtcIsSet /\ rtc' = Unset
  /\ moved' = TRUE /\ UNCHANGED period

IntervalChanges ==
  /\ Upset /\ period' \in Intervals \ {period}
  /\ moved' = TRUE /\ UNCHANGED rtc

SlotsNext ==
  \/ RunReport \/ Second \/ Suspend
  \/ \E work \in {"trigger", "force"} : Trigger(work)
  \/ ClockSync \/ ClockLost \/ IntervalChanges
SlotsSpec == SlotInit /\ [][SlotsNext]_slotVars

-----------------------------------------------------------------------------
(* Properties *)

SlotsType ==
  /\ uptime \in 0..MaxUptime /\ rtc \in Int /\ period \in Intervals
  /\ grid.anchor \in Int /\ grid.step \in Intervals /\ grid.synced \in BOOLEAN
  /\ timer \in {Unset} \union (Nat \ {0})
  /\ cycles \in Seq(Cycles) /\ IsInjective(cycles)
  /\ record.slot \in Int /\ record.synced \in BOOLEAN

\* The slot after the last record, on the clock of now.
DueSlot == record.slot + period + (IF RtcIsSet /\ ~record.synced THEN rtc ELSE 0)

\* The cadence ends only with the power, ...
CadenceGoesOn == ~suspended => timer # Unset \/ "periodic" \in ToSet(cycles)

\* ... and aims at the next slot, whatever cycles ran in between, however late the last
\* one was, and though the RTC is set for the first time.
AimsAtSlot == timer # Unset /\ ~moved => ClockNow + timer = DueSlot

SlotsInv == SlotsType /\ CadenceGoesOn /\ AimsAtSlot

\* The replay tells a record's time from its place: one period after the last one, if the
\* cycle ran near enough to it.  Else it is a later slot, or its own time off the cadence;
\* only a clock that is stepped back brings it to a slot again.
Near(t) == t - ClockNow \in -Tolerance..Tolerance
RecordsSpaced ==
  [][Len(cycles') < Len(cycles) /\ ~suspended' /\ Head(cycles) = "periodic" =>
       /\ Near(record'.slot)
       /\ grid.step = period /\ (record.synced => RtcIsSet) =>
            /\ Near(DueSlot) => record'.slot = DueSlot
            /\ ~moved => \/ record'.slot = ClockNow
                          \/ (record'.slot >= DueSlot /\ (record'.slot - DueSlot) % period = 0)]_slotVars
=============================================================================
