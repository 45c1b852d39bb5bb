------------------------------ MODULE MCUplink ------------------------------
(* The way of a report: the cadence that asks for it, the scheduler that sends *)
(* it, the watch that misses it.  One behaviour moves one of the three, chosen *)
(* at the start, and the others keep their initial state.                      *)
(*                                                                             *)
(* Cadence: intervals whose half is the tolerance and more; the RTC is wrong   *)
(* by a second either way, or far off.  Watch: a hold is longer than the watch *)
(* waits without one, and two holds longer than it excuses.                    *)
EXTENDS MCRadioTx, ReportSlots, StaleWatch

StepsC == {-1, 1, 9}

VARIABLE part
uplinkVars == <<vars, slotVars, watchVars, part>>

UplinkInit ==
  /\ part \in {"scheduler", "cadence", "watch"}
  /\ Init /\ (part # "scheduler" => p2p)
  /\ SlotInit /\ (part # "cadence" => rtc = Unset /\ period = 4)
  /\ WatchInit

UplinkNext ==
  \/ part = "scheduler" /\ Next /\ UNCHANGED <<slotVars, watchVars, part>>
  \/ part = "cadence" /\ SlotsNext /\ UNCHANGED <<vars, watchVars, part>>
  \/ part = "watch" /\ WatchNext /\ UNCHANGED <<vars, slotVars, part>>

UplinkSpec == UplinkInit /\ [][UplinkNext]_uplinkVars
=============================================================================
