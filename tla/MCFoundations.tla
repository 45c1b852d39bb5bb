--------------------------- MODULE MCFoundations ---------------------------
(* An instance of what every radio backend rests on; one behaviour moves one   *)
(* of the three, chosen at the start, and the others keep their initial state. *)
(*                                                                             *)
(* Ledger: two slots per window; 16 ticks are five slots and a third, so that  *)
(* the wrap cuts a slot short, as 2^32 ms does with 75 s.  Session: reserves   *)
(* of three counters and four counters in all make the reservation move, run   *)
(* out and saturate.  Gate: two settings or history threads, the system work   *)
(* queue and the radio work queue; the caps are 3 ticks and 1 tick.            *)
EXTENDS DutyLedger, P2PSession, AirGate

CONSTANTS app1, app2, sysq, radioq
WritersC == {app1, app2, sysq, radioq}
MayWaitC == {app1, app2}

VARIABLE part
foundationVars == <<ledgerVars, sessionVars, gateVars, part>>

Init ==
  /\ part \in {"ledger", "session", "gate"}
  /\ LedgerInit
  /\ SessionInit /\ (part # "session" => config = Lora)
  /\ GateInit

Next ==
  \/ part = "ledger" /\ LedgerNext /\ UNCHANGED <<sessionVars, gateVars, part>>
  \/ part = "session" /\ SessionNext /\ UNCHANGED <<ledgerVars, gateVars, part>>
  \/ part = "gate" /\ GateNext /\ UNCHANGED <<ledgerVars, sessionVars, part>>

Spec == Init /\ [][Next]_foundationVars /\ Scheduling
=============================================================================
