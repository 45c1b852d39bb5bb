----------------------------- MODULE MCRadioTx -----------------------------
(* Small instances of the uplink scheduler, over either radio: more queued  *)
(* frames on P2P, whose answers are confirmed; counted retries and longer   *)
(* reports on LoRaWAN.                                                      *)
EXTENDS RadioTx

Of(onP2P, onLrw) == [b \in BOOLEAN |-> IF b THEN onP2P ELSE onLrw]
AckedKinds == Of({"answer", "telemetry", "history"}, {"alarm"})
Retries == Of(0, 1)
Pages == Of(1, 2)
Frames3 == Of(3, 2)
One == Of(1, 1)
=============================================================================
