----------------------------- MODULE MCLrwLink -----------------------------
(* A small instance of the LoRaWAN link. *)
EXTENDS LrwLink
=============================================================================
