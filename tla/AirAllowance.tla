---------------------------- MODULE AirAllowance ----------------------------
(***************************************************************************)
(* What the duty-cycle ledger promises the rest of the radio code: frames  *)
(* share an allowance of air per trailing window.  This module remembers   *)
(* every transmission of the window exactly; DutyLedger, which remembers   *)
(* one entry per slot on a clock that wraps, implements it.                *)
(***************************************************************************)
EXTENDS Naturals, Sequences

CONSTANTS
  Window,   \* the length of the window
  Budget,   \* the allowance of a window, 0 = no limit
  Airs      \* the air times of the frames

VARIABLES
  clock,
  onAir,    \* the transmission under way, as a sequence of at most one
  past      \* the air, and the number, of the transmissions that ended in the last
            \* k ms, for each k up to Window

allowanceVars == <<clock, onAir, past>>

AllowanceInit ==
  /\ clock = 0 /\ onAir = <<>>
  /\ past = [k \in 0..Window |-> [air |-> 0, frames |-> 0]]

\* A frame goes if it fits, or alone if it never can.
Send(a) ==
  /\ onAir = <<>>
  /\ Budget = 0 \/ past[Window].air + a <= Budget \/ past[Window].frames = 0
  /\ onAir' = <<[start |-> clock, air |-> a]>>
  /\ UNCHANGED <<clock, past>>

\* It takes its air time at least, and counts from when it ended.
Sent ==
  /\ onAir # <<>>
  /\ clock >= onAir[1].start + onAir[1].air
  /\ past' = [k \in DOMAIN past |->
                IF k = 0 THEN past[k]
                ELSE [air |-> past[k].air + onAir[1].air, frames |-> past[k].frames + 1]]
  /\ onAir' = <<>>
  /\ UNCHANGED clock

\* Only a frame that never keyed the radio is free.
GivenUp ==
  /\ onAir # <<>> /\ clock = onAir[1].start
  /\ onAir' = <<>>
  /\ UNCHANGED <<clock, past>>

Passes ==
  /\ clock' = clock + 1
  /\ past' = [k \in DOMAIN past |-> IF k = 0 THEN past[k] ELSE past[k - 1]]
  /\ UNCHANGED onAir

AllowanceNext == (\E a \in Airs : Send(a)) \/ Sent \/ GivenUp \/ Passes

AllowanceSpec == AllowanceInit /\ [][AllowanceNext]_allowanceVars
=============================================================================
