----------------------------- MODULE DutyLedger -----------------------------
(***************************************************************************)
(* The duty-cycle ledger of app/src/app_radio.c: the air spent in the      *)
(* trailing window, one entry per fixed slot, and the wait before a frame  *)
(* may be transmitted.                                                     *)
(*                                                                         *)
(* The clock is the 64-bit uptime; the ledger keeps it truncated to        *)
(* Wrap (2^32 ms).  A transmission is admitted (app_radio_duty_wait_ms     *)
(* returns 0), takes at least its air time, and is charged when it ended;  *)
(* transmissions run one at a time on the radio work queue.  A LoRaWAN      *)
(* JoinRequest, charged without asking (its holder is the MAC's own join    *)
(* backoff), is left out: the bound is about the frames that ask.           *)
(***************************************************************************)
EXTENDS Integers, Sequences, FiniteSetsExt

CONSTANTS
  Window,   \* APP_RADIO_DUTY_WINDOW_MS
  Slot,     \* APP_RADIO_DUTY_SLOT_MS
  Wrap,     \* 2^32, where the truncated uptime wraps
  Budget,   \* the allowance per window a backend set up, 0 = no limit
  Airs,     \* the air times of the frames
  MaxLate,  \* bound: how long after its air time a transmission may end
  MaxIdle,  \* bound: how long the ledger may go unused
  MaxTime   \* bound: where the clock stops

ASSUME LedgerSizes ==
  /\ Window \in Nat \ {0} /\ Slot \in Nat \ {0} /\ Wrap \in Nat \ {0}
  /\ Window % Slot = 0
  /\ Window + Slot < Wrap
  /\ Budget \in Nat /\ Airs \subseteq Nat \ {0}

\* Between two uses of the ledger less than a wrap passes, with a window to spare.
ASSUME LedgerIsUsed == MaxIdle \in Nat /\ Window + MaxIdle <= Wrap

Entries == Window \div Slot + 1

VARIABLES
  clock,    \* k_uptime_get()
  ledger,   \* m_duty.entries, oldest first
  touched,  \* when the ledger was last expired
  flight,   \* the transmission on the air, as a sequence of at most one
  sent,     \* history: the air, and the number, of the transmissions that ended in
            \* the last k ms, for each k up to Window + Slot
  held      \* the last refused frame and when its wait ends, if it still waits

ledgerVars == <<clock, ledger, touched, flight, sent, held>>

LedgerType ==
  /\ clock \in Nat
  /\ ledger \in Seq([end : 0..(Wrap - 1), air : Nat \ {0}])
  /\ touched \in 0..clock
  /\ flight \in Seq([start : 0..clock, air : Airs]) /\ Len(flight) <= 1
  /\ sent \in [0..(Window + Slot) -> [air : Nat, frames : Nat]]
  /\ held \in Seq([until : Nat, air : Airs]) /\ Len(held) <= 1

LedgerInit ==
  /\ clock = 0
  /\ ledger = <<>>
  /\ touched = 0
  /\ flight = <<>>
  /\ sent = [k \in 0..(Window + Slot) |-> [air |-> 0, frames |-> 0]]
  /\ held = <<>>

----------------------------------------------------------------------------
\* The ledger's functions.

Now == clock % Wrap

\* The age of an entry is an unsigned 32-bit difference.
Age(e) == (Now - e.end) % Wrap

\* w[1] + ... + w[n], as a function of n.
Running(w) == LET sum[n \in Nat] == IF n = 0 THEN 0 ELSE sum[n - 1] + w[n] IN sum

AirIn(s) == [i \in DOMAIN s |-> s[i].air]
\* The air of the entries younger than age.
Younger(s, age) ==
  Running([i \in DOMAIN s |-> IF Age(s[i]) < age THEN s[i].air ELSE 0])[Len(s)]

\* Mutant: entries leave a slot early.
ExpireEarly(s) ==
  LET live == {i \in DOMAIN s : Age(s[i]) < Window - Slot}
  IN  IF live = {} THEN <<>> ELSE SubSeq(s, Min(live), Len(s))

\* duty_expire(): entries leave from the oldest on, up to the first live one.
Expire(s) ==
  LET live == {i \in DOMAIN s : Age(s[i]) < Window}
  IN  IF live = {} THEN <<>> ELSE SubSeq(s, Min(live), Len(s))

\* app_radio_ledger_used_ms()
UsedAir(s) == Younger(s, Window)

\* The charge falls into the fixed slot of entry e, the newest.
SameSlot(e) == Age(e) < Slot /\ Now \div Slot = e.end \div Slot

\* duty_fold_oldest(): the younger of the two keeps its end and takes the air.
FoldOldest(s) ==
  [i \in 1..(Len(s) - 1) |->
    IF i = 1 THEN [end |-> s[2].end, air |-> s[1].air + s[2].air] ELSE s[i + 1]]

\* Mutant: a full ring overwrites its oldest entry.
DropOldest(s, a) ==
  Append(IF Len(s) >= Entries THEN Tail(s) ELSE s, [end |-> Now, air |-> a])

AppendEntry(s, a) ==
  Append(IF Len(s) >= Entries THEN FoldOldest(s) ELSE s, [end |-> Now, air |-> a])

\* app_radio_ledger_charge() after the expiry.
Charged(s, a) ==
  IF s # <<>> /\ SameSlot(s[Len(s)])
  THEN [s EXCEPT ![Len(s)] = [end |-> Now, air |-> s[Len(s)].air + a]]
  ELSE AppendEntry(s, a)

\* The entry whose expiry frees `over`: the first, or the last of all if none does.
Frees(s, over) ==
  LET enough == {i \in 1..(Len(s) - 1) : Running(AirIn(s))[i] >= over}
  IN  IF enough = {} THEN Len(s) ELSE Min(enough)

\* app_radio_ledger_wait_ms() after the expiry; the result of the 32-bit
\* subtraction is unsigned.
Wait(s, a) ==
  IF Budget = 0 \/ UsedAir(s) + a <= Budget \/ s = <<>>
  THEN 0
  ELSE (Window - Age(s[Frees(s, UsedAir(s) + a - Budget)])) % Wrap

----------------------------------------------------------------------------
\* A frame asks for the air and gets it.
Admit(a) ==
  /\ flight = <<>>
  /\ ledger' = Expire(ledger)
  /\ Wait(ledger', a) = 0
  /\ flight' = <<[start |-> clock, air |-> a]>>
  /\ touched' = clock
  /\ held' = <<>>
  /\ UNCHANGED <<clock, sent>>

\* ... or is told how long to wait.
Refuse(a) ==
  /\ flight = <<>>
  /\ ledger' = Expire(ledger)
  /\ Wait(ledger', a) > 0
  /\ held' = <<[until |-> clock + Wait(ledger', a), air |-> a]>>
  /\ touched' = clock
  /\ UNCHANGED <<clock, flight, sent>>

\* The transmission ended, or failed with the PA keyed: its air is charged.
Charge ==
  /\ flight # <<>>
  /\ clock >= flight[1].start + flight[1].air
  /\ ledger' = Charged(Expire(ledger), flight[1].air)
  /\ sent' = [k \in DOMAIN sent |->
                IF k = 0 THEN sent[k]
                ELSE [air |-> sent[k].air + flight[1].air, frames |-> sent[k].frames + 1]]
  /\ flight' = <<>>
  /\ touched' = clock
  /\ UNCHANGED <<clock, held>>

\* The frame is given up before the radio keyed (no counter left, no seal).
Abandon ==
  /\ flight # <<>>
  /\ clock = flight[1].start
  /\ flight' = <<>>
  /\ UNCHANGED <<clock, ledger, touched, sent, held>>

LedgerTick ==
  /\ clock < MaxTime
  /\ clock - touched < MaxIdle
  /\ flight # <<>> => clock < flight[1].start + flight[1].air + MaxLate
  /\ clock' = clock + 1
  /\ sent' = [k \in DOMAIN sent |-> IF k = 0 THEN sent[k] ELSE sent[k - 1]]
  /\ UNCHANGED <<ledger, touched, flight, held>>

LedgerNext ==
  \/ \E a \in Airs : Admit(a) \/ Refuse(a)
  \/ Charge
  \/ Abandon
  \/ LedgerTick

LedgerSpec == LedgerInit /\ [][LedgerNext]_ledgerVars

----------------------------------------------------------------------------
\* What ended in the trailing window, and what is on the air.
InWindow == sent[Window]
OnAir    == IF flight = <<>> THEN 0 ELSE flight[1].air

\* Safety, the legal limit: the air of every trailing window, what is on the
\* air now included, stays within the allowance; only a frame that alone is
\* over it goes, and then nothing else does (app_radio.c: "EVERY sliding
\* one-hour window stays within it").
WindowBound ==
  Budget # 0 => \/ InWindow.air + OnAir <= Budget
                \/ InWindow.frames + Len(flight) = 1

\* Safety: coalescing, folding and the uptime wrap only ever over-count, so
\* the ledger never holds less air than the window really saw.
NeverUndercounts == UsedAir(ledger) >= InWindow.air

\* Safety: and over-counts by a slot at most: air counts no longer than a slot
\* past its window, however densely frames follow one another (the fixed slots
\* of app_radio_ledger_charge(); a sliding slot would never let go).
OvercountsByASlot == clock < Wrap => UsedAir(ledger) <= sent[Window + Slot].air

\* Safety: one wait is enough, and none is longer than needed: a refused frame
\* fits exactly from the end of the wait it was told.
OneWaitIsExact ==
  held # <<>> =>
    (Wait(Expire(ledger), held[1].air) = 0 <=> clock >= held[1].until)

LedgerInv ==
  LedgerType /\ WindowBound /\ NeverUndercounts /\ OvercountsByASlot /\ OneWaitIsExact

\* Refinement: coalesced, folded and on a clock that wraps, the ledger admits a
\* frame only when the exact record of the window would.
Allowance ==
  INSTANCE AirAllowance WITH onAir <- flight, past <- [k \in 0..Window |-> sent[k]]
ImplementsAllowance == Allowance!AllowanceSpec

=============================================================================
