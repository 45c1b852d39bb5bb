------------------------------ MODULE AirGate ------------------------------
(***************************************************************************)
(* The gate between flash writes and radio exchanges, app/src/app_radio.c  *)
(* (app_radio_flash_hold/_release, app_radio_air_begin/_end).              *)
(*                                                                         *)
(* The MCU stalls on every flash program or erase, so a write that falls   *)
(* inside an exchange (TX start until the receive windows closed) loses    *)
(* the Ack or the JoinAccept.  A mutex, a condition variable, one flag and *)
(* two counters keep the two apart, with both waits capped.                *)
(*                                                                         *)
(* Every action is one critical section of m_air_mutex: from taking the    *)
(* mutex (or from the return of k_condvar_wait) to releasing it (or to the *)
(* next k_condvar_wait).  A waiting thread runs again only when a          *)
(* broadcast woke it or its deadline passed, as k_condvar_wait does.       *)
(***************************************************************************)
EXTENDS Naturals, FiniteSets

CONSTANTS
  Writers,         \* the threads that write flash, the radio work queue included
  MayWait,         \* those flash_writer_may_wait() lets block
  Radio,           \* the radio work queue, the only thread that runs exchanges
  FlashWaitAirMax, \* FLASH_WAIT_AIR_MAX_MS, in ticks of the model's clock
  AirWaitFlashMax  \* AIR_WAIT_FLASH_MAX_MS, in the same ticks

ASSUME WritersFinite == IsFiniteSet(Writers)
ASSUME RadioNeverWaitsToWrite == Radio \in Writers /\ MayWait \subseteq Writers \ {Radio}
ASSUME CapsArePositive == FlashWaitAirMax \in Nat \ {0} /\ AirWaitFlashMax \in Nat \ {0}

VARIABLES
  onAir,         \* m_on_air
  flashWriters,  \* m_flash_writers
  flashWaiting,  \* m_flash_waiting
  writing,       \* the threads between flash_hold() and flash_release()
  waiting,       \* the threads inside air_wait()
  woken,         \* the waiting threads a broadcast has woken
  left,          \* what is left to each waiting thread's deadline
  writeBegan,    \* history: how each thread's last write began
  airBegan       \* history: how the last exchange began

gateVars == <<onAir, flashWriters, flashWaiting, writing, waiting, woken, left,
          writeBegan, airBegan>>

\* "clear": the other side was idle; "capped": the wait ran into its cap;
\* "unwaited": a thread that may not wait wrote inside an exchange.
Starts == {"clear", "capped", "unwaited"}

GateType ==
  /\ onAir \in BOOLEAN
  /\ flashWriters \in Nat
  /\ flashWaiting \in Nat
  /\ writing \in SUBSET Writers
  /\ waiting \in SUBSET (MayWait \cup {Radio})
  /\ woken \in SUBSET waiting
  /\ left \in [Writers -> Nat]
  /\ writeBegan \in [Writers -> Starts]
  /\ airBegan \in Starts

GateInit ==
  /\ onAir = FALSE
  /\ flashWriters = 0
  /\ flashWaiting = 0
  /\ writing = {}
  /\ waiting = {}
  /\ woken = {}
  /\ left = [t \in Writers |-> 0]
  /\ writeBegan = [t \in Writers |-> "clear"]
  /\ airBegan = "clear"

\* Mutant: the exchange does not look at the flash.
FlashIdleAlways == TRUE

FlashIdle == flashWriters = 0 /\ flashWaiting = 0

\* flash_writer_may_wait()
MayBlock(w) == w \in MayWait

\* air_wait() returns, or looks again, only after a wake-up or at the deadline.
Runs(t) == t \in waiting /\ (t \in woken \/ left[t] = 0)

\* Mutant: the wait has no cap.
WaitEndsUncapped(done, t) == done

\* ... and ends when what it waits for holds or the cap ran out.
WaitEnds(done, t) == done \/ left[t] = 0

\* Mutant: the broadcast is missing.
WakeNobody == woken' = woken

\* k_condvar_broadcast()
WakeAll == woken' = waiting

----------------------------------------------------------------------------
\* A flash writer.

\* flash_hold() without a wait: no exchange runs, or this thread must not block.
FlashHold(w) ==
  /\ w \notin writing \cup waiting
  /\ ~onAir \/ ~MayBlock(w)
  /\ writing' = writing \cup {w}
  /\ flashWriters' = flashWriters + 1
  /\ writeBegan' = [writeBegan EXCEPT ![w] = IF onAir THEN "unwaited" ELSE "clear"]
  /\ UNCHANGED <<onAir, flashWaiting, waiting, woken, left, airBegan>>

FlashHoldWaits(w) ==
  /\ w \notin writing \cup waiting
  /\ onAir /\ MayBlock(w)
  /\ waiting' = waiting \cup {w}
  /\ flashWaiting' = flashWaiting + 1
  /\ left' = [left EXCEPT ![w] = FlashWaitAirMax]
  /\ UNCHANGED <<onAir, flashWriters, writing, woken, writeBegan, airBegan>>

\* Mutant: a wait that ends does not take itself out of m_flash_waiting.
FlashHoldStaysCounted(w) ==
  /\ w # Radio /\ Runs(w)
  /\ WaitEnds(~onAir, w)
  /\ waiting' = waiting \ {w}
  /\ woken' = woken \ {w}
  /\ writing' = writing \cup {w}
  /\ flashWriters' = flashWriters + 1
  /\ writeBegan' = [writeBegan EXCEPT ![w] = IF onAir THEN "capped" ELSE "clear"]
  /\ UNCHANGED <<onAir, flashWaiting, left, airBegan>>

\* The air is idle, or the cap ran out: the write goes ahead either way.
FlashHoldProceeds(w) ==
  /\ w # Radio /\ Runs(w)
  /\ WaitEnds(~onAir, w)
  /\ waiting' = waiting \ {w}
  /\ woken' = woken \ {w}
  /\ writing' = writing \cup {w}
  /\ flashWaiting' = flashWaiting - 1
  /\ flashWriters' = flashWriters + 1
  /\ writeBegan' = [writeBegan EXCEPT ![w] = IF onAir THEN "capped" ELSE "clear"]
  /\ UNCHANGED <<onAir, left, airBegan>>

FlashHoldWaitsAgain(w) ==
  /\ w # Radio /\ Runs(w)
  /\ ~WaitEnds(~onAir, w)
  /\ woken' = woken \ {w}
  /\ UNCHANGED <<onAir, flashWriters, flashWaiting, writing, waiting, left,
                  writeBegan, airBegan>>

FlashRelease(w) ==
  /\ w \in writing
  /\ writing' = writing \ {w}
  /\ flashWriters' = IF flashWriters > 0 THEN flashWriters - 1 ELSE 0
  /\ WakeAll
  /\ UNCHANGED <<onAir, flashWaiting, waiting, left, writeBegan, airBegan>>

----------------------------------------------------------------------------
\* The radio work queue.  A flash write of its own runs to its end before the
\* queue starts or ends an exchange.

RadioFree == Radio \notin writing \cup waiting

AirBegin ==
  /\ RadioFree /\ ~onAir
  /\ FlashIdle
  /\ onAir' = TRUE
  /\ airBegan' = "clear"
  /\ UNCHANGED <<flashWriters, flashWaiting, writing, waiting, woken,
                  left, writeBegan>>

AirBeginWaits ==
  /\ RadioFree /\ ~onAir
  /\ ~FlashIdle
  /\ waiting' = waiting \cup {Radio}
  /\ left' = [left EXCEPT ![Radio] = AirWaitFlashMax]
  /\ UNCHANGED <<onAir, flashWriters, flashWaiting, writing, woken,
                  writeBegan, airBegan>>

AirBeginProceeds ==
  /\ Runs(Radio)
  /\ WaitEnds(FlashIdle, Radio)
  /\ waiting' = waiting \ {Radio}
  /\ woken' = woken \ {Radio}
  /\ onAir' = TRUE
  /\ airBegan' = IF FlashIdle THEN "clear" ELSE "capped"
  /\ UNCHANGED <<flashWriters, flashWaiting, writing, left, writeBegan>>

AirBeginWaitsAgain ==
  /\ Runs(Radio)
  /\ ~WaitEnds(FlashIdle, Radio)
  /\ woken' = woken \ {Radio}
  /\ UNCHANGED <<onAir, flashWriters, flashWaiting, writing, waiting, left,
                  writeBegan, airBegan>>

AirEnd ==
  /\ onAir /\ RadioFree
  /\ onAir' = FALSE
  /\ WakeAll
  /\ UNCHANGED <<flashWriters, flashWaiting, writing, waiting, left,
                  writeBegan, airBegan>>

----------------------------------------------------------------------------
\* One tick of the uptime clock.  A thread at its deadline runs before the next.
GateTick ==
  /\ waiting # {}
  /\ \A t \in waiting : left[t] > 0
  /\ left' = [t \in Writers |-> IF t \in waiting THEN left[t] - 1 ELSE left[t]]
  /\ UNCHANGED <<onAir, flashWriters, flashWaiting, writing, waiting, woken,
                  writeBegan, airBegan>>

GateNext ==
  \/ \E w \in Writers : \/ FlashHold(w)
                        \/ FlashHoldWaits(w)
                        \/ FlashHoldProceeds(w)
                        \/ FlashHoldWaitsAgain(w)
                        \/ FlashRelease(w)
  \/ AirBegin
  \/ AirBeginWaits
  \/ AirBeginProceeds
  \/ AirBeginWaitsAgain
  \/ AirEnd
  \/ GateTick

GateSpec == GateInit /\ [][GateNext]_gateVars

(***************************************************************************)
(* Every write and every exchange ends, and a thread that can leave        *)
(* air_wait() is scheduled.  The fairness of AirEnd is strong because the  *)
(* radio queue may write flash inside an exchange, which disables AirEnd   *)
(* for as long as the write takes: it writes a finite number of times (an  *)
(* alarm latch, a replay cursor) before the exchange ends.  Nothing is     *)
(* asked of the clock: with this fairness alone no wait may depend on its  *)
(* cap.                                                                    *)
(***************************************************************************)
Scheduling ==
  /\ SF_gateVars(AirEnd)
  /\ WF_gateVars(AirBeginProceeds)
  /\ \A w \in Writers : WF_gateVars(FlashRelease(w)) /\ WF_gateVars(FlashHoldProceeds(w))

ScheduledGate == GateSpec /\ Scheduling

----------------------------------------------------------------------------
\* Safety: the two counters are the number of threads writing and waiting,
\* whatever the interleaving of holds, releases, caps and wake-ups; a miscount
\* would block the radio on a writer that does not exist.
CountersMatchThreads ==
  /\ flashWriters = Cardinality(writing)
  /\ flashWaiting = Cardinality(waiting \ {Radio})

\* Safety: a write overlaps an exchange only when one of them ran into its cap
\* or the writer is a thread that may not wait and started inside the exchange.
\* A writer that could wait and did, and an exchange that got its turn, never
\* overlap (app_radio.h: a writer waits for a running exchange, an exchange for
\* a running or waiting writer).
OverlapIsExcused ==
  \A w \in writing :
    onAir => \/ writeBegan[w] \in {"capped", "unwaited"}
             \/ airBegan = "capped"

\* Safety: whoever waits for a condition that holds has been woken; the gate
\* loses no wake-up, so no wait silently turns into its 10 s or 1 s cap.
NoLostWakeup ==
  /\ \A w \in waiting \ {Radio} : ~onAir => w \in woken
  /\ Radio \in waiting /\ FlashIdle => Radio \in woken

GateSafety == GateType /\ CountersMatchThreads /\ OverlapIsExcused /\ NoLostWakeup

\* Action property: an exchange starts over a writer that waits, or that is
\* writing, only after its own cap: a busy radio cannot starve the writers.
ExchangeYieldsToWriters ==
  [][~onAir /\ onAir' /\ (writing \cup waiting) \ {Radio} # {}
     => airBegan' = "capped"]_gateVars

\* Liveness without the caps: a writer that waits for the air gets the flash as
\* long as exchanges end, however many of them the radio has to run.
WriterGetsFlash == \A w \in MayWait : w \in waiting ~> w \in writing

\* Liveness with the caps: as long as time passes an exchange starts even when writers keep the flash
\* busy one after the other (app_radio_flash_hold() does not wait for a waiting
\* exchange, so the 1 s cap is what the radio depends on).
ExchangeStarts == WF_gateVars(GateTick) => (Radio \in waiting ~> onAir)

=============================================================================
