----------------------------- MODULE P2PSession -----------------------------
(***************************************************************************)
(* The P2P session of app/src/app_radio_p2p.c: the frame counter and its   *)
(* reservation in flash, the dev_nonce lane, the pairing record, and what  *)
(* a reset leaves of them.                                                 *)
(*                                                                         *)
(* nvs is what the flash holds, ram what the module keeps.  Every handler  *)
(* is one action on the radio work queue; a settings save in it may fail,  *)
(* and PowerLoss stops a handler after any of its saves.  A session key is *)
(* named by the number (dev_nonce) of the attempt that made it, 0 is none: *)
(* nothing is assumed of the nonce the network adds to a LoRa key.         *)
(***************************************************************************)
EXTENDS Integers

CONSTANTS
  Reserve,     \* P2P_FCNT_RESERVE
  MaxCounter,  \* UINT32_MAX, the counter that is never handed out
  Modulations, \* the modulations the configuration switches between
  Texts,       \* the plaintexts
  NoText,
  MaxNonce     \* bound: the last attempt number of a run

Lora == "lora"
Fsk == "fsk"

ASSUME ReserveAssumption == Reserve \in Nat /\ Reserve >= 2
ASSUME CounterAssumption == MaxCounter \in Nat /\ MaxCounter >= Reserve
ASSUME ModulationAssumption == Modulations \subseteq {Lora, Fsk}
ASSUME TextAssumption == NoText \notin Texts
ASSUME NonceAssumption == MaxNonce \in Nat

VARIABLES
  nvs,     \* p2pfc/base, p2pjoin/dnonce, p2pjoin/state (key 0 = no record)
  ram,     \* m_fcnt, m_fcnt_reserved, m_dev_nonce, m_session_key, m_link_state, m_retx
  config,  \* g_app_config.p2p_modulation
  sealed,  \* history: what was sealed under the session keys
  aired,   \* history: the highest attempt number that was on the air
  lane     \* history: the last counter of TOWER frames since the last JoinAccept

sessionVars == <<nvs, ram, config, sealed, aired, lane>>

Counters == 0..MaxCounter
NoRetx == [text |-> NoText, counter |-> 0]
NoRecord == [key |-> 0, modulation |-> Lora]

SessionType ==
  /\ nvs \in [base : Counters, nonce : Nat,
              state : [key : Nat, modulation : {Lora, Fsk}]]
  /\ ram \in [fcnt : Counters, reserved : Counters, nonce : Nat, key : Nat,
              link : {"UNPAIRED", "JOINING", "PAIRED"},
              retx : [text : Texts \union {NoText}, counter : Counters]]
  /\ config \in Modulations
  /\ sealed \subseteq [key : Nat \ {0}, counter : 1..(MaxCounter - 1), text : Texts]
  /\ aired \in Nat
  /\ lane \in Counters

\* app_radio_p2p_init() and _start(): what a boot makes of the flash.  The
\* counter resumes at the reserved high-water; a record of the other modulation
\* is ignored.
Boot(n, m) ==
  LET paired == n.state.key # 0 /\ n.state.modulation = m
  IN  [fcnt |-> n.base, reserved |-> n.base, nonce |-> n.nonce,
       key |-> IF paired THEN n.state.key ELSE 0,
       link |-> IF paired THEN "PAIRED" ELSE "JOINING",
       retx |-> NoRetx]

SessionInit ==
  /\ nvs = [base |-> 0, nonce |-> 0, state |-> NoRecord]
  /\ config \in Modulations
  /\ ram = Boot(nvs, config)
  /\ sealed = {}
  /\ aired = 0
  /\ lane = 0

----------------------------------------------------------------------------
\* The frame counter.

\* Mutant: the window moves in RAM alone.
SavesNothing(n, target) == n

\* fcnt_reserve(), the save that succeeded.
SaveBase(n, target) == [n EXCEPT !.base = target]

\* A counter that is not given: nothing changed.
Refused(n, r) == [nvs |-> n, ram |-> r, counter |-> 0]

HighWater(f) ==
  IF f > MaxCounter - Reserve THEN MaxCounter ELSE f + Reserve

\* TOWER reserves the counter 0.
FirstFree(f) == IF f = 0 THEN 1 ELSE f

\* The counter from n and r once the reservation covers it.
Given(n, r) ==
  [nvs |-> n, ram |-> [r EXCEPT !.fcnt = FirstFree(r.fcnt) + 1],
   counter |-> FirstFree(r.fcnt)]

\* twr_counter_next(): the outcomes, with the counter 0 where it refuses.
Take(n, r) ==
  IF r.fcnt = MaxCounter THEN {Refused(n, r)}
  ELSE IF r.fcnt < r.reserved THEN {Given(n, r)}
  ELSE {Refused(n, r),
        Given(SaveBase(n, HighWater(r.fcnt)), [r EXCEPT !.reserved = HighWater(r.fcnt)])}

----------------------------------------------------------------------------
\* The data plane.

\* retx_counter(): the same plaintext, and no counter taken since.
Reuses(r, text) == r.retx.text = text /\ r.fcnt = r.retx.counter + 1

Frame(k, c, text) == [key |-> k, counter |-> c, text |-> text]

\* The counter of an app_radio retry, or a fresh one.
DataCounter(text, kept) ==
  Take(nvs, ram)
  \union (IF kept /\ Reuses(ram, text)
          THEN {[nvs |-> nvs, ram |-> ram, counter |-> ram.retx.counter]} ELSE {})

\* p2p_auto_ack(): a fresh counter of the node's own, if an ACK is owed.
AckCounter(o, ack) ==
  IF ack = NoText THEN {Refused(o.nvs, o.ram)} ELSE Take(o.nvs, o.ram)

LastOf(o, p) == IF p.counter = 0 THEN o.counter ELSE p.counter

\* p2p_exchange(): the frame of `text` (`kept` if app_radio may retry it), and
\* the ACK of a downlink that came with its answer.  Sealed is as good as sent:
\* how often and whether the radio then keyed does not matter.
Exchange(text, kept, ack) ==
  /\ ram.link = "PAIRED"
  /\ \E o \in DataCounter(text, kept) : \E p \in AckCounter(o, ack) :
       /\ o.counter # 0
       /\ sealed' = sealed \union {Frame(ram.key, o.counter, text)}
                    \union (IF p.counter = 0 THEN {} ELSE {Frame(ram.key, p.counter, ack)})
       /\ lane' = IF config = Fsk THEN LastOf(o, p) ELSE lane
       /\ nvs' = p.nvs
       /\ ram' = [p.ram EXCEPT !.retx = IF kept THEN [text |-> text, counter |-> o.counter]
                                       ELSE NoRetx]
  /\ UNCHANGED <<config, aired>>

----------------------------------------------------------------------------
\* Joining and pairing.

\* The attempt's number: 0 is a reserved counter.
Attempt == IF ram.nonce = 0 THEN 1 ELSE ram.nonce

\* dnonce_persist(), the save that succeeded.
SaveNonce(n, next) == [n EXCEPT !.nonce = next]

\* send_join_request(): the number is saved, then sent; a failed save sends
\* nothing.  No JoinAccept, or one whose record could not be saved.
JoinRequest ==
  /\ ram.link = "JOINING" /\ config = Lora
  /\ Attempt <= MaxNonce
  /\ nvs' = SaveNonce(nvs, Attempt + 1)
  /\ ram' = [ram EXCEPT !.nonce = Attempt + 1]
  /\ aired' = Attempt
  /\ UNCHANGED <<config, sealed, lane>>

Record(k, m) == [key |-> k, modulation |-> m]

\* pairing_persist() with the record saved: PAIRED, session_reset().
Paired(r, k) == [r EXCEPT !.key = k, !.link = "PAIRED", !.retx = NoRetx]

\* A JoinAccept: the counter restarts, and its new reservation may not be saved.
Joined ==
  /\ ram.link = "JOINING" /\ config = Lora
  /\ Attempt <= MaxNonce
  /\ LET n == [SaveNonce(nvs, Attempt + 1) EXCEPT !.state = Record(Attempt, Lora)]
         r == [Paired(ram, Attempt) EXCEPT !.nonce = Attempt + 1, !.fcnt = 0]
     IN  \/ nvs' = [n EXCEPT !.base = Reserve] /\ ram' = [r EXCEPT !.reserved = Reserve]
         \/ nvs' = n /\ ram' = r
  /\ aired' = Attempt
  /\ lane' = 0
  /\ UNCHANGED <<config, sealed>>

\* twr_pair_attempt(): a JOIN_REQ alone, or a JOIN_CONFIRM whose pairing could
\* not be saved.
PairRequest ==
  /\ ram.link = "JOINING" /\ config = Fsk
  /\ Attempt <= MaxNonce
  /\ nvs' = SaveNonce(nvs, Attempt + 2)
  /\ ram' = [ram EXCEPT !.nonce = Attempt + 2]
  /\ aired' \in {Attempt, Attempt + 1}
  /\ UNCHANGED <<config, sealed, lane>>

\* Mutant: a TOWER pairing restarts the counter too.
RestartCounter(r) == [r EXCEPT !.fcnt = 0]

\* keep_fcnt: the counter runs on.
KeepCounter(r) == r

\* twr_pair_commit() after the JOIN_CONFIRM, the record saved.
PairedTower ==
  /\ ram.link = "JOINING" /\ config = Fsk
  /\ Attempt <= MaxNonce
  /\ nvs' = [SaveNonce(nvs, Attempt + 2) EXCEPT !.state = Record(Attempt, Fsk)]
  /\ ram' = [KeepCounter(Paired(ram, Attempt)) EXCEPT !.nonce = Attempt + 2]
  /\ aired' = Attempt + 1
  /\ UNCHANGED <<config, sealed, lane>>

Unpaired(r) == [r EXCEPT !.link = "UNPAIRED", !.retx = NoRetx]

\* pairing_clear(): Detach, unjoin, a link reset.  The record may stay.
PairingClear ==
  /\ \/ nvs' = [nvs EXCEPT !.state = NoRecord]
     \/ nvs' = nvs
  /\ ram' = Unpaired(ram)
  /\ UNCHANGED <<config, sealed, aired, lane>>

\* start_join_episode(): RejoinReq, the self-heal, the operator's join.
StartJoin ==
  /\ ram' = [ram EXCEPT !.link = "JOINING"]
  /\ UNCHANGED <<nvs, config, sealed, aired, lane>>

----------------------------------------------------------------------------
\* What the handler that was running had saved when the power went; the later
\* points (after a frame, after the record) are the states its action ends in.
Interrupted(n) ==
  {n}
  \union (IF ram.link = "JOINING" /\ Attempt <= MaxNonce
          THEN {SaveNonce(n, Attempt + (IF config = Lora THEN 1 ELSE 2))} ELSE {})
  \union (IF ram.link = "PAIRED" /\ ram.fcnt >= ram.reserved
          THEN {SaveBase(n, HighWater(ram.fcnt))} ELSE {})

\* Any reset, with the configuration it boots into.
PowerLoss ==
  /\ nvs' \in Interrupted(nvs)
  /\ config' \in Modulations
  /\ ram' = Boot(nvs', config')
  /\ UNCHANGED <<sealed, aired, lane>>

SessionNext ==
  \/ \E text \in Texts, kept \in BOOLEAN, ack \in Texts \union {NoText} :
       Exchange(text, kept, ack)
  \/ JoinRequest \/ Joined
  \/ PairRequest \/ PairedTower
  \/ PairingClear
  \/ StartJoin
  \/ PowerLoss

SessionSpec == SessionInit /\ [][SessionNext]_sessionVars

----------------------------------------------------------------------------
\* Safety, what CCM rests on: no two plaintexts go under one key and counter,
\* whatever saves fail, wherever the power goes and however pairings follow
\* one another.
NonceUnique ==
  \A e, f \in sealed : e.key = f.key /\ e.counter = f.counter => e.text = f.text

\* Safety: the flash is ahead of the air.  An attempt number that was on the
\* air is below the one a reboot resumes from: no JoinAccept fits twice.
AttemptsAreSpent == aired # 0 => aired < nvs.nonce

\* Safety: a paired node's session is in the flash; one only in RAM would be
\* gone after a reset, with its gateway none the wiser.
PairedIsDurable == ram.link = "PAIRED" => ram.key # 0 /\ nvs.state.key = ram.key

\* Safety: a reset at any time resumes above every counter of the session it
\* restores.
ResumesAbove ==
  \A e \in sealed : e.key = nvs.state.key => e.counter < nvs.base

SessionSafety == SessionType /\ NonceUnique /\ AttemptsAreSpent /\ PairedIsDurable /\ ResumesAbove

\* Action property: towards a TOWER gateway the counter never falls, over new
\* pairings and resets too (it restores the replay lane by address); only a
\* JoinAccept of a LoRa network restarts it.
TowerLaneRises == [][lane' >= lane \/ (config = Lora /\ lane' = 0)]_sessionVars

=============================================================================
