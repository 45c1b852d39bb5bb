-------------------------- MODULE Commands_proofs ---------------------------
(***************************************************************************)
(* Proofs about the commands, for all commands of a phone, all downlinks    *)
(* and all power failures: a command runs once (NonceInv), no action of a   *)
(* downlink batch is lost (a case analysis of PostPlan), and every copy of  *)
(* the configuration is what the flash and a reset under way say it is      *)
(* (UnitInv): what a reset forgets is gone from all of them when it ends.   *)
(* Then about what a command sets off that is computed by passes over an    *)
(* interval: the slots of the 1-Wire probes, for every number of slots,     *)
(* devices and types, and the pages of an answer, for all contents, sizes   *)
(* and budgets.  A pass is a recursive function, and a lemma by induction   *)
(* over the interval says what its steps keep.                              *)
(***************************************************************************)
EXTENDS Commands, CommandPages, W1Slots, FiniteSetTheorems, SequenceTheorems,
        WellFoundedInduction, TLAPS

IsConfig(c) == DOMAIN c = DOMAIN Defaults /\ c.nonce \in Nat

\* What the counter is compared with, and the records that carry it.
CountersTyped ==
  /\ IsConfig(flash) /\ IsConfig(staged) /\ phone \in Taps
  /\ DOMAIN hist = DOMAIN NoHist /\ hist.spent \in Nat
  /\ DOMAIN nfc = DOMAIN Idle /\ nfc.n \in Nat

\* No copy of the counter that the unit may go on from is behind the last command run.
SpentIsKept == hist.spent <= flash.nonce /\ (up => hist.spent <= staged.nonce)

\* A batch that will be rolled back has the counter of its snapshot: none moves it meanwhile.
RollbackKeeps ==
  batch.kind = "set_bad" =>
    /\ up /\ ~Unlocked
    /\ IsConfig(batch.before) /\ batch.before.nonce = staged.nonce

\* The request in service is above what ran; it is handled only when both copies have it.
ServedIsNew ==
  /\ nfc.pc \in {"persist", "handle"} => up /\ nfc.n > hist.spent
  /\ nfc.pc = "persist" =>
       staged.nonce = nfc.n /\ nfc.prev \in Nat /\ nfc.prev >= hist.spent
  /\ nfc.pc = "handle" => staged.nonce >= nfc.n /\ flash.nonce >= nfc.n

NonceInv == CountersTyped /\ SpentIsKept /\ RollbackKeeps /\ ServedIsNew

-----------------------------------------------------------------------------
(* Configurations: every copy that is made of one keeps its counter *)

LEMMA DefaultsAreConfig ==
  /\ DOMAIN Defaults = {"key", "nonce", "token", "calib", "allow", "lrw", "rule", "version"}
  /\ IsConfig(Defaults) /\ Defaults.nonce = 0
BY DEF Defaults, IsConfig

\* A reset, whatever its tier, keeps the counter.
LEMMA ResetKeeps ==
  ASSUME NEW c, IsConfig(c), NEW tier \in {"device", "factory", "vendor"}
  PROVE  IsConfig(ResetTo(tier, c)) /\ ResetTo(tier, c).nonce = c.nonce
<1>1. "nonce" \in Tier(tier)
  BY DEF Tier
<1>2. "nonce" \in DOMAIN c
  BY DefaultsAreConfig DEF IsConfig
<1> QED BY <1>1, <1>2 DEF ResetTo, IsConfig

\* So does a migration.
LEMMA MigrationKeeps ==
  ASSUME NEW c, IsConfig(c)
  PROVE  IsConfig(Migrated(c)) /\ Migrated(c).nonce = c.nonce
<1>1. IsConfig(Loaded(c)) /\ Loaded(c).nonce = c.nonce
  BY DefaultsAreConfig DEF Loaded, IsConfig
<1>2. IsConfig(ResetTo("device", Loaded(c))) /\ ResetTo("device", Loaded(c)).nonce = c.nonce
  BY <1>1, ResetKeeps
<1> QED BY <1>1, <1>2 DEF Migrated

\* A save that power cut short leaves the one counter or the other.
LEMMA TornKeeps ==
  ASSUME NEW old, NEW new, IsConfig(old), IsConfig(new), NEW n
  PROVE  IsConfig(Torn(old, new, n)) /\ Torn(old, new, n).nonce \in {old.nonce, new.nonce}
BY DefaultsAreConfig DEF Torn, IsConfig

\* What a batch stages keeps the counter.
LEMMA StagingKeeps ==
  ASSUME NEW c, IsConfig(c), NEW param \in SetParams
  PROVE  IsConfig(Staging(param, c)) /\ Staging(param, c).nonce = c.nonce
BY DefaultsAreConfig DEF Staging, SetParams, IsConfig

LEMMA NonceStarts == CmdInit => NonceInv
<1> SUFFICES ASSUME CmdInit PROVE NonceInv
  OBVIOUS
<1>1. IsConfig(flash)
  BY DefaultsAreConfig DEF CmdInit, IsConfig
<1>2. staged = Defaults /\ batch = NoBatch /\ nfc = Idle /\ hist = NoHist /\ up = FALSE /\ phone \in Taps
  BY DEF CmdInit, OffState
<1>3. hist.spent = 0 /\ nfc.n = 0 /\ nfc.pc = "idle" /\ batch.kind = "none"
  BY <1>2 DEF NoHist, Idle, NoBatch
<1> QED
  BY <1>1, <1>2, <1>3, DefaultsAreConfig
  DEF NonceInv, CountersTyped, SpentIsKept, RollbackKeeps, ServedIsNew, IsConfig

-----------------------------------------------------------------------------
(* Steps, by what they do to the copies of the counter *)

\* The flash keeps its counter or takes the staged one.
FlashKeeps == IsConfig(flash') /\ (flash'.nonce = flash.nonce \/ (up /\ flash'.nonce = staged.nonce))

\* The mailbox, the batch and the counter of the staged copy stay.
Quiet ==
  /\ UNCHANGED <<up, batch, nfc, phone>>
  /\ DOMAIN hist' = DOMAIN hist /\ hist'.spent = hist.spent
  /\ IsConfig(staged') /\ staged'.nonce = staged.nonce
  /\ FlashKeeps

LEMMA QuietKeeps == NonceInv /\ Quiet => NonceInv'
BY DEF NonceInv, CountersTyped, SpentIsKept, RollbackKeeps, ServedIsNew, Quiet, FlashKeeps, Unlocked, IsConfig

\* The unit goes off: only the flash is left.
LEMMA OffKeeps ==
  ASSUME NonceInv, PowersOff, phone' = phone, FlashKeeps
  PROVE  NonceInv'
<1>1. staged' = Defaults /\ batch' = NoBatch /\ nfc' = Idle /\ up' = FALSE
  BY DEF PowersOff
<1>2. DOMAIN hist' = DOMAIN NoHist /\ hist'.spent = hist.spent
  BY DEF PowersOff, NonceInv, CountersTyped, NoHist
<1>3. nfc'.n = 0 /\ nfc'.pc = "idle" /\ batch'.kind = "none"
  BY <1>1 DEF Idle, NoBatch
<1> QED
  BY <1>1, <1>2, <1>3, DefaultsAreConfig
  DEF NonceInv, CountersTyped, SpentIsKept, RollbackKeeps, ServedIsNew, FlashKeeps, IsConfig

LEMMA BootKeeps == NonceInv /\ Boot => NonceInv'
<1> SUFFICES ASSUME NonceInv, Boot PROVE NonceInv'
  OBVIOUS
<1>1. IsConfig(Migrated(flash)) /\ Migrated(flash).nonce = flash.nonce
  BY MigrationKeeps DEF NonceInv, CountersTyped
<1> QED
  BY <1>1 DEF Boot, NonceInv, CountersTyped, SpentIsKept, RollbackKeeps, ServedIsNew, Unlocked

LEMMA PowerFailsKeeps == NonceInv /\ PowerFails => NonceInv'
<1> SUFFICES ASSUME NonceInv, PowerFails PROVE NonceInv'
  OBVIOUS
<1>1. IsConfig(flash) /\ PowersOff /\ phone' = phone
  BY DEF PowerFails, NonceInv, CountersTyped
<1>2. CASE UNCHANGED flash
  <2>1. FlashKeeps
    BY <1>1, <1>2 DEF FlashKeeps, IsConfig
  <2> QED BY <1>1, <2>1, OffKeeps
<1>3. CASE \E n \in 0..Len(Order) : flash' = Torn(flash, Migrated(flash), n)
  <2>1. IsConfig(flash') /\ flash'.nonce = flash.nonce
    BY <1>1, <1>3, MigrationKeeps, TornKeeps
  <2>2. FlashKeeps
    BY <2>1 DEF FlashKeeps
  <2> QED BY <1>1, <2>2, OffKeeps
<1> QED BY <1>2, <1>3 DEF PowerFails

LEMMA SaveKeeps ==
  ASSUME NonceInv, NEW t \in Threads, Save(t)
  PROVE  NonceInv'
<1>1. IsConfig(flash) /\ IsConfig(staged) /\ up /\ phone' = phone
  BY DEF Save, At, NonceInv, CountersTyped
<1>2. CASE flash' = staged /\ UNCHANGED <<up, hist, staged, batch, nfc>>
  <2>1. Quiet
    BY <1>1, <1>2 DEF Quiet, FlashKeeps, IsConfig
  <2> QED BY <2>1, QuietKeeps
<1>3. CASE PowersOff /\ \E n \in 1..(Len(Order) - 1) : flash' = Torn(flash, staged, n)
  <2>1. IsConfig(flash') /\ flash'.nonce \in {flash.nonce, staged.nonce}
    BY <1>1, <1>3, TornKeeps
  <2>2. FlashKeeps
    BY <1>1, <2>1 DEF FlashKeeps
  <2> QED BY <1>1, <1>3, <2>2, OffKeeps
<1> QED BY <1>2, <1>3 DEF Save

LEMMA ResetTierKeeps ==
  ASSUME NonceInv, NEW t \in Threads, NEW tier \in {"device", "factory", "vendor"}, ResetTier(t, tier)
  PROVE  NonceInv'
<1>1. IsConfig(flash) /\ IsConfig(staged) /\ "spent" \in DOMAIN hist
  BY DEF NonceInv, CountersTyped, NoHist
<1>2. IsConfig(staged') /\ staged'.nonce = staged.nonce
  BY <1>1, ResetKeeps DEF ResetTier
<1>3. DOMAIN hist' = DOMAIN hist /\ hist'.spent = hist.spent
  BY <1>1 DEF ResetTier
<1>4. UNCHANGED <<up, flash, batch, nfc, phone>>
  BY DEF ResetTier
<1>5. Quiet
  BY <1>1, <1>2, <1>3, <1>4 DEF Quiet, FlashKeeps, IsConfig
<1> QED BY <1>5, QuietKeeps

\* The other steps of a deferred action.
LEMMA JobStepKeeps ==
  ASSUME NonceInv, NEW t \in Threads,
         \/ ClearRules(t) \/ SetKey(t) \/ SaveKey(t) \/ Calibrate(t) \/ ZeroCounters(t)
         \/ SaveCounters(t) \/ ClearHistory(t) \/ ResetLink(t) \/ SetLatch(t) \/ Rejoin(t)
  PROVE  NonceInv'
<1>1. IsConfig(flash) /\ IsConfig(staged) /\ UNCHANGED <<up, batch, nfc, phone, hist>>
  BY DEF NonceInv, CountersTyped, OneStep, ClearRules, SetKey, SaveKey, Calibrate, ZeroCounters,
         SaveCounters, ClearHistory, ResetLink, SetLatch, Rejoin
<1>2. IsConfig(staged') /\ staged'.nonce = staged.nonce
  BY <1>1, DefaultsAreConfig
  DEF IsConfig, ClearRules, SetKey, SaveKey, Calibrate, ZeroCounters, SaveCounters, ClearHistory,
      ResetLink, SetLatch, Rejoin
<1>3. IsConfig(flash') /\ flash'.nonce = flash.nonce
  BY <1>1, DefaultsAreConfig
  DEF IsConfig, ClearRules, SetKey, SaveKey, Calibrate, ZeroCounters, SaveCounters, ClearHistory,
      ResetLink, SetLatch, Rejoin
<1>4. Quiet
  BY <1>1, <1>2, <1>3 DEF Quiet, FlashKeeps
<1> QED BY <1>4, QuietKeeps

-----------------------------------------------------------------------------
(* The mailbox *)

\* A handler does not move the counter.
LEMMA HandlesKeep ==
  ASSUME NEW cmd, IsConfig(staged), Handles(cmd)
  PROVE  IsConfig(staged') /\ staged'.nonce = staged.nonce
BY DefaultsAreConfig DEF Handles, IsConfig

LEMMA BatchBeginsKeeps ==
  ASSUME NEW t, NEW cmd \in SetParams, IsConfig(staged), SetParamBegins(t, cmd), t # "none"
  PROVE  /\ IsConfig(staged') /\ staged'.nonce = staged.nonce
         /\ batch'.before = staged /\ batch'.owner = t
<1>1. IsConfig(Staging(cmd, staged)) /\ Staging(cmd, staged).nonce = staged.nonce
  BY StagingKeeps
<1> QED BY <1>1 DEF SetParamBegins

LEMMA BatchEndsKeeps ==
  ASSUME NonceInv, SetParamEnds(batch.kind)
  PROVE  IsConfig(staged') /\ staged'.nonce = staged.nonce /\ batch'.kind = "none"
<1>1. batch'.kind = "none"
  BY DEF SetParamEnds, NoBatch
<1>2. IsConfig(staged') /\ staged'.nonce = staged.nonce
  BY DEF SetParamEnds, NonceInv, CountersTyped, RollbackKeeps
<1> QED BY <1>1, <1>2

LEMMA ReceiveKeeps ==
  ASSUME NonceInv, NEW n \in DOMAIN phone, Receive(n)
  PROVE  NonceInv'
<1>1. n \in Nat
  <2>1. phone \in Seq(STRING)
    BY TapsAssumption DEF NonceInv, CountersTyped
  <2> QED BY <2>1
<1>2. /\ up /\ UNCHANGED <<up, flash, phone, batch, hist>>
      /\ DOMAIN nfc' = DOMAIN Idle /\ nfc'.n = n
  BY DEF Receive, Serving, AtMb, Idle
<1>3. CASE cache = n
  <2>1. nfc'.pc = "reply" /\ staged' = staged
    BY <1>3 DEF Receive, Idle
  <2> QED BY <1>1, <1>2, <2>1
    DEF NonceInv, CountersTyped, SpentIsKept, RollbackKeeps, ServedIsNew, Unlocked
<1>4. CASE cache # n
  <2>1. /\ n > staged.nonce /\ Unlocked
        /\ nfc'.pc = "persist" /\ nfc'.prev = staged.nonce
        /\ staged' = [staged EXCEPT !.nonce = n]
    BY <1>4 DEF Receive, Fresh, AdvanceWaits, Idle
  <2>2. IsConfig(staged') /\ staged'.nonce = n
    BY <1>1, <2>1, DefaultsAreConfig DEF NonceInv, CountersTyped, IsConfig
  <2>3. staged.nonce \in Nat /\ hist.spent \in Nat /\ hist.spent <= staged.nonce
    BY <1>2 DEF NonceInv, CountersTyped, SpentIsKept, IsConfig
  <2> QED BY <1>1, <1>2, <2>1, <2>2, <2>3
    DEF NonceInv, CountersTyped, SpentIsKept, RollbackKeeps, ServedIsNew, Unlocked
<1> QED BY <1>3, <1>4

LEMMA PersistKeeps == NonceInv /\ PersistNonce => NonceInv'
<1> SUFFICES ASSUME NonceInv, PersistNonce PROVE NonceInv'
  OBVIOUS
<1>1. /\ up /\ nfc.pc = "persist" /\ UNCHANGED <<up, phone, hist, batch>>
      /\ IsConfig(staged) /\ IsConfig(flash) /\ {"pc", "n", "prev"} \subseteq DOMAIN nfc
  BY DEF PersistNonce, AtMb, NonceInv, CountersTyped, Idle
<1>2. /\ staged.nonce = nfc.n /\ nfc.n > hist.spent /\ nfc.prev \in Nat /\ nfc.prev >= hist.spent
      /\ hist.spent \in Nat /\ nfc.n \in Nat
  BY <1>1 DEF NonceInv, ServedIsNew, CountersTyped
<1>3. CASE /\ flash' = [flash EXCEPT !.nonce = staged.nonce]
           /\ nfc' = [nfc EXCEPT !.pc = "handle"] /\ staged' = staged
  <2>1. IsConfig(flash') /\ flash'.nonce = nfc.n
    BY <1>1, <1>2, <1>3, DefaultsAreConfig DEF IsConfig
  <2>2. DOMAIN nfc' = DOMAIN nfc /\ nfc'.n = nfc.n /\ nfc'.pc = "handle"
    BY <1>1, <1>3
  <2> QED BY <1>1, <1>2, <1>3, <2>1, <2>2
    DEF NonceInv, CountersTyped, SpentIsKept, RollbackKeeps, ServedIsNew, Unlocked
<1>4. CASE /\ Unlocked /\ nfc' = Idle /\ flash' = flash
           /\ staged' = IF staged.nonce = nfc.n THEN [staged EXCEPT !.nonce = nfc.prev] ELSE staged
  <2>1. IsConfig(staged') /\ staged'.nonce = nfc.prev
    BY <1>1, <1>2, <1>4, DefaultsAreConfig DEF IsConfig
  <2>2. DOMAIN nfc' = DOMAIN Idle /\ nfc'.n = 0 /\ nfc'.pc = "idle"
    BY <1>4 DEF Idle
  <2> QED BY <1>1, <1>2, <1>4, <2>1, <2>2
    DEF NonceInv, CountersTyped, SpentIsKept, RollbackKeeps, ServedIsNew, Unlocked
<1> QED BY <1>3, <1>4 DEF PersistNonce

LEMMA HandleKeeps == NonceInv /\ Handle => NonceInv'
<1> SUFFICES ASSUME NonceInv, Handle PROVE NonceInv'
  OBVIOUS
<1>1. /\ up /\ nfc.pc = "handle" /\ UNCHANGED <<up, flash, phone>>
      /\ IsConfig(staged) /\ {"pc", "n", "act"} \subseteq DOMAIN nfc /\ "spent" \in DOMAIN hist
  BY DEF Handle, AtMb, NonceInv, CountersTyped, Idle, NoHist
<1>2. /\ nfc.n > hist.spent /\ staged.nonce >= nfc.n /\ flash.nonce >= nfc.n /\ nfc.n \in Nat
  BY <1>1 DEF NonceInv, ServedIsNew, CountersTyped
<1>3. DOMAIN hist' = DOMAIN hist /\ hist'.spent = nfc.n
  BY <1>1 DEF Handle
<1>4. DOMAIN nfc' = DOMAIN nfc /\ nfc'.n = nfc.n /\ nfc'.pc \in {"reply", "batch"}
  BY <1>1 DEF Handle
<1>5. /\ IsConfig(staged') /\ staged'.nonce = staged.nonce
      /\ \/ batch' = batch
         \/ batch'.before = staged /\ batch'.owner = "nfc"
  <2> DEFINE cmd == phone[nfc.n]
  <2>1. CASE cmd \notin SetParams /\ Handles(cmd) /\ batch' = batch
    BY <1>1, <2>1, HandlesKeep
  <2>2. CASE staged' = staged /\ batch' = batch
    BY <1>1, <2>2
  <2>3. CASE cmd \in SetParams /\ SetParamBegins("nfc", cmd)
    BY <1>1, <2>3, BatchBeginsKeeps
  <2> QED BY <2>1, <2>2, <2>3 DEF Handle
<1> QED BY <1>1, <1>2, <1>3, <1>4, <1>5
  DEF NonceInv, CountersTyped, SpentIsKept, RollbackKeeps, ServedIsNew, Unlocked

LEMMA HandleEndsKeeps == NonceInv /\ HandleEnds => NonceInv'
<1> SUFFICES ASSUME NonceInv, HandleEnds PROVE NonceInv'
  OBVIOUS
<1>1. UNCHANGED <<up, flash, phone, hist>> /\ {"pc", "n", "act"} \subseteq DOMAIN nfc
  BY DEF HandleEnds, NonceInv, CountersTyped, Idle
<1>2. DOMAIN nfc' = DOMAIN nfc /\ nfc'.n = nfc.n /\ nfc'.pc = "reply"
  BY <1>1 DEF HandleEnds
<1>3. IsConfig(staged') /\ staged'.nonce = staged.nonce /\ batch'.kind = "none"
  BY BatchEndsKeeps DEF HandleEnds
<1> QED BY <1>1, <1>2, <1>3
  DEF NonceInv, CountersTyped, SpentIsKept, RollbackKeeps, ServedIsNew

LEMMA ReplyKeeps == NonceInv /\ Reply => NonceInv'
<1> SUFFICES ASSUME NonceInv, Reply PROVE NonceInv'
  OBVIOUS
<1>1. /\ UNCHANGED <<up, flash, phone, staged, batch>> /\ nfc' = Idle
      /\ DOMAIN hist' = DOMAIN hist /\ hist'.spent = hist.spent
  BY DEF Reply, NonceInv, CountersTyped, NoHist
<1>2. nfc'.n = 0 /\ nfc'.pc = "idle"
  BY <1>1 DEF Idle
<1> QED BY <1>1, <1>2
  DEF NonceInv, CountersTyped, SpentIsKept, RollbackKeeps, ServedIsNew, Unlocked

-----------------------------------------------------------------------------
(* The radio *)

LEMMA DownlinkKeeps ==
  ASSUME NonceInv, NEW cmd, Downlink(cmd)
  PROVE  NonceInv'
<1>1. up /\ IsConfig(staged) /\ IsConfig(flash) /\ UNCHANGED <<up, flash, phone, hist, nfc>>
  BY DEF Downlink, QueueFree, NonceInv, CountersTyped
<1>2. CASE cmd \in SetParams /\ SetParamBegins("radio", cmd)
  <2>1. /\ IsConfig(staged') /\ staged'.nonce = staged.nonce
        /\ batch'.before = staged /\ batch'.owner = "radio"
    BY <1>1, <1>2, BatchBeginsKeeps
  <2> QED BY <1>1, <2>1
    DEF NonceInv, CountersTyped, SpentIsKept, RollbackKeeps, ServedIsNew, Unlocked
<1>3. CASE cmd \notin SetParams /\ Handles(cmd) /\ batch' = batch
  <2>1. IsConfig(staged') /\ staged'.nonce = staged.nonce
    BY <1>1, <1>3, HandlesKeep
  <2>2. Quiet
    BY <1>1, <1>3, <2>1 DEF Quiet, FlashKeeps, IsConfig
  <2> QED BY <2>2, QuietKeeps
<1> QED BY <1>2, <1>3 DEF Downlink

LEMMA DownlinkEndsKeeps == NonceInv /\ DownlinkEnds => NonceInv'
<1> SUFFICES ASSUME NonceInv, DownlinkEnds PROVE NonceInv'
  OBVIOUS
<1>1. UNCHANGED <<up, flash, phone, hist, nfc>>
  BY DEF DownlinkEnds
<1>2. IsConfig(staged') /\ staged'.nonce = staged.nonce /\ batch'.kind = "none"
  BY BatchEndsKeeps DEF DownlinkEnds
<1> QED BY <1>1, <1>2
  DEF NonceInv, CountersTyped, SpentIsKept, RollbackKeeps, ServedIsNew

LEMMA PostCmdKeeps == NonceInv /\ PostCmd => NonceInv'
<1> SUFFICES ASSUME NonceInv, PostCmd PROVE NonceInv'
  OBVIOUS
<1>1. /\ UNCHANGED <<up, flash, phone, staged, batch, nfc>>
      /\ DOMAIN hist' = DOMAIN hist /\ hist'.spent = hist.spent
  BY DEF PostCmd, NonceInv, CountersTyped, NoHist
<1>2. Quiet
  BY <1>1 DEF Quiet, FlashKeeps, IsConfig, NonceInv, CountersTyped
<1> QED BY <1>2, QuietKeeps

-----------------------------------------------------------------------------
LEMMA NonceStep == NonceInv /\ [CmdNext]_cmdVars => NonceInv'
<1> SUFFICES ASSUME NonceInv, [CmdNext]_cmdVars PROVE NonceInv'
  OBVIOUS
<1>1. CASE \/ UNCHANGED cmdVars \/ RunDeferred \/ \E n \in DOMAIN phone : Reject(n)
  <2>1. UNCHANGED <<up, flash, phone, staged, batch, nfc, hist>>
    BY <1>1 DEF cmdVars, unitVars, RunDeferred, Reject
  <2>2. Quiet
    BY <2>1 DEF Quiet, FlashKeeps, IsConfig, NonceInv, CountersTyped
  <2> QED BY <2>2, QuietKeeps
<1>2. CASE Boot \/ PowerFails
  BY <1>2, BootKeeps, PowerFailsKeeps
<1>3. CASE \E n \in DOMAIN phone : Receive(n)
  BY <1>3, ReceiveKeeps
<1>4. CASE PersistNonce \/ Handle \/ HandleEnds \/ Reply
  BY <1>4, PersistKeeps, HandleKeeps, HandleEndsKeeps, ReplyKeeps
<1>5. CASE DownlinkEnds \/ PostCmd \/ \E cmd \in Downlinks : Downlink(cmd)
  BY <1>5, DownlinkKeeps, DownlinkEndsKeeps, PostCmdKeeps
<1>6. CASE \E t \in Threads :
             Save(t) \/ \E tier \in {"device", "factory", "vendor"} : ResetTier(t, tier)
  BY <1>6, SaveKeeps, ResetTierKeeps
<1>7. CASE \E t \in Threads :
             \/ ClearRules(t) \/ SetKey(t) \/ SaveKey(t) \/ Calibrate(t) \/ ZeroCounters(t)
             \/ SaveCounters(t) \/ ClearHistory(t) \/ ResetLink(t) \/ SetLatch(t) \/ Rejoin(t)
  BY <1>7, JobStepKeeps
<1>8. CASE \E t \in Threads : Reboot(t)
  <2>1. PowersOff /\ UNCHANGED <<flash, phone>>
    BY <1>8 DEF Reboot
  <2>2. FlashKeeps
    BY <2>1 DEF FlashKeeps, IsConfig, NonceInv, CountersTyped
  <2> QED BY <2>1, <2>2, OffKeeps
<1> QED BY <1>1, <1>2, <1>3, <1>4, <1>5, <1>6, <1>7, <1>8 DEF CmdNext

LEMMA NonceInvariant == CmdSpec => []NonceInv
<1> QED BY NonceStarts, NonceStep, PTL DEF CmdSpec

\* The counter that decrypt() checks, that the mailbox saves before it dispatches, and that a
\* SetParam, a reset tier and a migration leave alone: no command of a phone runs twice, and
\* none before its counter is in the flash, over roll-backs, failed saves and power failures.
THEOREM CommandsRunOnce == CmdSpec => NonceNeverReused
<1>1. NonceInv => (AtMb("handle") /\ up' => nfc.n > hist.spent /\ flash.nonce >= nfc.n)
  BY DEF NonceInv, ServedIsNew, AtMb
<1> QED BY <1>1, NonceInvariant, PTL DEF NonceNeverReused
-----------------------------------------------------------------------------
(* The whole unit: what the copies hold, and where a deferred action is *)

Tiers == {"device", "factory", "vendor"}
Words == Tiers \union {"save", "clear", "key", "savekey", "calibrate", "zero", "counters", "history",
                       "link", "join", "done", "active", "reboot"}
RadioActions == {"save", "counters", "reboot", "lrw_join"}
Actions == RadioActions \union {"none", "claim_active", "enter_calibration", "lrw_reset",
                                "device_reset", "factory_reset", "vendor_reset"}
RuleKinds == {"set_rule", "set_save", "set_bad"}

PlanOf(tier) ==
  TierPlan(CASE tier = "device" -> "device_reset"
             [] tier = "factory" -> "factory_reset"
             [] tier = "vendor" -> "vendor_reset")

\* A command of the phone that wipes the key, or the radio's keys.
KeyMayGo == "vendor_reset" \in Range(phone)
LinkMayGo == Range(phone) \intersect {"factory_reset", "vendor_reset"} # {}

UnitTyped ==
  /\ up \in BOOLEAN
  /\ latch \in {"active", "done"}
  /\ nfc.pc \in {"idle", "persist", "handle", "batch", "reply"}
  /\ nfc.act \in Actions /\ action \in Actions
  /\ DOMAIN nvs = {"latch", "counters", "history", "link"}
  /\ DOMAIN jobs = Threads /\ \A t \in Threads : jobs[t] \in Seq(Words)
  /\ batch.owner \in {"none", "nfc", "radio"} /\ batch.kind \in SetParams \union {"none"}
  /\ (batch.owner = "none") = (batch.kind = "none") /\ (nfc.pc = "batch" => batch.owner = "nfc")
  /\ hist.reset \in Tiers \union {"none"}

\* Without power there is nothing but what is stored.
OffIsEmpty ==
  ~up => /\ \A t \in Threads : jobs[t] = <<>>
         /\ nfc.pc = "idle" /\ batch.owner = "none" /\ action = "none" /\ hist.reset = "none"

\* A configuration of this firmware, whose keys went by a command only.
Current(c) ==
  /\ c.version = "new" /\ c.rule \notin {"foreign", "stale"}
  /\ (c.key = 0 => KeyMayGo) /\ (c.lrw = 0 => LinkMayGo)
Stored(c) ==
  /\ c.version \in {"old", "new"} /\ (c.version = "new" => c.rule # "foreign")
  /\ (c.key = 0 => KeyMayGo) /\ (c.lrw = 0 => LinkMayGo)

CopiesAreCurrent ==
  /\ Stored(flash)
  /\ up => Current(flash) /\ Current(staged)
  /\ batch.owner # "none" => DOMAIN batch.before = DOMAIN Defaults /\ Current(batch.before)

\* The decoded rules lag only behind a batch of rules and a reset under way.
RulesLag == up /\ rules # staged.rule => batch.kind \in RuleKinds \/ hist.reset # "none"

\* The wait is as old as the first pending action.
WaitIsCounted ==
  /\ DOMAIN post = {"pending", "age"} /\ post.pending \subseteq RadioActions
  /\ post.age \in 0..MaxDrain /\ hist.held \in Nat
  /\ hist.held <= post.age /\ (post.pending = {} => hist.held = 0)

\* Who waits for a reset, or runs one, was told to by the phone; a tier comes first
\* in its plan, and the radio has none.
ResetIsAsked ==
  /\ nfc.act = "vendor_reset" \/ action = "vendor_reset" => KeyMayGo
  /\ nfc.act = "factory_reset" \/ action = "factory_reset" => LinkMayGo
  /\ \A i \in DOMAIN jobs["nfc"] :
       /\ jobs["nfc"][i] \in {"vendor", "key"} => KeyMayGo
       /\ jobs["nfc"][i] = "factory" => LinkMayGo
       /\ jobs["nfc"][i] \in Tiers => jobs["nfc"] = PlanOf(jobs["nfc"][i])
  /\ \A i \in DOMAIN jobs["radio"] : jobs["radio"][i] \in {"counters", "save", "reboot", "join"}
  /\ nfc.pc # "idle" \/ action # "none" => jobs["nfc"] = <<>>
  /\ nfc.pc # "idle" => nfc.n \in DOMAIN phone

\* What is left of a plan.
Rest(plan, left) ==
  /\ Len(left) \in 1..(Len(plan) - 1)
  /\ \A i \in 1..Len(left) : left[i] = plan[Len(plan) - Len(left) + i]

\* A configuration that a reset has wiped.
Forgot(c, tier) ==
  /\ c.rule # "old"
  /\ tier \in {"factory", "vendor"} => c.lrw \in {0, 3}
  /\ tier = "vendor" => c.token = 0

Wiped(tier, left) ==
  /\ left < Len(PlanOf(tier)) - 1 => Forgot(flash, tier)
  /\ tier = "factory" => /\ left < 5 => counters = 0
                         /\ left < 4 => nvs.counters = 0
                         /\ left < 3 => nvs.history = 0
                         /\ left < 2 => nvs.link = 0
  /\ tier = "vendor" => /\ left < 8 => counters = 0
                        /\ left < 7 => nvs.counters = 0
                        /\ left < 6 => nvs.history = 0
                        /\ left < 5 => latch = "done"
                        /\ left < 2 => nvs.link = 0

\* How far a reset has come tells what is gone.
ResetIsThere ==
  /\ up => latch = LoadedLatch(nvs.latch)
  /\ hist.reset # "none" =>
       /\ Rest(PlanOf(hist.reset), jobs["nfc"])
       /\ Forgot(staged, hist.reset)
       /\ batch.owner # "none" => Forgot(batch.before, hist.reset)
       /\ Wiped(hist.reset, Len(jobs["nfc"]))

UnitInv ==
  /\ UnitTyped /\ OffIsEmpty /\ CopiesAreCurrent /\ RulesLag /\ WaitIsCounted
  /\ ResetIsAsked /\ ResetIsThere


-----------------------------------------------------------------------------
(* What each operation makes of a configuration *)

LEMMA FieldsOf ==
  ASSUME NEW c, DOMAIN c = DOMAIN Defaults
  PROVE  {"key", "nonce", "token", "calib", "allow", "lrw", "rule", "version"} = DOMAIN c
BY DefaultsAreConfig

LEMMA OneWipeIsBoth == KeyMayGo => LinkMayGo
BY DEF KeyMayGo, LinkMayGo

\* A migrated configuration is of this firmware, whole or not at all.
LEMMA MigrationIsCurrent ==
  ASSUME NEW c, IsConfig(c), Stored(c)
  PROVE  Current(Migrated(c))
<1>1. DOMAIN Loaded(c) = DOMAIN c /\ Loaded(c).key = c.key /\ Loaded(c).lrw = c.lrw /\ Loaded(c).version = c.version
  BY FieldsOf DEF Loaded, IsConfig
<1>2. Loaded(c).rule # "stale" /\ (Loaded(c).rule = c.rule \/ Loaded(c).rule = "none")
  BY FieldsOf DEF Loaded, IsConfig, Defaults
<1>3. CASE c.version = "old"
  <2>1. Migrated(c) = ResetTo("device", Loaded(c))
    BY <1>3 DEF Migrated
  <2>2. Migrated(c).key = c.key /\ Migrated(c).lrw = c.lrw
    BY <2>1, <1>1, FieldsOf DEF ResetTo, Tier, IsConfig
  <2>3. Migrated(c).rule = "none" /\ Migrated(c).version = "new"
    BY <2>1, <1>1, FieldsOf DEF ResetTo, Tier, IsConfig, Defaults
  <2> QED BY <2>2, <2>3 DEF Current, Stored
<1>4. CASE c.version # "old"
  BY <1>1, <1>2, <1>4 DEF Migrated, Stored, Current
<1> QED BY <1>3, <1>4

\* A reset wipes what its tier names, and no key that it does not.
LEMMA ResetWipes ==
  ASSUME NEW c, IsConfig(c), Current(c), NEW tier \in Tiers,
         tier = "vendor" => KeyMayGo, tier = "factory" => LinkMayGo
  PROVE  Current(ResetTo(tier, c)) /\ Forgot(ResetTo(tier, c), tier)
<1> DEFINE d == ResetTo(tier, c)
<1>1. DOMAIN c = {"key", "nonce", "token", "calib", "allow", "lrw", "rule", "version"}
  BY FieldsOf DEF IsConfig
<1>2. d.rule = "none" /\ d.version = "new"
  BY <1>1 DEF ResetTo, Tier, Tiers, Defaults
<1>3. /\ tier # "vendor" => d.key = c.key
      /\ tier = "device" => d.lrw = c.lrw
      /\ tier # "device" => d.lrw = 0
      /\ tier = "vendor" => d.token = 0
  BY <1>1 DEF ResetTo, Tier, Tiers, Defaults
<1> QED BY <1>2, <1>3, OneWipeIsBoth DEF Current, Forgot, Tiers

\* Power cuts a save short: the version is written last.
LEMMA TornIsStored ==
  ASSUME NEW old, NEW new, IsConfig(old), IsConfig(new), Stored(old), Current(new), NEW n \in 0..Len(Order)
  PROVE  Stored(Torn(old, new, n))
<1> DEFINE d == Torn(old, new, n)
<1>1. DOMAIN old = {"key", "nonce", "token", "calib", "allow", "lrw", "rule", "version"}
  BY FieldsOf DEF IsConfig
<1>2. /\ d.key \in {old.key, new.key} /\ d.lrw \in {old.lrw, new.lrw}
      /\ d.version \in {old.version, new.version} /\ d.rule \in {old.rule, new.rule}
  BY <1>1 DEF Torn
<1>3. d.version = old.version \/ (d.version = new.version /\ d.rule = new.rule)
  <2>1. Len(Order) = 8 /\ Order[7] = "rule" /\ Order[8] = "version"
    BY DEF Order
  <2>2. CASE n = 8
    <3>1. 7 \in 1..n /\ 8 \in 1..n
      BY <2>2
    <3> QED BY <3>1, <2>1, <1>1 DEF Torn
  <2>3. CASE n < 8
    <3>1. \A i \in 1..n : Order[i] # "version"
      BY <2>3, <2>1 DEF Order
    <3> QED BY <3>1, <1>1 DEF Torn
  <2> QED BY <2>1, <2>2, <2>3
<1> QED BY <1>2, <1>3 DEF Stored, Current

\* What a batch stages is new, and is told from what a reset wiped.
LEMMA StagingIsCurrent ==
  ASSUME NEW c, DOMAIN c = DOMAIN Defaults, Current(c), NEW param \in SetParams
  PROVE  /\ Current(Staging(param, c))
         /\ param \notin RuleKinds => Staging(param, c).rule = c.rule
         /\ \A tier \in Tiers : hist.reset # "none" /\ Forgot(c, tier) => Forgot(Staging(param, c), tier)
<1> DEFINE d == Staging(param, c)
<1>1. DOMAIN c = {"key", "nonce", "token", "calib", "allow", "lrw", "rule", "version"}
  BY FieldsOf
<1>2. d.key = c.key /\ d.version = c.version /\ d.token = c.token
  BY <1>1 DEF Staging, SetParams
<1>3. d.rule \in {c.rule, IF hist.reset = "none" THEN "old" ELSE "set"} /\ (param \notin RuleKinds => d.rule = c.rule)
  BY <1>1 DEF Staging, SetParams, RuleKinds
<1>4. d.lrw \in {c.lrw, IF hist.reset = "none" THEN 2 ELSE 3}
  BY <1>1 DEF Staging, SetParams
<1> QED BY <1>2, <1>3, <1>4 DEF Current, Forgot

-----------------------------------------------------------------------------
(* Plans, and the steps of one *)

LEMMA PlansOfTiers ==
  /\ PlanOf("device") = <<"device", "save", "clear", "save", "reboot">>
  /\ PlanOf("factory") =
       <<"factory", "save", "clear", "save", "zero", "counters", "history", "link", "reboot">>
  /\ PlanOf("vendor") =
       <<"vendor", "save", "key", "savekey", "zero", "counters", "history", "done",
         "clear", "save", "link", "reboot">>
BY DEF PlanOf, TierPlan

LEMMA StepsOfDevice ==
  LET p == PlanOf("device") IN
  /\ p \in Seq(Words) /\ p # <<>> /\ Len(p) = 5
  /\ p[2] = "save" /\ p[3] = "clear" /\ p[4] = "save" /\ p[5] = "reboot"
<1> DEFINE p == PlanOf("device")
<1>1. p = <<"device", "save", "clear", "save", "reboot">>
  BY PlansOfTiers
<1> HIDE DEF p
<1>2. p \in Seq(Words) /\ p # <<>> /\ Len(p) = 5
  BY <1>1 DEF Words, Tiers
<1>3. /\ p[2] = "save" /\ p[3] = "clear" /\ p[4] = "save" /\ p[5] = "reboot"
  BY <1>1
<1> QED BY <1>2, <1>3 DEF p

LEMMA StepsOfFactory ==
  LET p == PlanOf("factory") IN
  /\ p \in Seq(Words) /\ p # <<>> /\ Len(p) = 9
  /\ p[2] = "save" /\ p[3] = "clear" /\ p[4] = "save" /\ p[5] = "zero"
  /\ p[6] = "counters" /\ p[7] = "history" /\ p[8] = "link" /\ p[9] = "reboot"
<1> DEFINE p == PlanOf("factory")
<1>1. p = <<"factory", "save", "clear", "save", "zero", "counters", "history", "link", "reboot">>
  BY PlansOfTiers
<1> HIDE DEF p
<1>2. p \in Seq(Words) /\ p # <<>> /\ Len(p) = 9
  BY <1>1 DEF Words, Tiers
<1>3. /\ p[2] = "save" /\ p[3] = "clear" /\ p[4] = "save" /\ p[5] = "zero" /\ p[6] = "counters"
      /\ p[7] = "history" /\ p[8] = "link" /\ p[9] = "reboot"
  BY <1>1
<1> QED BY <1>2, <1>3 DEF p

LEMMA StepsOfVendor ==
  LET p == PlanOf("vendor") IN
  /\ p \in Seq(Words) /\ p # <<>> /\ Len(p) = 12
  /\ p[2] = "save" /\ p[3] = "key" /\ p[4] = "savekey" /\ p[5] = "zero"
  /\ p[6] = "counters" /\ p[7] = "history" /\ p[8] = "done" /\ p[9] = "clear"
  /\ p[10] = "save" /\ p[11] = "link" /\ p[12] = "reboot"
<1> DEFINE p == PlanOf("vendor")
<1>1. p = <<"vendor", "save", "key", "savekey", "zero", "counters", "history",
                           "done", "clear", "save", "link", "reboot">>
  BY PlansOfTiers
<1> HIDE DEF p
<1>2. p \in Seq(Words) /\ p # <<>> /\ Len(p) = 12
  BY <1>1 DEF Words, Tiers
<1>3. /\ p[2] = "save" /\ p[3] = "key" /\ p[4] = "savekey" /\ p[5] = "zero" /\ p[6] = "counters"
      /\ p[7] = "history" /\ p[8] = "done" /\ p[9] = "clear" /\ p[10] = "save" /\ p[11] = "link"
      /\ p[12] = "reboot"
  BY <1>1
<1> QED BY <1>2, <1>3 DEF p

\* What an action's plan asks for.
LEMMA PlansAreKnown ==
  ASSUME NEW act \in Actions, act # "none"
  PROVE  /\ Plan(act) \in Seq(Words)
         /\ \A i \in DOMAIN Plan(act) :
              /\ Plan(act)[i] \in {"vendor", "key"} => act = "vendor_reset"
              /\ Plan(act)[i] = "factory" => act = "factory_reset"
              /\ Plan(act)[i] \in Tiers => Plan(act) = PlanOf(Plan(act)[i])
<1>1. CASE act \in RadioActions \union {"claim_active", "enter_calibration", "lrw_reset"}
  <2>1. Plan(act) \in {<<"save", "reboot">>, <<"reboot">>, <<"save", "active", "save", "reboot">>,
                       <<"calibrate", "save", "reboot">>, <<"link", "reboot">>, <<"join">>,
                       <<"counters">>}
    BY <1>1 DEF Plan, RadioActions, TierPlan
  <2> DEFINE p == Plan(act)
  <2> HIDE DEF p
  <2>2. p \in {<<"save", "reboot">>, <<"reboot">>, <<"save", "active", "save", "reboot">>,
                <<"calibrate", "save", "reboot">>, <<"link", "reboot">>, <<"join">>, <<"counters">>}
    BY <2>1 DEF p
  <2>3. p \in Seq(Words) /\ \A i \in DOMAIN p : p[i] \notin Tiers \union {"key"}
    <3>1. CASE p = <<"save", "reboot">>
      BY <3>1 DEF Tiers, Words
    <3>2. CASE p = <<"save", "active", "save", "reboot">>
      BY <3>2 DEF Tiers, Words
    <3>3. CASE p = <<"calibrate", "save", "reboot">>
      BY <3>3 DEF Tiers, Words
    <3>4. CASE p = <<"link", "reboot">>
      BY <3>4 DEF Tiers, Words
    <3>5. CASE p = <<"reboot">>
      BY <3>5 DEF Tiers, Words
    <3>6. CASE p = <<"join">>
      BY <3>6 DEF Tiers, Words
    <3>7. CASE p = <<"counters">>
      BY <3>7 DEF Tiers, Words
    <3> QED BY <2>2, <3>1, <3>2, <3>3, <3>4, <3>5, <3>6, <3>7
  <2> QED BY <2>3 DEF Tiers, p
<1>2. CASE act = "device_reset"
  <2>1. Plan(act) = <<"device", "save", "clear", "save", "reboot">>
    BY <1>2 DEF Plan, TierPlan
  <2> QED BY <2>1, <1>2, PlansOfTiers DEF Tiers, Words
<1>3. CASE act = "factory_reset"
  <2>1. Plan(act) = <<"factory", "save", "clear", "save", "zero", "counters", "history", "link", "reboot">>
    BY <1>3 DEF Plan, TierPlan
  <2> QED BY <2>1, <1>3, PlansOfTiers DEF Tiers, Words
<1>4. CASE act = "vendor_reset"
  <2>1. Plan(act) = <<"vendor", "save", "key", "savekey", "zero", "counters", "history", "done",
                      "clear", "save", "link", "reboot">>
    BY <1>4 DEF Plan, TierPlan
  <2> QED BY <2>1, <1>4, PlansOfTiers DEF Tiers, Words
<1> QED BY <1>1, <1>2, <1>3, <1>4 DEF Actions

\* The next step tells how far a reset has come.
HeadOf(tier, step, n) ==
  /\ tier = "device" => /\ (n = 4) \/ (n = 2) => step = "save"
                        /\ n = 3 => step = "clear"
                        /\ n = 1 => step = "reboot"
  /\ tier = "factory" => /\ (n = 8) \/ (n = 6) => step = "save"
                         /\ n = 7 => step = "clear"
                         /\ n = 5 => step = "zero"
                         /\ n = 4 => step = "counters"
                         /\ n = 3 => step = "history"
                         /\ n = 2 => step = "link"
                         /\ n = 1 => step = "reboot"
  /\ tier = "vendor" => /\ (n = 11) \/ (n = 3) => step = "save"
                        /\ n = 10 => step = "key"
                        /\ n = 9 => step = "savekey"
                        /\ n = 8 => step = "zero"
                        /\ n = 7 => step = "counters"
                        /\ n = 6 => step = "history"
                        /\ n = 5 => step = "done"
                        /\ n = 4 => step = "clear"
                        /\ n = 2 => step = "link"
                        /\ n = 1 => step = "reboot"
LengthOf(tier) == IF tier = "device" THEN 5 ELSE IF tier = "factory" THEN 9 ELSE 12

LEMMA HeadTells ==
  ASSUME NEW tier \in Tiers, NEW left \in Seq(Words), Rest(PlanOf(tier), left)
  PROVE  /\ Len(PlanOf(tier)) = LengthOf(tier) /\ Len(left) \in 1..(LengthOf(tier) - 1)
         /\ HeadOf(tier, left[1], Len(left))
<1> DEFINE n == Len(left)
           p == PlanOf(tier)
<1>0. n \in Nat /\ Len(p) = LengthOf(tier) /\ n \in 1..(LengthOf(tier) - 1)
  <2>1. Len(p) = LengthOf(tier)
    BY StepsOfDevice, StepsOfFactory, StepsOfVendor DEF Tiers, LengthOf
  <2> QED BY <2>1 DEF Rest, LengthOf
<1>1. left[1] = p[LengthOf(tier) - n + 1]
  BY <1>0 DEF Rest
<1>2. ASSUME tier = "device" PROVE HeadOf(tier, left[1], n)
  <2>1. left[1] = p[6 - n] /\ n \in 1..4
    BY <1>0, <1>1, <1>2 DEF LengthOf
  <2>2. /\ p[2] = "save" /\ p[3] = "clear" /\ p[4] = "save" /\ p[5] = "reboot"
    BY <1>2, StepsOfDevice
  <2> HIDE DEF n, p
  <2> QED BY <2>1, <2>2, <1>2 DEF HeadOf
<1>3. ASSUME tier = "factory" PROVE HeadOf(tier, left[1], n)
  <2>1. left[1] = p[10 - n] /\ n \in 1..8
    BY <1>0, <1>1, <1>3 DEF LengthOf
  <2>2. /\ p[2] = "save" /\ p[3] = "clear" /\ p[4] = "save" /\ p[5] = "zero" /\ p[6] = "counters"
        /\ p[7] = "history" /\ p[8] = "link" /\ p[9] = "reboot"
    BY <1>3, StepsOfFactory
  <2> HIDE DEF n, p
  <2> QED BY <2>1, <2>2, <1>3 DEF HeadOf
<1>4. ASSUME tier = "vendor" PROVE HeadOf(tier, left[1], n)
  <2>1. left[1] = p[13 - n] /\ n \in 1..11
    BY <1>0, <1>1, <1>4 DEF LengthOf
  <2>2. /\ p[2] = "save" /\ p[3] = "key" /\ p[4] = "savekey" /\ p[5] = "zero" /\ p[6] = "counters"
        /\ p[7] = "history" /\ p[8] = "done" /\ p[9] = "clear" /\ p[10] = "save" /\ p[11] = "link"
        /\ p[12] = "reboot"
    BY <1>4, StepsOfVendor
  <2> HIDE DEF n, p
  <2> QED BY <2>1, <2>2, <1>4 DEF HeadOf
<1> QED BY <1>0, <1>2, <1>3, <1>4 DEF Tiers

LEMMA TailOf ==
  ASSUME NEW s \in Seq(Words), s # <<>>
  PROVE  /\ Tail(s) \in Seq(Words) /\ Len(Tail(s)) = Len(s) - 1
         /\ \A i \in 1..Len(Tail(s)) : Tail(s)[i] = s[i + 1] /\ i + 1 \in 1..Len(s)
OBVIOUS

\* What is left of a plan when its next step is done.
LEMMA RestShrinks ==
  ASSUME NEW tier \in Tiers, NEW left \in Seq(Words), Rest(PlanOf(tier), left), left[1] # "reboot"
  PROVE  Rest(PlanOf(tier), Tail(left)) /\ Len(Tail(left)) = Len(left) - 1
<1> DEFINE n == Len(left)
           p == PlanOf(tier)
<1>1. Len(p) = LengthOf(tier) /\ n \in 1..(LengthOf(tier) - 1) /\ n # 1 /\ LengthOf(tier) \in Nat
  BY HeadTells DEF HeadOf, Tiers, LengthOf
<1>0. n \in Nat /\ Len(p) \in Nat
  BY <1>1
<1>2. left # <<>>
  BY <1>1
<1>3. /\ Len(Tail(left)) = n - 1
      /\ \A i \in 1..(n - 1) : Tail(left)[i] = left[i + 1] /\ i + 1 \in 1..n
  BY <1>2, TailOf
<1>4. \A i \in 1..(n - 1) : Tail(left)[i] = p[Len(p) - (n - 1) + i]
  <2> TAKE i \in 1..(n - 1)
  <2>1. Tail(left)[i] = p[Len(p) - n + (i + 1)]
    BY <1>1, <1>3 DEF Rest
  <2>2. Len(p) - n + (i + 1) = Len(p) - (n - 1) + i
    BY <1>1, <1>0
  <2> QED BY <2>1, <2>2
<1>5. Len(Tail(left)) \in 1..(Len(p) - 1)
  <2>1. n - 1 \in 1..(Len(p) - 1)
    <3> HIDE DEF n, p
    <3> QED BY <1>0, <1>1
  <2> QED BY <2>1, <1>3
<1>6. \A i \in 1..Len(Tail(left)) : Tail(left)[i] = p[Len(p) - Len(Tail(left)) + i]
  BY <1>3, <1>4
<1> QED BY <1>3, <1>5, <1>6 DEF Rest

\* When a tier has run, the rest of its plan is left.
LEMMA RestStarts ==
  ASSUME NEW tier \in Tiers
  PROVE  /\ Rest(PlanOf(tier), Tail(PlanOf(tier))) /\ Tail(PlanOf(tier)) \in Seq(Words)
         /\ Len(Tail(PlanOf(tier))) = Len(PlanOf(tier)) - 1
<1> DEFINE p == PlanOf(tier)
<1>1. p \in Seq(Words) /\ p # <<>> /\ Len(p) = LengthOf(tier) /\ LengthOf(tier) \in {5, 9, 12}
  BY StepsOfDevice, StepsOfFactory, StepsOfVendor DEF Tiers, LengthOf
<1>2. /\ Tail(p) \in Seq(Words) /\ Len(Tail(p)) = Len(p) - 1
      /\ \A i \in 1..Len(Tail(p)) : Tail(p)[i] = p[i + 1]
  BY <1>1, TailOf
<1> QED BY <1>1, <1>2 DEF Rest

\* No tier is left in it, and the key only in the vendor's.
LEMMA RestWords ==
  ASSUME NEW tier \in Tiers, NEW i \in DOMAIN Tail(PlanOf(tier))
  PROVE  /\ Tail(PlanOf(tier))[i] \notin Tiers
         /\ Tail(PlanOf(tier))[i] = "key" => tier = "vendor"
<1> DEFINE q == PlanOf(tier)
<1>1. q \in Seq(Words) /\ q # <<>> /\ Len(q) = LengthOf(tier)
  BY StepsOfDevice, StepsOfFactory, StepsOfVendor DEF Tiers, LengthOf
<1>2. Tail(q)[i] = q[i + 1] /\ i \in 1..(LengthOf(tier) - 1)
  BY <1>1, TailOf
<1>3. CASE tier = "device"
  <2>1. q[2] = "save" /\ q[3] = "clear" /\ q[4] = "save" /\ q[5] = "reboot" /\ i \in 1..4
    BY <1>2, <1>3, StepsOfDevice DEF LengthOf
  <2> HIDE DEF q
  <2>2. q[i + 1] \notin Tiers \union {"key"}
    BY <2>1 DEF Tiers
  <2> QED BY <1>2, <2>2 DEF q
<1>4. CASE tier = "factory"
  <2>1. /\ q[2] = "save" /\ q[3] = "clear" /\ q[4] = "save" /\ q[5] = "zero" /\ q[6] = "counters"
        /\ q[7] = "history" /\ q[8] = "link" /\ q[9] = "reboot" /\ i \in 1..8
    BY <1>2, <1>4, StepsOfFactory DEF LengthOf
  <2> HIDE DEF q
  <2>2. q[i + 1] \notin Tiers \union {"key"}
    BY <2>1 DEF Tiers
  <2> QED BY <1>2, <2>2 DEF q
<1>5. CASE tier = "vendor"
  <2>1. /\ q[2] = "save" /\ q[3] = "key" /\ q[4] = "savekey" /\ q[5] = "zero" /\ q[6] = "counters"
        /\ q[7] = "history" /\ q[8] = "done" /\ q[9] = "clear" /\ q[10] = "save" /\ q[11] = "link"
        /\ q[12] = "reboot" /\ i \in 1..11
    BY <1>2, <1>5, StepsOfVendor DEF LengthOf
  <2> HIDE DEF q
  <2>2. q[i + 1] \notin Tiers
    BY <2>1 DEF Tiers
  <2> QED BY <1>2, <1>5, <2>2 DEF q
<1> QED BY <1>3, <1>4, <1>5 DEF Tiers

-----------------------------------------------------------------------------
(* What a step of a deferred action leaves of the reset under way *)

\* What a step must not bring back, and what it takes away itself.
Wipes(tier, step) ==
  /\ Forgot(flash, tier) \/ step = "save" => Forgot(flash, tier)'
  /\ counters = 0 \/ step = "zero" => counters' = 0
  /\ counters = 0 /\ (nvs.counters = 0 \/ step = "counters") => nvs'.counters = 0
  /\ nvs.history = 0 \/ step = "history" => nvs'.history = 0
  /\ nvs.link = 0 \/ step = "link" => nvs'.link = 0
  /\ tier = "vendor" /\ (latch = "done" \/ step = "done") => latch' = "done"

LEMMA LengthsOfTiers ==
  ASSUME NEW tier \in Tiers
  PROVE  Len(PlanOf(tier)) = LengthOf(tier)
BY StepsOfDevice, StepsOfFactory, StepsOfVendor DEF Tiers, LengthOf

LEMMA WipedGoesOn ==
  ASSUME NEW tier \in Tiers, NEW left \in Seq(Words), Rest(PlanOf(tier), left),
         Wiped(tier, Len(left)), Wipes(tier, left[1])
  PROVE  Wiped(tier, Len(left) - 1)'
<1> DEFINE n == Len(left)
           step == left[1]
<1>1. /\ Len(PlanOf(tier)) = LengthOf(tier) /\ n \in 1..(LengthOf(tier) - 1)
      /\ HeadOf(tier, step, n)
  BY HeadTells
<1> HIDE DEF n, step
<1>2. n < LengthOf(tier) - 1 \/ step = "save"
  BY <1>1 DEF Tiers, LengthOf, HeadOf
<1>3. Forgot(flash, tier)'
  BY <1>1, <1>2 DEF Wiped, Wipes, n, step
<1>4. ASSUME tier = "factory"
      PROVE  /\ n - 1 < 5 => counters' = 0
             /\ n - 1 < 4 => nvs'.counters = 0
             /\ n - 1 < 3 => nvs'.history = 0
             /\ n - 1 < 2 => nvs'.link = 0
  <2>1. /\ n < 5 => counters = 0
        /\ n < 4 => nvs.counters = 0
        /\ n < 3 => nvs.history = 0
        /\ n < 2 => nvs.link = 0
    BY <1>4 DEF Wiped, n
  <2>2. n \in 1..8 /\ HeadOf("factory", step, n) /\ Wipes(tier, step)
    BY <1>1, <1>4 DEF LengthOf, step
  <2> QED BY <2>1, <2>2 DEF HeadOf, Wipes
<1>5. ASSUME tier = "vendor"
      PROVE  /\ n - 1 < 8 => counters' = 0
             /\ n - 1 < 7 => nvs'.counters = 0
             /\ n - 1 < 6 => nvs'.history = 0
             /\ n - 1 < 5 => latch' = "done"
             /\ n - 1 < 2 => nvs'.link = 0
  <2>1. /\ n < 8 => counters = 0
        /\ n < 7 => nvs.counters = 0
        /\ n < 6 => nvs.history = 0
        /\ n < 5 => latch = "done"
        /\ n < 2 => nvs.link = 0
    BY <1>5 DEF Wiped, n
  <2>2. n \in 1..11 /\ HeadOf("vendor", step, n) /\ Wipes("vendor", step)
    BY <1>1, <1>5 DEF LengthOf, step
  <2> QED BY <2>1, <2>2 DEF HeadOf, Wipes
<1> QED BY <1>3, <1>4, <1>5 DEF Wiped, n

LEMMA WipedStays ==
  ASSUME NEW tier \in Tiers, NEW n \in Nat, Wiped(tier, n), NEW step, Wipes(tier, step)
  PROVE  Wiped(tier, n)'
BY DEF Wiped, Wipes

\* The next step of t leaves each thread's list in shape.
LEMMA StepIsTaken ==
  ASSUME UnitTyped, ResetIsAsked, NEW t \in Threads, NEW step, At(t, step), Next1(t),
         step \notin Tiers, UNCHANGED <<nfc, action, phone>>
  PROVE  /\ DOMAIN jobs' = Threads /\ \A u \in Threads : jobs'[u] \in Seq(Words)
         /\ ResetIsAsked'
<1> USE DEF Threads
<1>1. jobs[t] \in Seq(Words) /\ jobs[t] # <<>> /\ jobs[t][1] = step /\ DOMAIN jobs = Threads
  BY DEF UnitTyped, At
<1>2. /\ Tail(jobs[t]) \in Seq(Words)
      /\ \A i \in 1..Len(Tail(jobs[t])) : Tail(jobs[t])[i] = jobs[t][i + 1] /\ i + 1 \in 1..Len(jobs[t])
  BY <1>1, TailOf
<1>3. DOMAIN jobs' = Threads /\ jobs'[t] = Tail(jobs[t]) /\ \A u \in Threads : u # t => jobs'[u] = jobs[u]
  BY <1>1 DEF Next1
<1>4. \A u \in Threads : jobs'[u] \in Seq(Words)
  BY <1>1, <1>2, <1>3 DEF UnitTyped
<1>5. \A i \in DOMAIN jobs'["radio"] : jobs'["radio"][i] \in {"counters", "save", "reboot", "join"}
  <2>1. CASE t = "radio"
    BY <1>1, <1>2, <1>3, <2>1 DEF ResetIsAsked
  <2>2. CASE t = "nfc"
    BY <1>3, <2>2 DEF ResetIsAsked
  <2> QED BY <2>1, <2>2
<1>6. /\ \A i \in DOMAIN jobs'["nfc"] :
           /\ jobs'["nfc"][i] \in {"vendor", "key"} => KeyMayGo
           /\ jobs'["nfc"][i] = "factory" => LinkMayGo
           /\ jobs'["nfc"][i] \in Tiers => jobs'["nfc"] = PlanOf(jobs'["nfc"][i])
      /\ nfc.pc # "idle" \/ action # "none" => jobs'["nfc"] = <<>>
  <2>1. CASE t = "radio"
    BY <1>3, <2>1 DEF ResetIsAsked
  <2>2. CASE t = "nfc"
    <3> DEFINE p == jobs["nfc"]
    <3>1. \A i \in 1..Len(p) : p[i] \notin Tiers
      <4>1. SUFFICES ASSUME NEW i \in 1..Len(p), p[i] \in Tiers PROVE FALSE
        OBVIOUS
      <4>2. p = PlanOf(p[i])
        BY <1>1, <2>2, <4>1 DEF ResetIsAsked
      <4>3. p[1] \in Tiers
        BY <4>1, <4>2, PlansOfTiers DEF Tiers
      <4> QED BY <4>3, <1>1, <2>2
    <3>2. ~(nfc.pc # "idle" \/ action # "none")
      BY <1>1, <2>2 DEF ResetIsAsked
    <3>3. \A i \in DOMAIN jobs'["nfc"] : jobs'["nfc"][i] = p[i + 1] /\ i + 1 \in 1..Len(p) /\ i + 1 \in DOMAIN p
      BY <1>1, <1>2, <1>3, <2>2
    <3> QED BY <3>1, <3>2, <3>3, <2>2 DEF ResetIsAsked
  <2> QED BY <2>1, <2>2
<1>7. KeyMayGo' = KeyMayGo /\ LinkMayGo' = LinkMayGo
  BY DEF KeyMayGo, LinkMayGo
<1> QED BY <1>3, <1>4, <1>5, <1>6, <1>7 DEF ResetIsAsked

\* A step but a reset tier and the reboot, by what it does to the copies, the rules,
\* the latch and what a reset has wiped.
StepIsSound(t, step) ==
  /\ At(t, step) /\ Next1(t) /\ step \notin Tiers \union {"reboot"}
  /\ UNCHANGED <<up, phone, batch, nfc, action, post, hist>>
  /\ latch' \in {"active", "done"} /\ DOMAIN nvs' = DOMAIN nvs /\ latch' = LoadedLatch(nvs'.latch)
  /\ Stored(flash)' /\ Current(flash)' /\ Current(staged)'
  /\ staged'.rule = rules' \/ (staged'.rule = staged.rule /\ rules' = rules)
  /\ \A tier \in Tiers :
       hist.reset = tier /\ Forgot(staged, tier) => Forgot(staged, tier)' /\ Wipes(tier, step)

LEMMA JobStepUnit ==
  ASSUME UnitInv, NEW t \in Threads, NEW step, StepIsSound(t, step)
  PROVE  UnitInv'
<1>1. up /\ UNCHANGED <<up, phone, batch, nfc, action, post, hist>>
  BY DEF StepIsSound, At
<1>2. /\ DOMAIN jobs' = Threads /\ \A u \in Threads : jobs'[u] \in Seq(Words)
      /\ ResetIsAsked'
  BY StepIsTaken DEF StepIsSound, UnitInv
<1>3. UnitTyped'
  BY <1>1, <1>2 DEF UnitInv, UnitTyped, StepIsSound
<1>4. OffIsEmpty'
  BY <1>1 DEF OffIsEmpty
<1>5. CopiesAreCurrent'
  <2>1. batch.owner # "none" => DOMAIN batch'.before = DOMAIN Defaults /\ Current(batch.before)'
    BY <1>1 DEF UnitInv, CopiesAreCurrent, Current, KeyMayGo, LinkMayGo
  <2> QED BY <1>1, <2>1 DEF StepIsSound, CopiesAreCurrent
<1>6. RulesLag'
  BY <1>1 DEF UnitInv, RulesLag, StepIsSound
<1>7. WaitIsCounted'
  BY <1>1 DEF UnitInv, WaitIsCounted
<1>8. ResetIsThere'
  <2>1. (up => latch = LoadedLatch(nvs.latch))'
    BY DEF StepIsSound
  <2>2. ASSUME hist.reset # "none"
        PROVE  /\ Rest(PlanOf(hist.reset), jobs'["nfc"])
               /\ Forgot(staged, hist.reset)'
               /\ (batch.owner # "none" => Forgot(batch.before, hist.reset))'
               /\ Wiped(hist.reset, Len(jobs["nfc"]))'
    <3>0. PICK tier \in Tiers, left \in Seq(Words) : tier = hist.reset /\ left = jobs["nfc"]
      BY <2>2 DEF UnitInv, UnitTyped, Threads
    <3>1. /\ Rest(PlanOf(tier), left) /\ Forgot(staged, tier)
          /\ batch.owner # "none" => Forgot(batch.before, tier)
          /\ Wiped(tier, Len(left))
      BY <2>2, <3>0 DEF UnitInv, ResetIsThere
    <3>2. Forgot(staged, tier)' /\ Wipes(tier, step)
      BY <3>0, <3>1 DEF StepIsSound
    <3>3. (batch.owner # "none" => Forgot(batch.before, tier))'
      BY <3>1, <1>1 DEF Forgot
    <3>4. CASE t = "nfc"
      <4>1. left[1] = step /\ step # "reboot" /\ jobs'["nfc"] = Tail(left)
        BY <3>0, <3>4 DEF StepIsSound, At, Next1, UnitInv, UnitTyped
      <4>2. Rest(PlanOf(tier), Tail(left)) /\ Len(Tail(left)) = Len(left) - 1
        BY <3>1, <4>1, RestShrinks
      <4>3. Wiped(tier, Len(left) - 1)'
        BY <3>1, <3>2, <4>1, WipedGoesOn
      <4>4. Wiped(hist.reset, Len(jobs["nfc"]))'
        <5>1. Len(jobs'["nfc"]) = Len(left) - 1
          BY <4>1, <4>2
        <5>2. hist'.reset = tier /\ jobs["nfc"]' = jobs'["nfc"]
          BY <1>1, <3>0
        <5> QED BY <4>3, <5>1, <5>2 DEF Wiped, Forgot
      <4> QED BY <1>1, <3>0, <3>2, <3>3, <4>1, <4>2, <4>4 DEF Forgot
    <3>5. CASE t = "radio"
      <4>1. jobs'["nfc"] = left
        BY <3>0, <3>5 DEF StepIsSound, Next1, UnitInv, UnitTyped, Threads
      <4>2. Len(left) \in Nat
        BY <3>1
      <4>3. Wiped(tier, Len(left))'
        BY <3>1, <3>2, <4>2, WipedStays
      <4>4. Wiped(hist.reset, Len(jobs["nfc"]))'
        BY <4>1, <4>3, <1>1, <3>0 DEF Wiped, Forgot
      <4> QED BY <1>1, <3>0, <3>1, <3>2, <3>3, <4>1, <4>4 DEF Forgot
    <3> QED BY <3>4, <3>5 DEF Threads
  <2> QED BY <1>1, <2>1, <2>2 DEF ResetIsThere
<1> QED BY <1>2, <1>3, <1>4, <1>5, <1>6, <1>7, <1>8 DEF UnitInv

-----------------------------------------------------------------------------
(* The steps of a deferred action, one by one *)

\* Whoever opens the claim window again is not in a reset; a key is staged on demand.
LEMMA HeadsOfLists ==
  ASSUME UnitInv, NEW t \in Threads, NEW step, At(t, step)
  PROVE  /\ up /\ UnitTyped
         /\ step \in Tiers \union {"active"} => hist.reset = "none"
         /\ step = "key" => KeyMayGo
         /\ step = "factory" => LinkMayGo
         /\ step = "vendor" => KeyMayGo
         /\ step \in Tiers => t = "nfc" /\ jobs["nfc"] = PlanOf(step)
<1>1. /\ jobs[t] \in Seq(Words) /\ jobs[t] # <<>> /\ jobs[t][1] = step /\ 1 \in DOMAIN jobs[t]
      /\ jobs["nfc"] \in Seq(Words)
  BY DEF UnitInv, UnitTyped, At, Threads
<1>2. CASE t = "radio"
  <2>1. step \in {"counters", "save", "reboot", "join"}
    BY <1>1, <1>2 DEF UnitInv, ResetIsAsked
  <2> QED BY <2>1 DEF At, UnitInv, Tiers
<1>3. CASE t = "nfc"
  <2>1. /\ step \in {"vendor", "key"} => KeyMayGo
        /\ step = "factory" => LinkMayGo
        /\ step \in Tiers => jobs["nfc"] = PlanOf(step)
    BY <1>1, <1>3 DEF UnitInv, ResetIsAsked
  <2>2. ASSUME hist.reset # "none" PROVE step \notin Tiers \union {"active"}
    <3>1. hist.reset \in Tiers /\ Rest(PlanOf(hist.reset), jobs["nfc"])
      BY <2>2 DEF UnitInv, UnitTyped, ResetIsThere
    <3>2. /\ Len(jobs["nfc"]) \in 1..(LengthOf(hist.reset) - 1)
          /\ HeadOf(hist.reset, step, Len(jobs["nfc"]))
      BY <1>1, <1>3, <3>1, HeadTells
    <3>3. CASE hist.reset = "device"
      BY <3>2, <3>3 DEF LengthOf, HeadOf, Tiers
    <3>4. CASE hist.reset = "factory"
      BY <3>2, <3>4 DEF LengthOf, HeadOf, Tiers
    <3>5. CASE hist.reset = "vendor"
      BY <3>2, <3>5 DEF LengthOf, HeadOf, Tiers
    <3> QED BY <3>1, <3>3, <3>4, <3>5 DEF Tiers
  <2> QED BY <1>3, <2>1, <2>2 DEF At, UnitInv
<1> QED BY <1>2, <1>3 DEF Threads

\* What the copies are while the unit runs.
LEMMA CopiesAre ==
  ASSUME UnitInv, NonceInv, up
  PROVE  /\ DOMAIN flash = {"key", "nonce", "token", "calib", "allow", "lrw", "rule", "version"}
         /\ DOMAIN staged = {"key", "nonce", "token", "calib", "allow", "lrw", "rule", "version"}
         /\ Stored(flash) /\ Current(flash) /\ Current(staged)
         /\ latch = LoadedLatch(nvs.latch) /\ latch \in {"active", "done"}
         /\ DOMAIN nvs = {"latch", "counters", "history", "link"}
BY DefaultsAreConfig
DEF UnitInv, NonceInv, CountersTyped, IsConfig, CopiesAreCurrent, UnitTyped, ResetIsThere

LEMMA CurrentIsStored ==
  ASSUME NEW c, Current(c) PROVE Stored(c)
BY DEF Current, Stored

\* The three copies keep what the phone's commands allow when those stay the same.
LEMMA SamePhone ==
  ASSUME phone' = phone
  PROVE  KeyMayGo' = KeyMayGo /\ LinkMayGo' = LinkMayGo
BY DEF KeyMayGo, LinkMayGo

LEMMA ClearRulesUnit ==
  ASSUME UnitInv, NonceInv, NEW t \in Threads, ClearRules(t)
  PROVE  UnitInv'
<1>1. At(t, "clear") /\ OneStep(t) /\ UNCHANGED <<flash, nvs, latch, counters>> /\ phone' = phone
  BY DEF ClearRules, OneStep
<1>2. staged' = [staged EXCEPT !.rule = "none"] /\ rules' = "none"
  BY DEF ClearRules
<1>3. up
  BY <1>1 DEF At
<1>4. Current(staged)' /\ staged'.rule = rules' /\ \A tier \in Tiers : Forgot(staged, tier) => Forgot(staged, tier)'
  BY <1>1, <1>2, <1>3, CopiesAre, SamePhone DEF Current, Forgot
<1>5. Stored(flash)' /\ Current(flash)'
  BY <1>1, <1>3, CopiesAre, SamePhone DEF Stored, Current
<1>6. \A tier \in Tiers : Wipes(tier, "clear")
  BY <1>1 DEF Wipes, Forgot
<1>7. StepIsSound(t, "clear")
  BY <1>1, <1>3, <1>4, <1>5, <1>6, CopiesAre DEF StepIsSound, OneStep, Tiers
<1> QED BY <1>7, JobStepUnit

LEMMA SetKeyUnit ==
  ASSUME UnitInv, NonceInv, NEW t \in Threads, SetKey(t)
  PROVE  UnitInv'
<1>1. At(t, "key") /\ OneStep(t) /\ UNCHANGED <<flash, nvs, latch, counters, rules>> /\ phone' = phone
  BY DEF SetKey, OneStep
<1>2. staged' = [staged EXCEPT !.key = vkey]
  BY DEF SetKey
<1>3. up /\ KeyMayGo
  BY <1>1, HeadsOfLists
<1>4. Current(staged)' /\ staged'.rule = staged.rule /\ \A tier \in Tiers : Forgot(staged, tier) => Forgot(staged, tier)'
  BY <1>1, <1>2, <1>3, CopiesAre, SamePhone DEF Current, Forgot
<1>5. Stored(flash)' /\ Current(flash)'
  BY <1>1, <1>3, CopiesAre, SamePhone DEF Stored, Current
<1>6. \A tier \in Tiers : Wipes(tier, "key")
  BY <1>1 DEF Wipes, Forgot
<1>7. StepIsSound(t, "key")
  BY <1>1, <1>3, <1>4, <1>5, <1>6, CopiesAre DEF StepIsSound, OneStep, Tiers
<1> QED BY <1>7, JobStepUnit

LEMMA SaveKeyUnit ==
  ASSUME UnitInv, NonceInv, NEW t \in Threads, SaveKey(t)
  PROVE  UnitInv'
<1>1. At(t, "savekey") /\ OneStep(t) /\ UNCHANGED <<staged, nvs, latch, counters, rules>> /\ phone' = phone
  BY DEF SaveKey, OneStep
<1>2. flash' = [flash EXCEPT !.key = staged.key]
  BY DEF SaveKey
<1>3. up
  BY <1>1 DEF At
<1>4. Current(flash)' /\ \A tier \in Tiers : Forgot(flash, tier) => Forgot(flash, tier)'
  BY <1>1, <1>2, <1>3, CopiesAre, SamePhone DEF Current, Forgot
<1>5. Current(staged)' /\ Stored(flash)' /\ \A tier \in Tiers : Forgot(staged, tier) => Forgot(staged, tier)'
  BY <1>1, <1>3, <1>4, CopiesAre, SamePhone DEF Stored, Current, Forgot
<1>6. \A tier \in Tiers : Wipes(tier, "savekey")
  BY <1>1, <1>4 DEF Wipes
<1>7. StepIsSound(t, "savekey")
  BY <1>1, <1>3, <1>4, <1>5, <1>6, CopiesAre DEF StepIsSound, OneStep, Tiers
<1> QED BY <1>7, JobStepUnit

LEMMA CalibrateUnit ==
  ASSUME UnitInv, NonceInv, NEW t \in Threads, Calibrate(t)
  PROVE  UnitInv'
<1>1. At(t, "calibrate") /\ OneStep(t) /\ UNCHANGED <<flash, nvs, latch, counters, rules>> /\ phone' = phone
  BY DEF Calibrate, OneStep
<1>2. staged' = [staged EXCEPT !.calib = TRUE]
  BY DEF Calibrate
<1>3. up
  BY <1>1 DEF At
<1>4. Current(staged)' /\ staged'.rule = staged.rule /\ \A tier \in Tiers : Forgot(staged, tier) => Forgot(staged, tier)'
  BY <1>1, <1>2, <1>3, CopiesAre, SamePhone DEF Current, Forgot
<1>5. Stored(flash)' /\ Current(flash)'
  BY <1>1, <1>3, CopiesAre, SamePhone DEF Stored, Current
<1>6. \A tier \in Tiers : Wipes(tier, "calibrate")
  BY <1>1 DEF Wipes, Forgot
<1>7. StepIsSound(t, "calibrate")
  BY <1>1, <1>3, <1>4, <1>5, <1>6, CopiesAre DEF StepIsSound, OneStep, Tiers
<1> QED BY <1>7, JobStepUnit

\* The steps that change what is stored beside the configuration.
LEMMA StoreStepUnit ==
  ASSUME UnitInv, NonceInv, NEW t \in Threads, NEW step, At(t, step), OneStep(t),
         step \notin Tiers \union {"reboot", "save"}, UNCHANGED <<flash, staged, rules>>,
         latch' \in {"active", "done"}, DOMAIN nvs' = DOMAIN nvs, latch' = LoadedLatch(nvs'.latch),
         /\ counters = 0 \/ step = "zero" => counters' = 0
         /\ counters = 0 /\ (nvs.counters = 0 \/ step = "counters") => nvs'.counters = 0
         /\ nvs.history = 0 \/ step = "history" => nvs'.history = 0
         /\ nvs.link = 0 \/ step = "link" => nvs'.link = 0
         /\ hist.reset = "vendor" /\ (latch = "done" \/ step = "done") => latch' = "done"
  PROVE  UnitInv'
<1>1. up /\ phone' = phone
  BY DEF At, OneStep
<1>2. Stored(flash)' /\ Current(flash)' /\ Current(staged)'
  BY <1>1, CopiesAre, SamePhone DEF Stored, Current
<1>3. \A tier \in Tiers : hist.reset = tier /\ Forgot(staged, tier) => Forgot(staged, tier)' /\ Wipes(tier, step)
  BY DEF Forgot, Wipes
<1>4. StepIsSound(t, step)
  BY <1>1, <1>2, <1>3 DEF StepIsSound, OneStep
<1> QED BY <1>4, JobStepUnit

LEMMA ZeroCountersUnit ==
  ASSUME UnitInv, NonceInv, NEW t \in Threads, ZeroCounters(t)
  PROVE  UnitInv'
<1>1. At(t, "zero") /\ OneStep(t) /\ counters' = 0 /\ UNCHANGED <<flash, staged, rules, nvs, latch>>
  BY DEF ZeroCounters
<1>2. up
  BY <1>1 DEF At
<1> QED BY <1>1, <1>2, StoreStepUnit, CopiesAre DEF Tiers

LEMMA SaveCountersUnit ==
  ASSUME UnitInv, NonceInv, NEW t \in Threads, SaveCounters(t)
  PROVE  UnitInv'
<1>1. At(t, "counters") /\ OneStep(t) /\ UNCHANGED <<flash, staged, rules, counters, latch>>
  BY DEF SaveCounters
<1>2. up
  BY <1>1 DEF At
<1>3. /\ DOMAIN nvs' = DOMAIN nvs /\ nvs'.counters = counters
      /\ nvs'.history = nvs.history /\ nvs'.link = nvs.link /\ nvs'.latch = nvs.latch
  BY <1>2, CopiesAre DEF SaveCounters
<1> QED BY <1>1, <1>2, <1>3, StoreStepUnit, CopiesAre DEF Tiers

LEMMA ClearHistoryUnit ==
  ASSUME UnitInv, NonceInv, NEW t \in Threads, ClearHistory(t)
  PROVE  UnitInv'
<1>1. At(t, "history") /\ OneStep(t) /\ UNCHANGED <<flash, staged, rules, counters, latch>>
  BY DEF ClearHistory
<1>2. up
  BY <1>1 DEF At
<1>3. /\ DOMAIN nvs' = DOMAIN nvs /\ nvs'.counters = nvs.counters
      /\ nvs'.history = 0 /\ nvs'.link = nvs.link /\ nvs'.latch = nvs.latch
  BY <1>2, CopiesAre DEF ClearHistory
<1> QED BY <1>1, <1>2, <1>3, StoreStepUnit, CopiesAre DEF Tiers

LEMMA ResetLinkUnit ==
  ASSUME UnitInv, NonceInv, NEW t \in Threads, ResetLink(t)
  PROVE  UnitInv'
<1>1. At(t, "link") /\ OneStep(t) /\ UNCHANGED <<flash, staged, rules, counters, latch>>
  BY DEF ResetLink
<1>2. up
  BY <1>1 DEF At
<1>3. /\ DOMAIN nvs' = DOMAIN nvs /\ nvs'.counters = nvs.counters
      /\ nvs'.history = nvs.history /\ nvs'.link = 0 /\ nvs'.latch = nvs.latch
  BY <1>2, CopiesAre DEF ResetLink
<1> QED BY <1>1, <1>2, <1>3, StoreStepUnit, CopiesAre DEF Tiers

LEMMA RejoinUnit ==
  ASSUME UnitInv, NonceInv, NEW t \in Threads, Rejoin(t)
  PROVE  UnitInv'
<1>1. At(t, "join") /\ OneStep(t) /\ UNCHANGED <<flash, staged, rules, counters, latch, nvs>>
  BY DEF Rejoin
<1>2. up
  BY <1>1 DEF At
<1> QED BY <1>1, <1>2, StoreStepUnit, CopiesAre DEF Tiers

LEMMA SetLatchUnit ==
  ASSUME UnitInv, NonceInv, NEW t \in Threads, SetLatch(t)
  PROVE  UnitInv'
<1>1. PICK step \in {"done", "active"} : At(t, step)
  BY DEF SetLatch
<1>2. up /\ jobs[t][1] = step /\ OneStep(t) /\ UNCHANGED <<flash, staged, rules, counters>>
  BY <1>1 DEF SetLatch, At
<1>3. latch' = step /\ nvs' = IF latch' # latch THEN [nvs EXCEPT !.latch = latch'] ELSE nvs
  BY <1>2 DEF SetLatch
<1>4. /\ DOMAIN nvs' = DOMAIN nvs /\ nvs'.counters = nvs.counters
      /\ nvs'.history = nvs.history /\ nvs'.link = nvs.link
      /\ latch' = LoadedLatch(nvs'.latch)
  BY <1>2, <1>3, CopiesAre DEF LoadedLatch
<1>5. hist.reset = "vendor" => step = "done"
  BY <1>1, HeadsOfLists
<1> QED BY <1>1, <1>2, <1>3, <1>4, <1>5, StoreStepUnit DEF Tiers

-----------------------------------------------------------------------------
(* Power, saves and resets *)

\* Without power only the stored configuration counts.
LEMMA OffUnit ==
  ASSUME UnitInv, NonceInv, PowersOff, phone' = phone, nvs' = nvs, Stored(flash)'
  PROVE  UnitInv'
<1>1. /\ up' = FALSE /\ latch' = "active" /\ batch' = NoBatch /\ nfc' = Idle /\ action' = "none"
      /\ jobs' = [t \in Threads |-> <<>>] /\ post' = [pending |-> {}, age |-> 0]
      /\ hist'.reset = "none" /\ hist'.held = 0
  BY DEF PowersOff, NonceInv, CountersTyped, NoHist
<1>2. nfc'.pc = "idle" /\ nfc'.act = "none" /\ batch'.owner = "none" /\ batch'.kind = "none"
  BY <1>1 DEF Idle, NoBatch
<1>3. DOMAIN jobs' = Threads /\ \A t \in Threads : jobs'[t] = <<>>
  BY <1>1
<1>4. UnitTyped'
  <2>1. <<>> \in Seq(Words)
    OBVIOUS
  <2> QED BY <1>1, <1>2, <1>3, <2>1 DEF UnitInv, UnitTyped, Actions
<1>5. OffIsEmpty' /\ RulesLag'
  BY <1>1, <1>2, <1>3 DEF OffIsEmpty, RulesLag
<1>6. CopiesAreCurrent'
  BY <1>1, <1>2 DEF CopiesAreCurrent
<1>7. WaitIsCounted'
  BY <1>1, DrainAssumption DEF WaitIsCounted
<1>8. ResetIsAsked'
  BY <1>1, <1>2, <1>3 DEF ResetIsAsked, Threads
<1>9. ResetIsThere'
  BY <1>1 DEF ResetIsThere
<1> QED BY <1>4, <1>5, <1>6, <1>7, <1>8, <1>9 DEF UnitInv

LEMMA PowerFailsUnit == UnitInv /\ NonceInv /\ PowerFails => UnitInv'
<1> SUFFICES ASSUME UnitInv, NonceInv, PowerFails PROVE UnitInv'
  OBVIOUS
<1>1. PowersOff /\ phone' = phone /\ nvs' = nvs /\ Stored(flash) /\ IsConfig(flash)
  BY DEF PowerFails, UnitInv, CopiesAreCurrent, NonceInv, CountersTyped
<1>2. Stored(flash')
  <2>1. CASE UNCHANGED flash
    BY <1>1, <2>1
  <2>2. CASE \E n \in 0..Len(Order) : flash' = Torn(flash, Migrated(flash), n)
    <3>1. IsConfig(Migrated(flash)) /\ Current(Migrated(flash))
      BY <1>1, MigrationKeeps, MigrationIsCurrent
    <3> QED BY <1>1, <2>2, <3>1, TornIsStored
  <2> QED BY <2>1, <2>2 DEF PowerFails
<1>3. Stored(flash)'
  BY <1>1, <1>2, SamePhone DEF Stored
<1> QED BY <1>1, <1>3, OffUnit

LEMMA RebootUnit ==
  ASSUME UnitInv, NonceInv, NEW t \in Threads, Reboot(t)
  PROVE  UnitInv'
<1>1. PowersOff /\ phone' = phone /\ nvs' = nvs /\ flash' = flash
  BY DEF Reboot
<1>2. Stored(flash)'
  BY <1>1, SamePhone DEF UnitInv, CopiesAreCurrent, Stored
<1> QED BY <1>1, <1>2, OffUnit

LEMMA SaveUnit ==
  ASSUME UnitInv, NonceInv, NEW t \in Threads, Save(t)
  PROVE  UnitInv'
<1>1. At(t, "save") /\ nvs' = nvs /\ phone' = phone /\ up
  BY DEF Save, At
<1>2. IsConfig(flash) /\ IsConfig(staged) /\ Stored(flash) /\ Current(staged)
  BY <1>1, CopiesAre DEF NonceInv, CountersTyped
<1>3. CASE /\ flash' = staged /\ Next1(t)
           /\ UNCHANGED <<up, bounds, hist, staged, running, rules, latch, counters, vkey, batch,
                          nfc, cache, action, post>>
  <2>1. Stored(flash)' /\ Current(flash)' /\ Current(staged)'
    BY <1>1, <1>2, <1>3, SamePhone, CurrentIsStored DEF Stored, Current
  <2>2. \A tier \in Tiers : Forgot(staged, tier) => Forgot(staged, tier)' /\ Wipes(tier, "save")
    BY <1>1, <1>3 DEF Forgot, Wipes
  <2>3. StepIsSound(t, "save")
    BY <1>1, <1>3, <2>1, <2>2, CopiesAre DEF StepIsSound, Tiers
  <2> QED BY <2>3, JobStepUnit
<1>4. CASE PowersOff /\ \E n \in 1..(Len(Order) - 1) : flash' = Torn(flash, staged, n)
  <2>1. PICK n \in 1..(Len(Order) - 1) : flash' = Torn(flash, staged, n)
    BY <1>4
  <2>2. n \in 0..Len(Order)
    BY DEF Order
  <2>3. Stored(flash')
    BY <1>2, <2>1, <2>2, TornIsStored
  <2>4. Stored(flash)'
    BY <1>1, <2>3, SamePhone DEF Stored
  <2> QED BY <1>1, <1>4, <2>4, OffUnit
<1> QED BY <1>3, <1>4 DEF Save

LEMMA BootUnit == UnitInv /\ NonceInv /\ Boot => UnitInv'
<1> SUFFICES ASSUME UnitInv, NonceInv, Boot PROVE UnitInv'
  OBVIOUS
<1> DEFINE c == Migrated(flash)
<1>1. /\ ~up /\ up' = TRUE /\ flash' = c /\ staged' = c /\ rules' = c.rule
      /\ latch' = LoadedLatch(nvs.latch)
      /\ UNCHANGED <<nvs, phone, hist, batch, jobs, nfc, action, post>>
  BY DEF Boot
<1>2. Current(c)
  BY MigrationIsCurrent DEF NonceInv, CountersTyped, UnitInv, CopiesAreCurrent
<1> HIDE DEF c
<1>3. batch.owner = "none" /\ hist.reset = "none"
  BY <1>1 DEF UnitInv, OffIsEmpty
<1>4. UnitTyped'
  BY <1>1 DEF UnitInv, UnitTyped, LoadedLatch
<1>5. OffIsEmpty' /\ RulesLag'
  BY <1>1 DEF OffIsEmpty, RulesLag
<1>6. CopiesAreCurrent'
  BY <1>1, <1>2, <1>3, SamePhone, CurrentIsStored DEF CopiesAreCurrent, Current, Stored
<1>7. WaitIsCounted'
  BY <1>1 DEF UnitInv, WaitIsCounted
<1>8. ResetIsAsked'
  BY <1>1, SamePhone DEF UnitInv, ResetIsAsked
<1>9. ResetIsThere'
  BY <1>1, <1>3 DEF ResetIsThere
<1> QED BY <1>4, <1>5, <1>6, <1>7, <1>8, <1>9 DEF UnitInv

LEMMA ResetTierUnit ==
  ASSUME UnitInv, NonceInv, NEW t \in Threads, NEW tier \in Tiers, ResetTier(t, tier)
  PROVE  UnitInv'
<1>1. /\ At(t, tier) /\ t = "nfc" /\ up /\ jobs["nfc"] = PlanOf(tier)
      /\ tier = "vendor" => KeyMayGo
      /\ tier = "factory" => LinkMayGo
  BY HeadsOfLists DEF ResetTier, Tiers
<1>2. /\ UNCHANGED <<up, flash, nvs, phone, rules, latch, counters, batch, nfc, action, post>>
      /\ IsConfig(staged)
  BY DEF ResetTier, NonceInv, CountersTyped
<1>3. /\ UNCHANGED <<KeyMayGo, LinkMayGo>> /\ (up => latch = LoadedLatch(nvs.latch))'
      /\ Stored(flash)' /\ Current(flash)'
  BY <1>1, <1>2, SamePhone, CopiesAre DEF Stored, Current
<1>4. nfc.pc = "idle" /\ action = "none" /\ hist.reset = "none" /\ DOMAIN jobs = Threads
  <2>1. jobs["nfc"] # <<>>
    BY <1>1 DEF At
  <2> QED BY <1>1, <2>1, HeadsOfLists DEF UnitInv, ResetIsAsked, UnitTyped
<1>5. CASE jobs' = [jobs EXCEPT ![t] = <<"reboot">>] /\ UNCHANGED <<staged, hist>>
  <2>1. jobs'["nfc"] = <<"reboot">> /\ jobs'["radio"] = jobs["radio"] /\ DOMAIN jobs' = Threads
    BY <1>1, <1>4, <1>5 DEF Threads
  <2>2. <<"reboot">> \in Seq(Words) /\ \A i \in DOMAIN <<"reboot">> : <<"reboot">>[i] = "reboot"
    BY DEF Words
  <2>3. UnitTyped'
    BY <1>2, <1>5, <2>1, <2>2 DEF UnitInv, UnitTyped, Threads
  <2>4. OffIsEmpty' /\ RulesLag' /\ WaitIsCounted'
    BY <1>1, <1>2, <1>5 DEF UnitInv, OffIsEmpty, RulesLag, WaitIsCounted
  <2>5. CopiesAreCurrent'
    BY <1>2, <1>3, <1>5 DEF UnitInv, CopiesAreCurrent, Current
  <2>6. ResetIsAsked'
    BY <1>2, <1>3, <1>4, <2>1, <2>2 DEF UnitInv, ResetIsAsked, Tiers
  <2>7. ResetIsThere'
    BY <1>3, <1>4, <1>5 DEF ResetIsThere
  <2> QED BY <2>3, <2>4, <2>5, <2>6, <2>7 DEF UnitInv
<1>6. CASE /\ Unlocked /\ staged' = ResetTo(tier, staged) /\ hist' = [hist EXCEPT !.reset = tier] /\ Next1(t)
  <2>1. hist'.reset = tier /\ hist'.held = hist.held /\ batch.owner = "none"
    BY <1>6 DEF NonceInv, CountersTyped, NoHist, Unlocked
  <2>2. Current(staged)' /\ Forgot(staged, hist.reset)'
    <3>1. Current(staged') /\ Forgot(staged', tier)
      BY <1>1, <1>2, <1>6, ResetWipes, CopiesAre
    <3> QED BY <1>3, <2>1, <3>1 DEF Current, Forgot
  <2>3. jobs'["nfc"] = Tail(PlanOf(tier)) /\ jobs'["radio"] = jobs["radio"] /\ DOMAIN jobs' = Threads
    BY <1>1, <1>4, <1>6 DEF Next1, Threads
  <2>4. /\ Rest(PlanOf(tier), Tail(PlanOf(tier))) /\ Tail(PlanOf(tier)) \in Seq(Words)
        /\ Len(Tail(PlanOf(tier))) = Len(PlanOf(tier)) - 1 /\ Len(PlanOf(tier)) = LengthOf(tier)
    BY RestStarts, LengthsOfTiers
  <2>5. UnitTyped'
    <3>1. \A u \in Threads : jobs'[u] \in Seq(Words)
      BY <2>3, <2>4 DEF UnitInv, UnitTyped, Threads
    <3> QED BY <1>2, <2>1, <2>3, <3>1 DEF UnitInv, UnitTyped
  <2>6. OffIsEmpty' /\ RulesLag' /\ WaitIsCounted'
    BY <1>1, <1>2, <2>1 DEF UnitInv, OffIsEmpty, RulesLag, WaitIsCounted, Tiers
  <2>7. CopiesAreCurrent'
    BY <1>2, <1>3, <2>1, <2>2 DEF CopiesAreCurrent
  <2>8. ResetIsAsked'
    <3> DEFINE p == Tail(PlanOf(tier))
    <3>1. \A i \in DOMAIN p : p[i] \notin Tiers /\ (p[i] = "key" => tier = "vendor")
      BY RestWords
    <3> HIDE DEF p
    <3>2. jobs'["nfc"] = p
      BY <2>3 DEF p
    <3> QED BY <1>1, <1>2, <1>3, <1>4, <2>3, <3>1, <3>2 DEF UnitInv, ResetIsAsked, Tiers
  <2>9. Wiped(hist.reset, Len(jobs["nfc"]))'
    <3>1. /\ Len(jobs'["nfc"]) = LengthOf(tier) - 1 /\ hist'.reset = tier
          /\ Len(PlanOf(hist'.reset)) = LengthOf(tier)
      BY <2>1, <2>3, <2>4
    <3> QED BY <3>1 DEF Wiped, LengthOf, Tiers
  <2>10. ResetIsThere'
    BY <1>2, <1>3, <2>1, <2>2, <2>3, <2>4, <2>9 DEF ResetIsThere
  <2> QED BY <2>5, <2>6, <2>7, <2>8, <2>10 DEF UnitInv
<1> QED BY <1>5, <1>6 DEF ResetTier, TierWaits

-----------------------------------------------------------------------------
(* The mailbox: no deferred action of its thread is under way, so no reset *)

LEMMA MailboxIsAlone ==
  ASSUME UnitInv, jobs["nfc"] = <<>> \/ nfc.pc # "idle" \/ action # "none"
  PROVE  jobs["nfc"] = <<>> /\ hist.reset = "none"
<1>1. jobs["nfc"] = <<>>
  BY DEF UnitInv, ResetIsAsked
<1>2. Len(jobs["nfc"]) = 0
  BY <1>1
<1> QED BY <1>1, <1>2 DEF UnitInv, ResetIsThere, Rest

\* A step of the mailbox, by what it leaves.
MailboxIsSound ==
  /\ up /\ jobs["nfc"] = <<>> /\ UNCHANGED <<up, phone, jobs, post>>
  /\ nfc'.pc \in {"idle", "persist", "handle", "batch", "reply"}
  /\ nfc'.act \in Actions /\ action' \in Actions
  /\ nfc'.act = "vendor_reset" \/ action' = "vendor_reset" => KeyMayGo
  /\ nfc'.act = "factory_reset" \/ action' = "factory_reset" => LinkMayGo
  /\ nfc'.pc # "idle" => nfc'.n \in DOMAIN phone
  /\ hist'.reset = hist.reset /\ hist'.held = hist.held
  /\ latch' \in {"active", "done"} /\ DOMAIN nvs' = DOMAIN nvs /\ latch' = LoadedLatch(nvs'.latch)
  /\ Current(flash') /\ Current(staged')
  /\ batch'.owner \in {"none", "nfc", "radio"} /\ batch'.kind \in SetParams \union {"none"}
  /\ (batch'.owner = "none") = (batch'.kind = "none") /\ (nfc'.pc = "batch" => batch'.owner = "nfc")
  /\ batch'.owner # "none" => DOMAIN batch'.before = DOMAIN Defaults /\ Current(batch'.before)
  /\ rules' # staged'.rule => batch'.kind \in RuleKinds

LEMMA MailboxUnit ==
  ASSUME UnitInv, MailboxIsSound
  PROVE  UnitInv'
<1>1. up /\ jobs["nfc"] = <<>> /\ hist.reset = "none" /\ UNCHANGED <<up, phone, jobs, post>>
  BY MailboxIsAlone DEF MailboxIsSound
<1>2. hist'.reset = "none" /\ hist'.held = hist.held
  BY <1>1 DEF MailboxIsSound
<1>3. UnitTyped'
  BY <1>1, <1>2 DEF MailboxIsSound, UnitInv, UnitTyped
<1>4. OffIsEmpty' /\ RulesLag'
  BY <1>1 DEF OffIsEmpty, RulesLag, MailboxIsSound
<1>5. CopiesAreCurrent'
  BY <1>1, SamePhone DEF MailboxIsSound, CopiesAreCurrent, Current, Stored
<1>6. WaitIsCounted'
  BY <1>1, <1>2 DEF UnitInv, WaitIsCounted
<1>7. ResetIsAsked'
  <2>1. \A i \in DOMAIN jobs["radio"] : jobs["radio"][i] \in {"counters", "save", "reboot", "join"}
    BY DEF UnitInv, ResetIsAsked
  <2>2. DOMAIN jobs'["nfc"] = {} /\ jobs' = jobs
    BY <1>1
  <2> QED BY <1>1, <2>1, <2>2, SamePhone DEF MailboxIsSound, ResetIsAsked
<1>8. ResetIsThere'
  BY <1>2 DEF ResetIsThere, MailboxIsSound
<1> QED BY <1>3, <1>4, <1>5, <1>6, <1>7, <1>8 DEF UnitInv

\* What holds of the mailbox and the open batch, when no step is at them.
LEMMA MailboxHas ==
  ASSUME UnitInv, NonceInv, up, jobs["nfc"] = <<>> \/ nfc.pc # "idle" \/ action # "none"
  PROVE  /\ jobs["nfc"] = <<>> /\ hist.reset = "none"
         /\ DOMAIN nfc = {"pc", "n", "prev", "act"} /\ DOMAIN hist = {"spent", "reset", "held", "ran"}
         /\ nfc.pc \in {"idle", "persist", "handle", "batch", "reply"}
         /\ nfc.act \in Actions /\ action \in Actions
         /\ nfc.act = "vendor_reset" \/ action = "vendor_reset" => KeyMayGo
         /\ nfc.act = "factory_reset" \/ action = "factory_reset" => LinkMayGo
         /\ nfc.pc # "idle" => nfc.n \in DOMAIN phone
         /\ latch \in {"active", "done"} /\ latch = LoadedLatch(nvs.latch)
         /\ Current(flash) /\ Current(staged)
         /\ batch.owner \in {"none", "nfc", "radio"} /\ batch.kind \in SetParams \union {"none"}
         /\ (batch.owner = "none") = (batch.kind = "none") /\ (nfc.pc = "batch" => batch.owner = "nfc")
         /\ batch.owner # "none" => DOMAIN batch.before = DOMAIN Defaults /\ Current(batch.before)
         /\ rules # staged.rule => batch.kind \in RuleKinds
<1>1. DOMAIN nfc = {"pc", "n", "prev", "act"} /\ DOMAIN hist = {"spent", "reset", "held", "ran"}
  BY DEF NonceInv, CountersTyped, Idle, NoHist
<1>2. jobs["nfc"] = <<>> /\ hist.reset = "none"
  BY MailboxIsAlone
<1>3. rules # staged.rule => batch.kind \in RuleKinds
  BY <1>2 DEF UnitInv, RulesLag
<1> QED BY <1>1, <1>2, <1>3, CopiesAre DEF UnitInv, UnitTyped, ResetIsAsked, CopiesAreCurrent

LEMMA ReceiveUnit ==
  ASSUME UnitInv, NonceInv, NEW n \in DOMAIN phone, Receive(n)
  PROVE  UnitInv'
<1>1. /\ up /\ jobs["nfc"] = <<>>
      /\ UNCHANGED <<up, flash, nvs, phone, rules, latch, batch, jobs, action, post, hist>>
      /\ nfc'.n = n /\ nfc'.act = "none" /\ nfc'.pc \in {"reply", "persist"}
  BY DEF Receive, Serving, AtMb, Idle
<1>2. staged' = staged \/ staged' = [staged EXCEPT !.nonce = n]
  BY DEF Receive
<1>3. Current(staged') /\ staged'.rule = staged.rule
  BY <1>1, <1>2, CopiesAre DEF Current
<1>4. MailboxIsSound
  BY <1>1, <1>3, MailboxHas DEF MailboxIsSound, Actions
<1> QED BY <1>4, MailboxUnit

LEMMA PersistUnit == UnitInv /\ NonceInv /\ PersistNonce => UnitInv'
<1> SUFFICES ASSUME UnitInv, NonceInv, PersistNonce PROVE UnitInv'
  OBVIOUS
<1>1. /\ up /\ nfc.pc = "persist"
      /\ UNCHANGED <<up, nvs, phone, hist, rules, latch, batch, jobs, action, post>>
  BY DEF PersistNonce, AtMb
<1>2. /\ nfc'.pc \in {"handle", "idle"} /\ nfc'.act \in {nfc.act, "none"}
      /\ nfc'.pc # "idle" => nfc'.n = nfc.n
  BY <1>1, MailboxHas DEF PersistNonce, Idle
<1>3. Current(staged') /\ staged'.rule = staged.rule
  BY <1>1, CopiesAre DEF Current, PersistNonce
<1>4. Current(flash')
  BY <1>1, CopiesAre DEF Current, PersistNonce
<1>5. MailboxIsSound
  BY <1>1, <1>2, <1>3, <1>4, MailboxHas DEF MailboxIsSound, Actions
<1> QED BY <1>5, MailboxUnit

LEMMA ReplyUnit == UnitInv /\ NonceInv /\ Reply => UnitInv'
<1> SUFFICES ASSUME UnitInv, NonceInv, Reply PROVE UnitInv'
  OBVIOUS
<1>1. /\ up /\ nfc.pc = "reply" /\ nfc' = Idle
      /\ UNCHANGED <<up, flash, nvs, phone, staged, rules, latch, batch, jobs, post>>
  BY DEF Reply, AtMb
<1>2. nfc'.pc = "idle" /\ nfc'.act = "none" /\ action' \in {action, nfc.act}
  BY <1>1 DEF Reply, Idle
<1>3. hist'.reset = hist.reset /\ hist'.held = hist.held
  BY <1>1, MailboxHas DEF Reply
<1>4. MailboxIsSound
  BY <1>1, <1>2, <1>3, MailboxHas DEF MailboxIsSound, Actions
<1> QED BY <1>4, MailboxUnit

\* What a handler leaves of the unit, and the action it defers.
LEMMA HandlesUnit ==
  ASSUME UnitInv, NonceInv, up, NEW cmd, cmd \notin SetParams, Handles(cmd)
  PROVE  /\ Current(staged') /\ staged'.rule = staged.rule
         /\ latch' \in {"active", "done"} /\ DOMAIN nvs' = DOMAIN nvs /\ latch' = LoadedLatch(nvs'.latch)
         /\ Defers(cmd) \in Actions
         /\ Defers(cmd) = "vendor_reset" => cmd = "vendor_reset"
         /\ Defers(cmd) = "factory_reset" => cmd = "factory_reset"
         /\ "radio" \in Transports(cmd) =>
              /\ UNCHANGED <<staged, latch, nvs>> /\ counters' \in {0, counters}
              /\ Defers(cmd) \in RadioActions
<1>1. cmd \in {"set_secret_key", "claim_active", "claim_done", "vendor_reset", "reset_counters", "lrw_join",
               "lrw_reset", "save", "reboot", "device_reset", "factory_reset", "enter_calibration"}
  BY DEF Handles
<1>2. Current(staged') /\ staged'.rule = staged.rule
  BY CopiesAre DEF Handles, Current
<1>3. latch' \in {"active", "done"} /\ DOMAIN nvs' = DOMAIN nvs /\ latch' = LoadedLatch(nvs'.latch)
  BY CopiesAre DEF Handles, LoadedLatch
<1>4. /\ Defers(cmd) \in Actions
      /\ Defers(cmd) = "vendor_reset" => cmd = "vendor_reset"
      /\ Defers(cmd) = "factory_reset" => cmd = "factory_reset"
  BY <1>1 DEF Defers, Actions, RadioActions, SetParams
<1>5. ASSUME "radio" \in Transports(cmd)
      PROVE  /\ UNCHANGED <<staged, latch, nvs>> /\ counters' \in {0, counters}
             /\ Defers(cmd) \in RadioActions
  <2>1. cmd \in {"save", "reboot", "reset_counters", "lrw_join"}
    BY <1>1, <1>5 DEF Transports, SetParams
  <2>2. UNCHANGED <<staged, latch, nvs>> /\ counters' \in {0, counters}
    BY <2>1 DEF Handles
  <2>3. Defers(cmd) \in RadioActions
    BY <2>1 DEF Defers, RadioActions, SetParams
  <2> QED BY <2>2, <2>3
<1> QED BY <1>2, <1>3, <1>4, <1>5

\* A batch starts from what is staged.
LEMMA BatchBeginsUnit ==
  ASSUME UnitInv, NonceInv, up, NEW t \in Threads, NEW param \in SetParams, SetParamBegins(t, param)
  PROVE  /\ Unlocked /\ batch'.owner = t /\ batch'.kind = param /\ batch'.before = staged
         /\ Current(staged') /\ DOMAIN staged = DOMAIN Defaults
         /\ rules # staged'.rule => param \in RuleKinds \/ hist.reset # "none"
         /\ \A tier \in Tiers : hist.reset # "none" /\ Forgot(staged, tier) => Forgot(staged', tier)
<1>1. Unlocked /\ batch'.owner = t /\ batch'.kind = param /\ batch'.before = staged /\ staged' = Staging(param, staged)
  BY DEF SetParamBegins
<1>2. DOMAIN staged = DOMAIN Defaults /\ Current(staged)
  BY CopiesAre DEF NonceInv, CountersTyped, IsConfig
<1>3. /\ Current(staged') /\ (param \notin RuleKinds => staged'.rule = staged.rule)
      /\ \A tier \in Tiers : hist.reset # "none" /\ Forgot(staged, tier) => Forgot(staged', tier)
  BY <1>1, <1>2, StagingIsCurrent
<1>4. rules # staged.rule => hist.reset # "none"
  BY <1>1 DEF UnitInv, UnitTyped, RulesLag, Unlocked, RuleKinds
<1> QED BY <1>1, <1>2, <1>3, <1>4

\* A batch ends with the staged configuration, or the one before it, and its rules.
LEMMA BatchEndsUnit ==
  ASSUME UnitInv, NonceInv, up, batch.owner # "none", SetParamEnds(batch.kind)
  PROVE  /\ batch'.owner = "none" /\ batch'.kind = "none" /\ batch.kind \in SetParams
         /\ Current(staged') /\ (rules' # staged'.rule => hist.reset # "none")
         /\ \A tier \in Tiers : Forgot(staged, tier) /\ Forgot(batch.before, tier) => Forgot(staged', tier)
         /\ Defers(batch.kind) \in {"save", "none"}
<1>1. batch'.owner = "none" /\ batch'.kind = "none" /\ staged' \in {staged, batch.before}
  BY DEF SetParamEnds, NoBatch
<1>2. batch.kind \in SetParams /\ Current(batch.before) /\ Current(staged)
  BY CopiesAre DEF UnitInv, UnitTyped, CopiesAreCurrent
<1>3. rules' # staged'.rule => hist.reset # "none"
  BY DEF SetParamEnds, UnitInv, RulesLag, RuleKinds
<1>4. Defers(batch.kind) \in {"save", "none"}
  BY <1>2 DEF Defers, SetParams
<1> QED BY <1>1, <1>2, <1>3, <1>4

LEMMA HandleUnit == UnitInv /\ NonceInv /\ Handle => UnitInv'
<1> SUFFICES ASSUME UnitInv, NonceInv, Handle PROVE UnitInv'
  OBVIOUS
<1> DEFINE cmd == phone[nfc.n]
<1>1. /\ up /\ nfc.pc = "handle" /\ UNCHANGED <<up, flash, phone, rules, jobs, action, post>>
  BY DEF Handle, AtMb
<1>2. hist'.reset = hist.reset /\ hist'.held = hist.held
  BY <1>1, MailboxHas DEF Handle
<1>3. (cmd = "vendor_reset" => KeyMayGo) /\ (cmd = "factory_reset" => LinkMayGo)
  BY <1>1, MailboxHas DEF KeyMayGo, LinkMayGo, Range
<1>4. CASE /\ cmd \notin SetParams /\ Handles(cmd)
           /\ nfc' = [nfc EXCEPT !.pc = "reply", !.act = Defers(cmd)] /\ UNCHANGED batch
  <2>1. nfc'.pc = "reply" /\ nfc'.act = Defers(cmd) /\ nfc'.n = nfc.n
    BY <1>1, <1>4, MailboxHas
  <2> HIDE DEF cmd
  <2> QED BY <1>1, <1>2, <1>3, <1>4, <2>1, HandlesUnit, MailboxHas, MailboxUnit DEF MailboxIsSound
<1>5. CASE nfc' = [nfc EXCEPT !.pc = "reply"] /\ UNCHANGED <<staged, latch, nvs, batch>>
  <2>1. nfc'.pc = "reply" /\ nfc'.act = nfc.act /\ nfc'.n = nfc.n
    BY <1>1, <1>5, MailboxHas
  <2> QED BY <1>1, <1>2, <1>5, <2>1, MailboxHas, MailboxUnit DEF MailboxIsSound
<1>6. CASE /\ cmd \in SetParams /\ SetParamBegins("nfc", cmd)
           /\ nfc' = [nfc EXCEPT !.pc = "batch"] /\ UNCHANGED <<latch, nvs>>
  <2>1. nfc'.pc = "batch" /\ nfc'.act = nfc.act /\ nfc'.n = nfc.n
    BY <1>1, <1>6, MailboxHas
  <2> HIDE DEF cmd
  <2>2. /\ batch'.owner = "nfc" /\ batch'.kind = cmd /\ batch'.before = staged
        /\ Current(staged') /\ DOMAIN staged = DOMAIN Defaults
        /\ rules # staged'.rule => cmd \in RuleKinds \/ hist.reset # "none"
    BY <1>1, <1>6, BatchBeginsUnit DEF Threads
  <2>3. MailboxIsSound
    BY <1>1, <1>2, <1>6, <2>1, <2>2, MailboxHas DEF MailboxIsSound, SetParams
  <2> QED BY <2>3, MailboxUnit
<1> QED BY <1>4, <1>5, <1>6 DEF Handle

LEMMA HandleEndsUnit == UnitInv /\ NonceInv /\ HandleEnds => UnitInv'
<1> SUFFICES ASSUME UnitInv, NonceInv, HandleEnds PROVE UnitInv'
  OBVIOUS
<1>1. up /\ nfc.pc = "batch" /\ UNCHANGED <<up, flash, nvs, phone, hist, latch, jobs, action, post>>
  BY DEF HandleEnds, AtMb
<1>2. batch.owner = "nfc" /\ hist.reset = "none"
  BY <1>1, MailboxHas
<1>3. /\ batch'.owner = "none" /\ batch'.kind = "none"
      /\ Current(staged') /\ (rules' # staged'.rule => hist.reset # "none")
      /\ Defers(batch.kind) \in {"save", "none"}
  BY <1>1, <1>2, BatchEndsUnit DEF HandleEnds
<1>4. nfc'.pc = "reply" /\ nfc'.act \in {"save", "none"} /\ nfc'.n = nfc.n
  BY <1>1, <1>3, MailboxHas DEF HandleEnds
<1>5. MailboxIsSound
  BY <1>1, <1>2, <1>3, <1>4, MailboxHas DEF MailboxIsSound, Actions, RadioActions
<1> QED BY <1>5, MailboxUnit

LEMMA RunDeferredUnit == UnitInv /\ NonceInv /\ RunDeferred => UnitInv'
<1> SUFFICES ASSUME UnitInv, NonceInv, RunDeferred PROVE UnitInv'
  OBVIOUS
<1>1. /\ up /\ nfc.pc = "idle" /\ action # "none" /\ action' = "none"
      /\ UNCHANGED <<up, flash, nvs, phone, hist, staged, rules, latch, batch, nfc, post>>
  BY DEF RunDeferred, AtMb
<1>2. /\ hist.reset = "none" /\ action \in Actions /\ DOMAIN jobs = Threads
      /\ action = "vendor_reset" => KeyMayGo
      /\ action = "factory_reset" => LinkMayGo
  BY <1>1, MailboxHas DEF UnitInv, UnitTyped
<1>3. jobs'["nfc"] = Plan(action) /\ jobs'["radio"] = jobs["radio"] /\ DOMAIN jobs' = Threads
  BY <1>2 DEF RunDeferred, Threads
<1>4. /\ Plan(action) \in Seq(Words)
      /\ \A i \in DOMAIN Plan(action) :
           /\ Plan(action)[i] \in {"vendor", "key"} => action = "vendor_reset"
           /\ Plan(action)[i] = "factory" => action = "factory_reset"
           /\ Plan(action)[i] \in Tiers => Plan(action) = PlanOf(Plan(action)[i])
  BY <1>1, <1>2, PlansAreKnown
<1>5. UnitTyped'
  <2>1. \A t \in Threads : jobs'[t] \in Seq(Words)
    BY <1>3, <1>4 DEF UnitInv, UnitTyped, Threads
  <2> QED BY <1>1, <1>3, <2>1 DEF UnitInv, UnitTyped, Actions
<1>6. OffIsEmpty' /\ RulesLag' /\ WaitIsCounted'
  BY <1>1 DEF UnitInv, OffIsEmpty, RulesLag, WaitIsCounted
<1>7. CopiesAreCurrent'
  BY <1>1, SamePhone DEF UnitInv, CopiesAreCurrent, Current, Stored
<1>8. ResetIsAsked'
  BY <1>1, <1>2, <1>3, <1>4, SamePhone DEF UnitInv, ResetIsAsked
<1>9. ResetIsThere'
  BY <1>1, <1>2 DEF UnitInv, ResetIsThere
<1> QED BY <1>5, <1>6, <1>7, <1>8, <1>9 DEF UnitInv

-----------------------------------------------------------------------------
(* The plan that runs what pends together *)

\* The counters first, then one action that ends in a reboot, or a join.
PostPlans ==
  {<<"counters", "save", "reboot">>, <<"counters", "reboot">>, <<"counters", "join">>, <<"counters">>,
   <<"save", "reboot">>, <<"reboot">>, <<"join">>, <<>>}

LEMMA PostPlanIsOne ==
  ASSUME NEW pending
  PROVE  PostPlan(pending) =
           IF "counters" \in pending
             THEN IF "save" \in pending THEN <<"counters", "save", "reboot">>
                  ELSE IF "reboot" \in pending THEN <<"counters", "reboot">>
                  ELSE IF "lrw_join" \in pending THEN <<"counters", "join">> ELSE <<"counters">>
             ELSE IF "save" \in pending THEN <<"save", "reboot">>
                  ELSE IF "reboot" \in pending THEN <<"reboot">>
                  ELSE IF "lrw_join" \in pending THEN <<"join">> ELSE <<>>
<1>1. /\ <<"counters">> \o <<"save", "reboot">> = <<"counters", "save", "reboot">>
      /\ <<"counters">> \o <<"reboot">> = <<"counters", "reboot">>
      /\ <<"counters">> \o <<"join">> = <<"counters", "join">>
      /\ <<"counters">> \o <<>> = <<"counters">>
  <2>1. ASSUME NEW r, r = <<"counters">> \o <<"save", "reboot">> PROVE r = <<"counters", "save", "reboot">>
    <3>1. r \in Seq(Words) /\ Len(r) = 3 /\ r[1] = "counters" /\ r[2] = "save" /\ r[3] = "reboot"
      BY <2>1 DEF Words
    <3>2. <<"counters", "save", "reboot">> \in Seq(Words)
      BY DEF Words
    <3> QED BY <3>1, <3>2, SeqEqual
  <2>2. ASSUME NEW act \in {"reboot", "join"}, NEW r, r = <<"counters">> \o <<act>> PROVE r = <<"counters", act>>
    <3>1. r \in Seq(Words) /\ Len(r) = 2 /\ r[1] = "counters" /\ r[2] = act
      BY <2>2 DEF Words
    <3>2. <<"counters", act>> \in Seq(Words)
      BY DEF Words
    <3> QED BY <3>1, <3>2, SeqEqual
  <2>3. <<"counters">> \o <<>> = <<"counters">>
    OBVIOUS
  <2> QED BY <2>1, <2>2, <2>3
<1>2. /\ <<>> \o <<"save", "reboot">> = <<"save", "reboot">> /\ <<>> \o <<"reboot">> = <<"reboot">>
      /\ <<>> \o <<"join">> = <<"join">> /\ <<>> \o <<>> = <<>>
  OBVIOUS
<1>3. /\ Plan("counters") = <<"counters">> /\ Plan("save") = <<"save", "reboot">>
      /\ Plan("reboot") = <<"reboot">> /\ Plan("lrw_join") = <<"join">>
  BY DEF Plan
<1> QED BY <1>1, <1>2, <1>3 DEF PostPlan

LEMMA PostPlanIsKnown ==
  ASSUME NEW plan \in PostPlans
  PROVE  /\ plan \in Seq(Words)
         /\ \A i \in DOMAIN plan : plan[i] \in {"counters", "save", "reboot", "join"}
<1>1. CASE plan = <<"counters", "save", "reboot">>
  BY <1>1 DEF Words
<1>2. CASE plan = <<"counters", "reboot">>
  BY <1>2 DEF Words
<1>3. CASE plan = <<"counters", "join">>
  BY <1>3 DEF Words
<1>4. CASE plan = <<"counters">>
  BY <1>4 DEF Words
<1>5. CASE plan = <<"save", "reboot">>
  BY <1>5 DEF Words
<1>6. CASE plan = <<"reboot">>
  BY <1>6 DEF Words
<1>7. CASE plan = <<"join">>
  BY <1>7 DEF Words
<1>8. CASE plan = <<>>
  BY <1>8
<1> QED BY <1>1, <1>2, <1>3, <1>4, <1>5, <1>6, <1>7, <1>8 DEF PostPlans

\* Each action that pends is in it.
LEMMA PostPlanServes ==
  ASSUME NEW pending, NEW act \in pending \intersect RadioActions
  PROVE  Serves(PostPlan(pending), act)
<1> DEFINE plan == PostPlan(pending)
<1>1. CASE act = "save"
  <2>1. plan \in {<<"counters", "save", "reboot">>, <<"save", "reboot">>}
    BY <1>1, PostPlanIsOne
  <2> HIDE DEF plan
  <2>2. CASE plan = <<"counters", "save", "reboot">>
    <3>1. 2 \in DOMAIN plan /\ 3 \in DOMAIN plan /\ plan[2] = "save" /\ plan[3] = "reboot" /\ 2 < 3
      BY <2>2
    <3>2. \E i, j \in DOMAIN plan : plan[i] = "save" /\ plan[j] = "reboot" /\ i < j
      BY <3>1
    <3>3. Serves(plan, act)
      BY <1>1, <3>2 DEF Serves
    <3> QED BY <3>3 DEF plan
  <2>3. CASE plan = <<"save", "reboot">>
    <3>1. 1 \in DOMAIN plan /\ 2 \in DOMAIN plan /\ plan[1] = "save" /\ plan[2] = "reboot" /\ 1 < 2
      BY <2>3
    <3>2. \E i, j \in DOMAIN plan : plan[i] = "save" /\ plan[j] = "reboot" /\ i < j
      BY <3>1
    <3>3. Serves(plan, act)
      BY <1>1, <3>2 DEF Serves
    <3> QED BY <3>3 DEF plan
  <2> QED BY <2>1, <2>2, <2>3 DEF plan
<1>2. CASE act = "counters"
  <2>1. plan \in {<<"counters", "save", "reboot">>, <<"counters", "reboot">>, <<"counters", "join">>, <<"counters">>}
    BY <1>2, PostPlanIsOne
  <2> HIDE DEF plan
  <2>2. 1 \in DOMAIN plan /\ plan[1] = "counters" /\ \A j \in 1..1 : plan[j] # "reboot"
    BY <2>1, SMTT(30)
  <2>3. Serves(plan, act)
    BY <1>2, <2>2 DEF Serves
  <2> QED BY <2>3 DEF plan
<1>3. CASE act = "reboot"
  <2>1. plan \in {<<"counters", "save", "reboot">>, <<"save", "reboot">>, <<"counters", "reboot">>, <<"reboot">>}
    BY <1>3, PostPlanIsOne
  <2> HIDE DEF plan
  <2>2. plan[Len(plan)] = "reboot"
    BY <2>1, SMTT(30)
  <2>3. Serves(plan, act)
    BY <1>3, <2>2 DEF Serves, Last
  <2> QED BY <2>3 DEF plan
<1>4. CASE act = "lrw_join"
  <2>1. plan \in PostPlans \ {<<>>, <<"counters">>}
    BY <1>4, PostPlanIsOne DEF PostPlans
  <2> HIDE DEF plan
  <2>2. plan # <<>> /\ plan[Len(plan)] \in {"join", "reboot"}
    BY <2>1, SMTT(40) DEF PostPlans
  <2>3. Serves(plan, act)
    BY <1>4, <2>2 DEF Serves, Last
  <2> QED BY <2>3 DEF plan
<1> QED BY <1>1, <1>2, <1>3, <1>4 DEF RadioActions

-----------------------------------------------------------------------------
(* The radio, which goes on while a reset is under way *)

\* A downlink's step, by what it leaves of the unit and of a reset.
RadioIsSound ==
  /\ up /\ UNCHANGED <<up, flash, nvs, latch, phone, jobs, nfc, action, hist>>
  /\ counters' \in {0, counters}
  /\ Current(staged')
  /\ batch'.owner \in {"none", "nfc", "radio"} /\ batch'.kind \in SetParams \union {"none"}
  /\ (batch'.owner = "none") = (batch'.kind = "none") /\ (nfc'.pc = "batch" => batch'.owner = "nfc")
  /\ batch'.owner # "none" => DOMAIN batch'.before = DOMAIN Defaults /\ Current(batch'.before)
  /\ rules' # staged'.rule => batch'.kind \in RuleKinds \/ hist.reset # "none"
  /\ \A tier \in Tiers :
       hist.reset = tier /\ Forgot(staged, tier) /\ (batch.owner # "none" => Forgot(batch.before, tier)) =>
         Forgot(staged', tier) /\ (batch'.owner # "none" => Forgot(batch'.before, tier))
  /\ WaitIsCounted'

LEMMA RadioUnit ==
  ASSUME UnitInv, RadioIsSound
  PROVE  UnitInv'
<1>1. up /\ UNCHANGED <<up, flash, nvs, latch, phone, jobs, nfc, action, hist>>
  BY DEF RadioIsSound
<1>2. UnitTyped'
  BY <1>1 DEF RadioIsSound, UnitInv, UnitTyped
<1>3. OffIsEmpty' /\ RulesLag' /\ WaitIsCounted'
  BY <1>1 DEF OffIsEmpty, RulesLag, RadioIsSound
<1>4. CopiesAreCurrent'
  BY <1>1, SamePhone DEF RadioIsSound, UnitInv, CopiesAreCurrent, Current, Stored
<1>5. ResetIsAsked'
  BY <1>1, SamePhone DEF UnitInv, ResetIsAsked
<1>6. ResetIsThere'
  <2>1. ASSUME hist.reset # "none"
        PROVE  /\ Forgot(staged, hist.reset)'
               /\ (batch.owner # "none" => Forgot(batch.before, hist.reset))'
               /\ Wiped(hist.reset, Len(jobs["nfc"]))'
    <3>1. PICK tier \in Tiers, left \in Seq(Words) : tier = hist.reset /\ left = jobs["nfc"]
      BY <2>1 DEF UnitInv, UnitTyped, Threads
    <3>2. /\ Forgot(staged, tier) /\ Wiped(tier, Len(left))
          /\ batch.owner # "none" => Forgot(batch.before, tier)
      BY <2>1, <3>1 DEF UnitInv, ResetIsThere
    <3>3. Forgot(staged', tier) /\ (batch'.owner # "none" => Forgot(batch'.before, tier))
      BY <3>1, <3>2 DEF RadioIsSound
    <3>4. Wipes(tier, "none")
      BY <1>1 DEF RadioIsSound, Wipes, Forgot
    <3>5. Wiped(tier, Len(left))'
      BY <3>2, <3>4, WipedStays
    <3>6. hist'.reset = tier /\ jobs'["nfc"] = left
      BY <1>1, <3>1
    <3> QED BY <3>3, <3>5, <3>6 DEF Forgot, Wiped
  <2> QED BY <1>1, <2>1 DEF UnitInv, ResetIsThere
<1> QED BY <1>2, <1>3, <1>4, <1>5, <1>6 DEF UnitInv

\* What joins the wait is one of the radio's actions.
LEMMA MergedWaits ==
  ASSUME UnitInv, NEW act \in RadioActions \union {"none"}, post' = Merged(act), hist' = hist
  PROVE  WaitIsCounted'
BY DrainAssumption DEF UnitInv, WaitIsCounted, Merged, RadioActions

LEMMA DownlinkUnit ==
  ASSUME UnitInv, NonceInv, NEW cmd, Downlink(cmd)
  PROVE  UnitInv'
<1>1. /\ up /\ "radio" \in Transports(cmd)
      /\ UNCHANGED <<up, flash, phone, hist, rules, jobs, nfc, action>>
  BY DEF Downlink, QueueFree
<1>2. CASE /\ cmd \in SetParams /\ SetParamBegins("radio", cmd)
           /\ UNCHANGED <<latch, nvs, counters, post>>
  <2>1. /\ Unlocked /\ batch'.owner = "radio" /\ batch'.kind = cmd /\ batch'.before = staged
        /\ Current(staged') /\ DOMAIN staged = DOMAIN Defaults
        /\ rules # staged'.rule => cmd \in RuleKinds \/ hist.reset # "none"
        /\ \A tier \in Tiers : hist.reset # "none" /\ Forgot(staged, tier) => Forgot(staged', tier)
    BY <1>1, <1>2, BatchBeginsUnit DEF Threads
  <2>2. nfc.pc # "batch" /\ cmd # "none" /\ Current(staged)
    BY <1>1, <1>2, <2>1, CopiesAre DEF UnitInv, UnitTyped, Unlocked, SetParams
  <2>3. WaitIsCounted'
    BY <1>1, <1>2 DEF UnitInv, WaitIsCounted
  <2>4. RadioIsSound
    BY <1>1, <1>2, <2>1, <2>2, <2>3 DEF RadioIsSound, Tiers
  <2> QED BY <2>4, RadioUnit
<1>3. CASE /\ cmd \notin SetParams /\ Handles(cmd) /\ post' = Merged(Defers(cmd)) /\ UNCHANGED batch
  <2>1. /\ UNCHANGED <<staged, latch, nvs>> /\ counters' \in {0, counters}
        /\ Defers(cmd) \in RadioActions
    BY <1>1, <1>3, HandlesUnit
  <2>2. WaitIsCounted'
    BY <1>1, <1>3, <2>1, MergedWaits
  <2>3. RadioIsSound
    BY <1>1, <1>3, <2>1, <2>2, CopiesAre
    DEF RadioIsSound, UnitInv, UnitTyped, CopiesAreCurrent, RulesLag
  <2> QED BY <2>3, RadioUnit
<1> QED BY <1>2, <1>3 DEF Downlink

LEMMA DownlinkEndsUnit == UnitInv /\ NonceInv /\ DownlinkEnds => UnitInv'
<1> SUFFICES ASSUME UnitInv, NonceInv, DownlinkEnds PROVE UnitInv'
  OBVIOUS
<1>1. /\ up /\ batch.owner = "radio" /\ SetParamEnds(batch.kind)
      /\ UNCHANGED <<up, flash, nvs, phone, hist, latch, counters, jobs, nfc, action>>
  BY DEF DownlinkEnds
<1>2. /\ batch'.owner = "none" /\ batch'.kind = "none"
      /\ Current(staged') /\ (rules' # staged'.rule => hist.reset # "none")
      /\ \A tier \in Tiers : Forgot(staged, tier) /\ Forgot(batch.before, tier) => Forgot(staged', tier)
      /\ Defers(batch.kind) \in {"save", "none"}
  BY <1>1, BatchEndsUnit
<1>3. WaitIsCounted'
  <2>1. CASE post' = post
    BY <1>1, <2>1 DEF UnitInv, WaitIsCounted
  <2>2. CASE post' = Merged(Defers(batch.kind))
    BY <1>1, <1>2, <2>2, MergedWaits DEF RadioActions
  <2> QED BY <2>1, <2>2 DEF DownlinkEnds
<1>4. nfc.pc # "batch"
  BY <1>1 DEF UnitInv, UnitTyped
<1>5. RadioIsSound
  BY <1>1, <1>2, <1>3, <1>4 DEF RadioIsSound
<1> QED BY <1>5, RadioUnit

LEMMA PostCmdUnit == UnitInv /\ NonceInv /\ PostCmd => UnitInv'
<1> SUFFICES ASSUME UnitInv, NonceInv, PostCmd PROVE UnitInv'
  OBVIOUS
<1>1. /\ up /\ jobs["radio"] = <<>>
      /\ UNCHANGED <<up, flash, nvs, phone, staged, rules, latch, counters, batch, nfc, action>>
  BY DEF PostCmd, QueueFree
<1>2. hist'.reset = hist.reset /\ DOMAIN hist = {"spent", "reset", "held", "ran"} /\ DOMAIN jobs = Threads
  BY DEF PostCmd, NonceInv, CountersTyped, NoHist, UnitInv, UnitTyped
<1>3. /\ jobs'["nfc"] = jobs["nfc"] /\ DOMAIN jobs' = Threads /\ jobs'["radio"] \in Seq(Words)
      /\ \A i \in DOMAIN jobs'["radio"] : jobs'["radio"][i] \in {"counters", "save", "reboot", "join"}
  <2>1. CASE jobs' = jobs
    BY <1>1, <1>2, <2>1 DEF UnitInv, UnitTyped, ResetIsAsked, Threads
  <2>2. CASE jobs' = [jobs EXCEPT !["radio"] = PostPlan(post.pending)]
    <3>1. jobs'["radio"] = PostPlan(post.pending) /\ jobs'["nfc"] = jobs["nfc"] /\ DOMAIN jobs' = Threads
      BY <1>2, <2>2 DEF Threads
    <3>2. PostPlan(post.pending) \in PostPlans
      BY PostPlanIsOne DEF PostPlans
    <3> QED BY <3>1, <3>2, PostPlanIsKnown
  <2> QED BY <2>1, <2>2 DEF PostCmd
<1>4. WaitIsCounted'
  <2>1. CASE /\ post.age < MaxDrain /\ post' = [post EXCEPT !.age = @ + 1]
             /\ hist' = [hist EXCEPT !.held = @ + 1] /\ post.pending # {}
    BY <1>2, <2>1, DrainAssumption DEF UnitInv, WaitIsCounted
  <2>2. CASE post' = [pending |-> {}, age |-> 0] /\ hist' = [hist EXCEPT !.held = 0]
    BY <1>2, <2>2, DrainAssumption DEF WaitIsCounted
  <2> QED BY <2>1, <2>2 DEF PostCmd
<1>5. UnitTyped'
  BY <1>1, <1>2, <1>3 DEF UnitInv, UnitTyped, Threads
<1>6. OffIsEmpty' /\ RulesLag'
  BY <1>1, <1>2 DEF UnitInv, OffIsEmpty, RulesLag
<1>7. CopiesAreCurrent'
  BY <1>1, SamePhone DEF UnitInv, CopiesAreCurrent, Current, Stored
<1>8. ResetIsAsked'
  BY <1>1, <1>3, SamePhone DEF UnitInv, ResetIsAsked
<1>9. ResetIsThere'
  BY <1>1, <1>2, <1>3 DEF UnitInv, ResetIsThere, Wiped, Forgot
<1> QED BY <1>4, <1>5, <1>6, <1>7, <1>8, <1>9 DEF UnitInv

-----------------------------------------------------------------------------
LEMMA UnitStarts == CmdInit => UnitInv
<1> SUFFICES ASSUME CmdInit PROVE UnitInv
  OBVIOUS
<1>1. /\ up = FALSE /\ latch = "active" /\ batch = NoBatch /\ nfc = Idle /\ action = "none"
      /\ jobs = [t \in Threads |-> <<>>] /\ post = [pending |-> {}, age |-> 0] /\ hist = NoHist
      /\ nvs = [latch |-> "consumed", counters |-> 1, history |-> 1, link |-> 1]
  BY DEF CmdInit, OffState
<1>2. /\ nfc.pc = "idle" /\ nfc.act = "none" /\ batch.owner = "none" /\ batch.kind = "none"
      /\ hist.reset = "none" /\ hist.held = 0
  BY <1>1 DEF Idle, NoBatch, NoHist
<1>3. DOMAIN jobs = Threads /\ \A t \in Threads : jobs[t] = <<>>
  BY <1>1
<1>4. Stored(flash)
  <2>1. PICK v \in {<<"old", "foreign">>, <<"new", "stale">>, <<"new", "old">>} :
          flash = [Defaults EXCEPT !.key = 1, !.token = 1, !.lrw = 1, !.version = v[1], !.rule = v[2]]
    BY DEF CmdInit
  <2>2. flash.key = 1 /\ flash.lrw = 1 /\ flash.version = v[1] /\ flash.rule = v[2]
    BY <2>1, DefaultsAreConfig
  <2> QED BY <2>1, <2>2 DEF Stored
<1>5. UnitTyped
  <2>1. <<>> \in Seq(Words)
    OBVIOUS
  <2> QED BY <1>1, <1>2, <1>3, <2>1 DEF UnitTyped, Actions
<1>6. OffIsEmpty /\ RulesLag /\ CopiesAreCurrent
  BY <1>1, <1>2, <1>3, <1>4 DEF OffIsEmpty, RulesLag, CopiesAreCurrent
<1>7. WaitIsCounted
  BY <1>1, <1>2, DrainAssumption DEF WaitIsCounted
<1>8. ResetIsAsked
  BY <1>1, <1>2, <1>3 DEF ResetIsAsked, Threads
<1>9. ResetIsThere
  BY <1>1, <1>2 DEF ResetIsThere
<1> QED BY <1>5, <1>6, <1>7, <1>8, <1>9 DEF UnitInv

LEMMA UnitStays == UnitInv /\ UNCHANGED cmdVars => UnitInv'
<1> SUFFICES ASSUME UnitInv, UNCHANGED cmdVars PROVE UnitInv'
  OBVIOUS
<1>1. UNCHANGED <<up, flash, nvs, phone, bounds, hist, staged, running, rules, latch, counters, vkey,
                  batch, jobs, nfc, cache, action, post>>
  BY DEF cmdVars, unitVars
<1>2. UnitTyped' /\ OffIsEmpty' /\ RulesLag' /\ WaitIsCounted'
  BY <1>1 DEF UnitInv, UnitTyped, OffIsEmpty, RulesLag, WaitIsCounted
<1>3. CopiesAreCurrent' /\ ResetIsAsked'
  BY <1>1, SamePhone DEF UnitInv, CopiesAreCurrent, Current, Stored, ResetIsAsked
<1>4. ResetIsThere'
  BY <1>1 DEF UnitInv, ResetIsThere, Wiped, Forgot
<1> QED BY <1>2, <1>3, <1>4 DEF UnitInv

LEMMA UnitStep == UnitInv /\ NonceInv /\ [CmdNext]_cmdVars => UnitInv'
<1> SUFFICES ASSUME UnitInv, NonceInv, [CmdNext]_cmdVars PROVE UnitInv'
  OBVIOUS
<1>1. CASE UNCHANGED cmdVars \/ \E n \in DOMAIN phone : Reject(n)
  BY <1>1, UnitStays DEF Reject
<1>2. CASE Boot \/ PowerFails
  BY <1>2, BootUnit, PowerFailsUnit
<1>3. CASE \E n \in DOMAIN phone : Receive(n)
  BY <1>3, ReceiveUnit
<1>4. CASE PersistNonce \/ Handle \/ HandleEnds \/ Reply \/ RunDeferred
  BY <1>4, PersistUnit, HandleUnit, HandleEndsUnit, ReplyUnit, RunDeferredUnit
<1>5. CASE DownlinkEnds \/ PostCmd \/ \E cmd \in Downlinks : Downlink(cmd)
  BY <1>5, DownlinkUnit, DownlinkEndsUnit, PostCmdUnit
<1>6. CASE \E t \in Threads :
             \/ \E tier \in {"device", "factory", "vendor"} : ResetTier(t, tier)
             \/ Save(t) \/ Reboot(t)
  BY <1>6, SaveUnit, ResetTierUnit, RebootUnit DEF Tiers
<1>7. CASE \E t \in Threads : ClearRules(t) \/ SetKey(t) \/ SaveKey(t) \/ Calibrate(t)
  BY <1>7, ClearRulesUnit, SetKeyUnit, SaveKeyUnit, CalibrateUnit
<1>8. CASE \E t \in Threads :
             \/ ZeroCounters(t) \/ SaveCounters(t) \/ ClearHistory(t) \/ ResetLink(t)
             \/ SetLatch(t) \/ Rejoin(t)
  BY <1>8, ZeroCountersUnit, SaveCountersUnit, ClearHistoryUnit, ResetLinkUnit, SetLatchUnit, RejoinUnit
<1> QED BY <1>1, <1>2, <1>3, <1>4, <1>5, <1>6, <1>7, <1>8 DEF CmdNext

LEMMA UnitInvariant == CmdSpec => [](NonceInv /\ UnitInv)
<1>1. CmdInit => NonceInv /\ UnitInv
  BY NonceStarts, UnitStarts
<1>2. (NonceInv /\ UnitInv) /\ [CmdNext]_cmdVars => (NonceInv /\ UnitInv)'
  BY NonceStep, UnitStep
<1> QED BY <1>1, <1>2, PTL DEF CmdSpec

\* The decoded rules are the staged ones whenever nothing is under way, the first command's
\* action never waits longer than POST_CMD_DRAIN_MAX_SEC, a migrated configuration is of one
\* firmware, and keys go by a command only: for all commands, downlinks, roll-backs, torn
\* saves and power failures.
THEOREM UnitIsSound == CmdSpec => []CmdInv
<1>1. NonceInv /\ UnitInv => CmdInv
  <2> SUFFICES ASSUME NonceInv, UnitInv PROVE CmdInv
    OBVIOUS
  <2>1. CmdType
    BY DEF CmdType, NonceInv, CountersTyped, IsConfig, UnitInv, UnitTyped, WaitIsCounted
  <2>2. RulesFollow
    <3>1. SUFFICES ASSUME up, Unlocked, jobs["nfc"] = <<>> PROVE rules = staged.rule
      BY DEF RulesFollow, Threads
    <3>2. hist.reset = "none" /\ batch.kind = "none"
      BY <3>1, MailboxIsAlone DEF UnitInv, UnitTyped, Unlocked
    <3> QED BY <3>1, <3>2 DEF UnitInv, RulesLag, RuleKinds
  <2>3. PostIsPrompt
    BY DrainAssumption DEF PostIsPrompt, UnitInv, WaitIsCounted
  <2>4. MigrationIsWhole /\ IdentityStays
    BY DEF MigrationIsWhole, IdentityStays, UnitInv, CopiesAreCurrent, Stored, Current, KeyMayGo, LinkMayGo
  <2> QED BY <2>1, <2>2, <2>3, <2>4 DEF CmdInv
<1> QED BY <1>1, UnitInvariant, PTL

\* When a reset has run to its reboot, nothing of what its tier wipes is left in the flash,
\* whatever the radio saved, staged or rolled back meanwhile (app_settings.c).
THEOREM ResetsForget == CmdSpec => ResetForgets
<1>1. UnitInv => (At("nfc", "reboot") /\ ~up' /\ hist.reset # "none" =>
       /\ flash.rule # "old"
       /\ hist.reset \in {"factory", "vendor"} =>
            /\ flash.lrw \in {0, 3}
            /\ nvs.counters = 0 /\ nvs.history = 0 /\ nvs.link = 0
       /\ hist.reset = "vendor" => LoadedLatch(nvs.latch) = "done" /\ flash.token = 0)
  <2> SUFFICES ASSUME UnitInv, At("nfc", "reboot"), hist.reset # "none"
               PROVE  /\ flash.rule # "old"
                      /\ hist.reset \in {"factory", "vendor"} =>
                           /\ flash.lrw \in {0, 3}
                           /\ nvs.counters = 0 /\ nvs.history = 0 /\ nvs.link = 0
                      /\ hist.reset = "vendor" => LoadedLatch(nvs.latch) = "done" /\ flash.token = 0
    OBVIOUS
  <2>1. PICK tier \in Tiers, left \in Seq(Words) : tier = hist.reset /\ left = jobs["nfc"]
    BY DEF UnitInv, UnitTyped, Threads
  <2>2. Rest(PlanOf(tier), left) /\ Wiped(tier, Len(left)) /\ left[1] = "reboot" /\ latch = LoadedLatch(nvs.latch)
    BY <2>1 DEF UnitInv, ResetIsThere, At
  <2>3. /\ Len(PlanOf(tier)) = LengthOf(tier) /\ Len(left) \in 1..(LengthOf(tier) - 1)
        /\ HeadOf(tier, "reboot", Len(left))
    BY <2>2, HeadTells
  <2>4. Len(left) = 1
    <3>1. CASE tier = "device"
      BY <2>3, <3>1 DEF LengthOf, HeadOf
    <3>2. CASE tier = "factory"
      BY <2>3, <3>2 DEF LengthOf, HeadOf
    <3>3. CASE tier = "vendor"
      BY <2>3, <3>3 DEF LengthOf, HeadOf
    <3> QED BY <3>1, <3>2, <3>3 DEF Tiers
  <2>5. Wiped(tier, 1) /\ 1 < LengthOf(tier) - 1
    BY <2>2, <2>4 DEF LengthOf
  <2> QED BY <2>1, <2>2, <2>3, <2>5 DEF Wiped, Forgot
<1> QED BY <1>1, UnitInvariant, PTL DEF ResetForgets

\* While a frame is served no action of its thread is staged.
OneAction == nfc.pc = "idle" \/ action = "none"

LEMMA OneActionStarts == CmdInit => OneAction
BY DEF CmdInit, OffState, OneAction

LEMMA OneActionStep == OneAction /\ [CmdNext]_cmdVars => OneAction'
<1> SUFFICES ASSUME OneAction, [CmdNext]_cmdVars PROVE OneAction'
  OBVIOUS
<1>1. ASSUME PowersOff PROVE OneAction'
  BY <1>1 DEF PowersOff, OneAction
<1>2. ASSUME UNCHANGED <<nfc, action>> PROVE OneAction'
  BY <1>2 DEF OneAction
<1>3. CASE \/ UNCHANGED cmdVars \/ Boot \/ DownlinkEnds \/ PostCmd
           \/ (\E n \in DOMAIN phone : Reject(n)) \/ \E cmd \in Downlinks : Downlink(cmd)
  BY <1>2, <1>3 DEF cmdVars, unitVars, Boot, DownlinkEnds, PostCmd, Reject, Downlink
<1>4. CASE PowerFails
  BY <1>1, <1>4 DEF PowerFails
<1>5. CASE \E n \in DOMAIN phone : Receive(n)
  <2>1. action = "none" /\ action' = action
    BY <1>5 DEF Receive, Serving
  <2> QED BY <2>1 DEF OneAction
<1>6. CASE PersistNonce \/ Handle \/ HandleEnds
  <2>1. nfc.pc \in {"persist", "handle", "batch"} /\ action' = action
    BY <1>6 DEF PersistNonce, Handle, HandleEnds, AtMb
  <2> QED BY <2>1 DEF OneAction
<1>7. CASE Reply
  BY <1>7 DEF Reply, Idle, OneAction
<1>8. CASE RunDeferred
  BY <1>8 DEF RunDeferred, OneAction
<1>9. CASE \E t \in Threads :
             Save(t) \/ Reboot(t) \/ \E tier \in {"device", "factory", "vendor"} : ResetTier(t, tier)
  BY <1>1, <1>2, <1>9 DEF Save, Reboot, ResetTier
<1>10. CASE \E t \in Threads :
             \/ ClearRules(t) \/ SetKey(t) \/ SaveKey(t) \/ Calibrate(t) \/ ZeroCounters(t)
             \/ SaveCounters(t) \/ ClearHistory(t) \/ ResetLink(t) \/ SetLatch(t) \/ Rejoin(t)
  BY <1>2, <1>10 DEF OneStep, ClearRules, SetKey, SaveKey, Calibrate, ZeroCounters, SaveCounters,
                     ClearHistory, ResetLink, SetLatch, Rejoin
<1> QED BY <1>3, <1>4, <1>5, <1>6, <1>7, <1>8, <1>9, <1>10 DEF CmdNext

LEMMA OneActionInvariant == CmdSpec => []OneAction
<1> QED BY OneActionStarts, OneActionStep, PTL DEF CmdSpec

\* A staged action of the phone's changes only when its thread takes it up.
LEMMA StagedActionRuns ==
  ASSUME UnitInv, OneAction, CmdNext, up, up', action # "none", action' # action
  PROVE  action' = "none" /\ jobs'["nfc"] = Plan(action)
<1>1. ASSUME PowersOff PROVE FALSE
  BY <1>1 DEF PowersOff
<1>2. nfc.pc = "idle"
  BY DEF OneAction
<1>3. ~(Boot \/ PowerFails \/ DownlinkEnds \/ PostCmd \/ \E cmd \in Downlinks : Downlink(cmd))
  BY <1>1 DEF Boot, PowerFails, DownlinkEnds, PostCmd, Downlink
<1>4. ~\E n \in DOMAIN phone : Receive(n) \/ Reject(n)
  BY DEF Receive, Reject, cmdVars, unitVars
<1>5. ~(PersistNonce \/ Handle \/ HandleEnds \/ Reply)
  BY <1>2 DEF PersistNonce, Handle, HandleEnds, Reply, AtMb
<1>6. ~\E t \in Threads :
         Save(t) \/ Reboot(t) \/ \E tier \in {"device", "factory", "vendor"} : ResetTier(t, tier)
  BY <1>1 DEF Save, Reboot, ResetTier
<1>7. ~\E t \in Threads :
         \/ ClearRules(t) \/ SetKey(t) \/ SaveKey(t) \/ Calibrate(t) \/ ZeroCounters(t)
         \/ SaveCounters(t) \/ ClearHistory(t) \/ ResetLink(t) \/ SetLatch(t) \/ Rejoin(t)
  BY DEF OneStep, ClearRules, SetKey, SaveKey, Calibrate, ZeroCounters, SaveCounters,
         ClearHistory, ResetLink, SetLatch, Rejoin
<1>8. RunDeferred
  BY <1>3, <1>4, <1>5, <1>6, <1>7 DEF CmdNext
<1>9. "nfc" \in DOMAIN jobs
  BY DEF UnitInv, UnitTyped, Threads
<1> QED BY <1>8, <1>9 DEF RunDeferred

\* Of the radio's actions that pend together post_cmd_run() loses none: each is in the plan it
\* makes, a save before its reboot and the counters before any; and the phone's is run by its
\* thread before another could take its place.
THEOREM NoActionIsLost == CmdSpec => BatchKeepsAll
<1>1. UnitInv /\ [CmdNext]_cmdVars =>
        [up' /\ post.pending # {} /\ post'.pending = {} =>
           \A act \in post.pending : Serves(jobs'["radio"], act)]_cmdVars
  <2> SUFFICES ASSUME UnitInv, CmdNext, up', post.pending # {}, post'.pending = {}
               PROVE  \A act \in post.pending : Serves(jobs'["radio"], act)
    OBVIOUS
  <2>1. PostCmd
    <3>1. ASSUME PowersOff PROVE FALSE
      BY <3>1 DEF PowersOff
    <3>2. ASSUME NEW act, post' = Merged(act) PROVE FALSE
      BY <3>2 DEF Merged
    <3>3. post' # post
      OBVIOUS
    <3>4. ~\E t \in Threads : Save(t) \/ Reboot(t)
      BY <3>1, <3>3 DEF Save, Reboot
    <3>5. ~(PowerFails \/ DownlinkEnds \/ \E cmd \in Downlinks : Downlink(cmd))
      BY <3>1, <3>2, <3>3 DEF PowerFails, DownlinkEnds, Downlink
    <3>6. ~\E t \in Threads : \E tier \in {"device", "factory", "vendor"} : ResetTier(t, tier)
      BY <3>3 DEF ResetTier
    <3>7. ~\E t \in Threads :
             \/ ClearRules(t) \/ SetKey(t) \/ SaveKey(t) \/ Calibrate(t) \/ ZeroCounters(t)
             \/ SaveCounters(t) \/ ClearHistory(t) \/ ResetLink(t) \/ SetLatch(t) \/ Rejoin(t)
      BY <3>3 DEF OneStep, ClearRules, SetKey, SaveKey, Calibrate, ZeroCounters, SaveCounters,
                  ClearHistory, ResetLink, SetLatch, Rejoin
    <3>8. ~(Boot \/ PersistNonce \/ Handle \/ HandleEnds \/ Reply \/ RunDeferred)
      BY <3>3 DEF Boot, PersistNonce, Handle, HandleEnds, Reply, RunDeferred
    <3>9. ~\E n \in DOMAIN phone : Receive(n) \/ Reject(n)
      BY <3>3 DEF Receive, Reject, cmdVars, unitVars
    <3> QED BY <3>4, <3>5, <3>6, <3>7, <3>8, <3>9 DEF CmdNext
  <2>2. jobs' = [jobs EXCEPT !["radio"] = PostPlan(post.pending)]
    BY <2>1 DEF PostCmd, UnitInv, WaitIsCounted
  <2>3. jobs'["radio"] = PostPlan(post.pending)
    BY <2>2 DEF UnitInv, UnitTyped, Threads
  <2>4. post.pending \subseteq RadioActions
    BY DEF UnitInv, WaitIsCounted
  <2> QED BY <2>3, <2>4, PostPlanServes
<1>2. UnitInv /\ OneAction /\ [CmdNext]_cmdVars =>
        [up /\ up' /\ action # "none" /\ action' # action =>
           action' = "none" /\ jobs'["nfc"] = Plan(action)]_cmdVars
  BY StagedActionRuns
<1>3. UnitInv /\ OneAction /\ [CmdNext]_cmdVars =>
        [/\ up' /\ post.pending # {} /\ post'.pending = {} =>
              \A act \in post.pending : Serves(jobs'["radio"], act)
         /\ up /\ up' /\ action # "none" /\ action' # action =>
              action' = "none" /\ jobs'["nfc"] = Plan(action)]_cmdVars
  BY <1>1, <1>2
<1> QED BY <1>3, UnitInvariant, OneActionInvariant, PTL DEF BatchKeepsAll, CmdSpec

-----------------------------------------------------------------------------
(* Counting and recursion                                                    *)

\* A set of numbers has a least element.
LEMMA LeastIsIn ==
  ASSUME NEW S \in SUBSET Nat, S # {}
  PROVE  Min(S) \in S
<1>1. IsWellFoundedOn(OpToRel(<, Nat), Nat)
  BY NatLessThanWellFounded
<1>2. PICK x \in S : \A y \in S : ~(<<y, x>> \in OpToRel(<, Nat))
  BY <1>1, WFMin
<1>3. \A y \in S : x <= y
  <2>1. \A y \in S : ~(y < x)
    BY <1>2 DEF OpToRel
  <2> QED BY <2>1
<1>4. \E m \in S : \A y \in S : m <= y
  BY <1>3
<1> QED BY <1>4, Zenon DEF Min

-----------------------------------------------------------------------------
(* The passes of a rebind, and their recursion                               *)

\* Counting up to n, one step at a time, passes every number below it.
LEMMA CountsUp ==
  ASSUME NEW n \in Nat, NEW Q, 0 \in Q,
         \A i \in 0..n : i \in Q /\ i < n => i + 1 \in Q
  PROVE  \A i \in 0..n : i \in Q
<1> DEFINE Gap == {i \in 0..n : i \notin Q}
<1> SUFFICES ASSUME Gap # {} PROVE FALSE
  OBVIOUS
<1>1. Gap \in SUBSET Nat
  OBVIOUS
<1>2. PICK x \in Gap : \A y \in Gap : x <= y
  <2> HIDE DEF Gap
  <2>1. IsWellFoundedOn(OpToRel(<, Nat), Nat)
    BY NatLessThanWellFounded
  <2>2. PICK x \in Gap : \A y \in Gap : ~(<<y, x>> \in OpToRel(<, Nat))
    BY <1>1, <2>1, WFMin
  <2>3. \A y \in Gap : ~(y < x)
    BY <1>1, <2>2 DEF OpToRel
  <2> QED BY <1>1, <2>3
<1>3. x \in 0..n /\ x # 0
  BY <1>2
<1>4. x - 1 \in 0..n /\ x - 1 \notin Gap
  BY <1>2, <1>3
<1> QED BY <1>2, <1>3, <1>4

SlotRec ==
  [rom : Devices \cup {Empty}, present : BOOLEAN, index : Nat, type : Kinds \cup {""},
   state : {"none", "ok", "absent", "replaced", "mismatch"}, detected : Kinds \cup {""}]
Passed ==
  [rom : [W1Slot -> Devices \cup {Empty}], kind : [W1Slot -> Kinds \cup {""}],
   free : SUBSET Devices, slots : [W1Slot -> SlotRec], alike : [W1Slot -> BOOLEAN]]

Climbs(f, n, r0, F) == f[0] = r0 /\ \A k \in 1..n : f[k] = F[<<f[k - 1], k>>]

\* A recursion that takes one step of F for every number up to n is well defined.
LEMMA Recurs ==
  ASSUME NEW n \in Nat, NEW X, NEW r0 \in X, NEW F,
         \A r \in X, k \in 1..n : F[<<r, k>>] \in X
  PROVE  \E f \in [0..n -> X] : Climbs(f, n, r0, F)
<1> DEFINE Upto(f, m) == f[0] = r0 /\ \A k \in 1..m : f[k] = F[<<f[k - 1], k>>]
           Q == {m \in 0..n : \E f \in [0..m -> X] : Upto(f, m)}
<1>1. 0 \in Q
  <2> DEFINE f == [k \in 0..0 |-> r0]
  <2>1. f \in [0..0 -> X] /\ Upto(f, 0)
    OBVIOUS
  <2>2. \E h \in [0..0 -> X] : Upto(h, 0)
    <3> HIDE DEF f, Upto
    <3> QED BY <2>1
  <2> HIDE DEF Upto
  <2> QED BY <2>2
<1>2. ASSUME NEW m \in 0..n, m \in Q, m < n PROVE m + 1 \in Q
  <2>1. PICK f \in [0..m -> X] : Upto(f, m)
    BY <1>2
  <2> DEFINE g == [k \in 0..(m + 1) |-> IF k = m + 1 THEN F[<<f[m], m + 1>>] ELSE f[k]]
  <2>2. g[m + 1] = F[<<f[m], m + 1>>] /\ \A k \in 0..m : g[k] = f[k]
    OBVIOUS
  <2>3. g \in [0..(m + 1) -> X]
    <3>1. f[m] \in X /\ m + 1 \in 1..n
      BY <1>2, <2>1
    <3>2. F[<<f[m], m + 1>>] \in X
      BY <3>1
    <3> QED BY <2>1, <3>2
  <2>4. ASSUME NEW k \in 1..(m + 1) PROVE g[k] = F[<<g[k - 1], k>>]
    <3> HIDE DEF g
    <3>1. CASE k = m + 1
      BY <2>2, <3>1
    <3>2. CASE k # m + 1
      <4>1. k \in 1..m /\ k \in 0..m /\ k - 1 \in 0..m
        BY <3>2
      <4> QED BY <2>1, <2>2, <4>1
    <3> QED BY <3>1, <3>2
  <2>5. Upto(g, m + 1)
    <3>1. g[0] = r0
      BY <2>1, <2>2
    <3> QED BY <2>4, <3>1
  <2>6. \E h \in [0..(m + 1) -> X] : Upto(h, m + 1)
    <3> HIDE DEF g, Upto
    <3> QED BY <2>3, <2>5
  <2> HIDE DEF Upto
  <2> QED BY <1>2, <2>6
<1>3. n \in Q
  <2> HIDE DEF Q
  <2> QED BY <1>1, <1>2, CountsUp
<1> QED BY <1>3 DEF Climbs

-----------------------------------------------------------------------------
(* The 1-Wire slots: a rebind is three passes over slots and devices;        *)
(* Outcome collects what they leave, and every step of the module either     *)
(* rebinds (Rebinds) or leaves the bindings alone.                           *)

LEMMA EnrolledRecurs ==
  ASSUME NEW r0 \in Passed, NEW S, Cardinality(Devices) \in Nat,
         \A r \in Passed, d \in 1..Cardinality(Devices) : Enrol(r, d, S) \in Passed
  PROVE  \E f : /\ f[0] = r0
                /\ \A d \in 1..Cardinality(Devices) : f[d] = Enrol(f[d - 1], d, S)
                /\ Enrolled(r0, S) = f[Cardinality(Devices)]
<1> DEFINE N == Cardinality(Devices)
           F == [x \in Passed \X (1..N) |-> Enrol(x[1], x[2], S)]
           Body(f) == [d \in 0..N |-> IF d = 0 THEN r0 ELSE Enrol(f[d - 1], d, S)]
<1>1. \A r \in Passed, d \in 1..N : F[<<r, d>>] = Enrol(r, d, S)
  OBVIOUS
<1>2. \A r \in Passed, d \in 1..N : F[<<r, d>>] \in Passed
  BY <1>1
<1>0. N \in Nat
  OBVIOUS
<1> HIDE DEF F, N
<1>3. PICK f \in [0..N -> Passed] : Climbs(f, N, r0, F)
  BY <1>0, <1>2, Recurs, Zenon
<1> USE DEF N
<1>4. ASSUME NEW d \in 0..N PROVE f[d] = IF d = 0 THEN r0 ELSE Enrol(f[d - 1], d, S)
  <2>1. d # 0 => d \in 1..N /\ d - 1 \in 0..N /\ f[d - 1] \in Passed
    OBVIOUS
  <2> QED BY <1>1, <1>3, <2>1 DEF Climbs
<1>5. f = Body(f)
  BY <1>4
<1> DEFINE go == CHOOSE h : h = Body(h)
<1>6. go = Body(go)
  <2> HIDE DEF Body
  <2> QED BY <1>5
<1>7. Enrolled(r0, S) = go[N]
  BY DEF Enrolled
<1> HIDE DEF go
<1>8. go[0] = r0 /\ \A d \in 1..N : go[d] = Enrol(go[d - 1], d, S)
  BY <1>6
<1> QED BY <1>7, <1>8

LEMMA RosterIs ==
  /\ Cardinality(Devices) \in Nat /\ Devices = 1..Cardinality(Devices) /\ Empty \notin Devices
  /\ \A S \in SUBSET Devices : IsFiniteSet(S) /\ Cardinality(S) \in Nat /\ S \subseteq Nat
  /\ \A d \in Devices : TypeOf[d] \in Kinds /\ TypeOf[d] # ""
<1>1. Cardinality(Devices) \in Nat /\ Devices = 1..Cardinality(Devices)
  BY W1Assumption, FS_CardinalityType
<1>2. ASSUME NEW S \in SUBSET Devices PROVE IsFiniteSet(S) /\ Cardinality(S) \in Nat
  BY W1Assumption, FS_Subset, FS_CardinalityType
<1>3. \A d \in Devices : TypeOf[d] \in Kinds /\ TypeOf[d] # ""
  BY W1Assumption DEF Kinds
<1>4. Empty \notin Devices /\ Devices \subseteq Nat
  BY <1>1 DEF Empty
<1> QED BY <1>1, <1>2, <1>3, <1>4

LEMMA BindingIs ==
  ASSUME NEW d \in Devices, NEW S \in SUBSET Devices
  PROVE  Binding(d, S) \in SlotRec
<1>1. IndexIn(S, d) \in Nat
  <2> DEFINE T == {e \in S : TypeOf[e] = TypeOf[d] /\ e <= d}
  <2>1. T \in SUBSET Devices
    OBVIOUS
  <2>2. IndexIn(S, d) = Cardinality(T)
    BY DEF IndexIn
  <2> HIDE DEF T
  <2> QED BY <2>1, <2>2, RosterIs
<1>2. TypeOf[d] \in Kinds
  BY RosterIs
<1> QED BY <1>1, <1>2 DEF Binding, SlotRec

LEMMA LowestEnrols ==
  ASSUME NEW r, NEW d, Enrols(r, d) # {}
  PROVE  /\ Min(Enrols(r, d)) \in W1Slot
         /\ r.rom[Min(Enrols(r, d))] = Empty /\ Suits(r, Min(Enrols(r, d)), d)
<1>1. Enrols(r, d) \in SUBSET Nat
  BY DEF Enrols, W1Slot
<1>2. Min(Enrols(r, d)) \in Enrols(r, d)
  BY <1>1, LeastIsIn
<1> QED BY <1>2 DEF Enrols

LEMMA EnrolIs ==
  ASSUME NEW r \in Passed, NEW d \in Devices, NEW S \in SUBSET Devices
  PROVE  /\ Enrol(r, d, S) \in Passed
         /\ \/ Enrol(r, d, S) = r /\ (d \notin r.free \/ Enrols(r, d) = {})
            \/ /\ d \in r.free
               /\ \E s \in W1Slot :
                    /\ r.rom[s] = Empty /\ Suits(r, s, d)
                    /\ Enrol(r, d, S) =
                         [rom   |-> [r.rom EXCEPT ![s] = d],
                          kind  |-> [r.kind EXCEPT ![s] = TypeOf[d]],
                          free  |-> r.free \ {d},
                          slots |-> [r.slots EXCEPT ![s] = Binding(d, S)],
                          alike |-> r.alike]
<1>1. CASE d \notin r.free \/ Enrols(r, d) = {}
  BY <1>1 DEF Enrol
<1>2. CASE ~(d \notin r.free \/ Enrols(r, d) = {})
  <2> DEFINE s == Min(Enrols(r, d))
             e == [rom   |-> [r.rom EXCEPT ![s] = d],
                   kind  |-> [r.kind EXCEPT ![s] = TypeOf[d]],
                   free  |-> r.free \ {d},
                   slots |-> [r.slots EXCEPT ![s] = Binding(d, S)],
                   alike |-> r.alike]
  <2>1. s \in W1Slot /\ r.rom[s] = Empty /\ Suits(r, s, d)
    BY <1>2, LowestEnrols
  <2>2. Enrol(r, d, S) = e
    BY <1>2, Zenon DEF Enrol
  <2>3. Binding(d, S) \in SlotRec /\ TypeOf[d] \in Kinds
    BY BindingIs, RosterIs
  <2>4. e \in Passed
    <3> HIDE DEF s
    <3> QED BY <2>1, <2>3 DEF Passed
  <2> HIDE DEF s
  <2> QED BY <1>2, <2>1, <2>2, <2>4
<1> QED BY <1>1, <1>2

\* What a slot holds that has ROM d, if the bus answered with F.
SlotOf(d, F, S) == IF d \in F THEN Binding(d, S) ELSE [NoBind EXCEPT !.rom = d]
\* A ROM in one slot only; its type may be missing, but for a device that answers F.
OneEach(rs) == \A s, t \in W1Slot : rs[s] # Empty /\ s # t => rs[t] # rs[s]
Typed(rs, ks) == \A s \in W1Slot : rs[s] # Empty => ks[s] \in {"", TypeOf[rs[s]]}
Full(rs, ks, F) == \A s \in W1Slot : rs[s] \in F => ks[s] = TypeOf[rs[s]]
Ready(rs, ks) ==
  /\ rs \in [W1Slot -> Devices \cup {Empty}] /\ ks \in [W1Slot -> Kinds \cup {""}]
  /\ OneEach(rs) /\ Typed(rs, ks)
\* Every slot shows the device of its ROM, and a device is free that no slot has.
Matched(r, F, S) ==
  /\ r \in Passed
  /\ \A d \in Devices : d \in r.free <=> d \in F /\ \A s \in W1Slot : r.rom[s] # d
  /\ OneEach(r.rom) /\ Typed(r.rom, r.kind) /\ Full(r.rom, r.kind, F)
  /\ \A s \in W1Slot : r.slots[s] = SlotOf(r.rom[s], F, S)

Shows(x, d, F) ==
  /\ x.rom = d /\ x.detected = ""
  /\ x.present <=> d \in F
  /\ d \in F => x.state = "ok"
  /\ d \notin F => x.state = "none"

LEMMA SlotIs ==
  ASSUME NEW d \in Devices \cup {Empty}, NEW S \in SUBSET Devices, NEW F \in SUBSET S
  PROVE  SlotOf(d, F, S) \in SlotRec /\ Shows(SlotOf(d, F, S), d, F)
<1>1. CASE d \in F
  <2>1. d \in Devices
    BY <1>1
  <2> QED BY <1>1, <2>1, BindingIs DEF SlotOf, Binding, Shows
<1>2. CASE d \notin F
  BY <1>2 DEF SlotOf, NoBind, SlotRec, Empty, Shows
<1> QED BY <1>1, <1>2

LEMMA ByRomMatches ==
  ASSUME NEW rs, NEW ks, NEW S \in SUBSET Devices, NEW F \in SUBSET S, Ready(rs, ks)
  PROVE  /\ Matched(ByRom(rs, ks, F, S), F, S)
         /\ ByRom(rs, ks, F, S).rom = rs
         /\ Full(rs, ks, F) => ByRom(rs, ks, F, S).kind = ks
<1> DEFINE r == ByRom(rs, ks, F, S)
<1>1. /\ rs \in [W1Slot -> Devices \cup {Empty}] /\ ks \in [W1Slot -> Kinds \cup {""}]
      /\ OneEach(rs) /\ Typed(rs, ks)
  BY DEF Ready
<1>2. \A s \in W1Slot : Finds(rs, F, s) <=> rs[s] \in F
  <2> SUFFICES ASSUME NEW s \in W1Slot, rs[s] \in F, NEW t \in 1..(s - 1), rs[t] = rs[s]
               PROVE  FALSE
    BY DEF Finds
  <2>1. t \in W1Slot /\ t # s
    <3>1. NumSlots \in Nat /\ s \in 1..NumSlots
      BY W1Assumption DEF W1Slot
    <3> QED BY <3>1 DEF W1Slot
  <2>2. rs[s] # Empty
    BY RosterIs
  <2> QED BY <1>1, <2>1, <2>2 DEF OneEach
<1>3. /\ r.rom = rs
      /\ r.kind = [s \in W1Slot |-> IF Finds(rs, F, s) THEN TypeOf[rs[s]] ELSE ks[s]]
      /\ r.free = {d \in F : \A s \in W1Slot : rs[s] # d}
      /\ r.slots = [s \in W1Slot |-> IF Finds(rs, F, s) THEN Binding(rs[s], S)
                                     ELSE [NoBind EXCEPT !.rom = rs[s]]]
      /\ r.alike = [s \in W1Slot |-> FALSE]
      /\ r = [rom |-> r.rom, kind |-> r.kind, free |-> r.free, slots |-> r.slots,
              alike |-> r.alike]
  BY DEF ByRom
<1> HIDE DEF r
<1>4. \A s \in W1Slot : r.slots[s] = SlotOf(rs[s], F, S)
  BY <1>2, <1>3 DEF SlotOf
<1>5. \A s \in W1Slot : r.kind[s] = IF rs[s] \in F THEN TypeOf[rs[s]] ELSE ks[s]
  BY <1>2, <1>3
<1>6. r.slots \in [W1Slot -> SlotRec]
  <2>1. \A s \in W1Slot : r.slots[s] \in SlotRec
    <3> SUFFICES ASSUME NEW s \in W1Slot PROVE r.slots[s] \in SlotRec
      OBVIOUS
    <3>1. rs[s] \in Devices \cup {Empty}
      BY <1>1
    <3>2. SlotOf(rs[s], F, S) \in SlotRec
      BY <3>1, SlotIs
    <3> QED BY <1>4, <3>2
  <2> QED BY <1>3, <2>1
<1>7. r.kind \in [W1Slot -> Kinds \cup {""}]
  <2>1. \A s \in W1Slot : r.kind[s] \in Kinds \cup {""}
    BY <1>1, <1>5, RosterIs
  <2> QED BY <1>3, <2>1
<1>8. r \in Passed
  <2>1. r.free \in SUBSET Devices /\ r.alike \in [W1Slot -> BOOLEAN]
    BY <1>3
  <2> QED BY <1>1, <1>3, <1>6, <1>7, <2>1 DEF Passed
<1>9. Typed(r.rom, r.kind) /\ Full(r.rom, r.kind, F)
  BY <1>1, <1>3, <1>5 DEF Typed, Full
<1>10. \A d \in Devices : d \in r.free <=> d \in F /\ \A s \in W1Slot : r.rom[s] # d
  BY <1>3
<1>11. ASSUME Full(rs, ks, F) PROVE r.kind = ks
  <2>2. \A s \in W1Slot : r.kind[s] = ks[s]
    BY <1>5, <1>11 DEF Full
  <2>3. r.kind = [s \in W1Slot |-> r.kind[s]] /\ ks = [s \in W1Slot |-> ks[s]]
    BY <1>1, <1>7
  <2>4. [s \in W1Slot |-> r.kind[s]] = [s \in W1Slot |-> ks[s]]
    BY <2>2
  <2> QED BY <2>3, <2>4, Zenon
<1>12. Matched(r, F, S)
  BY <1>1, <1>3, <1>4, <1>8, <1>9, <1>10 DEF Matched
<1> QED BY <1>3, <1>11, <1>12 DEF r

LEMMA AlikeMatches ==
  ASSUME NEW S \in SUBSET Devices, NEW F \in SUBSET S, NEW r, Matched(r, F, S)
  PROVE  /\ Matched(Alike(r), F, S)
         /\ Alike(r).rom = r.rom /\ Alike(r).kind = r.kind /\ Alike(r).free = r.free
<1> DEFINE a == Alike(r)
<1>1. /\ a.rom = r.rom /\ a.kind = r.kind /\ a.free = r.free /\ a.slots = r.slots
      /\ a \in Passed
  <2>1. r \in Passed
    BY DEF Matched
  <2>2. \A s \in W1Slot : (Lacks(r, s) /\ \E d \in r.free : Suits(r, s, d)) \in BOOLEAN
    BY DEF Lacks
  <2> QED BY <2>1, <2>2 DEF Alike, Passed
<1> HIDE DEF a
<1>2. Matched(a, F, S)
  BY <1>1 DEF Matched
<1> QED BY <1>1, <1>2 DEF a

Served(r, d) == d \in r.free => Enrols(r, d) = {}

LEMMA EnrolMatches ==
  ASSUME NEW S \in SUBSET Devices, NEW F \in SUBSET S, NEW r, Matched(r, F, S),
         NEW d \in Devices
  PROVE  /\ Matched(Enrol(r, d, S), F, S)
         /\ \A s \in W1Slot : r.rom[s] # Empty => Enrol(r, d, S).rom[s] = r.rom[s]
         /\ Served(Enrol(r, d, S), d)
         /\ \A c \in Devices : Served(r, c) => Served(Enrol(r, d, S), c)
         /\ Served(r, d) => Enrol(r, d, S) = r
<1> DEFINE e == Enrol(r, d, S)
<1>1. r \in Passed
  BY DEF Matched
<1>2. /\ e \in Passed
      /\ \/ e = r /\ (d \notin r.free \/ Enrols(r, d) = {})
         \/ /\ d \in r.free
            /\ \E s \in W1Slot :
                 /\ r.rom[s] = Empty /\ Suits(r, s, d)
                 /\ e = [rom   |-> [r.rom EXCEPT ![s] = d],
                         kind  |-> [r.kind EXCEPT ![s] = TypeOf[d]],
                         free  |-> r.free \ {d},
                         slots |-> [r.slots EXCEPT ![s] = Binding(d, S)],
                         alike |-> r.alike]
  BY <1>1, EnrolIs
<1> HIDE DEF e
<1>3. CASE e = r /\ (d \notin r.free \/ Enrols(r, d) = {})
  BY <1>3 DEF Served, e
<1>4. ASSUME NEW s \in W1Slot, d \in r.free, r.rom[s] = Empty, Suits(r, s, d),
             e = [rom   |-> [r.rom EXCEPT ![s] = d],
                  kind  |-> [r.kind EXCEPT ![s] = TypeOf[d]],
                  free  |-> r.free \ {d},
                  slots |-> [r.slots EXCEPT ![s] = Binding(d, S)],
                  alike |-> r.alike]
      PROVE  /\ Matched(e, F, S)
             /\ \A t \in W1Slot : r.rom[t] # Empty => e.rom[t] = r.rom[t]
             /\ Served(e, d)
             /\ \A c \in Devices : Served(r, c) => Served(e, c)
             /\ ~Served(r, d)
  <2>1. /\ r.rom \in [W1Slot -> Devices \cup {Empty}] /\ r.kind \in [W1Slot -> Kinds \cup {""}]
        /\ r.slots \in [W1Slot -> SlotRec]
    BY <1>1 DEF Passed
  <2>2. /\ e.free = r.free \ {d}
        /\ e.rom[s] = d /\ e.kind[s] = TypeOf[d] /\ e.slots[s] = Binding(d, S)
        /\ \A t \in W1Slot \ {s} : /\ e.rom[t] = r.rom[t] /\ e.kind[t] = r.kind[t]
                                    /\ e.slots[t] = r.slots[t]
    BY <1>4, <2>1
  <2>3. d \in F /\ d # Empty /\ \A t \in W1Slot : r.rom[t] # d
    BY <1>4, RosterIs DEF Matched
  <2>4. OneEach(e.rom)
    BY <2>2, <2>3 DEF Matched, OneEach
  <2>5. Typed(e.rom, e.kind) /\ Full(e.rom, e.kind, F)
    BY <2>2 DEF Matched, Typed, Full
  <2>6. \A t \in W1Slot : e.slots[t] = SlotOf(e.rom[t], F, S)
    BY <2>2, <2>3 DEF Matched, SlotOf
  <2>7. \A c \in Devices : c \in e.free <=> c \in F /\ \A t \in W1Slot : e.rom[t] # c
    <3>1. \A c \in Devices : c \in r.free <=> c \in F /\ \A t \in W1Slot : r.rom[t] # c
      BY DEF Matched
    <3> SUFFICES ASSUME NEW c \in Devices
                 PROVE  c \in e.free <=> c \in F /\ \A t \in W1Slot : e.rom[t] # c
      OBVIOUS
    <3>2. CASE c = d
      BY <2>2, <3>2
    <3>3. CASE c # d
      <4>1. c \in e.free <=> c \in r.free
        BY <2>2, <3>3
      <4>2. (\A t \in W1Slot : e.rom[t] # c) <=> \A t \in W1Slot : r.rom[t] # c
        <5>1. e.rom[s] # c /\ r.rom[s] # c
          BY <1>4, <2>2, <3>3, RosterIs
        <5> QED BY <2>2, <5>1
      <4> QED BY <3>1, <4>1, <4>2
    <3> QED BY <3>2, <3>3
  <2>8. Matched(e, F, S)
    BY <1>2, <2>4, <2>5, <2>6, <2>7 DEF Matched
  <2>9. \A c \in Devices : Enrols(e, c) \subseteq Enrols(r, c)
    BY <2>2, <2>3 DEF Enrols, Suits
  <2>10. Enrols(r, d) # {}
    BY <1>4 DEF Enrols
  <2> QED BY <1>4, <2>2, <2>8, <2>9, <2>10 DEF Served
<1> QED BY <1>2, <1>3, <1>4 DEF e

LEMMA EnrolledMatches ==
  ASSUME NEW S \in SUBSET Devices, NEW F \in SUBSET S, NEW r, Matched(r, F, S)
  PROVE  /\ Matched(Enrolled(r, S), F, S)
         /\ \A s \in W1Slot : r.rom[s] # Empty => Enrolled(r, S).rom[s] = r.rom[s]
         /\ \A d \in Devices : Served(Enrolled(r, S), d)
         /\ (\A d \in Devices : Served(r, d)) => Enrolled(r, S) = r
<1> DEFINE N == Cardinality(Devices)
<1>1. N \in Nat /\ Devices = 1..N
  BY RosterIs
<1>2. r \in Passed /\ \A p \in Passed, d \in 1..N : Enrol(p, d, S) \in Passed
  BY <1>1, EnrolIs DEF Matched
<1> HIDE DEF N
<1>3. PICK go : /\ go[0] = r
                /\ \A d \in 1..N : go[d] = Enrol(go[d - 1], d, S)
                /\ Enrolled(r, S) = go[N]
  <2>1. r \in Passed /\ Cardinality(Devices) \in Nat
        /\ \A p \in Passed, d \in 1..Cardinality(Devices) : Enrol(p, d, S) \in Passed
    BY <1>1, <1>2 DEF N
  <2> QED BY <2>1, EnrolledRecurs DEF N
<1> DEFINE Good(d) ==
             /\ Matched(go[d], F, S)
             /\ \A s \in W1Slot : r.rom[s] # Empty => go[d].rom[s] = r.rom[s]
             /\ \A c \in 1..d : Served(go[d], c)
             /\ (\A c \in Devices : Served(r, c)) => go[d] = r
           Q == {d \in 0..N : Good(d)}
<1>4. 0 \in Q
  <2>1. Good(0)
    BY <1>3
  <2> QED BY <1>1, <2>1
<1>5. ASSUME NEW d \in 0..N, d \in Q, d < N PROVE d + 1 \in Q
  <2>1. Good(d)
    BY <1>5
  <2>2. d + 1 \in Devices /\ d + 1 \in 1..N /\ (d + 1) - 1 = d /\ d + 1 \in 0..N
    BY <1>1, <1>5
  <2>3. go[d + 1] = Enrol(go[d], d + 1, S)
    BY <1>3, <2>2
  <2>4. /\ Matched(go[d + 1], F, S)
        /\ \A s \in W1Slot : go[d].rom[s] # Empty => go[d + 1].rom[s] = go[d].rom[s]
        /\ Served(go[d + 1], d + 1)
        /\ \A c \in Devices : Served(go[d], c) => Served(go[d + 1], c)
        /\ Served(go[d], d + 1) => go[d + 1] = go[d]
    <3>1. Matched(go[d], F, S)
      BY <2>1
    <3> HIDE DEF Good
    <3> DEFINE p == go[d]
               c == d + 1
    <3>2. Matched(p, F, S) /\ c \in Devices
      BY <2>2, <3>1
    <3> HIDE DEF p, c
    <3>3. /\ Matched(Enrol(p, c, S), F, S)
          /\ \A s \in W1Slot : p.rom[s] # Empty => Enrol(p, c, S).rom[s] = p.rom[s]
          /\ Served(Enrol(p, c, S), c)
          /\ \A b \in Devices : Served(p, b) => Served(Enrol(p, c, S), b)
          /\ Served(p, c) => Enrol(p, c, S) = p
      BY <3>2, EnrolMatches
    <3> QED BY <2>3, <3>3 DEF p, c
  <2>5. \A c \in 1..(d + 1) : Served(go[d + 1], c)
    <3>1. \A c \in 1..(d + 1) : c \in Devices /\ (c = d + 1 \/ c \in 1..d)
      BY <1>1, <1>5
    <3> QED BY <2>1, <2>4, <3>1
  <2>6. Good(d + 1)
    <3>1. \A s \in W1Slot : r.rom[s] # Empty => go[d + 1].rom[s] = r.rom[s]
      BY <2>1, <2>4
    <3>2. (\A c \in Devices : Served(r, c)) => go[d + 1] = r
      BY <2>1, <2>2, <2>4
    <3> QED BY <2>4, <2>5, <3>1, <3>2
  <2> HIDE DEF Good
  <2> QED BY <2>2, <2>6
<1>6. N \in 0..N /\ \A d \in 0..N : d \in Q
  <2> HIDE DEF Q
  <2> QED BY <1>1, <1>4, <1>5, CountsUp
<1>7. Good(N)
  BY <1>6
<1> QED BY <1>1, <1>3, <1>7

-----------------------------------------------------------------------------
(* The last pass: free devices and marks                                     *)

LEMMA ClaimsAre ==
  ASSUME NEW r \in Passed, NEW D \in SUBSET r.free
  PROVE  /\ Claims(r, D) \in SUBSET r.free
         /\ D # {} => Min(D) \in D /\ Claims(r, D) = r.free \ {Min(D)}
<1>1. D \in SUBSET Nat
  BY RosterIs DEF Passed
<1>2. D # {} => Min(D) \in D
  BY <1>1, LeastIsIn
<1> QED BY <1>2 DEF Claims

LEMMA ReplaceIs ==
  ASSUME NEW r \in Passed, NEW s \in W1Slot
  PROVE  /\ Replace(r, s) \in Passed
         /\ Replace(r, s).rom = r.rom /\ Replace(r, s).kind = r.kind
         /\ Replace(r, s).slots = r.slots /\ Replace(r, s).free \subseteq r.free
<1> DEFINE D == IF Lacks(r, s) THEN {d \in r.free : Suits(r, s, d)} ELSE {}
           a == [r.alike EXCEPT ![s] = @ \/ D # {}]
<1>1. Claims(r, D) \in SUBSET r.free
  <2>1. D \in SUBSET r.free
    OBVIOUS
  <2> HIDE DEF D
  <2> QED BY <2>1, ClaimsAre
<1>2. a \in [W1Slot -> BOOLEAN]
  <2> HIDE DEF D
  <2>1. r.alike \in [W1Slot -> BOOLEAN]
    BY DEF Passed
  <2>2. (r.alike[s] \/ D # {}) \in BOOLEAN
    BY <2>1
  <2> QED BY <2>1, <2>2
<1> DEFINE p == Replace(r, s)
<1>3. p = [r EXCEPT !.free = Claims(r, D), !.alike = a]
  BY DEF Replace
<1> HIDE DEF D, a, p
<1>4. /\ p \in Passed /\ p.rom = r.rom /\ p.kind = r.kind /\ p.slots = r.slots
      /\ p.free = Claims(r, D)
  BY <1>1, <1>2, <1>3 DEF Passed
<1>5. p.free \subseteq r.free
  BY <1>1, <1>4
<1> QED BY <1>4, <1>5 DEF p

LEMMA JudgeIs ==
  ASSUME NEW r \in Passed, NEW s \in W1Slot
  PROVE  /\ Judge(r, s) \in Passed
         /\ Judge(r, s).rom = r.rom /\ Judge(r, s).kind = r.kind
         /\ \A t \in W1Slot \ {s} : Judge(r, s).slots[t] = r.slots[t]
         /\ \/ Judge(r, s) = r
            \/ /\ Judge(r, s).free \subseteq r.free /\ Judge(r, s).slots[s].state # "mismatch"
               /\ ~r.slots[s].present
            \/ \E d \in r.free : /\ Judge(r, s).free = r.free \ {d}
                                 /\ Judge(r, s).slots[s].detected = TypeOf[d]
                                 /\ TypeOf[d] # r.kind[s] /\ ~r.slots[s].present
         /\ Judge(r, s).slots[s].rom = r.slots[s].rom
         /\ Judge(r, s).slots[s].present = r.slots[s].present
         /\ Judge(r, s).slots[s].index = r.slots[s].index
         /\ Judge(r, s).slots[s].state = "ok" => r.slots[s].state = "ok"
<1> DEFINE D == IF r.alike[s] \/ r.kind[s] = "" THEN {}
                ELSE {d \in r.free : TypeOf[d] # r.kind[s]}
           v == SlotVerdict(r, s, D)
           j == Judge(r, s)
<1>1. CASE r.slots[s].present \/ (r.rom[s] = Empty /\ r.kind[s] = "")
  BY <1>1 DEF Judge
<1>2. CASE ~(r.slots[s].present \/ (r.rom[s] = Empty /\ r.kind[s] = ""))
  <2>1. D \in SUBSET r.free /\ \A d \in D : TypeOf[d] # r.kind[s]
    OBVIOUS
  <2>2. j = [r EXCEPT !.free = Claims(r, D), !.slots = [r.slots EXCEPT ![s] = v]]
    BY <1>2 DEF Judge
  <2> HIDE DEF D, j
  <2>3. /\ Claims(r, D) \in SUBSET r.free
        /\ D # {} => Min(D) \in D /\ Claims(r, D) = r.free \ {Min(D)}
    BY <2>1, ClaimsAre
  <2>4. r.slots \in [W1Slot -> SlotRec] /\ r.slots[s] \in SlotRec
    BY DEF Passed
  <2>5. D # {} => TypeOf[Min(D)] \in Kinds
    BY <2>1, <2>3, RosterIs DEF Passed
  <2>6. /\ v \in SlotRec
        /\ v.rom = r.slots[s].rom /\ v.present = r.slots[s].present /\ v.index = r.slots[s].index
        /\ v.state # "ok"
        /\ D = {} => v.state # "mismatch"
        /\ D # {} => v.detected = TypeOf[Min(D)]
    BY <2>4, <2>5 DEF SlotVerdict, SlotRec
  <2> HIDE DEF v
  <2>7. /\ j \in Passed /\ j.rom = r.rom /\ j.kind = r.kind /\ j.free = Claims(r, D)
        /\ j.slots[s] = v /\ \A t \in W1Slot \ {s} : j.slots[t] = r.slots[t]
    BY <2>2, <2>3, <2>4, <2>6 DEF Passed
  <2>8. \/ j.free \subseteq r.free /\ j.slots[s].state # "mismatch"
        \/ \E d \in r.free : /\ j.free = r.free \ {d} /\ j.slots[s].detected = TypeOf[d]
                             /\ TypeOf[d] # r.kind[s]
    <3>1. CASE D = {}
      BY <2>3, <2>6, <2>7, <3>1
    <3>2. CASE D # {}
      <4>1. Min(D) \in r.free /\ TypeOf[Min(D)] # r.kind[s]
        BY <2>1, <2>3, <3>2
      <4> QED BY <2>3, <2>6, <2>7, <3>2, <4>1
    <3> QED BY <3>1, <3>2
  <2> QED BY <1>2, <2>6, <2>7, <2>8 DEF j
<1> QED BY <1>1, <1>2

LEMMA ReplacedRecurs ==
  ASSUME NEW r0 \in Passed
  PROVE  \E f : /\ f[0] = r0
                /\ \A s \in 1..NumSlots : f[s] = Replace(f[s - 1], s)
                /\ Replaced(r0) = f[NumSlots]
<1> DEFINE F == [x \in Passed \X (1..NumSlots) |-> Replace(x[1], x[2])]
           Body(f) == [s \in 0..NumSlots |-> IF s = 0 THEN r0 ELSE Replace(f[s - 1], s)]
<1>0. NumSlots \in Nat
  BY W1Assumption
<1>1. \A r \in Passed, s \in 1..NumSlots : F[<<r, s>>] = Replace(r, s)
  OBVIOUS
<1>2. \A r \in Passed, s \in 1..NumSlots : F[<<r, s>>] \in Passed
  BY <1>1, ReplaceIs DEF W1Slot
<1> HIDE DEF F
<1>3. PICK f \in [0..NumSlots -> Passed] : Climbs(f, NumSlots, r0, F)
  BY <1>0, <1>2, Recurs, Zenon
<1>4. ASSUME NEW s \in 0..NumSlots PROVE f[s] = IF s = 0 THEN r0 ELSE Replace(f[s - 1], s)
  <2>1. s # 0 => s \in 1..NumSlots /\ s - 1 \in 0..NumSlots /\ f[s - 1] \in Passed
    BY <1>0
  <2> QED BY <1>1, <1>3, <2>1 DEF Climbs
<1>5. f = Body(f)
  BY <1>4
<1> DEFINE go == CHOOSE h : h = Body(h)
<1>6. go = Body(go)
  <2> HIDE DEF Body
  <2> QED BY <1>5
<1>7. Replaced(r0) = go[NumSlots]
  BY DEF Replaced
<1> HIDE DEF go
<1>8. go[0] = r0 /\ \A s \in 1..NumSlots : go[s] = Replace(go[s - 1], s)
  BY <1>0, <1>6
<1> QED BY <1>7, <1>8

LEMMA JudgedRecurs ==
  ASSUME NEW r0 \in Passed
  PROVE  \E f : /\ f[0] = r0
                /\ \A s \in 1..NumSlots : f[s] = Judge(f[s - 1], s)
                /\ Judged(r0) = f[NumSlots]
<1> DEFINE F == [x \in Passed \X (1..NumSlots) |-> Judge(x[1], x[2])]
           Body(f) == [s \in 0..NumSlots |-> IF s = 0 THEN r0 ELSE Judge(f[s - 1], s)]
<1>0. NumSlots \in Nat
  BY W1Assumption
<1>1. \A r \in Passed, s \in 1..NumSlots : F[<<r, s>>] = Judge(r, s)
  OBVIOUS
<1>2. \A r \in Passed, s \in 1..NumSlots : F[<<r, s>>] \in Passed
  BY <1>1, JudgeIs DEF W1Slot
<1> HIDE DEF F
<1>3. PICK f \in [0..NumSlots -> Passed] : Climbs(f, NumSlots, r0, F)
  BY <1>0, <1>2, Recurs, Zenon
<1>4. ASSUME NEW s \in 0..NumSlots PROVE f[s] = IF s = 0 THEN r0 ELSE Judge(f[s - 1], s)
  <2>1. s # 0 => s \in 1..NumSlots /\ s - 1 \in 0..NumSlots /\ f[s - 1] \in Passed
    BY <1>0
  <2> QED BY <1>1, <1>3, <2>1 DEF Climbs
<1>5. f = Body(f)
  BY <1>4
<1> DEFINE go == CHOOSE h : h = Body(h)
<1>6. go = Body(go)
  <2> HIDE DEF Body
  <2> QED BY <1>5
<1>7. Judged(r0) = go[NumSlots]
  BY DEF Judged
<1> HIDE DEF go
<1>8. go[0] = r0 /\ \A s \in 1..NumSlots : go[s] = Judge(go[s - 1], s)
  BY <1>0, <1>6
<1> QED BY <1>7, <1>8

LEMMA ReplacedIs ==
  ASSUME NEW r \in Passed
  PROVE  /\ Replaced(r) \in Passed
         /\ Replaced(r).rom = r.rom /\ Replaced(r).kind = r.kind
         /\ Replaced(r).slots = r.slots /\ Replaced(r).free \subseteq r.free
<1>1. NumSlots \in Nat
  BY W1Assumption
<1>2. PICK go : /\ go[0] = r
                /\ \A s \in 1..NumSlots : go[s] = Replace(go[s - 1], s)
                /\ Replaced(r) = go[NumSlots]
  BY ReplacedRecurs
<1> DEFINE Good(s) == /\ go[s] \in Passed
                      /\ go[s].rom = r.rom /\ go[s].kind = r.kind
                      /\ go[s].slots = r.slots /\ go[s].free \subseteq r.free
           Q == {s \in 0..NumSlots : Good(s)}
<1>3. 0 \in Q
  BY <1>1, <1>2
<1>4. ASSUME NEW s \in 0..NumSlots, s \in Q, s < NumSlots PROVE s + 1 \in Q
  <2>1. Good(s)
    BY <1>4
  <2>2. s + 1 \in W1Slot /\ s + 1 \in 0..NumSlots /\ go[s + 1] = Replace(go[s], s + 1)
    BY <1>1, <1>2, <1>4 DEF W1Slot
  <2>3. /\ Replace(go[s], s + 1) \in Passed
        /\ Replace(go[s], s + 1).rom = go[s].rom /\ Replace(go[s], s + 1).kind = go[s].kind
        /\ Replace(go[s], s + 1).slots = go[s].slots
        /\ Replace(go[s], s + 1).free \subseteq go[s].free
    BY <2>1, <2>2, ReplaceIs
  <2>4. Good(s + 1)
    BY <2>1, <2>2, <2>3
  <2> HIDE DEF Good
  <2> QED BY <2>2, <2>4
<1>5. NumSlots \in 0..NumSlots /\ \A s \in 0..NumSlots : s \in Q
  <2> HIDE DEF Q
  <2> QED BY <1>1, <1>3, <1>4, CountsUp
<1>6. Good(NumSlots)
  BY <1>5
<1> QED BY <1>2, <1>6

Marked(ss, k) == {s \in W1Slot : ss[s].state = "mismatch" /\ ss[s].detected = k}

LEMMA MarkedIsFinite ==
  \A ss, k : IsFiniteSet(Marked(ss, k)) /\ Cardinality(Marked(ss, k)) \in Nat
<1> SUFFICES ASSUME NEW ss, NEW k
             PROVE  IsFiniteSet(Marked(ss, k)) /\ Cardinality(Marked(ss, k)) \in Nat
  OBVIOUS
<1>1. IsFiniteSet(1..NumSlots)
  <2>1. 1 \in Int /\ NumSlots \in Int
    <3>1. NumSlots \in Nat
      BY W1Assumption
    <3> QED BY <3>1
  <2> QED BY <2>1, FS_Interval
<1>2. Marked(ss, k) \subseteq 1..NumSlots
  BY DEF Marked, W1Slot
<1> QED BY <1>1, <1>2, FS_Subset, FS_CardinalityType

\* A mark costs a free device of the type it shows.
LEMMA JudgeCounts ==
  ASSUME NEW r \in Passed, NEW s \in W1Slot, r.slots[s].state # "mismatch", NEW k
  PROVE  Cardinality(Marked(Judge(r, s).slots, k)) + Cardinality(OfType(Judge(r, s).free, k))
           <= Cardinality(Marked(r.slots, k)) + Cardinality(OfType(r.free, k))
<1> DEFINE j == Judge(r, s)
           M == Marked(r.slots, k)
           MM == Marked(j.slots, k)
           A == OfType(r.free, k)
           AA == OfType(j.free, k)
<1>1. /\ j \in Passed /\ r.free \in SUBSET Devices
      /\ \A t \in W1Slot \ {s} : j.slots[t] = r.slots[t]
      /\ \/ j = r
         \/ j.free \subseteq r.free /\ j.slots[s].state # "mismatch"
         \/ \E d \in r.free : /\ j.free = r.free \ {d} /\ j.slots[s].detected = TypeOf[d]
                              /\ TypeOf[d] # r.kind[s]
  <2>1. r.free \in SUBSET Devices
    BY DEF Passed
  <2> QED BY <2>1, JudgeIs
<1> HIDE DEF j
<1>2. /\ IsFiniteSet(M) /\ Cardinality(M) \in Nat /\ Cardinality(MM) \in Nat
      /\ s \notin M /\ MM \subseteq M \cup {s}
  <2>1. s \notin M /\ MM \subseteq M \cup {s}
    BY <1>1 DEF Marked
  <2> QED BY <2>1, MarkedIsFinite
<1>3. j.free \in SUBSET Devices
  BY <1>1 DEF Passed
<1>4. IsFiniteSet(A) /\ Cardinality(A) \in Nat /\ Cardinality(AA) \in Nat
  <2>1. A \in SUBSET Devices /\ AA \in SUBSET Devices
    BY <1>1, <1>3 DEF OfType
  <2> QED BY <2>1, RosterIs
<1>5. CASE j = r
  BY <1>2, <1>4, <1>5 DEF j
<1>6. CASE j.free \subseteq r.free /\ j.slots[s].state # "mismatch"
  <2>1. MM \subseteq M /\ AA \subseteq A
    BY <1>2, <1>6 DEF Marked, OfType
  <2>2. Cardinality(MM) <= Cardinality(M) /\ Cardinality(AA) <= Cardinality(A)
    BY <1>2, <1>4, <2>1, FS_Subset
  <2> QED BY <1>2, <1>4, <2>2 DEF j
<1>7. ASSUME NEW d \in r.free, j.free = r.free \ {d}, j.slots[s].detected = TypeOf[d]
      PROVE  Cardinality(MM) + Cardinality(AA) <= Cardinality(M) + Cardinality(A)
  <2>1. CASE TypeOf[d] = k
    <3>1. AA = A \ {d} /\ d \in A
      BY <1>7, <2>1 DEF OfType
    <3>2. Cardinality(AA) = Cardinality(A) - 1
      BY <1>4, <3>1, FS_RemoveElement
    <3>3. IsFiniteSet(M \cup {s}) /\ Cardinality(M \cup {s}) = Cardinality(M) + 1
      BY <1>2, FS_AddElement
    <3>4. Cardinality(MM) <= Cardinality(M) + 1
      BY <1>2, <3>3, FS_Subset
    <3> QED BY <1>2, <1>4, <3>2, <3>4
  <2>2. CASE TypeOf[d] # k
    <3>1. MM \subseteq M /\ AA \subseteq A
      BY <1>2, <1>7, <2>2 DEF Marked, OfType
    <3>2. Cardinality(MM) <= Cardinality(M) /\ Cardinality(AA) <= Cardinality(A)
      BY <1>2, <1>4, <3>1, FS_Subset
    <3> QED BY <1>2, <1>4, <3>2
  <2> QED BY <2>1, <2>2
<1> QED BY <1>1, <1>5, <1>6, <1>7 DEF j

\* A mark shows a type that is not its slot's, and as many marks as there are devices of it.
Foreign(ss, ks, S) ==
  /\ \A s \in W1Slot : ss[s].state = "mismatch" => ss[s].detected \notin {"", ks[s]}
  /\ \A k \in Kinds : Cardinality(Marked(ss, k)) <= Cardinality(OfType(S, k))

LEMMA JudgedIs ==
  ASSUME NEW r \in Passed, \A s \in W1Slot : r.slots[s].state \in {"none", "ok"}
  PROVE  /\ Judged(r) \in Passed
         /\ Judged(r).rom = r.rom /\ Judged(r).kind = r.kind
         /\ \A s \in W1Slot :
              /\ Judged(r).slots[s].rom = r.slots[s].rom
              /\ Judged(r).slots[s].present = r.slots[s].present
              /\ Judged(r).slots[s].index = r.slots[s].index
              /\ Judged(r).slots[s].state = "ok" => r.slots[s].state = "ok"
         /\ Foreign(Judged(r).slots, r.kind, r.free)
<1>1. NumSlots \in Nat
  BY W1Assumption
<1>2. PICK go : /\ go[0] = r
                /\ \A s \in 1..NumSlots : go[s] = Judge(go[s - 1], s)
                /\ Judged(r) = go[NumSlots]
  BY JudgedRecurs
<1> DEFINE Same(p) ==
             /\ p \in Passed /\ p.rom = r.rom /\ p.kind = r.kind /\ p.free \subseteq r.free
             /\ \A s \in W1Slot : /\ p.slots[s].rom = r.slots[s].rom
                                  /\ p.slots[s].present = r.slots[s].present
                                  /\ p.slots[s].index = r.slots[s].index
                                  /\ p.slots[s].state = "ok" => r.slots[s].state = "ok"
           Later(p, n) == \A s \in W1Slot : s > n => p.slots[s] = r.slots[s]
           Alien(p) == \A s \in W1Slot : p.slots[s].state = "mismatch"
                                          => p.slots[s].detected \notin {"", r.kind[s]}
           Paid(p) == \A k \in Kinds :
             Cardinality(Marked(p.slots, k)) + Cardinality(OfType(p.free, k))
               <= Cardinality(OfType(r.free, k))
           Good(n) == Same(go[n]) /\ Later(go[n], n) /\ Alien(go[n]) /\ Paid(go[n])
           Q == {n \in 0..NumSlots : Good(n)}
<1>3. 0 \in Q
  <2>1. \A k : Cardinality(Marked(r.slots, k)) = 0
    <3>1. \A k : Marked(r.slots, k) = {}
      BY DEF Marked
    <3> QED BY <3>1, FS_EmptySet
  <2>2. \A k : Cardinality(OfType(r.free, k)) \in Nat
    <3>1. \A k : OfType(r.free, k) \in SUBSET Devices
      BY DEF OfType, Passed
    <3> QED BY <3>1, RosterIs
  <2>3. Paid(r)
    BY <2>1, <2>2
  <2>4. Same(r) /\ Later(r, 0) /\ Alien(r)
    OBVIOUS
  <2> HIDE DEF Same, Later, Alien, Paid
  <2> QED BY <1>1, <1>2, <2>3, <2>4
<1>4. ASSUME NEW n \in 0..NumSlots, n \in Q, n < NumSlots PROVE n + 1 \in Q
  <2> DEFINE s == n + 1
             p == go[n]
             j == Judge(p, s)
  <2>1. Same(p) /\ Later(p, n) /\ Alien(p) /\ Paid(p)
    <3> HIDE DEF Same, Later, Alien, Paid
    <3> QED BY <1>4
  <2>2. s \in W1Slot /\ s \in 0..NumSlots /\ s > n /\ go[s] = j
    <3>1. s \in 1..NumSlots /\ s - 1 = n
      <4>1. n \in 0..NumSlots /\ n < NumSlots
        BY <1>4
      <4> QED BY <1>1, <4>1
    <3>2. go[s] = Judge(go[s - 1], s)
      BY <1>2, <3>1
    <3> QED BY <1>1, <3>1, <3>2 DEF W1Slot
  <2> HIDE DEF s, p, Same, Later, Alien, Paid
  <2>3. /\ p \in Passed /\ p.slots[s].state # "mismatch"
        /\ p.kind = r.kind /\ p.free \in SUBSET Devices
    BY <2>1, <2>2 DEF Same, Later, Passed
  <2>4. /\ j \in Passed
        /\ j.rom = p.rom /\ j.kind = p.kind
        /\ \A t \in W1Slot \ {s} : j.slots[t] = p.slots[t]
        /\ \/ j = p
           \/ /\ j.free \subseteq p.free /\ j.slots[s].state # "mismatch"
              /\ ~p.slots[s].present
           \/ \E d \in p.free : /\ j.free = p.free \ {d}
                                /\ j.slots[s].detected = TypeOf[d]
                                /\ TypeOf[d] # p.kind[s] /\ ~p.slots[s].present
        /\ j.slots[s].rom = p.slots[s].rom
        /\ j.slots[s].present = p.slots[s].present
        /\ j.slots[s].index = p.slots[s].index
        /\ j.slots[s].state = "ok" => p.slots[s].state = "ok"
    BY <2>2, <2>3, JudgeIs
  <2>5. \A k : Cardinality(Marked(j.slots, k)) + Cardinality(OfType(j.free, k))
                 <= Cardinality(Marked(p.slots, k)) + Cardinality(OfType(p.free, k))
    BY <2>2, <2>3, JudgeCounts
  <2> HIDE DEF j
  <2>6. Same(j)
    <3>1. j.free \subseteq p.free
      BY <2>4
    <3> QED BY <2>1, <2>4, <3>1 DEF Same
  <2>7. Later(j, s)
    <3> SUFFICES ASSUME NEW t \in W1Slot, t > s PROVE j.slots[t] = r.slots[t]
      BY DEF Later
    <3>1. t > n /\ t # s
      BY <1>1, <1>4, <2>2 DEF s, W1Slot
    <3> QED BY <2>1, <2>4, <3>1 DEF Later
  <2>8. Alien(j)
    <3>1. \A d \in p.free : TypeOf[d] # ""
      BY <2>3, RosterIs
    <3> QED BY <2>1, <2>3, <2>4, <3>1 DEF Alien
  <2>9. Paid(j)
    <3> SUFFICES ASSUME NEW k \in Kinds
                 PROVE  Cardinality(Marked(j.slots, k)) + Cardinality(OfType(j.free, k))
                          <= Cardinality(OfType(r.free, k))
      BY DEF Paid
    <3>1. /\ Cardinality(OfType(j.free, k)) \in Nat /\ Cardinality(OfType(p.free, k)) \in Nat
          /\ Cardinality(OfType(r.free, k)) \in Nat
      <4>1. /\ OfType(j.free, k) \in SUBSET Devices /\ OfType(p.free, k) \in SUBSET Devices
            /\ OfType(r.free, k) \in SUBSET Devices
        BY <2>3, <2>4 DEF OfType, Passed
      <4> QED BY <4>1, RosterIs
    <3>2. Cardinality(Marked(j.slots, k)) \in Nat /\ Cardinality(Marked(p.slots, k)) \in Nat
      BY MarkedIsFinite
    <3>3. Cardinality(Marked(p.slots, k)) + Cardinality(OfType(p.free, k))
            <= Cardinality(OfType(r.free, k))
      BY <2>1 DEF Paid
    <3>4. Cardinality(Marked(j.slots, k)) + Cardinality(OfType(j.free, k))
            <= Cardinality(Marked(p.slots, k)) + Cardinality(OfType(p.free, k))
      BY <2>5
    <3> QED BY <3>1, <3>2, <3>3, <3>4
  <2>10. Good(s)
    BY <2>2, <2>6, <2>7, <2>8, <2>9
  <2> HIDE DEF Good
  <2> QED BY <2>2, <2>10 DEF s
<1>5. NumSlots \in 0..NumSlots /\ \A n \in 0..NumSlots : n \in Q
  <2> HIDE DEF Q
  <2> QED BY <1>1, <1>3, <1>4, CountsUp
<1>6. Same(go[NumSlots]) /\ Alien(go[NumSlots]) /\ Paid(go[NumSlots])
  <2> HIDE DEF Same, Later, Alien, Paid
  <2> QED BY <1>5
<1> DEFINE p == go[NumSlots]
<1>7. \A k \in Kinds : Cardinality(Marked(p.slots, k)) <= Cardinality(OfType(r.free, k))
  <2> SUFFICES ASSUME NEW k \in Kinds
               PROVE  Cardinality(Marked(p.slots, k)) <= Cardinality(OfType(r.free, k))
    OBVIOUS
  <2>1. p.free \in SUBSET Devices /\ r.free \in SUBSET Devices
    BY <1>6 DEF Passed
  <2>2. Cardinality(OfType(p.free, k)) \in Nat /\ Cardinality(OfType(r.free, k)) \in Nat
    <3>1. OfType(p.free, k) \in SUBSET Devices /\ OfType(r.free, k) \in SUBSET Devices
      BY <2>1 DEF OfType
    <3> QED BY <3>1, RosterIs
  <2>3. Cardinality(Marked(p.slots, k)) \in Nat
    BY MarkedIsFinite
  <2>4. Cardinality(Marked(p.slots, k)) + Cardinality(OfType(p.free, k))
          <= Cardinality(OfType(r.free, k))
    BY <1>6
  <2> QED BY <2>2, <2>3, <2>4
<1>8. Foreign(p.slots, r.kind, r.free)
  <2> HIDE DEF p
  <2>1. Alien(p)
    BY <1>6 DEF p
  <2> QED BY <1>7, <2>1 DEF Foreign
<1> QED BY <1>2, <1>6, <1>8

\* No device that answered without a slot fits one without a ROM.
AtRest(rs, ks, F) ==
  \A d \in F, s \in W1Slot :
    (\A t \in W1Slot : rs[t] # d) /\ rs[s] = Empty => ks[s] \notin {"", TypeOf[d]}

LEMMA RestIsServed ==
  ASSUME NEW S \in SUBSET Devices, NEW F \in SUBSET S, NEW r, Matched(r, F, S)
  PROVE  AtRest(r.rom, r.kind, F) <=> \A d \in Devices : Served(r, d)
<1>1. \A d \in Devices : d \in r.free <=> d \in F /\ \A s \in W1Slot : r.rom[s] # d
  BY DEF Matched
<1>2. \A d \in Devices : Enrols(r, d) = {}
        <=> \A s \in W1Slot : r.rom[s] = Empty => r.kind[s] \notin {"", TypeOf[d]}
  BY DEF Enrols, Suits
<1>3. ASSUME AtRest(r.rom, r.kind, F), NEW d \in Devices PROVE Served(r, d)
  BY <1>1, <1>2, <1>3 DEF AtRest, Served
<1>4. ASSUME \A d \in Devices : Served(r, d) PROVE AtRest(r.rom, r.kind, F)
  <2> SUFFICES ASSUME NEW d \in F, NEW s \in W1Slot, \A t \in W1Slot : r.rom[t] # d,
                      r.rom[s] = Empty
               PROVE  r.kind[s] \notin {"", TypeOf[d]}
    BY DEF AtRest
  <2>1. d \in Devices
    OBVIOUS
  <2> QED BY <1>1, <1>2, <1>4, <2>1 DEF Served
<1> QED BY <1>3, <1>4

\* What a rebind of ROMs rs and types ks leaves, when the bus answers with F of S.
Outcome(rs, ks, F, S, r) ==
  /\ r \in Passed /\ OneEach(r.rom) /\ Typed(r.rom, r.kind) /\ Full(r.rom, r.kind, F)
  /\ \A s \in W1Slot : rs[s] # Empty => r.rom[s] = rs[s]
  /\ \A s \in W1Slot : /\ r.slots[s].rom = r.rom[s]
                       /\ r.slots[s].present <=> r.rom[s] \in F
                       /\ r.slots[s].index = SlotOf(r.rom[s], F, S).index
                       /\ r.slots[s].state = "ok" => r.rom[s] \in F
  /\ Foreign(r.slots, r.kind, S)
  /\ AtRest(r.rom, r.kind, F)
  /\ Full(rs, ks, F) /\ AtRest(rs, ks, F) => r.rom = rs /\ r.kind = ks

LEMMA RebindIs ==
  ASSUME NEW rs, NEW ks, NEW S \in SUBSET Devices, NEW F \in SUBSET S, Ready(rs, ks)
  PROVE  Outcome(rs, ks, F, S, Rebind(rs, ks, F, S))
<1> DEFINE b == ByRom(rs, ks, F, S)
           a == Alike(b)
           e == Enrolled(a, S)
           p == Replaced(e)
           r == Rebind(rs, ks, F, S)
<1>1. r = Judged(p)
  BY DEF Rebind
<1>2. Matched(b, F, S) /\ b.rom = rs /\ (Full(rs, ks, F) => b.kind = ks)
  BY ByRomMatches
<1> HIDE DEF b, r
<1>3. Matched(a, F, S) /\ a.rom = rs /\ a.kind = b.kind
  BY <1>2, AlikeMatches
<1> HIDE DEF a
<1>4. /\ Matched(e, F, S)
      /\ \A s \in W1Slot : rs[s] # Empty => e.rom[s] = rs[s]
      /\ \A d \in Devices : Served(e, d)
      /\ (\A d \in Devices : Served(a, d)) => e = a
  BY <1>3, EnrolledMatches
<1> HIDE DEF e
<1>5. e \in Passed
  BY <1>4 DEF Matched
<1>6. /\ p \in Passed /\ p.rom = e.rom /\ p.kind = e.kind
      /\ p.slots = e.slots /\ p.free \subseteq e.free
  BY <1>5, ReplacedIs
<1> HIDE DEF p
<1>7. \A s \in W1Slot : /\ e.slots[s] = SlotOf(e.rom[s], F, S)
                        /\ e.slots[s].rom = e.rom[s]
                        /\ e.slots[s].present <=> e.rom[s] \in F
                        /\ e.slots[s].state \in {"none", "ok"}
                        /\ e.slots[s].state = "ok" => e.rom[s] \in F
  <2> SUFFICES ASSUME NEW s \in W1Slot
               PROVE  /\ e.slots[s] = SlotOf(e.rom[s], F, S)
                      /\ e.slots[s].rom = e.rom[s]
                      /\ e.slots[s].present <=> e.rom[s] \in F
                      /\ e.slots[s].state \in {"none", "ok"}
                      /\ e.slots[s].state = "ok" => e.rom[s] \in F
    OBVIOUS
  <2>1. e.rom[s] \in Devices \cup {Empty}
    BY <1>5 DEF Passed
  <2>2. e.slots[s] = SlotOf(e.rom[s], F, S)
    BY <1>4 DEF Matched
  <2> DEFINE d == e.rom[s]
  <2>3. Shows(SlotOf(d, F, S), d, F)
    <3> HIDE DEF d
    <3>1. d \in Devices \cup {Empty}
      BY <2>1 DEF d
    <3> QED BY <3>1, SlotIs
  <2> QED BY <2>2, <2>3 DEF Shows
<1>8. /\ r \in Passed /\ r.rom = p.rom /\ r.kind = p.kind
      /\ \A s \in W1Slot :
           /\ r.slots[s].rom = p.slots[s].rom
           /\ r.slots[s].present = p.slots[s].present
           /\ r.slots[s].index = p.slots[s].index
           /\ r.slots[s].state = "ok" => p.slots[s].state = "ok"
      /\ Foreign(r.slots, p.kind, p.free)
  <2>1. \A s \in W1Slot : p.slots[s].state \in {"none", "ok"}
    BY <1>6, <1>7
  <2> QED BY <1>1, <1>6, <2>1, JudgedIs
<1>9. /\ r \in Passed /\ OneEach(r.rom) /\ Typed(r.rom, r.kind) /\ Full(r.rom, r.kind, F)
      /\ \A s \in W1Slot : rs[s] # Empty => r.rom[s] = rs[s]
  BY <1>4, <1>6, <1>8 DEF Matched
<1>10. \A s \in W1Slot : /\ r.slots[s].rom = r.rom[s]
                         /\ r.slots[s].present <=> r.rom[s] \in F
                         /\ r.slots[s].index = SlotOf(r.rom[s], F, S).index
                         /\ r.slots[s].state = "ok" => r.rom[s] \in F
  BY <1>6, <1>7, <1>8
<1>11. Foreign(r.slots, r.kind, S)
  <2> SUFFICES ASSUME NEW k \in Kinds
               PROVE  Cardinality(Marked(r.slots, k)) <= Cardinality(OfType(S, k))
    BY <1>6, <1>8 DEF Foreign
  <2>1. p.free \subseteq S
    BY <1>4, <1>5, <1>6 DEF Matched, Passed
  <2>2. OfType(p.free, k) \subseteq OfType(S, k) /\ OfType(S, k) \in SUBSET Devices
        /\ OfType(p.free, k) \in SUBSET Devices
    BY <2>1 DEF OfType
  <2>3. /\ Cardinality(OfType(p.free, k)) <= Cardinality(OfType(S, k))
        /\ Cardinality(OfType(p.free, k)) \in Nat /\ Cardinality(OfType(S, k)) \in Nat
    BY <2>2, RosterIs, FS_Subset
  <2>4. Cardinality(Marked(r.slots, k)) <= Cardinality(OfType(p.free, k))
    BY <1>8 DEF Foreign
  <2> QED BY <2>3, <2>4, MarkedIsFinite
<1>12. AtRest(r.rom, r.kind, F)
  <2>1. AtRest(e.rom, e.kind, F)
    BY <1>4, RestIsServed
  <2> QED BY <1>6, <1>8, <2>1
<1>13. ASSUME Full(rs, ks, F), AtRest(rs, ks, F) PROVE r.rom = rs /\ r.kind = ks
  <2>1. a.rom = rs /\ a.kind = ks
    BY <1>2, <1>3, <1>13
  <2>2. \A d \in Devices : Served(a, d)
    BY <1>3, <1>13, <2>1, RestIsServed
  <2> QED BY <1>4, <1>6, <1>8, <2>1, <2>2
<1>14. Outcome(rs, ks, F, S, r)
  BY <1>9, <1>10, <1>11, <1>12, <1>13 DEF Outcome
<1> QED BY <1>14 DEF r

\* Binding again what a rebind left moves no device.
Resettles(rs, ks, F, S) ==
  LET r1 == Rebind(rs, ks, F, S)
      r2 == Rebind(r1.rom, r1.kind, F, S)
  IN /\ r2.rom = r1.rom /\ r2.kind = r1.kind
     /\ \A s \in W1Slot : r2.slots[s].present = r1.slots[s].present
                           /\ r2.slots[s].index = r1.slots[s].index

LEMMA RebindSettles ==
  ASSUME NEW rs, NEW ks, NEW S \in SUBSET Devices, NEW F \in SUBSET S, Ready(rs, ks)
  PROVE  Resettles(rs, ks, F, S)
<1> DEFINE r1 == Rebind(rs, ks, F, S)
           r2 == Rebind(r1.rom, r1.kind, F, S)
<1>0. r1 = Rebind(rs, ks, F, S) /\ r2 = Rebind(r1.rom, r1.kind, F, S)
  OBVIOUS
<1> HIDE DEF r1, r2
<1>1. Outcome(rs, ks, F, S, r1)
  BY <1>0, RebindIs
<1>2. Ready(r1.rom, r1.kind)
  BY <1>1 DEF Outcome, Ready, Passed
<1>3. Outcome(r1.rom, r1.kind, F, S, r2)
  BY <1>0, <1>2, RebindIs
<1>4. r2.rom = r1.rom /\ r2.kind = r1.kind
  BY <1>1, <1>3 DEF Outcome
<1>5. \A s \in W1Slot : r1.slots[s].present \in BOOLEAN /\ r2.slots[s].present \in BOOLEAN
  BY <1>1, <1>3 DEF Outcome, Passed, SlotRec
<1>6. \A s \in W1Slot : r2.slots[s].present = r1.slots[s].present
                         /\ r2.slots[s].index = r1.slots[s].index
  BY <1>1, <1>3, <1>4, <1>5 DEF Outcome
<1> QED BY <1>4, <1>6 DEF r1, r2, Resettles

-----------------------------------------------------------------------------
(* The slots between two steps                                               *)

SlotsOk(rs, ks, ss, S) ==
  /\ rs \in [W1Slot -> Devices \cup {Empty}] /\ ks \in [W1Slot -> Kinds \cup {""}]
  /\ ss \in [W1Slot -> SlotRec]
  /\ OneEach(rs) /\ Typed(rs, ks) /\ Foreign(ss, ks, S)
  /\ \A s \in W1Slot : ss[s].present => rs[s] \in S /\ ks[s] = TypeOf[rs[s]]
Seated(ss) == {s \in W1Slot : ss[s].present}

\* What holds between two steps, and is enough for the invariant.
W1Ind ==
  /\ W1Type
  /\ SlotsOk(rom, kind, slots, known)
  /\ ~shell => bound = Cardinality(Seated(slots))

LEMMA SeatedIs ==
  \A ss : /\ IsFiniteSet(Seated(ss)) /\ Cardinality(Seated(ss)) \in 0..NumSlots
<1> SUFFICES ASSUME NEW ss
             PROVE  IsFiniteSet(Seated(ss)) /\ Cardinality(Seated(ss)) \in 0..NumSlots
  OBVIOUS
<1>1. NumSlots \in Nat
  BY W1Assumption
<1>2. IsFiniteSet(1..NumSlots) /\ Cardinality(1..NumSlots) = NumSlots
  <2>1. 1 \in Int /\ NumSlots \in Int
    BY <1>1
  <2>2. IsFiniteSet(1..NumSlots)
        /\ Cardinality(1..NumSlots) = IF 1 > NumSlots THEN 0 ELSE NumSlots - 1 + 1
    BY <2>1, FS_Interval
  <2> QED BY <1>1, <2>2
<1>3. Seated(ss) \subseteq 1..NumSlots
  BY DEF Seated, W1Slot
<1>4. /\ IsFiniteSet(Seated(ss)) /\ Cardinality(Seated(ss)) <= Cardinality(1..NumSlots)
      /\ Cardinality(Seated(ss)) \in Nat
  BY <1>2, <1>3, FS_Subset, FS_CardinalityType
<1> QED BY <1>1, <1>2, <1>4

LEMMA PresentIs == \A r : Present(r) = Cardinality(Seated(r.slots))
BY DEF Present, Seated

LEMMA OutcomeIsOk ==
  ASSUME NEW rs, NEW ks, NEW S \in SUBSET Devices, NEW F \in SUBSET S, NEW r,
         Outcome(rs, ks, F, S, r)
  PROVE  SlotsOk(r.rom, r.kind, r.slots, S)
<1>1. /\ r.rom \in [W1Slot -> Devices \cup {Empty}] /\ r.kind \in [W1Slot -> Kinds \cup {""}]
      /\ r.slots \in [W1Slot -> SlotRec]
  BY DEF Outcome, Passed
<1>2. \A s \in W1Slot : r.slots[s].present => r.rom[s] \in S /\ r.kind[s] = TypeOf[r.rom[s]]
  BY DEF Outcome, Full
<1> QED BY <1>1, <1>2 DEF Outcome, SlotsOk

LEMMA SlotsAreReady ==
  ASSUME W1Ind
  PROVE  Ready(rom, kind)
BY DEF W1Ind, SlotsOk, Ready

\* A device that is plugged in and not bound leaves the count of the bound ones short.
LEMMA UnboundIsMissed ==
  ASSUME W1Ind, NEW s0 \in W1Slot, Unbound(s0), ~shell,
         \A s \in W1Slot : slots[s].present => rom[s] \in plugged
  PROVE  Cardinality(plugged) > bound
<1> DEFINE B == Seated(slots)
           A == plugged \ {rom[s0]}
           f == [s \in B |-> rom[s]]
<1>1. /\ plugged \in SUBSET Devices /\ bound = Cardinality(B)
      /\ OneEach(rom) /\ \A s \in W1Slot : slots[s].present => rom[s] \in plugged
  BY DEF W1Ind, W1Type, SlotsOk
<1>2. rom[s0] \in plugged /\ ~slots[s0].present
  BY DEF Unbound
<1>3. f \in Injection(B, A)
  <2>1. ASSUME NEW s \in B PROVE rom[s] \in A
    <3>1. s \in W1Slot /\ slots[s].present /\ s # s0
      BY <1>2 DEF Seated
    <3>2. rom[s] \in plugged /\ rom[s] # Empty
      BY <1>1, <3>1, RosterIs
    <3>3. rom[s0] # rom[s]
      BY <1>1, <3>1, <3>2 DEF OneEach
    <3> QED BY <3>2, <3>3
  <2>2. ASSUME NEW s \in B, NEW t \in B, rom[s] = rom[t] PROVE s = t
    <3>1. s \in W1Slot /\ t \in W1Slot /\ rom[s] # Empty
      BY <1>1, <2>2, RosterIs DEF Seated
    <3> QED BY <1>1, <2>2, <3>1 DEF OneEach
  <2> HIDE DEF A, B
  <2> QED BY <2>1, <2>2 DEF Injection, IsInjective
<1>4. IsFiniteSet(plugged) /\ Cardinality(plugged) \in Nat /\ IsFiniteSet(A)
  <2>1. A \in SUBSET Devices
    BY <1>1
  <2> HIDE DEF A
  <2> QED BY <1>1, <2>1, RosterIs
<1>5. Cardinality(A) = Cardinality(plugged) - 1
  BY <1>2, <1>4, FS_RemoveElement
<1>6. Cardinality(B) <= Cardinality(A)
  <2> HIDE DEF A, B, f
  <2> QED BY <1>3, <1>4, FS_Injection
<1>7. Cardinality(B) \in Nat
  <2>1. NumSlots \in Nat
    BY W1Assumption
  <2> HIDE DEF B
  <2>2. Cardinality(B) \in 0..NumSlots
    BY SeatedIs DEF B
  <2> QED BY <2>1, <2>2
<1> QED BY <1>1, <1>4, <1>5, <1>6, <1>7

LEMMA W1IndHolds == W1Ind => W1Inv
<1> SUFFICES ASSUME W1Ind PROVE W1Inv
  OBVIOUS
<1>1. W1Type /\ SlotsOk(rom, kind, slots, known)
  BY DEF W1Ind
<1>2. RomIsUnique
  BY <1>1 DEF SlotsOk, OneEach, Typed, RomIsUnique
<1>3. MismatchIsForeign
  <2>1. Foreign(slots, kind, known)
    BY <1>1 DEF SlotsOk
  <2> DEFINE M == {s \in W1Slot : slots[s].state = "mismatch"}
  <2>2. \A s \in M : slots[s].detected \notin {"", kind[s]}
    BY <2>1 DEF Foreign
  <2>3. \A k \in Kinds : Cardinality({s \in M : slots[s].detected = k})
                           <= Cardinality({d \in known : TypeOf[d] = k})
    <3> SUFFICES ASSUME NEW k \in Kinds
                 PROVE  Cardinality({s \in M : slots[s].detected = k})
                          <= Cardinality({d \in known : TypeOf[d] = k})
      OBVIOUS
    <3>1. {s \in M : slots[s].detected = k} = Marked(slots, k)
      BY DEF Marked
    <3>2. {d \in known : TypeOf[d] = k} = OfType(known, k)
      BY DEF OfType
    <3>3. Cardinality(Marked(slots, k)) <= Cardinality(OfType(known, k))
      BY <2>1 DEF Foreign
    <3> HIDE DEF M
    <3> QED BY <3>1, <3>2, <3>3
  <2> HIDE DEF M
  <2>4. \A s \in M : slots[s].detected \notin {"", kind[s]}
    BY <2>2
  <2> QED BY <2>3, <2>4 DEF MismatchIsForeign, M
<1>4. Settled
  <2>1. known \in SUBSET Devices /\ known \cap plugged \in SUBSET known
    BY <1>1 DEF W1Type
  <2>2. Ready(rom, kind)
    BY SlotsAreReady
  <2>3. Resettles(rom, kind, known \cap plugged, known)
    BY <2>1, <2>2, RebindSettles
  <2> QED BY <2>3, Zenon DEF Settled, Resettles
<1>5. UnboundIsSeen
  <2> SUFFICES ASSUME ~shell, NEW s \in W1Slot, Unbound(s), plugged = sig,
                      \A t \in W1Slot : slots[t].present => rom[t] \in sig
               PROVE  Cardinality(plugged) > bound
    BY DEF UnboundIsSeen, Decides
  <2> QED BY UnboundIsMissed
<1> QED BY <1>1, <1>2, <1>3, <1>4, <1>5 DEF W1Inv

-----------------------------------------------------------------------------
(* What a step does to the slots                                             *)

\* The step rebinds, and only the slots of T may have lost their ROM before it did.
Rebinds(T) ==
  \E rs, ks, r, F :
    /\ F \subseteq plugged /\ F \subseteq known' /\ known' \subseteq Devices
    /\ Outcome(rs, ks, F, known', r)
    /\ \A t \in W1Slot : rom[t] # Empty /\ t \notin T => rs[t] = rom[t]
    /\ rom' = r.rom /\ kind' = r.kind /\ slots' = r.slots

LEMMA ReboundIs ==
  ASSUME NEW T, Rebinds(T)
  PROVE  /\ SlotsOk(rom', kind', slots', known')
         /\ \A t \in W1Slot : rom[t] # Empty /\ t \notin T => rom'[t] = rom[t]
         /\ \A s \in W1Slot : slots'[s].state = "ok"
              => slots'[s].rom \in plugged /\ slots'[s].rom \in known'
<1>1. PICK rs, ks, r, F :
        /\ F \subseteq plugged /\ F \subseteq known' /\ known' \subseteq Devices
        /\ Outcome(rs, ks, F, known', r)
        /\ \A t \in W1Slot : rom[t] # Empty /\ t \notin T => rs[t] = rom[t]
        /\ rom' = r.rom /\ kind' = r.kind /\ slots' = r.slots
  BY DEF Rebinds
<1>2. SlotsOk(r.rom, r.kind, r.slots, known')
  <2> DEFINE S == known'
  <2>1. S \in SUBSET Devices /\ F \in SUBSET S /\ Outcome(rs, ks, F, S, r)
    BY <1>1
  <2> HIDE DEF S
  <2>2. SlotsOk(r.rom, r.kind, r.slots, S)
    BY <2>1, OutcomeIsOk
  <2> QED BY <2>2 DEF S
<1>3. /\ \A s \in W1Slot : rs[s] # Empty => r.rom[s] = rs[s]
      /\ \A s \in W1Slot : r.slots[s].rom = r.rom[s] /\ (r.slots[s].state = "ok" => r.rom[s] \in F)
  BY <1>1 DEF Outcome
<1>4. SlotsOk(rom', kind', slots', known')
  BY <1>1, <1>2
<1>5. \A t \in W1Slot : rom[t] # Empty /\ t \notin T => rom'[t] = rom[t]
  BY <1>1, <1>3
<1>6. \A s \in W1Slot : slots'[s].state = "ok"
        => slots'[s].rom \in plugged /\ slots'[s].rom \in known'
  BY <1>1, <1>3
<1> QED BY <1>4, <1>5, <1>6

LEMMA RebindRebinds ==
  ASSUME NEW T, NEW rs, NEW ks, NEW S \in SUBSET Devices, NEW F \in SUBSET S,
         F \subseteq plugged, known' = S, Ready(rs, ks),
         \A t \in W1Slot : rom[t] # Empty /\ t \notin T => rs[t] = rom[t],
         Rebound(Rebind(rs, ks, F, S))
  PROVE  Rebinds(T)
<1> DEFINE r == Rebind(rs, ks, F, S)
<1>1. Outcome(rs, ks, F, S, r)
  BY RebindIs
<1>2. rom' = r.rom /\ kind' = r.kind /\ slots' = r.slots
  BY DEF Rebound
<1> HIDE DEF r
<1>3. /\ F \subseteq plugged /\ F \subseteq known' /\ known' \subseteq Devices
      /\ Outcome(rs, ks, F, known', r)
      /\ \A t \in W1Slot : rom[t] # Empty /\ t \notin T => rs[t] = rom[t]
      /\ rom' = r.rom /\ kind' = r.kind /\ slots' = r.slots
  BY <1>1, <1>2
<1> HIDE DEF Outcome
<1> QED BY <1>3, Zenon DEF Rebinds

LEMMA ClearedIs ==
  ASSUME NEW s \in W1Slot
  PROVE  LET q == Forgets([rom |-> rom, kind |-> kind], {s})
         IN /\ q.rom = [t \in W1Slot |-> IF t \in {s} THEN Empty ELSE rom[t]]
            /\ q.kind = [t \in W1Slot |-> IF t \in {s} THEN "" ELSE kind[t]]
BY DEF Forgets

\* Teaching d to slot s takes it from every other slot.
TaughtAs(r, s, d, q) ==
  /\ q.rom = [t \in W1Slot |-> IF t # s /\ r.rom[t] = d THEN Empty
                              ELSE IF t = s THEN d ELSE r.rom[t]]
  /\ q.kind = [t \in W1Slot |-> IF t # s /\ r.rom[t] = d THEN "" ELSE r.kind[t]]

LEMMA TaughtIs ==
  ASSUME NEW r \in Passed, NEW s \in W1Slot, NEW d \in Devices
  PROVE  TaughtAs(r, s, d, Taught(r, s, d))
<1> DEFINE A == {t \in W1Slot \ {s} : r.rom[t] = d}
           p == [r EXCEPT !.rom[s] = d]
           q == Taught(r, s, d)
<1>1. r.rom \in [W1Slot -> Devices \cup {Empty}] /\ r.kind \in [W1Slot -> Kinds \cup {""}]
  BY DEF Passed
<1>2. p.rom = [r.rom EXCEPT ![s] = d] /\ p.kind = r.kind /\ p \in Passed
  BY <1>1 DEF Passed
<1>3. {t \in W1Slot \ {s} : p.rom[t] = d} = A
  BY <1>1, <1>2
<1>4. q = Forgets(p, {t \in W1Slot \ {s} : r.rom[t] = d})
  BY DEF Taught
<1> HIDE DEF p, q, A
<1>5. q = [p EXCEPT !.rom = [t \in W1Slot |-> IF t \in A THEN Empty ELSE p.rom[t]],
                    !.kind = [t \in W1Slot |-> IF t \in A THEN "" ELSE p.kind[t]]]
  BY <1>4 DEF Forgets, A
<1>6. /\ q.rom = [t \in W1Slot |-> IF t \in A THEN Empty ELSE p.rom[t]]
      /\ q.kind = [t \in W1Slot |-> IF t \in A THEN "" ELSE p.kind[t]]
  BY <1>2, <1>5 DEF Passed
<1>7. \A t \in W1Slot : p.rom[t] = IF t = s THEN d ELSE r.rom[t]
  BY <1>1, <1>2
<1>8. q.rom = [t \in W1Slot |-> IF t \in A THEN Empty ELSE IF t = s THEN d ELSE r.rom[t]]
  BY <1>6, <1>7
<1>9. q.kind = [t \in W1Slot |-> IF t \in A THEN "" ELSE r.kind[t]]
  BY <1>2, <1>6
<1>10. \A t \in W1Slot : t \in A <=> t # s /\ r.rom[t] = d
  BY DEF A
<1>11. q.rom = [t \in W1Slot |-> IF t # s /\ r.rom[t] = d THEN Empty
                                ELSE IF t = s THEN d ELSE r.rom[t]]
  BY <1>8, <1>10
<1>12. q.kind = [t \in W1Slot |-> IF t # s /\ r.rom[t] = d THEN "" ELSE r.kind[t]]
  BY <1>9, <1>10
<1>13. TaughtAs(r, s, d, q)
  BY <1>11, <1>12 DEF TaughtAs
<1> QED BY <1>13 DEF q

LEMMA ScansAre ==
  ASSUME plugged \in SUBSET Devices, NEW old \in SUBSET Devices, NEW n, NEW K \in Scans(old, n)
  PROVE  K \in SUBSET Devices /\ ScanFails(K) \in Nat
<1>2. K \in SUBSET Devices
  BY DEF Scans, Registered
<1> QED BY <1>2 DEF ScanFails

LEMMA AnsweringIs ==
  ASSUME NEW K \in SUBSET Devices, NEW n, NEW F \in Answering(K, n)
  PROVE  F \in SUBSET K /\ F \subseteq plugged /\ Silent(K, F) \in Nat
<1>1. F \in SUBSET K /\ F \subseteq plugged
  BY DEF Answering
<1>2. (K \cap plugged) \ F \in SUBSET Devices
  OBVIOUS
<1>3. Cardinality((K \cap plugged) \ F) \in Nat
  BY <1>2, RosterIs
<1> QED BY <1>1, <1>3 DEF Silent

LEMMA ScanRebinds ==
  ASSUME W1Ind, NEW K \in SUBSET Devices, NEW F \in SUBSET K, F \subseteq plugged,
         known' = K, Rebound(Rebind(rom, kind, F, K))
  PROVE  Rebinds({})
BY SlotsAreReady, RebindRebinds

LEMMA ClearRebinds ==
  ASSUME W1Ind, NEW s \in W1Slot, Clear(s)
  PROVE  Rebinds({s})
<1> DEFINE q == Forgets([rom |-> rom, kind |-> kind], {s})
           rs == q.rom
           ks == q.kind
<1>1. PICK F \in Answering(known, events + 1) : Rebound(Rebind(rs, ks, F, known))
  BY DEF Clear
<1>2. known' = known
  BY DEF Clear
<1>3. /\ rs = [t \in W1Slot |-> IF t \in {s} THEN Empty ELSE rom[t]]
      /\ ks = [t \in W1Slot |-> IF t \in {s} THEN "" ELSE kind[t]]
  BY ClearedIs
<1>4. known \in SUBSET Devices
  BY DEF W1Ind, W1Type
<1>5. F \in SUBSET known /\ F \subseteq plugged
  BY <1>4, AnsweringIs
<1> HIDE DEF q, rs, ks
<1>6. /\ rom \in [W1Slot -> Devices \cup {Empty}] /\ kind \in [W1Slot -> Kinds \cup {""}]
      /\ OneEach(rom) /\ Typed(rom, kind)
  BY DEF W1Ind, SlotsOk
<1>7. /\ rs \in [W1Slot -> Devices \cup {Empty}] /\ ks \in [W1Slot -> Kinds \cup {""}]
      /\ rs[s] = Empty
      /\ \A t \in W1Slot : t # s => rs[t] = rom[t] /\ ks[t] = kind[t]
  BY <1>3, <1>6
<1>8. Ready(rs, ks)
  <2>1. OneEach(rs)
    BY <1>6, <1>7 DEF OneEach
  <2>2. Typed(rs, ks)
    BY <1>6, <1>7 DEF Typed
  <2> QED BY <1>7, <2>1, <2>2 DEF Ready
<1>9. \A t \in W1Slot : rom[t] # Empty /\ t \notin {s} => rs[t] = rom[t]
  BY <1>7
<1> QED BY <1>1, <1>2, <1>4, <1>5, <1>8, <1>9, RebindRebinds

\* What is rebound after r1, when slot s took the device `new`.
LEMMA TaughtIsReady ==
  ASSUME NEW r1, NEW F1, NEW S, Outcome(rom, kind, F1, S, r1),
         NEW s \in W1Slot, NEW new \in Devices, Suits(r1, s, new),
         \A t \in W1Slot : t # s => rom[t] # new,
         NEW r2, TaughtAs(r1, s, new, r2)
  PROVE  /\ Ready(r2.rom, r2.kind)
         /\ \A t \in W1Slot : rom[t] # Empty /\ t \notin {s} => r2.rom[t] = rom[t]
<1> DEFINE rs == r2.rom
           ks == r2.kind
<1>1. /\ rs = [t \in W1Slot |-> IF t # s /\ r1.rom[t] = new THEN Empty
                                ELSE IF t = s THEN new ELSE r1.rom[t]]
      /\ ks = [t \in W1Slot |-> IF t # s /\ r1.rom[t] = new THEN "" ELSE r1.kind[t]]
  BY DEF TaughtAs
<1> HIDE DEF rs, ks
<1>2. /\ r1.rom \in [W1Slot -> Devices \cup {Empty}] /\ r1.kind \in [W1Slot -> Kinds \cup {""}]
      /\ OneEach(r1.rom) /\ Typed(r1.rom, r1.kind)
      /\ \A t \in W1Slot : rom[t] # Empty => r1.rom[t] = rom[t]
  BY DEF Outcome, Passed
<1>3. /\ rs[s] = new /\ ks[s] = r1.kind[s]
      /\ \A t \in W1Slot : t # s => /\ rs[t] = IF r1.rom[t] = new THEN Empty ELSE r1.rom[t]
                                    /\ rs[t] # Empty => ks[t] = r1.kind[t]
  BY <1>1
<1>4. rs \in [W1Slot -> Devices \cup {Empty}] /\ ks \in [W1Slot -> Kinds \cup {""}]
  <2>1. /\ \A t \in W1Slot : (IF t # s /\ r1.rom[t] = new THEN Empty
                              ELSE IF t = s THEN new ELSE r1.rom[t]) \in Devices \cup {Empty}
        /\ \A t \in W1Slot : (IF t # s /\ r1.rom[t] = new THEN "" ELSE r1.kind[t])
                              \in Kinds \cup {""}
    BY <1>2
  <2> QED BY <1>1, <2>1
<1>5. OneEach(rs)
  <2> SUFFICES ASSUME NEW t \in W1Slot, NEW u \in W1Slot, rs[t] # Empty, t # u,
                      rs[u] = rs[t]
               PROVE  FALSE
    BY DEF OneEach
  <2>1. CASE t = s
    BY <1>3, <2>1, RosterIs
  <2>2. CASE u = s
    BY <1>3, <2>2, RosterIs
  <2>3. CASE t # s /\ u # s
    BY <1>2, <1>3, <2>3 DEF OneEach
  <2> QED BY <2>1, <2>2, <2>3
<1>6. Typed(rs, ks)
  BY <1>2, <1>3 DEF Typed, Suits
<1>7. \A t \in W1Slot : rom[t] # Empty /\ t \notin {s} => rs[t] = rom[t]
  BY <1>2, <1>3
<1> QED BY <1>4, <1>5, <1>6, <1>7 DEF Ready, rs, ks

LEMMA TakesRebinds ==
  ASSUME W1Ind, NEW s \in W1Slot, NEW K \in SUBSET Devices, known' = K,
         NEW D \in SUBSET Devices, \A t \in W1Slot, d \in D : t # s => rom[t] # d,
         NEW F1 \in SUBSET K, F1 \subseteq plugged, NEW F2 \in SUBSET K, F2 \subseteq plugged,
         Takes(s, D, K, F1, F2)
  PROVE  Rebinds({s})
<1> DEFINE r1 == Rebind(rom, kind, F1, K)
           new == CHOOSE d \in D : TRUE
           r2 == Taught(r1, s, new)
           fits == Cardinality(D) = 1 /\ r1.kind[s] \in {""} \cup {TypeOf[d] : d \in D}
<1>1. IF fits THEN Rebound(Rebind(r2.rom, r2.kind, F2, K)) ELSE Rebound(r1)
  BY Zenon DEF Takes
<1>2. r1 = Rebind(rom, kind, F1, K) /\ r2 = Taught(r1, s, new)
  OBVIOUS
<1>3. fits => D = {new} /\ r1.kind[s] \in {"", TypeOf[new]}
  <2> SUFFICES ASSUME fits PROVE D = {new} /\ r1.kind[s] \in {"", TypeOf[new]}
    OBVIOUS
  <2>1. Cardinality(D) = 1 /\ r1.kind[s] \in {""} \cup {TypeOf[d] : d \in D}
    BY Zenon
  <2> HIDE DEF r1
  <2>2. IsFiniteSet(D)
    BY RosterIs
  <2>3. PICK d : D = {d}
    BY <2>1, <2>2, FS_Singleton
  <2>4. new = d
    BY <2>3
  <2> HIDE DEF new
  <2> QED BY <2>1, <2>3, <2>4
<1> HIDE DEF r1, new, r2, fits
<1>4. Ready(rom, kind)
  BY SlotsAreReady
<1>5. Outcome(rom, kind, F1, K, r1)
  BY <1>2, <1>4, RebindIs
<1>6. CASE ~fits
  <2>1. Rebound(Rebind(rom, kind, F1, K))
    BY <1>1, <1>2, <1>6
  <2> QED BY <1>4, <2>1, RebindRebinds
<1>7. CASE fits
  <2>1. new \in D /\ new \in Devices /\ Suits(r1, s, new)
    BY <1>3, <1>7 DEF Suits
  <2>2. r1 \in Passed
    BY <1>5 DEF Outcome
  <2>3. TaughtAs(r1, s, new, r2)
    BY <1>2, <2>1, <2>2, TaughtIs
  <2>4. \A t \in W1Slot : t # s => rom[t] # new
    BY <2>1
  <2> DEFINE rs == r2.rom
             ks == r2.kind
  <2>5. Ready(rs, ks) /\ \A t \in W1Slot : rom[t] # Empty /\ t \notin {s} => rs[t] = rom[t]
    BY <1>5, <2>1, <2>3, <2>4, TaughtIsReady
  <2>6. Rebound(Rebind(rs, ks, F2, K))
    BY <1>1, <1>7
  <2> HIDE DEF rs, ks
  <2> QED BY <2>5, <2>6, RebindRebinds
<1> QED BY <1>6, <1>7

LEMMA EnrolmentRebinds ==
  ASSUME W1Ind, NEW s \in W1Slot, NEW A \in SUBSET Devices,
         \A t \in W1Slot, d \in A : t # s => rom[t] # d, Enrolment(s, A)
  PROVE  Rebinds({s})
<1>1. PICK K \in Scans(known, events + 1) :
        \E F, F1, F2 \in Answering(K, events + 1 + ScanFails(K)) :
          known' = K /\ Takes(s, A \cap F, K, F1, F2)
  BY Zenon DEF Enrolment
<1>2. PICK F \in Answering(K, events + 1 + ScanFails(K)),
           F1 \in Answering(K, events + 1 + ScanFails(K)),
           F2 \in Answering(K, events + 1 + ScanFails(K)) :
        known' = K /\ Takes(s, A \cap F, K, F1, F2)
  BY <1>1
<1>3. K \in SUBSET Devices
  <2>1. known \in SUBSET Devices /\ plugged \in SUBSET Devices
    BY DEF W1Ind, W1Type
  <2> QED BY <2>1, ScansAre
<1>4. /\ F1 \in SUBSET K /\ F1 \subseteq plugged
      /\ F2 \in SUBSET K /\ F2 \subseteq plugged
  BY <1>3, AnsweringIs
<1> DEFINE D == A \cap F
<1>5. D \in SUBSET Devices /\ \A t \in W1Slot, d \in D : t # s => rom[t] # d
  OBVIOUS
<1>6. Takes(s, D, K, F1, F2)
  BY <1>2
<1> HIDE DEF D
<1> QED BY <1>2, <1>3, <1>4, <1>5, <1>6, TakesRebinds

LEMMA TeachRebinds ==
  ASSUME W1Ind, NEW s \in W1Slot, Teach(s)
  PROVE  Rebinds({s})
<1>1. NewDevices \in SUBSET Devices /\ \A t \in W1Slot, d \in NewDevices : t # s => rom[t] # d
  BY DEF NewDevices
<1>2. Enrolment(s, NewDevices)
  BY DEF Teach
<1> QED BY <1>1, <1>2, EnrolmentRebinds

LEMMA AssignRebinds ==
  ASSUME W1Ind, NEW s \in W1Slot, NEW d \in Devices, Assign(s, d)
  PROVE  Rebinds({s})
<1>1. {d} \in SUBSET Devices /\ \A t \in W1Slot, c \in {d} : t # s => rom[t] # c
  BY DEF Assign
<1>2. Enrolment(s, {d})
  BY DEF Assign
<1> QED BY <1>1, <1>2, EnrolmentRebinds

-----------------------------------------------------------------------------
(* The steps                                                                 *)

\* What the invariant and SlotsStay say of one step.
StepOk ==
  /\ W1Ind'
  /\ \A s, t \in W1Slot : Keeps(s) \/ Keeps(t) \/ s = t
  /\ (\A s \in W1Slot : Keeps(s)) \/ (\E s \in W1Slot : Touches(s))
  /\ \A s \in W1Slot : slots'[s].state = "ok" /\ slots[s].state # "ok"
       => slots'[s].rom \in plugged /\ slots'[s].rom \in known'

LEMMA RebindsStep ==
  ASSUME W1Type', NEW T, Rebinds(T), \A s, t \in T : s = t,
         T = {} \/ \E s \in W1Slot : Touches(s),
         ~shell' => bound' = Cardinality(Seated(slots'))
  PROVE  StepOk
<1>1. /\ SlotsOk(rom', kind', slots', known')
      /\ \A t \in W1Slot : rom[t] # Empty /\ t \notin T => rom'[t] = rom[t]
      /\ \A s \in W1Slot : slots'[s].state = "ok"
           => slots'[s].rom \in plugged /\ slots'[s].rom \in known'
  BY ReboundIs
<1>2. W1Ind'
  BY <1>1 DEF W1Ind
<1>3. \A t \in W1Slot : t \notin T => Keeps(t)
  BY <1>1 DEF Keeps
<1>4. \A s, t \in W1Slot : Keeps(s) \/ Keeps(t) \/ s = t
  BY <1>3
<1>5. (\A s \in W1Slot : Keeps(s)) \/ (\E s \in W1Slot : Touches(s))
  BY <1>3
<1> QED BY <1>1, <1>2, <1>4, <1>5 DEF StepOk

LEMMA HappenIs ==
  ASSUME events \in 0..MaxEvents, NEW n \in Nat, Happen(n)
  PROVE  events' \in 0..MaxEvents
<1>1. MaxEvents \in Nat
  BY W1Assumption
<1> QED BY <1>1 DEF Happen

\* A step that leaves ROMs, types and the slots' bindings, and makes no slot healthy.
LEMMA QuietStep ==
  ASSUME W1Ind, W1Type', rom' = rom, kind' = kind, slots' = slots, known' = known,
         shell' = shell, bound' = bound
  PROVE  StepOk
<1>1. SlotsOk(rom', kind', slots', known')
  BY DEF W1Ind
<1>2. ~shell' => bound' = Cardinality(Seated(slots'))
  BY DEF W1Ind
<1>3. W1Ind'
  BY <1>1, <1>2 DEF W1Ind
<1>4. \A s \in W1Slot : Keeps(s)
  BY DEF Keeps
<1> QED BY <1>3, <1>4 DEF StepOk

LEMMA RescanBeginsStep ==
  ASSUME W1Ind, RescanBegins
  PROVE  StepOk
<1>1. PICK first \in {0, 1}, second \in {0, 1} :
        /\ Happen(first + second) /\ force' = FALSE
        /\ IF AnyTaught(rom, kind) /\ (force \/ NeedRescan(Now)) /\ (Decides \/ first = 1)
             THEN scanning' = TRUE /\ sig' = Signatures(second) /\ UNCHANGED armed
             ELSE /\ scanning' = FALSE /\ armed' = (AnyTaught(rom, kind) /\ NeedRescan(Now))
                  /\ UNCHANGED sig
        /\ UNCHANGED <<cfg, slots, plugged, known, bound, reading, shell>>
  BY DEF RescanBegins
<1>2. rom' = rom /\ kind' = kind /\ slots' = slots /\ known' = known
      /\ shell' = shell /\ bound' = bound /\ plugged' = plugged
  BY <1>1 DEF cfg
<1>3. W1Type'
  <2>1. events' \in 0..MaxEvents
    <3>1. first + second \in Nat
      OBVIOUS
    <3> QED BY <1>1, <3>1, HappenIs DEF W1Ind, W1Type
  <2>2. sig' \in (SUBSET Devices) \cup {Unread}
    <3>1. Signatures(second) \in (SUBSET Devices) \cup {Unread}
      BY DEF W1Ind, W1Type, Signatures
    <3> QED BY <1>1, <3>1 DEF W1Ind, W1Type
  <2>3. force' \in BOOLEAN /\ scanning' \in BOOLEAN /\ armed' \in BOOLEAN
    <3>1. (AnyTaught(rom, kind) /\ NeedRescan(Now)) \in BOOLEAN
      BY Zenon DEF AnyTaught, NeedRescan
    <3> QED BY <1>1, <3>1 DEF W1Ind, W1Type
  <2> QED BY <1>2, <2>1, <2>2, <2>3 DEF W1Ind, W1Type
<1> QED BY <1>2, <1>3, QuietStep

LEMMA ForceRescanStep ==
  ASSUME W1Ind, ForceRescan
  PROVE  StepOk
<1>1. W1Type'
  <2>1. events' \in 0..MaxEvents
    BY HappenIs DEF W1Ind, W1Type, ForceRescan
  <2> QED BY <2>1 DEF W1Ind, W1Type, ForceRescan, cfg
<1> QED BY <1>1, QuietStep DEF ForceRescan, cfg

LEMMA ReadBeginsStep ==
  ASSUME W1Ind, NEW s \in W1Slot, ReadBegins(s)
  PROVE  StepOk
<1>1. W1Type'
  BY DEF W1Ind, W1Type, ReadBegins, cfg, rescan
<1> QED BY <1>1, QuietStep DEF ReadBegins, cfg, rescan

LEMMA PlugStep ==
  ASSUME W1Ind, NEW d \in Devices, Plug(d)
  PROVE  StepOk
<1>1. W1Type'
  <2>1. events' \in 0..MaxEvents
    BY HappenIs DEF W1Ind, W1Type, Plug
  <2>2. plugged' \in SUBSET Devices
    BY DEF W1Ind, W1Type, Plug
  <2> QED BY <2>1, <2>2 DEF W1Ind, W1Type, Plug, cfg, rescan
<1> QED BY <1>1, QuietStep DEF Plug, cfg, rescan

LEMMA StutterStep ==
  ASSUME W1Ind, UNCHANGED w1Vars
  PROVE  StepOk
<1>1. W1Type'
  BY DEF W1Ind, W1Type, w1Vars, cfg, rescan
<1> QED BY <1>1, QuietStep DEF w1Vars, cfg, rescan

\* The shell's commands rebind, and the rescan's count waits for the next rescan.
LEMMA ShellType ==
  ASSUME W1Ind, NEW n \in Nat, ShellMay(n), ShellKeeps, known' \in SUBSET Devices,
         NEW T, Rebinds(T)
  PROVE  W1Type' /\ (~shell' => bound' = Cardinality(Seated(slots')))
<1>1. events' \in 0..MaxEvents /\ shell' = TRUE
  <2>1. 1 + n \in Nat
    OBVIOUS
  <2> QED BY <2>1, HappenIs DEF W1Ind, W1Type, ShellMay
<1>2. rom' \in [W1Slot -> Devices \cup {Empty}] /\ kind' \in [W1Slot -> Kinds \cup {""}]
  BY ReboundIs DEF SlotsOk
<1>3. /\ plugged' = plugged /\ sig' = sig /\ bound' = bound /\ armed' = armed
      /\ force' = force /\ scanning' = scanning
  BY DEF ShellKeeps, rescan
<1>4. W1Type'
  BY <1>1, <1>2, <1>3 DEF W1Ind, W1Type
<1> QED BY <1>1, <1>4

LEMMA ScanStep ==
  ASSUME W1Ind, Scan
  PROVE  StepOk
<1>1. PICK K \in Scans(known, events + 1) : \E F \in Answering(K, events + 1 + ScanFails(K)) :
        /\ ShellMay(ScanFails(K) + Silent(K, F)) /\ known' = K
        /\ Rebound(Rebind(rom, kind, F, K)) /\ ShellKeeps
  BY DEF Scan
<1>2. PICK F \in Answering(K, events + 1 + ScanFails(K)) :
        /\ ShellMay(ScanFails(K) + Silent(K, F)) /\ known' = K
        /\ Rebound(Rebind(rom, kind, F, K)) /\ ShellKeeps
  BY <1>1
<1>3. K \in SUBSET Devices /\ ScanFails(K) \in Nat
  <2>1. known \in SUBSET Devices /\ plugged \in SUBSET Devices
    BY DEF W1Ind, W1Type
  <2> QED BY <2>1, ScansAre
<1>4. F \in SUBSET K /\ F \subseteq plugged /\ Silent(K, F) \in Nat
  BY <1>3, AnsweringIs
<1>5. Rebinds({})
  BY <1>2, <1>3, <1>4, ScanRebinds
<1>6. ScanFails(K) + Silent(K, F) \in Nat
  BY <1>3, <1>4
<1>7. W1Type' /\ (~shell' => bound' = Cardinality(Seated(slots')))
  BY <1>2, <1>3, <1>5, <1>6, ShellType
<1> QED BY <1>5, <1>7, RebindsStep

\* What a command of the shell costs, and leaves of the drivers' tables.
LEMMA TouchesCost ==
  ASSUME W1Ind, NEW s \in W1Slot, Touches(s)
  PROVE  (\E n \in Nat : ShellMay(n)) /\ ShellKeeps /\ known' \in SUBSET Devices
<1>1. known \in SUBSET Devices /\ plugged \in SUBSET Devices
  BY DEF W1Ind, W1Type
<1>2. CASE Clear(s)
  <2>1. PICK F \in Answering(known, events + 1) : ShellMay(Silent(known, F))
    BY <1>2 DEF Clear
  <2>2. Silent(known, F) \in Nat
    BY <1>1, AnsweringIs
  <2>3. known' = known /\ ShellKeeps
    BY <1>2 DEF Clear
  <2> QED BY <1>1, <2>1, <2>2, <2>3
<1>3. ASSUME NEW A, Enrolment(s, A)
      PROVE  (\E n \in Nat : ShellMay(n)) /\ ShellKeeps /\ known' \in SUBSET Devices
  <2> DEFINE N(K) == events + 1 + ScanFails(K)
             May(K, F, F1, F2) ==
               ShellMay(ScanFails(K) + Silent(K, F) + Silent(K, F1) + Silent(K, F2))
  <2>1. PICK K \in Scans(known, events + 1) : \E F, F1, F2 \in Answering(K, N(K)) :
          May(K, F, F1, F2) /\ known' = K /\ ShellKeeps
    BY <1>3, Zenon DEF Enrolment
  <2> HIDE DEF N, May
  <2>2. PICK F \in Answering(K, N(K)), F1 \in Answering(K, N(K)), F2 \in Answering(K, N(K)) :
          May(K, F, F1, F2) /\ known' = K /\ ShellKeeps
    BY <2>1
  <2>3. K \in SUBSET Devices /\ ScanFails(K) \in Nat
    BY <1>1, ScansAre
  <2>4. Silent(K, F) \in Nat /\ Silent(K, F1) \in Nat /\ Silent(K, F2) \in Nat
    BY <2>3, AnsweringIs
  <2>5. ScanFails(K) + Silent(K, F) + Silent(K, F1) + Silent(K, F2) \in Nat
    BY <2>3, <2>4
  <2>6. ShellMay(ScanFails(K) + Silent(K, F) + Silent(K, F1) + Silent(K, F2))
    BY <2>2 DEF May
  <2> QED BY <2>2, <2>3, <2>5, <2>6
<1>4. CASE Teach(s)
  BY <1>3, <1>4 DEF Teach
<1>5. CASE \E d \in Devices : Assign(s, d)
  BY <1>3, <1>5 DEF Assign
<1> QED BY <1>2, <1>4, <1>5 DEF Touches

LEMMA TouchesStep ==
  ASSUME W1Ind, NEW s \in W1Slot, Touches(s), Rebinds({s})
  PROVE  StepOk
<1>1. (\E n \in Nat : ShellMay(n)) /\ ShellKeeps /\ known' \in SUBSET Devices
  BY TouchesCost
<1>2. W1Type' /\ (~shell' => bound' = Cardinality(Seated(slots')))
  BY <1>1, ShellType
<1> QED BY <1>2, RebindsStep

LEMMA RescanEndsStep ==
  ASSUME W1Ind, RescanEnds
  PROVE  StepOk
<1>1. PICK K \in Scans(known, events) : \E F \in Answering(K, events + ScanFails(K)) :
        /\ Happen(ScanFails(K) + Silent(K, F))
        /\ LET r == Rebind(rom, kind, F, K)
           IN Rebound(r) /\ bound' = Present(r) /\ armed' = NeedRescan(r)
        /\ known' = K /\ scanning' = FALSE /\ shell' = FALSE
        /\ UNCHANGED <<plugged, sig, force, reading>>
  BY DEF RescanEnds
<1>2. PICK F \in Answering(K, events + ScanFails(K)) :
        /\ Happen(ScanFails(K) + Silent(K, F))
        /\ LET r == Rebind(rom, kind, F, K)
           IN Rebound(r) /\ bound' = Present(r) /\ armed' = NeedRescan(r)
        /\ known' = K /\ scanning' = FALSE /\ shell' = FALSE
        /\ UNCHANGED <<plugged, sig, force, reading>>
  BY <1>1
<1> DEFINE r == Rebind(rom, kind, F, K)
<1>3. Rebound(r) /\ bound' = Present(r) /\ armed' = NeedRescan(r)
  BY <1>2
<1>4. /\ known' = K /\ scanning' = FALSE /\ shell' = FALSE
      /\ plugged' = plugged /\ sig' = sig /\ force' = force
  BY <1>2
<1>5. K \in SUBSET Devices /\ ScanFails(K) \in Nat
  <2>1. known \in SUBSET Devices /\ plugged \in SUBSET Devices
    BY DEF W1Ind, W1Type
  <2> QED BY <2>1, ScansAre
<1>6. F \in SUBSET K /\ F \subseteq plugged /\ Silent(K, F) \in Nat
  BY <1>5, AnsweringIs
<1>7. Rebinds({})
  BY <1>3, <1>4, <1>5, <1>6, ScanRebinds
<1> HIDE DEF r
<1>8. slots' = r.slots
  BY <1>3 DEF Rebound
<1>9. bound' = Cardinality(Seated(slots'))
  BY <1>3, <1>8, PresentIs
<1>10. W1Type'
  <2>1. events' \in 0..MaxEvents
    <3>1. ScanFails(K) + Silent(K, F) \in Nat
      BY <1>5, <1>6
    <3> QED BY <1>2, <3>1, HappenIs DEF W1Ind, W1Type
  <2>2. rom' \in [W1Slot -> Devices \cup {Empty}] /\ kind' \in [W1Slot -> Kinds \cup {""}]
    BY <1>7, ReboundIs DEF SlotsOk
  <2>3. bound' \in 0..NumSlots
    BY <1>9, SeatedIs
  <2>4. armed' \in BOOLEAN
    BY <1>3 DEF NeedRescan
  <2> QED BY <1>4, <1>5, <2>1, <2>2, <2>3, <2>4 DEF W1Ind, W1Type
<1> QED BY <1>7, <1>9, <1>10, RebindsStep

LEMMA ReadEndsStep ==
  ASSUME W1Ind, ReadEnds
  PROVE  StepOk
<1>a. PICK failed \in {0, 1} :
        /\ Happen(failed)
        /\ LET s     == reading.slot
               heard == IF failed = 1 THEN {} ELSE Heard
           IN slots' = [slots EXCEPT ![s].state =
                IF slots[s].rom # reading.rom THEN @
                ELSE IF heard = {} /\ @ = "ok" THEN "absent"
                ELSE IF heard # {} /\ @ = "absent" THEN "ok" ELSE @]
        /\ UNCHANGED <<cfg, plugged, known, rescan, shell>>
  BY DEF ReadEnds
<1> DEFINE s == reading.slot
           heard == IF failed = 1 THEN {} ELSE Heard
           v == IF slots[s].rom # reading.rom THEN slots[s].state
                ELSE IF heard = {} /\ slots[s].state = "ok" THEN "absent"
                ELSE IF heard # {} /\ slots[s].state = "absent" THEN "ok" ELSE slots[s].state
<1>1. slots' = [slots EXCEPT ![s].state = v]
  BY <1>a
<1>2. /\ rom' = rom /\ kind' = kind /\ known' = known /\ plugged' = plugged
      /\ sig' = sig /\ bound' = bound /\ armed' = armed /\ force' = force
      /\ scanning' = scanning /\ shell' = shell
  BY <1>a DEF cfg, rescan
<1>3. W1Type'
  <2>1. events' \in 0..MaxEvents
    <3>1. failed \in Nat
      OBVIOUS
    <3> QED BY <1>a, <3>1, HappenIs DEF W1Ind, W1Type
  <2> QED BY <1>2, <2>1 DEF W1Ind, W1Type
<1>4. /\ v \in {slots[s].state, "absent", "ok"}
      /\ slots[s].state = "mismatch" <=> v = "mismatch"
      /\ v = "ok" /\ slots[s].state # "ok" => heard # {} /\ slots[s].rom = reading.rom
  OBVIOUS
<1>5. heard # {} => reading.rom \in plugged /\ reading.rom \in known
  BY DEF Heard, OwnOf, Indexed
<1> HIDE DEF v, s, heard
<1>6. slots \in [W1Slot -> SlotRec]
  BY DEF W1Ind, SlotsOk
<1>7. ASSUME NEW t \in W1Slot
      PROVE  /\ slots'[t] \in SlotRec
             /\ slots'[t].rom = slots[t].rom /\ slots'[t].present = slots[t].present
             /\ slots'[t].detected = slots[t].detected
             /\ slots'[t].state = "mismatch" <=> slots[t].state = "mismatch"
             /\ slots'[t].state = "ok" /\ slots[t].state # "ok"
                  => slots[t].rom \in plugged /\ slots[t].rom \in known
  <2>1. CASE t = s
    <3>1. slots'[t] = [slots[t] EXCEPT !.state = v]
      BY <1>1, <1>6, <2>1
    <3>2. slots[t] \in SlotRec
      BY <1>6
    <3>3. v \in {"none", "ok", "absent", "replaced", "mismatch"}
      BY <1>4, <2>1, <3>2 DEF SlotRec
    <3>4. /\ slots'[t] \in SlotRec /\ slots'[t].state = v
          /\ slots'[t].rom = slots[t].rom /\ slots'[t].present = slots[t].present
          /\ slots'[t].detected = slots[t].detected
      BY <3>1, <3>2, <3>3 DEF SlotRec
    <3> QED BY <1>4, <1>5, <2>1, <3>4
  <2>2. CASE t # s
    <3>1. slots'[t] = slots[t]
      BY <1>1, <1>6, <2>2
    <3>2. slots[t] \in SlotRec
      BY <1>6
    <3> QED BY <3>1, <3>2
  <2> QED BY <2>1, <2>2
<1>8. slots' \in [W1Slot -> SlotRec]
  <2>1. slots' = [t \in W1Slot |-> slots'[t]]
    BY <1>1, <1>6
  <2> QED BY <1>7, <2>1
<1>9. Foreign(slots', kind', known')
  <2>1. Foreign(slots, kind, known)
    BY DEF W1Ind, SlotsOk
  <2>2. \A k : Marked(slots', k) = Marked(slots, k)
    BY <1>7 DEF Marked
  <2> QED BY <1>2, <1>7, <2>1, <2>2 DEF Foreign
<1>10. SlotsOk(rom', kind', slots', known')
  BY <1>2, <1>7, <1>8, <1>9 DEF W1Ind, SlotsOk
<1>11. Seated(slots') = Seated(slots)
  BY <1>7 DEF Seated
<1>12. ~shell' => bound' = Cardinality(Seated(slots'))
  BY <1>2, <1>11 DEF W1Ind
<1>13. W1Ind'
  BY <1>3, <1>10, <1>12 DEF W1Ind
<1>14. \A t \in W1Slot : Keeps(t)
  BY <1>2 DEF Keeps
<1>15. \A t \in W1Slot : slots'[t].state = "ok" /\ slots[t].state # "ok"
         => slots'[t].rom \in plugged /\ slots'[t].rom \in known'
  BY <1>2, <1>7
<1> QED BY <1>13, <1>14, <1>15 DEF StepOk

LEMMA NextStep ==
  ASSUME W1Ind, [W1Next]_w1Vars
  PROVE  StepOk
<1>1. CASE Scan
  BY <1>1, ScanStep
<1>2. CASE RescanBegins
  BY <1>2, RescanBeginsStep
<1>3. CASE RescanEnds
  BY <1>3, RescanEndsStep
<1>4. CASE ForceRescan
  BY <1>4, ForceRescanStep
<1>5. CASE ReadEnds
  BY <1>5, ReadEndsStep
<1>6. ASSUME NEW s \in W1Slot, Teach(s) PROVE StepOk
  BY <1>6, TeachRebinds, TouchesStep DEF Touches
<1>7. ASSUME NEW s \in W1Slot, Clear(s) PROVE StepOk
  BY <1>7, ClearRebinds, TouchesStep DEF Touches
<1>8. ASSUME NEW s \in W1Slot, ReadBegins(s) PROVE StepOk
  BY <1>8, ReadBeginsStep
<1>9. ASSUME NEW s \in W1Slot, NEW d \in Devices, Assign(s, d) PROVE StepOk
  BY <1>9, AssignRebinds, TouchesStep DEF Touches
<1>10. ASSUME NEW d \in Devices, Plug(d) PROVE StepOk
  BY <1>10, PlugStep
<1>11. CASE UNCHANGED w1Vars
  BY <1>11, StutterStep
<1> QED BY <1>1, <1>2, <1>3, <1>4, <1>5, <1>6, <1>7, <1>8, <1>9, <1>10, <1>11 DEF W1Next

-----------------------------------------------------------------------------
(* The boot                                                                  *)

LEMMA SavedIsReady ==
  ASSUME NEW saved \in SavedSlots
  PROVE  Ready(saved.rom, saved.kind)
<1>1. /\ saved.rom \in [W1Slot -> Devices \cup {Empty}]
      /\ saved.kind \in [W1Slot -> Kinds \cup {""}]
      /\ \A s \in W1Slot : saved.rom[s] # Empty =>
           /\ \A t \in W1Slot \ {s} : saved.rom[t] # saved.rom[s]
           /\ saved.kind[s] \in {"", TypeOf[saved.rom[s]]}
  BY SavedAssumption
<1>2. OneEach(saved.rom)
  BY <1>1 DEF OneEach
<1>3. Typed(saved.rom, saved.kind)
  BY <1>1 DEF Typed
<1> QED BY <1>1, <1>2, <1>3 DEF Ready

\* The slots of a boot that scans nothing.
LEMMA UnscannedIsOk ==
  ASSUME NEW rs, NEW ks, Ready(rs, ks)
  PROVE  SlotsOk(ByRom(rs, ks, {}, {}).rom, ByRom(rs, ks, {}, {}).kind,
                 ByRom(rs, ks, {}, {}).slots, {})
<1> DEFINE r == ByRom(rs, ks, {}, {})
<1>1. Matched(r, {}, {})
  BY ByRomMatches
<1> HIDE DEF r
<1>2. /\ r \in Passed /\ OneEach(r.rom) /\ Typed(r.rom, r.kind)
      /\ \A s \in W1Slot : r.slots[s] = SlotOf(r.rom[s], {}, {})
  BY <1>1 DEF Matched
<1>3. \A s \in W1Slot : ~r.slots[s].present /\ r.slots[s].state = "none"
  BY <1>2 DEF SlotOf, NoBind
<1>4. Foreign(r.slots, r.kind, {})
  <2>1. \A k : Marked(r.slots, k) = {} /\ OfType({}, k) = {}
    BY <1>3 DEF Marked, OfType
  <2>2. Cardinality({}) = 0
    BY FS_EmptySet
  <2>3. \A k : Cardinality(Marked(r.slots, k)) <= Cardinality(OfType({}, k))
    BY <2>1, <2>2
  <2> QED BY <1>3, <2>3 DEF Foreign
<1>5. /\ r.rom \in [W1Slot -> Devices \cup {Empty}] /\ r.kind \in [W1Slot -> Kinds \cup {""}]
      /\ r.slots \in [W1Slot -> SlotRec]
  BY <1>2 DEF Passed
<1>6. SlotsOk(r.rom, r.kind, r.slots, {})
  BY <1>2, <1>3, <1>4, <1>5 DEF SlotsOk
<1> QED BY <1>6 DEF r

LEMMA BootsIs ==
  ASSUME NEW r, NEW K \in SUBSET Devices, NEW bus, NEW n \in Nat, Boots(r, K, bus, n),
         SlotsOk(r.rom, r.kind, r.slots, K), bus \in (SUBSET Devices) \cup {Unread},
         plugged \in SUBSET Devices,
         force = FALSE, scanning = FALSE, shell = FALSE
  PROVE  W1Ind
<1>1. /\ rom = r.rom /\ kind = r.kind /\ slots = r.slots /\ known = K /\ sig = bus
      /\ bound = Present(r) /\ armed = NeedRescan(r) /\ events = n /\ n <= MaxEvents
  BY DEF Boots
<1>2. bound = Cardinality(Seated(slots)) /\ bound \in 0..NumSlots
  BY <1>1, PresentIs, SeatedIs
<1>3. events \in 0..MaxEvents
  <2>1. MaxEvents \in Nat
    BY W1Assumption
  <2> QED BY <1>1, <2>1
<1>4. armed \in BOOLEAN
  BY <1>1 DEF NeedRescan
<1>5. rom \in [W1Slot -> Devices \cup {Empty}] /\ kind \in [W1Slot -> Kinds \cup {""}]
  BY <1>1 DEF SlotsOk
<1>6. W1Type
  BY <1>1, <1>2, <1>3, <1>4, <1>5 DEF W1Type
<1> QED BY <1>1, <1>2, <1>6 DEF W1Ind

LEMMA InitIs == W1Init => W1Ind
<1> SUFFICES ASSUME W1Init PROVE W1Ind
  OBVIOUS
<1>1. plugged \in SUBSET Devices /\ force = FALSE /\ scanning = FALSE /\ shell = FALSE
  BY DEF W1Init
<1>2. PICK saved \in SavedSlots :
        IF AnyTaught(saved.rom, saved.kind)
          THEN \E failed \in {0, 1} : \E K \in Scans({}, failed) :
               \E F \in Answering(K, failed + ScanFails(K)) :
                 Boots(Rebind(saved.rom, saved.kind, F, K), K, Signatures(failed),
                       failed + ScanFails(K) + Silent(K, F))
          ELSE Boots(ByRom(saved.rom, saved.kind, {}, {}), {}, {}, 0)
  BY DEF W1Init
<1> DEFINE rs == saved.rom
           ks == saved.kind
<1>3. Ready(rs, ks)
  BY SavedIsReady
<1> HIDE DEF rs, ks
<1>4. CASE AnyTaught(rs, ks)
  <2>1. PICK failed \in {0, 1} : \E K \in Scans({}, failed) :
               \E F \in Answering(K, failed + ScanFails(K)) :
                 Boots(Rebind(rs, ks, F, K), K, Signatures(failed),
                       failed + ScanFails(K) + Silent(K, F))
    BY <1>2, <1>4 DEF rs, ks
  <2>a. PICK K \in Scans({}, failed) : \E F \in Answering(K, failed + ScanFails(K)) :
                 Boots(Rebind(rs, ks, F, K), K, Signatures(failed),
                       failed + ScanFails(K) + Silent(K, F))
    BY <2>1
  <2>2. PICK F \in Answering(K, failed + ScanFails(K)) :
                 Boots(Rebind(rs, ks, F, K), K, Signatures(failed),
                       failed + ScanFails(K) + Silent(K, F))
    BY <2>a
  <2> DEFINE r == Rebind(rs, ks, F, K)
             n == failed + ScanFails(K) + Silent(K, F)
             bus == Signatures(failed)
  <2>3. K \in SUBSET Devices /\ ScanFails(K) \in Nat
    BY <1>1, ScansAre
  <2>b. F \in SUBSET K /\ F \subseteq plugged /\ Silent(K, F) \in Nat
    <3>1. K \in SUBSET Devices
      BY <2>3
    <3> QED BY <3>1, AnsweringIs
  <2>4. F \in SUBSET K /\ Silent(K, F) \in Nat
    BY <2>b
  <2>5. n \in Nat
    BY <2>3, <2>4
  <2>6. bus \in (SUBSET Devices) \cup {Unread}
    BY <1>1 DEF Signatures
  <2>7. Boots(r, K, bus, n)
    BY <2>2
  <2>8. Outcome(rs, ks, F, K, r)
    BY <1>3, <2>3, <2>4, RebindIs
  <2> HIDE DEF r, n, bus
  <2>9. SlotsOk(r.rom, r.kind, r.slots, K)
    BY <2>3, <2>4, <2>8, OutcomeIsOk
  <2> QED BY <1>1, <2>3, <2>5, <2>6, <2>7, <2>9, BootsIs
<1>5. CASE ~AnyTaught(rs, ks)
  <2> DEFINE r == ByRom(rs, ks, {}, {})
  <2>1. Boots(r, {}, {}, 0)
    BY <1>2, <1>5 DEF rs, ks
  <2>2. SlotsOk(r.rom, r.kind, r.slots, {})
    BY <1>3, UnscannedIsOk
  <2> HIDE DEF r
  <2> QED BY <1>1, <2>1, <2>2, BootsIs
<1> QED BY <1>4, <1>5

-----------------------------------------------------------------------------
(* The theorems                                                              *)

LEMMA SlotsInductive == W1Spec => []W1Ind
<1>1. W1Init => W1Ind
  BY InitIs
<1>2. W1Ind /\ [W1Next]_w1Vars => W1Ind'
  BY NextStep DEF StepOk
<1> QED BY <1>1, <1>2, PTL DEF W1Spec

\* The slots of app_w1_slots.c, for every number of slots, every set of devices and types and
\* every room of the drivers, whatever searches, scans and reads fail, those of one command
\* each on its own: a ROM lives in one slot, which has its device's type or, unbound, may have
\* none; a foreign device marks one slot at most and none it could serve; a second rebind moves
\* nothing the first one bound; and a taught device on the bus that is left unbound makes the
\* rescan that is due rebind.
THEOREM ProbesKeepTheirSlots == W1Spec => []W1Inv
BY SlotsInductive, W1IndHolds, PTL

\* Only teaching, assigning or clearing takes a ROM from its slot, and from one slot at most,
\* though each rebinds all of them; and a slot turns healthy only through its own device, even
\* where a scan on the shell thread reshuffled the driver's indices under a read.
THEOREM SlotsOnlyByTeaching == W1Spec => SlotsStay
<1> DEFINE A ==
      /\ \A s, t \in W1Slot : Keeps(s) \/ Keeps(t) \/ s = t
      /\ (\A s \in W1Slot : Keeps(s)) \/ (\E s \in W1Slot : Touches(s))
      /\ \A s \in W1Slot : slots'[s].state = "ok" /\ slots[s].state # "ok"
           => slots'[s].rom \in plugged /\ slots'[s].rom \in known'
<1>1. W1Ind /\ [W1Next]_w1Vars => [A]_w1Vars
  BY NextStep DEF StepOk
<1>2. [][A]_w1Vars => SlotsStay
  BY PTL DEF SlotsStay
<1> HIDE DEF A
<1> QED BY SlotsInductive, <1>1, <1>2, PTL DEF W1Spec

-----------------------------------------------------------------------------
(* The size of a page                                                        *)

Sums(f, sizes, page) ==
  /\ f \in [0..Len(page) -> Nat]
  /\ f[0] = 0 /\ \A i \in 1..Len(page) : f[i] = f[i - 1] + sizes[page[i]]

\* Total is what its recursion says.
LEMMA TotalRecurs ==
  ASSUME NEW sizes \in Seq(Nat), NEW page \in Seq(DOMAIN sizes)
  PROVE  \E f : Sums(f, sizes, page) /\ Total(sizes, page) = f[Len(page)]
<1> DEFINE n == Len(page)
           F == [x \in Nat \X (1..n) |-> x[1] + sizes[page[x[2]]]]
           Body(f) == [i \in 0..n |-> IF i = 0 THEN 0 ELSE f[i - 1] + sizes[page[i]]]
<1>1. n \in Nat /\ \A i \in 1..n : sizes[page[i]] \in Nat
  OBVIOUS
<1>2. \A r \in Nat, i \in 1..n : F[<<r, i>>] = r + sizes[page[i]]
  OBVIOUS
<1> HIDE DEF F
<1>3. \A r \in Nat, i \in 1..n : F[<<r, i>>] \in Nat
  <2> SUFFICES ASSUME NEW r \in Nat, NEW i \in 1..n PROVE F[<<r, i>>] \in Nat
    OBVIOUS
  <2>1. sizes[page[i]] \in Nat /\ F[<<r, i>>] = r + sizes[page[i]]
    BY <1>1, <1>2, Zenon
  <2> HIDE DEF n
  <2> QED BY <2>1
<1>4. PICK f \in [0..n -> Nat] : Climbs(f, n, 0, F)
  <2> HIDE DEF n
  <2> QED BY <1>1, <1>3, Recurs, Zenon
<1>5. ASSUME NEW i \in 0..n PROVE f[i] = IF i = 0 THEN 0 ELSE f[i - 1] + sizes[page[i]]
  <2>1. i # 0 => i \in 1..n /\ i - 1 \in 0..n /\ f[i - 1] \in Nat
    <3> HIDE DEF n
    <3> QED BY <1>1
  <2> QED BY <1>2, <1>4, <2>1 DEF Climbs
<1>6. f = Body(f)
  BY <1>5
<1> DEFINE go == CHOOSE h : h = Body(h)
<1>7. go = Body(go)
  <2> HIDE DEF Body
  <2> QED BY <1>6
<1>8. Total(sizes, page) = go[n]
  BY DEF Total
<1> HIDE DEF go
<1>9. go[0] = 0 /\ \A i \in 1..n : go[i] = go[i - 1] + sizes[page[i]]
  <2>1. n \in Nat
    BY <1>1
  <2> HIDE DEF n
  <2>2. \A i \in 0..n : go[i] = IF i = 0 THEN 0 ELSE go[i - 1] + sizes[page[i]]
    BY <1>7
  <2> QED BY <2>1, <2>2
<1>10. \A i \in 0..n : go[i] \in Nat
  <2> DEFINE Q == {i \in 0..n : go[i] \in Nat}
  <2>1. 0 \in Q
    BY <1>1, <1>9
  <2>2. \A i \in 0..n : i \in Q /\ i < n => i + 1 \in Q
    <3>1. n \in Nat
      BY <1>1
    <3> HIDE DEF n
    <3> SUFFICES ASSUME NEW i \in 0..n, go[i] \in Nat, i < n PROVE go[i + 1] \in Nat
      BY <3>1
    <3>2. i + 1 \in 1..n /\ (i + 1) - 1 = i
      BY <3>1
    <3>3. go[i + 1] = go[i] + sizes[page[i + 1]] /\ sizes[page[i + 1]] \in Nat
      BY <1>1, <1>9, <3>2
    <3> QED BY <3>3
  <2> HIDE DEF n
  <2>3. \A i \in 0..n : i \in Q
    <3> HIDE DEF Q
    <3> QED BY <1>1, <2>1, <2>2, CountsUp
  <2> QED BY <2>3
<1>11. go \in [0..n -> Nat]
  <2>1. go = [i \in 0..n |-> go[i]]
    BY <1>7
  <2> QED BY <1>10, <2>1
<1>12. Sums(go, sizes, page)
  BY <1>9, <1>11 DEF Sums
<1> QED BY <1>8, <1>12

LEMMA SumsAre ==
  ASSUME NEW sizes \in Seq(Nat), NEW page \in Seq(DOMAIN sizes), NEW f, Sums(f, sizes, page)
  PROVE  /\ Len(page) \in Nat /\ \A k \in 0..Len(page) : f[k] \in Nat
         /\ \A k \in 1..Len(page) : f[k] = f[k - 1] + sizes[page[k]] /\ sizes[page[k]] \in Nat
<1>1. Len(page) \in Nat /\ \A k \in 1..Len(page) : sizes[page[k]] \in Nat
  OBVIOUS
<1>2. f \in [0..Len(page) -> Nat]
  BY DEF Sums
<1>3. \A k \in 0..Len(page) : f[k] \in Nat
  BY <1>2
<1>4. \A k \in 1..Len(page) : f[k] = f[k - 1] + sizes[page[k]]
  BY DEF Sums
<1> QED BY <1>1, <1>3, <1>4, Zenon


\* x is a run of y, from behind its first o units on.
RunOf(x, y, o) ==
  o + Len(x) <= Len(y) /\ \A i \in 1..Len(x) : x[i] = y[o + i]

\* No unit makes a page smaller.
LEMMA SumsGrow ==
  ASSUME NEW sizes \in Seq(Nat), NEW page \in Seq(DOMAIN sizes), NEW f, Sums(f, sizes, page),
         NEW i \in 0..Len(page)
  PROVE  f[i] <= f[Len(page)]
<1> DEFINE n == Len(page)
           Q == {k \in 0..n : k < i \/ f[i] <= f[k]}
<1>1. n \in Nat /\ i \in 0..n /\ \A k \in 0..n : f[k] \in Nat
  BY SumsAre
<1>2. \A k \in 1..n : f[k] = f[k - 1] + sizes[page[k]] /\ sizes[page[k]] \in Nat
  BY SumsAre
<1> HIDE DEF n
<1>3. 0 \in Q
  BY <1>1
<1>4. \A k \in 0..n : k \in Q /\ k < n => k + 1 \in Q
  <2> SUFFICES ASSUME NEW k \in 0..n, k \in Q, k < n, k + 1 >= i PROVE f[i] <= f[k + 1]
    BY <1>1
  <2>1. k + 1 \in 1..n /\ (k + 1) - 1 = k /\ k + 1 \in 0..n
    BY <1>1
  <2>2. f[k] <= f[k + 1]
    <3>1. f[k + 1] = f[(k + 1) - 1] + sizes[page[k + 1]] /\ sizes[page[k + 1]] \in Nat
      BY <1>2, <2>1, Zenon
    <3>2. f[k] \in Nat
      BY <1>1
    <3> QED BY <2>1, <3>1, <3>2
  <2>3. CASE i = k + 1
    BY <1>1, <2>3
  <2>4. CASE i # k + 1
    <3>1. f[i] <= f[k]
      BY <1>1, <2>4
    <3> QED BY <1>1, <2>1, <2>2, <3>1
  <2> QED BY <2>3, <2>4
<1>5. \A k \in 0..n : k \in Q
  <2> HIDE DEF Q
  <2> QED BY <1>1, <1>3, <1>4, CountsUp
<1>6. n \in Q
  BY <1>1, <1>5
<1> QED BY <1>1, <1>6 DEF n

\* A run of a page is no bigger than the page.
LEMMA TotalPart ==
  ASSUME NEW sizes \in Seq(Nat), NEW x \in Seq(DOMAIN sizes), NEW y \in Seq(DOMAIN sizes),
         NEW o \in Nat, RunOf(x, y, o)
  PROVE  Total(sizes, x) \in Nat /\ Total(sizes, y) \in Nat
         /\ Total(sizes, x) <= Total(sizes, y)
<1>1. PICK f : Sums(f, sizes, y) /\ Total(sizes, y) = f[Len(y)]
  BY TotalRecurs
<1>2. PICK h : Sums(h, sizes, x) /\ Total(sizes, x) = h[Len(x)]
  BY TotalRecurs
<1> DEFINE n == Len(x)
           m == Len(y)
           Q == {k \in 0..n : f[o + k] = h[k] + f[o]}
<1>3. n \in Nat /\ m \in Nat /\ o + n <= m /\ \A k \in 1..n : x[k] = y[o + k]
  <2>1. n \in Nat /\ m \in Nat
    BY LenProperties
  <2>2. o + n <= m
    BY DEF RunOf
  <2>3. \A k \in 1..n : x[k] = y[o + k]
    BY DEF RunOf
  <2> QED BY <2>1, <2>2, <2>3
<1>4. /\ \A k \in 0..m : f[k] \in Nat
      /\ \A k \in 1..m : f[k] = f[k - 1] + sizes[y[k]] /\ sizes[y[k]] \in Nat
  BY <1>1, SumsAre
<1>a. /\ \A k \in 0..n : h[k] \in Nat
      /\ \A k \in 1..n : h[k] = h[k - 1] + sizes[x[k]]
  BY <1>2, SumsAre
<1>b. h[0] = 0
  BY <1>2 DEF Sums
<1>5. /\ h[0] = 0 /\ \A k \in 0..n : h[k] \in Nat
      /\ \A k \in 1..n : h[k] = h[k - 1] + sizes[x[k]]
  BY <1>a, <1>b
<1>6. f[o + n] <= f[m]
  BY <1>1, <1>3, SumsGrow
<1> HIDE DEF n, m
<1>7. 0 \in Q
  BY <1>3, <1>4, <1>5
<1>8. ASSUME NEW k \in 0..n, k \in Q, k < n PROVE k + 1 \in Q
  <2>1. k + 1 \in 1..n /\ (k + 1) - 1 = k /\ k + 1 \in 0..n
    BY <1>3, <1>8
  <2>a. f[o + k] = h[k] + f[o]
    BY <1>8
  <2>2. o + (k + 1) \in 1..m /\ (o + (k + 1)) - 1 = o + k /\ o \in 0..m
    BY <1>3, <1>8
  <2>3. f[o + (k + 1)] = f[o + k] + sizes[y[o + (k + 1)]] /\ sizes[y[o + (k + 1)]] \in Nat
    BY <1>4, <2>2
  <2>4. h[k + 1] = h[k] + sizes[y[o + (k + 1)]]
    BY <1>3, <1>5, <2>1
  <2>5. f[o] \in Nat /\ h[k] \in Nat /\ f[o + k] = h[k] + f[o]
    BY <1>4, <1>5, <2>2, <2>a
  <2>6. f[o + (k + 1)] = h[k + 1] + f[o]
    <3> HIDE DEF Q
    <3> QED BY <2>3, <2>4, <2>5
  <2> QED BY <2>1, <2>6
<1>9. \A k \in 0..n : k \in Q
  <2> HIDE DEF Q
  <2> QED BY <1>3, <1>7, <1>8, CountsUp
<1>10. f[o + n] = h[n] + f[o]
  BY <1>3, <1>9
<1>11. f[o] \in Nat /\ h[n] \in Nat /\ f[m] \in Nat
  BY <1>3, <1>4, <1>5
<1> QED BY <1>1, <1>2, <1>6, <1>10, <1>11 DEF n, m

LEMMA PartFits ==
  ASSUME NEW a, a.units \in Seq(Nat), NEW x \in Seq(DOMAIN a.units),
         NEW y \in Seq(DOMAIN a.units), NEW o \in Nat, RunOf(x, y, o), NEW cap \in Nat,
         Fits(a, y, cap)
  PROVE  Fits(a, x, cap)
<1>1. /\ Total(a.units, x) \in Nat /\ Total(a.units, y) \in Nat
      /\ Total(a.units, x) <= Total(a.units, y)
  BY TotalPart
<1>2. Envelope \in Nat
  BY BudgetAssumption
<1> QED BY <1>1, <1>2 DEF Fits, SizeOf


-----------------------------------------------------------------------------
(* The greedy layout                                                         *)

\* The alarms of a page are one run: w may come right behind v.
Joins(a, v, w) == ~(IsAlarm(a, w) /\ IsAlarm(a, v) /\ v # w - 1)

\* Page p tells the units of s behind ends[p - 1], up to ends[p].
Page(a, cap, s, ends, page, p) ==
  /\ page \in Seq(DOMAIN a.units)
  /\ ends[p - 1] < ends[p] /\ Len(page) = ends[p] - ends[p - 1]
  /\ \A i \in 1..Len(page) : page[i] = s[ends[p - 1] + i]
  /\ Fits(a, page, cap)
  /\ \A i \in 2..Len(page) : Joins(a, page[i - 1], page[i])
\* Page p has no room for the unit that opens the next.
Closed(a, cap, s, ends, page, p) ==
  ~(Joins(a, s[ends[p]], s[ends[p] + 1]) /\ Fits(a, Append(page, s[ends[p] + 1]), cap))
\* s tells the units up to u that fit, once and in order.
Tells(a, cap, s, u) ==
  /\ s \in Seq(1..u)
  /\ \A i, j \in 1..Len(s) : i < j => s[i] < s[j]
  /\ \A v \in 1..u : Fits(a, <<v>>, cap) <=> \E i \in 1..Len(s) : s[i] = v
Ends(ends, n, m) == ends \in [0..n -> 0..m] /\ ends[0] = 0 /\ ends[n] = m

Laid(a, cap, pages, u, s, ends) ==
  /\ pages \in Seq(Seq(DOMAIN a.units))
  /\ Tells(a, cap, s, u)
  /\ Ends(ends, Len(pages), Len(s))
  /\ \A p \in 1..Len(pages) : Page(a, cap, s, ends, pages[p], p)
  /\ \A p \in 1..(Len(pages) - 1) : Closed(a, cap, s, ends, pages[p], p)

LEMMA PageKeeps ==
  ASSUME NEW a, NEW cap, NEW s, NEW t, NEW e, NEW f, NEW page, NEW p,
         Page(a, cap, s, e, page, p), f[p] = e[p], f[p - 1] = e[p - 1],
         e[p - 1] \in Nat, e[p] \in Nat, \A i \in 1..e[p] : t[i] = s[i]
  PROVE  Page(a, cap, t, f, page, p)
<1>1. \A i \in 1..Len(page) : e[p - 1] + i \in 1..e[p]
  <2>1. Len(page) = e[p] - e[p - 1]
    BY DEF Page
  <2> QED BY <2>1
<1>2. \A i \in 1..Len(page) : page[i] = t[f[p - 1] + i]
  BY <1>1 DEF Page
<1> QED BY <1>2 DEF Page

LEMMA TellsMore ==
  ASSUME NEW a, NEW cap, NEW u \in Nat, NEW s, Tells(a, cap, s, u), Fits(a, <<u + 1>>, cap)
  PROVE  Tells(a, cap, Append(s, u + 1), u + 1)
<1> DEFINE w == u + 1
           t == Append(s, w)
<1>1. s \in Seq(1..u) /\ \A i, j \in 1..Len(s) : i < j => s[i] < s[j]
  BY DEF Tells
<1>2. \A v \in 1..u : Fits(a, <<v>>, cap) <=> \E i \in 1..Len(s) : s[i] = v
  BY DEF Tells
<1>3. w \in Nat /\ \A v \in 1..u : v \in 1..w /\ v < w
  OBVIOUS
<1>4. \A v \in 1..w : v = w \/ v \in 1..u
  OBVIOUS
<1>a. 1..u \subseteq 1..w /\ w \in 1..w
  OBVIOUS
<1> HIDE DEF w
<1>5. s \in Seq(1..w) /\ w \in 1..w
  BY <1>1, <1>a, SeqMonotonic
<1>6. /\ t \in Seq(1..w) /\ Len(t) = Len(s) + 1 /\ t[Len(s) + 1] = w
      /\ \A i \in 1..Len(s) : t[i] = s[i]
  BY <1>5, AppendProperties
<1>7. Len(s) \in Nat /\ \A i \in 1..Len(s) : s[i] \in 1..u
  BY <1>1
<1> HIDE DEF t
<1>8. \A i, j \in 1..Len(t) : i < j => t[i] < t[j]
  <2> SUFFICES ASSUME NEW i \in 1..Len(t), NEW j \in 1..Len(t), i < j PROVE t[i] < t[j]
    OBVIOUS
  <2>1. i \in 1..Len(s)
    BY <1>6, <1>7
  <2>2. CASE j = Len(s) + 1
    BY <1>3, <1>6, <1>7, <2>1, <2>2
  <2>3. CASE j # Len(s) + 1
    <3>1. j \in 1..Len(s)
      BY <1>6, <1>7, <2>3
    <3> QED BY <1>1, <1>6, <2>1, <3>1
  <2> QED BY <2>2, <2>3
<1>9. ASSUME NEW v \in 1..w PROVE Fits(a, <<v>>, cap) <=> \E i \in 1..Len(t) : t[i] = v
  <2>1. CASE v = w
    <3>1. Len(s) + 1 \in 1..Len(t)
      BY <1>6, <1>7
    <3> QED BY <1>6, <2>1, <3>1 DEF w
  <2>2. CASE v # w
    <3>1. v \in 1..u
      BY <1>4, <2>2
    <3>2. \A i \in 1..Len(t) : i \in 1..Len(s) \/ i = Len(s) + 1
      BY <1>6, <1>7
    <3>3. \A i \in 1..Len(s) : i \in 1..Len(t)
      BY <1>6, <1>7
    <3>4. (\E i \in 1..Len(t) : t[i] = v) <=> \E i \in 1..Len(s) : s[i] = v
      BY <1>6, <2>2, <3>2, <3>3, Zenon
    <3> QED BY <1>2, <3>1, <3>4
  <2> QED BY <2>1, <2>2
<1>10. Tells(a, cap, t, w)
  BY <1>6, <1>8, <1>9 DEF Tells
<1> QED BY <1>10 DEF t, w

LEMMA TellsAsMuch ==
  ASSUME NEW a, NEW cap, NEW u \in Nat, NEW s, Tells(a, cap, s, u), ~Fits(a, <<u + 1>>, cap)
  PROVE  Tells(a, cap, s, u + 1)
<1>1. s \in Seq(1..u) /\ \A i, j \in 1..Len(s) : i < j => s[i] < s[j]
  BY DEF Tells
<1>2. \A v \in 1..u : Fits(a, <<v>>, cap) <=> \E i \in 1..Len(s) : s[i] = v
  BY DEF Tells
<1>3. \A v \in 1..(u + 1) : v = u + 1 \/ v \in 1..u
  OBVIOUS
<1>4. 1..u \subseteq 1..(u + 1) /\ u + 1 \notin 1..u
  OBVIOUS
<1>5. s \in Seq(1..(u + 1))
  BY <1>1, <1>4, SeqMonotonic
<1>6. \A i \in 1..Len(s) : s[i] # u + 1
  BY <1>1, <1>4
<1>7. \A v \in 1..(u + 1) : Fits(a, <<v>>, cap) <=> \E i \in 1..Len(s) : s[i] = v
  BY <1>2, <1>3, <1>6
<1> QED BY <1>1, <1>5, <1>7 DEF Tells


\* A sequence of one.
LEMMA OneLong ==
  ASSUME NEW S, NEW x \in S
  PROVE  <<x>> \in Seq(S) /\ Len(<<x>>) = 1 /\ <<x>>[1] = x
  OBVIOUS

\* Where pages laid out end.
LEMMA LaidEnds ==
  ASSUME NEW a, NEW cap, NEW pages, NEW u, NEW s, NEW ends, Laid(a, cap, pages, u, s, ends)
  PROVE  /\ Len(pages) \in Nat /\ Len(s) \in Nat
         /\ \A p \in 0..Len(pages) : ends[p] \in 0..Len(s)
         /\ \A p \in 1..Len(pages) : ends[p - 1] < ends[p] /\ ends[p] \in 1..Len(s)
         /\ \A p \in 1..(Len(pages) - 1) : ends[p] + 1 \in 1..Len(s)
         /\ ends[0] = 0 /\ ends[Len(pages)] = Len(s)
<1> DEFINE n == Len(pages)
           m == Len(s)
<1>1. n \in Nat /\ m \in Nat
  BY DEF Laid, Tells
<1>2. ends \in [0..n -> 0..m] /\ ends[0] = 0 /\ ends[n] = m
  BY DEF Laid, Ends
<1>3. \A p \in 1..n : ends[p - 1] < ends[p]
  BY DEF Laid, Page
<1> HIDE DEF n, m
<1>4. \A p \in 0..n : ends[p] \in 0..m
  BY <1>2
<1>5. ASSUME NEW p \in 1..n PROVE ends[p] \in 1..m
  <2>1. p \in 0..n /\ p - 1 \in 0..n
    BY <1>1
  <2>2. ends[p] \in 0..m /\ ends[p - 1] \in 0..m /\ ends[p - 1] < ends[p]
    BY <1>3, <1>4, <2>1
  <2> QED BY <1>1, <2>2
<1>6. ASSUME NEW p \in 1..(n - 1) PROVE ends[p] + 1 \in 1..m
  <2>1. p + 1 \in 1..n /\ (p + 1) - 1 = p /\ p \in 1..n
    BY <1>1
  <2>2. ends[p] < ends[p + 1] /\ ends[p] \in 1..m /\ ends[p + 1] \in 1..m
    BY <1>3, <1>5, <2>1
  <2> QED BY <1>1, <2>2
<1>7. \A p \in 1..n : ends[p - 1] < ends[p] /\ ends[p] \in 1..m
  BY <1>3, <1>5
<1> QED BY <1>1, <1>2, <1>4, <1>6, <1>7 DEF n, m

Kept(a, cap, pages, t, f, k) ==
  /\ \A p \in 1..k : Page(a, cap, t, f, pages[p], p)
  /\ \A p \in 1..k : p < Len(pages) => Closed(a, cap, t, f, pages[p], p)

Follows(s, t, e, f, k) ==
  (\A i \in 1..Len(s) : t[i] = s[i]) /\ \A p \in 0..k : f[p] = e[p]

\* What is laid out stays so when the last page, or the next one, is added to.
LEMMA LaidKeeps ==
  ASSUME NEW a, NEW cap, NEW pages, NEW u, NEW s, NEW ends, Laid(a, cap, pages, u, s, ends),
         NEW t, NEW f, NEW k \in 0..Len(pages), Follows(s, t, ends, f, k)
  PROVE  Kept(a, cap, pages, t, f, k)
<1> DEFINE n == Len(pages)
           m == Len(s)
<1>1. /\ n \in Nat /\ m \in Nat /\ k \in 0..n
      /\ \A p \in 0..n : ends[p] \in 0..m
      /\ \A p \in 1..n : ends[p - 1] < ends[p] /\ ends[p] \in 1..m
      /\ \A p \in 1..(n - 1) : ends[p] + 1 \in 1..m
  BY LaidEnds
<1>2. \A p \in 1..n : Page(a, cap, s, ends, pages[p], p)
  BY DEF Laid
<1>3. \A p \in 1..(n - 1) : Closed(a, cap, s, ends, pages[p], p)
  BY DEF Laid
<1>4. (\A i \in 1..m : t[i] = s[i]) /\ \A p \in 0..k : f[p] = ends[p]
  BY DEF Follows
<1> HIDE DEF n, m
<1>5. ASSUME NEW p \in 1..k PROVE Page(a, cap, t, f, pages[p], p)
  <2>1. p \in 1..n /\ p \in 0..n /\ p - 1 \in 0..n /\ p \in 0..k /\ p - 1 \in 0..k
    BY <1>1
  <2>2. ends[p] \in 0..m /\ ends[p - 1] \in 0..m
    BY <1>1, <2>1
  <2>3. ends[p] \in Nat /\ ends[p - 1] \in Nat /\ \A i \in 1..ends[p] : i \in 1..m
    BY <1>1, <2>2
  <2>4. f[p] = ends[p] /\ f[p - 1] = ends[p - 1]
    BY <1>4, <2>1
  <2>5. \A i \in 1..ends[p] : t[i] = s[i]
    BY <1>4, <2>3
  <2>6. Page(a, cap, s, ends, pages[p], p)
    BY <1>2, <2>1
  <2> QED BY <2>3, <2>4, <2>5, <2>6, PageKeeps
<1>6. ASSUME NEW p \in 1..k, p < n PROVE Closed(a, cap, t, f, pages[p], p)
  <2>1. p \in 1..(n - 1) /\ p \in 1..n /\ p \in 0..k
    BY <1>1, <1>6
  <2>2. t[ends[p]] = s[ends[p]] /\ t[ends[p] + 1] = s[ends[p] + 1] /\ f[p] = ends[p]
    BY <1>1, <1>4, <2>1
  <2> QED BY <1>3, <2>1, <2>2 DEF Closed
<1> QED BY <1>5, <1>6 DEF n, Kept

LEMMA LaidKeepsFront ==
  ASSUME NEW a, NEW cap, NEW pages, NEW u, NEW s, NEW ends, Laid(a, cap, pages, u, s, ends),
         NEW t, NEW f, Follows(s, t, ends, f, Len(pages) - 1), Len(pages) >= 1
  PROVE  Kept(a, cap, pages, t, f, Len(pages) - 1)
<1> DEFINE k == Len(pages) - 1
<1>1. k \in 0..Len(pages) /\ Follows(s, t, ends, f, k)
  BY LaidEnds
<1> HIDE DEF k
<1>2. Kept(a, cap, pages, t, f, k)
  BY <1>1, LaidKeeps
<1> QED BY <1>2 DEF k

\* The unit that does not fit even alone.
LEMMA LaidSkip ==
  ASSUME NEW a, NEW cap, NEW pages, NEW u \in Nat, NEW s, NEW ends,
         Laid(a, cap, pages, u, s, ends), ~Fits(a, <<u + 1>>, cap)
  PROVE  Laid(a, cap, pages, u + 1, s, ends)
<1>1. Tells(a, cap, s, u + 1)
  BY TellsAsMuch DEF Laid
<1> QED BY <1>1 DEF Laid

\* The unit that opens a page.
LEMMA LaidOpen ==
  ASSUME NEW a, NEW cap, NEW pages, NEW u \in Nat, NEW s, NEW ends,
         Laid(a, cap, pages, u, s, ends), u + 1 \in DOMAIN a.units, Fits(a, <<u + 1>>, cap),
         pages # <<>> => ~(Joins(a, Last(Last(pages)), u + 1)
                           /\ Fits(a, Append(Last(pages), u + 1), cap))
  PROVE  \E t, f : Laid(a, cap, Append(pages, <<u + 1>>), u + 1, t, f)
<1> DEFINE w == u + 1
           n == Len(pages)
           m == Len(s)
           t == Append(s, w)
           q == Append(pages, <<w>>)
           f == [p \in 0..(n + 1) |-> IF p = n + 1 THEN m + 1 ELSE ends[p]]
<1>1. /\ n \in Nat /\ m \in Nat
      /\ \A p \in 0..n : ends[p] \in 0..m
      /\ \A p \in 1..n : ends[p - 1] < ends[p] /\ ends[p] \in 1..m
      /\ ends[0] = 0 /\ ends[n] = m
  BY LaidEnds
<1>2. pages \in Seq(Seq(DOMAIN a.units)) /\ s \in Seq(Nat)
  <2>1. 1..u \subseteq Nat /\ s \in Seq(1..u)
    BY DEF Laid, Tells
  <2> QED BY <2>1, SeqMonotonic DEF Laid
<1>3. Tells(a, cap, t, w)
  BY TellsMore DEF Laid
<1>4. <<w>> \in Seq(DOMAIN a.units) /\ Len(<<w>>) = 1 /\ <<w>>[1] = w /\ w \in Nat
  <2>1. w \in Nat
    OBVIOUS
  <2>2. w \in DOMAIN a.units
    OBVIOUS
  <2> HIDE DEF w
  <2>3. <<w>> \in Seq(DOMAIN a.units)
    BY <2>2, OneLong
  <2> QED BY <2>1, <2>3
<1>5. /\ q \in Seq(Seq(DOMAIN a.units)) /\ Len(q) = n + 1 /\ q[n + 1] = <<w>>
      /\ \A p \in 1..n : q[p] = pages[p]
  <2> HIDE DEF w
  <2> QED BY <1>2, <1>4, AppendProperties
<1>6. Len(t) = m + 1 /\ t[m + 1] = w /\ \A i \in 1..m : t[i] = s[i]
  <2> HIDE DEF w
  <2> QED BY <1>2, <1>4, AppendProperties
<1>7. f[n + 1] = m + 1 /\ \A p \in 0..n : f[p] = ends[p]
  <2> HIDE DEF n, m
  <2> QED BY <1>1
<1>a. f \in [0..(n + 1) -> 0..(m + 1)]
  <2> HIDE DEF n, m
  <2> QED BY <1>1
<1>8. Ends(f, Len(q), Len(t))
  <2> HIDE DEF f, t, q
  <2>1. f[0] = 0
    <3> HIDE DEF n
    <3> QED BY <1>1, <1>7
  <2> QED BY <1>5, <1>6, <1>7, <1>a, <2>1 DEF Ends
<1>9. /\ \A p \in 1..n : Page(a, cap, t, f, pages[p], p)
      /\ \A p \in 1..n : p < n => Closed(a, cap, t, f, pages[p], p)
  <2>1. n \in 0..n
    <3> HIDE DEF n
    <3> QED BY <1>1
  <2>a. Follows(s, t, ends, f, n)
    <3> HIDE DEF f, t
    <3> QED BY <1>6, <1>7 DEF Follows
  <2> HIDE DEF f, t
  <2>2. Kept(a, cap, pages, t, f, n)
    BY <2>1, <2>a, LaidKeeps
  <2> QED BY <2>2 DEF Kept
<1>10. Page(a, cap, t, f, <<w>>, n + 1)
  <2>1. Fits(a, <<w>>, cap)
    OBVIOUS
  <2>2. f[(n + 1) - 1] = m /\ f[n + 1] = m + 1
    <3> HIDE DEF n, f
    <3> QED BY <1>1, <1>7
  <2> HIDE DEF f, t, n, m, w
  <2>3. /\ <<w>> \in Seq(DOMAIN a.units)
        /\ f[(n + 1) - 1] < f[n + 1] /\ Len(<<w>>) = f[n + 1] - f[(n + 1) - 1]
    BY <1>1, <1>4, <2>2
  <2>4. \A i \in 1..Len(<<w>>) : i = 1
    OBVIOUS
  <2>5. \A i \in 1..Len(<<w>>) : <<w>>[i] = t[f[(n + 1) - 1] + i]
    BY <1>4, <1>6, <2>2, <2>4
  <2>6. \A i \in 2..Len(<<w>>) : FALSE
    OBVIOUS
  <2> QED BY <2>1, <2>3, <2>5, <2>6, Zenon DEF Page
<1>11. ASSUME n >= 1 PROVE Closed(a, cap, t, f, pages[n], n)
  <2>1. pages # <<>> /\ Last(pages) = pages[n]
    BY <1>11 DEF Last
  <2>2. Page(a, cap, s, ends, pages[n], n) /\ n \in 1..n
    BY <1>1, <1>11 DEF Laid
  <2>3. Len(pages[n]) = m - ends[n - 1] /\ \A i \in 1..Len(pages[n]) : pages[n][i] = s[ends[n - 1] + i]
    BY <1>1, <2>2 DEF Page
  <2>4. Last(Last(pages)) = s[m]
    <3>1. ends[n - 1] < ends[n] /\ ends[n - 1] \in 0..m
      <4> HIDE DEF n, m
      <4> QED BY <1>1, <1>11, <2>2
    <3>2. Len(pages[n]) \in 1..Len(pages[n]) /\ ends[n - 1] + Len(pages[n]) = m
      <4> HIDE DEF n, m
      <4> QED BY <1>1, <2>3, <3>1
    <3> QED BY <2>1, <2>3, <3>2 DEF Last
  <2>5. f[n] = m /\ t[f[n]] = s[m] /\ t[f[n] + 1] = w
    <3>1. m \in 1..m /\ n \in 0..n
      <4> HIDE DEF n, m
      <4> QED BY <1>1, <2>2
    <3> HIDE DEF f, t, n, m
    <3> QED BY <1>1, <1>6, <1>7, <3>1
  <2> HIDE DEF f, t, n, m
  <2> QED BY <2>1, <2>4, <2>5 DEF Closed, w
<1>12. Laid(a, cap, q, w, t, f)
  <2>1. \A p \in 1..(n + 1) : Page(a, cap, t, f, q[p], p)
    <3>1. \A p \in 1..(n + 1) : p = n + 1 \/ p \in 1..n
      <4> HIDE DEF n
      <4> QED BY <1>1
    <3> HIDE DEF f, t, n, m, w, q
    <3> QED BY <1>5, <1>9, <1>10, <3>1, Zenon
  <2>2. \A p \in 1..((n + 1) - 1) : Closed(a, cap, t, f, q[p], p)
    <3>1. \A p \in 1..((n + 1) - 1) : p \in 1..n /\ (p < n \/ (p = n /\ n >= 1))
      <4> HIDE DEF n
      <4> QED BY <1>1
    <3> HIDE DEF f, t, n, m, w, q
    <3> QED BY <1>5, <1>9, <1>11, <3>1, Zenon
  <2> HIDE DEF f, t, m, w, q
  <2> QED BY <1>3, <1>5, <1>8, <2>1, <2>2 DEF Laid
<1>13. \E x, y : Laid(a, cap, q, w, x, y)
  <2> HIDE DEF f, t, q, w
  <2> QED BY <1>12
<1> QED BY <1>13 DEF q, w


LEMMA FrontIs ==
  ASSUME NEW S, NEW q \in Seq(S), q # <<>>
  PROVE  /\ Front(q) \in Seq(S) /\ Len(Front(q)) = Len(q) - 1
         /\ \A i \in 1..(Len(q) - 1) : Front(q)[i] = q[i]
<1> DEFINE k == Len(q) - 1
<1>1. k \in Nat /\ \A i \in 1..k : q[i] \in S
  OBVIOUS
<1>2. Front(q) = SubSeq(q, 1, k)
  BY DEF Front
<1> HIDE DEF k
<1>3. /\ SubSeq(q, 1, k) \in Seq(S)
      /\ Len(SubSeq(q, 1, k)) = IF 1 <= k THEN k - 1 + 1 ELSE 0
      /\ \A i \in 1..(k - 1 + 1) : SubSeq(q, 1, k)[i] = q[1 + i - 1]
  BY <1>1, SubSeqProperties
<1>4. Len(SubSeq(q, 1, k)) = k /\ \A i \in 1..k : SubSeq(q, 1, k)[i] = q[i]
  BY <1>1, <1>3
<1> QED BY <1>2, <1>3, <1>4 DEF k

\* The last element is replaced.
LEMMA LastSet ==
  ASSUME NEW S, NEW q \in Seq(S), q # <<>>, NEW x \in S
  PROVE  /\ Front(q) \o <<x>> \in Seq(S) /\ Len(Front(q) \o <<x>>) = Len(q)
         /\ (Front(q) \o <<x>>)[Len(q)] = x
         /\ \A i \in 1..(Len(q) - 1) : (Front(q) \o <<x>>)[i] = q[i]
<1> DEFINE y == Front(q)
<1>1. y \in Seq(S) /\ Len(y) = Len(q) - 1 /\ \A i \in 1..(Len(q) - 1) : y[i] = q[i]
  BY FrontIs
<1> HIDE DEF y
<1>2. /\ y \o <<x>> \in Seq(S) /\ Len(y \o <<x>>) = Len(q) /\ (y \o <<x>>)[Len(q)] = x
      /\ \A i \in 1..(Len(q) - 1) : (y \o <<x>>)[i] = q[i]
  BY <1>1
<1> QED BY <1>2 DEF y

\* The unit that joins the last page.
LEMMA LaidJoin ==
  ASSUME NEW a, NEW cap \in Nat, a.units \in Seq(Nat), NEW pages, NEW u \in Nat, NEW s, NEW ends,
         Laid(a, cap, pages, u, s, ends), u + 1 \in DOMAIN a.units,
         pages # <<>>, Joins(a, Last(Last(pages)), u + 1),
         Fits(a, Append(Last(pages), u + 1), cap)
  PROVE  \E t, f : Laid(a, cap, Front(pages) \o <<Append(Last(pages), u + 1)>>, u + 1, t, f)
<1> DEFINE w == u + 1
           n == Len(pages)
           m == Len(s)
           t == Append(s, w)
           page == Append(pages[n], w)
           q == Front(pages) \o <<page>>
           f == [p \in 0..n |-> IF p = n THEN m + 1 ELSE ends[p]]
<1>1. /\ n \in Nat /\ m \in Nat
      /\ \A p \in 0..n : ends[p] \in 0..m
      /\ \A p \in 1..n : ends[p - 1] < ends[p] /\ ends[p] \in 1..m
      /\ ends[0] = 0 /\ ends[n] = m
  BY LaidEnds
<1>2. pages \in Seq(Seq(DOMAIN a.units)) /\ s \in Seq(Nat)
  <2>1. 1..u \subseteq Nat /\ s \in Seq(1..u)
    BY DEF Laid, Tells
  <2> QED BY <2>1, SeqMonotonic DEF Laid
<1>3. w \in Nat /\ w \in DOMAIN a.units
  OBVIOUS
<1>4. n >= 1
  BY <1>2
<1>a. /\ n \in 1..n /\ n \in 0..n /\ n - 1 \in 0..n /\ n - 1 \in Nat
      /\ \A p \in 1..(n - 1) : p \in 1..n /\ p < n
      /\ \A p \in 0..(n - 1) : p \in 0..n /\ p # n
      /\ \A p \in 1..n : p = n \/ p \in 1..(n - 1)
  <2> HIDE DEF n
  <2> QED BY <1>1, <1>4
<1>5. Page(a, cap, s, ends, pages[n], n)
  BY <1>a DEF Laid
<1>6. pages[n] \in Seq(DOMAIN a.units)
  BY <1>5 DEF Page
<1>7. /\ page \in Seq(DOMAIN a.units) /\ Len(page) = Len(pages[n]) + 1
      /\ \A i \in 1..Len(pages[n]) : page[i] = pages[n][i]
      /\ page[Len(pages[n]) + 1] = w
  <2> DEFINE x == pages[n]
  <2>1. x \in Seq(DOMAIN a.units) /\ page = Append(x, w)
    BY <1>6
  <2> HIDE DEF w, n, page, x
  <2>2. /\ page \in Seq(DOMAIN a.units) /\ Len(page) = Len(x) + 1
        /\ \A i \in 1..Len(x) : page[i] = x[i]
        /\ page[Len(x) + 1] = w
    BY <1>3, <2>1, AppendProperties
  <2> QED BY <2>2 DEF x
<1>8. Joins(a, pages[n][Len(pages[n])], w) /\ Fits(a, page, cap)
  BY DEF Last
<1>9. Len(t) = m + 1 /\ t[m + 1] = w /\ \A i \in 1..m : t[i] = s[i]
  <2> HIDE DEF w
  <2> QED BY <1>2, <1>3, AppendProperties
<1>10. f[n] = m + 1 /\ \A p \in 0..(n - 1) : f[p] = ends[p]
  <2>1. n \in 0..n /\ \A p \in 0..(n - 1) : p \in 0..n /\ p # n
    BY <1>a
  <2> HIDE DEF n, m
  <2> QED BY <2>1
<1>13. /\ q \in Seq(Seq(DOMAIN a.units)) /\ Len(q) = n
       /\ q[n] = page /\ \A p \in 1..(n - 1) : q[p] = pages[p]
  <2> DEFINE S == Seq(DOMAIN a.units)
  <2>1. pages \in Seq(S) /\ page \in S
    BY <1>2, <1>7
  <2> HIDE DEF page, S
  <2>2. /\ Front(pages) \o <<page>> \in Seq(S) /\ Len(Front(pages) \o <<page>>) = Len(pages)
        /\ (Front(pages) \o <<page>>)[Len(pages)] = page
        /\ \A i \in 1..(Len(pages) - 1) : (Front(pages) \o <<page>>)[i] = pages[i]
    BY <2>1, LastSet
  <2> QED BY <2>2 DEF S
<1>14. Tells(a, cap, t, w)
  <2>1. Fits(a, <<w>>, cap)
    <3>1. <<w>> \in Seq(DOMAIN a.units) /\ Len(<<w>>) = 1 /\ <<w>>[1] = w
      <4> HIDE DEF w
      <4> QED BY <1>3, OneLong
    <3>2. Len(pages[n]) \in Nat
      BY <1>6
    <3>3. RunOf(<<w>>, page, Len(pages[n]))
      <4>1. \A i \in 1..1 : i = 1
        OBVIOUS
      <4>2. Len(pages[n]) + Len(<<w>>) <= Len(page)
        <5> HIDE DEF page, w, n
        <5> QED BY <1>7, <3>1, <3>2
      <4> HIDE DEF page, w, n
      <4>3. \A i \in 1..Len(<<w>>) : <<w>>[i] = page[Len(pages[n]) + i]
        BY <1>7, <3>1, <4>1
      <4> QED BY <4>2, <4>3 DEF RunOf
    <3> HIDE DEF page, w, n
    <3> QED BY <1>7, <1>8, <3>1, <3>2, <3>3, PartFits
  <2> QED BY <2>1, TellsMore DEF Laid
<1>15. f \in [0..n -> 0..(m + 1)]
  <2> HIDE DEF n, m
  <2> QED BY <1>1
<1>16. Ends(f, Len(q), Len(t))
  <2> HIDE DEF f, t, q
  <2>1. f[0] = 0
    <3>1. 0 \in 0..(n - 1)
      <4> HIDE DEF n
      <4> QED BY <1>1, <1>4
    <3> HIDE DEF n
    <3> QED BY <1>1, <1>10, <3>1
  <2> QED BY <1>9, <1>10, <1>13, <1>15, <2>1 DEF Ends
<1>17. /\ \A p \in 1..(n - 1) : Page(a, cap, t, f, pages[p], p)
       /\ \A p \in 1..(n - 1) : p < n => Closed(a, cap, t, f, pages[p], p)
  <2>1. Len(pages) >= 1 /\ Follows(s, t, ends, f, Len(pages) - 1)
    BY <1>4, <1>9, <1>10 DEF Follows
  <2> HIDE DEF f, t, n, m, w, page, q
  <2>2. Kept(a, cap, pages, t, f, Len(pages) - 1)
    BY <2>1, LaidKeepsFront, Zenon
  <2> QED BY <2>2 DEF n, Kept
<1>18. Page(a, cap, t, f, page, n)
  <2>1. /\ ends[n - 1] < m /\ ends[n - 1] \in Nat /\ Len(pages[n]) = m - ends[n - 1]
        /\ f[n - 1] = ends[n - 1]
    <3>1. ends[n - 1] < ends[n] /\ Len(pages[n]) = ends[n] - ends[n - 1]
      BY <1>5 DEF Page
    <3>2. n - 1 \in 0..(n - 1) /\ ends[n - 1] \in 0..m
      <4> HIDE DEF n, m
      <4> QED BY <1>1, <1>a
    <3> HIDE DEF n, m
    <3> QED BY <1>1, <1>10, <3>1, <3>2
  <2>2. \A i \in 1..Len(pages[n]) : pages[n][i] = s[ends[n - 1] + i]
    BY <1>5 DEF Page
  <2>3. \A i \in 2..Len(pages[n]) : Joins(a, pages[n][i - 1], pages[n][i])
    BY <1>5 DEF Page
  <2> HIDE DEF f, t, n, m, w, page
  <2>b. /\ m \in Nat /\ f[n] = m + 1 /\ Len(page) = Len(pages[n]) + 1
    BY <1>1, <1>7, <1>10, Zenon
  <2>4. f[n - 1] < f[n] /\ Len(page) = f[n] - f[n - 1]
    BY <2>1, <2>b
  <2>5. ASSUME NEW i \in 1..Len(page) PROVE page[i] = t[f[n - 1] + i]
    <3>1. CASE i = Len(pages[n]) + 1
      <4>1. f[n - 1] + i = m + 1
        BY <1>1, <2>1, <3>1
      <4> QED BY <1>7, <1>9, <3>1, <4>1
    <3>2. CASE i # Len(pages[n]) + 1
      <4>1. i \in 1..Len(pages[n]) /\ ends[n - 1] + i \in 1..m
        BY <2>1, <2>b, <3>2
      <4> QED BY <1>7, <1>9, <2>1, <2>2, <4>1
    <3> QED BY <3>1, <3>2
  <2>6. ASSUME NEW i \in 2..Len(page) PROVE Joins(a, page[i - 1], page[i])
    <3>0. Len(pages[n]) \in Nat /\ Len(pages[n]) >= 1
      BY <2>1, <2>b
    <3>1. CASE i = Len(pages[n]) + 1
      <4> DEFINE k == Len(pages[n])
      <4>a. k \in Nat /\ k >= 1 /\ i = k + 1
        BY <3>0, <3>1
      <4>b. i - 1 = k /\ k \in 1..k
        <5> HIDE DEF k
        <5> QED BY <4>a
      <4>1. i - 1 = Len(pages[n]) /\ i - 1 \in 1..Len(pages[n])
        BY <4>b, Zenon
      <4> QED BY <1>7, <1>8, <3>1, <4>1
    <3>2. CASE i # Len(pages[n]) + 1
      <4>1. i \in 2..Len(pages[n]) /\ i \in 1..Len(pages[n]) /\ i - 1 \in 1..Len(pages[n])
        BY <1>7, <3>0, <3>2
      <4> QED BY <1>7, <2>3, <4>1
    <3> QED BY <3>1, <3>2
  <2> QED BY <1>7, <1>8, <2>4, <2>5, <2>6 DEF Page
<1>19. Laid(a, cap, q, w, t, f)
  <2>1. \A p \in 1..n : Page(a, cap, t, f, q[p], p)
    <3> HIDE DEF f, t, n, m, w, q, page
    <3> QED BY <1>13, <1>17, <1>18, <1>a, Zenon
  <2>2. \A p \in 1..(n - 1) : Closed(a, cap, t, f, q[p], p)
    <3> HIDE DEF f, t, n, m, w, q, page
    <3> QED BY <1>13, <1>17, <1>a, Zenon
  <2> HIDE DEF f, t, m, w, q, page
  <2> QED BY <1>14, <1>13, <1>16, <2>1, <2>2 DEF Laid
<1>20. \E x, y : Laid(a, cap, q, w, x, y)
  <2> HIDE DEF f, t, q, w
  <2> QED BY <1>19
<1> QED BY <1>20 DEF q, w, page, n, Last

\* One step of the greedy layout, whichever branch it takes.
LEMMA LaidOneMore ==
  ASSUME NEW a, a.units \in Seq(Nat), NEW cap \in Nat, NEW pages, NEW u \in Nat, NEW s, NEW ends,
         Laid(a, cap, pages, u, s, ends), u + 1 \in DOMAIN a.units
  PROVE  \E t, f : Laid(a, cap, Packed(a, cap, pages, u + 1), u + 1, t, f)
<1>1. pages # <<>> => Last(pages) # <<>>
  <2> SUFFICES ASSUME pages # <<>> PROVE Last(pages) # <<>>
    OBVIOUS
  <2>1. pages \in Seq(Seq(DOMAIN a.units))
    BY DEF Laid
  <2>2. Len(pages) \in 1..Len(pages)
    BY <2>1
  <2>3. Page(a, cap, s, ends, pages[Len(pages)], Len(pages))
    BY <2>2 DEF Laid
  <2>4. ends[Len(pages) - 1] < ends[Len(pages)] /\ ends[Len(pages)] \in Nat /\ ends[Len(pages) - 1] \in Nat
    <3>1. /\ Len(pages) \in Nat /\ Len(s) \in Nat
          /\ \A p \in 0..Len(pages) : ends[p] \in 0..Len(s)
      BY LaidEnds
    <3>2. Len(pages) \in 0..Len(pages) /\ Len(pages) - 1 \in 0..Len(pages)
      BY <2>2, <3>1
    <3>3. ends[Len(pages)] \in 0..Len(s) /\ ends[Len(pages) - 1] \in 0..Len(s)
      BY <3>1, <3>2
    <3> QED BY <2>3, <3>1, <3>3 DEF Page
  <2>5. Len(pages[Len(pages)]) = ends[Len(pages)] - ends[Len(pages) - 1]
    BY <2>3 DEF Page
  <2>6. Len(pages[Len(pages)]) # 0
    BY <2>4, <2>5
  <2> QED BY <2>6 DEF Last
<1>2. pages # <<>> => (MayFollow(a, Last(pages), u + 1) <=> Joins(a, Last(Last(pages)), u + 1))
  BY <1>1, Zenon DEF MayFollow, Joins
<1>3. CASE pages # <<>> /\ MayFollow(a, Last(pages), u + 1) /\ Fits(a, Append(Last(pages), u + 1), cap)
  <2>1. Packed(a, cap, pages, u + 1) = Front(pages) \o <<Append(Last(pages), u + 1)>>
    BY <1>3 DEF Packed
  <2>2. \E t, f : Laid(a, cap, Front(pages) \o <<Append(Last(pages), u + 1)>>, u + 1, t, f)
    BY <1>2, <1>3, LaidJoin
  <2> QED BY <2>1, <2>2
<1>4. CASE /\ ~(pages # <<>> /\ MayFollow(a, Last(pages), u + 1)
                /\ Fits(a, Append(Last(pages), u + 1), cap))
           /\ Fits(a, <<u + 1>>, cap)
  <2>1. Packed(a, cap, pages, u + 1) = Append(pages, <<u + 1>>)
    BY <1>4 DEF Packed
  <2> QED BY <1>2, <1>4, <2>1, LaidOpen
<1>5. CASE /\ ~(pages # <<>> /\ MayFollow(a, Last(pages), u + 1)
                /\ Fits(a, Append(Last(pages), u + 1), cap))
           /\ ~Fits(a, <<u + 1>>, cap)
  <2>1. Packed(a, cap, pages, u + 1) = pages
    BY <1>5 DEF Packed
  <2> QED BY <1>5, <2>1, LaidSkip
<1> QED BY <1>3, <1>4, <1>5


LEMMA PackedIn ==
  ASSUME NEW a, NEW cap, NEW pages \in Seq(Seq(DOMAIN a.units)), NEW u \in DOMAIN a.units
  PROVE  Packed(a, cap, pages, u) \in Seq(Seq(DOMAIN a.units))
<1> DEFINE S == Seq(DOMAIN a.units)
<1>1. <<u>> \in S
  BY OneLong
<1>2. ASSUME pages # <<>> PROVE Front(pages) \o <<Append(Last(pages), u)>> \in Seq(S)
  <2>1. Last(pages) \in S
    BY <1>2 DEF Last
  <2>2. Append(Last(pages), u) \in S
    BY <2>1, AppendProperties
  <2> HIDE DEF S
  <2>3. pages \in Seq(S)
    BY DEF S
  <2> QED BY <1>2, <2>2, <2>3, LastSet
<1>3. Append(pages, <<u>>) \in Seq(S)
  <2> HIDE DEF S
  <2>1. pages \in Seq(S)
    BY DEF S
  <2> QED BY <1>1, <2>1, AppendProperties
<1> QED BY <1>2, <1>3 DEF Packed

LEMMA NoneLaid ==
  ASSUME NEW a, NEW cap
  PROVE  \E s, ends : Laid(a, cap, <<>>, 0, s, ends)
<1> DEFINE ends == [p \in 0..0 |-> 0]
<1>1. Tells(a, cap, <<>>, 0)
  BY DEF Tells
<1>2. Ends(ends, Len(<<>>), Len(<<>>))
  BY DEF Ends
<1>3. Laid(a, cap, <<>>, 0, <<>>, ends)
  <2> HIDE DEF ends
  <2> QED BY <1>1, <1>2 DEF Laid
<1> QED
  <2> HIDE DEF ends
  <2> QED BY <1>3

\* The greedy layout, unit by unit: the recursion of Greedy carries Laid along.
LEMMA GreedyIsLaid ==
  ASSUME NEW a, a.units \in Seq(Nat), NEW cap \in Nat
  PROVE  \E s, ends : Laid(a, cap, Greedy(a, cap), Len(a.units), s, ends)
<1> DEFINE n == Len(a.units)
           X == Seq(Seq(DOMAIN a.units))
           F == [x \in X \X (1..n) |-> Packed(a, cap, x[1], x[2])]
           Body(f) == [u \in 0..n |-> IF u = 0 THEN <<>> ELSE Packed(a, cap, f[u - 1], u)]
<1>1. n \in Nat /\ DOMAIN a.units = 1..n
  OBVIOUS
<1>2. \A r \in X, u \in 1..n : F[<<r, u>>] = Packed(a, cap, r, u)
  OBVIOUS
<1>3. \A r \in X, u \in 1..n : Packed(a, cap, r, u) \in X
  BY <1>1, PackedIn
<1>4. <<>> \in X
  OBVIOUS
<1> HIDE DEF F
<1>5. \A r \in X, u \in 1..n : F[<<r, u>>] \in X
  <2> HIDE DEF X, n
  <2> QED BY <1>2, <1>3
<1>6. PICK f \in [0..n -> X] : Climbs(f, n, <<>>, F)
  <2> HIDE DEF n, X
  <2> QED BY <1>1, <1>4, <1>5, Recurs, Zenon
<1>7. ASSUME NEW u \in 0..n PROVE f[u] = IF u = 0 THEN <<>> ELSE Packed(a, cap, f[u - 1], u)
  <2>1. u # 0 => u \in 1..n /\ u - 1 \in 0..n
    <3> HIDE DEF n
    <3> QED BY <1>1
  <2>2. u # 0 => f[u - 1] \in X
    <3> HIDE DEF n, X
    <3> QED BY <1>6, <2>1
  <2> HIDE DEF X, n
  <2> QED BY <1>2, <1>6, <2>1, <2>2 DEF Climbs
<1>8. f = Body(f)
  <2> HIDE DEF n, X
  <2> QED BY <1>6, <1>7
<1> DEFINE go == CHOOSE h : h = Body(h)
<1>9. go = Body(go)
  <2> HIDE DEF Body
  <2> QED BY <1>8
<1>10. Greedy(a, cap) = go[n]
  BY DEF Greedy
<1> HIDE DEF go
<1>11. go[0] = <<>> /\ \A u \in 1..n : go[u] = Packed(a, cap, go[u - 1], u)
  <2>1. n \in Nat
    BY <1>1
  <2> HIDE DEF n
  <2>2. \A u \in 0..n : go[u] = IF u = 0 THEN <<>> ELSE Packed(a, cap, go[u - 1], u)
    BY <1>9
  <2> QED BY <2>1, <2>2
<1> DEFINE Q == {u \in 0..n : \E s, ends : Laid(a, cap, go[u], u, s, ends)}
<1>12. 0 \in Q
  <2>1. 0 \in 0..n
    BY <1>1
  <2> HIDE DEF n
  <2> QED BY <1>11, <2>1, NoneLaid
<1>13. ASSUME NEW u \in 0..n, u \in Q, u < n PROVE u + 1 \in Q
  <2>1. u + 1 \in 1..n /\ (u + 1) - 1 = u /\ u + 1 \in 0..n /\ u \in Nat
    <3>1. n \in Nat
      BY <1>1
    <3> HIDE DEF n
    <3> QED BY <1>13, <3>1
  <2>2. PICK s, ends : Laid(a, cap, go[u], u, s, ends)
    BY <1>13
  <2>3. go[u + 1] = Packed(a, cap, go[u], u + 1)
    <3> HIDE DEF n
    <3> QED BY <1>11, <2>1
  <2>4. \E t, e : Laid(a, cap, go[u + 1], u + 1, t, e)
    <3>1. u + 1 \in DOMAIN a.units
      BY <1>1, <2>1
    <3> HIDE DEF n
    <3> DEFINE pages == go[u]
    <3>2. Laid(a, cap, pages, u, s, ends)
      BY <2>2
    <3> HIDE DEF pages
    <3>3. \E t, e : Laid(a, cap, Packed(a, cap, pages, u + 1), u + 1, t, e)
      BY <2>1, <3>1, <3>2, LaidOneMore
    <3> QED BY <2>3, <3>3 DEF pages
  <2> HIDE DEF n
  <2> QED BY <2>1, <2>4
<1>14. n \in Q
  <2>1. n \in Nat /\ n \in 0..n
    BY <1>1
  <2> HIDE DEF n, Q
  <2> QED BY <1>12, <1>13, <2>1, CountsUp
<1> QED BY <1>10, <1>14


\* A page is a run of what is told.
LEMMA PageIs ==
  ASSUME NEW a, NEW cap, NEW pages, NEW u, NEW s, NEW ends, Laid(a, cap, pages, u, s, ends),
         NEW p \in 1..Len(pages)
  PROVE  pages[p] = SubSeq(s, ends[p - 1] + 1, ends[p])
<1> DEFINE x == ends[p - 1]
           y == ends[p]
           page == pages[p]
<1>1. /\ Len(pages) \in Nat /\ Len(s) \in Nat
      /\ \A i \in 0..Len(pages) : ends[i] \in 0..Len(s)
      /\ \A i \in 1..Len(pages) : ends[i - 1] < ends[i] /\ ends[i] \in 1..Len(s)
  BY LaidEnds
<1>2. p \in 0..Len(pages) /\ p - 1 \in 0..Len(pages)
  BY <1>1
<1>3. x \in 0..Len(s) /\ y \in 1..Len(s) /\ x < y
  BY <1>1, <1>2
<1>4. Page(a, cap, s, ends, page, p)
  BY DEF Laid
<1>5. Len(page) = y - x /\ \A i \in 1..Len(page) : page[i] = s[x + i]
  BY <1>4 DEF Page
<1>6. page \in Seq(DOMAIN a.units) /\ s \in Seq(1..u)
  BY <1>4 DEF Page, Laid, Tells
<1> DEFINE U == (1..u) \union DOMAIN a.units
<1>7. page \in Seq(U) /\ s \in Seq(U)
  <2>1. 1..u \subseteq U /\ DOMAIN a.units \subseteq U
    OBVIOUS
  <2> HIDE DEF page, U
  <2> QED BY <1>6, <2>1, SeqMonotonic
<1> HIDE DEF x, y, page, U
<1>8. x \in Int /\ y \in Int /\ x + 1 \in Int /\ y - (x + 1) + 1 = y - x /\ x + 1 <= y /\ y - x \in Nat
  BY <1>1, <1>3
<1>9. \A i \in (x + 1)..y : s[i] \in U
  BY <1>1, <1>3, <1>7
<1>10. /\ SubSeq(s, x + 1, y) \in Seq(U)
       /\ Len(SubSeq(s, x + 1, y)) = IF x + 1 <= y THEN y - (x + 1) + 1 ELSE 0
       /\ \A i \in 1..(y - (x + 1) + 1) : SubSeq(s, x + 1, y)[i] = s[(x + 1) + i - 1]
  BY <1>8, <1>9, SubSeqProperties
<1>11. \A i \in 1..(y - x) : (x + 1) + i - 1 = x + i
  BY <1>8
<1>12. page = SubSeq(s, x + 1, y)
  <2>1. Len(page) = Len(SubSeq(s, x + 1, y))
    BY <1>5, <1>8, <1>10
  <2>2. \A i \in 1..Len(page) : page[i] = SubSeq(s, x + 1, y)[i]
    BY <1>5, <1>8, <1>10, <1>11
  <2> QED BY <1>7, <1>10, <2>1, <2>2, SeqEqual
<1> QED BY <1>12 DEF x, y, page

\* What is told is the pages one behind the other.
LEMMA FlatIs ==
  ASSUME NEW a, NEW cap, NEW pages, NEW u, NEW s, NEW ends, Laid(a, cap, pages, u, s, ends)
  PROVE  Flat(pages) = s
<1> DEFINE n == Len(pages)
           Body(f) == [i \in 1..n |-> IF i = 1 THEN pages[i] ELSE f[i - 1] \o pages[i]]
           g == [i \in 1..n |-> SubSeq(s, 1, ends[i])]
<1>1. /\ n \in Nat /\ Len(s) \in Nat
      /\ \A i \in 0..n : ends[i] \in 0..Len(s)
      /\ \A i \in 1..n : ends[i - 1] < ends[i] /\ ends[i] \in 1..Len(s)
      /\ ends[0] = 0 /\ ends[n] = Len(s)
  BY LaidEnds
<1>2. s \in Seq(1..u) /\ pages \in Seq(Seq(DOMAIN a.units))
  BY DEF Laid, Tells
<1>3. CASE n = 0
  <2>1. s = <<>> /\ pages = <<>>
    BY <1>1, <1>2, <1>3
  <2>2. Flat(pages) = pages
    BY <1>3 DEF Flat, FlattenSeq
  <2> QED BY <2>1, <2>2
<1>4. CASE n # 0
  <2>1. \A i \in 1..n : pages[i] = SubSeq(s, ends[i - 1] + 1, ends[i])
    BY PageIs
  <2>2. ASSUME NEW i \in 1..n, i # 1
        PROVE  SubSeq(s, 1, ends[i]) = SubSeq(s, 1, ends[i - 1]) \o pages[i]
    <3> DEFINE x == ends[i - 1]
               y == ends[i]
    <3>1. i - 1 \in 1..n /\ i - 1 \in 0..n /\ i \in 0..n
      <4> HIDE DEF n
      <4> QED BY <1>1, <2>2
    <3>2. x \in 0..Len(s) /\ y \in 0..Len(s) /\ x < y
      <4> HIDE DEF n
      <4> QED BY <1>1, <3>1
    <3>3. pages[i] = SubSeq(s, x + 1, y)
      BY <2>1
    <3> HIDE DEF x, y, n
    <3>4. 1 \in 1..(Len(s) + 1) /\ x \in (1 - 1)..Len(s) /\ y \in x..Len(s)
      BY <1>1, <3>2
    <3>5. SubSeq(s, 1, x) \o SubSeq(s, x + 1, y) = SubSeq(s, 1, y)
      BY <1>2, <3>4, ConcatAdjacentSubSeq
    <3> QED BY <3>3, <3>5 DEF x, y
  <2>3. pages[1] = SubSeq(s, 1, ends[1])
    <3>1. 1 \in 1..n /\ ends[1 - 1] + 1 = 1
      <4> HIDE DEF n
      <4> QED BY <1>1, <1>4
    <3> QED BY <2>1, <3>1
  <2>4. ASSUME NEW i \in 1..n PROVE g[i] = IF i = 1 THEN pages[i] ELSE g[i - 1] \o pages[i]
    <3>1. i # 1 => i - 1 \in 1..n
      <4> HIDE DEF n
      <4> QED BY <1>1
    <3>2. g[i] = SubSeq(s, 1, ends[i]) /\ (i # 1 => g[i - 1] = SubSeq(s, 1, ends[i - 1]))
      BY <3>1
    <3> HIDE DEF g, n
    <3> QED BY <2>2, <2>3, <3>2
  <2>5. g = Body(g)
    <3>1. g = [i \in 1..n |-> g[i]]
      OBVIOUS
    <3> HIDE DEF g, n
    <3> QED BY <2>4, <3>1
  <2> DEFINE go == CHOOSE h : h = Body(h)
  <2>6. go = Body(go)
    <3> HIDE DEF Body, g
    <3> QED BY <2>5
  <2>7. Flat(pages) = go[n]
    BY <1>4 DEF Flat, FlattenSeq
  <2> HIDE DEF go
  <2>8. \A i \in 1..n : go[i] = IF i = 1 THEN pages[i] ELSE go[i - 1] \o pages[i]
    BY <2>6
  <2> DEFINE Q == {i \in 0..n : i # 0 => go[i] = SubSeq(s, 1, ends[i])}
  <2>9. 0 \in Q
    BY <1>1
  <2>10. ASSUME NEW i \in 0..n, i \in Q, i < n PROVE i + 1 \in Q
    <3>1. i + 1 \in 1..n /\ i + 1 \in 0..n /\ (i + 1) - 1 = i
      <4> HIDE DEF n
      <4> QED BY <1>1, <2>10
    <3>2. CASE i = 0
      <4>1. i + 1 = 1
        BY <3>2
      <4> HIDE DEF n
      <4> QED BY <2>3, <2>8, <3>1, <4>1
    <3>3. CASE i # 0
      <4>1. go[i] = SubSeq(s, 1, ends[i]) /\ i + 1 # 1
        BY <1>1, <2>10, <3>3
      <4>2. go[i + 1] = SubSeq(s, 1, ends[i]) \o pages[i + 1]
        <5> HIDE DEF n
        <5> QED BY <2>8, <3>1, <4>1
      <4>3. go[i + 1] = SubSeq(s, 1, ends[i + 1])
        <5> HIDE DEF n
        <5> QED BY <2>2, <3>1, <4>1, <4>2
      <4> HIDE DEF n
      <4> QED BY <3>1, <4>3
    <3> QED BY <3>2, <3>3
  <2>11. n \in Q
    <3>1. n \in 0..n
      <4> HIDE DEF n
      <4> QED BY <1>1
    <3> HIDE DEF n, Q
    <3> QED BY <1>1, <2>9, <2>10, <3>1, CountsUp
  <2>12. go[n] = SubSeq(s, 1, Len(s))
    BY <1>1, <1>4, <2>11
  <2>13. SubSeq(s, 1, Len(s)) = s
    BY <1>2, SubSeqFull
  <2> QED BY <2>7, <2>12, <2>13
<1> QED BY <1>3, <1>4

\* One page, flat.
LEMMA FlatOne ==
  ASSUME NEW x
  PROVE  Flat(<<x>>) = x
<1> DEFINE Body(f) == [i \in 1..1 |-> IF i = 1 THEN <<x>>[i] ELSE f[i - 1] \o <<x>>[i]]
           g == [i \in 1..1 |-> x]
<1>1. Len(<<x>>) = 1 /\ <<x>>[1] = x /\ \A i \in 1..1 : i = 1
  OBVIOUS
<1>2. g = Body(g)
  BY <1>1
<1> DEFINE go == CHOOSE h : h = Body(h)
<1>3. go = Body(go)
  <2> HIDE DEF Body, g
  <2> QED BY <1>2
<1>4. Flat(<<x>>) = go[1]
  BY <1>1 DEF Flat, FlattenSeq
<1> HIDE DEF go
<1>5. 1 \in 1..1
  OBVIOUS
<1>6. go[1] = x
  BY <1>1, <1>3, <1>5
<1> QED BY <1>4, <1>6


\* MayFollow looks at the last unit of the page alone.
LEMMA MayJoin ==
  ASSUME NEW a, NEW S, NEW page \in Seq(S), NEW i \in 2..Len(page)
  PROVE  MayFollow(a, SubSeq(page, 1, i - 1), page[i]) <=> Joins(a, page[i - 1], page[i])
<1> DEFINE k == i - 1
           x == SubSeq(page, 1, k)
<1>1. k \in Nat /\ k >= 1 /\ \A j \in 1..k : page[j] \in S
  OBVIOUS
<1> HIDE DEF k
<1>2. /\ SubSeq(page, 1, k) \in Seq(S)
      /\ Len(SubSeq(page, 1, k)) = IF 1 <= k THEN k - 1 + 1 ELSE 0
      /\ \A j \in 1..(k - 1 + 1) : SubSeq(page, 1, k)[j] = page[1 + j - 1]
  BY <1>1, SubSeqProperties
<1>3. x # <<>> /\ Len(x) = k /\ x[k] = page[k]
  BY <1>1, <1>2
<1> HIDE DEF x
<1>4. Last(x) = page[k]
  BY <1>3 DEF Last
<1>5. MayFollow(a, x, page[i]) <=> Joins(a, page[k], page[i])
  BY <1>3, <1>4, Zenon DEF MayFollow, Joins, k
<1> QED BY <1>5 DEF x, k

LEMMA LaidAllowed ==
  ASSUME NEW a, NEW cap, NEW pages, NEW u, NEW s, NEW ends, Laid(a, cap, pages, u, s, ends)
  PROVE  Allowed(a, cap, pages) /\ \A p \in DOMAIN pages : pages[p] # <<>>
<1>1. /\ Len(pages) \in Nat /\ Len(s) \in Nat
      /\ \A p \in 0..Len(pages) : ends[p] \in 0..Len(s)
      /\ \A p \in 1..Len(pages) : ends[p - 1] < ends[p] /\ ends[p] \in 1..Len(s)
  BY LaidEnds
<1>2. ASSUME NEW p \in DOMAIN pages
      PROVE  /\ Fits(a, pages[p], cap) /\ pages[p] # <<>>
             /\ \A i \in 2..Len(pages[p]) : MayFollow(a, SubSeq(pages[p], 1, i - 1), pages[p][i])
  <2>1. p \in 1..Len(pages)
    BY DEF Laid
  <2>2. Page(a, cap, s, ends, pages[p], p)
    BY <2>1 DEF Laid
  <2> DEFINE page == pages[p]
  <2>3. /\ page \in Seq(DOMAIN a.units) /\ Len(page) = ends[p] - ends[p - 1]
        /\ Fits(a, page, cap) /\ \A i \in 2..Len(page) : Joins(a, page[i - 1], page[i])
    BY <2>2 DEF Page
  <2>4. p \in 0..Len(pages) /\ p - 1 \in 0..Len(pages)
    BY <1>1, <2>1
  <2>5. ends[p - 1] \in Nat /\ ends[p] \in Nat /\ ends[p - 1] < ends[p]
    BY <1>1, <2>1, <2>4
  <2> HIDE DEF page
  <2>6. page # <<>>
    BY <2>3, <2>5
  <2>7. \A i \in 2..Len(page) : MayFollow(a, SubSeq(page, 1, i - 1), page[i])
    BY <2>3, MayJoin
  <2> QED BY <2>3, <2>6, <2>7 DEF page
<1> QED BY <1>2 DEF Allowed

LEMMA LaidTells ==
  ASSUME NEW a, a.units \in Seq(Nat), NEW cap, NEW s, Tells(a, cap, s, Len(a.units))
  PROVE  TellsAll(a, cap, s)
<1> DEFINE n == Len(a.units)
<1>1. s \in Seq(1..n) /\ DOMAIN a.units = 1..n
  BY DEF Tells
<1>2. DOMAIN s = 1..Len(s) /\ \A i \in 1..Len(s) : s[i] \in 1..n
  BY <1>1
<1>3. \A i, j \in 1..Len(s) : i < j => s[i] < s[j]
  BY DEF Tells
<1>4. \A v \in 1..n : Fits(a, <<v>>, cap) <=> \E i \in 1..Len(s) : s[i] = v
  BY DEF Tells
<1> HIDE DEF n
<1>5. {s[i] : i \in DOMAIN s} = {v \in DOMAIN a.units : Fits(a, <<v>>, cap)}
  BY <1>1, <1>2, <1>4
<1> QED BY <1>2, <1>3, <1>5 DEF TellsAll

\* No page in order that starts no later than a page laid out gets past its end.
LEMMA NoFurther ==
  ASSUME NEW a, NEW cap \in Nat, a.units \in Seq(Nat), NEW pages, NEW s, NEW ends,
         Laid(a, cap, pages, Len(a.units), s, ends),
         NEW p \in 1..(Len(pages) - 1), NEW x \in Nat, x <= ends[p - 1],
         NEW y \in 0..Len(s), ends[p] < y,
         Fits(a, SubSeq(s, x + 1, y), cap),
         \A i \in 2..Len(SubSeq(s, x + 1, y)) :
           Joins(a, SubSeq(s, x + 1, y)[i - 1], SubSeq(s, x + 1, y)[i])
  PROVE  FALSE
<1> DEFINE n == Len(pages)
           D == DOMAIN a.units
           c == SubSeq(s, x + 1, y)
           b == ends[p - 1]
           e == ends[p]
           w == s[e + 1]
           page == pages[p]
           q == Append(page, w)
<1>1. /\ n \in Nat /\ Len(s) \in Nat
      /\ \A i \in 0..n : ends[i] \in 0..Len(s)
      /\ \A i \in 1..n : ends[i - 1] < ends[i] /\ ends[i] \in 1..Len(s)
  BY LaidEnds
<1>2. p \in 1..n /\ p - 1 \in 0..n
  BY <1>1
<1>3. b \in Nat /\ e \in Nat /\ b < e /\ e < y /\ x <= b /\ y \in Nat /\ y <= Len(s) /\ x \in Nat
  BY <1>1, <1>2
<1>4. s \in Seq(D)
  BY DEF Laid, Tells
<1>5. Page(a, cap, s, ends, page, p) /\ Closed(a, cap, s, ends, page, p)
  BY <1>2 DEF Laid
<1>6. /\ page \in Seq(D) /\ Len(page) = e - b /\ \A i \in 1..Len(page) : page[i] = s[b + i]
  BY <1>5 DEF Page
<1>7. ~(Joins(a, s[e], w) /\ Fits(a, q, cap))
  BY <1>5 DEF Closed
<1>8. c = SubSeq(s, x + 1, y) /\ Fits(a, c, cap) /\ \A i \in 2..Len(c) : Joins(a, c[i - 1], c[i])
  OBVIOUS
<1>9. q = Append(page, w)
  OBVIOUS
<1>10. w = s[e + 1]
  OBVIOUS
<1>d. \A z \in Seq(D) : z \in Seq(DOMAIN a.units)
  OBVIOUS
<1> HIDE DEF n, D, c, b, e, w, page, q
<1>11. e + 1 \in 1..Len(s) /\ w \in D
  <2>1. e + 1 \in 1..Len(s)
    BY <1>1, <1>3
  <2> QED BY <1>4, <1>10, <2>1
<1>12. /\ q \in Seq(D) /\ Len(q) = Len(page) + 1 /\ q[Len(page) + 1] = w
       /\ \A i \in 1..Len(page) : q[i] = page[i]
  BY <1>6, <1>9, <1>11, AppendProperties
<1>13. c \in Seq(D) /\ Len(c) = y - x /\ \A i \in 1..(y - x) : c[i] = s[x + i]
  <2>1. x + 1 \in Int /\ y \in Int /\ \A i \in (x + 1)..y : s[i] \in D
    BY <1>1, <1>3, <1>4
  <2>2. /\ SubSeq(s, x + 1, y) \in Seq(D)
        /\ Len(SubSeq(s, x + 1, y)) = IF x + 1 <= y THEN y - (x + 1) + 1 ELSE 0
        /\ \A i \in 1..(y - (x + 1) + 1) : SubSeq(s, x + 1, y)[i] = s[(x + 1) + i - 1]
    BY <2>1, SubSeqProperties
  <2>3. x + 1 <= y /\ y - (x + 1) + 1 = y - x /\ \A i \in 1..(y - x) : (x + 1) + i - 1 = x + i
    BY <1>3
  <2> QED BY <1>8, <2>2, <2>3
<1>14. Joins(a, s[e], w)
  <2> DEFINE i == e + 1 - x
  <2>1. i \in 2..(y - x) /\ i \in 1..(y - x) /\ i - 1 \in 1..(y - x)
        /\ x + i = e + 1 /\ x + (i - 1) = e
    BY <1>3
  <2> HIDE DEF i
  <2>2. c[i] = w /\ c[i - 1] = s[e]
    BY <1>10, <1>13, <2>1
  <2> QED BY <1>8, <1>13, <2>1, <2>2
<1>15. RunOf(q, c, b - x)
  <2>1. (b - x) + Len(q) <= Len(c)
    BY <1>3, <1>6, <1>12, <1>13
  <2>2. ASSUME NEW i \in 1..Len(q) PROVE q[i] = c[(b - x) + i]
    <3>1. (b - x) + i \in 1..(y - x) /\ x + ((b - x) + i) = b + i
      BY <1>3, <1>6, <1>12
    <3>2. c[(b - x) + i] = s[b + i]
      BY <1>13, <3>1
    <3>3. CASE i = Len(page) + 1
      <4>1. b + i = e + 1
        BY <1>3, <1>6, <3>3
      <4> QED BY <1>10, <1>12, <3>2, <3>3, <4>1
    <3>4. CASE i # Len(page) + 1
      <4>1. i \in 1..Len(page)
        BY <1>3, <1>6, <1>12, <3>4
      <4> QED BY <1>6, <1>12, <3>2, <4>1
    <3> QED BY <3>3, <3>4
  <2> QED BY <2>1, <2>2 DEF RunOf
<1>16. Fits(a, q, cap)
  <2>1. b - x \in Nat /\ q \in Seq(DOMAIN a.units) /\ c \in Seq(DOMAIN a.units)
    BY <1>3, <1>12, <1>13, <1>d
  <2> QED BY <1>8, <1>15, <2>1, PartFits
<1> QED BY <1>7, <1>14, <1>16

\* The greedy layout is never behind another one in order.
LEMMA NoFewer ==
  ASSUME NEW a, NEW cap \in Nat, a.units \in Seq(Nat), NEW pages, NEW s, NEW ends,
         Laid(a, cap, pages, Len(a.units), s, ends),
         NEW m \in 0..(Len(pages) - 1), NEW e \in Cuts(s, m)
  PROVE  ~Allowed(a, cap, Cut(s, e, m))
<1> SUFFICES ASSUME Allowed(a, cap, Cut(s, e, m)) PROVE FALSE
  OBVIOUS
<1> DEFINE n == Len(pages)
           l == Len(s)
<1>1. /\ n \in Nat /\ l \in Nat
      /\ \A p \in 0..n : ends[p] \in 0..l
      /\ \A p \in 1..n : ends[p - 1] < ends[p] /\ ends[p] \in 1..l
      /\ \A p \in 1..(n - 1) : ends[p] + 1 \in 1..l
      /\ ends[0] = 0 /\ ends[n] = l
  BY LaidEnds
<1>2. /\ m \in Nat /\ m < n
      /\ \A p \in 0..m : e[p] \in 0..l
      /\ e[0] = 0 /\ e[m] = l /\ \A p \in 1..m : e[p - 1] <= e[p]
  BY <1>1 DEF Cuts
<1>3. ASSUME NEW p \in 1..m, e[p - 1] <= ends[p - 1] PROVE e[p] <= ends[p]
  <2> SUFFICES ASSUME ~(e[p] <= ends[p]) PROVE FALSE
    OBVIOUS
  <2> DEFINE c == SubSeq(s, e[p - 1] + 1, e[p])
  <2>1. p \in DOMAIN Cut(s, e, m) /\ Cut(s, e, m)[p] = c
    BY DEF Cut
  <2>2. Fits(a, c, cap) /\ \A i \in 2..Len(c) : MayFollow(a, SubSeq(c, 1, i - 1), c[i])
    BY <2>1, Zenon DEF Allowed
  <2>3. /\ p \in 1..(n - 1) /\ p \in 1..n /\ p \in 0..n /\ p - 1 \in 0..m /\ p \in 0..m
    <3> HIDE DEF n
    <3> QED BY <1>1, <1>2
  <2>4. e[p - 1] \in Nat /\ e[p] \in 0..l /\ ends[p] < e[p]
    <3>1. ends[p] \in 0..l /\ e[p] \in 0..l /\ e[p - 1] \in 0..l
      BY <1>1, <1>2, <2>3
    <3> HIDE DEF n, l
    <3> QED BY <1>1, <3>1
  <2>5. c \in Seq(1..Len(a.units))
    <3>1. s \in Seq(1..Len(a.units))
      BY DEF Laid, Tells
    <3>2. \A i \in (e[p - 1] + 1)..e[p] : s[i] \in 1..Len(a.units)
      <4> SUFFICES ASSUME NEW i \in (e[p - 1] + 1)..e[p] PROVE s[i] \in 1..Len(a.units)
        OBVIOUS
      <4>1. i \in 1..l
        <5> HIDE DEF l
        <5> QED BY <1>1, <2>4
      <4> QED BY <3>1, <4>1, ElementOfSeq
    <3>3. e[p - 1] + 1 \in Int /\ e[p] \in Int
      BY <2>4
    <3> QED BY <3>2, <3>3, SubSeqProperties
  <2>6. \A i \in 2..Len(c) : Joins(a, c[i - 1], c[i])
    <3> HIDE DEF c
    <3> QED BY <2>2, <2>5, MayJoin
  <2> QED BY <1>3, <2>2, <2>3, <2>4, <2>6, NoFurther
<1> DEFINE Q == {p \in 0..m : e[p] <= ends[p]}
<1>4. 0 \in Q
  BY <1>1, <1>2
<1> HIDE DEF n, l
<1>5. ASSUME NEW p \in 0..m, p \in Q, p < m PROVE p + 1 \in Q
  <2>1. p + 1 \in 1..m /\ p + 1 \in 0..m /\ (p + 1) - 1 = p
    BY <1>2, <1>5
  <2> QED BY <1>3, <1>5, <2>1
<1>6. e[m] <= ends[m]
  <2>1. m \in 0..m
    BY <1>2
  <2>2. m \in Q
    <3> HIDE DEF Q
    <3> QED BY <1>2, <1>4, <1>5, <2>1, CountsUp
  <2> QED BY <2>2
<1>7. CASE m = 0
  <2>1. n \in 1..n
    BY <1>1, <1>2, <1>7
  <2> QED BY <1>1, <1>2, <1>7, <2>1
<1>8. CASE m # 0
  <2>1. m \in 1..(n - 1)
    BY <1>1, <1>2, <1>8
  <2>2. ends[m] + 1 \in 1..l /\ ends[m] \in 0..l
    BY <1>1, <1>2, <2>1
  <2> QED BY <1>1, <1>2, <1>6, <2>2
<1> QED BY <1>7, <1>8


\* The smallest element.
LEMMA LeastIs ==
  ASSUME NEW S \in SUBSET Nat, NEW x \in S, \A y \in S : x <= y
  PROVE  Min(S) = x
<1> DEFINE m == CHOOSE z \in S : \A y \in S : z <= y
<1>1. m \in S /\ \A y \in S : m <= y
  OBVIOUS
<1>2. Min(S) = m
  BY DEF Min
<1> HIDE DEF m
<1>3. m <= x /\ x <= m /\ m \in Nat /\ x \in Nat
  BY <1>1
<1>4. m = x
  BY <1>3
<1> QED BY <1>2, <1>4

LEMMA ClimbsAbove ==
  ASSUME NEW n \in Nat, NEW f, f[0] \in Nat, \A i \in 1..n : f[i] \in Nat /\ f[i - 1] < f[i]
  PROVE  n <= f[n]
<1> DEFINE Q == {i \in 0..n : f[i] \in Nat /\ i <= f[i]}
<1>1. 0 \in Q
  OBVIOUS
<1>2. ASSUME NEW i \in 0..n, i \in Q, i < n PROVE i + 1 \in Q
  <2>1. i + 1 \in 1..n /\ i + 1 \in 0..n /\ (i + 1) - 1 = i
    BY <1>2
  <2>2. f[i + 1] \in Nat /\ f[i] < f[i + 1] /\ f[i] \in Nat /\ i <= f[i]
    BY <1>2, <2>1
  <2> QED BY <2>1, <2>2
<1>3. n \in Q
  <2> HIDE DEF Q
  <2> QED BY <1>1, <1>2, CountsUp
<1> QED BY <1>3

\* There are no more pages than units.
LEMMA NoMorePages ==
  ASSUME NEW a, NEW cap, NEW pages, NEW u \in Nat, NEW s, NEW ends,
         Laid(a, cap, pages, u, s, ends)
  PROVE  Len(pages) <= u
<1>1. /\ Len(pages) \in Nat /\ Len(s) \in Nat
      /\ \A p \in 1..Len(pages) : ends[p - 1] < ends[p] /\ ends[p] \in 1..Len(s)
      /\ ends[0] = 0 /\ ends[Len(pages)] = Len(s)
  BY LaidEnds
<1>2. s \in Seq(1..u) /\ \A i, j \in 1..Len(s) : i < j => s[i] < s[j]
  BY DEF Laid, Tells
<1> DEFINE n == Len(pages)
           m == Len(s)
           f == [i \in 0..m |-> IF i = 0 THEN 0 ELSE s[i]]
<1>3. n <= m
  <2>1. \A i \in 1..n : ends[i] \in Nat /\ ends[i - 1] < ends[i]
    BY <1>1
  <2>2. ends[0] \in Nat /\ n \in Nat
    BY <1>1
  <2>3. n <= ends[n]
    <3> HIDE DEF n
    <3> QED BY <2>1, <2>2, ClimbsAbove
  <2> QED BY <1>1, <2>3
<1>4. \A i \in 1..m : s[i] \in 1..u
  BY <1>2
<1>5. m <= f[m]
  <2>1. m \in Nat /\ f[0] = 0 /\ \A i \in 1..m : f[i] = s[i]
    <3>1. m \in Nat
      BY <1>1
    <3> HIDE DEF m
    <3> QED BY <3>1
  <2>2. ASSUME NEW i \in 1..m PROVE f[i] \in Nat /\ f[i - 1] < f[i]
    <3>1. f[i] = s[i] /\ s[i] \in 1..u
      BY <1>4, <2>1
    <3>2. CASE i = 1
      <4>1. f[i - 1] = 0
        BY <2>1, <3>2
      <4> HIDE DEF f, m
      <4> QED BY <3>1, <4>1
    <3>3. CASE i # 1
      <4>1. i - 1 \in 1..m /\ i - 1 < i
        <5> HIDE DEF m
        <5> QED BY <2>1, <3>3
      <4>2. f[i - 1] = s[i - 1] /\ s[i - 1] < s[i]
        <5> HIDE DEF f
        <5> QED BY <1>2, <2>1, <4>1
      <4> HIDE DEF f, m
      <4> QED BY <3>1, <4>2
    <3> QED BY <3>2, <3>3
  <2> HIDE DEF f, m
  <2> QED BY <2>1, <2>2, ClimbsAbove
<1>6. f[m] <= u
  <2>1. m \in Nat
    BY <1>1
  <2> HIDE DEF m
  <2> QED BY <1>4, <2>1
<1>7. n \in Nat /\ m \in Nat /\ f[m] \in Nat
  <2>1. m \in Nat
    BY <1>1
  <2>2. f[m] \in Nat
    <3> HIDE DEF m
    <3> QED BY <1>4, <2>1
  <2> QED BY <1>1, <2>2
<1> HIDE DEF f, m
<1>8. n <= u
  BY <1>3, <1>5, <1>6, <1>7
<1> QED BY <1>8

\* A phone that reads on to the first page that does not exist has them all.
LEMMA HostReadsPages ==
  ASSUME NEW a, a.units \in Seq(Nat), a.kind # "w1scan", NEW cap, ~FitsWhole(a, cap),
         NEW pages, pages = Greedy(a, cap), NEW s, NEW ends,
         Laid(a, cap, pages, Len(a.units), s, ends)
  PROVE  HostRead(a, cap) = pages
<1> DEFINE l == Len(a.units)
           n == Len(pages)
           T == {p \in 0..l : HostPage(a, cap, p) = NoPage}
<1>1. l \in Nat /\ n \in Nat /\ n <= l
  BY NoMorePages, LaidEnds
<1>2. pages \in Seq(Seq(DOMAIN a.units))
  BY DEF Laid
<1>3. Layout(a, cap) = pages
  BY DEF Layout
<1>4. \A p : HostPage(a, cap, p) = IF p >= n THEN NoPage ELSE pages[p + 1]
  BY <1>3 DEF HostPage
<1>5. ASSUME NEW p \in 1..n PROVE pages[p] # NoPage
  <2>1. pages[p] \in Seq(DOMAIN a.units)
    BY <1>2
  <2>2. 0 \notin DOMAIN a.units
    OBVIOUS
  <2>3. Len(NoPage) = 1 /\ NoPage[1] = 0
    BY DEF NoPage
  <2>4. ASSUME pages[p] = NoPage PROVE FALSE
    <3>1. NoPage \in Seq(DOMAIN a.units)
      BY <2>1, <2>4
    <3>2. NoPage[1] \in DOMAIN a.units
      <4>1. 1 \in 1..Len(NoPage)
        BY <2>3
      <4> QED BY <3>1, <4>1, ElementOfSeq
    <3> QED BY <2>2, <2>3, <3>2
  <2> QED BY <2>4
<1>6. HostRead(a, cap) = [p \in 1..Min(T) |-> HostPage(a, cap, p - 1)]
  BY Zenon DEF HostRead
<1> HIDE DEF l
<1>7. T \in SUBSET Nat /\ n \in T
  <2>1. n \in 0..l /\ n >= n
    <3> HIDE DEF n
    <3> QED BY <1>1
  <2> HIDE DEF n
  <2> QED BY <1>4, <2>1
<1>8. \A p \in T : n <= p
  <2> SUFFICES ASSUME NEW p \in 0..l, HostPage(a, cap, p) = NoPage, ~(n <= p) PROVE FALSE
    OBVIOUS
  <2>1. p + 1 \in 1..n /\ ~(p >= n)
    <3> HIDE DEF n
    <3> QED BY <1>1
  <2> HIDE DEF n
  <2> QED BY <1>4, <1>5, <2>1
<1>9. Min(T) = n
  <2> HIDE DEF T, n
  <2> QED BY <1>7, <1>8, LeastIs
<1>10. ASSUME NEW p \in 1..n PROVE HostPage(a, cap, p - 1) = pages[p]
  <2>1. ~(p - 1 >= n) /\ (p - 1) + 1 = p
    <3> HIDE DEF n
    <3> QED BY <1>1
  <2> HIDE DEF n
  <2> QED BY <1>4, <2>1
<1>11. [p \in 1..n |-> HostPage(a, cap, p - 1)] = [p \in 1..n |-> pages[p]]
  <2> HIDE DEF n
  <2> QED BY <1>10
<1>12. pages = [p \in 1..n |-> pages[p]]
  BY <1>2
<1> HIDE DEF n, T
<1> QED BY <1>6, <1>9, <1>11, <1>12

\* LayoutIsRight of one answer.
RightFor(a, cap, greedy) ==
  /\ TellsAll(a, cap, Flat(greedy))
  /\ Allowed(a, cap, greedy) /\ \A p \in DOMAIN greedy : greedy[p] # <<>>
  /\ \A m \in 0..(Len(greedy) - 1) : \A ends \in Cuts(Flat(greedy), m) :
       ~Allowed(a, cap, Cut(Flat(greedy), ends, m))
  /\ Flat(HostRead(a, cap)) = IF FitsWhole(a, cap) THEN Whole(a) ELSE Flat(greedy)

LEMMA GreedyIsRight ==
  ASSUME NEW a, a.units \in Seq(Nat), a.kind # "w1scan", NEW cap \in Nat
  PROVE  RightFor(a, cap, Greedy(a, cap))
<1> DEFINE g == Greedy(a, cap)
<1>1. PICK s, ends : Laid(a, cap, g, Len(a.units), s, ends)
  BY GreedyIsLaid
<1>2. g = Greedy(a, cap)
  OBVIOUS
<1> HIDE DEF g
<1>3. Flat(g) = s
  BY <1>1, FlatIs
<1>4. Tells(a, cap, s, Len(a.units))
  BY <1>1 DEF Laid
<1>5. TellsAll(a, cap, s)
  BY <1>4, LaidTells
<1>6. Allowed(a, cap, g) /\ \A p \in DOMAIN g : g[p] # <<>>
  BY <1>1, LaidAllowed
<1>7. \A m \in 0..(Len(g) - 1) : \A e \in Cuts(s, m) : ~Allowed(a, cap, Cut(s, e, m))
  BY <1>1, NoFewer
<1>8. Flat(HostRead(a, cap)) = IF FitsWhole(a, cap) THEN Whole(a) ELSE Flat(g)
  <2>1. CASE FitsWhole(a, cap)
    <3>1. HostRead(a, cap) = <<Whole(a)>>
      BY <2>1 DEF HostRead, HostPage
    <3> QED BY <2>1, <3>1, FlatOne
  <2>2. CASE ~FitsWhole(a, cap)
    <3>1. HostRead(a, cap) = g
      BY <1>1, <1>2, <2>2, HostReadsPages
    <3> QED BY <2>2, <3>1
  <2> QED BY <2>1, <2>2
<1>9. RightFor(a, cap, g)
  BY <1>3, <1>5, <1>6, <1>7, <1>8 DEF RightFor
<1> QED BY <1>2, <1>9


-----------------------------------------------------------------------------
(* Layouts are sequences of pages                                            *)

\* A set of positive numbers up to n has a greatest element.
LEMMA GreatestIsIn ==
  ASSUME NEW n \in Nat, NEW S \in SUBSET (1..n), S # {}
  PROVE  Max(S) \in S
<1> DEFINE T == {n - x : x \in S}
<1>1. T \in SUBSET Nat /\ T # {}
  <2>1. \A x \in S : n - x \in Nat
    OBVIOUS
  <2>2. PICK x \in S : TRUE
    OBVIOUS
  <2>3. n - x \in T
    BY <2>2
  <2>4. \A y \in T : y \in Nat
    BY <2>1, Zenon
  <2> HIDE DEF T
  <2> QED BY <2>3, <2>4
<1>2. PICK y \in T : \A z \in T : y <= z
  <2> HIDE DEF T
  <2>1. IsWellFoundedOn(OpToRel(<, Nat), Nat)
    BY NatLessThanWellFounded
  <2>2. PICK y \in T : \A z \in T : ~(<<z, y>> \in OpToRel(<, Nat))
    BY <1>1, <2>1, WFMin
  <2>3. \A z \in T : ~(z < y)
    BY <1>1, <2>2 DEF OpToRel
  <2> QED BY <1>1, <2>3
<1>3. PICK x \in S : y = n - x
  OBVIOUS
<1>4. ASSUME NEW z \in S PROVE x >= z
  <2>1. n - z \in T
    OBVIOUS
  <2>2. y <= n - z
    BY <1>2, <2>1
  <2> QED BY <1>3, <2>2
<1>5. \E m \in S : \A z \in S : m >= z
  BY <1>4
<1> QED BY <1>5, Zenon DEF Max

LEMMA PerPageIs ==
  ASSUME NEW a, a.units \in Seq(Nat), NEW cap
  PROVE  PerPage(a, cap) \in 0..Len(a.units)
<1> DEFINE n == Len(a.units)
           fit == {k \in 1..n : IF k = n THEN FitsWhole(a, cap) ELSE Fits(a, SubSeq(Whole(a), 1, k), cap)}
<1>1. n \in Nat /\ fit \in SUBSET (1..n)
  OBVIOUS
<1>2. PerPage(a, cap) = IF fit = {} THEN 0 ELSE Max(fit)
  BY DEF PerPage
<1> HIDE DEF fit, n
<1>3. fit # {} => Max(fit) \in 1..n
  BY <1>1, GreatestIsIn
<1>4. PerPage(a, cap) \in 0..n
  BY <1>1, <1>2, <1>3
<1> QED BY <1>4 DEF n

LEMMA SplitIs ==
  ASSUME NEW a, a.units \in Seq(Nat), NEW cap
  PROVE  Split(a, cap) \in Seq(Seq(Nat))
<1> DEFINE n == Len(a.units)
           k == PerPage(a, cap)
           pages == (n + k - 1) \div k
           lesser(x, y) == IF x < y THEN x ELSE y
           part(p) == SubSeq(Whole(a), (p - 1) * k + 1, lesser(p * k, n))
<1>1. n \in Nat /\ k \in 0..n
  BY PerPageIs
<1>2. Split(a, cap) = IF k = 0 THEN <<>> ELSE [p \in 1..pages |-> part(p)]
  BY DEF Split
<1>3. \A i \in 1..n : Whole(a)[i] \in Nat
  BY DEF Whole
<1>4. k # 0 => pages \in Nat
  <2> HIDE DEF n, k
  <2> QED BY <1>1
<1>5. ASSUME NEW p \in 1..pages, k # 0 PROVE part(p) \in Seq(Nat)
  <2> DEFINE x == (p - 1) * k + 1
             y == lesser(p * k, n)
  <2>1. x \in Nat /\ x >= 1
    <3> HIDE DEF n, k
    <3>1. p - 1 \in Nat /\ k \in Nat
      BY <1>1, <1>4, <1>5
    <3>2. \A v, w \in Nat : v * w \in Nat
      OBVIOUS
    <3>3. (p - 1) * k \in Nat
      BY <3>1, <3>2
    <3> QED BY <3>3
  <2>2. y \in Int /\ y <= n
    <3> HIDE DEF n, k
    <3>1. p \in Nat /\ k \in Nat
      BY <1>1, <1>4, <1>5
    <3>2. \A v, w \in Nat : v * w \in Nat
      OBVIOUS
    <3>3. p * k \in Nat
      BY <3>1, <3>2
    <3> QED BY <1>1, <3>3
  <2> HIDE DEF x, y, n, k
  <2>3. \A i \in x..y : Whole(a)[i] \in Nat
    BY <1>1, <1>3, <2>1, <2>2
  <2>4. SubSeq(Whole(a), x, y) \in Seq(Nat)
    BY <2>1, <2>2, <2>3, SubSeqProperties
  <2> QED BY <2>4 DEF x, y
<1>6. CASE k = 0
  BY <1>2, <1>6
<1>7. CASE k # 0
  <2> DEFINE f == [p \in 1..pages |-> part(p)]
  <2>1. f \in [1..pages -> Seq(Nat)]
    <3> HIDE DEF pages, part
    <3> QED BY <1>5, <1>7
  <2>2. f \in Seq(Seq(Nat))
    <3> HIDE DEF pages, f
    <3> QED BY <1>4, <1>7, <2>1
  <2> QED BY <1>2, <1>7, <2>2
<1> QED BY <1>6, <1>7

LEMMA LayoutIs ==
  ASSUME NEW a, a.units \in Seq(Nat), NEW cap \in Nat
  PROVE  Layout(a, cap) \in Seq(Seq(Nat))
<1>1. Greedy(a, cap) \in Seq(Seq(Nat))
  <2>1. PICK s, ends : Laid(a, cap, Greedy(a, cap), Len(a.units), s, ends)
    BY GreedyIsLaid
  <2> DEFINE S == Seq(DOMAIN a.units)
             T == Seq(Nat)
  <2>2. Greedy(a, cap) \in Seq(S)
    BY <2>1 DEF Laid
  <2>3. S \subseteq T
    <3>1. DOMAIN a.units \subseteq Nat
      OBVIOUS
    <3> QED BY <3>1, SeqMonotonic
  <2> HIDE DEF S, T
  <2>4. Greedy(a, cap) \in Seq(T)
    BY <2>2, <2>3, SeqMonotonic
  <2> QED BY <2>4 DEF T
<1> QED BY <1>1, SplitIs DEF Layout

LEMMA DumpedIs ==
  ASSUME NEW ids \in Seq(Nat), NEW there
  PROVE  Dumped(ids, there) \in Seq(Nat)
<1> DEFINE n == Len(ids)
           X == Seq(Nat)
           F == [x \in X \X (1..n) |-> Tell(x[1], ids[x[2]], there)]
           Body(f) == [i \in 0..n |-> IF i = 0 THEN <<>> ELSE Tell(f[i - 1], ids[i], there)]
<1>1. n \in Nat /\ <<>> \in X /\ \A i \in 1..n : ids[i] \in Nat
  OBVIOUS
<1>2. \A r \in X, i \in 1..n : F[<<r, i>>] = Tell(r, ids[i], there)
  OBVIOUS
<1> HIDE DEF F
<1>3. \A r \in X, i \in 1..n : Tell(r, ids[i], there) \in X
  <2> HIDE DEF n
  <2> SUFFICES ASSUME NEW r \in X, NEW i \in 1..n PROVE Tell(r, ids[i], there) \in X
    OBVIOUS
  <2>1. ids[i] \in Nat
    BY <1>1
  <2> QED BY <2>1, AppendProperties DEF Tell
<1> HIDE DEF X
<1>4. PICK f \in [0..n -> X] : Climbs(f, n, <<>>, F)
  <2> HIDE DEF n
  <2>1. \A r \in X, i \in 1..n : F[<<r, i>>] \in X
    BY <1>2, <1>3
  <2> QED BY <1>1, <2>1, Recurs, Zenon
<1>5. ASSUME NEW i \in 0..n PROVE f[i] = IF i = 0 THEN <<>> ELSE Tell(f[i - 1], ids[i], there)
  <2>1. i # 0 => i \in 1..n /\ i - 1 \in 0..n /\ f[i - 1] \in X
    <3> HIDE DEF n
    <3> QED BY <1>1, <1>4
  <2> HIDE DEF n
  <2> QED BY <1>2, <1>4, <2>1 DEF Climbs
<1>6. f = Body(f)
  <2> HIDE DEF n
  <2> QED BY <1>4, <1>5
<1> DEFINE go == CHOOSE h : h = Body(h)
<1>7. go = Body(go)
  <2> HIDE DEF Body
  <2> QED BY <1>6
<1>8. Dumped(ids, there) = go[n]
  BY DEF Dumped
<1> HIDE DEF go
<1>9. go[0] = <<>> /\ \A i \in 1..n : go[i] = Tell(go[i - 1], ids[i], there)
  <2>1. n \in Nat
    BY <1>1
  <2> HIDE DEF n
  <2>2. \A i \in 0..n : go[i] = IF i = 0 THEN <<>> ELSE Tell(go[i - 1], ids[i], there)
    BY <1>7
  <2> QED BY <2>1, <2>2
<1> DEFINE Q == {i \in 0..n : go[i] \in X}
<1> HIDE DEF n
<1>10. 0 \in Q
  BY <1>1, <1>9
<1>11. ASSUME NEW i \in 0..n, i \in Q, i < n PROVE i + 1 \in Q
  <2>1. i + 1 \in 1..n /\ i + 1 \in 0..n /\ (i + 1) - 1 = i
    BY <1>1, <1>11
  <2> QED BY <1>3, <1>9, <1>11, <2>1
<1>12. n \in Q
  <2> HIDE DEF Q
  <2>1. n \in 0..n
    BY <1>1
  <2> QED BY <1>1, <1>10, <1>11, <2>1, CountsUp
<1> QED BY <1>8, <1>12 DEF X

LEMMA DumpIn ==
  ASSUME NEW pages \in Seq(Seq(Nat)), pages # <<>>, NEW f \in Nat
  PROVE  Dump(pages, f) \in Seq(Seq(Nat)) /\ Dump(pages, f) # <<>>
<1> DEFINE S == Seq(Nat)
<1>1. <<f>> \in S /\ Last(pages) \in S
  BY DEF Last
<1>2. Append(Last(pages), f) \in S
  BY <1>1, AppendProperties
<1>3. pages \in Seq(S) /\ Len(pages) # 0
  OBVIOUS
<1> HIDE DEF S
<1>4. Append(pages, <<f>>) \in Seq(S) /\ Append(pages, <<f>>) # <<>>
  BY <1>1, <1>3, AppendProperties
<1>5. /\ Front(pages) \o <<Append(Last(pages), f)>> \in Seq(S)
      /\ Len(Front(pages) \o <<Append(Last(pages), f)>>) = Len(pages)
  BY <1>2, <1>3, LastSet
<1>6. Front(pages) \o <<Append(Last(pages), f)>> # <<>>
  BY <1>3, <1>5
<1> QED BY <1>4, <1>5, <1>6 DEF Dump, S

\* The pages of a request are sequences of fields.
LEMMA DumpPagesAre ==
  ASSUME NEW ids \in Seq(Nat), NEW there
  PROVE  DumpPages(ids, there) \in Seq(Seq(Nat))
<1> DEFINE fields == Dumped(ids, there)
           n == Len(fields)
           X == {x \in Seq(Seq(Nat)) : x # <<>>}
           F == [x \in X \X (1..n) |-> Dump(x[1], fields[x[2]])]
           Body(f) == [i \in 0..n |-> IF i = 0 THEN <<<<>>>> ELSE Dump(f[i - 1], fields[i])]
<1>a. fields \in Seq(Nat)
  BY DumpedIs
<1>b. DumpPages(ids, there) = LET go[i \in 0..n] == IF i = 0 THEN <<<<>>>> ELSE Dump(go[i - 1], fields[i])
                              IN go[n]
  BY DEF DumpPages
<1> HIDE DEF fields
<1>1. n \in Nat /\ \A i \in 1..n : fields[i] \in Nat
  BY <1>a
<1>c. <<<<>>>> \in X
  OBVIOUS
<1>2. \A r \in X, i \in 1..n : F[<<r, i>>] = Dump(r, fields[i])
  OBVIOUS
<1> HIDE DEF F
<1>3. \A r \in X, i \in 1..n : Dump(r, fields[i]) \in X
  <2> HIDE DEF n
  <2> QED BY <1>1, DumpIn
<1>x. X \subseteq Seq(Seq(Nat))
  OBVIOUS
<1> HIDE DEF X
<1>4. PICK f \in [0..n -> X] : Climbs(f, n, <<<<>>>>, F)
  <2> HIDE DEF n
  <2>1. \A r \in X, i \in 1..n : F[<<r, i>>] \in X
    BY <1>2, <1>3
  <2> QED BY <1>1, <1>c, <2>1, Recurs, Zenon
<1>5. ASSUME NEW i \in 0..n PROVE f[i] = IF i = 0 THEN <<<<>>>> ELSE Dump(f[i - 1], fields[i])
  <2>1. i # 0 => i \in 1..n /\ i - 1 \in 0..n /\ f[i - 1] \in X
    <3> HIDE DEF n
    <3> QED BY <1>1, <1>4
  <2> HIDE DEF n
  <2> QED BY <1>2, <1>4, <2>1 DEF Climbs
<1>6. f = Body(f)
  <2> HIDE DEF n
  <2> QED BY <1>4, <1>5
<1> DEFINE go == CHOOSE h : h = Body(h)
<1>7. go = Body(go)
  <2> HIDE DEF Body
  <2> QED BY <1>6
<1>8. DumpPages(ids, there) = go[n]
  BY <1>b
<1> HIDE DEF go
<1>9. go[0] = <<<<>>>> /\ \A i \in 1..n : go[i] = Dump(go[i - 1], fields[i])
  <2>1. n \in Nat
    BY <1>1
  <2> HIDE DEF n
  <2>2. \A i \in 0..n : go[i] = IF i = 0 THEN <<<<>>>> ELSE Dump(go[i - 1], fields[i])
    BY <1>7
  <2> QED BY <2>1, <2>2
<1> DEFINE Q == {i \in 0..n : go[i] \in X}
<1> HIDE DEF n
<1>10. 0 \in Q
  <2>1. 0 \in 0..n
    BY <1>1
  <2>2. go[0] \in X
    BY <1>c, <1>9, Zenon
  <2> QED BY <2>1, <2>2
<1>11. ASSUME NEW i \in 0..n, i \in Q, i < n PROVE i + 1 \in Q
  <2>1. i + 1 \in 1..n /\ i + 1 \in 0..n /\ (i + 1) - 1 = i
    BY <1>1, <1>11
  <2> QED BY <1>3, <1>9, <1>11, <2>1
<1>12. n \in Q
  <2> HIDE DEF Q
  <2>1. n \in 0..n
    BY <1>1
  <2> QED BY <1>1, <1>10, <1>11, <2>1, CountsUp
<1> QED BY <1>8, <1>12, <1>x


-----------------------------------------------------------------------------
(* The stream                                                                *)

\* The first n pages of l were told, the first of them perhaps in vain.
ToldUpTo(t, l, n) ==
  Len(t) = n /\ t[1] \in {NoPage, l[1]} /\ \A i \in 2..n : t[i] = l[i]

Answerable == Contents \union {Answer("settings", u, 0) : u \in Settings}
Answers == Contents \union {NoAnswer}
StreamKinds == LaidOut \union {"none", "request"}
Streams ==
  [kind : StreamKinds, next : Nat, count : Nat, cap : Nat, what : Answers, ids : Seq(Nat)]

\* A stream has what it lays out, and while its pages last has told them up to the next.
StreamTold ==
  /\ stream.kind \in Snapshots => stream.what \in Contents
  /\ stream.kind \in LaidOut => stream.cap \in Budgets
  /\ Lasting => /\ stream.count = Len(StreamPages)
                /\ ToldUpTo(told, StreamPages, stream.next)

AskedLaidOut ==
  asked.what.kind \in LaidOut =>
    /\ asked.what \in Answerable /\ asked.cap \in Budgets
    /\ asked.pages = Layout(asked.what, asked.cap)

PagesIndInv ==
  /\ PagesType /\ StreamIsDriven
  /\ stream \in Streams /\ told \in Seq(Seq(Nat))
  /\ StreamTold /\ AskedLaidOut

\* Page 0 was queued, or found no room.
LEMMA ToldFirst ==
  ASSUME NEW l \in Seq(Seq(Nat)), Len(l) > 1, NEW queued \in BOOLEAN
  PROVE  /\ ToldUpTo(<<IF queued THEN l[1] ELSE NoPage>>, l, 1)
         /\ <<IF queued THEN l[1] ELSE NoPage>> \in Seq(Seq(Nat))
<1> DEFINE x == IF queued THEN l[1] ELSE NoPage
           S == Seq(Nat)
<1>1. x \in S /\ x \in {NoPage, l[1]}
  <2>1. NoPage \in S
    BY DEF NoPage
  <2>2. l[1] \in S
    OBVIOUS
  <2> QED BY <2>1, <2>2
<1> HIDE DEF x, S
<1>2. <<x>> \in Seq(S) /\ Len(<<x>>) = 1 /\ <<x>>[1] = x
  BY <1>1, OneLong
<1>3. ToldUpTo(<<x>>, l, 1)
  BY <1>1, <1>2 DEF ToldUpTo
<1> QED BY <1>2, <1>3 DEF x, S

\* The next page is told.
LEMMA ToldNext ==
  ASSUME NEW l \in Seq(Seq(Nat)), NEW t \in Seq(Seq(Nat)), NEW n \in 1..(Len(l) - 1),
         ToldUpTo(t, l, n)
  PROVE  ToldUpTo(Append(t, l[n + 1]), l, n + 1)
<1> DEFINE S == Seq(Nat)
           x == l[n + 1]
           k == n + 1
<1>1. l \in Seq(S) /\ t \in Seq(S) /\ Len(l) \in Nat /\ x \in S
  OBVIOUS
<1>2. n \in Nat /\ n >= 1 /\ k = n + 1 /\ x = l[n + 1]
  OBVIOUS
<1> HIDE DEF S, x, k
<1>3. /\ Len(Append(t, x)) = Len(t) + 1 /\ Append(t, x)[Len(t) + 1] = x
      /\ \A i \in 1..Len(t) : Append(t, x)[i] = t[i]
  BY <1>1, AppendProperties
<1>4. Len(t) = n /\ t[1] \in {NoPage, l[1]} /\ \A i \in 2..n : t[i] = l[i]
  BY DEF ToldUpTo
<1>5. Append(t, x)[1] \in {NoPage, l[1]}
  <2>1. 1 \in 1..Len(t)
    BY <1>2, <1>4
  <2> QED BY <1>3, <1>4, <2>1, Zenon
<1>6. ASSUME NEW i \in 2..k PROVE Append(t, x)[i] = l[i]
  <2>1. CASE i = n + 1
    BY <1>2, <1>3, <1>4, <2>1
  <2>2. CASE i # n + 1
    <3>1. i \in 2..n /\ i \in 1..Len(t)
      BY <1>2, <1>4, <2>2
    <3> QED BY <1>3, <1>4, <3>1
  <2> QED BY <2>1, <2>2
<1>7. ToldUpTo(Append(t, x), l, k)
  BY <1>2, <1>3, <1>4, <1>5, <1>6 DEF ToldUpTo
<1> QED BY <1>7 DEF x, k

\* All pages were told.
LEMMA ToldAll ==
  ASSUME NEW l \in Seq(Seq(Nat)), Len(l) > 1, NEW t \in Seq(Seq(Nat)), ToldUpTo(t, l, Len(l))
  PROVE  Len(t) = Len(l) /\ Tail(t) = Tail(l) /\ t[1] \in {NoPage, l[1]}
<1> DEFINE S == Seq(Nat)
<1>1. l \in Seq(S) /\ t \in Seq(S) /\ Len(l) \in Nat
  OBVIOUS
<1> HIDE DEF S
<1>2. Len(t) = Len(l) /\ t[1] \in {NoPage, l[1]} /\ \A i \in 2..Len(l) : t[i] = l[i]
  BY DEF ToldUpTo
<1>3. l # <<>> /\ t # <<>>
  BY <1>1, <1>2
<1>4. /\ Tail(l) \in Seq(S) /\ Len(Tail(l)) = Len(l) - 1
      /\ \A i \in 1..Len(Tail(l)) : Tail(l)[i] = l[i + 1]
  BY <1>1, <1>3, HeadTailProperties
<1>5. /\ Tail(t) \in Seq(S) /\ Len(Tail(t)) = Len(t) - 1
      /\ \A i \in 1..Len(Tail(t)) : Tail(t)[i] = t[i + 1]
  BY <1>1, <1>3, HeadTailProperties
<1>6. ASSUME NEW i \in 1..Len(Tail(t)) PROVE Tail(t)[i] = Tail(l)[i]
  <2>1. i + 1 \in 2..Len(l) /\ i \in 1..Len(Tail(l))
    BY <1>1, <1>2, <1>4, <1>5
  <2> QED BY <1>2, <1>4, <1>5, <2>1
<1>7. Tail(t) = Tail(l)
  <2>1. Len(Tail(t)) = Len(Tail(l))
    BY <1>2, <1>4, <1>5
  <2> QED BY <1>4, <1>5, <1>6, <2>1, SeqEqual
<1> QED BY <1>2, <1>7

\* An answer that is kept, or the settings as they are.
LEMMA ContentsAre ==
  ASSUME NEW a \in Answerable, NEW cap \in Budgets
  PROVE  /\ a.units \in Seq(Nat) /\ a.kind \in LaidOut /\ a.kind \in StreamKinds
         /\ a.kind = "settings" \/ (a \in Contents /\ a.kind \in Snapshots)
         /\ cap \in Nat
         /\ Layout(a, cap) \in Seq(Seq(Nat)) /\ Len(Layout(a, cap)) \in Nat
<1>1. a.units \in Seq(Nat) /\ (a.kind = "settings" \/ (a \in Contents /\ a.kind \in Snapshots))
  <2>1. CASE a \in Contents
    <3>1. a \in [kind : Snapshots, units : Seq(Nat), alarms : Nat]
      BY <2>1, ContentsAssumption
    <3> QED BY <2>1, <3>1
  <2>2. CASE a \notin Contents
    <3>1. PICK u \in Settings : a = Answer("settings", u, 0)
      BY <2>2 DEF Answerable
    <3>2. u \in Seq(Nat)
      BY ContentsAssumption
    <3> QED BY <3>1, <3>2 DEF Answer
  <2> QED BY <2>1, <2>2
<1>2. a.kind \in LaidOut /\ a.kind \in StreamKinds
  BY <1>1 DEF LaidOut, StreamKinds
<1>3. cap \in Nat
  BY BudgetAssumption
<1>4. Layout(a, cap) \in Seq(Seq(Nat))
  BY <1>1, <1>3, LayoutIs
<1> QED BY <1>1, <1>2, <1>3, <1>4

\* What may be asked for now.
LEMMA AskableIs ==
  ASSUME settings \in Settings, NEW a \in Contents \union {SettingsInfo}
  PROVE  a \in Answerable /\ (a.kind = "settings" => a = SettingsInfo)
<1>1. SettingsInfo \in Answerable
  BY DEF SettingsInfo, Answerable
<1>2. a \in Contents => a.kind \in Snapshots
  BY ContentsAssumption
<1>3. "settings" \notin Snapshots
  BY DEF Snapshots
<1>4. a \in Contents => a \in Answerable
  BY DEF Answerable
<1> QED BY <1>1, <1>2, <1>3, <1>4

LEMMA NoStreamIs ==
  /\ NoStream \in Streams /\ NoStream.kind = "none"
  /\ "none" \notin Snapshots /\ "none" \notin LaidOut
<1>1. NoAnswer \in Answers /\ "none" \in StreamKinds /\ <<>> \in Seq(Nat)
  BY DEF Answers, StreamKinds
<1>2. NoStream \in Streams /\ NoStream.kind = "none"
  BY <1>1 DEF NoStream, Streams
<1>3. "none" \notin Snapshots /\ "none" \notin LaidOut
  BY DEF Snapshots, LaidOut
<1> QED BY <1>2, <1>3

LEMMA UnaskedIs == Unasked.what.kind \notin LaidOut
  BY DEF Unasked, NoAnswer, Answer, Snapshots, LaidOut

RequestStream(n, ids) ==
  [NoStream EXCEPT !.kind = "request", !.next = 1, !.count = n, !.ids = ids]
SnapshotStream(k, n, cap, a) ==
  [NoStream EXCEPT !.kind = k, !.next = 1, !.count = n, !.cap = cap, !.what = a]

LEMMA RequestArmed ==
  ASSUME NEW n \in Nat, NEW ids \in Seq(Nat)
  PROVE  LET s == RequestStream(n, ids)
         IN s \in Streams /\ s.kind = "request" /\ s.next = 1 /\ s.count = n /\ s.ids = ids
<1> DEFINE none == NoAnswer
<1>1. RequestStream(n, ids) =
        [kind |-> "request", next |-> 1, count |-> n, cap |-> 0, what |-> none, ids |-> ids]
  <2> SUFFICES ASSUME NEW s, s = [NoStream EXCEPT !.kind = "request", !.next = 1, !.count = n, !.ids = ids]
               PROVE  s = [kind |-> "request", next |-> 1, count |-> n, cap |-> 0, what |-> none, ids |-> ids]
    BY Zenon DEF RequestStream
  <2> QED BY DEF NoStream
<1>2. none \in Answers /\ "request" \in StreamKinds /\ 0 \in Nat
  BY DEF Answers, StreamKinds
<1> HIDE DEF none
<1> QED BY <1>1, <1>2 DEF Streams

\* The pages of each kind of stream.
LEMMA StreamPagesAre ==
  /\ stream.kind = "request" => StreamPages = DumpPages(stream.ids, filled)
  /\ stream.kind = "settings" => StreamPages = Layout(SettingsInfo, stream.cap)
  /\ stream.kind \in Snapshots => StreamPages = Layout(stream.what, stream.cap)
<1>1. "request" # "settings" /\ "request" \notin Snapshots /\ "settings" \notin Snapshots
  BY DEF Snapshots
<1> QED BY <1>1 DEF StreamPages

LEMMA StreamPagesType ==
  ASSUME PagesIndInv, stream.kind # "none"
  PROVE  StreamPages \in Seq(Seq(Nat))
<1>1. /\ stream \in Streams /\ settings \in Settings
      /\ stream.kind = "request" \/ stream.kind = "settings" \/ stream.kind \in Snapshots
      /\ stream.kind \in Snapshots => stream.what \in Contents
      /\ stream.kind \in LaidOut => stream.cap \in Budgets
  BY DEF PagesIndInv, PagesType, StreamTold, LaidOut
<1>2. CASE stream.kind = "request"
  <2>1. stream.ids \in Seq(Nat)
    BY <1>1 DEF Streams
  <2>2. DumpPages(stream.ids, filled) \in Seq(Seq(Nat))
    BY <2>1, DumpPagesAre
  <2> QED BY <1>2, <2>2, StreamPagesAre
<1>3. CASE stream.kind = "settings"
  <2>1. SettingsInfo \in Answerable /\ stream.cap \in Budgets
    BY <1>1, <1>3 DEF SettingsInfo, Answerable, LaidOut
  <2> QED BY <1>3, <2>1, ContentsAre, StreamPagesAre
<1>4. CASE stream.kind \in Snapshots
  <2>1. stream.what \in Answerable /\ stream.cap \in Budgets
    BY <1>1, <1>4 DEF Answerable, LaidOut
  <2> QED BY <1>4, <2>1, ContentsAre, StreamPagesAre
<1> QED BY <1>1, <1>2, <1>3, <1>4

LEMMA SnapshotArmed ==
  ASSUME NEW k \in StreamKinds, NEW n \in Nat, NEW cap \in Nat, NEW a \in Answers
  PROVE  LET s == SnapshotStream(k, n, cap, a)
         IN /\ s \in Streams /\ s.kind = k /\ s.next = 1 /\ s.count = n
            /\ s.cap = cap /\ s.what = a
<1>1. SnapshotStream(k, n, cap, a) =
        [kind |-> k, next |-> 1, count |-> n, cap |-> cap, what |-> a, ids |-> <<>>]
  <2> SUFFICES ASSUME NEW s, s = [NoStream EXCEPT !.kind = k, !.next = 1, !.count = n, !.cap = cap, !.what = a]
               PROVE  s = [kind |-> k, next |-> 1, count |-> n, cap |-> cap, what |-> a, ids |-> <<>>]
    BY Zenon DEF SnapshotStream
  <2> QED BY DEF NoStream
<1>2. <<>> \in Seq(Nat)
  OBVIOUS
<1> QED BY <1>1, <1>2 DEF Streams

LEMMA PagesInitIsRight == PagesInit => PagesIndInv
<1> SUFFICES ASSUME PagesInit PROVE PagesIndInv
  OBVIOUS
<1>1. stream = NoStream /\ told = <<>> /\ asked = Unasked /\ pageWork = FALSE /\ sets = 0
      /\ filled = DOMAIN FieldSizes /\ settings \in Settings /\ steady = TRUE
  BY DEF PagesInit
<1>2. PagesType
  <2>1. 0 \in 0..MaxSets
    BY BudgetAssumption
  <2> QED BY <1>1, <2>1, NoStreamIs DEF PagesType
<1>3. StreamTold
  BY <1>1, NoStreamIs DEF StreamTold, Lasting
<1> QED BY <1>1, <1>2, <1>3, NoStreamIs, UnaskedIs DEF PagesIndInv, StreamIsDriven, AskedLaidOut

\* An answer that leaves the stream as it was.
LEMMA OneFrameKeeps ==
  ASSUME PagesIndInv, OneFrame, filled' = filled, settings' = settings, sets' = sets
  PROVE  /\ PagesType' /\ StreamIsDriven' /\ (stream \in Streams)' /\ (told \in Seq(Seq(Nat)))'
         /\ StreamTold'
<1>1. stream' = stream /\ told' = told /\ pageWork' = pageWork /\ steady' = steady
  BY DEF OneFrame
<1>2. StreamPages' = StreamPages
  BY <1>1 DEF StreamPages, SettingsInfo
<1>3. StreamTold'
  BY <1>1, <1>2 DEF PagesIndInv, StreamTold, Lasting
<1> QED BY <1>1, <1>3 DEF PagesIndInv, PagesType, StreamIsDriven

LEMMA AskConfigKeeps ==
  ASSUME PagesIndInv, NEW ids \in Requests, AskConfig(ids)
  PROVE  PagesIndInv'
<1> DEFINE pages == DumpPages(ids, filled)
           s == [NoStream EXCEPT !.kind = "request", !.next = 1, !.count = Len(pages), !.ids = ids]
<1>1. /\ asked' = [what |-> Answer("config", FieldSizes, 0), cap |-> DumpBudget, pages |-> pages]
      /\ \/ StreamArmed(s, pages[1]) /\ Len(pages) > 1
         \/ OneFrame
      /\ filled' = filled /\ settings' = settings /\ sets' = sets
  BY DEF AskConfig
<1>2. pages \in Seq(Seq(Nat)) /\ Len(pages) \in Nat /\ ids \in Seq(Nat)
  <2>1. ids \in Seq(Nat)
    BY FieldAssumption
  <2>2. pages \in Seq(Seq(Nat))
    BY <2>1, DumpPagesAre
  <2> HIDE DEF pages
  <2> QED BY <2>1, <2>2
<1> HIDE DEF pages
<1>3. AskedLaidOut'
  <2>1. asked'.what.kind = "config"
    BY <1>1 DEF Answer
  <2> QED BY <2>1 DEF AskedLaidOut, LaidOut, Snapshots
<1>4. CASE OneFrame
  BY <1>1, <1>3, <1>4, OneFrameKeeps DEF PagesIndInv
<1>5. CASE StreamArmed(s, pages[1]) /\ Len(pages) > 1
  <2>1. /\ s \in Streams /\ s.kind = "request" /\ s.next = 1 /\ s.count = Len(pages) /\ s.ids = ids
    <3>1. s = RequestStream(Len(pages), ids)
      BY DEF RequestStream
    <3> HIDE DEF s
    <3> QED BY <1>2, <3>1, RequestArmed
  <2> HIDE DEF s
  <2>2. stream' = s /\ pageWork' = TRUE /\ steady' = TRUE
    BY <1>5 DEF StreamArmed
  <2>3. PICK queued \in BOOLEAN : told' = <<IF queued THEN pages[1] ELSE NoPage>>
    BY <1>5 DEF StreamArmed
  <2>4. told' \in Seq(Seq(Nat)) /\ ToldUpTo(told', pages, 1)
    BY <1>2, <1>5, <2>3, ToldFirst
  <2>5. PagesType'
    <3>1. 1 \in 1..(Len(pages) - 1)
      BY <1>2, <1>5
    <3> QED BY <1>1, <2>1, <2>2, <3>1 DEF PagesIndInv, PagesType
  <2>6. StreamIsDriven'
    BY <2>2 DEF StreamIsDriven
  <2>7. StreamTold'
    <3>1. StreamPages' = pages
      <4>1. StreamPages' = DumpPages(s.ids, filled)
        BY <1>1, <2>1, <2>2 DEF StreamPages
      <4> QED BY <2>1, <4>1 DEF pages
    <3>2. "request" \notin Snapshots /\ "request" \notin LaidOut
      BY DEF Snapshots, LaidOut
    <3> QED BY <2>1, <2>2, <2>4, <3>1, <3>2 DEF StreamTold
  <2> QED BY <1>3, <2>1, <2>2, <2>4, <2>5, <2>6, <2>7 DEF PagesIndInv
<1> QED BY <1>1, <1>4, <1>5

LEMMA AskKeeps ==
  ASSUME PagesIndInv, NEW a \in Contents \union {SettingsInfo}, NEW cap \in Budgets, Ask(a, cap)
  PROVE  PagesIndInv'
<1> DEFINE pages == Layout(a, cap)
           what == IF a.kind = "settings" THEN NoAnswer ELSE a
           s == [NoStream EXCEPT !.kind = a.kind, !.next = 1, !.count = Len(pages),
                            !.cap = cap, !.what = what]
<1>1. /\ asked' = [what |-> a, cap |-> cap, pages |-> pages]
      /\ \/ StreamArmed(s, pages[1]) /\ Len(pages) > 1
         \/ OneFrame
      /\ filled' = filled /\ settings' = settings /\ sets' = sets
  BY DEF Ask, Refuses
<1>0. a \in Answerable /\ (a.kind = "settings" => a = SettingsInfo)
  BY AskableIs DEF PagesIndInv, PagesType
<1>2. /\ a.kind \in LaidOut /\ a.kind \in StreamKinds
      /\ a.kind = "settings" \/ (a \in Contents /\ a.kind \in Snapshots)
      /\ pages \in Seq(Seq(Nat)) /\ Len(pages) \in Nat /\ cap \in Nat
  BY <1>0, ContentsAre
<1>3. AskedLaidOut'
  <2>1. asked'.what = a /\ asked'.cap = cap /\ asked'.pages = Layout(a, cap)
    BY <1>1
  <2> QED BY <1>0, <2>1 DEF AskedLaidOut
<1>4. CASE OneFrame
  BY <1>1, <1>3, <1>4, OneFrameKeeps DEF PagesIndInv
<1>5. CASE StreamArmed(s, pages[1]) /\ Len(pages) > 1
  <2>1. /\ s \in Streams /\ s.kind = a.kind /\ s.next = 1 /\ s.count = Len(pages)
        /\ s.cap = cap /\ s.what = what
    <3>1. what \in Answers
      BY <1>2 DEF Answers
    <3>2. s = SnapshotStream(a.kind, Len(pages), cap, what)
      BY DEF SnapshotStream
    <3> DEFINE n == Len(pages)
               k == a.kind
               t == SnapshotStream(k, n, cap, what)
    <3>3. k \in StreamKinds /\ n \in Nat /\ s = t
      BY <1>2, <3>2
    <3> HIDE DEF s, pages, k, n, what
    <3>4. /\ t \in Streams /\ t.kind = k /\ t.next = 1 /\ t.count = n
          /\ t.cap = cap /\ t.what = what
      BY <1>2, <3>1, <3>3, SnapshotArmed
    <3> HIDE DEF t
    <3> QED BY <3>3, <3>4 DEF k, n
  <2> HIDE DEF s
  <2>2. stream' = s /\ pageWork' = TRUE /\ steady' = TRUE
    BY <1>5 DEF StreamArmed
  <2>3. PICK queued \in BOOLEAN : told' = <<IF queued THEN pages[1] ELSE NoPage>>
    BY <1>5 DEF StreamArmed
  <2>4. told' \in Seq(Seq(Nat)) /\ ToldUpTo(told', pages, 1)
    <3> HIDE DEF pages
    <3> QED BY <1>2, <1>5, <2>3, ToldFirst
  <2>5. PagesType'
    <3>1. 1 \in 1..(Len(pages) - 1)
      <4> HIDE DEF pages
      <4> QED BY <1>2, <1>5
    <3> QED BY <1>1, <1>2, <2>1, <2>2, <3>1 DEF PagesIndInv, PagesType
  <2>6. StreamIsDriven'
    BY <2>2 DEF StreamIsDriven
  <2>7. StreamPages' = pages
    <3>1. "settings" # "request" /\ "settings" \notin Snapshots /\ "request" \notin Snapshots
      BY DEF Snapshots
    <3>2. CASE a.kind = "settings"
      <4>1. SettingsInfo' = a
        BY <1>0, <1>1, <3>2 DEF SettingsInfo
      <4> HIDE DEF pages, what
      <4>2. StreamPages' = Layout(SettingsInfo', cap)
        BY <2>1, <2>2, <3>1, <3>2 DEF StreamPages
      <4> QED BY <4>1, <4>2 DEF pages
    <3>3. CASE a.kind # "settings"
      <4>1. what = a /\ a.kind # "request"
        BY <1>2, <3>1, <3>3
      <4> HIDE DEF pages, what
      <4>2. StreamPages' = Layout(a, cap)
        BY <2>1, <2>2, <3>3, <4>1 DEF StreamPages
      <4> QED BY <4>2 DEF pages
    <3> QED BY <3>2, <3>3
  <2>8. StreamTold'
    <3>1. a.kind \in Snapshots => what \in Contents
      BY <1>2 DEF Snapshots
    <3> HIDE DEF pages, what
    <3> QED BY <2>1, <2>2, <2>4, <2>7, <3>1 DEF StreamTold
  <2> QED BY <1>3, <2>1, <2>2, <2>4, <2>5, <2>6, <2>8 DEF PagesIndInv
<1> QED BY <1>1, <1>4, <1>5

\* Only the pages of a kept answer outlast a change of the configuration.
LEMMA SetParamKeeps ==
  ASSUME PagesIndInv, NEW there, there \subseteq DOMAIN FieldSizes, NEW items \in Settings,
         SetParam(there, items)
  PROVE  PagesIndInv'
<1>1. /\ sets < MaxSets /\ filled' = there /\ settings' = items /\ sets' = sets + 1
      /\ asked' = Unasked /\ steady' = FALSE
      /\ stream' = stream /\ pageWork' = pageWork /\ told' = told
  BY DEF SetParam
<1>2. PagesType'
  <2>1. sets + 1 \in 0..MaxSets
    BY <1>1, BudgetAssumption DEF PagesIndInv, PagesType
  <2> QED BY <1>1, <2>1 DEF PagesIndInv, PagesType
<1>3. AskedLaidOut'
  BY <1>1, UnaskedIs DEF AskedLaidOut
<1>4. StreamTold'
  <2>1. /\ stream.kind \in Snapshots => stream.what \in Contents
        /\ stream.kind \in LaidOut => stream.cap \in Budgets
    BY DEF PagesIndInv, StreamTold
  <2>2. CASE stream.kind \in Snapshots
    <3>1. StreamPages' = StreamPages
      <4>1. stream.kind # "request" /\ stream.kind # "settings"
        BY <2>2 DEF Snapshots
      <4> QED BY <1>1, <4>1 DEF StreamPages
    <3>2. stream.count = Len(StreamPages) /\ ToldUpTo(told, StreamPages, stream.next)
      BY <2>2 DEF PagesIndInv, StreamTold, Lasting
    <3> QED BY <1>1, <2>1, <3>1, <3>2 DEF StreamTold
  <2>3. CASE stream.kind \notin Snapshots
    BY <1>1, <2>1, <2>3 DEF StreamTold, Lasting
  <2> QED BY <2>2, <2>3
<1> QED BY <1>1, <1>2, <1>3, <1>4 DEF PagesIndInv, StreamIsDriven

\* The stream ends, or was cancelled.
LEMMA StreamEnds ==
  ASSUME PagesIndInv, stream' = NoStream, told' \in Seq(Seq(Nat)), pageWork' \in BOOLEAN,
         asked' = Unasked, filled' = filled, settings' = settings, steady' = steady, sets' = sets
  PROVE  PagesIndInv'
<1>1. PagesType'
  BY NoStreamIs DEF PagesIndInv, PagesType
<1>2. StreamTold'
  BY NoStreamIs DEF StreamTold, Lasting
<1> QED BY <1>1, <1>2, NoStreamIs, UnaskedIs DEF PagesIndInv, StreamIsDriven, AskedLaidOut

\* The next page is there while the pages last.
LEMMA StreamPageIs ==
  ASSUME PagesIndInv, stream.kind # "none"
  PROVE  /\ StreamPage \in Seq(Nat)
         /\ Lasting => /\ StreamPage = StreamPages[stream.next + 1] /\ ~PageIsGone
                       /\ stream.next \in 1..(Len(StreamPages) - 1)
<1> DEFINE pages == StreamPages
           n == stream.next
<1>1. n \in 1..(stream.count - 1) /\ stream.count \in Nat
  <2>1. stream \in Streams /\ n \in 1..(stream.count - 1)
    BY DEF PagesIndInv, PagesType
  <2> QED BY <2>1 DEF Streams
<1>2. pages \in Seq(Seq(Nat)) /\ Len(pages) \in Nat
  BY StreamPagesType
<1>3. Lasting => stream.count = Len(pages)
  BY DEF PagesIndInv, StreamTold
<1>4. /\ StreamPage = IF n < Len(pages) THEN pages[n + 1] ELSE NoPage
      /\ PageIsGone => n >= Len(pages)
  BY DEF StreamPage, PageIsGone
<1>5. NoPage \in Seq(Nat)
  BY DEF NoPage
<1> HIDE DEF pages, n
<1>6. StreamPage \in Seq(Nat)
  <2>1. n < Len(pages) => n + 1 \in 1..Len(pages)
    BY <1>1, <1>2
  <2>2. n < Len(pages) => pages[n + 1] \in Seq(Nat)
    BY <1>2, <2>1
  <2> QED BY <1>4, <1>5, <2>2
<1>7. ASSUME Lasting
      PROVE  StreamPage = pages[n + 1] /\ ~PageIsGone /\ n \in 1..(Len(pages) - 1)
  <2>1. n \in 1..(Len(pages) - 1) /\ n < Len(pages)
    BY <1>1, <1>2, <1>3, <1>7
  <2>2. ~(n >= Len(pages))
    BY <1>1, <1>2, <2>1
  <2> QED BY <1>4, <2>1, <2>2
<1> QED BY <1>6, <1>7 DEF pages, n

\* A page of the stream goes on from the pages told so far.
LEMMA PageGoesOn ==
  ASSUME PagesIndInv, stream.kind # "none", told' = Append(told, StreamPage)
  PROVE  /\ told' \in Seq(Seq(Nat))
         /\ Lasting => ToldUpTo(told', StreamPages, stream.next + 1)
<1>1. StreamPage \in Seq(Nat) /\ told \in Seq(Seq(Nat))
  BY StreamPageIs DEF PagesIndInv
<1>2. told' \in Seq(Seq(Nat))
  <2> DEFINE S == Seq(Nat)
  <2>1. StreamPage \in S /\ told \in Seq(S)
    BY <1>1
  <2> HIDE DEF S
  <2>2. Append(told, StreamPage) \in Seq(S)
    BY <2>1, AppendProperties
  <2> QED BY <2>2 DEF S
<1>3. ASSUME Lasting PROVE ToldUpTo(told', StreamPages, stream.next + 1)
  <2> DEFINE l == StreamPages
             n == stream.next
  <2>1. ToldUpTo(told, l, n)
    BY <1>3 DEF PagesIndInv, StreamTold
  <2>2. l \in Seq(Seq(Nat))
    BY StreamPagesType
  <2>3. StreamPage = l[n + 1] /\ n \in 1..(Len(l) - 1)
    BY <1>3, StreamPageIs
  <2> HIDE DEF l, n
  <2>4. ToldUpTo(Append(told, l[n + 1]), l, n + 1)
    BY <1>1, <2>1, <2>2, <2>3, ToldNext
  <2> QED BY <2>3, <2>4 DEF l, n
<1> QED BY <1>2, <1>3

LEMMA NextStreamPageKeeps ==
  ASSUME PagesIndInv, NextStreamPage
  PROVE  PagesIndInv'
<1>1. /\ asked' = Unasked /\ filled' = filled /\ settings' = settings
      /\ steady' = steady /\ sets' = sets /\ pageWork
  BY DEF NextStreamPage
<1>2. CASE stream.kind = "none"
  <2>1. pageWork' = FALSE /\ told' = <<>> /\ stream' = stream
    BY <1>2 DEF NextStreamPage
  <2>2. PagesType'
    BY <1>1, <1>2, <2>1 DEF PagesIndInv, PagesType
  <2>3. (stream \in Streams)' /\ (told \in Seq(Seq(Nat)))'
    BY <2>1 DEF PagesIndInv
  <2>4. StreamIsDriven' /\ StreamTold' /\ AskedLaidOut'
    BY <1>1, <1>2, <2>1, NoStreamIs, UnaskedIs DEF StreamIsDriven, StreamTold, Lasting, AskedLaidOut
  <2> QED BY <2>2, <2>3, <2>4 DEF PagesIndInv
<1>3. CASE stream.kind # "none" /\ PageIsGone
  <2>1. pageWork' = FALSE /\ stream' = NoStream /\ told' = told
    BY <1>3 DEF NextStreamPage
  <2>2. told' \in Seq(Seq(Nat))
    BY <2>1 DEF PagesIndInv
  <2> QED BY <1>1, <2>1, <2>2, StreamEnds
<1>4. CASE stream.kind # "none" /\ ~PageIsGone
  <2>1. /\ told' = Append(told, StreamPage) /\ pageWork' = pageWork
        /\ stream' = IF EndsAfter(stream) THEN NoStream ELSE [stream EXCEPT !.next = @ + 1]
    BY <1>4 DEF NextStreamPage
  <2>2. told' \in Seq(Seq(Nat))
    BY <1>4, <2>1, PageGoesOn
  <2>3. CASE EndsAfter(stream)
    BY <1>1, <2>1, <2>2, <2>3, StreamEnds
  <2>4. CASE ~EndsAfter(stream)
    <3>1. stream' = [stream EXCEPT !.next = @ + 1] /\ stream \in Streams
      BY <2>1, <2>4 DEF PagesIndInv
    <3>2. /\ stream'.kind = stream.kind /\ stream'.what = stream.what /\ stream'.cap = stream.cap
          /\ stream'.count = stream.count /\ stream'.next = stream.next + 1
          /\ stream'.ids = stream.ids
      BY <3>1 DEF Streams
    <3>3. stream' \in Streams
      BY <3>1 DEF Streams
    <3>4. PagesType'
      <4>1. stream.next + 1 \in 1..(stream.count - 1)
        <5>1. stream.next \in Nat /\ stream.count \in Nat
          BY <3>1 DEF Streams
        <5>2. ~(stream.next + 1 >= stream.count)
          BY <2>4 DEF EndsAfter
        <5> QED BY <5>1, <5>2
      <4> QED BY <1>1, <2>1, <3>2, <4>1 DEF PagesIndInv, PagesType
    <3>5. StreamTold'
      <4>1. Lasting => ToldUpTo(told', StreamPages, stream.next + 1)
        BY <1>4, <2>1, PageGoesOn
      <4>2. StreamPages' = StreamPages
        BY <1>1, <3>2 DEF StreamPages, SettingsInfo
      <4>3. Lasting' <=> Lasting
        BY <1>1, <3>2 DEF Lasting
      <4> QED BY <3>2, <4>1, <4>2, <4>3 DEF PagesIndInv, StreamTold
    <3>6. StreamIsDriven' /\ AskedLaidOut'
      BY <1>1, <2>1, UnaskedIs DEF StreamIsDriven, AskedLaidOut
    <3> QED BY <2>2, <3>3, <3>4, <3>5, <3>6 DEF PagesIndInv
  <2> QED BY <2>3, <2>4
<1> QED BY <1>2, <1>3, <1>4

\* PagesIndInv is inductive.
LEMMA PagesStep == PagesIndInv /\ [PagesNext]_pagesVars => PagesIndInv'
<1> SUFFICES ASSUME PagesIndInv, [PagesNext]_pagesVars PROVE PagesIndInv'
  OBVIOUS
<1>1. CASE \E ids \in Requests : AskConfig(ids)
  BY <1>1, AskConfigKeeps
<1>2. CASE \E a \in Contents \union {SettingsInfo}, cap \in Budgets : Ask(a, cap)
  BY <1>2, AskKeeps
<1>3. CASE \E alarms \in SUBSET AlarmFields, items \in Settings :
             SetParam((DOMAIN FieldSizes \ AlarmFields) \union alarms, items)
  <2>1. PICK alarms \in SUBSET AlarmFields, items \in Settings :
          SetParam((DOMAIN FieldSizes \ AlarmFields) \union alarms, items)
    BY <1>3
  <2>2. (DOMAIN FieldSizes \ AlarmFields) \union alarms \subseteq DOMAIN FieldSizes
    BY FieldAssumption
  <2> QED BY <2>1, <2>2, SetParamKeeps
<1>4. CASE NextStreamPage
  BY <1>4, NextStreamPageKeeps
<1>5. CASE StreamCancel
  <2>1. stream' = NoStream /\ told' = <<>> /\ pageWork' = FALSE /\ asked' = Unasked
        /\ filled' = filled /\ settings' = settings /\ steady' = steady /\ sets' = sets
    BY <1>5 DEF StreamCancel
  <2>2. told' \in Seq(Seq(Nat))
    BY <2>1
  <2> QED BY <2>1, <2>2, StreamEnds
<1>6. CASE UNCHANGED pagesVars
  <2>1. StreamPages' = StreamPages
    BY <1>6 DEF pagesVars, StreamPages, SettingsInfo
  <2>2. StreamTold'
    BY <1>6, <2>1 DEF pagesVars, PagesIndInv, StreamTold, Lasting
  <2> QED BY <1>6, <2>2 DEF pagesVars, PagesIndInv, PagesType, StreamIsDriven, AskedLaidOut
<1> QED BY <1>1, <1>2, <1>3, <1>4, <1>5, <1>6 DEF PagesNext

LEMMA PagesIndInvHolds == PagesSpec => []PagesIndInv
  BY PagesInitIsRight, PagesStep, PTL DEF PagesSpec

\* It implies what the run checks.
LEMMA LaidOutIsRight == PagesIndInv => PagesInv
<1> SUFFICES ASSUME PagesIndInv PROVE LayoutIsRight
  BY DEF PagesIndInv, PagesInv
<1>1. ASSUME asked.what.kind \in LaidOut \ {"w1scan"}
      PROVE  RightFor(asked.what, asked.cap, asked.pages)
  <2> DEFINE a == asked.what
             cap == asked.cap
  <2>1. a \in Answerable /\ cap \in Budgets /\ asked.pages = Layout(a, cap)
    BY <1>1 DEF PagesIndInv, AskedLaidOut
  <2>2. a.kind # "w1scan"
    BY <1>1
  <2> HIDE DEF a, cap
  <2>3. a.units \in Seq(Nat) /\ cap \in Nat
    BY <2>1, ContentsAre
  <2>4. asked.pages = Greedy(a, cap)
    BY <2>1, <2>2 DEF Layout
  <2>5. RightFor(a, cap, Greedy(a, cap))
    BY <2>2, <2>3, GreedyIsRight
  <2> QED BY <2>4, <2>5 DEF a, cap
<1> QED BY <1>1 DEF LayoutIsRight, RightFor

\* The layouts of app_cmd.c, for all answers, configurations and budgets: every unit that fits
\* a frame at all is told once and in order, no page is empty or too big, no layout in order has
\* fewer pages, the phone collects the same units, and a stream that runs has its handler due.
THEOREM LayoutsAreRight == PagesSpec => []PagesInv
  BY PagesIndInvHolds, LaidOutIsRight, PTL

\* The last page of a stream.
LEMMA PageEndsRight ==
  ASSUME PagesIndInv, [PagesNext]_pagesVars,
         Lasting, stream' = NoStream, told' # <<>>
  PROVE  /\ Len(told') = stream.count
         /\ Tail(told') = Tail(StreamPages)
         /\ told'[1] \in {NoPage, StreamPages[1]}
<1>1. stream.kind # "none" /\ NoStream.kind = "none"
  BY DEF Lasting, Snapshots, NoStream
<1>2. stream' # stream
  BY <1>1
<1>3. NextStreamPage
  <2>1. \A ids : AskConfig(ids) => stream' = stream
    BY <1>1 DEF AskConfig, OneFrame
  <2>2. \A a, cap : Ask(a, cap) => stream' = stream
    BY <1>1 DEF Ask, OneFrame, Refuses
  <2>3. \A there, items : SetParam(there, items) => stream' = stream
    BY DEF SetParam
  <2>4. StreamCancel => told' = <<>>
    BY DEF StreamCancel
  <2>5. UNCHANGED pagesVars => stream' = stream
    BY DEF pagesVars
  <2> QED BY <1>2, <2>1, <2>2, <2>3, <2>4, <2>5, Zenon DEF PagesNext
<1>a. ~PageIsGone
  BY <1>1, StreamPageIs
<1>4. /\ told' = Append(told, StreamPage)
      /\ stream' = IF EndsAfter(stream) THEN NoStream ELSE [stream EXCEPT !.next = @ + 1]
  BY <1>1, <1>3, <1>a DEF NextStreamPage
<1>5. EndsAfter(stream)
  <2>1. stream \in Streams
    BY DEF PagesIndInv
  <2>2. [stream EXCEPT !.next = @ + 1].kind = stream.kind
    BY <2>1 DEF Streams
  <2> QED BY <1>1, <1>4, <2>2
<1> DEFINE l == StreamPages
           n == stream.next
<1>6. told' \in Seq(Seq(Nat)) /\ ToldUpTo(told', l, n + 1)
  BY <1>1, <1>4, PageGoesOn
<1>7. n \in 1..(Len(l) - 1)
  BY <1>1, StreamPageIs
<1>8. stream.count = Len(l)
  BY DEF PagesIndInv, StreamTold
<1>9. l \in Seq(Seq(Nat)) /\ Len(l) \in Nat
  BY <1>1, StreamPagesType
<1>10. n + 1 >= stream.count
  BY <1>5 DEF EndsAfter
<1> HIDE DEF l, n
<1>11. n + 1 = Len(l) /\ Len(l) > 1
  BY <1>7, <1>8, <1>9, <1>10
<1>12. Len(told') = Len(l) /\ Tail(told') = Tail(l) /\ told'[1] \in {NoPage, l[1]}
  <2>1. ToldUpTo(told', l, Len(l))
    BY <1>6, <1>11
  <2> QED BY <1>6, <1>9, <1>11, <2>1, ToldAll
<1> QED BY <1>8, <1>12 DEF l

\* A stream of pages that ended told each page of its answer once and in order, whatever was
\* asked while it ran: always of a kept scan, Info or radio state; of settings and requested
\* fields, which every page reads and lays out again (app_cmd_stream_next()), as long as the
\* configuration and the slots stayed as they were when it was armed.
THEOREM StreamsTellAll == PagesSpec => StreamTellsAll
<1>1. PagesIndInv /\ [PagesNext]_pagesVars =>
        [Lasting /\ stream' = NoStream /\ told' # <<>> =>
           /\ Len(told') = stream.count
           /\ Tail(told') = Tail(StreamPages)
           /\ told'[1] \in {NoPage, StreamPages[1]}]_pagesVars
  BY PageEndsRight
<1> QED BY <1>1, PagesIndInvHolds, PTL DEF PagesSpec, StreamTellsAll

=============================================================================
