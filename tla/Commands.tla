------------------------------ MODULE Commands ------------------------------
(***************************************************************************)
(* The commands that change the unit, from a phone and over the radio, and  *)
(* what becomes of the configuration: app/src/app_cmd.c (handlers, deferred *)
(* actions), app_settings.c (reset tiers), app_config.c (staging, export,   *)
(* migration), app_nfc.c (mailbox, replay guard, claim latch), app_radio.c  *)
(* (post-command actions), app_counters.c, main.c.                          *)
(*                                                                         *)
(* The configuration is three copies: flash, staged (m_app_config) and      *)
(* running (g_app_config).  Two threads of one priority change it: the NFC  *)
(* thread ("nfc") and the radio work queue ("radio").  A save writes the    *)
(* fields in the order of h_export(); power may fail between two of them,   *)
(* and between any two steps.                                               *)
(***************************************************************************)
EXTENDS Integers, Sequences, SequencesExt

CONSTANTS
  Taps,          \* the phone's commands: a set of sequences, the n-th command is counter n
  Downlinks,     \* commands that come over the radio
  MaxDownlinks,  \* bound: how many
  MaxSkip,       \* NFC_NONCE_MAX_SKIP
  MaxDrain,      \* POST_CMD_DRAIN_MAX_SEC, in waits of POST_CMD_DRAIN_WAIT_SEC
  MaxTrouble     \* bound: power failures and failed writes

ASSUME TapsAssumption == Taps \subseteq Seq(STRING)
ASSUME SkipAssumption == MaxSkip \in Nat \ {0}
ASSUME DrainAssumption == MaxDrain \in Nat \ {0}

VARIABLES
  up,         \* the unit runs
  flash,      \* the config subtree
  nvs,        \* what is stored elsewhere: claim latch, counters, history, link session
  staged,     \* m_app_config
  running,    \* g_app_config
  rules,      \* the decoded alarm rules
  latch,      \* m_claim_state
  counters,   \* the live totals
  vkey,       \* m_pending_vendor_secret_key
  batch,      \* the SetParam in progress, under the config lock
  jobs,       \* the steps each thread's deferred action has left
  phone,      \* the commands the phone sends
  nfc,        \* the NFC thread: where it is, the frame it serves, the counter before
  cache,      \* m_resp_cache_counter: the counter of the cached reply
  action,     \* m_cmd_action
  post,       \* m_post_cmd_pending, the waits since its start
  bounds,     \* downlinks and troubles so far
  hist        \* history: the last counter handled, the reset under way, how often the
              \* post-command actions waited, the requests whose action was staged

unitVars == <<staged, running, rules, latch, counters, vkey, batch, jobs, nfc, cache, action, post>>
cmdVars == <<up, flash, nvs, phone, bounds, hist, unitVars>>

Threads == {"nfc", "radio"}

(* h_export(): the order of a save.  Keys and tokens are numbers, 0 is the     *)
(* all-zero one; a rule set by the old firmware is "foreign", one from before  *)
(* a reset "old"; the radio's keys are 3 when they are set after one.         *)
Order == <<"key", "nonce", "token", "calib", "allow", "lrw", "rule", "version">>

Defaults == [key |-> 0, nonce |-> 0, token |-> 0, calib |-> FALSE, allow |-> TRUE, lrw |-> 0,
             rule |-> "none", version |-> "new"]

Tier(tier) ==
  CASE tier = "device" -> {"key", "nonce", "token", "allow", "lrw"}
    [] tier = "factory" -> {"key", "nonce", "token", "allow"}
    [] tier = "vendor" -> {"nonce"}

\* app_config_device_reset() and its siblings: the tier's fields survive.
ResetTo(tier, c) ==
  [f \in DOMAIN c |-> IF f \in Tier(tier) THEN c[f] ELSE Defaults[f]]

\* What the flash holds when power fails after n fields of a save.
Torn(old, new, n) ==
  [f \in DOMAIN old |-> IF \E i \in 1..n : Order[i] = f THEN new[f] ELSE old[f]]

(* h_set(): a value of another size than this firmware's is left out, and its  *)
(* key removed.                                                               *)
Loaded(c) == IF c.rule = "stale" THEN [c EXCEPT !.rule = Defaults.rule] ELSE c

(* clm_settings_set(): the states of an older firmware, and, for any value it  *)
(* does not know, the closed window.                                          *)
LoadedLatch(stored) == IF stored \in {"pending", "active"} THEN "active" ELSE "done"

(* h_commit(): a configuration of an older firmware keeps the device tier.     *)
Migrated(c) == IF c.version = "old" THEN ResetTo("device", Loaded(c)) ELSE Loaded(c)

NoBatch == [owner |-> "none", before |-> Defaults, kind |-> "none"]
Idle == [pc |-> "idle", n |-> 0, prev |-> 0, act |-> "none"]

OffState ==
  /\ staged = Defaults /\ running = Defaults /\ rules = "none"
  /\ latch = "active" /\ counters = 0 /\ vkey = 0 /\ batch = NoBatch
  /\ jobs = [t \in Threads |-> <<>>] /\ nfc = Idle /\ cache = 0
  /\ action = "none" /\ post = [pending |-> {}, age |-> 0]

NoHist == [spent |-> 0, reset |-> "none", held |-> 0, ran |-> {}]

CmdInit ==
  /\ up = FALSE
  /\ flash \in {[Defaults EXCEPT !.key = 1, !.token = 1, !.lrw = 1,
                                 !.version = v[1], !.rule = v[2]]
                 : v \in {<<"old", "foreign">>, <<"new", "stale">>, <<"new", "old">>}}
  /\ nvs = [latch |-> "consumed", counters |-> 1, history |-> 1, link |-> 1]
  /\ phone \in Taps
  /\ bounds = [downlinks |-> 0, trouble |-> 0]
  /\ hist = NoHist
  /\ OffState

----------------------------------------------------------------------------
\* Power.

(* A reset of the unit: every variable in RAM goes.  (A reset clears what the  *)
(* history variables say of this run.)                                        *)
PowersOff ==
  /\ up' = FALSE
  /\ staged' = Defaults /\ running' = Defaults /\ rules' = "none"
  /\ latch' = "active" /\ counters' = 0 /\ vkey' = 0 /\ batch' = NoBatch
  /\ jobs' = [t \in Threads |-> <<>>] /\ nfc' = Idle /\ cache' = 0
  /\ action' = "none" /\ post' = [pending |-> {}, age |-> 0]
  /\ hist' = [hist EXCEPT !.reset = "none", !.held = 0, !.ran = {}]

(* app_config_init(), app_alarm_rules_init(), app_nfc_init(),                  *)
(* app_counters_init(): a migrated configuration is saved at once.            *)
Boot ==
  /\ ~up
  /\ up' = TRUE
  /\ flash' = Migrated(flash)
  /\ staged' = Migrated(flash)
  /\ running' = Migrated(flash)
  /\ rules' = Migrated(flash).rule
  /\ latch' = LoadedLatch(nvs.latch)
  /\ counters' = nvs.counters
  /\ UNCHANGED <<nvs, phone, bounds, hist, vkey, batch, jobs, nfc, cache, action, post>>

Trouble == /\ bounds.trouble < MaxTrouble
           /\ bounds' = [bounds EXCEPT !.trouble = @ + 1]

\* Power fails between two steps, or while the migrated configuration is saved.
PowerFails ==
  /\ Trouble
  /\ \/ up /\ UNCHANGED flash
     \/ ~up /\ \E n \in 0..Len(Order) : flash' = Torn(flash, Migrated(flash), n)
  /\ PowersOff
  /\ UNCHANGED <<nvs, phone>>

----------------------------------------------------------------------------
\* SetParam, which holds app_config_lock() from its first step to its last.

Unlocked == batch.owner = "none"

\* What the batch stages: a rule, the recovery policy, the radio's keys, or a
\* rule and then a field that is refused.
Staging(kind, c) ==
  CASE kind \in {"set_rule", "set_save", "set_bad"} ->
         [c EXCEPT !.rule = IF hist.reset = "none" THEN "old" ELSE "set"]
    [] kind = "set_deny" -> [c EXCEPT !.allow = FALSE]
    [] kind = "set_keys" -> [c EXCEPT !.lrw = IF hist.reset = "none" THEN 2 ELSE 3]

\* The snapshot, and the groups in their order.
SetParamBegins(t, kind) ==
  /\ Unlocked
  /\ batch' = [owner |-> t, before |-> staged, kind |-> kind]
  /\ staged' = Staging(kind, staged)

\* Mutant: a batch that is refused leaves the decoded rules as they were staged.
EndsUnreloaded(kind) ==
  /\ batch' = NoBatch
  /\ staged' = IF kind = "set_bad" THEN batch.before ELSE staged
  /\ rules' = IF kind \in {"set_rule", "set_save", "set_bad"} THEN staged.rule ELSE rules
(* The last step: a fault rolls the whole batch back, and the rules are        *)
(* decoded again from what is staged now.                                     *)
SetParamEnds(kind) ==
  /\ batch' = NoBatch
  /\ staged' = IF kind = "set_bad" THEN batch.before ELSE staged
  /\ rules' = IF kind \in {"set_rule", "set_save", "set_bad"} THEN staged'.rule ELSE rules

SetParams == {"set_rule", "set_save", "set_bad", "set_deny", "set_keys"}

----------------------------------------------------------------------------
\* Deferred actions.

(* The reset tiers of app_settings.c, step by step.                            *)
TierPlan(act) ==
  CASE act = "device_reset" -> <<"device", "save", "clear", "save", "reboot">>
    [] act = "factory_reset" ->
         <<"factory", "save", "clear", "save", "zero", "counters", "history", "link", "reboot">>
    [] act = "vendor_reset" ->
         <<"vendor", "save", "key", "savekey", "zero", "counters", "history", "done",
           "clear", "save", "link", "reboot">>

(* app_cmd_run_action(): what is saved, and the reboot that ends every action  *)
(* but two.                                                                   *)
Plan(act) ==
  CASE act = "save" -> <<"save", "reboot">>
    [] act = "reboot" -> <<"reboot">>
    [] act = "claim_active" -> <<"save", "active", "save", "reboot">>
    [] act = "enter_calibration" -> <<"calibrate", "save", "reboot">>
    [] act = "lrw_reset" -> <<"link", "reboot">>
    [] act = "lrw_join" -> <<"join">>
    [] act = "counters" -> <<"counters">>
    [] OTHER -> TierPlan(act)

\* Mutant: one reboot action or the counters.
PostPlanFirst(pending) ==
  IF "save" \in pending THEN Plan("save")
  ELSE IF "counters" \in pending THEN Plan("counters")
  ELSE IF "reboot" \in pending THEN Plan("reboot")
  ELSE Plan("lrw_join")
(* post_cmd_run(), for the actions the radio can produce: what does not        *)
(* reboot first, then the strongest reboot, and a rejoin only without one.    *)
PostPlan(pending) ==
  (IF "counters" \in pending THEN Plan("counters") ELSE <<>>)
    \o (IF "save" \in pending THEN Plan("save")
        ELSE IF "reboot" \in pending THEN Plan("reboot")
        ELSE IF "lrw_join" \in pending THEN Plan("lrw_join") ELSE <<>>)

Next1(t) == jobs' = [jobs EXCEPT ![t] = Tail(@)]
At(t, step) == up /\ jobs[t] # <<>> /\ jobs[t][1] = step

\* Mutant: the tier does not wait for a SetParam.
TierUnlocked == TRUE
TierWaits == Unlocked

(* The RAM part of a reset tier, under the lock.  A vendor reset that is not   *)
(* allowed, or has no key, goes no further than its reboot.                   *)
ResetTier(t, tier) ==
  /\ At(t, tier)
  /\ IF tier = "vendor" /\ (~staged.allow \/ vkey = 0)
       THEN /\ jobs' = [jobs EXCEPT ![t] = <<"reboot">>]
            /\ UNCHANGED <<staged, running, hist>>
       ELSE /\ TierWaits
            /\ staged' = ResetTo(tier, staged)
            /\ running' = ResetTo(tier, staged)
            /\ hist' = [hist EXCEPT !.reset = tier]
            /\ Next1(t)
  /\ UNCHANGED <<up, flash, nvs, phone, bounds, rules, latch, counters, vkey, batch, nfc,
                 cache, action, post>>

(* settings_save(): every field, in order; power may fail in the middle.       *)
Save(t) ==
  /\ At(t, "save")
  /\ \/ /\ flash' = staged
        /\ Next1(t)
        /\ UNCHANGED <<up, bounds, hist, staged, running, rules, latch, counters, vkey, batch,
                       nfc, cache, action, post>>
     \/ /\ Trouble
        /\ \E n \in 1..(Len(Order) - 1) : flash' = Torn(flash, staged, n)
        /\ PowersOff
  /\ UNCHANGED <<nvs, phone>>

\* A step of one module, under that module's lock: the rest stays.
OneStep(t) ==
  /\ Next1(t)
  /\ UNCHANGED <<up, phone, bounds, hist, running, batch, nfc, cache, action, post>>

\* app_alarm_rules_clear_all().
ClearRules(t) ==
  /\ At(t, "clear") /\ OneStep(t)
  /\ staged' = [staged EXCEPT !.rule = "none"]
  /\ rules' = "none"
  /\ UNCHANGED <<flash, nvs, latch, counters, vkey>>

\* The vendor's replacement key, staged without the lock.
SetKey(t) ==
  /\ At(t, "key") /\ OneStep(t)
  /\ staged' = [staged EXCEPT !.key = vkey]
  /\ vkey' = 0
  /\ UNCHANGED <<flash, nvs, rules, latch, counters>>

\* save_secret_key().
SaveKey(t) ==
  /\ At(t, "savekey") /\ OneStep(t)
  /\ flash' = [flash EXCEPT !.key = staged.key]
  /\ UNCHANGED <<nvs, staged, rules, latch, counters, vkey>>

\* APP_CMD_ACTION_ENTER_CALIBRATION, staged without the lock.
Calibrate(t) ==
  /\ At(t, "calibrate") /\ OneStep(t)
  /\ staged' = [staged EXCEPT !.calib = TRUE]
  /\ UNCHANGED <<flash, nvs, rules, latch, counters, vkey>>

\* app_hall_reset_counts(), app_input_reset_counts().
ZeroCounters(t) ==
  /\ At(t, "zero") /\ OneStep(t)
  /\ counters' = 0
  /\ UNCHANGED <<flash, nvs, staged, rules, latch, vkey>>

\* app_counters_save().
SaveCounters(t) ==
  /\ At(t, "counters") /\ OneStep(t)
  /\ nvs' = [nvs EXCEPT !.counters = counters]
  /\ UNCHANGED <<flash, staged, rules, latch, counters, vkey>>

\* app_history_clear().
ClearHistory(t) ==
  /\ At(t, "history") /\ OneStep(t)
  /\ nvs' = [nvs EXCEPT !.history = 0]
  /\ UNCHANGED <<flash, staged, rules, latch, counters, vkey>>

\* app_radio_reset_link(): the stored session.
ResetLink(t) ==
  /\ At(t, "link") /\ OneStep(t)
  /\ nvs' = [nvs EXCEPT !.link = 0]
  /\ UNCHANGED <<flash, staged, rules, latch, counters, vkey>>

\* app_radio_rejoin().
Rejoin(t) ==
  /\ At(t, "join") /\ OneStep(t)
  /\ UNCHANGED <<flash, nvs, staged, rules, latch, counters, vkey>>

\* claim_state_set(): the latch, and its key in the flash if it moves.
SetLatch(t) ==
  /\ At(t, "done") \/ At(t, "active")
  /\ OneStep(t)
  /\ latch' = jobs[t][1]
  /\ nvs' = IF latch' # latch THEN [nvs EXCEPT !.latch = latch'] ELSE nvs
  /\ UNCHANGED <<flash, staged, rules, counters, vkey>>

Reboot(t) ==
  /\ At(t, "reboot")
  /\ PowersOff
  /\ UNCHANGED <<flash, nvs, phone, bounds>>

----------------------------------------------------------------------------
\* The mailbox: one request at a time on the NFC thread.

(* app_cmd_dispatch(): the transports that may give a command.                 *)
Transports(cmd) ==
  CASE cmd \in SetParams \union {"save", "reboot", "reset_counters", "lrw_join"} ->
         {"radio", "owner", "vendor"}
    [] cmd = "set_secret_key" -> {"owner", "vendor"}
    [] cmd = "vendor_reset" -> {"vendor"}
    [] cmd \in {"device_reset", "factory_reset", "lrw_reset", "enter_calibration",
                "claim_done", "claim_active"} -> {"owner"}

\* The channel the phone takes: the vendor's only for what the owner's refuses.
Vendor(n) == Transports(phone[n]) = {"vendor"}
ChannelKey(n) == Vendor(n) \/ running.key # 0
AtMb(pc) == up /\ nfc.pc = pc

(* The poll serves the mailbox until an action is staged, and the thread runs  *)
(* it before it polls again.                                                  *)
Serving == AtMb("idle") /\ action = "none" /\ jobs["nfc"] = <<>>

\* The counter check of decrypt(), against the live high-water mark.
Fresh(n) == n > staged.nonce /\ n - staged.nonce <= MaxSkip

\* Mutant: the counter moves while a SetParam holds a snapshot of it.
AdvanceUnlocked == TRUE
AdvanceWaits == Unlocked

(* handle_encrypted_cmd_inner(), decrypt(): a frame the cache knows is replayed *)
(* with no action; a fresh one moves the counter under the lock.  Any other is *)
(* refused.  No frame is served with an action staged.                        *)
Receive(n) ==
  /\ Serving
  /\ \/ /\ cache = n
        /\ nfc' = [Idle EXCEPT !.pc = "reply", !.n = n]
        /\ UNCHANGED <<staged, hist>>
     \/ /\ cache # n
        /\ ChannelKey(n) /\ Fresh(n) /\ AdvanceWaits
        /\ staged' = [staged EXCEPT !.nonce = n]
        /\ nfc' = [Idle EXCEPT !.pc = "persist", !.n = n, !.prev = staged.nonce]
        /\ UNCHANGED hist
  /\ UNCHANGED <<up, flash, nvs, phone, bounds, running, rules, latch, counters, vkey, batch, jobs,
                 cache, action, post>>

\* A frame that is neither is refused: no reply, and nothing changes.
Reject(n) ==
  /\ Serving
  /\ cache # n /\ ~(ChannelKey(n) /\ Fresh(n))
  /\ UNCHANGED cmdVars

(* app_settings_save_nonce_counter(), outside the lock; one that fails takes   *)
(* the counter back, under the lock, and refuses the frame.                   *)
PersistNonce ==
  /\ AtMb("persist")
  /\ \/ /\ flash' = [flash EXCEPT !.nonce = staged.nonce]
        /\ nfc' = [nfc EXCEPT !.pc = "handle"]
        /\ UNCHANGED <<bounds, staged>>
     \/ /\ Trouble
        /\ Unlocked
        /\ staged' = IF staged.nonce = nfc.n THEN [staged EXCEPT !.nonce = nfc.prev] ELSE staged
        /\ nfc' = Idle
        /\ UNCHANGED flash
  /\ UNCHANGED <<up, nvs, phone, hist, running, rules, latch, counters, vkey, batch, jobs,
                 cache, action, post>>

\* The action each handler defers, if it does not answer with an Error.
Defers(cmd) ==
  CASE cmd \in {"set_secret_key", "set_save", "save"} -> "save"
    [] cmd \in SetParams \ {"set_save"} -> "none"
    [] cmd = "claim_done" -> "none"
    [] cmd = "reset_counters" -> "counters"
    [] OTHER -> cmd

\* lrw_action_guarded(): join and reset would use the keys of the last boot.
Dirty == staged.lrw # running.lrw

(* The handlers of app_cmd.c but SetParam, on the NFC thread.  They change the *)
(* staged configuration without the lock.                                     *)
Handles(cmd) ==
  \/ /\ cmd = "set_secret_key"
     /\ staged' = [staged EXCEPT !.key = 2]
     /\ UNCHANGED <<latch, nvs, vkey, counters>>
  \/ /\ cmd = "claim_active"
     /\ staged' = [staged EXCEPT !.token = IF @ = 0 THEN 2 ELSE @]
     /\ UNCHANGED <<latch, nvs, vkey, counters>>
  \/ /\ cmd = "claim_done"
     /\ latch' = "done"
     /\ nvs' = IF latch # "done" THEN [nvs EXCEPT !.latch = "done"] ELSE nvs
     /\ UNCHANGED <<staged, vkey, counters>>
  \/ /\ cmd = "vendor_reset" /\ staged.allow
     /\ vkey' = 3
     /\ UNCHANGED <<staged, latch, nvs, counters>>
  \/ /\ cmd = "reset_counters"
     /\ counters' = 0
     /\ UNCHANGED <<staged, latch, nvs, vkey>>
  \/ /\ \/ cmd \in {"lrw_join", "lrw_reset"} /\ ~Dirty
        \/ cmd \in {"save", "reboot", "device_reset", "factory_reset", "enter_calibration"}
     /\ UNCHANGED <<staged, latch, nvs, vkey, counters>>

Refused(cmd) == \/ cmd = "vendor_reset" /\ ~staged.allow
                \/ cmd \in {"lrw_join", "lrw_reset"} /\ Dirty

CachedAs(n) == IF Vendor(n) THEN cache ELSE n

Handle ==
  /\ AtMb("handle")
  /\ LET cmd == phone[nfc.n]
     IN /\ \/ /\ cmd \notin SetParams
              /\ Handles(cmd)
              /\ nfc' = [nfc EXCEPT !.pc = "reply", !.act = Defers(cmd)]
              /\ cache' = CachedAs(nfc.n)
              /\ UNCHANGED batch
           \/ /\ cmd \notin SetParams /\ Refused(cmd)
              /\ nfc' = [nfc EXCEPT !.pc = "reply"]
              /\ cache' = CachedAs(nfc.n)
              /\ UNCHANGED <<staged, latch, nvs, vkey, counters, batch>>
           \/ /\ cmd \in SetParams
              /\ SetParamBegins("nfc", cmd)
              /\ nfc' = [nfc EXCEPT !.pc = "batch"]
              /\ UNCHANGED <<cache, latch, nvs, vkey, counters>>
        /\ hist' = [hist EXCEPT !.spent = nfc.n]
  /\ UNCHANGED <<up, flash, phone, bounds, running, rules, jobs, action, post>>

HandleEnds ==
  /\ AtMb("batch")
  /\ SetParamEnds(batch.kind)
  /\ nfc' = [nfc EXCEPT !.pc = "reply", !.act = IF batch.kind = "set_bad" THEN "none"
                                                ELSE Defers(batch.kind)]
  /\ cache' = nfc.n
  /\ UNCHANGED <<up, flash, nvs, phone, bounds, hist, running, latch, counters, vkey, jobs,
                 action, post>>

(* The reply is written, and read by the phone or not: then the action is      *)
(* staged and the session ends.  A reply that cannot be written drops it.     *)
Reply ==
  /\ AtMb("reply")
  /\ nfc' = Idle
  /\ \/ /\ action' = IF nfc.act = "none" THEN action ELSE nfc.act
        /\ hist' = [hist EXCEPT !.ran = @ \union {nfc.n}]
        /\ UNCHANGED bounds
     \/ Trouble /\ UNCHANGED <<action, hist>>
  /\ UNCHANGED <<up, flash, nvs, phone, staged, running, rules, latch, counters, vkey, batch, jobs,
                 cache, post>>

(* nfc_run_deferred_cmd_actions(), when the poll has returned.                 *)
RunDeferred ==
  /\ AtMb("idle") /\ action # "none"
  /\ jobs' = [jobs EXCEPT !["nfc"] = Plan(action)]
  /\ action' = "none"
  /\ UNCHANGED <<up, flash, nvs, phone, bounds, hist, staged, running, rules, latch, counters,
                 vkey, batch, nfc, cache, post>>

----------------------------------------------------------------------------
\* The radio work queue: app_radio_downlink() and m_post_cmd_work.

QueueFree == up /\ jobs["radio"] = <<>> /\ batch.owner # "radio"

\* The first action starts the wait; the others join it.
Merged(act) ==
  IF act = "none" THEN post
  ELSE [pending |-> post.pending \union {act}, age |-> IF post.pending = {} THEN 0 ELSE post.age]

Downlink(cmd) ==
  /\ QueueFree
  /\ "radio" \in Transports(cmd)
  /\ bounds.downlinks < MaxDownlinks
  /\ bounds' = [bounds EXCEPT !.downlinks = @ + 1]
  /\ \/ /\ cmd \in SetParams
        /\ SetParamBegins("radio", cmd)
        /\ UNCHANGED <<latch, nvs, vkey, counters, post>>
     \/ /\ cmd \notin SetParams
        /\ Handles(cmd)
        /\ post' = Merged(Defers(cmd))
        /\ UNCHANGED batch
  /\ UNCHANGED <<up, flash, phone, hist, running, rules, jobs, nfc, cache, action>>

DownlinkEnds ==
  /\ up /\ batch.owner = "radio"
  /\ SetParamEnds(batch.kind)
  /\ post' = IF batch.kind = "set_bad" THEN post ELSE Merged(Defers(batch.kind))
  /\ UNCHANGED <<up, flash, nvs, phone, bounds, hist, running, latch, counters, vkey, jobs, nfc,
                 cache, action>>

(* post_cmd_work_handler(): while frames are undelivered the actions wait, for *)
(* so long.                                                                   *)
PostCmd ==
  /\ QueueFree
  /\ post.pending # {}
  /\ \/ /\ post.age < MaxDrain
        /\ post' = [post EXCEPT !.age = @ + 1]
        /\ hist' = [hist EXCEPT !.held = @ + 1]
        /\ UNCHANGED jobs
     \/ /\ jobs' = [jobs EXCEPT !["radio"] = PostPlan(post.pending)]
        /\ post' = [pending |-> {}, age |-> 0]
        /\ hist' = [hist EXCEPT !.held = 0]
  /\ UNCHANGED <<up, flash, nvs, phone, bounds, staged, running, rules, latch, counters, vkey,
                 batch, nfc, cache, action>>

----------------------------------------------------------------------------
CmdNext ==
  \/ Boot \/ PowerFails
  \/ \E n \in DOMAIN phone : Receive(n) \/ Reject(n)
  \/ PersistNonce \/ Handle \/ HandleEnds \/ Reply \/ RunDeferred
  \/ \E cmd \in Downlinks : Downlink(cmd)
  \/ DownlinkEnds \/ PostCmd
  \/ \E t \in Threads :
       \/ \E tier \in {"device", "factory", "vendor"} : ResetTier(t, tier)
       \/ Save(t) \/ ClearRules(t) \/ SetKey(t) \/ SaveKey(t) \/ Calibrate(t)
       \/ ZeroCounters(t) \/ SaveCounters(t) \/ ClearHistory(t) \/ ResetLink(t)
       \/ SetLatch(t) \/ Rejoin(t) \/ Reboot(t)

CmdSpec == CmdInit /\ [][CmdNext]_cmdVars

----------------------------------------------------------------------------
CmdType ==
  /\ up \in BOOLEAN
  /\ DOMAIN flash = DOMAIN Defaults /\ DOMAIN staged = DOMAIN Defaults
  /\ latch \in {"active", "done"}
  /\ post.age \in 0..MaxDrain
  /\ nfc.pc \in {"idle", "persist", "handle", "batch", "reply"}

\* Safety: the decoded rules are the staged ones, whenever no SetParam and no
\* deferred action is under way.
RulesFollow ==
  (up /\ Unlocked /\ \A t \in Threads : jobs[t] = <<>>) => rules = staged.rule

\* Safety: commands that keep coming do not postpone the first one's action.
PostIsPrompt == hist.held <= MaxDrain

\* Safety: a configuration of this version holds no value of the old one,
\* wherever power failed while it was migrated, nor one of another size.
MigrationIsWhole ==
  /\ flash.version = "new" => flash.rule # "foreign"
  /\ up => flash.rule # "stale"

\* Safety: the key outlives a migration, and every reset but the vendor's; the
\* radio's keys a device reset.
IdentityStays ==
  /\ flash.key = 0 => "vendor_reset" \in Range(phone)
  /\ flash.lrw = 0 => Range(phone) \intersect {"factory_reset", "vendor_reset"} # {}

CmdInv == CmdType /\ RulesFollow /\ PostIsPrompt /\ MigrationIsWhole /\ IdentityStays

(* Safety: a command runs once, and not before its counter is in the flash:    *)
(* whatever a SetParam rolls back, a reset keeps or power takes.              *)
NonceNeverReused ==
  [][AtMb("handle") /\ up' => nfc.n > hist.spent /\ flash.nonce >= nfc.n]_cmdVars

(* Safety: when a reset has run to its reboot, the flash holds nothing of what *)
(* was set before it, of what its tier wipes.                                 *)
ResetForgets ==
  [][At("nfc", "reboot") /\ ~up' /\ hist.reset # "none" =>
       /\ flash.rule # "old"
       /\ hist.reset \in {"factory", "vendor"} =>
            /\ flash.lrw \in {0, 3}
            /\ nvs.counters = 0 /\ nvs.history = 0 /\ nvs.link = 0
       /\ hist.reset = "vendor" => LoadedLatch(nvs.latch) = "done" /\ flash.token = 0]_cmdVars

\* What each pending action was asked for is in the plan that runs them all.
Serves(plan, act) ==
  CASE act = "save" -> \E i, j \in DOMAIN plan : plan[i] = "save" /\ plan[j] = "reboot" /\ i < j
    [] act = "counters" ->
         \E i \in DOMAIN plan : plan[i] = "counters" /\ \A j \in 1..i : plan[j] # "reboot"
    [] act = "reboot" -> Last(plan) = "reboot"
    [] act = "lrw_join" -> plan # <<>> /\ Last(plan) \in {"join", "reboot"}

(* Safety: of the radio's actions that pend together none is lost; and the     *)
(* phone's, of which there is one at a time, is run by its thread before the   *)
(* next command of a phone could take its place.                              *)
BatchKeepsAll ==
  [][/\ up' /\ post.pending # {} /\ post'.pending = {} =>
          \A act \in post.pending : Serves(jobs'["radio"], act)
     /\ up /\ up' /\ action # "none" /\ action' # action =>
          action' = "none" /\ jobs'["nfc"] = Plan(action)]_cmdVars

(* What the comment of handle_encrypted_cmd_inner() says of a replay, "NONE on *)
(* a replay -- the original already ran".                                     *)
ReplayMeansRan ==
  [][AtMb("idle") /\ nfc'.pc = "reply" => nfc'.n \in hist.ran]_cmdVars

(* What the comment of app_settings_factory_reset() says of the keys: "every   *)
(* reboot from here on must also wipe the LoRaMac stack's own NVM".           *)
KeysTakeTheLink ==
  [][up /\ ~up' /\ bounds' = bounds /\ hist.reset \in {"factory", "vendor"} /\ flash.lrw = 0
       => nvs.link = 0]_cmdVars
=============================================================================
