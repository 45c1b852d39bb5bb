# STICKER firmware: TLA+ models, checks and proofs

This directory holds a verification project for the STICKER firmware
(`src/app/src`, C on Zephyr): a battery-powered sensor node that reports over
LoRaWAN or over HARDWARIO's own point-to-point radio (P2P), keeps an unsent
history in flash and is configured over radio commands and NFC.

Contents:

1. The system: its parts, their state, and what makes them hard
2. The modules and how they correspond to the code
3. The runs: what each one asks, its bounds, what it shows
4. Fairness
5. Where the code and its comments disagree
6. What is proved
7. What is not modelled
8. Plan

To repeat a run: `tlc -config LrwLink.cfg MCLrwLink.tla`; to repeat a proof:
`tlapm Foundations_proofs.tla`. `PROJECT.json` lists all runs, the lines of code
behind each definition, the hazards behind the properties, and for each property
a plausible bug (a "Mutant" operator) that breaks it.

## 1. The system

### Threads and queues

| Thread | Runs |
|---|---|
| radio work queue | every transmission, MAC callback follow-up, join, replay, command answer |
| report work queue | report cadence, sampling, history records, counters save |
| system work queue | alarm batch, announce deadline, fleet jitter, GPIO polling |
| NFC poll thread | mailbox sessions and the actions they defer |
| main | boot, watchdog feed |
| ISRs and timers | submit work items; touch atomics only |

Nearly all the radio state is confined to the radio work queue. What makes it hard is
therefore not data races but *time*: a handler blocks in an exchange for
seconds while other threads queue frames, kick work items and set flags, and
what it finds afterwards is not what it read before. Zephyr's delayable work
items add their own rule: a kick does nothing while a timer is armed, and a
running item can be queued once more behind itself.

### Components

| Component | State | Operations | What makes it correct | Module |
|---|---|---|---|---|
| Flash/radio gate (`app_radio.c:90-210`) | mutex, condvar, `m_on_air`, two counters | flash_hold/_release, air_begin/_end | no unexcused overlap of a write and an exchange; nobody waits on a lost wake-up; neither side starves | AirGate |
| Duty-cycle ledger (`app_radio.c:440-640`) | ring of (end, air) per fixed slot, 32-bit times | wait, charge, expire, fold | every sliding hour within the allowance; a wait that is exact | DutyLedger, AirAllowance |
| P2P session (`app_radio_p2p.c`, session part) | frame counter and its reservation, dev_nonce, pairing record, retry counter | seal a frame, ACK, join, pair, unpair, boot | no counter or attempt number used twice over any reset or failed save | P2PSession |
| P2P link protocol (`app_radio_p2p.c`, the rest) | exchange, control requests, ACK lanes, answers awaited | exchange, control uplink, delivery, session end | what is confirmed is delivered once; a request is sent or dropped | P2PLink (partly: the join is left out) |
| LoRaWAN link and supervision (`app_radio_lrw.c`, `app_radio.c:1190-1340`) | link state, join polls, timers, pending check, failure counts, ladder | join, poll, report with check, downlink, answer, timeout, rejoin | a pending check is always resolved; a lost session is always being rejoined; a rejoin only at the floor of the ladder | LrwLink |
| Uplink scheduler (`app_radio.c:641-1900`) | answer and alarm queues, frame in hand, report, replay, confirmed slot, two work items | queue, kick, request, the two handlers, link up/down | no frame left without a run; the confirmed slot belongs to a frame that exists; order kept; alarms pass a backoff | RadioTx |
| M-2 watch (`app_radio.c:1340-1400`) | last uplink, duty streak | tick, hold, send, check | a mute node rejoins unless the duty cycle explains it | StaleWatch |
| Clock sync (`app_radio.c:2640-2745`) | request flag and sequence | request, event | each request gets one answer | - |
| Announce and report request (`app_radio.c:2000-2300`, `2461-2621`) | sequence latch, held report, jitter work, page stream | link-ready, seq_release, deadline, announce run | Info, then settings-info, then data; held data always released | Announce |
| Alarm batch (`app_alarm.c`, first part) | batch, window, held flag | collect, flush, release | every edge reported or counted; no batch held for good | AlarmBatch |
| Alarm engine (`app_alarm.c`, `app_alarm_rules.c`) | rule table, latches, watches, mask | poll, event, edit | an alarm that was raised is ended, under the name it was raised with; none before its time | AlarmRules, AlarmEval |
| Post-command actions (`app_radio.c:2310-2450`) | pending bit set, deadline | merge, defer, run | a pending action runs once, in time, and none is lost to another | Commands |
| Commands (`app_cmd.c`) | page stream, deferred action | handle, answer in pages | a command runs once; a stream tells its whole answer | Commands, CommandPages |
| Configuration (`app_config*.c`, `app_alarm_rules.c`) | staged and running configuration, decoded rules | SetParam, roll back, save, load, dump | what is acknowledged is staged and read back; what is refused changes nothing | ParamBatch, Commands |
| Settings and reset tiers (`app_settings.c`) | NVS | device / factory / vendor / LoRaWAN reset | an interrupted reset leaves no mix of old keys and new ones | Commands |
| NFC mailbox (`app_nfc.c`) | nonce, reply cache, deferred action | serve, poll, reply | a command repeated by a phone is answered again and not run again | Commands |
| History ring (`app_history.c`) | flash pages, staged bytes, ordinals, replay cursor | append, rollover, mount, replay | what was committed is found again after any reset, nothing else is | HistoryRing (times left out) |
| Report cadence (`app_report.c`, `app_slot.c`) | timer, slot grid, queue of cycles | periodic, trigger, force | records spaced by the interval whatever is triggered and however the clock steps | ReportSlots |
| 1-Wire probes (`app_w1_slots.c`, `app_sensor.c`) | slots, ROMs, driver indices | scan, rebind, teach, read | one probe per slot, the taught one | W1Slots |
| Pulse counters (`app_counters.c`, `app_hall.c`, `app_input.c`) | totals, last saved | gather, save, restore | a total is not lost to a command or a reset that should keep it | Commands (save and restore only) |
| Watchdog, power, sensors, indicators, drivers, test shell, decoders | hardware | | straight-line code over hardware | - |

How they interact: reports (`app_report.c`), alarms, commands and the history replay hand
frames to the scheduler, which asks the ledger for air and sends through one of two
backends (LoRaWAN or P2P, chosen at boot). A backend calls back into the scheduler with link
state, ACKs and downlinks; downlinks go to the commands, which answer through the scheduler
and act after the answer has left. Every exchange and every flash write passes the gate.
NFC runs the same commands on a thread of its own.

### Behaviours that are hard to test

- **Interleavings.** Kicks and queued frames during a blocking send; a broadcast
  against a deadline in the gate; a late MAC answer after its timeout.
- **Crash and restart.** Counters and attempt numbers have to be ahead in flash of
  what was on the air, over saves that fail and power that goes between them.
- **Lost, late and repeated messages.** Lost Acks and join confirms, downlinks
  that arrive inside another exchange, answers to requests the MAC kept.
- **Limits.** Queues of four, one confirmed slot, a ring of slots, a 32-bit
  uptime, a 32-bit frame counter, a duty cycle that may hold a frame for an hour.
- **Progress.** A frame, a replay, a writer or a join that nobody wakes waits
  for ever, and on the node it looks like silence.

`PROJECT.json` lists each hazard at its line, with the properties that cover it
or a note saying why none does.

## 2. The modules

Each module's head says what its steps are and what it leaves out. The names are
the code's where TLA+ allows it. `..._proofs` modules extend the modules they prove about.

### AirGate - flash writes against exchanges

The threads are constants: `Writers`, those that may wait (`MayWait`), the radio
queue. One action is one critical section of `m_air_mutex`, from taking it (or from
the return of `k_condvar_wait`) to releasing it (or to the next wait), so every
interleaving the mutex admits is there, including a thread that is woken, finds
the condition false again and waits on, and one whose deadline passes between a
release and its own turn. `left` is the time to each deadline. `writeBegan` and
`airBegan` are history: whether a write or an exchange started with the other
side idle, after its cap, or without being allowed to wait.

### DutyLedger and AirAllowance - the sliding window

`Expire`, `UsedAir`, `Charged` (with `AppendEntry` and the fold of the oldest entries)
and `Wait` are the code's functions on a sequence of entries, with ages as unsigned
differences modulo `Wrap` (2^32 ms). `Admit`, `Refuse`, `Charge` and `Abandon` are what
the radios do with them; `LedgerTick` is the clock. `sent` is history: for each k up to a
window and a slot, the air and the number of the transmissions that ended in the last k ms.
The ledger is judged against it. `LedgerIsUsed` is the one assumption about the
environment: between two uses of the ledger less than a wrap passes, with a window to spare
(section 5).

`AirAllowance` is the abstract promise: a frame goes if the exact record of the trailing
window has room for it, or if it is alone. `ImplementsAllowance` is the refinement: the
ledger that coalesces, folds and forgets the high bits of its clock admits no frame the
exact record would not.

A JoinRequest of LoRaWAN is charged without having been admitted
(`app_radio_lrw.c:882`; the MAC has its own join backoff), so it can take the
window above the allowance. It is left out: the bound is about frames that ask.

### P2PSession - counters, attempts and keys over resets

`nvs` is what the flash holds and `ram` what the module keeps. A handler runs to
its end on the radio work queue and is one action; a save in it may fail; and
`PowerLoss` resets the node with the flash as any of the handler's saves may
have left it (`Interrupted`). A session key is named by the number of the attempt
that made it, so "the same key again" is a fact about attempt numbers, not about
cryptography. `sealed` is the history of all frames sealed under any key.
`NonceUnique` is judged on it: same key and counter, same plaintext.

Erasing the settings from the shell clears the attempt number with everything
else and is outside the model.

### P2PLink - an exchange with the gateway

The node side is `struct p2p_xfer` (`x`), the counters, the control requests and the
answers awaited; the gateway is external and modelled from what the node's comments
require of it (`map` marks those definitions). Each of the four frames of an exchange - the
uplink, its ACK, the downlink the ACK announced, the node's own ACK - may be lost, and the
duty cycle may hold any but the first. A frame or a downlink is named by what is left of
the script when it is made, so "in order" is "falling". `AppEnd` and `CtrlEnd` are what
follows an exchange in one handler: delivery of the tail and the downlink, the retry or the
loss of the frame. The join itself is left out; a session ends and another begins.

### LrwLink - LoRaWAN link, checks, ladder, rejoin

`queue` is the FIFO of this backend's items on the radio work queue: `join`,
`poll`, `timeout`, `downlink`, `answer`, each at most once. `exchange` is the call
into the MAC that blocks the queue; MAC callbacks (`Mac...`) and timers append to
the queue meanwhile. `request` says whether the MAC holds a LinkCheckReq and
whether the frame on air waits for its answer - the MAC keeps a request its frame
did not carry, which is how a late answer comes about. `link` is `m_link`, `rungs`
what is left of the power/data-rate ladder, `asked` the history of checks on air.

Left out: the M-2 rule's arithmetic (`StaleRejoin` may happen any time; StaleWatch has it),
the length of backoffs, radio OFF and invalid activation, shell injection, suspend, the
channel plan and the MAC's NVM.

### RadioTx - the uplink scheduler, both radios

Two queues, the frame in hand (`cur`), the report (`tlm`), the replay (`hist`),
the confirmed slot (`ack`) and the two delayable work items. A handler is two
steps, before and after the backend's `send()`; between them the work queue runs
nothing else, but `QueueAnswer`, `QueueAlarm`, `RequestReport`, `StartReplay`,
`SetBackoff` and the timers go on. `Submit`, `Now` and `Later` are Zephyr's
schedule and reschedule: `Submit` does nothing while a timer is armed, `Now`
cancels it, `Later` arms it and leaves a queued item queued.

Abstractions: a timer may fire any time after it was armed, the ledger may hold
any frame, a backoff may end at any time; a frame is its number; -ENOTCONN is
left out (`tx_ready()` was asked in the same run). The backend `p2p` is chosen at boot and
never changes; `Confirmed`, `TxRetries` and two bounds are given for each.

### StaleWatch - the M-2 watch

Three paths bring frames to the radio, and each may be held for a known time. A stamp is
the age of what it stamps, kept only as far as the code tells ages apart, so the state is
finite without a bound on time. `silence` and the ages in `frames` are history: how long
nothing went, and how long a frame whose hold began a streak has been waiting. The heartbeat
runs once in a tick, between any two of the other steps.

### ReportSlots - the cadence and its slots

Uptime drives the timer, the RTC the slots; `rtc` is their difference, which drifts, is set,
stepped or lost. `cycles` is the report work queue: the periodic cycle records, the triggered
and the forced one do not. `SlotNext` is `app_slot_next()` with its tolerance. `record` and
`moved` are history: the slot of the last record, and whether the clock moved against the
timer since. A cycle is one step: a calibration and a power loss inside one are left out.

### Announce and AlarmBatch - the boot sequence and what it holds

`AlarmBatch` is a module of operators: each function of the alarm-detail batch runs under one
lock and takes the batch to the next. Edges are counted, not named, and `Layouts` are all
the ways the greedy loop may fill the pages. `Announce` composes it with the boot/join
sequence: `swq` is the system work queue with its delayable items, `radio` the radio queue's
release of the sequence (two steps, with the report thread's own steps in between), `stream`
the page stream, `held` and `closed` the two flags whose order the code is careful about.
A report, an answer and an alarm leave by `Sends`; what holds a frame is RadioTx's business.

### CommandPages - answers in pages

A unit of an answer is its place and its size; `Layout` is the greedy packing of each kind of
answer with its rules (active alarms together, an envelope on paged answers only), `HostPage`
what the phone gets, which asks page by page and lays the answer out afresh each time. The
radio's `stream` sends the pages after the first one by itself. A 1-Wire scan, an Info and a radio
state are kept, and all their pages come from what was kept. Of the settings and of requested
fields the stream keeps no content but the budget or the request: `StreamPages` is what they make
at the turn of each page, from the configuration and the slots of then. `SetParam` changes both
in between, and `PageIsGone` is the page that is then no longer there, which ends the stream.

### Commands - dispatch, deferred actions, resets, mailbox

The configuration is three copies: flash, staged, running. Two threads of one priority change
it, and a deferred action is a list of steps (`Plan`, `TierPlan`) that the other thread and a
power failure may fall between; a save is torn after any of its fields. The mailbox handler
is cut where the code releases the lock or blocks: check and advance of the counter, its
save, the handler, the reply. `hist` has what the properties compare: the last counter
handled, the reset under way, how often the post-command work waited, what really ran.

### ParamBatch - SetParam and the dumps

The groups of `app_config_ingest.c` as the set of values each field takes and the transports
it is closed to, the rule slots with `ValidRule`, the snapshot and both roll-backs, the
shell's writes, the clamps of a load and what a dump tells of each field. The code holds the
config lock over a batch, so a batch is one action; `Commands` has the interleavings.

### AlarmRules and AlarmEval - the alarm engine

`AlarmRules` is what one evaluation makes of one rule's latch: threshold with deadband, level
with dwell, edge, stillness, motion, rate. `AlarmEval` has the poll, the events of the
drivers (a level and the event that reports it are two steps: the poll reads the driver and
may see it first), the no-data and mismatch watches over the 1-Wire slots, the battery and
board watches, the active mask and the buzzer. `open`, `held`, `quiet` and `pulsed` are
observers: what the backend was told is open, and how long the inputs have been as they are.
One poll may send several edges of one alarm, so `Says` counts the last that names it. The
activation of an edge rule says that something happened, not that it lasts, and its hold ends
silently: such an edge is a message, which opens nothing and is not among what is latched.

### W1Slots - the 1-Wire slots

A rebind maps the devices the drivers know to the slots: first by ROM, then by type, with the
mismatch marks. `known` is the drivers' tables, with room for `PerDriver` devices of a type, which a
scan fills or, if it fails, leaves as they were or incomplete. Whatever asks the bus may fail, each time on its own:
the two searches of a rescan (`sig`), the scan of each driver, each device of each
`collect_all()`. A shell command that teaches has three of these: what it lists, what its first rebind
hears and what the rebind with the new ROM hears. A boot scans and rebinds if a saved slot (`SavedSlots`)
has a ROM or a type. A rescan is two steps (it reads the bus, then rebinds); a read takes a
snapshot, reads outside the lock and checks again, and the shell may scan, teach, assign or
clear between, which reshuffles the driver's indices.

### HistoryRing - the flash ring of records

`flash` is what survives: per page a header (or none that is valid) and the
double words written. `ram` is what the module keeps; a mount rebuilds it
(`Mounted`). A capture holds the module's lock but is cut into its flash
operations (`at`: the padded write of a split or a rollover, the erase, the
header, each double word, the padded tail of a full page), each of which
succeeds or fails, with a `Boot` possible before it: a power loss finds the flash
between any two. What a failed write leaves in the flash is nothing; a failed
erase may have erased. The radio's replay reads under the same lock between
captures and sets its hold in a step of its own. A byte of a record is the pair
of the record's number and its place, so a read that is shifted, mixed or stale
shows.

A split is a free choice here: whether a slot continues the grid is a matter of
times, which the module leaves out (segment times, clock sync, fix-up double
words, replay windows), as it does v1 pages, the encoding, empty layouts, the RAM
backend and the wrap of the sequence number.

`GoesBack = FALSE` is an assumption about the environment: the ring is never
continued from pages older than its newest. The configured layout does not
return to one it left, and a boot that at first sees an earlier layout (a 1-Wire
slot not typed yet) makes a capture, outside a replay, before its channel list
is set or a clear fails halfway. Section 5 says what happens without it.

### The MC modules

`MCFoundations`, `MCUplink` and `MCDevice` each instantiate several modules whose variables
are disjoint. A rigid variable `part`, chosen at the start, says which of them a behaviour
moves; the others keep their initial state. So one run checks each of them by itself, at the
sum and not the product of their state spaces; nothing is claimed about their interleaving,
which is in the modules where the code makes it matter (the gate's threads in AirGate, the
two command threads in Commands, three threads in Announce).

### How they fit together

The scheduler (`RadioTx`) asks the ledger (`DutyLedger`) before each frame and
sends through a backend: `P2PSession` gives its counters, `P2PLink` its exchanges, `LrwLink`
decides whether it is ready. Every exchange and every flash write passes the gate
(`AirGate`). `ReportSlots` and `Announce` decide when a report is asked for, `AlarmBatch`
when alarms are. Each module abstracts its neighbours to what they may answer: the
scheduler lets any frame be held, fail, bounce or be acknowledged; the link lets
other frames open an exchange at any time; the gate lets any thread write at any
time. What is proved of a neighbour is never assumed more strongly than that.

## 3. The runs

State counts are distinct states.

| Run | Question | Bounds | States |
|---|---|---|---|
| `foundations` | Is every window within the allowance, and every wait exact, over a wrap of the uptime? Is any counter, attempt or key reused over resets, failed saves and re-pairings? Do the gate's counters, wake-ups and caps keep writes and exchanges apart, without starving either? | ledger: window 6, slot 3, wrap 16, budget 4, airs 1, 2 and 5, 24 ticks, at most 9 idle; session: reservations of 3, counters to 4, 3 attempts, 2 plaintexts, both modulations; gate: two waiting writers, the system queue (may not wait), the radio queue, caps of 3 and 1 ticks | 431 k |
| `uplink` | Does the scheduler keep order, slot and wake-ups, on P2P and on LoRaWAN? Do records keep their slots? Does the watch end a silence, and spare who waits? | queues of 2, 1 Ack retry, 2 replay frames, P2P: 3 queued frames, LoRaWAN: 2, 1 fault retry, reports of 2 pages; intervals 3 and 4, tolerance 1, 14 ticks, 2 upsets of the clock; holds of 1 and 3, excuse of 4 | 2.2 M |
| `radio_tx_live` | Does a replay end and do the queues drain on a link that stays up? | one of everything | 24 k |
| `lrw_link` | Is a pending check always watched, a lost session always rejoined, the air always released, a dead session left? | threshold, budget, interval, polls 2; 1 rung; counts to 3 | 680 k |
| `history_ring` | Is what was committed found again, in place, after any reset, failed write, split or change of layout and interval? | 3 pages of 3 double words of 3 bytes, records of 4 and 2 bytes, 2 intervals; 5 captures, 2 of resets, failures, clears and replays | 2.0 M |
| `announce` | Is whatever the boot sequence holds released, alarms first, and every edge told or counted? | 5 nodes: with and without a limit, a periodic announce, a page stream, up to 3 edges, 1 report, 1 answer, 1 drop; batches of 2, alarm queue of 1 | 789 k |
| `p2p_link` | Is what is confirmed delivered once, and every control request sent or dropped, whatever is lost? | 5 scripts of 2 or 3 frames, downlinks and requests; 2 repetitions, 2 control tries, 1 retry, counters to 5 | 331 k |
| `device` | Do pages tell the whole answer? Do commands run once, resets forget, batches roll back, alarms end, probes keep their slots? | answers of up to 5 units, settings of four layouts, one change between; two commands by phone and two by radio, one power failure; one rule slot edited between two rules (5 decks); two 1-Wire slots, four probes (three of a type with room for two), 3 saves, 4 buses at boot, 3 events or failures; 6 fields and 2 rule slots | 730 k |

What the properties say:

- **foundations, ledger.** `LedgerInv`: the air of every sliding window within the
  budget, except for one frame that alone exceeds it (`WindowBound`); the
  ledger is between the truth and the truth plus one
  slot (`NeverUndercounts`, `OvercountsByASlot`); a refused frame fits exactly when its
  wait ends (`OneWaitIsExact`). `ImplementsAllowance`: the refinement of
  `AirAllowance`. The run assumes that the ledger is not idle for a whole wrap (section 5).
- **foundations, session.** `SessionSafety` (no two plaintexts under one key and counter, no
  attempt twice, a reset resumes above what was used, a paired node's session is in the
  flash) and `TowerLaneRises`: see section 6; they are proved.
- **foundations, gate.** `GateSafety`: the two counters are the threads that write and
  wait; a write overlaps an exchange only past a cap or from
  a thread that may not wait; whoever waits for a condition that
  holds has been woken, so no wait silently becomes its cap.
  `ExchangeYieldsToWriters`: no exchange starts over a waiting writer except past
  its own cap. `WriterGetsFlash`, `ExchangeStarts`: both sides progress; the
  radio only thanks to its cap, since new writers do not wait for it.
- **uplink, scheduler.** `TxInv`: a taken confirmed slot waits for the very frame its
  path still has in hand (if not, every other path would be silent), and answers leave in
  order over retries and yields.
  `WakeupsKept`: no step but the end of a report that waited for its Ack (section 5) leaves
  something to send with nothing due to send it. `AlarmPassesBackoff`: an alarm is taken during a
  backoff whatever is in hand.
- **uplink, cadence.** `SlotsInv`: the cadence ends only with the power, and its timer aims
  at the slot after the last record, whatever cycles ran in between. `RecordsSpaced`: a
  record is in the slot its place in the history says, or in a later one, or off the grid
  at its own time; it never shares a slot unless the clock was stepped back.
- **uplink, watch.** `WatchInv`: a healthy node on which nothing goes is rejoined within the
  stale time and the longest excuse. `HoldsAreExcused`: the watch does not rejoin over a
  frame that waits for its hold until it has waited that long.
- **radio_tx_live.** `BacklogEnds`: once the link stays up a replay ends and the queues drain.
- **lrw_link.** `LinkInv`: a pending check's frame is on air, or its
  timeout runs or is queued (otherwise no check would ever be asked again);
  RECONNECT and JOINING always have a next step armed;
  a lost join confirm keeps the air no longer than JOINING;
  failures never outnumber the checks on air, so no late answer
  or stale timeout counts twice. `RejoinAtTheFloor`: the supervision rejoins only
  with no rung left, and never under ABP. `DeafNodeRejoins`: progress.
- **history_ring.** `RingInv`: the live pages are neighbours in the flash, carry
  the current layout and interval, and their ordinals join up, so the count of
  records cannot underflow (`OneRun`); whatever fails, no read is shifted,
  mixed or of another layout or interval, but it may be missing or blank
  (`RecordsInPlace`, section 5); and later ordinals hold later records, so no mount chained an
  old page after a newer one (`NoStalePage`, which does not hold with `GoesBack`).
  `CommittedSurvive`: a reset anywhere loses the staged tail and nothing else.
  `ReplayInOrder`: no record twice, none out of order, none of a layout the
  cursor was not taken under. The ring may stop for good when nothing is
  captured, and does in the run when its bounds are spent: deadlock is not
  checked.
- **announce.** `AnnounceInv`: a closed sequence has its deadline, a report marked as held
  has somebody who releases it, a batch that is not empty has somebody who flushes it, every
  edge is told, in the batch or was never given a page, and a link that is up announces
  again. `AlarmsFirst`: the release queues the held alarms ahead of the held report.
  `BatchLeaves`: a batch is told or the link is lost.
- **p2p_link.** `P2PInv`: control requests wait for somebody who sends them, a link check
  whose answer is lost is given up, drains are bounded. `DeliveredOnce`: over
  lost frames and ACKs, retries and new sessions, downlinks are delivered once and in
  order, uplinks arrive once, and what the gateway dropped as acknowledged was delivered.
  `RequestEnds`: progress. The scripts end, so deadlock is not checked.
- **device, pages.** `PagesInv`: a stream that runs is scheduled; a layout tells every unit
  that fits a frame, once, in order, in the fewest pages (against all ways to cut it), and a
  phone that reads on collects the same units. `StreamTellsAll`: a stream that ended told
  each page once, whatever was asked meanwhile; one of settings or requested fields, if the
  configuration stayed as it was (section 5 has what happens if not).
- **device, commands.** `CmdInv`: the decoded rules follow the staged ones whenever nothing is
  under way; commands that keep coming do not postpone the first one's action; a migration is
  whole wherever power fails; keys outlive everything but the resets that take
  them. `NonceNeverReused`: a command runs once, and not before its counter is in the flash.
  `ResetForgets`: a reset that ran to its reboot left nothing of its tier. `BatchKeepsAll`:
  of the radio's actions that pend together none is lost, and the phone's is taken up by its
  thread before a next command could overwrite it.
- **device, alarms.** `AlarmInv`: what the backend was told is open is exactly what is latched,
  under the names it was raised with, whatever was edited, retyped or unplugged; a mismatch
  does not also raise no-data; the buzzer sounds only with an alarm. `AlarmsInTime`: no rule
  fires before its dwell, its silence or its count.
- **device, 1-Wire.** `W1Inv`: a ROM in one slot, which has the device's type or, while it is
  not bound, may have none; mismatch marks only for foreign devices; a rebind settles; a taught
  device on the bus that a rescan left unbound, whichever search, scan or read failed, makes the next rescan
  scan and rebind again. `SlotsStay`: only teaching, assigning and clearing move a ROM, from
  one slot at most, and a slot turns healthy only through its own device.
- **device, parameters.** `ParamInv`: the decoded rules are the staged slots; what an ACK
  confirmed is staged and read back, and a staged link parameter keeps the link from joining
  with the old one. `RefusedChangesNothing`: a refused batch leaves everything as it was, and
  names a field that was at fault.

The reset and command runs end when their bounds are spent; deadlock is not checked there.

Why the bounds are enough: the properties are about pairs of actors and about
crossing a limit once. The instances let each queue be empty, half full and full,
each retry count be unused and exhausted, a reservation move, run out and
saturate, the uptime wrap and the window span the wrap, three writers contend
with the radio, a hold outlast the excuse, a record fall before, on and after its
slot, a batch need more pages than the queue has, and each work item be queued behind each
other one. The bounds that exist only for TLC are named as such in the modules (`MaxFrames`,
`MaxPages`, `MaxReplay`, `MaxNonce`, `MaxTime`, `MaxIdle`, `MaxLate`,
`MaxStreak`, `MaxRungs`, `MaxRecords`, `MaxEvents`, `MaxUptime`, `MaxUpsets`, `MaxSets`,
`MaxDownlinks`, `MaxTrouble`, `MaxHold`, `MaxCount`, `PageEvents`, `MaxCounter`).


## 4. Fairness

Fairness is stated only in the specifications that liveness properties use.

- `AirGate!Scheduling` (`WriterGetsFlash`, `ExchangeStarts`): exchanges and writes end; a
  thread that may leave its wait is scheduled. The end of an exchange is strongly fair,
  because the radio queue may itself write flash inside one, a finite number of times. Time
  passing is not assumed, except in `ExchangeStarts`, whose subject is the cap.
- `RadioTx!Fairness` (`BacklogEnds`): Zephyr's work queue serves its items in turn (strong
  fairness of each handler: the other one may run in between), a call into the
  backend returns (it has timeouts), timers fire, backoffs and listen mode end, a
  rejoin eventually succeeds, reports are requested on their schedule, and the
  ledger does not hold one frame for ever since its window slides.
- `LrwLink!Scheduling`: the queue runs its head, the timer of the current state
  fires, calls into the MAC return. `LrwLink!Reporting`: reports keep coming and
  some whose LinkCheckReq the MAC accepted are sent whole. A node whose reports
  never leave is the business of the M-2 watch, not of the link check. `DeafNodeRejoins`
  needs both.
- `Announce!Fairness` (`BatchLeaves`): timers fire and the system work queue is served, both
  weakly fair since nothing takes a due item back. The radio's release, its sends and the
  report thread are strongly fair: a link that goes and comes disables them for a while.
- `P2PLink!Fairness` (`RequestEnds`): the air and the listen windows are bounded, a frame
  that failed is tried again or given up. The transmissions are strongly fair: the ledger
  does not hold one for ever. A control request is looked at again by the handler's own
  timer, whatever frames go between.

## 5. Where the code and its comments disagree

Four runs look for a violation and find it; each checks what a comment says.

| Run | Property | Code | What happens |
|---|---|---|---|
| `history_chain` | `NoStalePage` | `app_history.c:655` | A mount numbers on from the newest page of the layout it mounts, though pages of another layout may be newer. A boot that first sees an earlier layout, and whose channel list is set before its first capture (or a channel list that goes back and forth over reboots), continues the ring from there; the new page's number lands one below a page of the earlier run, and the next mount chains that page after it, against "so no future page can ever land exactly 1 above the last pre-reset page's seq". Old records come back as new ones, and with pages of different lengths the record count underflows. |
| `set_param_acked` | `AckedIsStored` | `app_cmd.c:555` | The check after a batch compares the number of stale rules before and after it. A batch that repairs or clears one stale rule and stores an invalid one leaves the number as it was: the invalid rule is zeroed and the batch acknowledged, against "surface that as a fault instead of a misleading ACK for a rule that was silently dropped". |
| `nfc_replay` | `ReplayMeansRan` | `app_nfc.c:1679` | A reply that cannot be written to the tag drops the deferred action with it. The phone repeats the request and gets the cached acknowledgement; the reboot or reset never runs, against "NONE on a replay — the original already ran" (`app_nfc.c:1168`). |
| `reset_overtaken` | `KeysTakeTheLink` | `app_settings.c:412` | A reboot run by the radio's post-command work may come between the config save of a factory or vendor reset on the NFC thread and the reset of the link: the unit boots without its keys and with the old stack session, against "every reboot from here on must also wipe the LoRaMac stack's own NVM". |

The following was seen while modelling. The models contain the behaviour unless it is said to
be left out, and the properties allow for it; no run singles it out.

*Ledger and scheduler*

- Ledger entries expire only when it is used. After 49.7 days without a transmission an old
  entry's age aliases and it counts as fresh air (`app_radio.c:485`, against the comment at
  481-484). It errs towards too much air counted. The run `foundations` bounds the idle time
  below a wrap (`MaxIdle`): a node that reports is never idle that long, one that was off the
  air for so long meets it at its first frame.
- Closing a report schedules nothing, on a drop (`app_radio.c:1584`) as at its normal end
  without a new request (`app_radio.c:1597`). What was queued while its frame waited for its
  Ack did not kick and now has no timer: it waits for the next kick, up to an interval
  (comments at 745 and 841). That step is the only exception of `WakeupsKept`, and the proof
  shows there is no other.
- A kick from another thread inside a send queues the running item again; the
  reschedule for the Ack retry cancels only the timer, so the retry goes at once,
  without its random wait (`app_radio.c:800`, comments at 815 and 979).
- A new session clears the network backoff but not the timer it armed, and a kick leaves an
  armed timer alone: frames of the new session wait for the old gateway's backoff
  (`app_radio_p2p.c:2464`).
- A report of the old session survives a quick rejoin: it is closed only if the work runs while
  the link is down (`app_radio.c:1613`).
- The jitter work does not look whether the sequence has closed meanwhile (`app_radio.c:2057`).

*M-2 watch and cadence*

- A replay frame held by the ledger while an answer is already held shares the answer's
  streak. When the answer goes, the streak keeps its old start, so the watch may rejoin, and
  drop the replay, before that frame's own hold is over (`app_radio_stale_note`); the same
  after a held frame that is dropped without anything sent. `HoldsAreExcused` is therefore
  about frames whose hold starts a streak.
- A time sync that lands between the computation of a slot and the capture leaves a record
  labelled in uptime in a segment that has become unix time; the history opens a new segment.
- A cycle later than the interval less the tolerance takes the later slot and skips one. A
  cycle already running when the reports are suspended arms the timer again, as its comment
  says.
- With an even interval of at most two tolerances a run exactly half an interval late would
  take the next slot. The smallest interval rules that out (`OneSlotIsNear`,
  `app_config.c:379`).

*P2P link*

- The node's own ACK moves the counter it has seen (`app_radio_p2p.c:1605`), so a repeated
  downlink is dropped rather than acknowledged again (comment at 1652, `doc/p2p.md:401`). What
  is confirmed is still delivered once, as proved.

*Commands, configuration, resets*

- Setting the secret key, claiming, entering calibration and the vendor's replacement key
  write the staged configuration without the config lock. A SetParam that is rolled back at
  that moment takes an acknowledged key or token with it (comment at `app_config.c:108`); a
  save exports the staged copy without the lock too. The same holds for the shell's `alarm
  set` and 1-Wire enrolment.
- The export of the configuration ignores write errors (`app_config.c:480`), so a claim may
  flip its latch without its token in the flash (`app_cmd.c:1300`). Left out of the model.
- A join command that was accepted may run after a SetParam that staged new keys.
- A reboot by the phone while acknowledged radio actions wait loses them; a power failure
  between the config save of a factory reset and its later steps leaves the old owner's
  counters, history and link.
- The pages of requested fields and of the settings are read and laid out again for each page
  (`app_cmd.c:2840-2846`). A SetParam, or for the settings a rebind of the 1-Wire slots, between two
  pages may move a boundary: an item is skipped or told twice; a page that is no longer there is an Error
  (request) or ends the stream early (settings). The comment at `app_cmd.c:2001` says of the settings that
  "the content is static config". Hence `steady` in `StreamTellsAll`.
- A first page that finds no room in the queue does not stop the stream of a downlink's answer, as
  it does that of an announce (`app_radio.c:2480`).
- There is one `m_cmd_action` on the NFC thread, and a second would overwrite the first
  (`app_nfc.c:1717`). The poll returns as soon as one is staged (`app_nfc.c:1801`) and the thread
  runs it before it polls again, so a phone's command cannot get there (`BatchKeepsAll`); the bench
  command `nfc mb serve`, which serves a session on the shell's thread, could, and is left out.

*Alarms and 1-Wire*

- A 1-Wire level rule whose reading vanishes keeps its dwell running. Edges limited by the rate
  limit are dropped, not delayed. The window's total wraps at 65535 edges held while the link
  is down.
- A shell write of a slot's sensor type does not load the rules again.
- `w1 enroll` asks the bus three times (`app_w1_slots.c:756`, and the rebinds at 770 and 819, or 847 when it assigns). A device that
  the last one does not hear leaves a slot with its ROM and no type until a later rebind hears it,
  against "history must know a slot's channels while the sensor is absent" (`app_w1_slots.c:253`).
- A driver has room for two devices of its type (`app_ds18b20.c:54`). Of three on the bus it takes the
  first two the search finds; a slot taught the third one stays unbound, and each rescan scans
  the bus in full again.
- Provisioned ROMs are modelled as the unit itself writes them (`SavedSlots`): the same ROM by hand in two
  slots, or beside a type that is not its device's, is left out. So is a bus that changes between the two searches of
  one rescan; between the search and the scan it may change.
- `w1 scan` ends in a rebind that enrols, so the `w1 enroll` of the test plan finds nothing new
  (`doc/manual-test-plan.md:898`). A rebind by the shell leaves the sampling thread's record
  of what is present, so a probe unbound by it may not be bound again until the bus
  changes. The mark REPLACED lasts until the next rebind only.

*History*

- A failed double word drops the staged tail of records that are already counted
  (`app_history.c:724`). While the page is the head they read as errors; once
  another page is the head, as erased bytes, although "a failed flash write leaves
  no phantom record" (`app_history.c:1456`).
- A page closed early is padded with zeros, and a mount counts whole records of
  padding if a record is shorter than a double word (`app_history.c:650`): the
  default record has 3 bytes. It takes a reset between the padding and the next
  page's header, a whole replay when the split falls into one.
- A rollover that erased the oldest page and then fails leaves it live, reading as
  erased bytes until the next capture (`app_history.c:471`).
- A replay's layout and interval are taken before its cursor
  (`app_radio.c:1886`, `app_radio.c:1925`), under separate locks: a capture on
  the report queue that changes the layout in between makes its records go out
  under the old one. Likewise the hold (`app_radio.c:1930`) comes after the
  cursor, and a remount in between moves the ordinals.

## 6. What is proved

TLAPS proves the following for all values of the constants that satisfy the
modules' named assumptions: any window of whole slots, any allowance, air times and width
of the ledger's clock; any finite set of threads and any positive caps; any
reservation of at least two counters, any counter width, any set of plaintexts; any
thresholds, retries, repetitions and scripts of traffic; any intervals and holds; any
batch, queue and page sizes; any batches of parameters; any slots, devices and types; any
contents of answers, budgets and requests; any number and size of flash pages, any sizes of
records and any intervals. The assumptions that are more than
types and sizes are `LedgerIsUsed` (section 5), `OneSlotIsNear` (section 5), in
`ParamAssumption`, that a stored Boolean or type byte was saved from a variable of its width, `SavedAssumption` of
`W1Slots` (a stored ROM is of one slot, beside its device's type or none; section 5), and
`GoesBack = FALSE` (section 2), which each theorem about the ring has as its hypothesis.

**Foundations_proofs, the ledger.** `LedgerProofInv` describes the ledger against the exact
record. `Aging`: entries are in the order of their age, and none is so old that its truncated age
could alias. `Remembered`: the record grows with the length of the window asked for. `Under`: for
*every* length up to the window the younger entries hold at least what the record has, which is what an
expiry at any time needs; `Over`: until the wrap, at most what the record has with a slot more.
`OneASlot`, `Spread`: until the wrap there is one entry a slot, so nothing is folded then
(`NoFold`). `Waiting`: a refused frame waits for the first entry whose leaving frees
enough. Charging, folding and expiring are about sums over a sequence: `RunningIs` shows that the
running sum satisfies its recursion (by the partial sums that do; induction is by the least
counterexample, `Induct`), and `YoungerIs` that the younger entries' air is the sum after a cut. From it:
`LedgerIsExact`, and `LedgerImplementsAllowance`, one step of the ledger being one of
`AirAllowance` or none (`AllowanceStep`): the ledger admits only what the record would since it never
undercounts.

**Foundations_proofs, the gate.** `GateInv` is the type invariant, `CountersMatchThreads`,
`OverlapIsExcused` and `Places`: a thread never waits while it writes, and the radio
queue does not wait while its exchange runs. Without `Places` a thread that leaves
one set could still be in the other, and a counter would no longer be a
cardinality. It is inductive because each critical section changes one counter and
one set together (`CountAdds`, `CountRemoves` over finite sets). From it: `CountersAlwaysMatch`,
`OverlapAlwaysExcused`, `NoWakeupEverLost` (inductive given `GateInv`), together
`GateIsSafe`, and `ExchangeAlwaysYields`.

**Foundations_proofs, the session.** None of the four safety properties is inductive by itself.
`SessionInv` adds: the reservation in RAM is the flash's watermark and
covers the counter (`ReservationHolds`), the attempt number in RAM is the one in flash (`NonceMirrored`),
every sealed counter of the current key lies below the RAM's next counter
(`UsedBelow`), every key that ever sealed comes from a spent attempt
(`KeysAreSpent`), the frame kept for a retry is sealed under its counter
(`RetxIsSealed`), and the TOWER lane lies below the RAM's next counter (`LaneBelow`). The
argument: a fresh counter is above all sealed ones (`TakeFacts`), a reused one
belongs to the same plaintext (`ExchangeKeeps`), a new key is above all keys that
ever sealed (`AttemptIsFresh`, `PairingKeeps`), and a reset resumes at the
watermark (`PowerLossKeeps`). From it: `NonceNeverReused`, `ResetResumesAbove`,
`AttemptsNeverRepeat`, `PairingIsDurable`, together `SessionIsSafe`, and the action
property `LaneNeverFalls`.

**LrwLink_proofs.** `LinkProofInv` is the type invariant in three parts and four facts. The
queue holds each item once, so running or cancelling one removes it (`SubmitAdds`,
`RunTakes`, `CancelTakes`); a check pends in a session only (`PendingIsHealthy`); a join is
tried in JOINING only (`JoinIsJoining`), so its end finds the state that waits for it; the
frame that waits for an answer is on air (`WaitedIsOnAir`); and the failure a pending check
may become is not counted yet (`FailureIsAsked`), without which a late answer could make the
failures outnumber the checks. From it: `LinkNeverStalls` and `RejoinsAreLastResort`.

**P2PLink_proofs.** `P2PProofInv` has four parts. `Types`; `Places`, where the exchange
stands and what it carries at each stage; `Uplinks`: a frame the gateway already has is
tried again only under the counter the gateway knows, and a fresh counter belongs to a frame it
does not have; `Downlinks`: only the first queued downlink has been given a counter, what
was taken is not behind it in the script, and the node's lane tells whether it has been
taken. The sequences (`got`, `taken`, the queue) are handled by a few lemmas on `Append`
and on falling sequences. One lemma per step; from it `ConfirmedDeliveredOnce`.
`ControlInv`, inductive given `Types`, adds what keeps control traffic going and bounded: what was
asked while a control uplink is on the air has made the work due again (`NewRequestsAreDue`),
without which an uplink that drops its own requests could leave the others with nobody to
send them; and a drain is asked for only while one more is allowed, by nobody while one is under
way (`DrainsAreCounted`). From it: `ControlNeverStalls`.

**Uplink_proofs, the scheduler.** `SchedInv` says who holds the one slot in the terms of its
owner (`SlotHeld`): the frame in hand for an answer or an alarm, the open report's page, the
replay's built page; that the answers stay in the order they were queued; and where each wake-up that
a waiting frame needs comes from. One lemma per step of `m_tx_work`, of the work items that close
or open a report, and of the link. From it: `SlotNeverLeaks`, `WakeupsAreKept` (a report that
is closed or dropped leaves no frame behind without a run) and `AlarmsPassBackoff`.

**Uplink_proofs, the watch.** `WatchProofInv` ties what the watch sees to what happened: beyond
the stale time a healthy link's silence is told by a streak that has run as long
(`SilenceIsTold`), a streak is no older than the frames that began one and outlasts their
holds (`StreakCovers`). From it: `MuteAlwaysEnds` and `WaitersAlwaysSpared`.

**Uplink_proofs, the cadence.** `CadenceInv` gives `CadenceAlwaysAims`. For the spacing, `SpacingInv` adds
that a record's slot is on the grid its place defines and that a cycle that is due aims at the
next one. The arithmetic is in lemmas on rounding: the slot found is the nearest
multiple (`RoundIsNearest`, `RoundFindsSlot`) as long as two tolerances are less than the
interval (`OneSlotIsNear`). From it: `RecordsKeepTheirSlots`.

**Commands_proofs, commands.** `NonceInv`: no copy of the counter the unit may go on from is behind the last
command run (`SpentIsKept`); a batch that will be rolled back holds the lock and its
snapshot has the staged counter (`RollbackKeeps`), which is why the counter waits for the
lock; the request in service is above what ran, and is handled only when both copies have it
(`ServedIsNew`). Every reset tier, migration and torn save keeps the counter or takes the
staged one (`ResetKeeps`, `MigrationKeeps`, `TornKeeps`). From it: `CommandsRunOnce`.
`UnitInv` is the rest of the unit. Every copy of the configuration, that of a batch's snapshot
too, has the version and the keys of the flash (`CopiesAreCurrent`); the decoded rules differ from
the staged ones only while a batch of a kind that stages rules, or a reset, is under way (`RulesLag`); the
first action's wait is covered by the post's age (`WaitIsCounted`); a thread's plan names a reset only if
its command asked for one (`ResetIsAsked`); and where a reset stands in its plan tells what is gone
from which copy (`ResetIsThere`): from the staged one before the save, from the flash after it,
although the radio's downlinks go on staging and rolling back around it (`RadioIsSound`). From it:
`UnitIsSound` and `ResetsForget`. `NoActionIsLost` is a case analysis of `PostPlan`, which has
eight outcomes (`PostPlanIsOne`), and for the phone's action `OneAction`: while a frame is served
no action is staged.

**Announce_proofs.** `AnnounceProofInv` adds two facts to `AnnounceInv`. `BatchSound`: what the
window has seen covers what the batch collected, and a window is open exactly while there is
something in it. `SeenIsReleased`: a report thread that saw the sequence closed, and is about to look
at its mark again, either finds it taken or has a release ahead - the handover whose two
flags are set and read in opposite orders. The work queue's list holds each item once (`EnqueuedAdds`,
`TailTakes`, `CancelTakes`), and a flush loses no edge from the sums for any way
to lay the pages out (`ReportedFits`, `FlushesFit`, `CollectedFits`). One lemma per step. From it:
`NothingIsStranded`; `AlarmsLeaveFirst` follows from the places in the queue.

**Device_proofs, parameters.** `ParamProofInv` adds to `ParamInv` that no staged slot holds
anything but a valid rule, so that a batch taken back decodes the very rules that were there, and
that a promise is about fields and slots there are. `InvIsState` restates it without the
dumps: what is told of a field or a slot is what is staged (`FieldIsTold`, `SlotIsTold`). `ClampFits` is
the comparison, field by field, of what a load leaves with what a SetParam takes. A
batch that is accepted has no objection (`NoObjection`), one that is refused has a guilty
entry (`SomeoneIsGuilty`). From it: `ParametersHold` and `RefusalsChangeNothing`.

**Device_proofs, alarms.** `AlarmInd` adds two facts to `AlarmInv`. `RulesOk`: the latch of each
rule is one its kind can leave: a threshold that is active has its side and no other rule has one, only
an edge or a motion is held, only a latch in use is active. `WatchOk`: a no-data latch that is on has
its own part as channel and a slot of known type. An evaluation is `Sound` if it leaves a good latch and edges that tell the
backend just what that latch has on, whatever it had on before; soundness is shown once for each operator of
`AlarmRules` and of the watchdogs, and passes from the parts of an evaluation to the whole, since
later edges override earlier ones. No two rules, slots or watchdogs share a name (`Apart`), so what
they say can be put together piece by piece (`TwoPieces`). From it: `AlarmsPair`.

`TimeOk` is what `AlarmsInTime` needs: whatever a latch waits for has already lasted as long as
is no longer to wait. A level that is being confirmed may turn before its event is handled, but not turn
back (`LevelHeld`); silence and the hold of a motion restart with each pulse, and a motion that is held is
active (`StillHeld`, `MotionHeld`); the counter is past its base by no more than the pulses seen since
(`RateCounted`). One evaluation either leaves the latch or resets it (`SyncedIs`), and an
edit never inherits the time of the rule before it (`SyncedInTime`). From it:
`AlarmsKeepTheirTime`.

**Commands_proofs, slots.** A rebind is four recursions over the slots or the devices. Each is shown to
have a value and to be reached step by step (`Recurs`, by the least counterexample,
`CountsUp`), so that a lemma may say what its passes keep: `Matched`, every slot
shows the device of its ROM and what is free is what no slot has, through the first two
passes (`ByRomMatches`, `EnrolledMatches`); `JudgeCounts`, that each mismatch mark took one free
device of its type, through the third. `Outcome` collects what a rebind leaves. Among it is `AtRest`:
no free device fits a slot without a ROM; a rebind from a state at rest changes no ROM and no
type, which is why the second one settles (`RebindSettles`). `W1Ind` adds to `W1Inv` that a bound
slot's ROM is one the drivers know, and that after a rescan the count it keeps is the count
of the bound slots; a taught device left out then leaves that count short of the bus
(`UnboundIsMissed`, by an injection of the bound slots into the other devices), so the next rescan
rebinds. Every step is a rebind that may first have changed one slot (`Rebinds`), a read, or leaves
the slots alone. Nothing is assumed of what a rebind hears: the lemmas are about any part of the devices the
drivers know, so the reads of one command (`TakesRebinds`) and failed scans need no case of their own.
From it: `ProbesKeepTheirSlots` and `SlotsOnlyByTeaching`.

**Commands_proofs, pages.** `LayoutIsRight` says what the pages are when all units are in; `Laid` is
what they are on the way, after `u` units: page `p` is the part of the told units up to
`ends[p]`, it fits and its alarms are one run, and it is `Closed`: it had no room for the unit that
opens the next page, or may not take it. A unit joins the last page, opens a new one or is left out: one
lemma for each branch of `Packed` (`LaidJoin`, `LaidOpen`, `LaidSkip`), and `GreedyIsLaid` carries it along
the recursion. Optimality is not a claim about one layout but about all cuts of the same units: page
`p` of any allowed cut ends no later than the greedy page `p` (`NoFurther`, by induction over the pages),
since a part of a page that fits fits too (`TotalPart`, `PartFits`) and a page that went further would
hold what closed the greedy one; so no cut with fewer pages reaches the end (`NoFewer`).
`FlatIs` and `HostReadsPages` say what pages put together tell, and what a phone reads. `PagesIndInv` adds to
`PagesInv` that what was asked is laid out as the code lays it out, that a stream which keeps its
content, and one whose configuration has not changed, counts the pages that `StreamPages` makes now, and
that what it told so far are the first of these (`ToldUpTo`), whatever else was asked meanwhile. From it: `LayoutsAreRight` and `StreamsTellAll`.

**HistoryRing_proofs.** What the flash and the stage have is said byte by byte: `Holds(f, r, p, d, b)`
is that page `p` has byte `b` of a record at place `d`, written or staged. `RingInd` has four parts.
`Body`: the sequence numbers of the valid headers differ and rise with the layouts, and two pages that
a mount would chain join up (`Headers`); the view in RAM is the run of pages that ends at the head
(`RunOk`), whose oldest one may be the page that is being erased; every byte lies at its place in its
slot, on a page of the layout and interval its record was taken with (`Placed`); a slot has bytes of one
record only, and later slots and pages those of later records (`Ordered`). `CaptureOk`: what the capture
under way has still to write, and that its record is nowhere but at the end of the head. `BootOk`: before
its first capture the view is just what its mount found; after it the next sequence number is above
every page's, and right after the head's only (`Ahead`). This is where `GoesBack = FALSE` is used: with
an older layout mounted, `Ahead` fails at the next header. `OthersOk` has the types of the rest.

Nearly every step either holds no byte it did not hold before (`HoldNoMore`: an erase, a failed write, a
reset, a clear, a mount) or `Adds` bytes of the record under way at the end of the head (`AppendsKeep`,
`StreamsKeep`); what is left is the header of a new page (`HeaderKeeps`). A mount takes the longest
chain of neighbours that ends at the newest page of its layout (`ChainIs`), and that is a run
(`MountedOk`). From it: `RingIsOneRun` (`RingInv`, reading byte for byte what `Holds` says) and
`NoPageIsStale`, which is `Ordered` along the ordinals (`HeldRise`).

For `CommittedSurvive` the view after a mount is compared with the one before: no valid page is newer
than the head (`Ahead`), so the mount starts from it, and the live pages from a record's own on are found
again at the ordinals they had (`FoundAgain`); a record of the head whose bytes are all in the flash
is counted (`CommittedCounted`), and it reads as before (`FoundByMount`). It needs that a run that was not just mounted knows its
interval (`IntervalKnown`), or the mount could end its chain earlier. From it: `CommittedAreFound`.

For `ReplayInOrder`, `ReplayOk` adds to `RingInd` that what a replay has still to read is newer than what
it sent (`Newer`), and that after a change of layout all pages there are lie behind its end. Both
outlast any capture, erase or reset, as ordinals only go on and what is added is of a newer record
(`GoesOn`). From it: `ReplaysAreInOrder`.

Only model-checked: liveness (`WriterGetsFlash`, `ExchangeStarts`, `BacklogEnds`,
`DeafNodeRejoins`, `BatchLeaves`, `RequestEnds`), as fairness and ENABLED are out of the prover's
reach; and the properties of the four runs that expect a violation, which do not hold (`NoStalePage` holds
without `GoesBack`, and is proved for that case).

## 7. What is not modelled, and why

- *Sensors, indicators, unit conversion, calibration*: arithmetic and straight-line code over
  hardware, with unit suites.
- *Codecs*: TOWER and LoRa frames, protobuf messages, CCM, NDEF. The models name
  frames and keys instead.
- *Generated tables*: the field lists of `app_config.c`, `app_config_ingest.c`,
  `app_sensor_types.c` are modelled by their kinds of fields, not field by field.
- *Vendor code*: LoRaMac and Zephyr; their visible behaviour (return codes,
  callbacks, work items, condition variables) is part of the models.
- *Test shell, simulator, decoders and scripts*: not part of a node in the field; where a
  shell command of a production build writes shared state it is an action
  (`ParamBatch`, `W1Slots`).
- *Wedged threads*: every handler returns in the models. On the node the watchdog
  resets otherwise.
- *Pulse counting*: the sampling of the inputs; saving, zeroing and restoring of the totals
  is in `Commands`.
- *Not yet modelled*: the P2P join, clock synchronisation and the times of history records;
  see the plan. While modelling their neighbours it was seen that a second request for the
  time overwrites the sequence number of a pending one, and that LoRaWAN's pause of 60 s
  swallows a request whose first DeviceTimeReq was lost.

## 8. Plan

What would come next, in this order.

| Module | Models | Properties |
|---|---|---|
| `P2PJoin` | join windows, candidates and channel search (`app_radio_p2p.c:707-795`, `1065-1186`, `2433-2986`, `3219-3502`), composed with `P2PSession` and `P2PLink` | a node whose gateway is gone rejoins; no answer to another attempt is taken |
| `HistoryRing`, time part | slots, segments, clock sync, fix-ups, windows | each record's time within half an interval of its slot; refinement of a log that loses a prefix by eviction and a suffix by a reset |
| `ClockSync` | network time against requests (`app_radio.c:2640-2745`) | one answer per request |
| `Announce`, ready kick | the link-ready kick folded into the report thread | one report per snapshot |
| `Counters` | sampling, wrap, restore | totals never fall but by a command |

Every safety property that a passing run checks has a theorem (section 6); what is left to prove
comes with these modules. The first is the refinement of the ring's time part: `RingIsOneRun` and
`CommittedAreFound` say which records are found again and in which order, and the abstract log would
have to lose just a prefix of them by eviction and a suffix by a reset.
