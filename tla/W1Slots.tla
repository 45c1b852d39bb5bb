------------------------------ MODULE W1Slots -------------------------------
(***************************************************************************)
(* The 1-Wire slots: app/src/app_w1_slots.c, and the rescan of             *)
(* app/src/app_sensor.c.                                                   *)
(*                                                                         *)
(* A slot is taught a ROM, and expects a type.  A rebind maps the devices  *)
(* the drivers know to the slots; a shell command scans and rebinds; the   *)
(* sensor queue rescans on a backoff while a taught slot is unbound, and   *)
(* reads the slots through driver indices that a scan on the shell thread  *)
(* may reshuffle under it.  A driver has room for a few devices, and a     *)
(* search of the bus, a scan or any read of a device may fail by chance.   *)
(***************************************************************************)
EXTENDS Integers, FiniteSets, FiniteSetsExt

CONSTANTS
  NumSlots,   \* APP_W1_SLOT_COUNT
  Devices,    \* ROM serials, numbered in the order the drivers discover them
  TypeOf,     \* Devices -> registry type
  PerDriver,  \* ARRAY_SIZE(m_sensors): how many devices of its type a driver takes
  SavedSlots, \* the ROMs and types the slots may have in flash at boot
  MaxEvents   \* bound: devices plugged in or out, failures, and commands

W1Slot == 1..NumSlots
Empty  == 0                              \* no ROM; APP_SENSOR_TYPE_NONE is ""
Kinds  == {TypeOf[d] : d \in Devices}

ASSUME W1Assumption ==
  /\ NumSlots \in Nat \ {0} /\ IsFiniteSet(Devices) /\ Devices = 1..Cardinality(Devices)
  /\ "" \notin Kinds /\ PerDriver \in Nat /\ MaxEvents \in Nat
\* A stored ROM is of one slot, whose type is its device's or was never read.
ASSUME SavedAssumption ==
  \A saved \in SavedSlots :
    /\ saved.rom \in [W1Slot -> Devices \cup {Empty}]
    /\ saved.kind \in [W1Slot -> Kinds \cup {""}]
    /\ \A s \in W1Slot : saved.rom[s] # Empty =>
         /\ \A t \in W1Slot \ {s} : saved.rom[t] # saved.rom[s]
         /\ saved.kind[s] \in {"", TypeOf[saved.rom[s]]}

VARIABLES
  rom, kind,   \* sensorN_rom and sensorN_type, runtime and staging alike
  slots,       \* m_slots
  plugged,     \* the devices on the bus
  known,       \* the devices in the drivers' tables
  sig, bound,  \* m_w1_sig and m_w1_present, of the last rescan
  armed, force,\* m_w1_rescan_work is scheduled; m_w1_rescan_force
  scanning,    \* the rescan has read the bus and rebinds next
  reading,     \* app_w1_slots_read() outside its lock: its snapshot
  shell,       \* observer: the shell rebound since the last rescan did
  events       \* bound

cfg     == <<rom, kind>>
rescan  == <<sig, bound, armed, force, scanning>>
w1Vars  == <<cfg, slots, plugged, known, rescan, reading, shell, events>>

NoBind  == [rom |-> Empty, present |-> FALSE, index |-> 0, type |-> "", state |-> "none",
            detected |-> ""]
NotReading    == [slot |-> 0]

\* The driver's index of a device: its place among those of its type.
IndexIn(S, d) == Cardinality({e \in S : TypeOf[e] = TypeOf[d] /\ e <= d})

(***************************************************************************)
(* app_w1_slots_rebind(), pass by pass.  r: ROMs and types, slots, and the *)
(* devices no slot has claimed yet.                                        *)
(***************************************************************************)
Binding(d, S) == [rom |-> d, present |-> TRUE, index |-> IndexIn(S, d), type |-> TypeOf[d],
                  state |-> "ok", detected |-> ""]

\* Pass 1: every taught slot takes the device with its ROM, the lowest slot first.
Finds(rs, found, s) == rs[s] \in found /\ \A t \in 1..(s - 1) : rs[t] # rs[s]
ByRom(rs, ks, found, S) ==
  [rom   |-> rs,
   kind  |-> [s \in W1Slot |-> IF Finds(rs, found, s) THEN TypeOf[rs[s]] ELSE ks[s]],
   free  |-> {d \in found : \A s \in W1Slot : rs[s] # d},
   slots |-> [s \in W1Slot |-> IF Finds(rs, found, s) THEN Binding(rs[s], S)
                               ELSE [NoBind EXCEPT !.rom = rs[s]]],
   alike |-> [s \in W1Slot |-> FALSE]]

Suits(r, s, d) == r.kind[s] \in {"", TypeOf[d]}
Lacks(r, s)   == r.rom[s] # Empty /\ ~r.slots[s].present
\* A device of its type is on the bus while a taught slot lacks its own.
Alike(r) ==
  [r EXCEPT !.alike = [s \in W1Slot |-> Lacks(r, s) /\ \E d \in r.free : Suits(r, s, d)]]

\* Pass 2: a free device enrols into the lowest slot without a ROM it fits.
Enrols(r, d) == {s \in W1Slot : r.rom[s] = Empty /\ Suits(r, s, d)}
Enrol(r, d, S) ==
  IF d \notin r.free \/ Enrols(r, d) = {} THEN r
  ELSE LET s == Min(Enrols(r, d)) IN
       [rom   |-> [r.rom EXCEPT ![s] = d],
        kind  |-> [r.kind EXCEPT ![s] = TypeOf[d]],
        free  |-> r.free \ {d},
        slots |-> [r.slots EXCEPT ![s] = Binding(d, S)],
        alike |-> r.alike]
Enrolled(r0, S) ==
  LET upto[d \in 0..Cardinality(Devices)] ==
        IF d = 0 THEN r0 ELSE Enrol(upto[d - 1], d, S)
  IN upto[Cardinality(Devices)]

\* Pass 3: the lowest device of D is spoken for.
Claims(r, D) == IF D = {} THEN r.free ELSE r.free \ {Min(D)}
Replace(r, s) ==
  LET D == IF Lacks(r, s) THEN {d \in r.free : Suits(r, s, d)} ELSE {}
  IN [r EXCEPT !.free = Claims(r, D), !.alike = [r.alike EXCEPT ![s] = @ \/ D # {}]]
Replaced(r0) ==
  LET upto[s \in 0..NumSlots] == IF s = 0 THEN r0 ELSE Replace(upto[s - 1], s)
  IN upto[NumSlots]
SlotVerdict(r, s, D) ==
  [r.slots[s] EXCEPT !.state = IF D # {} THEN "mismatch"
                               ELSE IF r.alike[s] THEN "replaced" ELSE "absent",
                     !.detected = IF D # {} THEN TypeOf[Min(D)] ELSE ""]
Judge(r, s) ==
  IF r.slots[s].present \/ (r.rom[s] = Empty /\ r.kind[s] = "") THEN r
  ELSE LET D == IF r.alike[s] \/ r.kind[s] = "" THEN {}
                ELSE {d \in r.free : TypeOf[d] # r.kind[s]}
       IN [r EXCEPT !.free = Claims(r, D), !.slots = [r.slots EXCEPT ![s] = SlotVerdict(r, s, D)]]
Judged(r0) ==
  LET upto[s \in 0..NumSlots] == IF s = 0 THEN r0 ELSE Judge(upto[s - 1], s)
  IN upto[NumSlots]

\* found: the devices whose read answered; S: those the drivers know.
Rebind(rs, ks, found, S) ==
  Judged(Replaced(Enrolled(Alike(ByRom(rs, ks, found, S)), S)))

Present(r)  == Cardinality({s \in W1Slot : r.slots[s].present})
Rebound(r)  == rom' = r.rom /\ kind' = r.kind /\ slots' = r.slots
\* cfg_rom_set(slot, 0): the type goes with the ROM.
Forgets(r, S) == [r EXCEPT !.rom = [s \in W1Slot |-> IF s \in S THEN Empty ELSE @[s]],
                           !.kind = [s \in W1Slot |-> IF s \in S THEN "" ELSE @[s]]]
\* dedupe_rom(), after the ROM was written into slot s.
Taught(r, s, d) ==
  Forgets([r EXCEPT !.rom[s] = d], {t \in W1Slot \ {s} : r.rom[t] = d})

Happen(n) == events + n <= MaxEvents /\ events' = events + n

(***************************************************************************)
(* The drivers: a scan fills their tables, a read asks a device.           *)
(***************************************************************************)
\* A driver has room for the first devices of its type.
Registered(S) == {d \in S : IndexIn(S, d) <= PerDriver}
\* A driver that cannot take the bus keeps its table of devices of type k; else the
\* search, or the registration, may miss some that hang on the bus.
OfType(S, k) == {d \in S : TypeOf[d] = k}
Fills(k, old, K) ==
  \/ OfType(K, k) = OfType(old, k)
  \/ OfType(K, k) \subseteq plugged /\ Cardinality(OfType(K, k)) <= PerDriver
\* The tables a scan may leave; it fails only while events are left.
Scans(old, spent) ==
  IF spent >= MaxEvents THEN {Registered(plugged)}
  ELSE {K \in SUBSET (plugged \cup old) : \A k \in Kinds : Fills(k, old, K)}
ScanFails(K) == IF K = Registered(plugged) THEN 0 ELSE 1

\* collect_all() asks every device in the tables K; those in F answer.
Silent(K, F) == Cardinality((K \cap plugged) \ F)
Answering(K, spent) == {F \in SUBSET (K \cap plugged) : spent + Silent(K, F) <= MaxEvents}

(***************************************************************************)
(* The shell: `w1 scan`, `w1 enroll`, `w1 enroll s`, `w1 enroll s rom` and *)
(* `w1 clear s`.  Each but the last scans the drivers and rebinds; what it *)
(* finds beyond that is decided from a read of its own.                    *)
(***************************************************************************)
ShellMay(failures) == Happen(1 + failures) /\ shell' = TRUE
ShellKeeps == UNCHANGED <<plugged, rescan, reading>>
NewDevices == {d \in Devices : \A s \in W1Slot : rom[s] # d}

\* app_w1_slots_scan() and _enroll_all().
Scan == \E K \in Scans(known, events + 1) : \E F \in Answering(K, events + 1 + ScanFails(K)) :
  /\ ShellMay(ScanFails(K) + Silent(K, F)) /\ known' = K
  /\ Rebound(Rebind(rom, kind, F, K))
  /\ ShellKeeps

\* The rebind of the scan hears F1; the slot takes the one device of D, unless it
\* expects another type; then the rebind hears F2.
Takes(s, D, K, F1, F2) ==
  LET r1 == Rebind(rom, kind, F1, K) IN
  IF Cardinality(D) = 1 /\ r1.kind[s] \in {""} \cup {TypeOf[d] : d \in D}
    THEN LET r2 == Taught(r1, s, CHOOSE d \in D : TRUE)
         IN Rebound(Rebind(r2.rom, r2.kind, F2, K))
    ELSE Rebound(r1)

(* app_w1_slots_teach() and _assign(): the device, one of S, answers the scan. *)
Enrolment(s, S) ==
  \E K \in Scans(known, events + 1) : \E F, F1, F2 \in Answering(K, events + 1 + ScanFails(K)) :
    /\ ShellMay(ScanFails(K) + Silent(K, F) + Silent(K, F1) + Silent(K, F2)) /\ known' = K
    /\ Takes(s, S \cap F, K, F1, F2)
    /\ ShellKeeps
Teach(s) == Enrolment(s, NewDevices)
Assign(s, d) == (\A t \in W1Slot \ {s} : rom[t] # d) /\ Enrolment(s, {d})

\* app_w1_slots_clear(): no driver scan.
Clear(s) == \E F \in Answering(known, events + 1) :
  /\ ShellMay(Silent(known, F)) /\ UNCHANGED known
  /\ LET r == Forgets([rom |-> rom, kind |-> kind], {s})
     IN Rebound(Rebind(r.rom, r.kind, F, known))
  /\ ShellKeeps

(***************************************************************************)
(* The sensor queue: the rescan and the reads.                             *)
(***************************************************************************)
AnyTaught(rs, ks) == \E s \in W1Slot : rs[s] # Empty \/ ks[s] # ""
NeedRescan(r) == \E s \in W1Slot : ~r.slots[s].present /\ (r.rom[s] # Empty \/ r.kind[s] # "")
Now == [rom |-> rom, kind |-> kind, slots |-> slots]

\* Mutant: only a bus that changed is scanned again.
ChangedOnly == force \/ plugged # sig
\* The rescan rebinds on a changed bus, or when a device was left unbound.
Decides == force \/ plugged # sig \/ Cardinality(plugged) > bound

\* The signature of a search that failed is that of no bus.
Unread == {Empty}
Signatures(failed) == IF failed = 0 THEN plugged ELSE Unread

\* w1_rescan_work_handler(), up to the second search, and without a rebind: each of
\* the two searches of the bus may fail, and a first that fails is a changed bus.
RescanBegins == \E first, second \in {0, 1} :
  /\ armed /\ ~scanning /\ reading = NotReading
  /\ Happen(first + second)
  /\ force' = FALSE
  /\ IF AnyTaught(rom, kind) /\ (force \/ NeedRescan(Now)) /\ (Decides \/ first = 1)
       THEN scanning' = TRUE /\ sig' = Signatures(second) /\ UNCHANGED armed
       ELSE /\ first + second = 0
            /\ scanning' = FALSE /\ armed' = (AnyTaught(rom, kind) /\ NeedRescan(Now))
            /\ UNCHANGED sig
  /\ UNCHANGED <<cfg, slots, plugged, known, bound, reading, shell>>
\* w1_scan_rebind() behind the search, and w1_rescan_arm_next().
RescanEnds == \E K \in Scans(known, events) : \E F \in Answering(K, events + ScanFails(K)) :
  /\ scanning /\ Happen(ScanFails(K) + Silent(K, F))
  /\ LET r == Rebind(rom, kind, F, K)
     IN Rebound(r) /\ bound' = Present(r) /\ armed' = NeedRescan(r)
  /\ known' = K /\ scanning' = FALSE /\ shell' = FALSE
  /\ UNCHANGED <<plugged, sig, force, reading>>
\* app_sensor_w1_rescan(): the downlink command forces one.
ForceRescan ==
  /\ ~force /\ force' = TRUE /\ armed' = TRUE /\ Happen(1)
  /\ UNCHANGED <<cfg, slots, plugged, known, sig, bound, scanning, reading, shell>>

\* app_w1_slots_read(): the binding is copied under the lock, read outside it.
ReadBegins(s) ==
  /\ reading = NotReading /\ ~scanning
  /\ slots[s].present
  /\ reading' = [slot |-> s, rom |-> slots[s].rom, type |-> slots[s].type,
                 index |-> slots[s].index]
  /\ UNCHANGED <<cfg, slots, plugged, known, rescan, shell, events>>

Indexed(type, i) == {d \in known \cap plugged : TypeOf[d] = type /\ IndexIn(known, d) = i}
\* Mutant: the serial of the reading is not compared with the slot's ROM.
AnyOf(got, want) == got # {}
OwnOf(got, want) == got = {want}
\* The device that answered, if it is the slot's; the read may fail by chance.
Heard == LET got == Indexed(reading.type, reading.index)
         IN IF OwnOf(got, reading.rom) THEN got ELSE {}
ReadEnds == \E failed \in {0, 1} :
  /\ reading # NotReading /\ Happen(failed)
  /\ LET s     == reading.slot
         heard == IF failed = 1 THEN {} ELSE Heard
     IN slots' = [slots EXCEPT ![s].state =
          IF slots[s].rom # reading.rom THEN @
          ELSE IF heard = {} /\ @ = "ok" THEN "absent"
          ELSE IF heard # {} /\ @ = "absent" THEN "ok" ELSE @]
  /\ reading' = NotReading
  /\ UNCHANGED <<cfg, plugged, known, rescan, shell>>

Plug(d) ==
  /\ Happen(1)
  /\ plugged' = IF d \in plugged THEN plugged \ {d} ELSE plugged \cup {d}
  /\ UNCHANGED <<cfg, slots, known, rescan, reading, shell>>

(***************************************************************************)
(* The specification.  A boot scans and rebinds, before the sensor queue   *)
(* runs, if a slot is taught or provisioned.                               *)
(***************************************************************************)
Boots(r, K, bus, failures) ==
  /\ rom = r.rom /\ kind = r.kind /\ slots = r.slots
  /\ known = K /\ sig = bus
  /\ bound = Present(r) /\ armed = NeedRescan(r)
  /\ events = failures /\ failures <= MaxEvents
W1Init ==
  /\ plugged \in SUBSET Devices
  /\ \E saved \in SavedSlots :
       IF AnyTaught(saved.rom, saved.kind)
         THEN \E failed \in {0, 1} : \E K \in Scans({}, failed) :
              \E F \in Answering(K, failed + ScanFails(K)) :
                Boots(Rebind(saved.rom, saved.kind, F, K), K, Signatures(failed),
                      failed + ScanFails(K) + Silent(K, F))
         ELSE Boots(ByRom(saved.rom, saved.kind, {}, {}), {}, {}, 0)
  /\ force = FALSE /\ scanning = FALSE /\ reading = NotReading /\ shell = FALSE

W1Next ==
  \/ Scan \/ RescanBegins \/ RescanEnds \/ ForceRescan \/ ReadEnds
  \/ \E s \in W1Slot : Teach(s) \/ Clear(s) \/ ReadBegins(s)
                       \/ \E d \in Devices : Assign(s, d)
  \/ \E d \in Devices : Plug(d)
W1Spec == W1Init /\ [][W1Next]_w1Vars

(***************************************************************************)
(* Properties.                                                             *)
(***************************************************************************)
W1Type ==
  /\ rom \in [W1Slot -> Devices \cup {Empty}] /\ kind \in [W1Slot -> Kinds \cup {""}]
  /\ {plugged, known} \subseteq SUBSET Devices /\ sig \in (SUBSET Devices) \cup {Unread}
  /\ bound \in 0..NumSlots
  /\ {armed, force, scanning, shell} \subseteq BOOLEAN /\ events \in 0..MaxEvents

(* A ROM lives in one slot, and a slot that has one has the type of its     *)
(* device: at once if it is bound, or none until it is (the rebind after the *)
(* ROM is written may not hear the device).                                  *)
RomIsUnique ==
  \A s \in W1Slot : rom[s] # Empty =>
    /\ \A t \in W1Slot \ {s} : rom[t] # rom[s]
    /\ kind[s] = TypeOf[rom[s]] \/ (kind[s] = "" /\ ~slots[s].present)

\* A foreign device marks one slot at most, and never one it could have served.
MismatchIsForeign ==
  LET M == {s \in W1Slot : slots[s].state = "mismatch"} IN
  /\ \A s \in M : slots[s].detected \notin {"", kind[s]}
  /\ \A k \in Kinds : Cardinality({s \in M : slots[s].detected = k})
                        <= Cardinality({d \in known : TypeOf[d] = k})

(* Binding again what a rebind left moves no device: the second one finds    *)
(* every device where the first one put it.                                  *)
Settled ==
  LET r1 == Rebind(rom, kind, known \cap plugged, known)
      r2 == Rebind(r1.rom, r1.kind, known \cap plugged, known)
  IN /\ r2.rom = r1.rom /\ r2.kind = r1.kind
     /\ \A s \in W1Slot : r2.slots[s].present = r1.slots[s].present
                           /\ r2.slots[s].index = r1.slots[s].index

(* A taught device that is on the bus and not bound is not forgotten: the    *)
(* rescan that is due would scan and rebind again, whatever search, scan or   *)
(* read failed in the last one.  (It binds the device if its driver has room: *)
(* one beyond PerDriver is scanned for again and again.  A rebind of the      *)
(* shell's leaves the signature of the last rescan as it was, and a device    *)
(* plugged in between the search and the scan of a rescan is bound without    *)
(* being in it: a device unbound then may stay so.)                           *)
Unbound(s)    == rom[s] \in plugged /\ ~slots[s].present
UnboundIsSeen ==
  /\ armed /\ ~scanning /\ ~shell /\ (\E s \in W1Slot : Unbound(s))
  /\ \A s \in W1Slot : slots[s].present => rom[s] \in sig
  => Decides

W1Inv == W1Type /\ RomIsUnique /\ MismatchIsForeign /\ Settled /\ UnboundIsSeen

(* Only teaching, assigning or clearing a slot takes a ROM from where it was *)
(* taught, and from one slot at most; and a slot turns healthy only through  *)
(* its own device, whatever a scan did to the driver indices meanwhile.      *)
Keeps(s)   == rom[s] # Empty => rom'[s] = rom[s]
Touches(s) == Teach(s) \/ Clear(s) \/ \E d \in Devices : Assign(s, d)
SlotsStay  ==
  [][/\ \A s, t \in W1Slot : Keeps(s) \/ Keeps(t) \/ s = t
     /\ (\A s \in W1Slot : Keeps(s)) \/ (\E s \in W1Slot : Touches(s))
     /\ \A s \in W1Slot : slots'[s].state = "ok" /\ slots[s].state # "ok"
          => slots'[s].rom \in plugged /\ slots'[s].rom \in known']_w1Vars
=============================================================================
