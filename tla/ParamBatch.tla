----------------------------- MODULE ParamBatch -----------------------------
(***************************************************************************)
(* The parameters: what a SetParam stages, refuses and acknowledges, and     *)
(* what a dump reads back.  app/src/app_config_ingest.c (the groups),        *)
(* app_cmd.c (SetParam, GetParam, GetConfig), app_alarm_rules.c (the rule    *)
(* slots and their decoded copies), app_config.c (the shell, the clamps of a   *)
(* load).                                                                    *)
(*                                                                         *)
(* A field is <<group, tag>>, its value a number (for a Boolean 0 or 1, for   *)
(* an array any number, 0 if all zero).  The sixteen rule slots are kept     *)
(* apart, as decoded rules.  A SetParam holds the config lock, and no action  *)
(* here runs inside it; Commands has the interleavings.                      *)
(***************************************************************************)
EXTENDS Integers, FiniteSetsExt, Functions, TLC

CONSTANTS
  Fields,       \* the fields an instance changes, a set of <<group, tag>>
  RuleSlots,    \* the rule slots in use, 0 .. 15
  Batches,      \* the SetParam messages: [tp, replace, writes, slots]
  ShellWrites,  \* what is written at the shell: a set of <<field, value>>
  ShellRules,   \* the rules set there
  Stores        \* what the flash may hold at first: [fields, slots]

VARIABLES
  draft,      \* m_app_config: [fields, slots]
  radioMode,  \* the radio mode the unit runs in, of g_app_config
  decoded,    \* m_rules
  broken,     \* m_invalid_mask
  unsynced,   \* m_lrw_staging_dirty
  verdict,    \* the last answer: [kind, fault]
  promised    \* history: what the last acknowledged batch set and nothing changed since,
              \* and whether it met no stale rule

paramVars == <<draft, radioMode, decoded, broken, unsynced, verdict, promised>>

---------------------------------------------------------------------------
(* The groups: the values apply_<group>() takes, and the transports a field    *)
(* is closed to.  A wire value of 2^31 or more reads as a negative int.        *)

Air == {"lrw", "p2p"}
Bit == 0..1
Whatever == Int

LorawanTakes ==
  [t \in 1..16 |->
    CASE t = 1 -> 0..3 [] t = 2 -> 0..8 [] t \in {3, 4, 5} -> Bit [] t \in 6..12 -> Whatever
      [] t = 13 -> 0..255 [] t = 14 -> 1..255 [] t = 15 -> 0..2 [] t = 16 -> 0..8]
LorawanShut == [t \in DOMAIN LorawanTakes |-> Air \cup {"vendor"}]

DaySeconds == 86400
ApplicationTakes ==
  [t \in (1..9) \ {5} |->
    CASE t = 2 -> {0} \cup (5..3600) [] t = 3 -> 60..DaySeconds [] t = 6 -> 1000..3600
      [] t = 8 -> 0..168 [] t = 9 -> Whatever [] t \in {1, 4, 7} -> Bit]
ApplicationShut ==
  [t \in DOMAIN ApplicationTakes |->
    CASE t = 1 -> Air \cup {"vendor"} [] t = 7 -> Air \cup {"nfc"} [] OTHER -> {}]

SensorTakes ==
  [t \in {1, 2, 5, 6} \cup (8..18) \cup (22..29) |->
    CASE t = 10 -> 0..3 [] t \in 11..14 -> Whatever [] t \in 23..26 -> 0..255
      [] t \in 27..29 -> 0..3 [] OTHER -> Bit]
SensorShut == [t \in DOMAIN SensorTakes |-> {}]

AlarmTakes ==
  [t \in {1, 20, 21} |-> CASE t = 1 -> 0..3600 [] t = 20 -> 0..7 [] t = 21 -> Bit]
AlarmShut  == [t \in DOMAIN AlarmTakes |-> IF t = 21 THEN {"vendor"} ELSE {}]
SlotShut   == {"vendor"}
SlotTag(i) == 3 + i

BandLow  == 863000000
BandHigh == 870000000
P2PTakes ==
  [t \in 1..4 |->
    CASE t = 1 -> BandLow..BandHigh [] t = 2 -> 6..12 [] t = 3 -> 2..14 [] t = 4 -> Bit]
P2PShut  == [t \in DOMAIN P2PTakes |-> Air \cup {"nfc", "vendor"}]

Accepts == <<LorawanTakes, ApplicationTakes, SensorTakes, AlarmTakes, P2PTakes>>
Shut  == <<LorawanShut, ApplicationShut, SensorShut, AlarmShut, P2PShut>>

Fit(f, v)    == v \in Accepts[f[1]][f[2]]
Closed(f, tp) == tp \in Shut[f[1]][f[2]]

---------------------------------------------------------------------------
(* The rule slots.  A rule names a slot (0 is the motherboard), a sensor type *)
(* and, of the type's channel, its kind.                                     *)

MotherboardType == 1
NoneSlot == [on |-> FALSE, slot |-> 0, type |-> 0, kind |-> "none",
             lo |-> 0, hi |-> 0, dwell |-> 0, from |-> 0, to |-> 0]

\* rule_valid(): the target, and the shape its kind asks for.
ValidRule(r) ==
  /\ r.slot \in 0..4 /\ r.kind # "none"
  /\ r.slot = 0 <=> r.type = MotherboardType
  /\ r.kind = "threshold" => r.hi > r.lo /\ r.dwell \in 0..(r.hi - r.lo)
  /\ r.kind # "threshold" => r.dwell \in 0..3600
  /\ r.kind = "state" => r.from \in Bit /\ r.to \in Bit
  /\ r.kind = "rate" => r.hi >= 0

RuleTypeAt(cfg, slot) ==
  IF slot = 0 THEN MotherboardType
  ELSE IF <<3, 22 + slot>> \in Fields THEN cfg.fields[<<3, 22 + slot>>] ELSE 0

StaleIn(cfg, rules) == {i \in RuleSlots : rules[i].on /\ rules[i].type # RuleTypeAt(cfg, rules[i].slot)}

(* app_alarm_rules_reload_from_config(): a slot that holds no valid rule is      *)
(* emptied, and counted if it held one; a stale rule stays, and counts.          *)
Reload(cfg) ==
  LET kept == [i \in RuleSlots |->
                 IF cfg.slots[i].on /\ ValidRule(cfg.slots[i]) THEN cfg.slots[i] ELSE NoneSlot]
      bad  == {i \in RuleSlots : cfg.slots[i].on /\ ~ValidRule(cfg.slots[i])}
  IN  [cfg |-> [cfg EXCEPT !.slots = kept], rules |-> kept, bad |-> bad,
       faults |-> Cardinality(bad) + Cardinality(StaleIn(cfg, kept))]

---------------------------------------------------------------------------
(* A load: h_set(), then the clamps of h_commit(); an enumeration out of range  *)
(* falls back, a number goes to the nearer end, an array is taken as it is.      *)

Enumerations ==
  {<<1, 1>>, <<1, 3>>, <<1, 5>>, <<1, 15>>, <<1, 16>>, <<3, 10>>, <<4, 20>>, <<5, 4>>}
    \cup {<<3, t>> : t \in 27..29}
Booleans ==
  {<<1, 4>>, <<2, 1>>, <<2, 4>>, <<2, 7>>, <<4, 21>>} \cup {<<3, t>> : t \in {1, 2, 5, 6, 8, 9, 22} \cup (15..18)}
Arrays   == {<<1, t>> : t \in 6..12} \cup {<<2, 9>>} \cup {<<3, t>> : t \in 11..14}
TypeFields    == {<<3, t>> : t \in 23..26}

LowEnd(f) ==
  CASE f = <<1, 14>> -> 1 [] f = <<2, 2>> -> 5 [] f = <<2, 3>> -> 60 [] f = <<2, 6>> -> 1000
    [] f = <<2, 8>> -> 1 [] f = <<5, 1>> -> BandLow [] f = <<5, 2>> -> 6 [] f = <<5, 3>> -> 2 [] OTHER -> 0
HighEnd(f) ==
  CASE f = <<1, 2>> -> 8 [] f \in {<<1, 13>>, <<1, 14>>} -> 255 [] f = <<2, 3>> -> DaySeconds
    [] f \in {<<2, 2>>, <<2, 6>>, <<4, 1>>} -> 3600 [] f = <<2, 8>> -> 168
    [] f = <<5, 1>> -> BandHigh [] f = <<5, 2>> -> 12 [] f = <<5, 3>> -> 14
ZeroIsOff(f) == f \in {<<2, 2>>, <<2, 8>>}
\* Mutant: the bound below is forgotten.
ClampedAbove(f, v) ==
  IF f \in Booleans \cup Arrays \cup TypeFields THEN v
  ELSE IF f \in Enumerations THEN (IF v \in Accepts[f[1]][f[2]] THEN v ELSE 0)
  ELSE IF v > HighEnd(f) THEN HighEnd(f) ELSE v
Clamped(f, v) ==
  IF f \in Booleans \cup Arrays \cup TypeFields THEN v
  ELSE IF f \in Enumerations THEN (IF v \in Accepts[f[1]][f[2]] THEN v ELSE 0)
  ELSE IF v > HighEnd(f) THEN HighEnd(f)
  ELSE IF v < LowEnd(f) /\ ~(v = 0 /\ ZeroIsOff(f)) THEN LowEnd(f)
  ELSE v

AllFields == {f \in (1..5) \X (1..29) : f[2] \in DOMAIN Accepts[f[1]]}
RuleKinds == {"none", "threshold", "state", "rate"}
Rules ==
  [on : BOOLEAN, slot : Int, type : Int, kind : RuleKinds, lo : Int, hi : Int, dwell : Int,
   from : Int, to : Int]

\* A Boolean and a slot's type were saved from a variable of their own width.
ASSUME ParamAssumption ==
  /\ Fields \subseteq AllFields /\ RuleSlots \subseteq 0..15
  /\ \A b \in Batches :
       /\ b.replace \in BOOLEAN
       /\ DOMAIN b.writes \subseteq Fields /\ \A f \in DOMAIN b.writes : b.writes[f] \in Int
       /\ DOMAIN b.slots \subseteq RuleSlots /\ \A i \in DOMAIN b.slots : b.slots[i] \in Rules
  /\ ShellWrites \subseteq Fields \X Int
  /\ ShellRules \subseteq {r \in Rules : r.on}
  /\ \A cfg \in Stores :
       /\ cfg \in [fields : [Fields -> Int], slots : [RuleSlots -> Rules]]
       /\ \A f \in Fields \cap (Booleans \cup TypeFields) : Fit(f, cfg.fields[f])

Loads(cfg) == [cfg EXCEPT !.fields = [f \in Fields |-> Clamped(f, cfg.fields[f])]]

NothingPromised == [fields |-> <<>>, slots |-> <<>>, sure |-> TRUE]

NoVerdict == [kind |-> "none", fault |-> 0]
ModeOf(cfg) == IF <<1, 15>> \in Fields THEN cfg.fields[<<1, 15>>] ELSE 0

\* app_alarm_rules_init() decodes the rules of the configuration just loaded.
ParamInit ==
  /\ \E cfg \in Stores :
       LET r == Reload(Loads(cfg)) IN
       draft = r.cfg /\ decoded = r.rules /\ broken = r.bad /\ radioMode = ModeOf(r.cfg)
  /\ unsynced = FALSE /\ promised = NothingPromised /\ verdict = NoVerdict

\* A settings save, and the boot that follows it.
SaveAndBoot ==
  /\ LET r == Reload(Loads(draft)) IN
     draft' = r.cfg /\ decoded' = r.rules /\ broken' = r.bad /\ radioMode' = ModeOf(r.cfg)
  /\ unsynced' = FALSE /\ promised' = NothingPromised /\ verdict' = NoVerdict

---------------------------------------------------------------------------
(* SetParam                                                                 *)

Verdict(kind, fault) == [kind |-> kind, fault |-> fault]
Code(f)             == f[1] * 100 + f[2]

\* What the groups object to, by field; fault_at() keeps the first of the first group.
Objections(b) ==
  {Code(f) : f \in {g \in DOMAIN b.writes : Closed(g, b.tp) \/ ~Fit(g, b.writes[g])}}
    \cup (IF b.tp \in SlotShut THEN {Code(<<4, SlotTag(i)>>) : i \in DOMAIN b.slots} ELSE {})
\* A field closed to the transport is not also checked for its value.
ByTransport(b, code) ==
  \/ \E f \in DOMAIN b.writes : Code(f) = code /\ Closed(f, b.tp)
  \/ \E i \in DOMAIN b.slots : Code(<<4, SlotTag(i)>>) = code

Has(b, g)    == (\E f \in DOMAIN b.writes : f[1] = g) \/ (g = 4 /\ DOMAIN b.slots # {})
Applied(b)   ==
  [fields |-> [f \in Fields |-> IF f \in DOMAIN b.writes THEN b.writes[f] ELSE draft.fields[f]],
   slots  |-> [i \in RuleSlots |-> IF i \in DOMAIN b.slots THEN b.slots[i]
                                   ELSE IF b.replace THEN NoneSlot ELSE draft.slots[i]]]

\* The batch is rolled back; the rules are decoded again if it was to clear them.
\* Mutant: they are not, and the cache stays empty.
TakenBackOnly(b) ==
  /\ decoded' = IF b.replace THEN [i \in RuleSlots |-> NoneSlot] ELSE decoded
  /\ UNCHANGED <<draft, broken>>
TakenBack(b) ==
  LET r == Reload(draft) IN
  IF b.replace THEN draft' = r.cfg /\ decoded' = r.rules /\ broken' = r.bad
  ELSE UNCHANGED <<draft, decoded, broken>>

\* The vendor channel may not replace the rules.
NoReplace(b) == b.replace /\ b.tp = "vendor"
Refuse(b) ==
  /\ \/ NoReplace(b) /\ verdict' = Verdict("not_writable", 400)
     \/ /\ ~NoReplace(b) /\ Objections(b) # {}
        /\ LET first == Min(Objections(b)) IN
           verdict' = Verdict(IF ByTransport(b, first) THEN "not_writable" ELSE "out_of_range", first)
  /\ TakenBack(b)
  /\ UNCHANGED <<radioMode, unsynced, promised>>

Acked(b, sure) ==
  [fields |-> b.writes, sure |-> sure,
   slots  |-> [i \in DOMAIN b.slots |-> IF b.slots[i].on THEN b.slots[i] ELSE NoneSlot]]

\* The reload counts the stale and the invalid rules: more than were stale before
\* refuses the batch.
Accept(b) ==
  LET before  == StaleIn(draft, decoded)
      checked == Has(b, 3) \/ Has(b, 4) \/ b.replace
      new     == Reload(Applied(b))
      old     == Reload(draft)
      guilty  == new.bad \cup (StaleIn(new.cfg, new.rules) \ before)
  IN  /\ ~NoReplace(b) /\ Objections(b) = {}
      /\ IF checked /\ new.faults > Cardinality(before)
         THEN /\ verdict' = Verdict("out_of_range",
                                 400 + (IF guilty = {} THEN 0 ELSE SlotTag(Min(guilty))))
              /\ draft' = old.cfg /\ decoded' = old.rules /\ broken' = old.bad
              /\ UNCHANGED <<unsynced, promised>>
         ELSE /\ verdict' = Verdict("ack", 0)
              /\ IF checked
                 THEN draft' = new.cfg /\ decoded' = new.rules /\ broken' = new.bad
                 ELSE draft' = Applied(b) /\ UNCHANGED <<decoded, broken>>
              /\ unsynced' = (unsynced \/ Has(b, 1))
              /\ promised' = Acked(b, before = {})
      /\ UNCHANGED radioMode

StageBatch(b) == Refuse(b) \/ Accept(b)

---------------------------------------------------------------------------
(* The shell: one field at a time, with the message's range and no transport    *)
(* closed; the rules are not decoded again.  An enrolment stages a slot's type   *)
(* in the same way.                                                            *)

Withdraws(f) == promised' = [promised EXCEPT !.fields = Restrict(@, DOMAIN @ \ {f})]
Writes(g, f, v) ==
  /\ f[1] = g /\ Fit(f, v)
  /\ draft' = [draft EXCEPT !.fields[f] = v]
  /\ Withdraws(f)
  /\ UNCHANGED <<radioMode, decoded, broken, unsynced>> /\ verdict' = NoVerdict

ShellLorawan(f, v)     == Writes(1, f, v)
ShellApplication(f, v) == Writes(2, f, v)
ShellSensors(f, v)     == f \notin TypeFields /\ Writes(3, f, v)
ShellTypes(f, v)       == f \in TypeFields /\ Writes(3, f, v)
ShellAlarms(f, v)      == Writes(4, f, v)
ShellP2P(f, v)         == Writes(5, f, v)

DropsSlots(s) == promised' = [promised EXCEPT !.slots = Restrict(@, DOMAIN @ \ s)]
\* app_alarm_rules_set(): only a valid rule, in the slot and in the cache.
ShellRule(i, r) ==
  /\ ValidRule(r)
  /\ draft' = [draft EXCEPT !.slots[i] = r] /\ decoded' = [decoded EXCEPT ![i] = r]
  /\ DropsSlots({i}) /\ UNCHANGED <<radioMode, broken, unsynced>> /\ verdict' = NoVerdict
\* app_alarm_rules_clear() and _clear_all().
ShellClear(s) ==
  /\ draft' = [draft EXCEPT !.slots = [i \in RuleSlots |-> IF i \in s THEN NoneSlot ELSE @[i]]]
  /\ decoded' = [i \in RuleSlots |-> IF i \in s THEN NoneSlot ELSE decoded[i]]
  /\ DropsSlots(s) /\ UNCHANGED <<radioMode, broken, unsynced>> /\ verdict' = NoVerdict

ParamNext ==
  \/ SaveAndBoot
  \/ \E b \in Batches : StageBatch(b)
  \/ \E w \in ShellWrites :
       \/ ShellLorawan(w[1], w[2]) \/ ShellApplication(w[1], w[2]) \/ ShellSensors(w[1], w[2])
       \/ ShellTypes(w[1], w[2]) \/ ShellAlarms(w[1], w[2]) \/ ShellP2P(w[1], w[2])
  \/ \E i \in RuleSlots : ShellClear({i}) \/ \E r \in ShellRules : ShellRule(i, r)
  \/ ShellClear(RuleSlots)
ParamSpec == ParamInit /\ [][ParamNext]_paramVars

---------------------------------------------------------------------------
(* The dumps: what GetParam returns of the fields asked for, and GetConfig of    *)
(* all; CommandPages lays them out in pages.                                    *)

NfcOnly  == {<<1, t>> : t \in {8, 9, 11, 12}}  \* the keys
LrwSkips == {<<3, t>> : t \in 11..14}          \* the probes' ROMs

FillLorawan(ids)     == ids \cap (1..16)
FillApplication(ids) == ids \cap {1, 2, 3, 4, 6, 7, 8, 9}
FillSensors(ids)     == ids \cap ({1, 2, 5, 6} \cup (8..18) \cup (22..29))
SlotEmpty(t)         == \E i \in RuleSlots : t = SlotTag(i) /\ draft.slots[i] = NoneSlot
FillAlarms(ids)      == {t \in ids \cap ({1, 20, 21} \cup (3..18)) : ~SlotEmpty(t)}
FillP2P(ids)         == ids \cap (1..4)
Fill(g, ids) ==
  CASE g = 1 -> FillLorawan(ids) [] g = 2 -> FillApplication(ids) [] g = 3 -> FillSensors(ids)
    [] g = 4 -> FillAlarms(ids) [] g = 5 -> FillP2P(ids)

GetParam(tp, f)  == f \notin NfcOnly \/ tp = "nfc"
GetConfig(tp, f) ==
  /\ GetParam(tp, f)
  /\ tp \in Air => f \notin LrwSkips /\ (f[1] = 5 => radioMode = 2)
\* A field an answer carries.
Told(how(_, _), tp, f) == how(tp, f) /\ f[2] \in Fill(f[1], {f[2]})

---------------------------------------------------------------------------
(* Properties                                                               *)

ParamType ==
  /\ \A f \in Fields : Fit(f, draft.fields[f])
  /\ broken \subseteq RuleSlots

\* The decoded rules are the staged slots at every moment, whatever was refused,
\* taken back or cleared on the way (app_alarm_rules.c, and the two roll-backs of SetParam).
CacheIsTheSlots == decoded = draft.slots /\ \A i \in RuleSlots : decoded[i].on => ValidRule(decoded[i])

\* What an ACK confirmed is staged and read back, by a dump over NFC and by a
\* request over the air for what is not secret, as long as no rule was stale then;
\* and a staged link parameter keeps the link from joining with the old one.
AckedIsRead ==
  promised.sure =>
    /\ \A f \in DOMAIN promised.fields :
         /\ draft.fields[f] = promised.fields[f]
         /\ Told(GetConfig, "nfc", f) /\ (f \notin NfcOnly => Told(GetParam, "lrw", f))
         /\ f[1] = 1 => unsynced
    /\ \A i \in DOMAIN promised.slots :
         /\ draft.slots[i] = promised.slots[i]
         /\ promised.slots[i].on <=> Told(GetConfig, "lrw", <<4, SlotTag(i)>>)

ParamInv == ParamType /\ CacheIsTheSlots /\ AckedIsRead

\* A refused batch leaves the configuration, the rules and the promises as they were,
\* and names the first field the transport or the range excludes or, when there is none,
\* a rule that the batch sends broken or that its types make stale.
RefusedChangesNothing ==
  [][verdict' \notin {verdict, NoVerdict} /\ verdict'.kind # "ack" =>
       /\ UNCHANGED <<draft, decoded, unsynced, promised>>
       /\ \A b \in Batches : StageBatch(b) =>
            \/ NoReplace(b) /\ verdict'.fault = 400
            \/ \E f \in DOMAIN b.writes : Code(f) = verdict'.fault
            \/ \E i \in RuleSlots :
                 /\ verdict'.fault = 400 + SlotTag(i)
                 /\ \/ i \in DOMAIN b.slots
                    \/ decoded[i].on /\ ~b.replace /\ DOMAIN b.writes \cap TypeFields # {}]_paramVars

\* "surface that as a fault instead of a misleading ACK for a rule that was silently
\* dropped" (app_cmd.c:551-552): whatever was stale before, an acknowledged rule is staged.
AckedIsStored == \A i \in DOMAIN promised.slots : draft.slots[i] = promised.slots[i]
=============================================================================
