--------------------------- MODULE Device_proofs ---------------------------
(***************************************************************************)
(* Proofs about the parts of the unit that no other runs beside: the       *)
(* parameters a SetParam stages, for every field of every group, every     *)
(* value, every rule and every batch; and the alarm engine, for every set  *)
(* of rules, of readings, of 1-Wire slots and of device types.             *)
(***************************************************************************)
EXTENDS ParamBatch, AlarmEval, FiniteSetTheorems, SequenceTheorems, WellFoundedInduction, TLAPS

-----------------------------------------------------------------------------
(* The clamps of a load against the values a SetParam takes                  *)

LEMMA LorawanFits ==
  ASSUME NEW t \in DOMAIN LorawanTakes, NEW v \in Int,
         t = 4 => v \in Bit
  PROVE  Fit(<<1, t>>, Clamped(<<1, t>>, v))
<1> DEFINE f == <<1, t>>
<1>1. t \in 1..16 /\ f[1] = 1 /\ f[2] = t
  BY DEF LorawanTakes
<1>2. \A w : Fit(f, w) <=> w \in LorawanTakes[t]
  BY <1>1 DEF Fit, Accepts
<1>3. /\ f \in Arrays <=> t \in 6..12
      /\ f \in Booleans <=> t = 4
      /\ f \notin TypeFields
      /\ f \in Enumerations <=> t \in {1, 3, 5, 15, 16}
  BY <1>1 DEF Arrays, Booleans, TypeFields, Enumerations
<1>4. /\ t = 2 => HighEnd(f) = 8 /\ LowEnd(f) = 0
      /\ t = 13 => HighEnd(f) = 255 /\ LowEnd(f) = 0
      /\ t = 14 => HighEnd(f) = 255 /\ LowEnd(f) = 1
  BY DEF HighEnd, LowEnd
<1>5. /\ LorawanTakes[1] = 0..3 /\ LorawanTakes[2] = 0..8
      /\ \A s \in {3, 4, 5} : LorawanTakes[s] = 0..1
      /\ \A s \in 6..12 : LorawanTakes[s] = Int
      /\ LorawanTakes[13] = 0..255 /\ LorawanTakes[14] = 1..255
      /\ LorawanTakes[15] = 0..2 /\ LorawanTakes[16] = 0..8
  BY DEF LorawanTakes, Whatever, Bit
<1>6. ~ZeroIsOff(f)
  BY DEF ZeroIsOff
<1>7. Accepts[f[1]][f[2]] = LorawanTakes[t]
  BY <1>1 DEF Accepts
<1> HIDE DEF f
<1>8. Clamped(f, v) \in LorawanTakes[t]
  <2>1. CASE t \in 6..12
    BY <1>3, <1>5, <2>1 DEF Clamped
  <2>2. CASE t = 4
    BY <1>3, <1>5, <2>2 DEF Clamped, Bit
  <2>3. CASE t \in {1, 3, 5, 15, 16}
    BY <1>3, <1>5, <1>7, <2>3 DEF Clamped
  <2>4. CASE t \in {2, 13, 14}
    BY <1>3, <1>4, <1>5, <1>6, <2>4 DEF Clamped
  <2> QED BY <1>1, <2>1, <2>2, <2>3, <2>4
<1> QED BY <1>2, <1>8 DEF f

LEMMA DayIs == DaySeconds \in Int /\ DaySeconds > 60
BY SMT DEF DaySeconds

LEMMA ApplicationFits ==
  ASSUME NEW t \in DOMAIN ApplicationTakes, NEW v \in Int,
         t \in {1, 4, 7} => v \in Bit
  PROVE  Fit(<<2, t>>, Clamped(<<2, t>>, v))
<1> DEFINE f == <<2, t>>
<1>1. t \in (1..9) \ {5} /\ f[1] = 2 /\ f[2] = t
  BY DEF ApplicationTakes
<1>2. \A w : Fit(f, w) <=> w \in ApplicationTakes[t]
  BY <1>1 DEF Fit, Accepts
<1>3. /\ f \in Arrays <=> t = 9
      /\ f \in Booleans <=> t \in {1, 4, 7}
      /\ f \notin TypeFields
      /\ f \notin Enumerations
  BY <1>1 DEF Arrays, Booleans, TypeFields, Enumerations
<1>4. /\ t = 2 => HighEnd(f) = 3600 /\ LowEnd(f) = 5
      /\ ZeroIsOff(f) <=> t \in {2, 8}
      /\ t = 3 => HighEnd(f) = DaySeconds /\ LowEnd(f) = 60
      /\ t = 6 => HighEnd(f) = 3600 /\ LowEnd(f) = 1000
      /\ t = 8 => HighEnd(f) = 168 /\ LowEnd(f) = 1
  BY DEF HighEnd, LowEnd, ZeroIsOff
<1>5. /\ ApplicationTakes[2] = {0} \cup (5..3600) /\ ApplicationTakes[3] = 60..DaySeconds
      /\ \A s \in {1, 4, 7} : ApplicationTakes[s] = 0..1
      /\ ApplicationTakes[6] = 1000..3600 /\ ApplicationTakes[8] = 0..168
      /\ ApplicationTakes[9] = Int
  BY DEF ApplicationTakes, Whatever, Bit
<1> HIDE DEF f
<1>6. Clamped(f, v) \in ApplicationTakes[t]
  <2>1. CASE t = 9
    BY <1>3, <1>5, <2>1 DEF Clamped
  <2>2. CASE t \in {1, 4, 7}
    BY <1>3, <1>5, <2>2 DEF Clamped, Bit
  <2>3. CASE t = 2
    <3>1. Clamped(f, v) = IF v > 3600 THEN 3600 ELSE IF v < 5 /\ v # 0 THEN 5 ELSE v
      BY <1>3, <1>4, <2>3 DEF Clamped
    <3>2. Clamped(f, v) \in {0} \cup (5..3600)
      BY <3>1
    <3> QED BY <1>5, <2>3, <3>2
  <2>4. CASE t = 8
    <3>1. Clamped(f, v) = IF v > 168 THEN 168 ELSE IF v < 1 /\ v # 0 THEN 1 ELSE v
      BY <1>3, <1>4, <2>4 DEF Clamped
    <3>2. Clamped(f, v) \in 0..168
      BY <3>1
    <3> QED BY <1>5, <2>4, <3>2
  <2>5. CASE t \in {3, 6}
    <3>1. Clamped(f, v) = IF v > HighEnd(f) THEN HighEnd(f) ELSE IF v < LowEnd(f) THEN LowEnd(f)
                          ELSE v
      BY <1>3, <1>4, <2>5 DEF Clamped
    <3>2. CASE t = 3
      BY <1>4, <1>5, <3>1, <3>2, DayIs
    <3>3. CASE t = 6
      <4>1. Clamped(f, v) \in 1000..3600
        BY <1>4, <3>1, <3>3
      <4> QED BY <1>5, <3>3, <4>1
    <3> QED BY <2>5, <3>2, <3>3
  <2> QED BY <1>1, <2>1, <2>2, <2>3, <2>4, <2>5
<1> QED BY <1>2, <1>6 DEF f

LEMMA SensorFits ==
  ASSUME NEW t \in DOMAIN SensorTakes, NEW v \in Int,
         t \in {1, 2, 5, 6, 8, 9, 22} \cup (15..18) => v \in Bit, t \in 23..26 => v \in 0..255
  PROVE  Fit(<<3, t>>, Clamped(<<3, t>>, v))
<1> DEFINE f == <<3, t>>
<1>1. t \in {1, 2, 5, 6} \cup (8..18) \cup (22..29) /\ f[1] = 3 /\ f[2] = t
  BY DEF SensorTakes
<1>2. \A w : Fit(f, w) <=> w \in SensorTakes[t]
  BY <1>1 DEF Fit, Accepts
<1>3. /\ f \in Arrays <=> t \in 11..14
      /\ f \in Booleans <=> t \in {1, 2, 5, 6, 8, 9, 22} \cup (15..18)
      /\ f \in TypeFields <=> t \in 23..26
      /\ f \in Enumerations <=> t = 10 \/ t \in 27..29
  BY <1>1 DEF Arrays, Booleans, TypeFields, Enumerations
<1>4. /\ \A s \in 11..14 : SensorTakes[s] = Int
      /\ \A s \in 23..26 : SensorTakes[s] = 0..255
      /\ \A s \in {1, 2, 5, 6, 8, 9, 22} \cup (15..18) : SensorTakes[s] = 0..1
      /\ \A s \in {10} \cup (27..29) : SensorTakes[s] = 0..3
  BY DEF SensorTakes, Whatever, Bit
<1>5. Accepts[f[1]][f[2]] = SensorTakes[t]
  BY <1>1 DEF Accepts
<1> HIDE DEF f
<1>6. Clamped(f, v) \in SensorTakes[t]
  <2>1. CASE t \in 11..14
    BY <1>3, <1>4, <2>1 DEF Clamped
  <2>2. CASE t \in {1, 2, 5, 6, 8, 9, 22} \cup (15..18)
    BY <1>3, <1>4, <2>2 DEF Clamped, Bit
  <2>3. CASE t \in 23..26
    BY <1>3, <1>4, <2>3 DEF Clamped
  <2>4. CASE t \in {10} \cup (27..29)
    BY <1>3, <1>4, <1>5, <2>4 DEF Clamped
  <2>5. t \in 11..14 \/ t \in {1, 2, 5, 6, 8, 9, 22} \cup (15..18) \/ t \in 23..26
        \/ t \in {10} \cup (27..29)
    BY <1>1
  <2> QED BY <2>1, <2>2, <2>3, <2>4, <2>5
<1> QED BY <1>2, <1>6 DEF f

LEMMA AlarmFits ==
  ASSUME NEW t \in DOMAIN AlarmTakes, NEW v \in Int, t = 21 => v \in Bit
  PROVE  Fit(<<4, t>>, Clamped(<<4, t>>, v))
<1> DEFINE f == <<4, t>>
<1>1. t \in {1, 20, 21} /\ f[1] = 4 /\ f[2] = t
  BY DEF AlarmTakes
<1>2. \A w : Fit(f, w) <=> w \in AlarmTakes[t]
  BY <1>1 DEF Fit, Accepts
<1>3. /\ f \notin Arrays /\ f \notin TypeFields
      /\ f \in Booleans <=> t = 21
      /\ f \in Enumerations <=> t = 20
  BY <1>1 DEF Arrays, Booleans, TypeFields, Enumerations
<1>4. t = 1 => HighEnd(f) = 3600 /\ LowEnd(f) = 0
  BY DEF HighEnd, LowEnd
<1>5. AlarmTakes[1] = 0..3600 /\ AlarmTakes[20] = 0..7 /\ AlarmTakes[21] = 0..1
  BY DEF AlarmTakes, Bit
<1>6. Accepts[f[1]][f[2]] = AlarmTakes[t] /\ ~ZeroIsOff(f)
  BY <1>1 DEF Accepts, ZeroIsOff
<1> HIDE DEF f
<1>7. Clamped(f, v) \in AlarmTakes[t]
  <2>1. CASE t = 1
    <3>1. Clamped(f, v) = IF v > 3600 THEN 3600 ELSE IF v < 0 THEN 0 ELSE v
      BY <1>3, <1>4, <1>6, <2>1 DEF Clamped
    <3>2. Clamped(f, v) \in 0..3600
      BY <3>1
    <3> QED BY <1>5, <2>1, <3>2
  <2>2. CASE t = 20
    BY <1>3, <1>5, <1>6, <2>2 DEF Clamped
  <2>3. CASE t = 21
    BY <1>3, <1>5, <2>3 DEF Clamped, Bit
  <2> QED BY <1>1, <2>1, <2>2, <2>3
<1> QED BY <1>2, <1>7 DEF f

LEMMA BandIs == BandLow \in Int /\ BandHigh \in Int /\ BandLow < BandHigh
BY SMT DEF BandLow, BandHigh

LEMMA P2PFits ==
  ASSUME NEW t \in DOMAIN P2PTakes, NEW v \in Int
  PROVE  Fit(<<5, t>>, Clamped(<<5, t>>, v))
<1> DEFINE f == <<5, t>>
<1>1. t \in 1..4 /\ f[1] = 5 /\ f[2] = t
  BY DEF P2PTakes
<1>2. \A w : Fit(f, w) <=> w \in P2PTakes[t]
  BY <1>1 DEF Fit, Accepts
<1>3. /\ f \notin Arrays /\ f \notin TypeFields /\ f \notin Booleans
      /\ f \in Enumerations <=> t = 4
  BY <1>1 DEF Arrays, Booleans, TypeFields, Enumerations
<1>4. /\ t = 1 => HighEnd(f) = BandHigh /\ LowEnd(f) = BandLow
      /\ t = 2 => HighEnd(f) = 12 /\ LowEnd(f) = 6
      /\ t = 3 => HighEnd(f) = 14 /\ LowEnd(f) = 2
  BY DEF HighEnd, LowEnd
<1>5. /\ P2PTakes[1] = BandLow..BandHigh /\ P2PTakes[2] = 6..12
      /\ P2PTakes[3] = 2..14 /\ P2PTakes[4] = 0..1
  BY DEF P2PTakes, Bit
<1>6. Accepts[f[1]][f[2]] = P2PTakes[t] /\ ~ZeroIsOff(f)
  BY <1>1 DEF Accepts, ZeroIsOff
<1> HIDE DEF f
<1>7. Clamped(f, v) \in P2PTakes[t]
  <2>1. CASE t = 4
    BY <1>3, <1>5, <1>6, <2>1 DEF Clamped
  <2>2. CASE t \in {1, 2, 3}
    BY <1>3, <1>4, <1>5, <1>6, <2>2, BandIs DEF Clamped
  <2> QED BY <1>1, <2>1, <2>2
<1> QED BY <1>2, <1>7 DEF f

\* A field is a pair of a group and one of its tags.
LEMMA FieldIs ==
  ASSUME NEW f \in Fields
  PROVE  \E g \in 1..5, t \in 1..29 : f = <<g, t>> /\ t \in DOMAIN Accepts[g]
<1>1. f \in (1..5) \X (1..29) /\ f[2] \in DOMAIN Accepts[f[1]]
  BY ParamAssumption DEF AllFields
<1>2. PICK g \in 1..5, t \in 1..29 : f = <<g, t>>
  BY <1>1
<1>3. f[1] = g /\ f[2] = t
  BY <1>2
<1> QED BY <1>1, <1>2, <1>3

\* What a load takes from the flash is in the range of the message that sets it: every
\* clamp of h_commit() has the bounds of its apply function.
LEMMA ClampFits ==
  ASSUME NEW f \in Fields, NEW v \in Int, f \in Booleans \cup TypeFields => Fit(f, v)
  PROVE  Fit(f, Clamped(f, v))
<1>1. PICK g \in 1..5, t \in 1..29 : f = <<g, t>> /\ t \in DOMAIN Accepts[g]
  BY FieldIs
<1>2. /\ Accepts[1] = LorawanTakes /\ Accepts[2] = ApplicationTakes /\ Accepts[3] = SensorTakes
      /\ Accepts[4] = AlarmTakes /\ Accepts[5] = P2PTakes
  BY DEF Accepts
<1>3. f \in Booleans \cup TypeFields => v \in Accepts[g][t]
  <2>1. f[1] = g /\ f[2] = t
    BY <1>1
  <2> QED BY <2>1 DEF Fit
<1>4. CASE g = 1
  <2>1. t = 4 => v \in Bit
    BY <1>1, <1>2, <1>3, <1>4 DEF LorawanTakes, Booleans
  <2> QED BY <1>1, <1>2, <1>4, <2>1, LorawanFits
<1>5. CASE g = 2
  <2>1. t \in {1, 4, 7} => v \in Bit
    BY <1>1, <1>2, <1>3, <1>5 DEF ApplicationTakes, Booleans
  <2> QED BY <1>1, <1>2, <1>5, <2>1, ApplicationFits
<1>6. CASE g = 3
  <2>1. t \in {1, 2, 5, 6, 8, 9, 22} \cup (15..18) => v \in Bit
    <3>1. ASSUME t \in {1, 2, 5, 6, 8, 9, 22} \cup (15..18) PROVE v \in Bit
      <4>1. f \in Booleans
        BY <1>1, <1>6, <3>1 DEF Booleans
      <4>2. SensorTakes[t] = Bit
        BY <3>1 DEF SensorTakes
      <4> QED BY <1>2, <1>3, <1>6, <4>1, <4>2
    <3> QED BY <3>1
  <2>2. t \in 23..26 => v \in 0..255
    <3>1. t \in 23..26 => f \in TypeFields /\ SensorTakes[t] = 0..255
      BY <1>1, <1>6 DEF TypeFields, SensorTakes
    <3> QED BY <1>2, <1>3, <1>6, <3>1
  <2> QED BY <1>1, <1>2, <1>6, <2>1, <2>2, SensorFits
<1>7. CASE g = 4
  <2>1. t = 21 => v \in Bit
    BY <1>1, <1>2, <1>3, <1>7 DEF AlarmTakes, Booleans
  <2> QED BY <1>1, <1>2, <1>7, <2>1, AlarmFits
<1>8. CASE g = 5
  BY <1>1, <1>2, <1>8, P2PFits
<1> QED BY <1>4, <1>5, <1>6, <1>7, <1>8
-----------------------------------------------------------------------------
(* The rules and their reload *)

Config == [fields : [Fields -> Int], slots : [RuleSlots -> Rules]]
SlotClean(r) == r = NoneSlot \/ (r.on /\ ValidRule(r))
SlotsClean(cfg) == \A i \in RuleSlots : SlotClean(cfg.slots[i])

LEMMA NoneIsRule == NoneSlot \in Rules /\ NoneSlot.on = FALSE
BY DEF NoneSlot, Rules, RuleKinds

LEMMA SlotsAreFinite ==
  /\ RuleSlots \subseteq Nat /\ IsFiniteSet(RuleSlots)
  /\ \A S \in SUBSET RuleSlots : IsFiniteSet(S) /\ Cardinality(S) \in Nat
<1>1. IsFiniteSet(0..15)
  BY 0 \in Int, 15 \in Int, FS_Interval, Zenon
<1>2. RuleSlots \subseteq 0..15
  BY ParamAssumption
<1>3. IsFiniteSet(RuleSlots)
  BY <1>1, <1>2, FS_Subset
<1>4. RuleSlots \subseteq Nat
  BY <1>2
<1> QED BY <1>3, <1>4, FS_Subset, FS_CardinalityType

\* A reload keeps the fields, and of the slots the rules that are valid; the cache is what
\* it kept.
LEMMA ReloadIs ==
  ASSUME NEW cfg \in Config
  PROVE  /\ Reload(cfg).cfg \in Config /\ Reload(cfg).cfg.fields = cfg.fields
         /\ Reload(cfg).rules = Reload(cfg).cfg.slots /\ SlotsClean(Reload(cfg).cfg)
         /\ Reload(cfg).rules \in [RuleSlots -> Rules]
         /\ \A i \in RuleSlots :
              Reload(cfg).rules[i] = IF cfg.slots[i].on /\ ValidRule(cfg.slots[i])
                                       THEN cfg.slots[i] ELSE NoneSlot
         /\ Reload(cfg).bad = {i \in RuleSlots : cfg.slots[i].on /\ ~ValidRule(cfg.slots[i])}
         /\ Reload(cfg).faults =
              Cardinality(Reload(cfg).bad)
                + Cardinality(StaleIn(Reload(cfg).cfg, Reload(cfg).rules))
<1> DEFINE kept == [i \in RuleSlots |->
                      IF cfg.slots[i].on /\ ValidRule(cfg.slots[i]) THEN cfg.slots[i] ELSE NoneSlot]
           bad == {i \in RuleSlots : cfg.slots[i].on /\ ~ValidRule(cfg.slots[i])}
           new == [cfg EXCEPT !.slots = kept]
<1>1. /\ Reload(cfg).cfg = new /\ Reload(cfg).rules = kept /\ Reload(cfg).bad = bad
      /\ Reload(cfg).faults = Cardinality(bad) + Cardinality(StaleIn(cfg, kept))
  BY DEF Reload
<1>2. kept \in [RuleSlots -> Rules]
  BY NoneIsRule DEF Config
<1>4. \A i \in RuleSlots : kept[i] = IF cfg.slots[i].on /\ ValidRule(cfg.slots[i])
                                       THEN cfg.slots[i] ELSE NoneSlot
  OBVIOUS
<1> HIDE DEF kept, bad
<1>3. \A i \in RuleSlots : SlotClean(kept[i])
  BY <1>4 DEF SlotClean
<1>5. new \in Config /\ new.fields = cfg.fields /\ new.slots = kept
  BY <1>2 DEF Config
<1> HIDE DEF new
<1>6. StaleIn(cfg, kept) = StaleIn(new, kept)
  BY <1>5 DEF StaleIn, RuleTypeAt
<1> QED BY <1>1, <1>2, <1>3, <1>4, <1>5, <1>6 DEF SlotsClean, bad

\* A configuration whose slots are clean is reloaded as it is.
LEMMA ReloadStays ==
  ASSUME NEW cfg \in Config, SlotsClean(cfg)
  PROVE  Reload(cfg).cfg = cfg /\ Reload(cfg).rules = cfg.slots /\ Reload(cfg).bad = {}
<1>1. \A i \in RuleSlots : Reload(cfg).rules[i] = cfg.slots[i]
  BY ReloadIs, NoneIsRule DEF SlotsClean, SlotClean
<1>2. Reload(cfg).rules = cfg.slots
  BY <1>1, ReloadIs DEF Config
<1>3. Reload(cfg).cfg = cfg
  BY <1>2, ReloadIs DEF Config
<1>4. Reload(cfg).bad = {}
  BY ReloadIs, NoneIsRule DEF SlotsClean, SlotClean
<1> QED BY <1>2, <1>3, <1>4

\* A clean slot is empty exactly when nothing is on in it.
LEMMA CleanIsOn ==
  ASSUME NEW cfg \in Config, SlotsClean(cfg), NEW i \in RuleSlots
  PROVE  cfg.slots[i] = NoneSlot <=> ~cfg.slots[i].on
BY NoneIsRule DEF SlotsClean, SlotClean

-----------------------------------------------------------------------------
(* What a batch stages *)

LEMMA BatchIs ==
  ASSUME NEW b \in Batches
  PROVE  /\ DOMAIN b.writes \subseteq Fields /\ \A f \in DOMAIN b.writes : b.writes[f] \in Int
         /\ DOMAIN b.slots \subseteq RuleSlots /\ \A i \in DOMAIN b.slots : b.slots[i] \in Rules
BY ParamAssumption

LEMMA AppliedIs ==
  ASSUME draft \in Config, NEW b \in Batches
  PROVE  /\ Applied(b) \in Config
         /\ \A f \in Fields : Applied(b).fields[f] =
              IF f \in DOMAIN b.writes THEN b.writes[f] ELSE draft.fields[f]
         /\ \A i \in RuleSlots : Applied(b).slots[i] =
              IF i \in DOMAIN b.slots THEN b.slots[i]
              ELSE IF b.replace THEN NoneSlot ELSE draft.slots[i]
         /\ DOMAIN b.slots = {} /\ ~b.replace => Applied(b).slots = draft.slots
<1> DEFINE w == [f \in Fields |-> IF f \in DOMAIN b.writes THEN b.writes[f] ELSE draft.fields[f]]
           s == [i \in RuleSlots |-> IF i \in DOMAIN b.slots THEN b.slots[i]
                                     ELSE IF b.replace THEN NoneSlot ELSE draft.slots[i]]
<1>1. w \in [Fields -> Int]
  BY BatchIs DEF Config
<1>2. s \in [RuleSlots -> Rules]
  BY BatchIs, NoneIsRule DEF Config
<1>3. Applied(b).fields = w /\ Applied(b).slots = s /\ Applied(b) = [fields |-> w, slots |-> s]
  BY DEF Applied
<1>4. DOMAIN b.slots = {} /\ ~b.replace => s = draft.slots
  BY DEF Config
<1>5. Applied(b) \in Config
  <2> HIDE DEF w, s
  <2> QED BY <1>1, <1>2, <1>3 DEF Config
<1> QED BY <1>3, <1>4, <1>5

\* Nothing to object to, so every value is in the range of its field.
LEMMA NoObjection ==
  ASSUME NEW b, Objections(b) = {}
  PROVE  \A f \in DOMAIN b.writes : Fit(f, b.writes[f])
<1> SUFFICES ASSUME NEW f \in DOMAIN b.writes, ~Fit(f, b.writes[f]) PROVE FALSE
  OBVIOUS
<1>1. Code(f) \in Objections(b)
  BY DEF Objections
<1> QED BY <1>1

-----------------------------------------------------------------------------
(* What a dump tells *)

LEMMA FillIs ==
  ASSUME NEW ids
  PROVE  /\ Fill(1, ids) = FillLorawan(ids) /\ Fill(2, ids) = FillApplication(ids)
         /\ Fill(3, ids) = FillSensors(ids) /\ Fill(4, ids) = FillAlarms(ids)
         /\ Fill(5, ids) = FillP2P(ids)
BY DEF Fill

\* Every field of every group is one the dumps fill in.
LEMMA FieldIsFilled ==
  ASSUME NEW f \in Fields
  PROVE  f[2] \in Fill(f[1], {f[2]})
<1>1. PICK g \in 1..5, t \in 1..29 : f = <<g, t>> /\ t \in DOMAIN Accepts[g]
  BY FieldIs
<1>2. f[1] = g /\ f[2] = t
  BY <1>1
<1>3. /\ Accepts[1] = LorawanTakes /\ Accepts[2] = ApplicationTakes /\ Accepts[3] = SensorTakes
      /\ Accepts[4] = AlarmTakes /\ Accepts[5] = P2PTakes
  BY DEF Accepts
<1>4. CASE g = 1
  <2>1. t \in 1..16
    BY <1>1, <1>3, <1>4 DEF LorawanTakes
  <2>2. t \in FillLorawan({t})
    BY <2>1 DEF FillLorawan
  <2> QED BY <1>2, <1>4, <2>2, FillIs
<1>5. CASE g = 2
  <2>1. t \in (1..9) \ {5}
    BY <1>1, <1>3, <1>5 DEF ApplicationTakes
  <2>2. t \in {1, 2, 3, 4, 6, 7, 8, 9}
    BY <2>1
  <2>3. t \in FillApplication({t})
    BY <2>2 DEF FillApplication
  <2> QED BY <1>2, <1>5, <2>3, FillIs
<1>6. CASE g = 3
  <2>1. t \in {1, 2, 5, 6} \cup (8..18) \cup (22..29)
    BY <1>1, <1>3, <1>6 DEF SensorTakes
  <2>2. t \in FillSensors({t})
    BY <2>1 DEF FillSensors
  <2> QED BY <1>2, <1>6, <2>2, FillIs
<1>7. CASE g = 4
  <2>1. t \in {1, 20, 21}
    BY <1>1, <1>3, <1>7 DEF AlarmTakes
  <2>2. \A i \in RuleSlots : t # SlotTag(i)
    <3>1. \A i \in RuleSlots : SlotTag(i) \in 3..18
      BY ParamAssumption DEF SlotTag
    <3> QED BY <2>1, <3>1
  <2>3. t \in FillAlarms({t})
    BY <2>1, <2>2 DEF FillAlarms, SlotEmpty
  <2> QED BY <1>2, <1>7, <2>3, FillIs
<1>8. CASE g = 5
  <2>1. t \in 1..4
    BY <1>1, <1>3, <1>8 DEF P2PTakes
  <2>2. t \in FillP2P({t})
    BY <2>1 DEF FillP2P
  <2> QED BY <1>2, <1>8, <2>2, FillIs
<1> QED BY <1>4, <1>5, <1>6, <1>7, <1>8

\* So an NFC dump tells it, and a request over the air unless it is a key.
LEMMA FieldIsTold ==
  ASSUME NEW f \in Fields
  PROVE  /\ Told(GetConfig, "nfc", f)
         /\ f \notin NfcOnly => Told(GetParam, "lrw", f)
<1>1. GetConfig("nfc", f)
  BY DEF GetConfig, GetParam, Air
<1>2. f \notin NfcOnly => GetParam("lrw", f)
  BY DEF GetParam
<1> QED BY <1>1, <1>2, FieldIsFilled DEF Told

\* A rule slot is told, over the air too, exactly when it is not empty.
LEMMA SlotIsTold ==
  ASSUME NEW i \in RuleSlots
  PROVE  Told(GetConfig, "lrw", <<4, SlotTag(i)>>) <=> draft.slots[i] # NoneSlot
<1> DEFINE t == SlotTag(i)
           f == <<4, t>>
<1>1. t \in 3..18
  BY ParamAssumption DEF SlotTag
<1>2. f \notin NfcOnly /\ f \notin LrwSkips /\ f[1] = 4 /\ f[2] = t
  BY DEF NfcOnly, LrwSkips
<1>3. GetConfig("lrw", f)
  BY <1>2 DEF GetConfig, GetParam
<1>4. \A j \in RuleSlots : t = SlotTag(j) => j = i
  BY ParamAssumption DEF SlotTag
<1>5. SlotEmpty(t) <=> draft.slots[i] = NoneSlot
  BY <1>4 DEF SlotEmpty
<1>6. t \in FillAlarms({t}) <=> ~SlotEmpty(t)
  BY <1>1 DEF FillAlarms
<1> HIDE DEF t
<1> QED BY <1>2, <1>3, <1>5, <1>6, FillIs DEF Told, t
-----------------------------------------------------------------------------
(* The inductive invariant *)

\* Beyond the three properties: no slot holds anything but a valid rule, so that taking a
\* batch back decodes the very rules that were there; and a promise is about fields and
\* slots there are.
Promise ==
  /\ promised = [fields |-> promised.fields, slots |-> promised.slots, sure |-> promised.sure]
  /\ DOMAIN promised.fields \subseteq Fields /\ DOMAIN promised.slots \subseteq RuleSlots

ParamProofInv ==
  /\ ParamInv
  /\ draft \in Config /\ SlotsClean(draft)
  /\ Promise

\* A clean slot that holds a rule which is on holds a valid one.
LEMMA CacheFollows ==
  ASSUME draft \in Config, SlotsClean(draft), decoded = draft.slots
  PROVE  CacheIsTheSlots
BY NoneIsRule DEF CacheIsTheSlots, SlotsClean, SlotClean

\* The promise in terms of the configuration alone: the dumps tell what is staged.
PromiseKept(cfg) ==
  promised.sure =>
    /\ \A f \in DOMAIN promised.fields :
         cfg.fields[f] = promised.fields[f] /\ (f[1] = 1 => unsynced)
    /\ \A i \in DOMAIN promised.slots : cfg.slots[i] = promised.slots[i]

LEMMA KeptIsRead ==
  ASSUME draft \in Config, SlotsClean(draft), Promise
  PROVE  AckedIsRead <=> PromiseKept(draft)
<1>1. \A f \in DOMAIN promised.fields :
        /\ Told(GetConfig, "nfc", f) /\ (f \notin NfcOnly => Told(GetParam, "lrw", f))
  BY FieldIsTold DEF Promise
<1>2. ASSUME NEW i \in DOMAIN promised.slots
      PROVE  Told(GetConfig, "lrw", <<4, SlotTag(i)>>) <=> draft.slots[i].on
  BY SlotIsTold, CleanIsOn DEF Promise
<1>3. ASSUME PromiseKept(draft) PROVE AckedIsRead
  BY <1>1, <1>2, <1>3 DEF PromiseKept, AckedIsRead
<1>4. ASSUME AckedIsRead PROVE PromiseKept(draft)
  BY <1>4 DEF PromiseKept, AckedIsRead
<1> QED BY <1>3, <1>4

\* So the invariant is about the configuration, its cache and the promise.
StateOk ==
  /\ draft \in Config /\ SlotsClean(draft) /\ decoded = draft.slots
  /\ \A f \in Fields : Fit(f, draft.fields[f])
  /\ broken \subseteq RuleSlots
  /\ Promise /\ PromiseKept(draft)

LEMMA InvIsState == ParamProofInv <=> StateOk
<1>1. ASSUME ParamProofInv PROVE StateOk
  BY <1>1, KeptIsRead DEF ParamProofInv, ParamInv, ParamType, CacheIsTheSlots, StateOk
<1>2. ASSUME StateOk PROVE ParamProofInv
  BY <1>2, KeptIsRead, CacheFollows DEF ParamProofInv, ParamInv, ParamType, StateOk
<1> QED BY <1>1, <1>2

LEMMA NextIsState == ParamProofInv' <=> StateOk'
BY InvIsState, PTL

LEMMA NothingIsKept ==
  ASSUME promised = NothingPromised
  PROVE  Promise /\ PromiseKept(draft)
BY DEF Promise, PromiseKept, NothingPromised

\* What a group takes is a number.
LEMMA FitsAreNumbers ==
  ASSUME NEW f \in Fields, NEW v, Fit(f, v)
  PROVE  v \in Int
<1>1. PICK g \in 1..5, t \in 1..29 : f = <<g, t>> /\ t \in DOMAIN Accepts[g]
  BY FieldIs
<1>2. /\ Accepts[1] = LorawanTakes /\ Accepts[2] = ApplicationTakes /\ Accepts[3] = SensorTakes
      /\ Accepts[4] = AlarmTakes /\ Accepts[5] = P2PTakes
  BY DEF Accepts
<1>3. v \in Accepts[g][t]
  <2>1. f[1] = g /\ f[2] = t
    BY <1>1
  <2> QED BY <2>1 DEF Fit
<1>4. CASE g = 1
  <2>1. t \in 1..16
    BY <1>1, <1>2, <1>4 DEF LorawanTakes
  <2>2. \A s \in 1..16 : LorawanTakes[s] \subseteq Int
    BY DEF LorawanTakes, Bit, Whatever
  <2> QED BY <1>2, <1>3, <1>4, <2>1, <2>2
<1>5. CASE g = 2
  <2>1. t \in (1..9) \ {5}
    BY <1>1, <1>2, <1>5 DEF ApplicationTakes
  <2>2. \A s \in (1..9) \ {5} : ApplicationTakes[s] \subseteq Int
    <3>1. /\ ApplicationTakes[2] = {0} \cup (5..3600) /\ ApplicationTakes[3] = 60..DaySeconds
          /\ \A s \in {1, 4, 7} : ApplicationTakes[s] = 0..1
          /\ ApplicationTakes[6] = 1000..3600 /\ ApplicationTakes[8] = 0..168
          /\ ApplicationTakes[9] = Int
      BY DEF ApplicationTakes, Whatever, Bit
    <3> SUFFICES ASSUME NEW s \in (1..9) \ {5} PROVE ApplicationTakes[s] \subseteq Int
      OBVIOUS
    <3>4. s = 2 \/ s = 3 \/ s \in {1, 4, 7} \/ s = 6 \/ s = 8 \/ s = 9
      OBVIOUS
    <3>5. 0..1 \subseteq Int
      OBVIOUS
    <3>6. CASE s \in {1, 4, 7}
      BY <3>1, <3>5, <3>6
    <3>7. CASE s = 2
      <4>1. ApplicationTakes[2] = {0} \cup (5..3600)
        BY <3>1
      <4> QED BY <3>7, <4>1
    <3>8. CASE s = 3
      <4>1. ApplicationTakes[3] = 60..DaySeconds
        BY <3>1
      <4> QED BY <3>8, <4>1, DayIs
    <3>9. CASE s = 6
      <4>1. ApplicationTakes[6] = 1000..3600
        BY <3>1
      <4> QED BY <3>9, <4>1
    <3>10. CASE s = 8
      <4>1. ApplicationTakes[8] = 0..168
        BY <3>1
      <4> QED BY <3>10, <4>1
    <3>11. CASE s = 9
      <4>1. ApplicationTakes[9] = Int
        BY <3>1
      <4> QED BY <3>11, <4>1
    <3> QED BY <3>4, <3>6, <3>7, <3>8, <3>9, <3>10, <3>11
  <2> QED BY <1>2, <1>3, <1>5, <2>1, <2>2
<1>6. CASE g = 3
  <2>1. t \in {1, 2, 5, 6} \cup (8..18) \cup (22..29)
    BY <1>1, <1>2, <1>6 DEF SensorTakes
  <2>2. /\ \A s \in 11..14 : SensorTakes[s] = Int
        /\ \A s \in 23..26 : SensorTakes[s] = 0..255
        /\ \A s \in {1, 2, 5, 6} \cup (8..9) \cup (15..18) \cup {22} : SensorTakes[s] = 0..1
        /\ \A s \in {10} \cup (27..29) : SensorTakes[s] = 0..3
    BY DEF SensorTakes, Whatever, Bit
  <2>3. v \in SensorTakes[t]
    BY <1>2, <1>3, <1>6
  <2>4. CASE t \in 11..14
    BY <2>2, <2>3, <2>4
  <2>5. CASE t \in 23..26
    <3>1. v \in 0..255
      BY <2>2, <2>3, <2>5
    <3> QED BY <3>1
  <2>6. CASE t \in {1, 2, 5, 6} \cup (8..9) \cup (15..18) \cup {22}
    <3>1. v \in 0..1
      BY <2>2, <2>3, <2>6
    <3> QED BY <3>1
  <2>7. CASE t \in {10} \cup (27..29)
    <3>1. v \in 0..3
      BY <2>2, <2>3, <2>7
    <3> QED BY <3>1
  <2> QED BY <2>1, <2>4, <2>5, <2>6, <2>7
<1>7. CASE g = 4
  <2>1. t \in {1, 20, 21}
    BY <1>1, <1>2, <1>7 DEF AlarmTakes
  <2>2. AlarmTakes[1] = 0..3600 /\ AlarmTakes[20] = 0..7 /\ AlarmTakes[21] = 0..1
    BY DEF AlarmTakes, Bit
  <2>3. v \in AlarmTakes[t]
    BY <1>2, <1>3, <1>7
  <2>4. CASE t = 1
    <3>1. AlarmTakes[1] \subseteq Int
      BY <2>2
    <3> QED BY <2>3, <2>4, <3>1, Zenon
  <2>5. CASE t = 20
    BY <2>2, <2>3, <2>5
  <2>6. CASE t = 21
    BY <2>2, <2>3, <2>6
  <2> QED BY <2>1, <2>4, <2>5, <2>6
<1>8. CASE g = 5
  <2>1. t \in 1..4
    BY <1>1, <1>2, <1>8 DEF P2PTakes
  <2>2. \A s \in 1..4 : P2PTakes[s] \subseteq Int
    BY BandIs DEF P2PTakes, Bit
  <2> QED BY <1>2, <1>3, <1>8, <2>1, <2>2
<1> QED BY <1>4, <1>5, <1>6, <1>7, <1>8

\* A load leaves a configuration whose fields fit and whose slots are clean.
LEMMA LoadFits ==
  ASSUME NEW cfg \in Config,
         \A f \in Fields \cap (Booleans \cup TypeFields) : Fit(f, cfg.fields[f])
  PROVE  LET r == Reload(Loads(cfg))
         IN /\ r.cfg \in Config /\ SlotsClean(r.cfg) /\ r.rules = r.cfg.slots
            /\ \A f \in Fields : Fit(f, r.cfg.fields[f])
            /\ r.bad \subseteq RuleSlots
<1> DEFINE w == [f \in Fields |-> Clamped(f, cfg.fields[f])]
<1>1. \A f \in Fields : Fit(f, Clamped(f, cfg.fields[f]))
  BY ClampFits DEF Config
<1>2. \A f \in Fields : Clamped(f, cfg.fields[f]) \in Int
  BY <1>1, FitsAreNumbers
<1>3. w \in [Fields -> Int] /\ \A f \in Fields : Fit(f, w[f])
  BY <1>1, <1>2
<1>4. Loads(cfg) = [cfg EXCEPT !.fields = w]
  BY DEF Loads
<1> HIDE DEF w
<1>5. Loads(cfg) \in Config /\ Loads(cfg).fields = w
  BY <1>3, <1>4 DEF Config
<1> QED BY <1>3, <1>5, ReloadIs

-----------------------------------------------------------------------------
(* Every step keeps it *)

LEMMA ParamStarts == ParamInit => ParamProofInv
<1> SUFFICES ASSUME ParamInit PROVE StateOk
  BY InvIsState
<1>1. PICK cfg \in Stores :
        LET r == Reload(Loads(cfg))
        IN draft = r.cfg /\ decoded = r.rules /\ broken = r.bad /\ radioMode = ModeOf(r.cfg)
  BY DEF ParamInit
<1>2. cfg \in Config /\ \A f \in Fields \cap (Booleans \cup TypeFields) : Fit(f, cfg.fields[f])
  BY ParamAssumption DEF Config
<1>3. Promise /\ PromiseKept(draft)
  BY NothingIsKept DEF ParamInit
<1> QED BY <1>1, <1>2, <1>3, LoadFits DEF StateOk

LEMMA SaveAndBootKeeps ==
  ASSUME StateOk, SaveAndBoot
  PROVE  StateOk'
<1> DEFINE r == Reload(Loads(draft))
<1>1. draft' = r.cfg /\ decoded' = r.rules /\ broken' = r.bad /\ promised' = NothingPromised
  BY DEF SaveAndBoot
<1>2. /\ r.cfg \in Config /\ SlotsClean(r.cfg) /\ r.rules = r.cfg.slots
      /\ \A f \in Fields : Fit(f, r.cfg.fields[f])
      /\ r.bad \subseteq RuleSlots
  BY LoadFits DEF StateOk
<1>3. Promise' /\ PromiseKept(draft)'
  BY <1>1 DEF Promise, PromiseKept, NothingPromised
<1> HIDE DEF r
<1> QED BY <1>1, <1>2, <1>3 DEF StateOk

\* A step that leaves the configuration, its cache and the promise.
LEMMA SameStays ==
  ASSUME StateOk, draft' = draft, decoded' = decoded, broken' \subseteq RuleSlots,
         unsynced' = unsynced, promised' = promised
  PROVE  StateOk'
BY DEF StateOk, Promise, PromiseKept, SlotsClean

\* A batch that is rolled back leaves what was staged and what was decoded: the reload
\* finds in the slots the rules they were decoded from.
LEMMA ReloadIsSame ==
  ASSUME StateOk
  PROVE  Reload(draft).cfg = draft /\ Reload(draft).rules = decoded /\ Reload(draft).bad = {}
BY ReloadStays DEF StateOk

LEMMA TakenBackStays ==
  ASSUME StateOk, NEW b, TakenBack(b)
  PROVE  draft' = draft /\ decoded' = decoded /\ broken' \subseteq RuleSlots
BY ReloadIsSame DEF TakenBack, StateOk

LEMMA RefuseKeeps ==
  ASSUME StateOk, NEW b \in Batches, Refuse(b)
  PROVE  StateOk' /\ UNCHANGED <<draft, decoded, unsynced, promised>>
<1>1. TakenBack(b) /\ UNCHANGED <<unsynced, promised>>
  BY DEF Refuse
<1> QED BY <1>1, TakenBackStays, SameStays

LEMMA RejectKeeps ==
  ASSUME StateOk, NEW b \in Batches, Accept(b), verdict'.kind # "ack"
  PROVE  StateOk' /\ UNCHANGED <<draft, decoded, unsynced, promised>>
<1>1. /\ draft' = Reload(draft).cfg /\ decoded' = Reload(draft).rules
      /\ broken' = Reload(draft).bad /\ UNCHANGED <<unsynced, promised>>
  BY DEF Accept, Verdict
<1>2. draft' = draft /\ decoded' = decoded /\ broken' \subseteq RuleSlots
  BY <1>1, ReloadIsSame
<1> QED BY <1>1, <1>2, SameStays

\* The sets of broken and of stale rules are finite, so that counts of nothing mean nothing.
LEMMA CountsAre ==
  ASSUME NEW cfg \in Config
  PROVE  LET r == Reload(cfg)
             old == StaleIn(r.cfg, r.rules)
         IN /\ r.bad \subseteq RuleSlots /\ old \subseteq RuleSlots
            /\ Cardinality(r.bad) \in Nat /\ Cardinality(old) \in Nat
            /\ r.faults = Cardinality(r.bad) + Cardinality(old)
            /\ r.faults <= 0 => r.bad = {} /\ old = {}
<1> DEFINE bad == Reload(cfg).bad
           old == StaleIn(Reload(cfg).cfg, Reload(cfg).rules)
           faults == Reload(cfg).faults
<1>1. faults = Cardinality(bad) + Cardinality(old)
  BY ReloadIs
<1>2. bad \subseteq RuleSlots /\ old \subseteq RuleSlots
  <2>1. bad \subseteq RuleSlots
    BY ReloadIs
  <2>2. old \subseteq RuleSlots
    BY DEF StaleIn
  <2> QED BY <2>1, <2>2
<1> HIDE DEF bad, old, faults
<1>3. /\ IsFiniteSet(bad) /\ IsFiniteSet(old)
      /\ Cardinality(bad) \in Nat /\ Cardinality(old) \in Nat
  BY <1>2, SlotsAreFinite
<1>4. ASSUME faults <= 0 PROVE bad = {} /\ old = {}
  <2>1. Cardinality(bad) = 0 /\ Cardinality(old) = 0
    BY <1>1, <1>3, <1>4
  <2> QED BY <1>3, <2>1, FS_EmptySet
<1> QED BY <1>1, <1>2, <1>3, <1>4 DEF bad, old, faults

\* What is acknowledged is staged, and, where no rule was stale, no rule of the batch was
\* dropped on the way: the reload would have counted it.
LEMMA AckKeeps ==
  ASSUME StateOk, NEW b \in Batches, Accept(b), verdict'.kind = "ack"
  PROVE  StateOk'
<1> DEFINE before  == StaleIn(draft, decoded)
           checked == Has(b, 3) \/ Has(b, 4) \/ b.replace
           app     == Applied(b)
           new     == Reload(app)
<1>1. /\ Objections(b) = {}
      /\ ~(checked /\ new.faults > Cardinality(before))
      /\ checked => draft' = new.cfg /\ decoded' = new.rules /\ broken' = new.bad
      /\ ~checked => draft' = app /\ UNCHANGED <<decoded, broken>>
      /\ unsynced' = (unsynced \/ Has(b, 1))
      /\ promised' = Acked(b, before = {})
  BY DEF Accept, Verdict
<1>2. /\ app \in Config
      /\ \A f \in Fields : app.fields[f] = IF f \in DOMAIN b.writes THEN b.writes[f] ELSE draft.fields[f]
      /\ \A i \in RuleSlots : app.slots[i] = IF i \in DOMAIN b.slots THEN b.slots[i]
                                             ELSE IF b.replace THEN NoneSlot ELSE draft.slots[i]
      /\ DOMAIN b.slots = {} /\ ~b.replace => app.slots = draft.slots
  BY AppliedIs DEF StateOk
<1>3. \A f \in DOMAIN b.writes : Fit(f, b.writes[f])
  BY <1>1, NoObjection
<1>4. \A f \in Fields : Fit(f, app.fields[f])
  BY <1>2, <1>3 DEF StateOk
<1>5. ~checked => DOMAIN b.slots = {} /\ ~b.replace
  BY DEF Has
<1> HIDE DEF app
<1>6. /\ new.cfg \in Config /\ SlotsClean(new.cfg) /\ new.rules = new.cfg.slots
      /\ new.cfg.fields = app.fields
      /\ new.bad = {i \in RuleSlots : app.slots[i].on /\ ~ValidRule(app.slots[i])}
      /\ \A i \in RuleSlots : new.rules[i] = IF app.slots[i].on /\ ValidRule(app.slots[i])
                                               THEN app.slots[i] ELSE NoneSlot
  BY <1>2, ReloadIs
<1>7. before = {} /\ checked => new.bad = {}
  <2>1. ASSUME before = {}, checked PROVE new.bad = {}
    <3>1. Cardinality(before) = 0
      BY <2>1, FS_EmptySet
    <3>2. new.faults \in Int /\ (new.faults <= 0 => new.bad = {})
      BY <1>2, CountsAre
    <3>3. new.faults <= 0
      <4> HIDE DEF new, before, checked
      <4> QED BY <1>1, <2>1, <3>1, <3>2
    <3> QED BY <3>2, <3>3
  <2> QED BY <2>1
<1> HIDE DEF new, checked, before
<1>8. /\ draft' \in Config /\ SlotsClean(draft') /\ decoded' = draft'.slots
      /\ draft'.fields = app.fields /\ broken' \subseteq RuleSlots
  <2>1. CASE checked
    BY <1>1, <1>6, <2>1
  <2>2. CASE ~checked
    BY <1>1, <1>2, <1>5, <2>2 DEF StateOk, SlotsClean
  <2> QED BY <2>1, <2>2
<1>9. /\ promised'.fields = b.writes /\ promised'.sure = (before = {})
      /\ DOMAIN promised'.slots = DOMAIN b.slots
      /\ \A i \in DOMAIN b.slots :
           promised'.slots[i] = IF b.slots[i].on THEN b.slots[i] ELSE NoneSlot
      /\ promised' = [fields |-> promised'.fields, slots |-> promised'.slots, sure |-> promised'.sure]
  BY <1>1 DEF Acked
<1>10. Promise'
  BY <1>9, BatchIs DEF Promise
<1>11. ASSUME before = {}, NEW f \in DOMAIN b.writes
       PROVE  draft'.fields[f] = b.writes[f] /\ (f[1] = 1 => unsynced')
  <2>1. f \in Fields
    BY BatchIs
  <2>2. f[1] = 1 => Has(b, 1)
    BY DEF Has
  <2> QED BY <1>1, <1>2, <1>8, <2>1, <2>2
<1>12. ASSUME before = {}, NEW i \in DOMAIN b.slots
       PROVE  draft'.slots[i] = promised'.slots[i]
  <2>1. i \in RuleSlots /\ checked
    BY <1>5, BatchIs
  <2>2. app.slots[i] = b.slots[i] /\ (app.slots[i].on => ValidRule(app.slots[i]))
    BY <1>2, <1>6, <1>7, <1>12, <2>1
  <2>3. draft'.slots[i] = IF b.slots[i].on THEN b.slots[i] ELSE NoneSlot
    BY <1>1, <1>6, <2>1, <2>2
  <2> QED BY <1>9, <2>3
<1>13. PromiseKept(draft)'
  <2>1. promised'.sure => before = {}
    BY <1>9
  <2> QED BY <1>9, <1>11, <1>12, <2>1 DEF PromiseKept
<1> QED BY <1>4, <1>8, <1>10, <1>13 DEF StateOk

\* A promise outlives what it was about only where nothing of it was touched.
LEMMA WithdrawsIs ==
  ASSUME StateOk, NEW f, Withdraws(f)
  PROVE  /\ Promise' /\ promised'.sure = promised.sure /\ promised'.slots = promised.slots
         /\ DOMAIN promised'.fields = DOMAIN promised.fields \ {f}
         /\ \A g \in DOMAIN promised'.fields : promised'.fields[g] = promised.fields[g]
<1> DEFINE rest == Restrict(promised.fields, DOMAIN promised.fields \ {f})
<1>1. promised = [fields |-> promised.fields, slots |-> promised.slots, sure |-> promised.sure]
  BY DEF StateOk, Promise
<1>2. DOMAIN rest = DOMAIN promised.fields \ {f} /\ \A g \in DOMAIN rest : rest[g] = promised.fields[g]
  BY DEF Restrict
<1>3. promised' = [promised EXCEPT !.fields = rest]
  BY DEF Withdraws
<1> HIDE DEF rest
<1>4. promised' = [fields |-> rest, slots |-> promised.slots, sure |-> promised.sure]
  BY <1>1, <1>3
<1> QED BY <1>2, <1>4 DEF StateOk, Promise

LEMMA WritesKeeps ==
  ASSUME StateOk, NEW g, NEW f \in Fields, NEW v \in Int, Writes(g, f, v)
  PROVE  StateOk'
<1>1. /\ Fit(f, v) /\ draft' = [draft EXCEPT !.fields[f] = v] /\ Withdraws(f)
      /\ UNCHANGED <<decoded, broken, unsynced>>
  BY DEF Writes
<1>2. /\ draft' \in Config /\ draft'.slots = draft.slots
      /\ draft'.fields = [draft.fields EXCEPT ![f] = v]
  BY <1>1 DEF StateOk, Config
<1>3. SlotsClean(draft') /\ \A h \in Fields : Fit(h, draft'.fields[h])
  BY <1>1, <1>2 DEF StateOk, SlotsClean, Config
<1>4. PromiseKept(draft)'
  <2> SUFFICES ASSUME promised'.sure
               PROVE  /\ \A h \in DOMAIN promised'.fields :
                           draft'.fields[h] = promised'.fields[h] /\ (h[1] = 1 => unsynced')
                      /\ \A j \in DOMAIN promised'.slots : draft'.slots[j] = promised'.slots[j]
    BY DEF PromiseKept
  <2>0. /\ promised.sure
        /\ \A h \in DOMAIN promised.fields :
             draft.fields[h] = promised.fields[h] /\ (h[1] = 1 => unsynced)
        /\ \A j \in DOMAIN promised.slots : draft.slots[j] = promised.slots[j]
        /\ DOMAIN promised.fields \subseteq Fields /\ DOMAIN promised.slots \subseteq RuleSlots
    BY <1>1, WithdrawsIs DEF StateOk, Promise, PromiseKept
  <2>1. ASSUME NEW h \in DOMAIN promised'.fields
        PROVE  draft'.fields[h] = promised'.fields[h] /\ (h[1] = 1 => unsynced')
    <3>1. h \in DOMAIN promised.fields /\ h # f /\ promised'.fields[h] = promised.fields[h]
      BY <1>1, WithdrawsIs
    <3>2. draft'.fields[h] = draft.fields[h]
      BY <1>2, <2>0, <3>1 DEF StateOk, Config
    <3> QED BY <1>1, <2>0, <3>1, <3>2
  <2>2. promised'.slots = promised.slots
    BY <1>1, WithdrawsIs
  <2> QED BY <1>2, <2>0, <2>1, <2>2
<1> QED BY <1>1, <1>2, <1>3, <1>4, WithdrawsIs DEF StateOk

LEMMA DropsIs ==
  ASSUME StateOk, NEW s, DropsSlots(s)
  PROVE  /\ Promise' /\ promised'.sure = promised.sure /\ promised'.fields = promised.fields
         /\ DOMAIN promised'.slots = DOMAIN promised.slots \ s
         /\ \A i \in DOMAIN promised'.slots : promised'.slots[i] = promised.slots[i]
<1> DEFINE rest == Restrict(promised.slots, DOMAIN promised.slots \ s)
<1>1. promised = [fields |-> promised.fields, slots |-> promised.slots, sure |-> promised.sure]
  BY DEF StateOk, Promise
<1>2. DOMAIN rest = DOMAIN promised.slots \ s /\ \A i \in DOMAIN rest : rest[i] = promised.slots[i]
  BY DEF Restrict
<1>3. promised' = [promised EXCEPT !.slots = rest]
  BY DEF DropsSlots
<1> HIDE DEF rest
<1>4. promised' = [fields |-> promised.fields, slots |-> rest, sure |-> promised.sure]
  BY <1>1, <1>3
<1> QED BY <1>2, <1>4 DEF StateOk, Promise

LEMMA ShellRuleKeeps ==
  ASSUME StateOk, NEW i \in RuleSlots, NEW r \in ShellRules, ShellRule(i, r)
  PROVE  StateOk'
<1>1. r \in Rules /\ r.on /\ ValidRule(r)
  BY ParamAssumption DEF ShellRule
<1>2. /\ draft' = [draft EXCEPT !.slots[i] = r] /\ decoded' = [decoded EXCEPT ![i] = r]
      /\ DropsSlots({i}) /\ UNCHANGED <<broken, unsynced>>
  BY DEF ShellRule
<1>3. /\ draft' \in Config /\ draft'.fields = draft.fields
      /\ draft'.slots = [draft.slots EXCEPT ![i] = r]
  BY <1>1, <1>2 DEF StateOk, Config
<1>4. SlotsClean(draft') /\ decoded' = draft'.slots
  BY <1>1, <1>2, <1>3 DEF StateOk, SlotsClean, SlotClean, Config
<1>5. PromiseKept(draft)'
  <2> SUFFICES ASSUME promised'.sure
               PROVE  /\ \A h \in DOMAIN promised'.fields :
                           draft'.fields[h] = promised'.fields[h] /\ (h[1] = 1 => unsynced')
                      /\ \A j \in DOMAIN promised'.slots : draft'.slots[j] = promised'.slots[j]
    BY DEF PromiseKept
  <2>0. /\ promised.sure
        /\ \A h \in DOMAIN promised.fields :
             draft.fields[h] = promised.fields[h] /\ (h[1] = 1 => unsynced)
        /\ \A j \in DOMAIN promised.slots : draft.slots[j] = promised.slots[j]
        /\ DOMAIN promised.fields \subseteq Fields /\ DOMAIN promised.slots \subseteq RuleSlots
    BY <1>2, DropsIs DEF StateOk, Promise, PromiseKept
  <2>1. ASSUME NEW j \in DOMAIN promised'.slots
        PROVE  draft'.slots[j] = promised'.slots[j]
    <3>1. j \in DOMAIN promised.slots /\ j # i /\ promised'.slots[j] = promised.slots[j]
      BY <1>2, DropsIs
    <3>2. draft'.slots[j] = draft.slots[j]
      BY <1>3, <2>0, <3>1 DEF StateOk, Config
    <3> QED BY <2>0, <3>1, <3>2
  <2>2. promised'.fields = promised.fields
    BY <1>2, DropsIs
  <2> QED BY <1>2, <1>3, <2>0, <2>1, <2>2
<1> QED BY <1>2, <1>3, <1>4, <1>5, DropsIs DEF StateOk

LEMMA ShellClearKeeps ==
  ASSUME StateOk, NEW s, ShellClear(s)
  PROVE  StateOk'
<1> DEFINE left == [i \in RuleSlots |-> IF i \in s THEN NoneSlot ELSE draft.slots[i]]
<1>1. /\ draft' = [draft EXCEPT !.slots = left]
      /\ decoded' = [i \in RuleSlots |-> IF i \in s THEN NoneSlot ELSE decoded[i]]
      /\ DropsSlots(s) /\ UNCHANGED <<broken, unsynced>>
  BY DEF ShellClear
<1>2. left \in [RuleSlots -> Rules]
  BY NoneIsRule DEF StateOk, Config
<1>3. \A i \in RuleSlots : left[i] = IF i \in s THEN NoneSlot ELSE draft.slots[i]
  OBVIOUS
<1>4. decoded' = left
  BY <1>1 DEF StateOk
<1> HIDE DEF left
<1>5. draft' \in Config /\ draft'.fields = draft.fields /\ draft'.slots = left
  BY <1>1, <1>2 DEF StateOk, Config
<1>6. SlotsClean(draft')
  BY <1>3, <1>5 DEF StateOk, SlotsClean, SlotClean
<1>7. PromiseKept(draft)'
  <2> SUFFICES ASSUME promised'.sure
               PROVE  /\ \A h \in DOMAIN promised'.fields :
                           draft'.fields[h] = promised'.fields[h] /\ (h[1] = 1 => unsynced')
                      /\ \A j \in DOMAIN promised'.slots : draft'.slots[j] = promised'.slots[j]
    BY DEF PromiseKept
  <2>0. /\ promised.sure
        /\ \A h \in DOMAIN promised.fields :
             draft.fields[h] = promised.fields[h] /\ (h[1] = 1 => unsynced)
        /\ \A j \in DOMAIN promised.slots : draft.slots[j] = promised.slots[j]
        /\ DOMAIN promised.fields \subseteq Fields /\ DOMAIN promised.slots \subseteq RuleSlots
    BY <1>1, DropsIs DEF StateOk, Promise, PromiseKept
  <2>1. ASSUME NEW j \in DOMAIN promised'.slots
        PROVE  draft'.slots[j] = promised'.slots[j]
    <3>1. j \in DOMAIN promised.slots /\ j \notin s /\ promised'.slots[j] = promised.slots[j]
      BY <1>1, DropsIs
    <3>2. draft'.slots[j] = draft.slots[j]
      BY <1>3, <1>5, <2>0, <3>1
    <3> QED BY <2>0, <3>1, <3>2
  <2>2. promised'.fields = promised.fields
    BY <1>1, DropsIs
  <2> QED BY <1>1, <1>5, <2>0, <2>1, <2>2
<1> QED BY <1>1, <1>4, <1>5, <1>6, <1>7, DropsIs DEF StateOk

LEMMA ParamStepKeeps ==
  ASSUME ParamProofInv, [ParamNext]_paramVars
  PROVE  ParamProofInv'
<1> SUFFICES StateOk'
  BY NextIsState
<1>0. StateOk
  BY InvIsState
<1>1. CASE SaveAndBoot
  BY <1>0, <1>1, SaveAndBootKeeps
<1>2. ASSUME NEW b \in Batches, StageBatch(b) PROVE StateOk'
  <2>1. CASE Refuse(b)
    BY <1>0, <2>1, RefuseKeeps
  <2>2. CASE Accept(b) /\ verdict'.kind = "ack"
    BY <1>0, <2>2, AckKeeps
  <2>3. CASE Accept(b) /\ verdict'.kind # "ack"
    BY <1>0, <2>3, RejectKeeps
  <2> QED BY <1>2, <2>1, <2>2, <2>3 DEF StageBatch
<1>3. ASSUME NEW w \in ShellWrites,
             \/ ShellLorawan(w[1], w[2]) \/ ShellApplication(w[1], w[2])
             \/ ShellSensors(w[1], w[2]) \/ ShellTypes(w[1], w[2])
             \/ ShellAlarms(w[1], w[2]) \/ ShellP2P(w[1], w[2])
      PROVE  StateOk'
  <2>1. w[1] \in Fields /\ w[2] \in Int
    BY ParamAssumption
  <2>2. \E g \in 1..5 : Writes(g, w[1], w[2])
    BY <1>3 DEF ShellLorawan, ShellApplication, ShellSensors, ShellTypes, ShellAlarms, ShellP2P
  <2> QED BY <1>0, <2>1, <2>2, WritesKeeps
<1>4. ASSUME NEW i \in RuleSlots, ShellClear({i}) \/ \E r \in ShellRules : ShellRule(i, r)
      PROVE  StateOk'
  BY <1>0, <1>4, ShellClearKeeps, ShellRuleKeeps
<1>5. CASE ShellClear(RuleSlots)
  BY <1>0, <1>5, ShellClearKeeps
<1>6. CASE UNCHANGED paramVars
  <2>1. /\ draft' = draft /\ decoded' = decoded /\ broken' = broken
        /\ unsynced' = unsynced /\ promised' = promised
    BY <1>6 DEF paramVars
  <2> QED BY <1>0, <2>1, SameStays DEF StateOk
<1> QED BY <1>1, <1>2, <1>3, <1>4, <1>5, <1>6 DEF ParamNext

\* What is staged, the decoded copy of the rules and what was acknowledged agree at all
\* times, for every batch, every value and every rule (app_cmd.c, app_config_ingest.c,
\* app_alarm_rules.c).
THEOREM ParametersHold == ParamSpec => []ParamInv
<1>1. ParamInit => ParamProofInv
  BY ParamStarts
<1>2. ParamProofInv /\ [ParamNext]_paramVars => ParamProofInv'
  BY ParamStepKeeps
<1>3. ParamProofInv => ParamInv
  BY DEF ParamProofInv
<1> QED BY <1>1, <1>2, <1>3, PTL DEF ParamSpec

-----------------------------------------------------------------------------
(* What a refusal names *)

\* The order of the naturals is well founded, so a nonempty set of them has a least one.
LEMMA LeastIsIn ==
  ASSUME NEW S \in SUBSET Nat, S # {}
  PROVE  Min(S) \in S
<1>1. IsWellFoundedOn(OpToRel(<, Nat), Nat)
  BY NatLessThanWellFounded
<1>2. PICK x \in S : \A y \in S : ~(<<y, x>> \in OpToRel(<, Nat))
  BY <1>1, WFMin
<1>3. \A y \in S : x <= y
  <2>1. \A y \in S : ~(y < x)
    BY <1>2 DEF OpToRel
  <2> QED BY <2>1
<1>4. \E m \in S : \A y \in S : m <= y
  BY <1>3
<1> QED BY <1>4, Zenon DEF Min

LEMMA ObjectionIsNamed ==
  ASSUME NEW b \in Batches, Objections(b) # {}
  PROVE  \/ \E f \in DOMAIN b.writes : Code(f) = Min(Objections(b))
         \/ \E i \in RuleSlots : i \in DOMAIN b.slots /\ Min(Objections(b)) = 400 + SlotTag(i)
<1> DEFINE S == Objections(b)
<1>1. \A f \in DOMAIN b.writes : Code(f) \in Nat
  <2> SUFFICES ASSUME NEW f \in DOMAIN b.writes PROVE Code(f) \in Nat
    OBVIOUS
  <2>1. PICK g \in 1..5, t \in 1..29 : f = <<g, t>>
    BY BatchIs, FieldIs
  <2>2. f[1] = g /\ f[2] = t
    BY <2>1
  <2> QED BY <2>2 DEF Code
<1>2. \A i \in DOMAIN b.slots : i \in RuleSlots /\ Code(<<4, SlotTag(i)>>) = 400 + SlotTag(i)
                                /\ 400 + SlotTag(i) \in Nat
  <2> SUFFICES ASSUME NEW i \in DOMAIN b.slots
               PROVE  /\ i \in RuleSlots /\ Code(<<4, SlotTag(i)>>) = 400 + SlotTag(i)
                      /\ 400 + SlotTag(i) \in Nat
    OBVIOUS
  <2>1. i \in RuleSlots /\ i \in Nat
    <3>1. i \in RuleSlots
      BY BatchIs
    <3>2. RuleSlots \subseteq 0..15
      BY ParamAssumption, Zenon
    <3> QED BY <3>1, <3>2
  <2>2. SlotTag(i) \in Nat
    BY <2>1 DEF SlotTag
  <2>3. Code(<<4, SlotTag(i)>>) = 400 + SlotTag(i)
    BY <2>2 DEF Code
  <2> QED BY <2>1, <2>2, <2>3
<1>3. \A c \in S : \/ \E f \in DOMAIN b.writes : Code(f) = c
                   \/ \E i \in DOMAIN b.slots : c = Code(<<4, SlotTag(i)>>)
  BY DEF Objections
<1> HIDE DEF S
<1>4. S \in SUBSET Nat
  <2>1. ASSUME NEW c \in S PROVE c \in Nat
    <3>1. CASE \E f \in DOMAIN b.writes : Code(f) = c
      BY <1>1, <3>1
    <3>2. ASSUME NEW i \in DOMAIN b.slots, c = Code(<<4, SlotTag(i)>>) PROVE c \in Nat
      <4>1. Code(<<4, SlotTag(i)>>) = 400 + SlotTag(i) /\ 400 + SlotTag(i) \in Nat
        BY <1>2
      <4> QED BY <3>2, <4>1
    <3> QED BY <1>3, <3>1, <3>2
  <2> QED BY <2>1
<1>5. S # {}
  BY DEF S
<1>6. Min(S) \in S
  BY <1>4, <1>5, LeastIsIn
<1>7. \/ \E f \in DOMAIN b.writes : Code(f) = Min(S)
      \/ \E i \in RuleSlots : i \in DOMAIN b.slots /\ Min(S) = 400 + SlotTag(i)
  <2>1. CASE \E f \in DOMAIN b.writes : Code(f) = Min(S)
    BY <2>1
  <2>2. ASSUME NEW i \in DOMAIN b.slots, Min(S) = Code(<<4, SlotTag(i)>>)
        PROVE  i \in RuleSlots /\ Min(S) = 400 + SlotTag(i)
    BY <1>2, <2>2
  <2> QED BY <1>3, <1>6, <2>1, <2>2
<1> QED BY <1>7 DEF S

\* More faults than there were stale rules: some rule is broken, or stale and was not.
LEMMA SomeoneIsGuilty ==
  ASSUME StateOk, NEW cfg \in Config, Reload(cfg).faults > Cardinality(StaleIn(draft, decoded))
  PROVE  LET guilty == Reload(cfg).bad
                         \cup (StaleIn(Reload(cfg).cfg, Reload(cfg).rules) \ StaleIn(draft, decoded))
         IN guilty \subseteq RuleSlots /\ guilty # {}
<1> DEFINE before == StaleIn(draft, decoded)
           bad == Reload(cfg).bad
           old == StaleIn(Reload(cfg).cfg, Reload(cfg).rules)
           faults == Reload(cfg).faults
<1>1. /\ bad \subseteq RuleSlots /\ old \subseteq RuleSlots
      /\ Cardinality(old) \in Nat /\ faults = Cardinality(bad) + Cardinality(old)
  BY CountsAre
<1>2. before \subseteq RuleSlots
  BY DEF StaleIn
<1>3. faults > Cardinality(before)
  OBVIOUS
<1> HIDE DEF before, bad, old, faults
<1>4. IsFiniteSet(before) /\ Cardinality(before) \in Nat
  BY <1>2, SlotsAreFinite
<1>5. ASSUME bad = {}, old \subseteq before PROVE FALSE
  <2>1. Cardinality(bad) = 0
    BY <1>5, FS_EmptySet
  <2>2. Cardinality(old) <= Cardinality(before)
    BY <1>4, <1>5, FS_Subset
  <2> QED BY <1>1, <1>3, <1>4, <2>1, <2>2
<1> QED BY <1>1, <1>5 DEF before, bad, old

\* A rule the batch does not send is broken by none of it, and is made stale only by a
\* field that holds the type of its slot.
LEMMA UnsentIsStale ==
  ASSUME StateOk, NEW b \in Batches, NEW i \in RuleSlots, i \notin DOMAIN b.slots,
         LET new == Reload(Applied(b))
         IN i \in new.bad \cup (StaleIn(new.cfg, new.rules) \ StaleIn(draft, decoded))
  PROVE  decoded[i].on /\ ~b.replace /\ DOMAIN b.writes \cap TypeFields # {}
<1> DEFINE app == Applied(b)
           new == Reload(app)
<1>1. /\ app \in Config /\ app.slots[i] = IF b.replace THEN NoneSlot ELSE draft.slots[i]
      /\ \A f \in Fields : app.fields[f] = IF f \in DOMAIN b.writes THEN b.writes[f] ELSE draft.fields[f]
  BY AppliedIs DEF StateOk
<1>2. draft.slots[i] = decoded[i] /\ SlotClean(draft.slots[i])
  BY DEF StateOk, SlotsClean
<1>3. SlotClean(app.slots[i])
  BY <1>1, <1>2 DEF SlotClean
<1>4. /\ new.bad = {j \in RuleSlots : app.slots[j].on /\ ~ValidRule(app.slots[j])}
      /\ new.rules[i] = IF app.slots[i].on /\ ValidRule(app.slots[i]) THEN app.slots[i] ELSE NoneSlot
      /\ new.cfg.fields = app.fields
  BY <1>1, ReloadIs
<1>5. i \notin new.bad /\ new.rules[i] = app.slots[i]
  BY <1>3, <1>4, NoneIsRule DEF SlotClean
<1>6. i \in StaleIn(new.cfg, new.rules) /\ i \notin StaleIn(draft, decoded)
  BY <1>5
<1>7. new.rules[i].on /\ new.rules[i].type # RuleTypeAt(new.cfg, new.rules[i].slot)
  BY <1>6 DEF StaleIn
<1>8. ~b.replace /\ new.rules[i] = decoded[i]
  BY <1>1, <1>2, <1>5, <1>7, NoneIsRule
<1>9. decoded[i].on /\ ValidRule(decoded[i]) /\ decoded[i].type = RuleTypeAt(draft, decoded[i].slot)
  <2>1. decoded[i].on
    BY <1>7, <1>8
  <2>2. ValidRule(decoded[i])
    BY <1>2, <2>1, NoneIsRule DEF SlotClean
  <2>3. decoded[i].type = RuleTypeAt(draft, decoded[i].slot)
    BY <1>6, <2>1 DEF StaleIn
  <2> QED BY <2>1, <2>2, <2>3
<1> DEFINE s == decoded[i].slot
           tf == <<3, 22 + s>>
<1>10. RuleTypeAt(new.cfg, s) # RuleTypeAt(draft, s)
  BY <1>7, <1>8, <1>9
<1>11. s # 0 /\ tf \in Fields /\ new.cfg.fields[tf] # draft.fields[tf]
  BY <1>10 DEF RuleTypeAt
<1>12. tf \in DOMAIN b.writes
  BY <1>1, <1>4, <1>11
<1>13. tf \in TypeFields
  <2>1. s \in 1..4
    <3>1. s \in 0..4
      BY <1>9, Zenon DEF ValidRule
    <3> HIDE DEF s
    <3> QED BY <1>11, <3>1
  <2>2. 22 + s \in 23..26
    BY <2>1
  <2> QED BY <2>2 DEF TypeFields
<1> QED BY <1>8, <1>9, <1>12, <1>13

\* What RefusedChangesNothing says of the fault of one batch.
Named(b) ==
  \/ NoReplace(b) /\ verdict'.fault = 400
  \/ \E f \in DOMAIN b.writes : Code(f) = verdict'.fault
  \/ \E i \in RuleSlots :
       /\ verdict'.fault = 400 + SlotTag(i)
       /\ \/ i \in DOMAIN b.slots
          \/ decoded[i].on /\ ~b.replace /\ DOMAIN b.writes \cap TypeFields # {}

LEMMA RefuseNames ==
  ASSUME NEW b \in Batches, Refuse(b)
  PROVE  Named(b)
<1>1. CASE NoReplace(b) /\ verdict' = Verdict("not_writable", 400)
  BY <1>1 DEF Named, Verdict
<1>2. CASE ~NoReplace(b) /\ Objections(b) # {}
  <2>1. verdict'.fault = Min(Objections(b))
    BY <1>2 DEF Refuse, Verdict
  <2> QED BY <1>2, <2>1, ObjectionIsNamed DEF Named
<1> QED BY <1>1, <1>2 DEF Refuse

LEMMA RejectNames ==
  ASSUME StateOk, NEW b \in Batches, Accept(b), verdict'.kind # "ack"
  PROVE  Named(b)
<1> DEFINE before == StaleIn(draft, decoded)
           new    == Reload(Applied(b))
           guilty == new.bad \cup (StaleIn(new.cfg, new.rules) \ before)
<1>1. /\ new.faults > Cardinality(before)
      /\ verdict'.fault = 400 + (IF guilty = {} THEN 0 ELSE SlotTag(Min(guilty)))
  BY DEF Accept, Verdict
<1>2. guilty \subseteq RuleSlots /\ guilty # {}
  BY <1>1, AppliedIs, SomeoneIsGuilty DEF StateOk
<1>3. Min(guilty) \in guilty
  <2>1. guilty \in SUBSET Nat
    BY <1>2, SlotsAreFinite
  <2> HIDE DEF guilty
  <2> QED BY <1>2, <2>1, LeastIsIn
<1> DEFINE i == Min(guilty)
<1>4. i \in RuleSlots /\ verdict'.fault = 400 + SlotTag(i)
  <2> HIDE DEF guilty
  <2> QED BY <1>1, <1>2, <1>3
<1>5. i \notin DOMAIN b.slots => decoded[i].on /\ ~b.replace /\ DOMAIN b.writes \cap TypeFields # {}
  BY <1>3, <1>4, UnsentIsStale
<1> HIDE DEF i
<1> QED BY <1>4, <1>5 DEF Named

LEMMA RefusalIsExact ==
  ASSUME ParamProofInv, [ParamNext]_paramVars,
         verdict' \notin {verdict, NoVerdict}, verdict'.kind # "ack"
  PROVE  /\ UNCHANGED <<draft, decoded, unsynced, promised>>
         /\ \A b \in Batches : StageBatch(b) => Named(b)
<1>0. StateOk
  BY InvIsState
<1>1. \E b \in Batches : StageBatch(b)
  BY DEF ParamNext, SaveAndBoot, ShellLorawan, ShellApplication, ShellSensors, ShellTypes,
         ShellAlarms, ShellP2P, Writes, ShellRule, ShellClear, paramVars
<1>2. ASSUME NEW b \in Batches, StageBatch(b)
      PROVE  UNCHANGED <<draft, decoded, unsynced, promised>> /\ Named(b)
  <2>1. CASE Refuse(b)
    BY <1>0, <2>1, RefuseKeeps, RefuseNames
  <2>2. CASE Accept(b)
    BY <1>0, <2>2, RejectKeeps, RejectNames
  <2> QED BY <1>2, <2>1, <2>2 DEF StageBatch
<1> QED BY <1>1, <1>2

\* A batch that is refused leaves nothing behind, whatever it was refused for, and the
\* fault it answers with is a field of its own, a rule of its own or a rule whose slot
\* it gave another type (app_cmd.c, the roll-backs and fault_at()).
THEOREM RefusalsChangeNothing == ParamSpec => RefusedChangesNothing
<1>1. ParamInit => ParamProofInv
  BY ParamStarts
<1>2. ParamProofInv /\ [ParamNext]_paramVars => ParamProofInv'
  BY ParamStepKeeps
<1>3. ParamProofInv /\ [ParamNext]_paramVars =>
        [verdict' \notin {verdict, NoVerdict} /\ verdict'.kind # "ack" =>
           /\ UNCHANGED <<draft, decoded, unsynced, promised>>
           /\ \A b \in Batches : StageBatch(b) =>
                \/ NoReplace(b) /\ verdict'.fault = 400
                \/ \E f \in DOMAIN b.writes : Code(f) = verdict'.fault
                \/ \E i \in RuleSlots :
                     /\ verdict'.fault = 400 + SlotTag(i)
                     /\ \/ i \in DOMAIN b.slots
                        \/ decoded[i].on /\ ~b.replace
                           /\ DOMAIN b.writes \cap TypeFields # {}]_paramVars
  BY RefusalIsExact DEF Named
<1> QED BY <1>1, <1>2, <1>3, PTL DEF ParamSpec, RefusedChangesNothing

-----------------------------------------------------------------------------
(* Alarms: what the edges of one source leave on                             *)

IsEdges(E) == \A e \in E : e.act \in BOOLEAN /\ e.message \in BOOLEAN

Heard(told, src, es) == (told \ Says(FALSE, src, es)) \cup Says(TRUE, src, es)

Speaks(src, e, o) == ~e.message /\ Names(src, e) = o
Silent(src, es, o) == \A k \in DOMAIN es : ~Speaks(src, es[k], o)
LastWord(src, es, o, k) ==
  /\ k \in DOMAIN es /\ Speaks(src, es[k], o)
  /\ \A l \in DOMAIN es : l > k => ~Speaks(src, es[l], o)

\* Of the edges that name an alarm, if any, there is a last one.
LEMMA SomeLastWord ==
  ASSUME NEW E, NEW es \in Seq(E), NEW src, NEW o, ~Silent(src, es, o)
  PROVE  \E k \in DOMAIN es : LastWord(src, es, o, k)
<1> DEFINE n == Len(es)
           S == {m \in Nat : m <= n /\ n - m \in DOMAIN es /\ Speaks(src, es[n - m], o)}
<1>1. n \in Nat /\ DOMAIN es = 1..n
  OBVIOUS
<1>2. PICK k \in DOMAIN es : Speaks(src, es[k], o)
  BY DEF Silent
<1>3. n - k \in S
  <2>1. n - k \in Nat /\ n - k <= n /\ n - (n - k) = k
    BY <1>1
  <2> QED BY <1>2, <2>1
<1>4. Min(S) \in S /\ \A m \in S : Min(S) <= m
  <2>1. Min(S) \in S
    BY <1>3, LeastIsIn
  <2>2. \E x \in S : \A y \in S : x <= y
    <3>1. IsWellFoundedOn(OpToRel(<, Nat), Nat)
      BY NatLessThanWellFounded
    <3>2. PICK x \in S : \A y \in S : ~(<<y, x>> \in OpToRel(<, Nat))
      BY <1>3, <3>1, WFMin
    <3>3. \A y \in S : ~(y < x)
      BY <3>2 DEF OpToRel
    <3> QED BY <3>3
  <2> HIDE DEF S
  <2> QED BY <2>2, Zenon DEF Min
<1>5. PICK m \in S : \A x \in S : m <= x
  BY <1>4
<1>6. ASSUME NEW l \in DOMAIN es, l > n - m PROVE ~Speaks(src, es[l], o)
  <2>1. n - l \in Nat /\ n - l <= n /\ n - (n - l) = l /\ n - l < m
    BY <1>1, <1>5, <1>6
  <2>2. n - l \notin S
    BY <1>5, <2>1
  <2> QED BY <2>1, <2>2
<1> QED BY <1>5, <1>6 DEF LastWord

\* The last word about an alarm says whether it is on.
LEMMA LastWordCounts ==
  ASSUME NEW E, IsEdges(E), NEW es \in Seq(E), NEW src, NEW told, NEW o
  PROVE  /\ Silent(src, es, o) => (o \in Heard(told, src, es) <=> o \in told)
         /\ \A k : LastWord(src, es, o, k) => (o \in Heard(told, src, es) <=> es[k].act)
<1>1. \A on : o \in Says(on, src, es) <=>
                \E j \in DOMAIN es : es[j].act = on /\ LastWord(src, es, o, j)
  BY DEF Says, LastWord, Speaks
<1>2. CASE Silent(src, es, o)
  <2>1. \A j \in DOMAIN es : ~LastWord(src, es, o, j)
    BY <1>2 DEF Silent, LastWord
  <2> QED BY <1>1, <2>1 DEF Heard, LastWord
<1>3. ASSUME NEW k, LastWord(src, es, o, k)
      PROVE  o \in Heard(told, src, es) <=> es[k].act
  <2>1. \A j \in DOMAIN es : LastWord(src, es, o, j) => j = k
    <3>1. DOMAIN es \subseteq Nat /\ k \in DOMAIN es
      BY <1>3 DEF LastWord
    <3> SUFFICES ASSUME NEW j \in DOMAIN es, LastWord(src, es, o, j) PROVE j = k
      OBVIOUS
    <3>2. ~(j > k) /\ ~(k > j)
      BY <1>3 DEF LastWord
    <3> QED BY <3>1, <3>2
  <2>2. es[k].act \in BOOLEAN
    BY <1>3 DEF LastWord, IsEdges
  <2> QED BY <1>1, <1>3, <2>1, <2>2 DEF Heard, LastWord
<1>4. ~Silent(src, es, o) \/ \A k : ~LastWord(src, es, o, k)
  BY DEF Silent, LastWord
<1> QED BY <1>2, <1>3, <1>4

\* Edges are heard in their order.
LEMMA HeardInOrder ==
  ASSUME NEW E, IsEdges(E), NEW d \in Seq(E), NEW e \in Seq(E), NEW src, NEW told
  PROVE  /\ d \o e \in Seq(E)
         /\ Heard(told, src, d \o e) = Heard(Heard(told, src, d), src, e)
<1> DEFINE c == d \o e
           n == Len(d)
           m == Len(e)
<1>1. /\ c \in Seq(E) /\ Len(c) = n + m /\ n \in Nat /\ m \in Nat
      /\ \A k \in 1..n + m : c[k] = IF k <= n THEN d[k] ELSE e[k - n]
  BY ConcatProperties
<1>2. DOMAIN c = 1..n + m /\ DOMAIN d = 1..n /\ DOMAIN e = 1..m
  BY <1>1
<1> HIDE DEF c
<1>3. \A k \in 1..n : k \in 1..n + m /\ c[k] = d[k]
  BY <1>1
<1>4. \A k \in 1..m : n + k \in 1..n + m /\ n + k > n /\ c[n + k] = e[k]
  <2> SUFFICES ASSUME NEW k \in 1..m PROVE n + k \in 1..n + m /\ n + k > n /\ c[n + k] = e[k]
    OBVIOUS
  <2>1. n + k \in 1..n + m /\ n + k > n /\ (n + k) - n = k
    BY <1>1
  <2> QED BY <1>1, <2>1
<1>5. \A k \in 1..n + m : k \in 1..n \/ \E j \in 1..m : k = n + j
  <2> SUFFICES ASSUME NEW k \in 1..n + m, k \notin 1..n PROVE \E j \in 1..m : k = n + j
    OBVIOUS
  <2>1. k - n \in 1..m /\ k = n + (k - n)
    BY <1>1
  <2> QED BY <2>1
<1> SUFFICES ASSUME NEW o
             PROVE  o \in Heard(told, src, c) <=> o \in Heard(Heard(told, src, d), src, e)
  BY <1>1 DEF c
<1>6. CASE Silent(src, e, o) /\ Silent(src, d, o)
  <2>1. Silent(src, c, o)
    BY <1>2, <1>3, <1>4, <1>5, <1>6 DEF Silent
  <2> QED BY <1>1, <1>6, <2>1, LastWordCounts
<1>7. CASE Silent(src, e, o) /\ ~Silent(src, d, o)
  <2>1. PICK k \in DOMAIN d : LastWord(src, d, o, k)
    BY <1>7, SomeLastWord
  <2>2. LastWord(src, c, o, k)
    <3>1. k \in DOMAIN c /\ Speaks(src, c[k], o)
      BY <1>2, <1>3, <2>1 DEF LastWord
    <3>2. ASSUME NEW l \in DOMAIN c, l > k PROVE ~Speaks(src, c[l], o)
      <4>1. CASE l \in 1..n
        BY <1>2, <1>3, <2>1, <3>2, <4>1 DEF LastWord
      <4>2. ASSUME NEW j \in 1..m, l = n + j PROVE ~Speaks(src, c[l], o)
        BY <1>2, <1>4, <1>7, <4>2 DEF Silent
      <4> QED BY <1>2, <1>5, <4>1, <4>2
    <3> QED BY <3>1, <3>2 DEF LastWord
  <2>3. c[k] = d[k]
    BY <1>2, <1>3
  <2> QED BY <1>1, <1>7, <2>1, <2>2, <2>3, LastWordCounts
<1>8. CASE ~Silent(src, e, o)
  <2>1. PICK k \in DOMAIN e : LastWord(src, e, o, k)
    BY <1>8, SomeLastWord
  <2>2. LastWord(src, c, o, n + k)
    <3>1. n + k \in DOMAIN c /\ Speaks(src, c[n + k], o)
      BY <1>2, <1>4, <2>1 DEF LastWord
    <3>2. ASSUME NEW l \in DOMAIN c, l > n + k PROVE ~Speaks(src, c[l], o)
      <4>1. l \notin 1..n
        BY <1>1, <1>2, <3>2
      <4>2. PICK j \in 1..m : l = n + j
        BY <1>2, <1>5, <4>1
      <4>3. j > k
        BY <1>1, <1>2, <3>2, <4>2
      <4> QED BY <1>2, <1>4, <2>1, <4>2, <4>3 DEF LastWord
    <3> QED BY <3>1, <3>2 DEF LastWord
  <2>3. c[n + k] = e[k]
    BY <1>2, <1>4
  <2> QED BY <1>1, <2>1, <2>2, <2>3, LastWordCounts
<1> QED BY <1>6, <1>7, <1>8

\* One edge, or none.
LEMMA HeardOne ==
  ASSUME NEW E, IsEdges(E), NEW e \in E, NEW src, NEW told
  PROVE  /\ <<e>> \in Seq(E)
         /\ e.act /\ ~e.message => Heard(told, src, <<e>>) = told \cup {Names(src, e)}
         /\ e.message => Heard(told, src, <<e>>) = told
         /\ ~e.act /\ ~e.message => Heard(told, src, <<e>>) = told \ {Names(src, e)}
<1>1. <<e>> \in Seq(E) /\ DOMAIN <<e>> = {1} /\ <<e>>[1] = e
  OBVIOUS
<1>2. e.act \in BOOLEAN /\ e.message \in BOOLEAN
  BY DEF IsEdges
<1>3. \A on \in BOOLEAN : Says(on, src, <<e>>) =
        IF e.act = on /\ ~e.message THEN {Names(src, e)} ELSE {}
  BY <1>1 DEF Says
<1> QED BY <1>1, <1>2, <1>3 DEF Heard

LEMMA HeardNone ==
  ASSUME NEW E, NEW src, NEW told
  PROVE  <<>> \in Seq(E) /\ Heard(told, src, <<>>) = told
<1>1. DOMAIN <<>> = {}
  OBVIOUS
<1>2. \A on : Says(on, src, <<>>) = {}
  BY <1>1 DEF Says
<1>3. <<>> \in Seq(E)
  OBVIOUS
<1> QED BY <1>2, <1>3, Zenon DEF Heard

-----------------------------------------------------------------------------
(* Alarms: the latch of a rule                                               *)

LatchType ==
  [used : BOOLEAN, active : BOOLEAN, type : {"none", "low", "high"}, prev : {None, 0, 1},
   base : {None} \cup 0..MaxCount, window : Nat, expiry : {None} \cup 0..MaxHold,
   confirm : {None} \cup 0..MaxHold, last : RuleSet \cup {NoRule}]
\* A latch in use has its rule; only a threshold tells a side, and has one while it is
\* active; only an edge or a motion is held.
LatchOk(l) ==
  /\ l \in LatchType
  /\ l.used <=> l.last \in RuleSet
  /\ l.active => l.used
  /\ IF l.last.kind = "threshold" THEN l.active => l.type # "none" ELSE l.type = "none"
  /\ l.expiry # None => IsEdge(l.last) \/ IsMotion(l.last)

\* What the latch of rule i has on at the backend.
On(i, l) ==
  IF l.active /\ ~IsEdge(l.last) THEN {Owner(i, l.last.tag, EdgeType(l))} ELSE {}

RuleEdges == {Edge(act, r, t) : act \in BOOLEAN, r \in RuleSet, t \in {"low", "high", "trigger"}}

\* An evaluation leaves a good latch, and its edges tell the backend just that.
Sound(i, l, out) ==
  /\ out = [rt |-> out.rt, edges |-> out.edges]
  /\ LatchOk(out.rt)
  /\ out.edges \in Seq(RuleEdges)
  /\ Heard(On(i, l), i, out.edges) = On(i, out.rt)

LEMMA RuleIs ==
  ASSUME NEW r \in RuleSet
  PROVE  /\ r.kind \in {"threshold", "state", "pulse", "rate"} /\ r.kind # "none" /\ r # NoRule
         /\ r.w1 \in BOOLEAN /\ r.on \in BOOLEAN /\ r.from \in {0, 1} /\ r.to \in {0, 1}
         /\ r.hold \in Nat /\ (r.kind # "threshold" => r.hold \in 0..MaxHold)
         /\ r.kind = "pulse" => ~r.w1
<1>1. NoRule.kind = "none"
  BY DEF NoRule
<1>2. MaxHold \in Nat
  BY AlarmAssumption
<1> QED BY <1>1, <1>2, EvalAssumption

LEMMA NoRuleIs == NoRule \notin RuleSet /\ NoRule.kind = "none"
BY RuleIs DEF NoRule

LEMMA RuleEdgesAre ==
  /\ IsEdges(RuleEdges)
  /\ \A act \in BOOLEAN, r \in RuleSet, t \in {"low", "high", "trigger"} :
       /\ Edge(act, r, t) \in RuleEdges
       /\ Edge(act, r, t).act = act
       /\ Edge(act, r, t).message <=> act /\ IsEdge(r)
       /\ \A i : Names(i, Edge(act, r, t)) = Owner(i, r.tag, t)
<1>1. \A act \in BOOLEAN, r \in RuleSet, t \in {"low", "high", "trigger"} :
        /\ Edge(act, r, t).act = act
        /\ Edge(act, r, t).message = (act /\ IsEdge(r))
        /\ \A i : Names(i, Edge(act, r, t)) = Owner(i, r.tag, t)
  BY DEF Edge, Names
<1>2. \A r : IsEdge(r) \in BOOLEAN
  BY DEF IsEdge
<1>3. IsEdges(RuleEdges)
  <2> SUFFICES ASSUME NEW e \in RuleEdges PROVE e.act \in BOOLEAN /\ e.message \in BOOLEAN
    BY DEF IsEdges
  <2>1. PICK act \in BOOLEAN, r \in RuleSet, t \in {"low", "high", "trigger"} : e = Edge(act, r, t)
    BY DEF RuleEdges
  <2>2. (act /\ IsEdge(r)) \in BOOLEAN
    BY <1>2
  <2> QED BY <1>1, <2>1, <2>2
<1>4. \A act \in BOOLEAN, r \in RuleSet, t \in {"low", "high", "trigger"} :
        Edge(act, r, t) \in RuleEdges
  BY DEF RuleEdges
<1>5. \A act \in BOOLEAN, r \in RuleSet, t \in {"low", "high", "trigger"} :
        Edge(act, r, t).message <=> act /\ IsEdge(r)
  BY <1>1, Zenon
<1> QED BY <1>1, <1>3, <1>4, <1>5, Zenon

\* One evaluation after another.
LEMMA SoundThen ==
  ASSUME NEW i, NEW l, NEW first, NEW out, Sound(i, l, first), Sound(i, first.rt, out)
  PROVE  Sound(i, l, After(first, out)) /\ After(first, out).rt = out.rt
<1> DEFINE a == After(first, out)
<1>1. a = [rt |-> out.rt, edges |-> first.edges \o out.edges]
  <2>1. PICK m, es : out = [rt |-> m, edges |-> es]
    BY DEF Sound
  <2>2. out.rt = m /\ out.edges = es
    BY <2>1
  <2>3. \A x : [out EXCEPT !.edges = x] = [rt |-> m, edges |-> x]
    BY <2>1
  <2> QED BY <2>2, <2>3, Zenon DEF After
<1>2. /\ first.edges \o out.edges \in Seq(RuleEdges)
      /\ Heard(On(i, l), i, first.edges \o out.edges) =
           Heard(Heard(On(i, l), i, first.edges), i, out.edges)
  BY RuleEdgesAre, HeardInOrder DEF Sound
<1> HIDE DEF a
<1>3. a.rt = out.rt /\ a.edges = first.edges \o out.edges /\ a = [rt |-> a.rt, edges |-> a.edges]
  BY <1>1
<1> QED BY <1>2, <1>3 DEF Sound, a

LEMMA SameSound ==
  ASSUME NEW i, NEW l, NEW m, LatchOk(m), On(i, m) = On(i, l)
  PROVE  Sound(i, l, Same(m)) /\ Same(m).rt = m
<1>1. Same(m).rt = m /\ Same(m).edges = <<>> /\ Same(m) = [rt |-> Same(m).rt, edges |-> Same(m).edges]
  BY DEF Same
<1>2. <<>> \in Seq(RuleEdges) /\ Heard(On(i, l), i, <<>>) = On(i, l)
  BY HeardNone
<1> QED BY <1>1, <1>2 DEF Sound

Off(m)     == [m EXCEPT !.active = FALSE]
Up(m)      == [m EXCEPT !.active = TRUE]
Like(m, l) == m.active = l.active /\ m.last = l.last /\ m.type = l.type
With(out, m) == [out EXCEPT !.rt = m]
Tells(m)   == [rt |-> m, edges |-> <<Edge(TRUE, m.last, EdgeType(m))>>]

\* A latch that is cleared under its rule and its type.
LEMMA ClearedSound ==
  ASSUME NEW i, NEW l, LatchOk(l), NEW m, LatchOk(m), Like(m, l), NEW t, l.active => t = EdgeType(l)
  PROVE  Sound(i, l, Cleared(m, l.last, t)) /\ Cleared(m, l.last, t).rt = Off(m)
<1> DEFINE c == Cleared(m, l.last, t)
           e == Edge(FALSE, l.last, t)
<1>1. /\ c.rt = Off(m) /\ c = [rt |-> c.rt, edges |-> c.edges]
      /\ c.edges = IF m.active THEN <<e>> ELSE <<>>
  BY DEF Cleared, Off
<1>2. LatchOk(c.rt) /\ c.rt.active = FALSE
  BY <1>1 DEF LatchOk, LatchType, Off
<1> HIDE DEF c
<1>3. On(i, c.rt) = {}
  BY <1>2 DEF On
<1>4. CASE ~l.active
  <2>1. On(i, l) = {} /\ c.edges = <<>>
    BY <1>1, <1>4 DEF On, Like
  <2> QED BY <1>1, <1>2, <1>3, <2>1, HeardNone DEF Sound, c
<1>5. CASE l.active
  <2>1. l.last \in RuleSet /\ t = EdgeType(l) /\ t \in {"low", "high", "trigger"}
    BY <1>5 DEF LatchOk, LatchType, EdgeType
  <2>2. e \in RuleEdges /\ ~e.act /\ ~e.message /\ Names(i, e) = Owner(i, l.last.tag, t)
    BY <2>1, RuleEdgesAre
  <2>3. c.edges = <<e>>
    BY <1>1, <1>5 DEF Like
  <2> HIDE DEF e
  <2>4. /\ <<e>> \in Seq(RuleEdges)
        /\ Heard(On(i, l), i, <<e>>) = On(i, l) \ {Owner(i, l.last.tag, t)}
    BY <2>2, RuleEdgesAre, HeardOne
  <2>5. Heard(On(i, l), i, <<e>>) = {}
    BY <2>1, <2>4 DEF On
  <2> QED BY <1>1, <1>2, <1>3, <2>3, <2>4, <2>5 DEF Sound, c
<1>6. l.active \in BOOLEAN
  BY DEF LatchOk, LatchType
<1> QED BY <1>1, <1>4, <1>5, <1>6 DEF c

\* A latch that has nothing on is raised under its rule and its type.
LEMMA RaisedSound ==
  ASSUME NEW i, NEW l, On(i, l) = {}, NEW m, LatchOk(m), m.active
  PROVE  Sound(i, l, Tells(m)) /\ Tells(m).rt = m
<1> DEFINE r == m.last
           t == EdgeType(m)
           e == Edge(TRUE, r, t)
<1>1. r \in RuleSet /\ t \in {"low", "high", "trigger"}
  BY DEF LatchOk, LatchType, EdgeType
<1>2. /\ e \in RuleEdges /\ e.act /\ Names(i, e) = Owner(i, r.tag, t)
      /\ e.message <=> IsEdge(r)
  <2>1. TRUE \in BOOLEAN
    OBVIOUS
  <2>2. \A rr \in RuleSet, tt \in {"low", "high", "trigger"} :
          /\ Edge(TRUE, rr, tt) \in RuleEdges
          /\ Edge(TRUE, rr, tt).act = TRUE
          /\ Edge(TRUE, rr, tt).message <=> IsEdge(rr)
          /\ Names(i, Edge(TRUE, rr, tt)) = Owner(i, rr.tag, tt)
    BY <2>1, RuleEdgesAre
  <2>3. /\ e \in RuleEdges /\ e.act = TRUE /\ Names(i, e) = Owner(i, r.tag, t)
        /\ e.message <=> IsEdge(r)
    BY <1>1, <2>2
  <2> QED BY <2>3
<1> HIDE DEF e
<1>3. /\ <<e>> \in Seq(RuleEdges)
      /\ Heard({}, i, <<e>>) = IF IsEdge(r) THEN {} ELSE {Owner(i, r.tag, t)}
  <2>1. CASE IsEdge(r)
    BY <1>2, <2>1, RuleEdgesAre, HeardOne
  <2>2. CASE ~IsEdge(r)
    <3>1. Heard({}, i, <<e>>) = {} \cup {Names(i, e)} /\ <<e>> \in Seq(RuleEdges)
      BY <1>2, <2>2, RuleEdgesAre, HeardOne
    <3> QED BY <1>2, <2>2, <3>1
  <2> QED BY <2>1, <2>2
<1>4. On(i, m) = IF IsEdge(r) THEN {} ELSE {Owner(i, r.tag, t)}
  BY DEF On
<1> DEFINE out == Tells(m)
<1>5. out.rt = m /\ out.edges = <<e>> /\ out = [rt |-> out.rt, edges |-> out.edges]
  BY DEF e, Tells
<1> HIDE DEF out
<1>6. Sound(i, l, out)
  BY <1>3, <1>4, <1>5 DEF Sound
<1> QED BY <1>5, <1>6 DEF out

\* What an evaluation sets beside the alarm.
LEMMA SetSound ==
  ASSUME NEW i, NEW l, NEW out, Sound(i, l, out), NEW m, LatchOk(m), On(i, m) = On(i, out.rt)
  PROVE  Sound(i, l, With(out, m)) /\ With(out, m).rt = m
<1>1. PICK n, es : out = [rt |-> n, edges |-> es]
  BY DEF Sound
<1> DEFINE o == With(out, m)
<1>2. o = [rt |-> m, edges |-> es] /\ out.edges = es
  BY <1>1 DEF With
<1> HIDE DEF o
<1>3. o.rt = m /\ o.edges = out.edges /\ o = [rt |-> o.rt, edges |-> o.edges]
  BY <1>2
<1>4. Sound(i, l, o)
  BY <1>3 DEF Sound
<1> QED BY <1>3, <1>4 DEF o

LEMMA TypeOfLatch ==
  ASSUME NEW l, LatchOk(l), l.last.kind # "threshold"
  PROVE  l.type = "none" /\ EdgeType(l) = "trigger"
BY DEF LatchOk, EdgeType

\* An alarm that is off, or that is a message, has nothing on.
LEMMA NothingOn ==
  ASSUME NEW i, NEW l, ~l.active \/ IsEdge(l.last)
  PROVE  On(i, l) = {}
BY DEF On

LEMMA OffIs ==
  ASSUME NEW m, LatchOk(m)
  PROVE  LatchOk(Off(m)) /\ ~Off(m).active /\ Off(m).last = m.last /\ \A i : On(i, Off(m)) = {}
<1>1. LatchOk(Off(m)) /\ ~Off(m).active /\ Off(m).last = m.last
  BY DEF LatchOk, LatchType, Off
<1> QED BY <1>1, NothingOn

LEMMA LikeOn ==
  ASSUME NEW i, NEW l, NEW m, Like(m, l)
  PROVE  On(i, m) = On(i, l)
BY DEF Like, On, EdgeType

LEMMA ThresholdSound ==
  ASSUME NEW i, NEW l, LatchOk(l), l.last \in RuleSet, l.last.kind = "threshold",
         NEW on \in BOOLEAN, NEW v \in Values \cup {None}
  PROVE  /\ Sound(i, l, Threshold(l, l.last, on, v))
         /\ Threshold(l, l.last, on, v).rt.last = l.last
<1> DEFINE r == l.last
           out == Threshold(l, r, on, v)
           want == Side(v)
           up == [Up(l) EXCEPT !.type = want]
           raise == [Raised(l, r, want) EXCEPT !.rt.type = want]
           first == Cleared(l, r, l.type)
<1>1. want \in {"none", "low", "high"}
  BY DEF Side
<1>2. l.active => l.type = EdgeType(l)
  BY DEF LatchOk, EdgeType
<1>3. l.active \in BOOLEAN /\ Sound(i, l, first) /\ first.rt = Off(l)
  <2>1. l.active \in BOOLEAN
    BY DEF LatchOk, LatchType
  <2>2. Like(l, l)
    BY DEF Like
  <2> QED BY <1>2, <2>1, <2>2, ClearedSound
<1>4. want # "none" => LatchOk(up) /\ up.active /\ up.last = r /\ want = EdgeType(up)
  BY <1>1 DEF LatchOk, LatchType, EdgeType, Up
<1>5. want # "none" => raise = Tells(up)
  <2> DEFINE es == <<Edge(TRUE, r, want)>>
             n == Up(l)
  <2>1. Raised(l, r, want) = [rt |-> n, edges |-> es]
    BY DEF Raised, Up
  <2>2. want # "none" => Tells(up) = [rt |-> up, edges |-> es]
    BY <1>4 DEF Tells
  <2> HIDE DEF es, n
  <2>3. raise = [rt |-> [n EXCEPT !.type = want], edges |-> es]
    BY <2>1
  <2> QED BY <2>2, <2>3 DEF n
<1> HIDE DEF first, raise, up, want
<1>6. ASSUME NEW m, On(i, m) = {}, want # "none" PROVE Sound(i, m, raise) /\ raise.rt.last = r
  BY <1>4, <1>5, <1>6, RaisedSound
<1>7. Off(l).last = r /\ LatchOk(Off(l)) /\ On(i, Off(l)) = {}
  BY OffIs
<1>8. CASE ~on \/ v = None
  <2>1. out = first
    BY <1>8 DEF Threshold, first
  <2> QED BY <1>3, <1>7, <2>1
<1>9. CASE on /\ v # None /\ ~l.active /\ want = "none"
  <2>1. out = Same(l)
    BY <1>9 DEF Threshold, want
  <2> QED BY <2>1, SameSound
<1>10. CASE on /\ v # None /\ ~l.active /\ want # "none"
  <2>1. out = raise
    BY <1>10 DEF Threshold, want, raise
  <2> QED BY <1>6, <1>10, <2>1, NothingOn
<1>11. CASE on /\ v # None /\ l.active
  <2>1. \/ out = Same(l)
        \/ want = "none" /\ out = After(first, Same(Off(l)))
        \/ want # "none" /\ out = After(first, raise)
    BY <1>11 DEF Threshold, first, want, raise, Off
  <2>2. CASE out = Same(l)
    BY <2>2, SameSound
  <2>3. CASE want = "none" /\ out = After(first, Same(Off(l)))
    <3>1. Sound(i, first.rt, Same(Off(l))) /\ Same(Off(l)).rt = Off(l)
      BY <1>3, <1>7, SameSound
    <3>2. Sound(i, l, out) /\ out.rt = Same(Off(l)).rt
      BY <1>3, <2>3, <3>1, SoundThen
    <3> QED BY <1>7, <3>1, <3>2
  <2>4. CASE want # "none" /\ out = After(first, raise)
    <3>1. Sound(i, first.rt, raise) /\ raise.rt.last = r
      BY <1>3, <1>6, <1>7, <2>4
    <3>2. Sound(i, l, out) /\ out.rt = raise.rt
      BY <1>3, <2>4, <3>1, SoundThen
    <3> QED BY <3>1, <3>2
  <2> QED BY <2>1, <2>2, <2>3, <2>4
<1> QED BY <1>3, <1>8, <1>9, <1>10, <1>11

LEMMA DisabledSound ==
  ASSUME NEW i, NEW l, LatchOk(l), l.last.kind # "threshold", NEW cur \in {0, 1}
  PROVE  Sound(i, l, Disabled(l, l.last, cur)) /\ Disabled(l, l.last, cur).rt.last = l.last
<1> DEFINE out == Cleared(l, l.last, "trigger")
           lat == [out.rt EXCEPT !.confirm = None, !.prev = cur]
           m == IF l.active THEN [lat EXCEPT !.expiry = None] ELSE lat
<1>1. Sound(i, l, out) /\ out.rt = Off(l)
  <2>1. EdgeType(l) = "trigger" /\ Like(l, l)
    BY TypeOfLatch DEF Like
  <2> QED BY <2>1, ClearedSound
<1>2. LatchOk(m) /\ ~m.active /\ m.last = l.last
  BY <1>1 DEF LatchOk, LatchType, Off
<1>3. Disabled(l, l.last, cur) = With(out, m)
  BY DEF Disabled, With
<1> HIDE DEF m, out
<1>4. On(i, m) = On(i, out.rt)
  BY <1>1, <1>2, NothingOn, OffIs
<1>5. Sound(i, l, With(out, m)) /\ With(out, m).rt = m
  BY <1>1, <1>2, <1>4, SetSound
<1> QED BY <1>2, <1>3, <1>5

LEMMA StillnessSound ==
  ASSUME NEW i, NEW l, LatchOk(l), l.last \in RuleSet, l.last.kind = "pulse", NEW cur \in {0, 1}
  PROVE  Sound(i, l, Stillness(l, l.last, cur)) /\ Stillness(l, l.last, cur).rt.last = l.last
<1> DEFINE m == [l EXCEPT !.confirm = l.last.hold, !.prev = cur]
           n == [l EXCEPT !.prev = cur]
<1>1. l.last.hold \in 0..MaxHold
  BY RuleIs
<1>2. LatchOk(m) /\ Like(m, l)
  BY <1>1 DEF LatchOk, LatchType, Like
<1>3. LatchOk(n) /\ Like(n, l)
  BY DEF LatchOk, LatchType, Like
<1>4. Stillness(l, l.last, cur) = IF cur = 1 THEN Cleared(m, l.last, "trigger") ELSE Same(n)
  BY DEF Stillness
<1> HIDE DEF m, n
<1>5. Sound(i, l, Same(n)) /\ Same(n).rt.last = l.last
  BY <1>3, LikeOn, SameSound DEF Like
<1>6. "trigger" = EdgeType(l)
  BY TypeOfLatch
<1>7. Sound(i, l, Cleared(m, l.last, "trigger")) /\ Cleared(m, l.last, "trigger").rt = Off(m)
  BY <1>2, <1>6, ClearedSound
<1>8. Off(m).last = l.last
  BY <1>2, OffIs DEF Like
<1> QED BY <1>4, <1>5, <1>7, <1>8

\* A hold that is over, of an edge rule ended without an edge.
Hushed(out) == [out EXCEPT !.edges = <<>>]
Expired(l)  == [l EXCEPT !.expiry = None]

LEMMA ExpiredIs ==
  ASSUME NEW l, LatchOk(l)
  PROVE  LatchOk(Expired(l)) /\ Like(Expired(l), l)
BY DEF LatchOk, LatchType, Like, Expired

LEMMA HushedSound ==
  ASSUME NEW i, NEW l, NEW out, Sound(i, l, out), On(i, l) = {}, On(i, out.rt) = {}
  PROVE  Sound(i, l, Hushed(out)) /\ Hushed(out).rt = out.rt
<1>1. PICK m, es : out = [rt |-> m, edges |-> es]
  BY DEF Sound
<1>2. out.rt = m /\ Hushed(out) = [rt |-> m, edges |-> <<>>]
  BY <1>1 DEF Hushed
<1>3. Hushed(out) = Same(m) /\ LatchOk(m)
  BY <1>2 DEF Same, Sound
<1> QED BY <1>2, <1>3, SameSound

\* The end of a hold, told unless the rule is an edge.
LEMMA EndSound ==
  ASSUME NEW i, NEW l, LatchOk(l), l.last.kind # "threshold"
  PROVE  LET out == Cleared(Expired(l), l.last, "trigger") IN
         /\ Sound(i, l, out) /\ out.rt = Off(Expired(l)) /\ out.rt.last = l.last
         /\ IsEdge(l.last) \/ ~l.active =>
              Sound(i, l, Hushed(out)) /\ Hushed(out).rt = Off(Expired(l))
<1> DEFINE out == Cleared(Expired(l), l.last, "trigger")
<1>1. "trigger" = EdgeType(l)
  BY TypeOfLatch
<1>2. Sound(i, l, out) /\ out.rt = Off(Expired(l))
  BY <1>1, ExpiredIs, ClearedSound
<1>3. Off(Expired(l)).last = l.last /\ On(i, Off(Expired(l))) = {}
  BY ExpiredIs, OffIs DEF Like
<1> HIDE DEF out
<1>4. ASSUME IsEdge(l.last) \/ ~l.active
      PROVE  Sound(i, l, Hushed(out)) /\ Hushed(out).rt = Off(Expired(l))
  <2>1. On(i, l) = {}
    BY <1>4, NothingOn
  <2> QED BY <1>2, <1>3, <2>1, HushedSound
<1> QED BY <1>2, <1>3, <1>4 DEF out

LEMMA LapsedSound ==
  ASSUME NEW i, NEW l, LatchOk(l), l.last.kind # "threshold"
  PROVE  Sound(i, l, Lapsed(l, l.last)) /\ Lapsed(l, l.last).rt.last = l.last
<1> DEFINE out == Cleared(Expired(l), l.last, "trigger")
<1>1. \/ Lapsed(l, l.last) = Same(l)
      \/ ~IsEdge(l.last) /\ Lapsed(l, l.last) = out
      \/ IsEdge(l.last) /\ Lapsed(l, l.last) = Hushed(out)
  BY DEF Lapsed, Hushed, Expired
<1>2. Sound(i, l, Same(l)) /\ Same(l).rt = l
  BY SameSound
<1>3. /\ Sound(i, l, out) /\ out.rt.last = l.last /\ out.rt = Off(Expired(l))
      /\ IsEdge(l.last) => Sound(i, l, Hushed(out)) /\ Hushed(out).rt = Off(Expired(l))
  BY EndSound
<1> HIDE DEF out
<1> QED BY <1>1, <1>2, <1>3

LEMMA PulseSound ==
  ASSUME NEW i, NEW l, LatchOk(l), l.last \in RuleSet, l.last.kind = "pulse",
         ~IsStillness(l.last), NEW cur \in {0, 1}
  PROVE  Sound(i, l, Pulse(l, l.last, cur)) /\ Pulse(l, l.last, cur).rt.last = l.last
<1> DEFINE r == l.last
           first == Lapsed(l, r)
           m == [first.rt EXCEPT !.prev = cur]
           up == [Up(m) EXCEPT !.expiry = r.hold]
           more == [m EXCEPT !.expiry = r.hold]
           raise == [Raised(m, r, "trigger") EXCEPT !.rt.expiry = r.hold]
           then == IF cur = 1 /\ ~m.active THEN raise
                   ELSE IF cur = 1 /\ ~IsEdge(r) THEN Same(more) ELSE Same(m)
<1>1. Sound(i, l, first) /\ LatchOk(first.rt) /\ first.rt.last = r
  BY LapsedSound DEF Sound
<1>2. Pulse(l, r, cur) = After(first, then)
  BY DEF Pulse
<1>3. r.hold \in 0..MaxHold /\ (IsEdge(r) \/ IsMotion(r))
  BY RuleIs DEF IsEdge, IsMotion, IsStillness
<1> HIDE DEF first
<1>4. LatchOk(m) /\ Like(m, first.rt) /\ m.last = r /\ On(i, m) = On(i, first.rt)
  <2>1. LatchOk(m) /\ Like(m, first.rt) /\ m.last = r
    BY <1>1 DEF LatchOk, LatchType, Like
  <2> QED BY <2>1, LikeOn
<1> HIDE DEF m
<1>5. LatchOk(up) /\ up.active /\ up.last = r
  BY <1>3, <1>4 DEF LatchOk, LatchType, Up
<1>6. LatchOk(more) /\ Like(more, m) /\ more.last = r
  BY <1>3, <1>4 DEF LatchOk, LatchType, Like
<1>7. raise = Tells(up)
  <2> DEFINE es == <<Edge(TRUE, r, "trigger")>>
             n == Up(m)
  <2>1. Raised(m, r, "trigger") = [rt |-> n, edges |-> es]
    BY DEF Raised, Up
  <2>2. EdgeType(up) = "trigger"
    BY <1>5, TypeOfLatch
  <2>3. Tells(up) = [rt |-> up, edges |-> es]
    BY <1>5, <2>2 DEF Tells
  <2> HIDE DEF es, n
  <2>4. raise = [rt |-> [n EXCEPT !.expiry = r.hold], edges |-> es]
    BY <2>1
  <2> QED BY <2>3, <2>4 DEF n
<1> HIDE DEF up, more, raise
<1>8. Sound(i, first.rt, then) /\ then.rt.last = r
  <2>1. CASE cur = 1 /\ ~m.active
    <3>1. On(i, first.rt) = {}
      BY <1>4, <2>1, NothingOn
    <3>2. Sound(i, first.rt, raise) /\ raise.rt = up
      BY <1>5, <1>7, <3>1, RaisedSound
    <3> QED BY <1>5, <2>1, <3>2
  <2>2. CASE ~(cur = 1 /\ ~m.active) /\ cur = 1 /\ ~IsEdge(r)
    <3>1. On(i, more) = On(i, first.rt)
      BY <1>4, <1>6, LikeOn
    <3>2. Sound(i, first.rt, Same(more)) /\ Same(more).rt = more
      BY <1>6, <3>1, SameSound
    <3> QED BY <1>6, <2>2, <3>2
  <2>3. CASE ~(cur = 1 /\ ~m.active) /\ ~(cur = 1 /\ ~IsEdge(r))
    <3>1. Sound(i, first.rt, Same(m)) /\ Same(m).rt = m
      BY <1>4, SameSound
    <3> QED BY <1>4, <2>3, <3>1
  <2> QED BY <2>1, <2>2, <2>3
<1> HIDE DEF then
<1> QED BY <1>1, <1>2, <1>8, SoundThen

LEMMA EdgeRuleSound ==
  ASSUME NEW i, NEW l, LatchOk(l), l.last \in RuleSet, l.last.kind = "state", IsEdge(l.last),
         NEW cur \in {0, 1}
  PROVE  Sound(i, l, EdgeRule(l, l.last, cur)) /\ EdgeRule(l, l.last, cur).rt.last = l.last
<1> DEFINE r == l.last
           out == EdgeRule(l, r, cur)
           m == [l EXCEPT !.prev = cur]
           stop == [m EXCEPT !.confirm = None]
           now == [Raised(m, r, "trigger") EXCEPT !.rt.expiry = 0]
           after == [Raised(stop, r, "trigger") EXCEPT !.rt.expiry = r.hold]
           up0 == [Up(m) EXCEPT !.expiry = 0]
           up1 == [Up(stop) EXCEPT !.expiry = r.hold]
           wait == [m EXCEPT !.confirm = r.hold]
<1>1. r.hold \in 0..MaxHold /\ 0 \in 0..MaxHold
  BY RuleIs, AlarmAssumption
<1>2. LatchOk(m) /\ m.last = r /\ On(i, l) = {}
  <2>1. LatchOk(m) /\ m.last = r
    BY DEF LatchOk, LatchType
  <2> QED BY <2>1, NothingOn
<1>3. out \in {now, Same(wait), Same(stop), after, Same(m)}
  BY DEF EdgeRule
<1> HIDE DEF out, m
<1>4. LatchOk(up0) /\ up0.active /\ up0.last = r
  BY <1>1, <1>2 DEF LatchOk, LatchType, Up
<1>5. LatchOk(up1) /\ up1.active /\ up1.last = r
  BY <1>1, <1>2 DEF LatchOk, LatchType, Up
<1>6. LatchOk(wait) /\ wait.last = r
  BY <1>1, <1>2 DEF LatchOk, LatchType
<1>7. LatchOk(stop) /\ stop.last = r
  BY <1>2 DEF LatchOk, LatchType
<1>8. now = Tells(up0) /\ after = Tells(up1)
  <2> DEFINE es == <<Edge(TRUE, r, "trigger")>>
             n == Up(m)
             o == Up(stop)
  <2>1. /\ Raised(m, r, "trigger") = [rt |-> n, edges |-> es]
        /\ Raised(stop, r, "trigger") = [rt |-> o, edges |-> es]
    BY DEF Raised, Up
  <2>2. EdgeType(up0) = "trigger" /\ EdgeType(up1) = "trigger"
    BY <1>4, <1>5, TypeOfLatch
  <2>3. Tells(up0) = [rt |-> up0, edges |-> es]
    BY <1>4, <2>2 DEF Tells
  <2>4. Tells(up1) = [rt |-> up1, edges |-> es]
    BY <1>5, <2>2 DEF Tells
  <2> HIDE DEF es, n, o
  <2>5. now = [rt |-> [n EXCEPT !.expiry = 0], edges |-> es]
    BY <2>1
  <2>6. after = [rt |-> [o EXCEPT !.expiry = r.hold], edges |-> es]
    BY <2>1
  <2> QED BY <2>3, <2>4, <2>5, <2>6 DEF n, o
<1> HIDE DEF now, after, up0, up1, wait, stop
<1>9. ASSUME NEW n, LatchOk(n), n.last = r PROVE Sound(i, l, Same(n)) /\ Same(n).rt.last = r
  <2>1. On(i, n) = {}
    BY <1>9, NothingOn
  <2> QED BY <1>2, <1>9, <2>1, SameSound
<1>10. /\ Sound(i, l, Tells(up0)) /\ Tells(up0).rt = up0
       /\ Sound(i, l, Tells(up1)) /\ Tells(up1).rt = up1
  BY <1>2, <1>4, <1>5, RaisedSound
<1>11. CASE out \in {now, after}
  BY <1>4, <1>5, <1>8, <1>10, <1>11 DEF out
<1>12. CASE out \in {Same(wait), Same(stop), Same(m)}
  BY <1>2, <1>6, <1>7, <1>9, <1>12 DEF out
<1> QED BY <1>3, <1>11, <1>12

LEMMA LevelRuleSound ==
  ASSUME NEW i, NEW l, LatchOk(l), l.last \in RuleSet, l.last.kind = "state", ~IsEdge(l.last),
         NEW cur \in {0, 1}
  PROVE  Sound(i, l, LevelRule(l, l.last, cur)) /\ LevelRule(l, l.last, cur).rt.last = l.last
<1> DEFINE r == l.last
           out == LevelRule(l, r, cur)
           m == [l EXCEPT !.prev = cur]
           stop == [m EXCEPT !.confirm = None]
           wait == [m EXCEPT !.confirm = IF @ = None THEN r.hold ELSE @]
           raise == [Raised(m, r, "trigger") EXCEPT
                       !.rt.confirm = IF r.hold = 0 THEN @ ELSE None]
           up == [Up(m) EXCEPT !.confirm = IF r.hold = 0 THEN @ ELSE None]
           down == Cleared(stop, r, "trigger")
<1>1. r.hold \in 0..MaxHold
  BY RuleIs
<1>2. LatchOk(m) /\ Like(m, l) /\ m.last = r /\ On(i, m) = On(i, l)
  <2>1. LatchOk(m) /\ Like(m, l) /\ m.last = r
    BY DEF LatchOk, LatchType, Like
  <2> QED BY <2>1, LikeOn
<1>3. \/ out = down
      \/ out = Same(m)
      \/ ~m.active /\ out = raise
      \/ out = Same(wait)
  BY DEF LevelRule
<1> HIDE DEF out, m
<1>4. LatchOk(stop) /\ Like(stop, l) /\ stop.last = r
  BY <1>2 DEF LatchOk, LatchType, Like
<1>5. LatchOk(wait) /\ Like(wait, l) /\ wait.last = r
  BY <1>1, <1>2 DEF LatchOk, LatchType, Like
<1>6. LatchOk(up) /\ up.active /\ up.last = r
  BY <1>2 DEF LatchOk, LatchType, Up
<1>7. raise = Tells(up)
  <2> DEFINE es == <<Edge(TRUE, r, "trigger")>>
             n == Up(m)
  <2>1. Raised(m, r, "trigger") = [rt |-> n, edges |-> es]
    BY DEF Raised, Up
  <2>2. EdgeType(up) = "trigger"
    BY <1>6, TypeOfLatch
  <2>3. Tells(up) = [rt |-> up, edges |-> es]
    BY <1>6, <2>2 DEF Tells
  <2> HIDE DEF es, n
  <2>4. raise = [rt |-> [n EXCEPT !.confirm = IF r.hold = 0 THEN @ ELSE None], edges |-> es]
    BY <2>1
  <2> QED BY <2>3, <2>4 DEF n
<1>8. Sound(i, l, down) /\ down.rt.last = r
  <2>1. "trigger" = EdgeType(l)
    BY TypeOfLatch
  <2> HIDE DEF stop
  <2>2. Sound(i, l, down) /\ down.rt = Off(stop)
    BY <1>4, <2>1, ClearedSound
  <2> QED BY <1>4, <2>2, OffIs
<1> HIDE DEF up, raise, down, stop, wait
<1>9. ~m.active => Sound(i, l, raise) /\ raise.rt.last = r
  <2> SUFFICES ASSUME ~m.active PROVE Sound(i, l, raise) /\ raise.rt.last = r
    OBVIOUS
  <2>1. On(i, l) = {}
    BY <1>2, NothingOn
  <2> QED BY <1>6, <1>7, <2>1, RaisedSound
<1>10. Sound(i, l, Same(m)) /\ Same(m).rt.last = r
  BY <1>2, SameSound
<1>11. Sound(i, l, Same(wait)) /\ Same(wait).rt.last = r
  BY <1>5, LikeOn, SameSound
<1> QED BY <1>3, <1>8, <1>9, <1>10, <1>11 DEF out

LEMMA StateSound ==
  ASSUME NEW i, NEW l, LatchOk(l), l.last \in RuleSet, l.last.kind \in {"state", "pulse"},
         NEW on \in BOOLEAN, NEW cur \in {0, 1}
  PROVE  Sound(i, l, State(l, l.last, on, cur)) /\ State(l, l.last, on, cur).rt.last = l.last
<1>1. CASE ~on
  BY <1>1, DisabledSound DEF State
<1>2. CASE on /\ IsStillness(l.last)
  BY <1>2, StillnessSound DEF State, IsStillness
<1>3. CASE on /\ ~IsStillness(l.last) /\ l.last.kind = "pulse"
  BY <1>3, PulseSound DEF State
<1>4. CASE on /\ ~IsStillness(l.last) /\ l.last.kind # "pulse" /\ IsEdge(l.last)
  BY <1>4, EdgeRuleSound DEF State
<1>5. CASE on /\ ~IsStillness(l.last) /\ l.last.kind # "pulse" /\ ~IsEdge(l.last)
  BY <1>5, LevelRuleSound DEF State
<1> QED BY <1>1, <1>2, <1>3, <1>4, <1>5

LEMMA CountSound ==
  ASSUME NEW i, NEW l, LatchOk(l), l.last \in RuleSet, l.last.kind = "rate",
         NEW on \in BOOLEAN, NEW cur \in 0..MaxCount
  PROVE  Sound(i, l, Count(l, l.last, on, cur)) /\ Count(l, l.last, on, cur).rt.last = l.last
<1> DEFINE r == l.last
           out == Count(l, r, on, cur)
           m == [l EXCEPT !.base = cur, !.window = 0]
           up == Up(m)
           down == Cleared(m, r, "trigger")
<1>1. LatchOk(m) /\ Like(m, l) /\ m.last = r
  BY DEF LatchOk, LatchType, Like
<1>2. \/ out = down
      \/ out = Same(m)
      \/ out = Same(l)
      \/ ~l.active /\ out = Raised(m, r, "trigger")
  BY DEF Count
<1> HIDE DEF out, m
<1>3. LatchOk(up) /\ up.active /\ up.last = r
  BY <1>1 DEF LatchOk, LatchType, Up
<1>4. Raised(m, r, "trigger") = Tells(up)
  <2>1. EdgeType(up) = "trigger"
    BY <1>3, TypeOfLatch
  <2> QED BY <1>3, <2>1 DEF Tells, Raised, Up
<1>5. Sound(i, l, down) /\ down.rt.last = r
  <2>1. "trigger" = EdgeType(l)
    BY TypeOfLatch
  <2>2. Sound(i, l, down) /\ down.rt = Off(m)
    BY <1>1, <2>1, ClearedSound
  <2> QED BY <1>1, <2>2, OffIs
<1>6. ~l.active => Sound(i, l, Raised(m, r, "trigger")) /\ Raised(m, r, "trigger").rt.last = r
  BY <1>3, <1>4, NothingOn, RaisedSound
<1>7. Sound(i, l, Same(m)) /\ Same(m).rt.last = r
  BY <1>1, LikeOn, SameSound
<1>8. Sound(i, l, Same(l)) /\ Same(l).rt.last = r
  BY SameSound
<1> HIDE DEF down
<1> QED BY <1>2, <1>5, <1>6, <1>7, <1>8 DEF out

\* What the poll reads is in range.
InputsOk(in) == in.value \in Values \cup {None} /\ in.level \in {0, 1} /\ in.count \in 0..MaxCount

LEMMA EvalRuleSound ==
  ASSUME NEW i, NEW l, LatchOk(l), l.last \in RuleSet,
         NEW on \in BOOLEAN, NEW reads \in BOOLEAN, NEW in, InputsOk(in)
  PROVE  /\ Sound(i, l, EvalRule(l, l.last, on, reads, in))
         /\ EvalRule(l, l.last, on, reads, in).rt.last = l.last
<1> DEFINE r == l.last
           out == EvalRule(l, r, on, reads, in)
           v == IF reads THEN in.value ELSE None
           cur == IF reads THEN in.level ELSE IF l.prev = 1 THEN 1 ELSE 0
<1>1. v \in Values \cup {None} /\ cur \in {0, 1} /\ in.count \in 0..MaxCount
  BY DEF InputsOk
<1>2. r.kind \in {"threshold", "state", "pulse", "rate"}
  BY RuleIs
<1> HIDE DEF v, cur
<1>3. Sound(i, l, Same(l)) /\ Same(l).rt.last = r
  BY SameSound
<1>4. CASE r.kind = "threshold"
  <2>1. out = Threshold(l, r, on, v)
    BY <1>4 DEF EvalRule, v
  <2>2. Sound(i, l, Threshold(l, r, on, v)) /\ Threshold(l, r, on, v).rt.last = r
    BY <1>1, <1>4, ThresholdSound
  <2> HIDE DEF out
  <2> QED BY <2>1, <2>2 DEF out
<1>5. CASE r.kind = "rate"
  <2>1. out = Count(l, r, on, in.count)
    BY <1>5 DEF EvalRule
  <2>2. Sound(i, l, Count(l, r, on, in.count)) /\ Count(l, r, on, in.count).rt.last = r
    BY <1>1, <1>5, CountSound
  <2> HIDE DEF out
  <2> QED BY <2>1, <2>2 DEF out
<1>6. CASE r.kind = "state"
  <2>1. out = State(l, r, on, cur) \/ out = Same(l)
    BY <1>6 DEF EvalRule, cur
  <2>2. Sound(i, l, State(l, r, on, cur)) /\ State(l, r, on, cur).rt.last = r
    BY <1>1, <1>6, StateSound
  <2> HIDE DEF out
  <2> QED BY <1>3, <2>1, <2>2 DEF out
<1>7. CASE r.kind = "pulse"
  <2>1. out = Same(l)
    BY <1>7 DEF EvalRule
  <2> QED BY <1>3, <2>1
<1> QED BY <1>2, <1>4, <1>5, <1>6, <1>7

LEMMA QuietSound ==
  ASSUME NEW i, NEW l, LatchOk(l), l.used, NEW armed \in BOOLEAN
  PROVE  Sound(i, l, Quiet(l, armed)) /\ Quiet(l, armed).rt.last = l.last
<1> DEFINE r == l.last
           out == Quiet(l, armed)
           wait == [l EXCEPT !.confirm = r.hold]
           raise == [Raised(l, r, "trigger") EXCEPT !.rt.confirm = None]
           up == [Up(l) EXCEPT !.confirm = None]
<1>1. r \in RuleSet
  BY DEF LatchOk
<1>2. r.kind = "pulse" => r.hold \in 0..MaxHold
  BY <1>1, RuleIs
<1>3. Sound(i, l, Same(l)) /\ Same(l).rt.last = r
  BY SameSound
<1>4. CASE ~IsStillness(r) \/ l.active \/ ~armed
  <2>1. out = Same(l)
    BY <1>4 DEF Quiet
  <2> QED BY <1>3, <2>1
<1>5. CASE IsStillness(r) /\ ~l.active /\ armed
  <2>1. r.kind = "pulse"
    BY <1>5 DEF IsStillness
  <2>2. out \in {Same(wait), raise, Same(l)}
    BY <1>5 DEF Quiet
  <2>3. LatchOk(wait) /\ Like(wait, l) /\ wait.last = r
    BY <1>2, <2>1 DEF LatchOk, LatchType, Like
  <2>4. LatchOk(up) /\ up.active /\ up.last = r
    BY <1>1, <2>1 DEF LatchOk, LatchType, Up
  <2>5. raise = Tells(up)
    <3> DEFINE es == <<Edge(TRUE, r, "trigger")>>
               n == Up(l)
    <3>1. Raised(l, r, "trigger") = [rt |-> n, edges |-> es]
      BY DEF Raised, Up
    <3>2. EdgeType(up) = "trigger"
      BY <2>1, <2>4, TypeOfLatch
    <3>3. Tells(up) = [rt |-> up, edges |-> es]
      BY <2>4, <3>2 DEF Tells
    <3> HIDE DEF es, n
    <3>4. raise = [rt |-> [n EXCEPT !.confirm = None], edges |-> es]
      BY <3>1
    <3> QED BY <3>3, <3>4 DEF n
  <2> HIDE DEF out, wait, raise, up
  <2>6. Sound(i, l, raise) /\ raise.rt.last = r
    BY <1>5, <2>4, <2>5, NothingOn, RaisedSound
  <2>7. Sound(i, l, Same(wait)) /\ Same(wait).rt.last = r
    BY <2>3, LikeOn, SameSound
  <2> QED BY <1>3, <2>2, <2>6, <2>7 DEF out
<1>6. l.active \in BOOLEAN
  BY DEF LatchOk, LatchType
<1> QED BY <1>4, <1>5, <1>6

LEMMA HoldOverSound ==
  ASSUME NEW i, NEW l, LatchOk(l)
  PROVE  Sound(i, l, HoldOver(l)) /\ HoldOver(l).rt.last = l.last
<1> DEFINE out == Cleared(Expired(l), l.last, "trigger")
<1>1. CASE l.expiry # 0
  BY <1>1, SameSound DEF HoldOver
<1>2. CASE l.expiry = 0
  <2>1. IsEdge(l.last) \/ IsMotion(l.last)
    BY <1>2 DEF LatchOk, None
  <2>2. l.last.kind # "threshold"
    BY <2>1 DEF IsEdge, IsMotion
  <2>3. HoldOver(l) = IF IsMotion(l.last) THEN out ELSE Hushed(out)
    BY <1>2 DEF HoldOver, Hushed, Expired
  <2>4. /\ Sound(i, l, out) /\ out.rt.last = l.last /\ out.rt = Off(Expired(l))
        /\ IsEdge(l.last) => Sound(i, l, Hushed(out)) /\ Hushed(out).rt = Off(Expired(l))
    BY <2>2, EndSound
  <2> HIDE DEF out
  <2>5. CASE IsMotion(l.last)
    BY <2>3, <2>4, <2>5
  <2>6. CASE ~IsMotion(l.last)
    BY <2>1, <2>3, <2>4, <2>6
  <2> QED BY <2>5, <2>6
<1> QED BY <1>1, <1>2

LEMMA SweepSound ==
  ASSUME NEW i, NEW l, LatchOk(l), NEW armed \in BOOLEAN
  PROVE  Sound(i, l, Sweep(l, armed)) /\ Sweep(l, armed).rt.last = l.last
<1>1. CASE ~l.used
  BY <1>1, SameSound DEF Sweep
<1>2. CASE l.used
  <2> DEFINE first == Quiet(l, armed)
             then == HoldOver(first.rt)
  <2>1. Sound(i, l, first) /\ first.rt.last = l.last /\ LatchOk(first.rt)
    BY <1>2, QuietSound DEF Sound
  <2> HIDE DEF first
  <2>2. Sound(i, first.rt, then) /\ then.rt.last = l.last
    BY <2>1, HoldOverSound
  <2>3. Sweep(l, armed) = After(first, then)
    BY <1>2 DEF Sweep, first
  <2> HIDE DEF then
  <2>4. Sound(i, l, After(first, then)) /\ After(first, then).rt = then.rt
    BY <2>1, <2>2, SoundThen
  <2> QED BY <2>2, <2>3, <2>4
<1> QED BY <1>1, <1>2

LEMMA SyncedSound ==
  ASSUME NEW i, NEW l, LatchOk(l), NEW r \in RuleSet \cup {NoRule}
  PROVE  /\ Sound(i, l, Synced(l, r)) /\ Synced(l, r).rt.last = r
         /\ Synced(l, r) = Same(l) \/ ~Synced(l, r).rt.active
<1> DEFINE ended == Cleared(l, l.last, EdgeType(l))
           fresh == IF r = NoRule THEN NoLatch ELSE [NoLatch EXCEPT !.used = TRUE, !.last = r]
<1>1. Sound(i, l, ended) /\ ended.rt = Off(l) /\ On(i, Off(l)) = {}
  <2>1. Like(l, l)
    BY DEF Like
  <2> QED BY <2>1, ClearedSound, OffIs
<1>2. LatchOk(fresh) /\ ~fresh.active /\ fresh.last = r
  <2>1. NoRule \notin RuleSet /\ NoRule.kind = "none"
    BY NoRuleIs
  <2>2. 0 \in Nat
    OBVIOUS
  <2> QED BY <2>1, <2>2 DEF LatchOk, LatchType, NoLatch, None
<1>3. \/ r # NoRule /\ l.last = r /\ Synced(l, r) = Same(l)
      \/ Synced(l, r) = With(ended, fresh)
  BY DEF Synced, With
<1> HIDE DEF ended, fresh
<1>4. On(i, fresh) = {}
  BY <1>2, NothingOn
<1>5. Sound(i, l, With(ended, fresh)) /\ With(ended, fresh).rt = fresh
  BY <1>1, <1>2, <1>4, SetSound
<1>6. Sound(i, l, Same(l)) /\ Same(l).rt = l
  BY SameSound
<1> QED BY <1>2, <1>3, <1>5, <1>6

-----------------------------------------------------------------------------
(* Alarms: what the edges of all sources leave on                            *)

\* The pieces of the alarms that are told and that do not touch each other.
Apart(K, B, F, T) ==
  \A k, j \in K : k # j => (B[k] \cup F[k] \cup T[k]) \cap (B[j] \cup F[j] \cup T[j]) = {}
LEMMA Pieces ==
  ASSUME NEW K, NEW B, NEW F, NEW T, Apart(K, B, F, T)
  PROVE  ((UNION {B[k] : k \in K}) \ (UNION {F[k] : k \in K})) \cup (UNION {T[k] : k \in K})
           = (UNION {(B[k] \ F[k]) \cup T[k] : k \in K})
<1> SUFFICES ASSUME NEW o
             PROVE  (((\E k \in K : o \in B[k]) /\ ~(\E k \in K : o \in F[k]))
                       \/ \E k \in K : o \in T[k])
                      <=> \E k \in K : (o \in B[k] /\ o \notin F[k]) \/ o \in T[k]
  <2>1. \A o : /\ o \in (UNION {B[k] : k \in K}) <=> \E k \in K : o \in B[k]
               /\ o \in (UNION {F[k] : k \in K}) <=> \E k \in K : o \in F[k]
               /\ o \in (UNION {T[k] : k \in K}) <=> \E k \in K : o \in T[k]
    OBVIOUS
  <2>2. \A o : o \in (UNION {(B[k] \ F[k]) \cup T[k] : k \in K}) <=>
               \E k \in K : (o \in B[k] /\ o \notin F[k]) \/ o \in T[k]
    OBVIOUS
  <2> QED BY <2>1, <2>2
<1>1. \A k, j \in K : o \in B[k] /\ o \in F[j] => k = j
  BY DEF Apart
<1>2. ASSUME NEW k \in K, o \in B[k], ~(\E j \in K : o \in F[j])
      PROVE  \E j \in K : (o \in B[j] /\ o \notin F[j]) \/ o \in T[j]
  BY <1>2, Zenon
<1>3. ASSUME NEW k \in K, o \in T[k]
      PROVE  \E j \in K : (o \in B[j] /\ o \notin F[j]) \/ o \in T[j]
  BY <1>3, Zenon
<1>4. ASSUME NEW k \in K, o \in B[k], o \notin F[k] PROVE ~(\E j \in K : o \in F[j])
  BY <1>1, <1>4, Zenon
<1> QED BY <1>2, <1>3, <1>4, Zenon

LEMMA TwoPieces ==
  ASSUME NEW B1, NEW F1, NEW T1, NEW B2, NEW F2, NEW T2,
         (B1 \cup F1 \cup T1) \cap (B2 \cup F2 \cup T2) = {}
  PROVE  ((B1 \cup B2) \ (F1 \cup F2)) \cup (T1 \cup T2)
           = ((B1 \ F1) \cup T1) \cup ((B2 \ F2) \cup T2)
OBVIOUS

\* What the edges of a source say has its name.
LEMMA SaysOf ==
  ASSUME NEW src, NEW es, NEW on, NEW o \in Says(on, src, es)
  PROVE  o.src = src /\ \E k \in DOMAIN es : o = Names(src, es[k])
<1>1. PICK k \in DOMAIN es : o = Names(src, es[k])
  BY DEF Says
<1>2. o.src = src
  BY <1>1 DEF Names, Owner
<1> QED BY <1>1, <1>2

LEMMA OnIs ==
  ASSUME NEW i, NEW l, NEW o \in On(i, l)
  PROVE  o.src = i
<1>1. o = Owner(i, l.last.tag, EdgeType(l))
  BY DEF On
<1> QED BY <1>1 DEF Owner

\* The rules of a step: what they had on, what their edges say, and what they have on after.
RulesOn(r)       == UNION {On(i, r[i]) : i \in Idx}
RulesSay(on, outs) == UNION {Says(on, i, outs[i].edges) : i \in Idx}
AllSound(before, outs, after) ==
  \A i \in Idx : Sound(i, before[i], outs[i]) /\ after[i] = outs[i].rt
LEMMA RulesHeard ==
  ASSUME NEW before, NEW outs, NEW after, AllSound(before, outs, after)
  PROVE  (RulesOn(before) \ RulesSay(FALSE, outs)) \cup RulesSay(TRUE, outs) = RulesOn(after)
<1> DEFINE B == [i \in Idx |-> On(i, before[i])]
           F == [i \in Idx |-> Says(FALSE, i, outs[i].edges)]
           T == [i \in Idx |-> Says(TRUE, i, outs[i].edges)]
<1>1. \A i \in Idx : \A o \in B[i] \cup F[i] \cup T[i] : o.src = i
  BY SaysOf, OnIs
<1>2. \A i \in Idx : (B[i] \ F[i]) \cup T[i] = On(i, after[i])
  BY DEF AllSound, Sound, Heard
<1>3. /\ (UNION {B[i] : i \in Idx}) = RulesOn(before)
      /\ (UNION {F[i] : i \in Idx}) = RulesSay(FALSE, outs)
      /\ (UNION {T[i] : i \in Idx}) = RulesSay(TRUE, outs)
  BY DEF RulesOn, RulesSay
<1> HIDE DEF B, F, T
<1>4. Apart(Idx, B, F, T)
  BY <1>1 DEF Apart
<1>5. (UNION {(B[i] \ F[i]) \cup T[i] : i \in Idx}) = RulesOn(after)
  BY <1>2 DEF RulesOn
<1>6. ((UNION {B[i] : i \in Idx}) \ (UNION {F[i] : i \in Idx})) \cup (UNION {T[i] : i \in Idx})
        = (UNION {(B[i] \ F[i]) \cup T[i] : i \in Idx})
  BY <1>4, Pieces
<1> QED BY <1>3, <1>5, <1>6

-----------------------------------------------------------------------------
(* Alarms: the watchdogs                                                     *)

Channels  == {None} \cup {sp[2] : sp \in Latch}
NdLatches ==
  [age : {None} \cup 0..NoDataTicks, active : BOOLEAN, seen : BOOLEAN, channel : Channels]
\* The latch p of a watchdog is on under its own channel, and only for a type.
NdOk(p, t, l) == l \in NdLatches /\ (l.active => l.channel = p /\ t # "none")
NdOn(s, t, l) ==
  IF l.active THEN {Owner(0, <<s, t, "no data", l.channel>>, "no_data")} ELSE {}
MmOn(s, m)    ==
  IF m.active THEN {Owner(0, <<s, m.expected, m.detected>>, "mismatch")} ELSE {}
LowOn(b)      == IF b THEN {Owner(0, <<"battery">>, "low")} ELSE {}

NdTells(act, s, t, p) == Watches(act, <<s, t, "no data", p>>, "no_data")
NdEdges(s, p, T) == {NdTells(act, s, t, p) : act \in BOOLEAN, t \in T}
NdSound(s, p, T, t0, l, t1, out) ==
  /\ out = [l |-> out.l, edges |-> out.edges]
  /\ NdOk(p, t1, out.l)
  /\ out.edges \in Seq(NdEdges(s, p, T))
  /\ Heard(NdOn(s, t0, l), 0, out.edges) = NdOn(s, t1, out.l)

LEMMA NdEdgesAre ==
  ASSUME NEW s, NEW p, NEW T
  PROVE  /\ IsEdges(NdEdges(s, p, T))
         /\ \A act \in BOOLEAN, t \in T :
              /\ NdTells(act, s, t, p) \in NdEdges(s, p, T)
              /\ NdTells(act, s, t, p).act = act /\ ~NdTells(act, s, t, p).message
              /\ Names(0, NdTells(act, s, t, p)) =
                   Owner(0, <<s, t, "no data", p>>, "no_data")
<1>1. ASSUME NEW e \in NdEdges(s, p, T) PROVE e.act \in BOOLEAN /\ e.message \in BOOLEAN
  <2>1. PICK act \in BOOLEAN, t \in T : e = NdTells(act, s, t, p)
    BY DEF NdEdges
  <2> QED BY <2>1 DEF NdTells, Watches
<1>2. ASSUME NEW act \in BOOLEAN, NEW t \in T
      PROVE  /\ NdTells(act, s, t, p) \in NdEdges(s, p, T)
             /\ NdTells(act, s, t, p).act = act /\ ~NdTells(act, s, t, p).message
             /\ Names(0, NdTells(act, s, t, p)) = Owner(0, <<s, t, "no data", p>>, "no_data")
  <2>1. NdTells(act, s, t, p) \in NdEdges(s, p, T)
    BY DEF NdEdges
  <2>2. \A tag : /\ Watches(act, tag, "no_data").act = act
                 /\ ~Watches(act, tag, "no_data").message
                 /\ Names(0, Watches(act, tag, "no_data")) = Owner(0, tag, "no_data")
    BY DEF Watches, Names
  <2> QED BY <2>1, <2>2 DEF NdTells
<1> QED BY <1>1, <1>2 DEF IsEdges

\* A watchdog latch that goes on, goes off or stays, with the edge that goes with it.
LEMMA NdTurns ==
  ASSUME NEW s, NEW p, NEW T, NEW t0 \in T, NEW t1, NEW l, NdOk(p, t0, l),
         NEW m, NdOk(p, t1, m), NEW es, NEW out, out = [l |-> m, edges |-> es],
         \/ es = <<>> /\ m.active = l.active /\ t0 = t1
         \/ es = <<>> /\ ~m.active /\ ~l.active
         \/ es = <<NdTells(FALSE, s, t0, p)>> /\ l.active /\ ~m.active
         \/ es = <<NdTells(TRUE, s, t0, p)>> /\ ~l.active /\ m.active /\ t0 = t1
  PROVE  NdSound(s, p, T, t0, l, t1, out)
<1>1. out.l = m /\ out.edges = es /\ out = [l |-> out.l, edges |-> out.edges]
  OBVIOUS
<1>2. /\ l.active => NdOn(s, t0, l) = {Owner(0, <<s, t0, "no data", p>>, "no_data")}
      /\ m.active => NdOn(s, t1, m) = {Owner(0, <<s, t1, "no data", p>>, "no_data")}
      /\ ~l.active => NdOn(s, t0, l) = {}
      /\ ~m.active => NdOn(s, t1, m) = {}
      /\ l.active \in BOOLEAN /\ m.active \in BOOLEAN
  BY DEF NdOn, NdOk, NdLatches
<1> DEFINE E == NdEdges(s, p, T)
<1>3. IsEdges(E) /\ <<>> \in Seq(E) /\ Heard(NdOn(s, t0, l), 0, <<>>) = NdOn(s, t0, l)
  BY NdEdgesAre, HeardNone
<1> HIDE DEF E
<1>4. CASE es = <<>> /\ m.active = l.active /\ t0 = t1
  BY <1>1, <1>2, <1>3, <1>4 DEF NdSound, E
<1>5. CASE es = <<>> /\ ~m.active /\ ~l.active
  BY <1>1, <1>2, <1>3, <1>5 DEF NdSound, E
<1>6. ASSUME es = <<NdTells(FALSE, s, t0, p)>>, l.active, ~m.active
      PROVE  NdSound(s, p, T, t0, l, t1, out)
  <2> DEFINE e == NdTells(FALSE, s, t0, p)
  <2>1. /\ e \in E /\ ~e.act /\ ~e.message
        /\ Names(0, e) = Owner(0, <<s, t0, "no data", p>>, "no_data")
    BY <1>6, NdEdgesAre DEF E
  <2> HIDE DEF e
  <2>2. <<e>> \in Seq(E) /\ Heard(NdOn(s, t0, l), 0, <<e>>) = NdOn(s, t0, l) \ {Names(0, e)}
    BY <1>3, <2>1, HeardOne
  <2>3. Heard(NdOn(s, t0, l), 0, <<e>>) = {}
    BY <1>2, <1>6, <2>1, <2>2
  <2>4. es = <<e>>
    BY <1>6 DEF e
  <2> QED BY <1>1, <1>2, <1>6, <2>2, <2>3, <2>4 DEF NdSound, E
<1>7. ASSUME es = <<NdTells(TRUE, s, t0, p)>>, ~l.active, m.active, t0 = t1
      PROVE  NdSound(s, p, T, t0, l, t1, out)
  <2> DEFINE e == NdTells(TRUE, s, t0, p)
  <2>1. /\ e \in E /\ e.act /\ ~e.message
        /\ Names(0, e) = Owner(0, <<s, t0, "no data", p>>, "no_data")
    BY <1>7, NdEdgesAre DEF E
  <2> HIDE DEF e
  <2>2. <<e>> \in Seq(E) /\ Heard(NdOn(s, t0, l), 0, <<e>>) = NdOn(s, t0, l) \cup {Names(0, e)}
    BY <1>3, <2>1, HeardOne
  <2>3. Heard(NdOn(s, t0, l), 0, <<e>>) = NdOn(s, t1, m)
    BY <1>2, <1>7, <2>1, <2>2
  <2>4. es = <<e>>
    BY <1>7 DEF e
  <2> QED BY <1>1, <1>2, <1>7, <2>2, <2>3, <2>4 DEF NdSound, E
<1> QED BY <1>4, <1>5, <1>6, <1>7

LEMMA NdResetSound ==
  ASSUME NEW s, NEW p, NEW T, NEW t0 \in T, NEW t1, NEW l, NdOk(p, t0, l)
  PROVE  NdSound(s, p, T, t0, l, t1, NdReset(s, t0, l)) /\ ~NdReset(s, t0, l).l.active
<1> DEFINE m == [NoData EXCEPT !.channel = l.channel]
           es == IF l.active THEN <<NdEdge(FALSE, s, t0, l)>> ELSE <<>>
<1>1. NdReset(s, t0, l) = [l |-> m, edges |-> es]
  BY DEF NdReset
<1>2. l.channel \in Channels /\ l.active \in BOOLEAN /\ (l.active => l.channel = p)
  BY DEF NdOk, NdLatches
<1>3. NdOk(p, t1, m) /\ ~m.active
  BY <1>2 DEF NdOk, NdLatches, NoData
<1>4. l.active => es = <<NdTells(FALSE, s, t0, p)>>
  BY <1>2 DEF NdEdge, NdTells
<1>5. ~l.active => es = <<>>
  OBVIOUS
<1> HIDE DEF m, es
<1> DEFINE out == [l |-> m, edges |-> es]
<1>6. out = [l |-> m, edges |-> es] /\ out.l = m
  OBVIOUS
<1> HIDE DEF out
<1>7. NdSound(s, p, T, t0, l, t1, out)
  <2>1. CASE l.active
    BY <1>3, <1>4, <1>6, <2>1, NdTurns
  <2>2. CASE ~l.active
    BY <1>3, <1>5, <1>6, <2>2, NdTurns
  <2> QED BY <2>1, <2>2
<1> QED BY <1>1, <1>3, <1>6, <1>7 DEF out

LEMMA NdStaySound ==
  ASSUME NEW s, NEW p, NEW T, NEW t \in T, NEW l, NdOk(p, t, l), NEW m, NdOk(p, t, m),
         m.active = l.active
  PROVE  NdSound(s, p, T, t, l, t, [l |-> m, edges |-> <<>>])
<1> DEFINE out == [l |-> m, edges |-> <<>>]
<1>1. out = [l |-> m, edges |-> <<>>]
  OBVIOUS
<1> HIDE DEF out
<1>2. NdSound(s, p, T, t, l, t, out)
  BY <1>1, NdTurns
<1> QED BY <1>2 DEF out

\* n: the latch with its channel set, and marked as seen.
LEMMA NdStepSound ==
  ASSUME NEW s, NEW p, NEW T, NEW t \in T, t # "none", NEW l, NdOk(p, t, l),
         NEW n, NdOk(p, t, n), n.active = l.active, n.channel = p, NEW ok
  PROVE  NdSound(s, p, T, t, l, t, NdStep(s, t, n, ok))
<1> DEFINE off == [n EXCEPT !.age = None, !.active = FALSE]
           aged == [n EXCEPT !.age = IF @ = None THEN 0 ELSE @]
           up == [aged EXCEPT !.active = TRUE]
           out == NdStep(s, t, n, ok)
<1>1. l.active \in BOOLEAN /\ 0 \in 0..NoDataTicks
  BY EvalAssumption DEF NdOk, NdLatches
<1>2. NdOk(p, t, off) /\ ~off.active
  BY DEF NdOk, NdLatches
<1>3. NdOk(p, t, aged) /\ aged.active = l.active /\ aged.channel = p
  BY <1>1 DEF NdOk, NdLatches
<1>4. NdOk(p, t, up) /\ up.active
  BY <1>3 DEF NdOk, NdLatches
<1>5. \A act : NdEdge(act, s, t, n) = NdTells(act, s, t, p)
  BY DEF NdEdge, NdTells
<1>6. \/ ~l.active /\ out = [l |-> off, edges |-> <<>>]
      \/ l.active /\ out = [l |-> off, edges |-> <<NdEdge(FALSE, s, t, n)>>]
      \/ ~l.active /\ out = [l |-> up, edges |-> <<NdEdge(TRUE, s, t, n)>>]
      \/ out = [l |-> aged, edges |-> <<>>]
  BY DEF NdStep
<1> HIDE DEF off, aged, up, out
<1>7. CASE ~l.active /\ out = [l |-> off, edges |-> <<>>]
  BY <1>2, <1>7, NdTurns DEF out
<1>8. CASE l.active /\ out = [l |-> off, edges |-> <<NdEdge(FALSE, s, t, n)>>]
  BY <1>2, <1>5, <1>8, NdTurns DEF out
<1>9. CASE ~l.active /\ out = [l |-> up, edges |-> <<NdEdge(TRUE, s, t, n)>>]
  BY <1>4, <1>5, <1>9, NdTurns DEF out
<1>10. CASE out = [l |-> aged, edges |-> <<>>]
  BY <1>3, <1>10, NdTurns DEF out
<1> QED BY <1>6, <1>7, <1>8, <1>9, <1>10

LEMMA NdPartSound ==
  ASSUME NEW s, NEW p \in Channels, NEW T, NEW t \in T, t # "none", NEW l, NdOk(p, t, l)
  PROVE  NdSound(s, p, T, t, l, t, NdPart(s, t, p, l))
<1> DEFINE n == [l EXCEPT !.channel = p]
           seen == [n EXCEPT !.seen = @ \/ Reports(s, p) # "none"]
           young == [n EXCEPT !.age = None]
           out == NdPart(s, t, p, l)
<1>1. NdOk(p, t, n) /\ n.active = l.active
  BY DEF NdOk, NdLatches
<1>2. NdOk(p, t, seen) /\ seen.active = l.active /\ seen.channel = p
  BY DEF NdOk, NdLatches
<1>3. NdOk(p, t, young) /\ young.active = l.active
  BY DEF NdOk, NdLatches
<1>4. \/ out = [l |-> young, edges |-> <<>>]
      \/ out = NdStep(s, t, seen, Reports(s, p) = "all")
      \/ out = [l |-> seen, edges |-> <<>>]
  BY DEF NdPart
<1> HIDE DEF n, seen, young, out
<1>5. CASE out = [l |-> young, edges |-> <<>>]
  BY <1>3, <1>5, NdStaySound DEF out
<1>6. CASE out = NdStep(s, t, seen, Reports(s, p) = "all")
  BY <1>2, <1>6, NdStepSound DEF out
<1>7. CASE out = [l |-> seen, edges |-> <<>>]
  BY <1>2, <1>7, NdStaySound DEF out
<1> QED BY <1>4, <1>5, <1>6, <1>7

LEMMA NdPollSound ==
  ASSUME NEW s, NEW p, <<s, p>> \in Latch, NEW T, NEW t \in T, NEW l, NdOk(p, t, l),
         s = "mb" => t # "none"
  PROVE  NdSound(s, p, T, t, l, t, NdPoll(s, p, t, l))
<1> DEFINE n == [l EXCEPT !.channel = 0]
           out == NdPoll(s, p, t, l)
<1>1. p \in Channels
  <2>1. <<s, p>>[2] = p
    OBVIOUS
  <2> QED BY <2>1 DEF Channels
<1>2. s = "mb" => p = 0
  BY EvalAssumption DEF Latch
<1>3. l.active \in BOOLEAN /\ l \in NdLatches
  BY DEF NdOk, NdLatches
<1>4. p = 0 => NdOk(p, t, n) /\ n.active = l.active /\ n.channel = p
  BY <1>1, <1>3 DEF NdOk, NdLatches
<1>5. \/ s = "mb" /\ out = NdStep(s, t, n, mbOk)
      \/ t # "none" /\ p = 0 /\ out = NdStep(s, t, n, AnyPart(s, t))
      \/ t # "none" /\ out = NdPart(s, t, p, l)
      \/ out = [l |-> l, edges |-> <<>>]
  BY DEF NdPoll
<1> HIDE DEF n, out
<1>6. CASE s = "mb" /\ out = NdStep(s, t, n, mbOk)
  BY <1>2, <1>4, <1>6, NdStepSound DEF out
<1>7. CASE t # "none" /\ p = 0 /\ out = NdStep(s, t, n, AnyPart(s, t))
  BY <1>4, <1>7, NdStepSound DEF out
<1>8. CASE t # "none" /\ out = NdPart(s, t, p, l)
  BY <1>1, <1>8, NdPartSound DEF out
<1>9. CASE out = [l |-> l, edges |-> <<>>]
  BY <1>9, NdStaySound DEF out
<1> QED BY <1>5, <1>6, <1>7, <1>8, <1>9

\* A latch of the poll, which ends its alarm under the old type if the type changed.
LEMMA NdLatchSound ==
  ASSUME NEW s, NEW p, <<s, p>> \in Latch, NEW m, NdOk(p, ndType[s], nodata[<<s, p>>])
  PROVE  NdSound(s, p, {ndType[s], SlotType(s, m)}, ndType[s], nodata[<<s, p>>],
                 SlotType(s, m), NdLatch(s, p, m))
<1> DEFINE l == nodata[<<s, p>>]
           t0 == ndType[s]
           t1 == SlotType(s, m)
           T == {t0, t1}
           first == IF t1 # t0 THEN NdReset(s, t0, l) ELSE [l |-> l, edges |-> <<>>]
           then == NdPoll(s, p, t1, first.l)
           out == NdLatch(s, p, m)
<1>1. s = "mb" => t1 # "none"
  BY DEF SlotType
<1>2. t0 \in T /\ t1 \in T
  OBVIOUS
<1>3. out = [then EXCEPT !.edges = first.edges \o @]
  BY DEF NdLatch
<1> HIDE DEF t1, T, out
<1>4. NdSound(s, p, T, t0, l, t1, first)
  <2>1. CASE t1 # t0
    BY <1>2, <2>1, NdResetSound
  <2>2. CASE t1 = t0
    BY <1>2, <2>2, NdStaySound
  <2> QED BY <2>1, <2>2
<1> HIDE DEF first, t0, l
<1>5. NdSound(s, p, T, t1, first.l, t1, then)
  <2>1. NdOk(p, t1, first.l)
    BY <1>4 DEF NdSound
  <2> QED BY <1>1, <1>2, <2>1, NdPollSound
<1> HIDE DEF then
<1>6. PICK n, es : then = [l |-> n, edges |-> es]
  BY <1>5 DEF NdSound
<1>7. then.l = n /\ then.edges = es /\ out = [l |-> n, edges |-> first.edges \o es]
  BY <1>3, <1>6
<1>8. /\ first.edges \o es \in Seq(NdEdges(s, p, T))
      /\ Heard(NdOn(s, t0, l), 0, first.edges \o es)
           = Heard(Heard(NdOn(s, t0, l), 0, first.edges), 0, es)
  <2>1. first.edges \in Seq(NdEdges(s, p, T)) /\ es \in Seq(NdEdges(s, p, T))
    BY <1>4, <1>5, <1>7 DEF NdSound
  <2>2. IsEdges(NdEdges(s, p, T))
    BY NdEdgesAre
  <2> QED BY <2>1, <2>2, HeardInOrder
<1>9. Heard(NdOn(s, t0, l), 0, first.edges \o es) = NdOn(s, t1, n)
  BY <1>4, <1>5, <1>7, <1>8 DEF NdSound
<1>10. out.l = n /\ out.edges = first.edges \o es /\ out = [l |-> out.l, edges |-> out.edges]
  BY <1>7
<1>11. NdOk(p, t1, n)
  BY <1>5, <1>7 DEF NdSound
<1>12. NdSound(s, p, T, t0, l, t1, out)
  BY <1>8, <1>9, <1>10, <1>11 DEF NdSound
<1> QED BY <1>12 DEF out, T, t0, t1, l

NdTypes   == Types \cup {"none"}
MmLatches == [active : BOOLEAN, expected : NdTypes, detected : NdTypes]
MmEdges(s) == {MmEdge(act, s, m) : act \in BOOLEAN, m \in MmLatches}

LEMMA MmEdgesAre ==
  ASSUME NEW s
  PROVE  /\ IsEdges(MmEdges(s))
         /\ \A act \in BOOLEAN, m \in MmLatches :
              /\ MmEdge(act, s, m) \in MmEdges(s)
              /\ MmEdge(act, s, m).act = act /\ ~MmEdge(act, s, m).message
              /\ Names(0, MmEdge(act, s, m)) = Owner(0, <<s, m.expected, m.detected>>, "mismatch")
<1>1. \A act, m : /\ MmEdge(act, s, m).act = act /\ MmEdge(act, s, m).message = FALSE
                  /\ Names(0, MmEdge(act, s, m)) =
                       Owner(0, <<s, m.expected, m.detected>>, "mismatch")
  BY DEF MmEdge, Watches, Names
<1>2. ASSUME NEW e \in MmEdges(s) PROVE e.act \in BOOLEAN /\ e.message \in BOOLEAN
  <2>1. PICK act \in BOOLEAN, m \in MmLatches : e = MmEdge(act, s, m)
    BY DEF MmEdges
  <2> QED BY <1>1, <2>1
<1>3. \A act \in BOOLEAN, m \in MmLatches : MmEdge(act, s, m) \in MmEdges(s)
  BY DEF MmEdges
<1> QED BY <1>1, <1>2, <1>3 DEF IsEdges

LEMMA MmPollSound ==
  ASSUME NEW s \in Slots, mm[s] \in MmLatches, expected[s] \in NdTypes, state[s] \in NdTypes
  PROVE  /\ MmPoll(s).m \in MmLatches
         /\ Heard(MmOn(s, mm[s]), 0, MmPoll(s).edges) = MmOn(s, MmPoll(s).m)
         /\ \A on : \A o \in Says(on, 0, MmPoll(s).edges) : o.type = "mismatch" /\ o.name[1] = s
<1> DEFINE now == [active |-> TRUE, expected |-> expected[s], detected |-> state[s]]
           off == [mm[s] EXCEPT !.active = FALSE]
           out == MmPoll(s)
           up == MmEdge(TRUE, s, now)
           down == MmEdge(FALSE, s, mm[s])
           N(m) == Owner(0, <<s, m.expected, m.detected>>, "mismatch")
<1>1. now \in MmLatches /\ now.active
  BY DEF MmLatches
<1>2. off \in MmLatches /\ ~off.active /\ mm[s].active \in BOOLEAN
  BY DEF MmLatches
<1>3. \/ ~mm[s].active /\ out = [m |-> now, edges |-> <<up>>]
      \/ mm[s].active /\ out = [m |-> off, edges |-> <<down>>]
      \/ out = [m |-> mm[s], edges |-> <<>>]
  BY DEF MmPoll
<1>4. up \in MmEdges(s) /\ up.act = TRUE /\ ~up.message /\ Names(0, up) = N(now)
  BY <1>1, MmEdgesAre
<1>5. down \in MmEdges(s) /\ down.act = FALSE /\ ~down.message /\ Names(0, down) = N(mm[s])
  BY MmEdgesAre
<1>6. \A m : (m.active => MmOn(s, m) = {N(m)}) /\ (~m.active => MmOn(s, m) = {})
  BY DEF MmOn
<1>7. \A m : N(m).type = "mismatch" /\ N(m).name[1] = s
  BY DEF Owner
<1> HIDE DEF now, off, out, up, down, N
<1>8. IsEdges(MmEdges(s))
  BY MmEdgesAre
<1>9. CASE ~mm[s].active /\ out = [m |-> now, edges |-> <<up>>]
  <2>1. Heard(MmOn(s, mm[s]), 0, <<up>>) = MmOn(s, mm[s]) \cup {Names(0, up)}
    BY <1>4, <1>8, HeardOne
  <2>2. \A on : \A o \in Says(on, 0, <<up>>) : o = Names(0, up)
    <3>1. DOMAIN <<up>> = {1} /\ <<up>>[1] = up
      OBVIOUS
    <3> QED BY <3>1, SaysOf
  <2>3. out.m = now /\ out.edges = <<up>>
    BY <1>9
  <2>4. MmOn(s, mm[s]) \cup {Names(0, up)} = MmOn(s, now)
    BY <1>1, <1>4, <1>6, <1>9
  <2>5. \A on : \A o \in Says(on, 0, out.edges) : o.type = "mismatch" /\ o.name[1] = s
    BY <1>4, <1>7, <2>2, <2>3
  <2> QED BY <1>1, <2>1, <2>3, <2>4, <2>5 DEF out
<1>10. CASE mm[s].active /\ out = [m |-> off, edges |-> <<down>>]
  <2>1. Heard(MmOn(s, mm[s]), 0, <<down>>) = MmOn(s, mm[s]) \ {Names(0, down)}
    BY <1>5, <1>8, HeardOne
  <2>2. \A on : \A o \in Says(on, 0, <<down>>) : o = Names(0, down)
    <3>1. DOMAIN <<down>> = {1} /\ <<down>>[1] = down
      OBVIOUS
    <3> QED BY <3>1, SaysOf
  <2>3. out.m = off /\ out.edges = <<down>>
    BY <1>10
  <2>4. MmOn(s, mm[s]) \ {Names(0, down)} = MmOn(s, off)
    BY <1>2, <1>5, <1>6, <1>10
  <2>5. \A on : \A o \in Says(on, 0, out.edges) : o.type = "mismatch" /\ o.name[1] = s
    BY <1>5, <1>7, <2>2, <2>3
  <2> QED BY <1>2, <2>1, <2>3, <2>4, <2>5 DEF out
<1>11. CASE out = [m |-> mm[s], edges |-> <<>>]
  <2>1. Heard(MmOn(s, mm[s]), 0, <<>>) = MmOn(s, mm[s])
    BY HeardNone
  <2>2. \A on : Says(on, 0, <<>>) = {}
    <3>1. DOMAIN <<>> = {}
      OBVIOUS
    <3> QED BY <3>1, SaysOf
  <2> QED BY <1>11, <2>1, <2>2 DEF out
<1> QED BY <1>3, <1>9, <1>10, <1>11

LEMMA BattSound ==
  ASSUME lowBatt \in BOOLEAN
  PROVE  /\ LowNow \in BOOLEAN
         /\ Heard(LowOn(lowBatt), 0, BattEdges) = LowOn(LowNow)
         /\ \A on : \A o \in Says(on, 0, BattEdges) : o.type = "low"
<1>1. LowNow \in BOOLEAN
  <2>1. (volt < VoltLow) \in BOOLEAN /\ (volt <= VoltLow + VoltHyst) \in BOOLEAN
    OBVIOUS
  <2> QED BY <2>1, Zenon DEF LowNow
<1> DEFINE e == Watches(LowNow, <<"battery">>, "low")
           n == Owner(0, <<"battery">>, "low")
           E == {e}
<1>2. e.act = LowNow /\ ~e.message /\ Names(0, e) = n /\ e.message \in BOOLEAN /\ n.type = "low"
  BY DEF Watches, Names, Owner
<1>3. /\ LowOn(TRUE) = {n} /\ LowOn(FALSE) = {}
  BY DEF LowOn
<1> HIDE DEF e, n
<1>4. IsEdges(E)
  BY <1>1, <1>2 DEF IsEdges
<1>5. CASE LowNow = lowBatt
  <2>1. BattEdges = <<>>
    BY <1>5 DEF BattEdges
  <2>2. Heard(LowOn(lowBatt), 0, <<>>) = LowOn(lowBatt)
    BY HeardNone
  <2>3. \A on : Says(on, 0, <<>>) = {}
    <3>1. DOMAIN <<>> = {}
      OBVIOUS
    <3> QED BY <3>1, SaysOf
  <2> QED BY <1>1, <1>5, <2>1, <2>2, <2>3
<1>6. CASE LowNow # lowBatt
  <2>1. BattEdges = <<e>>
    BY <1>6 DEF BattEdges, e
  <2>2. /\ LowNow => Heard(LowOn(lowBatt), 0, <<e>>) = LowOn(lowBatt) \cup {n}
        /\ ~LowNow => Heard(LowOn(lowBatt), 0, <<e>>) = LowOn(lowBatt) \ {n}
    BY <1>2, <1>4, HeardOne
  <2>3. \A on : \A o \in Says(on, 0, <<e>>) : o = n
    <3>1. DOMAIN <<e>> = {1} /\ <<e>>[1] = e
      OBVIOUS
    <3> QED BY <1>2, <3>1, SaysOf
  <2>4. CASE LowNow
    <3>1. LowNow = TRUE /\ lowBatt = FALSE
      BY <1>1, <1>6, <2>4
    <3>2. Heard(LowOn(lowBatt), 0, <<e>>) = LowOn(LowNow)
      BY <1>3, <2>2, <3>1
    <3> QED BY <1>1, <1>2, <2>1, <2>3, <3>2
  <2>5. CASE ~LowNow
    <3>1. LowNow = FALSE /\ lowBatt = TRUE
      BY <1>1, <1>6, <2>5
    <3>2. Heard(LowOn(lowBatt), 0, <<e>>) = LowOn(LowNow)
      BY <1>3, <2>2, <3>1
    <3> QED BY <1>1, <1>2, <2>1, <2>3, <3>2
  <2> QED BY <2>4, <2>5
<1> QED BY <1>5, <1>6

\* What the edges of a no-data latch say has the name of that latch.
LEMMA NdSays ==
  ASSUME NEW s, NEW p, NEW T, NEW es \in Seq(NdEdges(s, p, T)), NEW on, NEW o \in Says(on, 0, es)
  PROVE  o.type = "no_data" /\ o.name[1] = s /\ o.name[4] = p
<1>1. PICK k \in DOMAIN es : o = Names(0, es[k])
  BY SaysOf
<1>2. es[k] \in NdEdges(s, p, T)
  OBVIOUS
<1>3. PICK act \in BOOLEAN, t \in T : es[k] = NdTells(act, s, t, p)
  BY <1>2 DEF NdEdges
<1>4. o = Owner(0, <<s, t, "no data", p>>, "no_data")
  BY <1>1, <1>3, NdEdgesAre
<1> QED BY <1>4 DEF Owner

LEMMA NdOnIs ==
  ASSUME NEW s, NEW p, NEW t, NEW l, NdOk(p, t, l), NEW o \in NdOn(s, t, l)
  PROVE  o.src = 0 /\ o.type = "no_data" /\ o.name[1] = s /\ o.name[4] = p
<1>1. l.active /\ l.channel = p /\ o = Owner(0, <<s, t, "no data", p>>, "no_data")
  BY DEF NdOn, NdOk
<1> QED BY <1>1 DEF Owner

LEMMA MmOnIs ==
  ASSUME NEW s, NEW m, NEW o \in MmOn(s, m)
  PROVE  o.src = 0 /\ o.type = "mismatch" /\ o.name[1] = s
BY DEF MmOn, Owner

LEMMA LowOnIs ==
  ASSUME NEW b, NEW o \in LowOn(b)
  PROVE  o.src = 0 /\ o.type = "low"
BY DEF LowOn, Owner

-----------------------------------------------------------------------------
(* Alarms: the steps                                                         *)

RulesOk ==
  /\ rule \in [Idx -> RuleSet \cup {NoRule}] /\ \A i \in Idx : LatchOk(rt[i])
  /\ value \in Values \cup {None} /\ level \in {0, 1} /\ count \in 0..MaxCount
  /\ unheard \in BOOLEAN /\ stale \in BOOLEAN
WatchOk ==
  /\ \A sp \in Latch : NdOk(sp[2], ndType[sp[1]], nodata[sp])
  /\ mm \in [Slots -> MmLatches] /\ expected \in [Slots -> NdTypes] /\ state \in [Slots -> NdTypes]
  /\ lowBatt \in BOOLEAN

MmsOn(m)     == UNION {MmOn(s, m[s]) : s \in Slots}
NdsOn(t, n)  == UNION {NdOn(sp[1], t[sp[1]], n[sp]) : sp \in Latch}
AllOn(r, m, t, n, b) == ((RulesOn(r) \cup MmsOn(m)) \cup NdsOn(t, n)) \cup LowOn(b)

LEMMA LatchedIs ==
  /\ Latched = AllOn(rt, mm, ndType, nodata, lowBatt)
  /\ Latched' = AllOn(rt', mm', ndType', nodata', lowBatt')
<1> DEFINE R(r) == {Owner(i, r[i].last.tag, EdgeType(r[i])) :
                      i \in {j \in Idx : r[j].active /\ ~IsEdge(r[j].last)}}
           N(t, n) == {Owner(0, <<sp[1], t[sp[1]], "no data", n[sp].channel>>, "no_data") :
                         sp \in {q \in Latch : n[q].active}}
           M(m) == {Owner(0, <<s, m[s].expected, m[s].detected>>, "mismatch") :
                      s \in {t \in Slots : m[t].active}}
<1>1. ASSUME NEW r PROVE R(r) = RulesOn(r)
  BY DEF RulesOn, On
<1>2. ASSUME NEW t, NEW n PROVE N(t, n) = NdsOn(t, n)
  BY DEF NdsOn, NdOn
<1>3. ASSUME NEW m PROVE M(m) = MmsOn(m)
  BY DEF MmsOn, MmOn
<1>4. /\ Latched = R(rt) \cup N(ndType, nodata) \cup M(mm) \cup LowOn(lowBatt)
      /\ Latched' = R(rt') \cup N(ndType', nodata') \cup M(mm') \cup LowOn(lowBatt')
  BY Zenon DEF Latched, LowOn
<1> HIDE DEF R, N, M
<1> QED BY <1>1, <1>2, <1>3, <1>4 DEF AllOn

LEMMA RulePollSound ==
  ASSUME RulesOk, NEW i \in Idx
  PROVE  Sound(i, rt[i], RulePoll(i)) /\ LatchOk(RulePoll(i).rt)
<1> DEFINE r == rule[i]
           synced == Synced(rt[i], r)
           eval == EvalRule(synced.rt, r, Armed(r), Reads(r), Inputs)
           evaled == IF r = NoRule THEN synced ELSE After(synced, eval)
           armed == evaled.rt.used /\ Armed(evaled.rt.last)
           swept == Sweep(evaled.rt, armed)
<1>1. r \in RuleSet \cup {NoRule} /\ LatchOk(rt[i])
  BY DEF RulesOk
<1>2. Armed(r) \in BOOLEAN /\ Reads(r) \in BOOLEAN /\ InputsOk(Inputs)
  BY DEF Armed, Reads, RulesOk, InputsOk, Inputs
<1>3. Sound(i, rt[i], synced) /\ synced.rt.last = r /\ LatchOk(synced.rt)
  <2>1. Sound(i, rt[i], synced) /\ synced.rt.last = r
    BY <1>1, SyncedSound
  <2> QED BY <2>1 DEF Sound
<1>4. RulePoll(i) = After(evaled, swept)
  BY DEF RulePoll
<1> HIDE DEF r, synced
<1>5. Sound(i, rt[i], evaled) /\ LatchOk(evaled.rt)
  <2>1. CASE r = NoRule
    BY <1>3, <2>1
  <2>2. CASE r # NoRule
    <3>1. r \in RuleSet
      BY <1>1, <2>2
    <3>2. Sound(i, synced.rt, eval)
      BY <1>2, <1>3, <3>1, EvalRuleSound
    <3> HIDE DEF eval
    <3>3. Sound(i, rt[i], After(synced, eval))
      BY <1>3, <3>2, SoundThen
    <3> QED BY <2>2, <3>3 DEF Sound
  <2> QED BY <2>1, <2>2
<1> HIDE DEF evaled
<1>6. armed \in BOOLEAN
  BY <1>5 DEF LatchOk, LatchType, Armed
<1> HIDE DEF armed
<1>7. Sound(i, evaled.rt, swept)
  BY <1>5, <1>6, SweepSound
<1> HIDE DEF swept
<1>8. Sound(i, rt[i], After(evaled, swept))
  BY <1>5, <1>7, SoundThen
<1> QED BY <1>4, <1>8 DEF Sound

PollMm == [s \in Slots |-> MmPoll(s).m]
PollNd == [sp \in Latch |-> NdLatch(sp[1], sp[2], PollMm)]
PollSays(on) ==
  (((UNION {Says(on, i, RulePoll(i).edges) : i \in Idx})
     \cup (UNION {Says(on, 0, MmPoll(s).edges) : s \in Slots}))
     \cup (UNION {Says(on, 0, PollNd[sp].edges) : sp \in Latch}))
     \cup Says(on, 0, BattEdges)

\* What a poll leaves.
LEMMA PollIs ==
  ASSUME Poll
  PROVE  /\ rt' = [i \in Idx |-> RulePoll(i).rt]
         /\ mm' = PollMm
         /\ nodata' = [sp \in Latch |-> PollNd[sp].l]
         /\ ndType' = [s \in NdSlots |-> SlotType(s, PollMm)]
         /\ lowBatt' = LowNow
         /\ open' = (open \ PollSays(FALSE)) \cup PollSays(TRUE)
         /\ UNCHANGED <<rule, value, level, count, unheard, stale, held, quiet,
                        expected, taught, state, data, mbOk, volt>>
<1> DEFINE ruled == [i \in Idx |-> RulePoll(i)]
           mmed == [s \in Slots |-> MmPoll(s)]
           newMm == [s \in Slots |-> mmed[s].m]
           nd == [sp \in Latch |-> NdLatch(sp[1], sp[2], newMm)]
           says(on) == (UNION {Says(on, i, ruled[i].edges) : i \in Idx})
                         \cup (UNION {Says(on, 0, mmed[s].edges) : s \in Slots})
                         \cup (UNION {Says(on, 0, nd[sp].edges) : sp \in Latch})
                         \cup Says(on, 0, BattEdges)
<1>1. newMm = PollMm
  BY DEF PollMm
<1>2. /\ rt' = [i \in Idx |-> ruled[i].rt]
      /\ mm' = newMm
      /\ nodata' = [sp \in Latch |-> nd[sp].l]
      /\ ndType' = [s \in NdSlots |-> SlotType(s, newMm)]
      /\ lowBatt' = LowNow
      /\ open' = (open \ says(FALSE)) \cup says(TRUE)
      /\ UNCHANGED <<rule, value, level, count, unheard, stale, held, quiet,
                     expected, taught, state, data, mbOk, volt>>
  BY Zenon DEF Poll
<1> HIDE DEF newMm
<1>3. nd = PollNd
  BY <1>1 DEF PollNd
<1>4. \A i \in Idx : ruled[i] = RulePoll(i)
  OBVIOUS
<1>5. \A s \in Slots : mmed[s] = MmPoll(s)
  OBVIOUS
<1> HIDE DEF ruled, mmed, nd
<1>6. ASSUME NEW on PROVE says(on) = PollSays(on)
  <2>1. {Says(on, i, ruled[i].edges) : i \in Idx} = {Says(on, i, RulePoll(i).edges) : i \in Idx}
    BY <1>4
  <2>2. {Says(on, 0, mmed[s].edges) : s \in Slots} = {Says(on, 0, MmPoll(s).edges) : s \in Slots}
    BY <1>5
  <2> QED BY <1>3, <2>1, <2>2, Zenon DEF PollSays
<1>7. [i \in Idx |-> ruled[i].rt] = [i \in Idx |-> RulePoll(i).rt]
  BY <1>4
<1> HIDE DEF says
<1> QED BY <1>1, <1>2, <1>3, <1>6, <1>7, Zenon

\* The parts of a poll.
LEMMA MmHeard ==
  ASSUME WatchOk
  PROVE  /\ (MmsOn(mm) \ (UNION {Says(FALSE, 0, MmPoll(s).edges) : s \in Slots}))
              \cup (UNION {Says(TRUE, 0, MmPoll(s).edges) : s \in Slots}) = MmsOn(PollMm)
         /\ PollMm \in [Slots -> MmLatches]
<1> DEFINE B == [s \in Slots |-> MmOn(s, mm[s])]
           F == [s \in Slots |-> Says(FALSE, 0, MmPoll(s).edges)]
           T == [s \in Slots |-> Says(TRUE, 0, MmPoll(s).edges)]
<1>1. ASSUME NEW s \in Slots
      PROVE  /\ MmPoll(s).m \in MmLatches
             /\ Heard(MmOn(s, mm[s]), 0, MmPoll(s).edges) = MmOn(s, MmPoll(s).m)
             /\ \A on : \A o \in Says(on, 0, MmPoll(s).edges) : o.type = "mismatch" /\ o.name[1] = s
  <2>1. mm[s] \in MmLatches /\ expected[s] \in NdTypes /\ state[s] \in NdTypes
    BY DEF WatchOk
  <2> QED BY <2>1, MmPollSound
<1>2. \A s \in Slots : \A o \in B[s] \cup F[s] \cup T[s] : o.name[1] = s
  BY <1>1, MmOnIs
<1>3. \A s \in Slots : (B[s] \ F[s]) \cup T[s] = MmOn(s, PollMm[s])
  BY <1>1 DEF Heard, PollMm
<1>4. /\ (UNION {B[s] : s \in Slots}) = MmsOn(mm)
      /\ (UNION {F[s] : s \in Slots}) = (UNION {Says(FALSE, 0, MmPoll(s).edges) : s \in Slots})
      /\ (UNION {T[s] : s \in Slots}) = (UNION {Says(TRUE, 0, MmPoll(s).edges) : s \in Slots})
  BY DEF MmsOn
<1> HIDE DEF B, F, T
<1>5. Apart(Slots, B, F, T)
  BY <1>2 DEF Apart
<1>6. (UNION {(B[s] \ F[s]) \cup T[s] : s \in Slots}) = MmsOn(PollMm)
  BY <1>3 DEF MmsOn
<1>7. ((UNION {B[s] : s \in Slots}) \ (UNION {F[s] : s \in Slots})) \cup (UNION {T[s] : s \in Slots})
        = (UNION {(B[s] \ F[s]) \cup T[s] : s \in Slots})
  BY <1>5, Pieces
<1>8. PollMm \in [Slots -> MmLatches]
  BY <1>1 DEF PollMm
<1> QED BY <1>4, <1>6, <1>7, <1>8

PollTypes == [s \in NdSlots |-> SlotType(s, PollMm)]

LEMMA LatchIs ==
  ASSUME NEW sp \in Latch
  PROVE  sp = <<sp[1], sp[2]>> /\ sp[1] \in NdSlots /\ <<sp[1], sp[2]>> \in Latch
BY DEF Latch, NdSlots

LEMMA NdHeard ==
  ASSUME WatchOk, NEW l, l = [sp \in Latch |-> PollNd[sp].l]
  PROVE  /\ (NdsOn(ndType, nodata) \ (UNION {Says(FALSE, 0, PollNd[sp].edges) : sp \in Latch}))
              \cup (UNION {Says(TRUE, 0, PollNd[sp].edges) : sp \in Latch}) = NdsOn(PollTypes, l)
         /\ \A sp \in Latch : NdOk(sp[2], PollTypes[sp[1]], l[sp])
         /\ \A sp \in Latch : \A on : \A o \in Says(on, 0, PollNd[sp].edges) : o.type = "no_data"
<1> DEFINE B == [sp \in Latch |-> NdOn(sp[1], ndType[sp[1]], nodata[sp])]
           F == [sp \in Latch |-> Says(FALSE, 0, PollNd[sp].edges)]
           T == [sp \in Latch |-> Says(TRUE, 0, PollNd[sp].edges)]
<1>1. ASSUME NEW sp \in Latch
      PROVE  /\ NdOk(sp[2], PollTypes[sp[1]], l[sp])
             /\ Heard(NdOn(sp[1], ndType[sp[1]], nodata[sp]), 0, PollNd[sp].edges)
                  = NdOn(sp[1], PollTypes[sp[1]], l[sp])
             /\ \A on : \A o \in Says(on, 0, PollNd[sp].edges) :
                  o.type = "no_data" /\ o.name[1] = sp[1] /\ o.name[4] = sp[2]
  <2> DEFINE s == sp[1]
             p == sp[2]
             out == NdLatch(s, p, PollMm)
             E == {ndType[s], SlotType(s, PollMm)}
  <2>1. sp = <<s, p>> /\ s \in NdSlots /\ <<s, p>> \in Latch
    BY LatchIs
  <2>2. PollNd[sp] = out /\ PollTypes[s] = SlotType(s, PollMm) /\ l[sp] = out.l
    BY <2>1 DEF PollNd, PollTypes
  <2>3. NdOk(p, ndType[s], nodata[<<s, p>>]) /\ nodata[<<s, p>>] = nodata[sp]
    BY <2>1 DEF WatchOk
  <2> HIDE DEF s, p, out, E
  <2>4. NdSound(s, p, E, ndType[s], nodata[<<s, p>>], SlotType(s, PollMm), out)
    BY <2>1, <2>3, NdLatchSound DEF out, E
  <2>5. out.edges \in Seq(NdEdges(s, p, E))
    BY <2>4 DEF NdSound
  <2>6. \A on : \A o \in Says(on, 0, out.edges) : o.type = "no_data" /\ o.name[1] = s /\ o.name[4] = p
    BY <2>5, NdSays
  <2>7. /\ NdOk(p, PollTypes[s], l[sp])
        /\ Heard(NdOn(s, ndType[s], nodata[sp]), 0, PollNd[sp].edges) = NdOn(s, PollTypes[s], l[sp])
    BY <2>2, <2>3, <2>4 DEF NdSound
  <2> QED BY <2>2, <2>6, <2>7 DEF s, p
<1>2. \A sp \in Latch : \A o \in NdOn(sp[1], ndType[sp[1]], nodata[sp]) :
        o.name[1] = sp[1] /\ o.name[4] = sp[2]
  BY NdOnIs DEF WatchOk
<1>3. \A sp \in Latch : \A o \in B[sp] \cup F[sp] \cup T[sp] : o.name[1] = sp[1] /\ o.name[4] = sp[2]
  BY <1>1, <1>2
<1>4. \A sp \in Latch : (B[sp] \ F[sp]) \cup T[sp] = NdOn(sp[1], PollTypes[sp[1]], l[sp])
  BY <1>1 DEF Heard
<1>5. /\ (UNION {B[sp] : sp \in Latch}) = NdsOn(ndType, nodata)
      /\ (UNION {F[sp] : sp \in Latch}) = (UNION {Says(FALSE, 0, PollNd[sp].edges) : sp \in Latch})
      /\ (UNION {T[sp] : sp \in Latch}) = (UNION {Says(TRUE, 0, PollNd[sp].edges) : sp \in Latch})
  BY DEF NdsOn
<1> HIDE DEF B, F, T
<1>6. Apart(Latch, B, F, T)
  <2> SUFFICES ASSUME NEW j \in Latch, NEW k \in Latch, NEW o,
                      o \in B[j] \cup F[j] \cup T[j], o \in B[k] \cup F[k] \cup T[k]
               PROVE  j = k
    BY DEF Apart
  <2>1. j[1] = k[1] /\ j[2] = k[2]
    BY <1>3
  <2> QED BY <2>1, LatchIs
<1>7. (UNION {(B[sp] \ F[sp]) \cup T[sp] : sp \in Latch}) = NdsOn(PollTypes, l)
  BY <1>4 DEF NdsOn
<1>8. ((UNION {B[sp] : sp \in Latch}) \ (UNION {F[sp] : sp \in Latch})) \cup (UNION {T[sp] : sp \in Latch})
        = (UNION {(B[sp] \ F[sp]) \cup T[sp] : sp \in Latch})
  BY <1>6, Pieces
<1> QED BY <1>1, <1>5, <1>7, <1>8

\* The alarms of different kinds do not touch each other.
LEMMA Sources ==
  ASSUME RulesOk, WatchOk
  PROVE  /\ \A o \in RulesOn(rt) : o.src \in Idx
         /\ \A on : \A o \in (UNION {Says(on, i, RulePoll(i).edges) : i \in Idx}) : o.src \in Idx
         /\ \A o \in MmsOn(mm) : o.src = 0 /\ o.type = "mismatch"
         /\ \A on : \A o \in (UNION {Says(on, 0, MmPoll(s).edges) : s \in Slots}) :
              o.src = 0 /\ o.type = "mismatch"
         /\ \A o \in NdsOn(ndType, nodata) : o.src = 0 /\ o.type = "no_data"
         /\ \A on : \A o \in (UNION {Says(on, 0, PollNd[sp].edges) : sp \in Latch}) :
              o.src = 0 /\ o.type = "no_data"
         /\ \A o \in LowOn(lowBatt) : o.src = 0 /\ o.type = "low"
         /\ \A on : \A o \in Says(on, 0, BattEdges) : o.src = 0 /\ o.type = "low"
<1>1. \A o \in RulesOn(rt) : o.src \in Idx
  BY OnIs DEF RulesOn
<1>2. \A on : \A o \in (UNION {Says(on, i, RulePoll(i).edges) : i \in Idx}) : o.src \in Idx
  BY SaysOf
<1>3. \A o \in MmsOn(mm) : o.src = 0 /\ o.type = "mismatch"
  BY MmOnIs DEF MmsOn
<1>4. ASSUME NEW on, NEW s \in Slots, NEW o \in Says(on, 0, MmPoll(s).edges)
      PROVE  o.src = 0 /\ o.type = "mismatch"
  <2>1. mm[s] \in MmLatches /\ expected[s] \in NdTypes /\ state[s] \in NdTypes
    BY DEF WatchOk
  <2> QED BY <2>1, MmPollSound, SaysOf
<1>5. ASSUME NEW o \in NdsOn(ndType, nodata) PROVE o.src = 0 /\ o.type = "no_data"
  <2>1. PICK sp \in Latch : o \in NdOn(sp[1], ndType[sp[1]], nodata[sp])
    BY DEF NdsOn
  <2>2. NdOk(sp[2], ndType[sp[1]], nodata[sp])
    BY DEF WatchOk
  <2> QED BY <2>1, <2>2, NdOnIs
<1>6. ASSUME NEW on, NEW sp \in Latch, NEW o \in Says(on, 0, PollNd[sp].edges)
      PROVE  o.src = 0 /\ o.type = "no_data"
  <2>1. o.type = "no_data"
    BY NdHeard
  <2> QED BY <2>1, SaysOf
<1>7. \A o \in LowOn(lowBatt) : o.src = 0 /\ o.type = "low"
  BY LowOnIs
<1>8. \A on : \A o \in Says(on, 0, BattEdges) : o.src = 0 /\ o.type = "low"
  BY BattSound, SaysOf DEF WatchOk
<1>9. \A on : \A o \in (UNION {Says(on, 0, MmPoll(s).edges) : s \in Slots}) :
        o.src = 0 /\ o.type = "mismatch"
  BY <1>4
<1>10. \A on : \A o \in (UNION {Says(on, 0, PollNd[sp].edges) : sp \in Latch}) :
         o.src = 0 /\ o.type = "no_data"
  BY <1>6
<1> QED BY <1>1, <1>2, <1>3, <1>5, <1>7, <1>8, <1>9, <1>10

LEMMA PollHeard ==
  ASSUME RulesOk, WatchOk, EdgesPair, Poll
  PROVE  EdgesPair' /\ RulesOk' /\ WatchOk'
<1> DEFINE l == [sp \in Latch |-> PollNd[sp].l]
           n == [i \in Idx |-> RulePoll(i).rt]
           R(on) == UNION {Says(on, i, RulePoll(i).edges) : i \in Idx}
           M(on) == UNION {Says(on, 0, MmPoll(s).edges) : s \in Slots}
           N(on) == UNION {Says(on, 0, PollNd[sp].edges) : sp \in Latch}
           L(on) == Says(on, 0, BattEdges)
           B1 == RulesOn(rt)
           B2 == MmsOn(mm)
           B3 == NdsOn(ndType, nodata)
           B4 == LowOn(lowBatt)
<1>1. /\ rt' = n /\ mm' = PollMm /\ nodata' = l /\ ndType' = PollTypes /\ lowBatt' = LowNow
      /\ open' = (open \ PollSays(FALSE)) \cup PollSays(TRUE)
      /\ UNCHANGED <<rule, value, level, count, unheard, stale, held, quiet,
                     expected, taught, state, data, mbOk, volt>>
  BY PollIs DEF PollTypes
<1>2. \A i \in Idx : Sound(i, rt[i], RulePoll(i)) /\ LatchOk(RulePoll(i).rt)
  BY RulePollSound
<1>3. (B1 \ R(FALSE)) \cup R(TRUE) = RulesOn(n)
  <2> DEFINE out == [i \in Idx |-> RulePoll(i)]
  <2>1. \A i \in Idx : out[i] = RulePoll(i)
    OBVIOUS
  <2> HIDE DEF out
  <2>2. AllSound(rt, out, n)
    BY <1>2, <2>1 DEF AllSound
  <2>3. RulesSay(FALSE, out) = R(FALSE) /\ RulesSay(TRUE, out) = R(TRUE)
    BY <2>1 DEF RulesSay
  <2> HIDE DEF R, n
  <2>4. (RulesOn(rt) \ RulesSay(FALSE, out)) \cup RulesSay(TRUE, out) = RulesOn(n)
    BY <2>2, RulesHeard
  <2> QED BY <2>3, <2>4
<1>4. (B2 \ M(FALSE)) \cup M(TRUE) = MmsOn(PollMm) /\ PollMm \in [Slots -> MmLatches]
  BY MmHeard
<1>5. /\ (B3 \ N(FALSE)) \cup N(TRUE) = NdsOn(PollTypes, l)
      /\ \A sp \in Latch : NdOk(sp[2], PollTypes[sp[1]], l[sp])
  BY NdHeard
<1>6. (B4 \ L(FALSE)) \cup L(TRUE) = LowOn(LowNow) /\ LowNow \in BOOLEAN
  BY BattSound DEF WatchOk, Heard
<1>7. /\ \A o \in B1 : o.src \in Idx
      /\ \A on : \A o \in R(on) : o.src \in Idx
      /\ \A o \in B2 : o.src = 0 /\ o.type = "mismatch"
      /\ \A on : \A o \in M(on) : o.src = 0 /\ o.type = "mismatch"
      /\ \A o \in B3 : o.src = 0 /\ o.type = "no_data"
      /\ \A on : \A o \in N(on) : o.src = 0 /\ o.type = "no_data"
      /\ \A o \in B4 : o.src = 0 /\ o.type = "low"
      /\ \A on : \A o \in L(on) : o.src = 0 /\ o.type = "low"
  BY Sources
<1>8. \A on : PollSays(on) = ((R(on) \cup M(on)) \cup N(on)) \cup L(on)
  BY Zenon DEF PollSays
<1>9. open = ((B1 \cup B2) \cup B3) \cup B4
  BY LatchedIs DEF EdgesPair, AllOn
<1>10. Latched' = ((RulesOn(n) \cup MmsOn(PollMm)) \cup NdsOn(PollTypes, l)) \cup LowOn(LowNow)
  BY <1>1, LatchedIs DEF AllOn
<1>11. RulesOk'
  BY <1>1, <1>2 DEF RulesOk
<1>12. WatchOk'
  BY <1>1, <1>4, <1>5, <1>6 DEF WatchOk
<1>13. 0 \notin Idx
  BY EvalAssumption
<1> HIDE DEF R, M, N, L, B1, B2, B3, B4, l, n
<1>14. ((B1 \cup B2) \ (R(FALSE) \cup M(FALSE))) \cup (R(TRUE) \cup M(TRUE))
         = RulesOn(n) \cup MmsOn(PollMm)
  <2>1. (B1 \cup R(FALSE) \cup R(TRUE)) \cap (B2 \cup M(FALSE) \cup M(TRUE)) = {}
    BY <1>7, <1>13
  <2> QED BY <1>3, <1>4, <2>1, TwoPieces
<1>15. (((B1 \cup B2) \cup B3) \ ((R(FALSE) \cup M(FALSE)) \cup N(FALSE)))
          \cup ((R(TRUE) \cup M(TRUE)) \cup N(TRUE))
         = (RulesOn(n) \cup MmsOn(PollMm)) \cup NdsOn(PollTypes, l)
  <2>1. ((B1 \cup B2) \cup (R(FALSE) \cup M(FALSE)) \cup (R(TRUE) \cup M(TRUE)))
          \cap (B3 \cup N(FALSE) \cup N(TRUE)) = {}
    BY <1>7, <1>13
  <2> QED BY <1>5, <1>14, <2>1, TwoPieces
<1>16. ((((B1 \cup B2) \cup B3) \cup B4) \ (((R(FALSE) \cup M(FALSE)) \cup N(FALSE)) \cup L(FALSE)))
          \cup (((R(TRUE) \cup M(TRUE)) \cup N(TRUE)) \cup L(TRUE))
         = ((RulesOn(n) \cup MmsOn(PollMm)) \cup NdsOn(PollTypes, l)) \cup LowOn(LowNow)
  <2>1. (((B1 \cup B2) \cup B3) \cup ((R(FALSE) \cup M(FALSE)) \cup N(FALSE))
           \cup ((R(TRUE) \cup M(TRUE)) \cup N(TRUE)))
          \cap (B4 \cup L(FALSE) \cup L(TRUE)) = {}
    BY <1>7, <1>13
  <2> QED BY <1>6, <1>15, <2>1, TwoPieces
<1>17. EdgesPair'
  BY <1>1, <1>8, <1>9, <1>10, <1>16, Zenon DEF EdgesPair
<1> QED BY <1>11, <1>12, <1>17

LEMMA RuleEventSound ==
  ASSUME RulesOk, NEW i \in Idx, NEW kind \in {"state", "pulse"}, NEW cur \in {0, 1}
  PROVE  Sound(i, rt[i], RuleEvent(i, kind, cur)) /\ LatchOk(RuleEvent(i, kind, cur).rt)
<1> DEFINE r == rule[i]
           synced == Synced(rt[i], r)
           eval == State(synced.rt, r, Armed(r), cur)
<1>1. r \in RuleSet \cup {NoRule} /\ LatchOk(rt[i])
  BY DEF RulesOk
<1>2. Armed(r) \in BOOLEAN
  BY DEF Armed
<1>3. Sound(i, rt[i], synced) /\ synced.rt.last = r /\ LatchOk(synced.rt)
  <2>1. Sound(i, rt[i], synced) /\ synced.rt.last = r
    BY <1>1, SyncedSound
  <2> QED BY <2>1 DEF Sound
<1>4. \/ RuleEvent(i, kind, cur) = synced
      \/ r # NoRule /\ r.kind = kind /\ RuleEvent(i, kind, cur) = After(synced, eval)
  BY DEF RuleEvent
<1> HIDE DEF r, synced
<1>5. CASE RuleEvent(i, kind, cur) = synced
  BY <1>3, <1>5
<1>6. CASE r # NoRule /\ r.kind = kind /\ RuleEvent(i, kind, cur) = After(synced, eval)
  <2>1. r \in RuleSet
    BY <1>1, <1>6
  <2>2. Sound(i, synced.rt, eval)
    BY <1>2, <1>3, <1>6, <2>1, StateSound
  <2> HIDE DEF eval
  <2>3. Sound(i, rt[i], After(synced, eval))
    BY <1>3, <2>2, SoundThen
  <2> QED BY <1>6, <2>3 DEF Sound
<1> QED BY <1>4, <1>5, <1>6

LEMMA EventHeard ==
  ASSUME RulesOk, WatchOk, EdgesPair, NEW kind \in {"state", "pulse"}, NEW cur \in {0, 1},
         Event(kind, cur)
  PROVE  EdgesPair' /\ \A i \in Idx : LatchOk(rt[i])'
<1> DEFINE out == [i \in Idx |-> RuleEvent(i, kind, cur)]
           n == [i \in Idx |-> RuleEvent(i, kind, cur).rt]
           R(on) == UNION {Says(on, i, RuleEvent(i, kind, cur).edges) : i \in Idx}
           B == (MmsOn(mm) \cup NdsOn(ndType, nodata)) \cup LowOn(lowBatt)
<1>1. /\ rt' = n /\ open' = (open \ R(FALSE)) \cup R(TRUE)
      /\ UNCHANGED <<mm, ndType, nodata, lowBatt>>
  BY DEF Event, watch
<1>2. \A i \in Idx : out[i] = RuleEvent(i, kind, cur)
  OBVIOUS
<1>3. \A i \in Idx : Sound(i, rt[i], RuleEvent(i, kind, cur)) /\ LatchOk(RuleEvent(i, kind, cur).rt)
  BY RuleEventSound
<1>4. (RulesOn(rt) \ R(FALSE)) \cup R(TRUE) = RulesOn(n)
  <2> HIDE DEF out
  <2>1. AllSound(rt, out, n)
    BY <1>2, <1>3 DEF AllSound
  <2>2. RulesSay(FALSE, out) = R(FALSE) /\ RulesSay(TRUE, out) = R(TRUE)
    BY <1>2 DEF RulesSay
  <2> HIDE DEF R, n
  <2>3. (RulesOn(rt) \ RulesSay(FALSE, out)) \cup RulesSay(TRUE, out) = RulesOn(n)
    BY <2>1, RulesHeard
  <2> QED BY <2>2, <2>3
<1>5. \A on : \A o \in R(on) : o.src \in Idx
  BY SaysOf
<1>6. \A o \in B : o.src = 0
  BY Sources
<1>7. open = RulesOn(rt) \cup B
  BY LatchedIs DEF EdgesPair, AllOn
<1>8. Latched' = RulesOn(n) \cup B
  BY <1>1, LatchedIs DEF AllOn
<1>9. 0 \notin Idx
  BY EvalAssumption
<1>10. \A i \in Idx : LatchOk(rt[i])'
  BY <1>1, <1>3
<1> HIDE DEF R, B, n
<1>11. open' = Latched'
  BY <1>1, <1>4, <1>5, <1>6, <1>7, <1>8, <1>9
<1> QED BY <1>10, <1>11 DEF EdgesPair

-----------------------------------------------------------------------------
(* The inductive invariant of the alarm engine.                              *)

AlarmInd == AlarmInv /\ RulesOk /\ WatchOk

\* The types are those of the parts, and what no part has.
LEMMA AlarmTypeIs ==
  ASSUME RulesOk, WatchOk, {mbOk, buzz} \subseteq BOOLEAN, sinceSent \in {None} \cup 0..Limit
  PROVE  AlarmType
<1>1. \A i \in Idx : rt[i].last \in RuleSet \cup {NoRule} /\ rt[i].confirm \in {None} \cup 0..MaxHold
  BY DEF RulesOk, LatchOk, LatchType
<1>2. \A sp \in Latch : nodata[sp].age \in {None} \cup 0..NoDataTicks
  BY DEF WatchOk, NdOk, NdLatches
<1> QED BY <1>1, <1>2 DEF AlarmType, RulesOk, WatchOk

LEMMA SendIs ==
  ASSUME sinceSent \in {None} \cup 0..Limit, NEW told, Send(told)
  PROVE  sinceSent' \in {None} \cup 0..Limit
<1>1. 0 \in 0..Limit
  BY EvalAssumption
<1> QED BY <1>1 DEF Send

LEMMA PollKeeps ==
  ASSUME AlarmInd, Poll
  PROVE  AlarmInd'
<1>1. EdgesPair' /\ RulesOk' /\ WatchOk'
  BY PollHeard DEF AlarmInd, AlarmInv
<1>2. OneAlarm'
  <2> SUFFICES ASSUME NEW s \in Slots, mm'[s].active, NEW p \in Slot0(s)
               PROVE  ~nodata'[<<s, p>>].active
    BY DEF OneAlarm
  <2>1. <<s, p>> \in Latch /\ <<s, p>>[1] = s /\ s \in NdSlots /\ s # "mb"
    BY EvalAssumption DEF Slot0, NdSlots
  <2>2. NdOk(<<s, p>>[2], ndType'[s], nodata'[<<s, p>>])
    BY <1>1, <2>1 DEF WatchOk
  <2>3. ndType'[s] = SlotType(s, mm')
    BY <2>1, PollIs
  <2>4. ndType'[s] = "none"
    BY <2>1, <2>3 DEF SlotType
  <2> QED BY <2>2, <2>4 DEF NdOk
<1>3. BuzzIsAlarm' /\ buzz' \in BOOLEAN
  <2>1. PICK active : mask' = active /\ Buzz(active \ mask, active = {} /\ mask # {})
    BY Zenon DEF Poll
  <2>2. buzz = (mask # {}) /\ buzz \in BOOLEAN
    BY DEF AlarmInd, AlarmInv, BuzzIsAlarm, AlarmType
  <2>3. buzz' = (active # {})
    BY <2>1, <2>2 DEF Buzz
  <2> QED BY <2>1, <2>3 DEF BuzzIsAlarm
<1>4. sinceSent' \in {None} \cup 0..Limit /\ mbOk' \in BOOLEAN
  <2>1. PICK told : Send(told)
    BY Zenon DEF Poll
  <2>2. sinceSent' \in {None} \cup 0..Limit
    BY <2>1, SendIs DEF AlarmInd, AlarmInv, AlarmType
  <2>3. mbOk' = mbOk /\ mbOk \in BOOLEAN
    BY PollIs DEF AlarmInd, AlarmInv, AlarmType
  <2> QED BY <2>2, <2>3
<1>5. AlarmType'
  <2>1. buzz' \in BOOLEAN /\ mbOk' \in BOOLEAN
    BY <1>3, <1>4
  <2>2. ({mbOk, buzz} \subseteq BOOLEAN)'
    BY <2>1
  <2>3. (sinceSent \in {None} \cup 0..Limit)'
    BY <1>4
  <2> QED BY <1>1, <2>2, <2>3, AlarmTypeIs, PTL
<1> QED BY <1>1, <1>2, <1>3, <1>5 DEF AlarmInd, AlarmInv

\* The invariant follows from its parts after the step.
LEMMA AlarmIndIs ==
  ASSUME RulesOk', WatchOk', EdgesPair', OneAlarm', BuzzIsAlarm', buzz' \in BOOLEAN,
         mbOk' \in BOOLEAN, sinceSent' \in {None} \cup 0..Limit
  PROVE  AlarmInd'
<1>1. AlarmType'
  <2>1. (({mbOk, buzz} \subseteq BOOLEAN) /\ sinceSent \in {None} \cup 0..Limit)'
    OBVIOUS
  <2> QED BY <2>1, AlarmTypeIs, PTL
<1> QED BY <1>1 DEF AlarmInd, AlarmInv

LEMMA EventKeeps ==
  ASSUME AlarmInd, NEW kind \in {"state", "pulse"}, NEW cur \in {0, 1}, Event(kind, cur),
         unheard' \in BOOLEAN
  PROVE  AlarmInd'
<1>1. EdgesPair' /\ \A i \in Idx : LatchOk(rt[i])'
  BY EventHeard DEF AlarmInd, AlarmInv
<1>2. UNCHANGED <<rule, value, level, count, stale, expected, state, mbOk, nodata, ndType, mm,
                  lowBatt, mask, buzz>>
  BY DEF Event, watch
<1>3. RulesOk'
  BY <1>1, <1>2 DEF AlarmInd, RulesOk
<1>4. WatchOk'
  BY <1>2 DEF AlarmInd, WatchOk
<1>5. OneAlarm' /\ BuzzIsAlarm' /\ buzz' \in BOOLEAN /\ mbOk' \in BOOLEAN
  BY <1>2 DEF AlarmInd, AlarmInv, OneAlarm, BuzzIsAlarm, AlarmType
<1>6. sinceSent' \in {None} \cup 0..Limit
  <2>1. PICK told : Send(told)
    BY Zenon DEF Event
  <2> QED BY <2>1, SendIs DEF AlarmInd, AlarmInv, AlarmType
<1> QED BY <1>1, <1>3, <1>4, <1>5, <1>6, AlarmIndIs

\* A step that changes what is read, and no latch.
LEMMA InputKeeps ==
  ASSUME AlarmInd, UNCHANGED <<rt, nodata, ndType, mm, lowBatt, outputs>>,
         RulesOk', WatchOk', mbOk' \in BOOLEAN
  PROVE  AlarmInd'
<1>1. EdgesPair'
  <2>1. Latched' = Latched
    BY LatchedIs
  <2> QED BY <2>1 DEF AlarmInd, AlarmInv, EdgesPair, outputs
<1>2. OneAlarm' /\ BuzzIsAlarm' /\ buzz' \in BOOLEAN /\ sinceSent' \in {None} \cup 0..Limit
  BY DEF AlarmInd, AlarmInv, OneAlarm, BuzzIsAlarm, AlarmType, outputs
<1> QED BY <1>1, <1>2, AlarmIndIs

LEMMA RuleInputsKeep ==
  ASSUME AlarmInd, RuleInputs
  PROVE  AlarmInd'
<1>1. RulesOk /\ WatchOk /\ mbOk \in BOOLEAN
  BY DEF AlarmInd, AlarmInv, AlarmType
<1>2. ASSUME UNCHANGED <<watch, outputs>>, UNCHANGED rt, RulesOk' PROVE AlarmInd'
  <2>1. UNCHANGED <<expected, state, mbOk, nodata, ndType, mm, lowBatt>>
    BY <1>2 DEF watch
  <2>2. WatchOk' /\ mbOk' \in BOOLEAN
    BY <1>1, <2>1 DEF WatchOk
  <2> QED BY <1>2, <2>1, <2>2, InputKeeps
<1>3. ASSUME NEW i \in Idx, NEW r \in RuleSet \cup {NoRule}, Store(i, r) PROVE AlarmInd'
  <2>1. RulesOk'
    BY <1>1, <1>3 DEF Store, RulesOk
  <2> QED BY <1>2, <1>3, <2>1 DEF Store
<1>4. CASE Reading
  <2>1. RulesOk'
    BY <1>1, <1>4 DEF Reading, RulesOk
  <2> QED BY <1>2, <1>4, <2>1 DEF Reading
<1>5. CASE LevelTurns
  <2>1. RulesOk'
    BY <1>1, <1>5 DEF LevelTurns, RulesOk
  <2> QED BY <1>2, <1>5, <2>1 DEF LevelTurns
<1>6. CASE Counts
  <2>1. count' \in 0..MaxCount
    BY <1>1, <1>6, EvalAssumption DEF Counts, RulesOk
  <2>2. RulesOk'
    BY <1>1, <1>6, <2>1 DEF Counts, RulesOk
  <2> QED BY <1>2, <1>6, <2>2 DEF Counts
<1>7. CASE LevelEvent
  <2>1. unheard' \in BOOLEAN /\ Event("state", level) /\ level \in {0, 1}
    BY <1>1, <1>7 DEF LevelEvent, RulesOk
  <2> QED BY <2>1, EventKeeps
<1>8. CASE PulseEvent
  <2>1. unheard' \in BOOLEAN /\ Event("pulse", 1)
    BY <1>1, <1>8 DEF PulseEvent, RulesOk
  <2> QED BY <2>1, EventKeeps
<1> QED BY <1>3, <1>4, <1>5, <1>6, <1>7, <1>8 DEF RuleInputs

LEMMA WatchInputsKeep ==
  ASSUME AlarmInd, WatchInputs
  PROVE  AlarmInd'
<1>1. RulesOk /\ WatchOk /\ mbOk \in BOOLEAN
  BY DEF AlarmInd, AlarmInv, AlarmType
<1>2. ASSUME UNCHANGED <<ruleVars, nodata, ndType, mm, lowBatt, outputs>>,
             expected' \in [Slots -> NdTypes], state' \in [Slots -> NdTypes], mbOk' \in BOOLEAN
      PROVE  AlarmInd'
  <2>1. UNCHANGED <<rule, rt, value, level, count, unheard, stale>>
    BY <1>2 DEF ruleVars
  <2>2. RulesOk' /\ WatchOk'
    BY <1>1, <1>2, <2>1 DEF RulesOk, WatchOk
  <2> QED BY <1>2, <2>1, <2>2, InputKeeps
<1>3. expected \in [Slots -> NdTypes] /\ state \in [Slots -> NdTypes]
  BY <1>1 DEF WatchOk
<1>4. ASSUME NEW s \in Slots, SlotRebinds(s) PROVE AlarmInd'
  <2>1. PICK t \in NdTypes, f \in NdTypes :
          expected' = [expected EXCEPT ![s] = t] /\ state' = [state EXCEPT ![s] = f]
    BY <1>4 DEF SlotRebinds, NdTypes
  <2>2. expected' \in [Slots -> NdTypes] /\ state' \in [Slots -> NdTypes]
    BY <1>3, <2>1
  <2> QED BY <1>1, <1>2, <1>4, <2>2 DEF SlotRebinds
<1>5. ASSUME NEW s \in Slots, Samples(s) PROVE AlarmInd'
  BY <1>1, <1>2, <1>3, <1>5 DEF Samples
<1>6. CASE BoardReads
  BY <1>1, <1>2, <1>3, <1>6 DEF BoardReads
<1> QED BY <1>4, <1>5, <1>6 DEF WatchInputs

\* The clock ages the deadlines and changes no alarm.
LEMMA AgedIs ==
  ASSUME NEW i, NEW l, LatchOk(l)
  PROVE  LatchOk(Aged(l)) /\ Like(Aged(l), l) /\ On(i, Aged(l)) = On(i, l)
<1>1. \A t \in {None} \cup 0..MaxHold :
        Older(t) \in {None} \cup 0..MaxHold /\ (Older(t) # None => t # None)
  BY AlarmAssumption DEF Older, None
<1> DEFINE w == IF l.window < MaxHold + RateWindow THEN l.window + 1 ELSE l.window
           e == Older(l.expiry)
           c == Older(l.confirm)
<1>2. /\ w \in Nat /\ e \in {None} \cup 0..MaxHold /\ c \in {None} \cup 0..MaxHold
      /\ e # None => l.expiry # None
  <2>1. l.window \in Nat
    BY DEF LatchOk, LatchType
  <2>2. w \in Nat
    BY <2>1
  <2> QED BY <1>1, <2>2 DEF LatchOk, LatchType
<1>3. Aged(l) = [l EXCEPT !.expiry = e, !.confirm = c, !.window = w]
  BY DEF Aged
<1> HIDE DEF w, e, c
<1>4. LatchOk(Aged(l)) /\ Like(Aged(l), l)
  BY <1>2, <1>3 DEF LatchOk, LatchType, Like
<1> QED BY <1>4, LikeOn

LEMMA TickKeeps ==
  ASSUME AlarmInd, Tick
  PROVE  AlarmInd'
<1>1. RulesOk /\ WatchOk /\ mbOk \in BOOLEAN
  BY DEF AlarmInd, AlarmInv, AlarmType
<1>2. /\ rt' = [i \in Idx |-> Aged(rt[i])]
      /\ nodata' = [sp \in Latch |-> [nodata[sp] EXCEPT !.age = Younger(@, NoDataTicks)]]
      /\ sinceSent' = Younger(sinceSent, Limit)
      /\ UNCHANGED <<rule, value, level, count, unheard, stale, expected, state, mbOk, ndType, mm,
                     lowBatt, mask, buzz, open>>
  BY DEF Tick
<1>3. \A i \in Idx : LatchOk(rt'[i]) /\ On(i, rt'[i]) = On(i, rt[i])
  BY <1>1, <1>2, AgedIs DEF RulesOk
<1>4. ASSUME NEW n \in Nat, NEW age \in {None} \cup 0..n PROVE Younger(age, n) \in {None} \cup 0..n
  BY DEF Younger, None
<1>5. ASSUME NEW sp \in Latch
      PROVE  /\ NdOk(sp[2], ndType[sp[1]], nodata'[sp])
             /\ NdOn(sp[1], ndType[sp[1]], nodata'[sp]) = NdOn(sp[1], ndType[sp[1]], nodata[sp])
             /\ nodata'[sp].active = nodata[sp].active
  <2> DEFINE l == nodata[sp]
             y == Younger(l.age, NoDataTicks)
  <2>1. NdOk(sp[2], ndType[sp[1]], l)
    BY <1>1 DEF WatchOk
  <2>2. y \in {None} \cup 0..NoDataTicks
    BY <1>4, <2>1, EvalAssumption DEF NdOk, NdLatches
  <2>3. nodata'[sp] = [l EXCEPT !.age = y]
    BY <1>2
  <2> HIDE DEF y, l
  <2>4. NdOk(sp[2], ndType[sp[1]], [l EXCEPT !.age = y])
    BY <2>1, <2>2 DEF NdOk, NdLatches
  <2>5. /\ NdOn(sp[1], ndType[sp[1]], [l EXCEPT !.age = y]) = NdOn(sp[1], ndType[sp[1]], l)
        /\ [l EXCEPT !.age = y].active = l.active
    BY <2>1 DEF NdOn, NdOk, NdLatches
  <2> QED BY <2>3, <2>4, <2>5 DEF l
<1>6. RulesOk' /\ WatchOk'
  BY <1>1, <1>2, <1>3, <1>5 DEF RulesOk, WatchOk
<1>7. EdgesPair'
  <2>1. RulesOn(rt') = RulesOn(rt)
    BY <1>3 DEF RulesOn
  <2>2. NdsOn(ndType, nodata') = NdsOn(ndType, nodata)
    BY <1>5 DEF NdsOn
  <2>3. Latched' = Latched
    BY <1>2, <2>1, <2>2, LatchedIs DEF AllOn
  <2> QED BY <1>2, <2>3 DEF AlarmInd, AlarmInv, EdgesPair
<1>8. OneAlarm' /\ BuzzIsAlarm' /\ buzz' \in BOOLEAN /\ mbOk' \in BOOLEAN
  <2>1. OneAlarm'
    BY <1>2, <1>5 DEF AlarmInd, AlarmInv, OneAlarm, Slot0
  <2> QED BY <1>1, <1>2, <2>1 DEF AlarmInd, AlarmInv, BuzzIsAlarm, AlarmType
<1>9. sinceSent' \in {None} \cup 0..Limit
  BY <1>2, <1>4, EvalAssumption DEF AlarmInd, AlarmInv, AlarmType
<1> QED BY <1>6, <1>7, <1>8, <1>9, AlarmIndIs

LEMMA AlarmStarts == AlarmInit => AlarmInd
<1> SUFFICES ASSUME AlarmInit PROVE AlarmInd
  OBVIOUS
<1>1. NoRule \notin RuleSet /\ NoRule.kind = "none"
  BY NoRuleIs
<1>2. LatchOk(NoLatch) /\ ~NoLatch.active
  BY <1>1 DEF LatchOk, LatchType, NoLatch, None
<1>3. RulesOk
  <2>1. \A i \in Idx : LatchOk(rt[i])
    BY <1>2 DEF AlarmInit
  <2>2. rule \in [Idx -> RuleSet \cup {NoRule}]
    BY DEF AlarmInit
  <2>3. count \in 0..MaxCount
    BY EvalAssumption DEF AlarmInit
  <2> QED BY <2>1, <2>2, <2>3 DEF RulesOk, AlarmInit
<1>4. \A sp \in Latch : NdOk(sp[2], ndType[sp[1]], nodata[sp]) /\ ~nodata[sp].active
  <2>1. \A p, t : NdOk(p, t, NoData)
    BY DEF NdOk, NdLatches, NoData, Channels
  <2>2. ~NoData.active
    BY DEF NoData
  <2> QED BY <2>1, <2>2 DEF AlarmInit
<1>5. WatchOk
  BY <1>4 DEF WatchOk, AlarmInit, MmLatches, NdTypes
<1>6. Latched = {}
  <2>1. RulesOn(rt) = {}
    BY <1>2 DEF RulesOn, On, AlarmInit
  <2>2. MmsOn(mm) = {}
    BY DEF MmsOn, MmOn, AlarmInit
  <2>3. NdsOn(ndType, nodata) = {}
    BY <1>4 DEF NdsOn, NdOn
  <2>4. LowOn(lowBatt) = {}
    BY DEF LowOn, AlarmInit
  <2> QED BY <2>1, <2>2, <2>3, <2>4, LatchedIs DEF AllOn
<1>7. EdgesPair /\ BuzzIsAlarm
  BY <1>6 DEF EdgesPair, BuzzIsAlarm, AlarmInit
<1>8. OneAlarm
  BY DEF OneAlarm, AlarmInit
<1>9. AlarmType
  <2>1. {mbOk, buzz} \subseteq BOOLEAN /\ sinceSent \in {None} \cup 0..Limit
    BY DEF AlarmInit
  <2> QED BY <1>3, <1>5, <2>1, AlarmTypeIs
<1> QED BY <1>3, <1>5, <1>7, <1>8, <1>9 DEF AlarmInd, AlarmInv

LEMMA AlarmStep == AlarmInd /\ [AlarmNext]_alarmVars => AlarmInd'
<1> SUFFICES ASSUME AlarmInd, [AlarmNext]_alarmVars PROVE AlarmInd'
  OBVIOUS
<1>1. CASE UNCHANGED alarmVars
  <2>1. UNCHANGED <<ruleVars, nodata, ndType, mm, lowBatt, outputs, expected, state, mbOk>>
    BY <1>1 DEF alarmVars, watch
  <2>2. UNCHANGED <<rule, rt, value, level, count, unheard, stale>>
    BY <2>1 DEF ruleVars
  <2>3. RulesOk' /\ WatchOk' /\ mbOk' \in BOOLEAN
    BY <2>1, <2>2 DEF AlarmInd, AlarmInv, AlarmType, RulesOk, WatchOk
  <2> QED BY <2>1, <2>2, <2>3, InputKeeps
<1> QED BY <1>1, RuleInputsKeep, WatchInputsKeep, PollKeeps, TickKeeps DEF AlarmNext

\* Alarms pair: the alarms the edges left open at the backend are the ones latched, a slot in
\* mismatch raises that one alarm, and the melody plays just while an alarm is on, for all
\* rules, slots, readings and steps of app_alarm_poll() and app_alarm_event().
THEOREM AlarmsPair == AlarmSpec => []AlarmInv
<1>1. AlarmInd => AlarmInv
  BY DEF AlarmInd
<1> QED BY <1>1, AlarmStarts, AlarmStep, PTL DEF AlarmSpec

-----------------------------------------------------------------------------
(* Alarms: in their time                                                     *)

\* What a latch waits for has already lasted as long as is no longer to wait: a level that is
\* being confirmed (the poll or its event has seen it, and it is lost as soon as its turn is
\* handled), silence, the hold of a motion; and the pulses of a window were all seen.
LevelHeld(l, lev, h, un) ==
  l.last.kind = "state" /\ ~l.last.w1 /\ l.confirm # None =>
    /\ lev = l.last.to => h + l.confirm >= l.last.hold
    /\ ~un => lev = l.last.to
StillHeld(l, q)  == IsStillness(l.last) /\ l.confirm # None => q + l.confirm >= l.last.hold
MotionHeld(l, q) ==
  IsMotion(l.last) /\ l.expiry # None => l.active /\ q + l.expiry >= l.last.hold
RateCounted(l, c, p) ==
  l.last.kind = "rate" /\ l.base # None => p >= RateHi \/ c - l.base <= p
Held(l, lev, h, un, q) == LevelHeld(l, lev, h, un) /\ StillHeld(l, q) /\ MotionHeld(l, q)

TimeOk ==
  /\ held \in 0..MaxHold /\ quiet \in 0..MaxHold /\ pulsed \in [Idx -> 0..RateHi]
  /\ \A i \in Idx : /\ Held(rt[i], level, held, unheard, quiet)
                    /\ RateCounted(rt[i], count, pulsed[i])

\* InItsTime of a latch before and after.
FiresOf(l, m) == m.active /\ ~(l.active /\ l.last = m.last)
EndsOf(l, m)  == l.active /\ ~m.active /\ m.last = l.last
InTime(l, m, lev, h, q, p) ==
  /\ FiresOf(l, m) /\ m.last.kind = "state" /\ ~m.last.w1 => lev = m.last.to /\ h >= m.last.hold
  /\ FiresOf(l, m) /\ IsStillness(m.last) => q >= m.last.hold
  /\ EndsOf(l, m) /\ IsMotion(m.last) /\ m.last.on => q >= m.last.hold
  /\ FiresOf(l, m) /\ m.last.kind = "rate" => p >= RateHi

LEMMA InItsTimeIs ==
  ASSUME NEW i \in Idx, InTime(rt[i], rt'[i], level, held, quiet, pulsed[i])
  PROVE  InItsTime(i)
BY DEF InTime, InItsTime, FiresOf, EndsOf, Fires, Ends

\* One evaluation after another.
LEMMA InTimeThen ==
  ASSUME NEW l, NEW m, NEW n, m.last = l.last, n.last = l.last, NEW lev, NEW h, NEW q, NEW p,
         InTime(l, m, lev, h, q, p), InTime(m, n, lev, h, q, p)
  PROVE  InTime(l, n, lev, h, q, p)
<1>1. FiresOf(l, n) => FiresOf(l, m) \/ FiresOf(m, n)
  BY DEF FiresOf
<1>2. EndsOf(l, n) => EndsOf(l, m) \/ EndsOf(m, n)
  BY DEF EndsOf
<1> QED BY <1>1, <1>2 DEF InTime

LEMMA SameInTime ==
  ASSUME NEW l, NEW m, m.last = l.last, m.active = l.active, NEW lev, NEW h, NEW q, NEW p
  PROVE  InTime(l, m, lev, h, q, p)
BY DEF InTime, FiresOf, EndsOf

\* A latch that waits for nothing.
Fresh(l) == ~l.active /\ l.base = None /\ l.expiry = None /\ l.confirm = None

LEMMA FreshHeld ==
  ASSUME NEW l, Fresh(l), NEW lev, NEW h, NEW un, NEW q, NEW c, NEW p
  PROVE  Held(l, lev, h, un, q) /\ RateCounted(l, c, p)
BY DEF Fresh, Held, LevelHeld, StillHeld, MotionHeld, RateCounted

\* A latch keeps waiting only for the rule it was waiting for.
LEMMA SyncedIs ==
  ASSUME NEW l, LatchOk(l), NEW r \in RuleSet \cup {NoRule}
  PROVE  LET s == Synced(l, r).rt IN
         /\ s.last = r /\ LatchOk(s)
         /\ s = l \/ (Fresh(s) /\ (r = NoRule \/ l.last # r))
<1> DEFINE ended == Cleared(l, l.last, EdgeType(l))
           fresh == IF r = NoRule THEN NoLatch ELSE [NoLatch EXCEPT !.used = TRUE, !.last = r]
           s == Synced(l, r).rt
<1>1. s.last = r /\ LatchOk(s)
  BY SyncedSound DEF Sound
<1>2. Fresh(fresh)
  BY DEF Fresh, NoLatch
<1>3. \/ r # NoRule /\ l.used /\ l.last = r /\ s = l
      \/ (r = NoRule \/ ~l.used \/ l.last # r) /\ s = fresh
  BY DEF Synced, Same, Cleared
<1>4. l.last = r /\ r # NoRule => l.used
  BY DEF LatchOk
<1> HIDE DEF s, fresh
<1> QED BY <1>1, <1>2, <1>3, <1>4 DEF s

LEMMA SyncedInTime ==
  ASSUME NEW l, LatchOk(l), NEW r \in RuleSet \cup {NoRule}, NEW m, m.last = r,
         r = NoRule => ~m.active, NEW lev, NEW h, NEW q, NEW p,
         InTime(Synced(l, r).rt, m, lev, h, q, p)
  PROVE  InTime(l, m, lev, h, q, p)
<1> DEFINE s == Synced(l, r).rt
<1>1. s.last = r /\ (s = l \/ (Fresh(s) /\ (r = NoRule \/ l.last # r)))
  BY SyncedIs
<1>2. NoRule.kind = "none"
  BY NoRuleIs
<1> HIDE DEF s
<1>3. CASE s = l
  BY <1>3 DEF s
<1>4. CASE Fresh(s) /\ l.last # r
  <2>1. ~EndsOf(l, m) /\ (FiresOf(l, m) => FiresOf(s, m))
    BY <1>4 DEF EndsOf, FiresOf, Fresh
  <2> QED BY <2>1 DEF InTime, s
<1>5. CASE r = NoRule
  BY <1>2, <1>5 DEF InTime, FiresOf, IsMotion
<1> QED BY <1>1, <1>3, <1>4, <1>5

LEMMA ClearedRt ==
  ASSUME NEW m, NEW r, NEW t
  PROVE  Cleared(m, r, t).rt = Off(m)
BY DEF Cleared, Off

\* A level is only confirmed while it is there, and a rule fires on it once it is.
LEMMA EdgeRuleTime ==
  ASSUME NEW l, LatchOk(l), l.last \in RuleSet, l.last.kind = "state", NEW cur \in {0, 1},
         NEW h \in Nat, NEW un, LevelHeld(l, cur, h, un), ~l.last.w1
  PROVE  LET m == EdgeRule(l, l.last, cur).rt IN
         /\ LevelHeld(m, cur, h, FALSE)
         /\ m.active /\ ~l.active => cur = l.last.to /\ h >= l.last.hold
<1> DEFINE r == l.last
           m == EdgeRule(l, r, cur).rt
           seen == [l EXCEPT !.prev = cur]
           stop == [seen EXCEPT !.confirm = None]
<1>1. r.hold \in Nat /\ l.confirm \in Int /\ None = -1
  BY RuleIs, AlarmAssumption DEF LatchOk, LatchType, None
<1> DEFINE now   == [Raised(seen, r, "trigger") EXCEPT !.rt.expiry = 0]
           after == [Raised(stop, r, "trigger") EXCEPT !.rt.expiry = r.hold]
           wait  == [seen EXCEPT !.confirm = r.hold]
           out   == EdgeRule(l, r, cur)
<1>2. \/ cur = r.to /\ r.hold = 0 /\ l.confirm = None /\ out = now
      \/ cur = r.to /\ out = Same(wait)
      \/ out = Same(stop)
      \/ cur = r.to /\ l.confirm = 0 /\ out = after
      \/ (l.confirm = None \/ cur = r.to) /\ out = Same(seen)
  BY <1>1 DEF EdgeRule
<1>7. /\ now.rt = [Up(seen) EXCEPT !.expiry = 0] /\ after.rt = [Up(stop) EXCEPT !.expiry = r.hold]
      /\ Same(wait).rt = wait /\ Same(stop).rt = stop /\ Same(seen).rt = seen
  <2> DEFINE es == <<Edge(TRUE, r, "trigger")>>
             n == Up(seen)
             o == Up(stop)
  <2>1. /\ Raised(seen, r, "trigger") = [rt |-> n, edges |-> es]
        /\ Raised(stop, r, "trigger") = [rt |-> o, edges |-> es]
    BY DEF Raised, Up
  <2> HIDE DEF es, n, o
  <2>2. now = [rt |-> [n EXCEPT !.expiry = 0], edges |-> es]
    BY <2>1
  <2>4. after = [rt |-> [o EXCEPT !.expiry = r.hold], edges |-> es]
    BY <2>1
  <2>3. Same(wait).rt = wait /\ Same(stop).rt = stop /\ Same(seen).rt = seen
    BY DEF Same
  <2> QED BY <2>2, <2>3, <2>4 DEF n, o
<1> HIDE DEF now, after, out
<1>8. \/ cur = r.to /\ r.hold = 0 /\ l.confirm = None /\ m = [Up(seen) EXCEPT !.expiry = 0]
      \/ cur = r.to /\ m = wait
      \/ m = stop
      \/ cur = r.to /\ l.confirm = 0 /\ m = [Up(stop) EXCEPT !.expiry = r.hold]
      \/ (l.confirm = None \/ cur = r.to) /\ m = seen
  BY <1>2, <1>7 DEF out
<1> HIDE DEF m
<1>3. /\ m.last = r
      /\ \/ cur = r.to /\ r.hold = 0 /\ m.confirm = None
         \/ cur = r.to /\ m.confirm = r.hold /\ (m.active => l.active)
         \/ m.confirm = None /\ (m.active => l.active)
         \/ cur = r.to /\ l.confirm = 0 /\ m.confirm = None
         \/ (l.confirm = None \/ cur = r.to) /\ m.confirm = l.confirm /\ (m.active => l.active)
  BY <1>8 DEF Up, LatchOk, LatchType
<1>4. l.confirm # None /\ cur = r.to => h + l.confirm >= r.hold
  BY DEF LevelHeld
<1>5. LevelHeld(m, cur, h, FALSE)
  BY <1>1, <1>3, <1>4 DEF LevelHeld
<1>6. m.active /\ ~l.active => cur = r.to /\ h >= r.hold
  BY <1>1, <1>3, <1>4
<1> QED BY <1>5, <1>6 DEF m

LEMMA LevelRuleTime ==
  ASSUME NEW l, LatchOk(l), l.last \in RuleSet, l.last.kind = "state", NEW cur \in {0, 1},
         NEW h \in Nat, NEW un, LevelHeld(l, cur, h, un), ~l.last.w1
  PROVE  LET m == LevelRule(l, l.last, cur).rt IN
         /\ LevelHeld(m, cur, h, FALSE)
         /\ m.active /\ ~l.active => cur = l.last.to /\ h >= l.last.hold
<1> DEFINE r == l.last
           m == LevelRule(l, r, cur).rt
           seen == [l EXCEPT !.prev = cur]
<1>1. r.hold \in Nat /\ l.confirm \in Int /\ None = -1 /\ l.active \in BOOLEAN
  BY RuleIs, AlarmAssumption DEF LatchOk, LatchType, None
<1>2. seen.active = l.active /\ seen.confirm = l.confirm /\ seen.last = r
  BY DEF LatchOk, LatchType
<1> DEFINE stop  == [seen EXCEPT !.confirm = None]
           wait  == [seen EXCEPT !.confirm = IF @ = None THEN r.hold ELSE @]
           raise == [Raised(seen, r, "trigger") EXCEPT
                       !.rt.confirm = IF r.hold = 0 THEN @ ELSE None]
           out   == LevelRule(l, r, cur)
           up    == [Up(seen) EXCEPT !.confirm = IF r.hold = 0 THEN l.confirm ELSE None]
<1>3. \/ out = Cleared(stop, r, "trigger")
      \/ cur = r.to /\ out = Same(seen)
      \/ cur = r.to /\ (r.hold = 0 \/ l.confirm = 0) /\ out = raise
      \/ cur = r.to /\ out = Same(wait)
  BY <1>2 DEF LevelRule
<1>8. raise.rt = up
  <2> DEFINE es == <<Edge(TRUE, r, "trigger")>>
             n == Up(seen)
  <2>1. Raised(seen, r, "trigger") = [rt |-> n, edges |-> es]
    BY DEF Raised, Up
  <2>2. n.confirm = l.confirm
    BY DEF Up, LatchOk, LatchType
  <2> HIDE DEF es, n
  <2>3. raise = [rt |-> [n EXCEPT !.confirm = IF r.hold = 0 THEN @ ELSE None], edges |-> es]
    BY <2>1
  <2> QED BY <2>2, <2>3 DEF n
<1>9. Cleared(stop, r, "trigger").rt = Off(stop) /\ Same(seen).rt = seen /\ Same(wait).rt = wait
  BY ClearedRt DEF Same
<1> HIDE DEF raise, out
<1>10. \/ m = Off(stop)
       \/ cur = r.to /\ m = seen
       \/ cur = r.to /\ (r.hold = 0 \/ l.confirm = 0) /\ m = up
       \/ cur = r.to /\ m = wait
  BY <1>3, <1>8, <1>9 DEF out
<1> HIDE DEF m
<1>4. /\ m.last = r
      /\ \/ m.confirm = None /\ ~m.active
         \/ cur = r.to /\ m.confirm = l.confirm /\ (m.active => l.active)
         \/ cur = r.to /\ (r.hold = 0 \/ l.confirm = 0) /\ m.confirm \in {l.confirm, None}
         \/ cur = r.to /\ m.confirm \in {r.hold, l.confirm} /\ (m.active => l.active)
  BY <1>10 DEF Up, Off, LatchOk, LatchType
<1>5. l.confirm # None /\ cur = r.to => h + l.confirm >= r.hold
  BY DEF LevelHeld
<1>6. LevelHeld(m, cur, h, FALSE)
  BY <1>1, <1>4, <1>5 DEF LevelHeld
<1>7. m.active /\ ~l.active => cur = r.to /\ h >= r.hold
  BY <1>1, <1>4, <1>5
<1> QED BY <1>6, <1>7 DEF m

\* A rule that is off waits for nothing, but the hold of one that was not active.
LEMMA DisabledIs ==
  ASSUME NEW l, LatchOk(l), NEW r, NEW cur \in {0, 1}
  PROVE  LET m == Disabled(l, r, cur).rt IN
         /\ ~m.active /\ m.confirm = None /\ m.last = l.last
         /\ m.expiry = IF l.active THEN None ELSE l.expiry
<1> DEFINE c   == Off(l)
           lat == [c EXCEPT !.confirm = None, !.prev = cur]
           m   == IF l.active THEN [lat EXCEPT !.expiry = None] ELSE lat
<1>1. Disabled(l, r, cur).rt = m
  <2> DEFINE out == Cleared(l, r, "trigger")
             n   == [out.rt EXCEPT !.confirm = None, !.prev = cur]
  <2>1. PICK es : out = [rt |-> c, edges |-> es]
    BY DEF Cleared, Off
  <2>2. Disabled(l, r, cur) =
          [out EXCEPT !.rt = IF l.active THEN [n EXCEPT !.expiry = None] ELSE n]
    BY DEF Disabled
  <2>3. out.rt = c
    BY <2>1
  <2> HIDE DEF out, c
  <2>4. Disabled(l, r, cur) = [rt |-> m, edges |-> es]
    BY <2>1, <2>2, <2>3
  <2> HIDE DEF m
  <2> QED BY <2>4
<1> QED BY <1>1 DEF Off, LatchOk, LatchType

LEMMA LevelTime ==
  ASSUME NEW l, LatchOk(l), l.last \in RuleSet, l.last.kind = "state", NEW on \in BOOLEAN,
         NEW cur \in {0, 1}, NEW h \in Nat, NEW un, LevelHeld(l, cur, h, un), ~l.last.w1
  PROVE  LET m == State(l, l.last, on, cur).rt IN
         /\ m.last = l.last
         /\ LevelHeld(m, cur, h, FALSE)
         /\ m.active /\ ~l.active => cur = l.last.to /\ h >= l.last.hold
<1> DEFINE m == State(l, l.last, on, cur).rt
<1>1. m.last = l.last
  BY StateSound
<1>2. CASE ~on
  <2>1. m = Disabled(l, l.last, cur).rt
    BY <1>2 DEF State
  <2> HIDE DEF m
  <2>2. ~m.active /\ m.confirm = None
    BY <2>1, DisabledIs
  <2> QED BY <1>1, <2>2 DEF LevelHeld, m
<1>3. ~IsStillness(l.last)
  BY DEF IsStillness
<1>4. CASE on /\ IsEdge(l.last)
  <2>1. m = EdgeRule(l, l.last, cur).rt
    BY <1>3, <1>4 DEF State
  <2> HIDE DEF m
  <2> QED BY <1>1, <2>1, EdgeRuleTime DEF m
<1>5. CASE on /\ ~IsEdge(l.last)
  <2>1. m = LevelRule(l, l.last, cur).rt
    BY <1>3, <1>5 DEF State
  <2> HIDE DEF m
  <2> QED BY <1>1, <2>1, LevelRuleTime DEF m
<1> QED BY <1>2, <1>4, <1>5

\* A difference of the counter is no more than what was counted.
LEMMA ModIs ==
  ASSUME NEW w \in Nat \ {0}, NEW x \in Nat
  PROVE  x % w \in Nat /\ x % w <= x
<1>1. x % w \in 0..(w - 1)
  OBVIOUS
<1>2. x < w => x % w = x
  OBVIOUS
<1> QED BY <1>1, <1>2

\* A rate fires only on pulses that were counted since its base, which is the counter where
\* its window began.
LEMMA CountTime ==
  ASSUME NEW l, LatchOk(l), l.last \in RuleSet, l.last.kind = "rate", NEW on \in BOOLEAN,
         NEW cur \in 0..MaxCount, NEW p \in Nat, RateCounted(l, cur, p)
  PROVE  LET m == Count(l, l.last, on, cur).rt IN
         /\ m.last = l.last
         /\ m.base = cur \/ (l.base # None /\ m.base = l.base /\ m.window = l.window)
         /\ m.active /\ ~l.active => p >= RateHi
<1> DEFINE r    == l.last
           m    == Count(l, r, on, cur).rt
           anew == [l EXCEPT !.base = cur, !.window = 0]
           over == (cur - l.base) % Wide >= RateHi
<1>1. m.last = r
  BY CountSound
<1>2. l.base \in {None} \cup 0..MaxCount /\ l.active \in BOOLEAN
  BY DEF LatchOk, LatchType
<1>3. \/ m = Off(anew)
      \/ m = anew
      \/ l.base # None /\ m = l
      \/ l.base # None /\ ~(cur < l.base) /\ over /\ m = Up(anew)
  <2>1. Raised(anew, r, "trigger").rt = Up(anew)
    BY DEF Raised, Up
  <2> QED BY <2>1, ClearedRt DEF Count, Same, Fell
<1> HIDE DEF m
<1>4. /\ m.base = cur \/ (l.base # None /\ m.base = l.base /\ m.window = l.window)
      /\ m.active /\ ~l.active => l.base # None /\ ~(cur < l.base) /\ over
  <2>1. anew.base = cur /\ (anew.active => l.active)
    BY DEF LatchOk, LatchType
  <2>2. Off(anew).base = cur /\ ~Off(anew).active /\ Up(anew).base = cur
    BY DEF Off, Up, LatchOk, LatchType
  <2> HIDE DEF anew, over
  <2> QED BY <1>3, <2>1, <2>2
<1>5. ASSUME m.active, ~l.active PROVE p >= RateHi
  <2>1. l.base # None /\ ~(cur < l.base) /\ over
    BY <1>4, <1>5
  <2>2. l.base \in Nat /\ cur \in Nat /\ MaxCount \in Nat
    BY <1>2, <2>1, EvalAssumption
  <2>3. cur - l.base \in Nat
    BY <2>1, <2>2
  <2>4. (cur - l.base) % Wide <= cur - l.base /\ (cur - l.base) % Wide \in Nat
    BY <2>3, ModIs, AlarmAssumption
  <2>5. RateHi \in Nat
    BY AlarmAssumption
  <2>6. cur - l.base >= RateHi
    BY <2>1, <2>3, <2>4, <2>5
  <2>7. p >= RateHi \/ cur - l.base <= p
    BY <2>1 DEF RateCounted
  <2> QED BY <2>3, <2>5, <2>6, <2>7
<1> QED BY <1>1, <1>4, <1>5 DEF m

\* A sweep raises stillness after its silence, and ends a motion after its hold.
LEMMA SweepIs ==
  ASSUME NEW l, LatchOk(l), NEW armed \in BOOLEAN
  PROVE  LET m == Sweep(l, armed).rt
             r == l.last
         IN \/ m = l
            \/ l.expiry = 0 /\ ~IsStillness(r) /\ m = Off(Expired(l))
            \/ IsStillness(r) /\ l.used /\ l.confirm = None /\ m = [l EXCEPT !.confirm = r.hold]
            \/ IsStillness(r) /\ l.used /\ l.confirm = 0 /\ ~l.active
                 /\ m = [Up(l) EXCEPT !.confirm = None]
<1> DEFINE r     == l.last
           first == Quiet(l, armed)
           then  == HoldOver(first.rt)
           wait  == [l EXCEPT !.confirm = r.hold]
           up    == [Up(l) EXCEPT !.confirm = None]
<1>1. CASE ~l.used
  BY <1>1 DEF Sweep, Same
<1>2. CASE l.used
  <2>1. Sweep(l, armed).rt = then.rt
    <3>1. Sound(0, l, first) /\ LatchOk(first.rt)
      BY <1>2, QuietSound DEF Sound
    <3> HIDE DEF first
    <3>2. Sound(0, first.rt, then)
      BY <3>1, HoldOverSound
    <3>3. Sweep(l, armed) = After(first, then)
      BY <1>2 DEF Sweep, first
    <3> HIDE DEF then
    <3> QED BY <3>1, <3>2, <3>3, SoundThen
  <2>2. ASSUME NEW n PROVE HoldOver(n).rt = IF n.expiry # 0 THEN n ELSE Off(Expired(n))
    <3>1. CASE n.expiry # 0
      BY <3>1 DEF HoldOver, Same
    <3>2. CASE n.expiry = 0
      <4> DEFINE out == Cleared(Expired(n), n.last, "trigger")
      <4>1. PICK es : out = [rt |-> Off(Expired(n)), edges |-> es]
        BY DEF Cleared, Off
      <4>2. HoldOver(n) = IF IsMotion(n.last) THEN out ELSE [out EXCEPT !.edges = <<>>]
        BY <3>2 DEF HoldOver, Expired
      <4> HIDE DEF out
      <4> QED BY <3>2, <4>1, <4>2
    <3> QED BY <3>1, <3>2
  <2>3. CASE ~IsStillness(r)
    <3>1. first.rt = l
      BY <2>3 DEF Quiet, Same
    <3> HIDE DEF first
    <3> QED BY <2>1, <2>2, <2>3, <3>1
  <2>4. CASE IsStillness(r)
    <3>1. l.expiry = None
      BY <2>4 DEF LatchOk, IsStillness, IsEdge, IsMotion
    <3>2. \/ first.rt = l
          \/ l.confirm = None /\ first.rt = wait
          \/ l.confirm = 0 /\ ~l.active /\ first.rt = up
      <4> DEFINE raise == [Raised(l, r, "trigger") EXCEPT !.rt.confirm = None]
                 es == <<Edge(TRUE, r, "trigger")>>
                 n == Up(l)
      <4>1. raise.rt = up
        <5>1. Raised(l, r, "trigger") = [rt |-> n, edges |-> es]
          BY DEF Raised, Up
        <5> HIDE DEF es, n
        <5>2. raise = [rt |-> [n EXCEPT !.confirm = None], edges |-> es]
          BY <5>1
        <5> QED BY <5>2 DEF n
      <4>2. \/ first = Same(l)
            \/ l.confirm = None /\ first = Same(wait)
            \/ l.confirm = 0 /\ ~l.active /\ first = raise
        BY DEF Quiet
      <4>3. Same(l).rt = l /\ Same(wait).rt = wait
        BY DEF Same
      <4> HIDE DEF raise, first
      <4> QED BY <4>1, <4>2, <4>3
    <3>3. first.rt.expiry # 0
      <4>1. wait.expiry = None /\ up.expiry = None
        BY <3>1 DEF Up, LatchOk, LatchType
      <4> HIDE DEF first, wait, up
      <4> QED BY <3>1, <3>2, <4>1 DEF None
    <3> HIDE DEF first, wait, up
    <3>4. Sweep(l, armed).rt = first.rt
      BY <2>1, <2>2, <3>3
    <3> QED BY <1>2, <2>4, <3>2, <3>4 DEF wait, up
  <2> QED BY <2>3, <2>4
<1>3. l.used \in BOOLEAN
  BY DEF LatchOk, LatchType
<1> QED BY <1>1, <1>2, <1>3

LEMMA SweepTime ==
  ASSUME NEW l, LatchOk(l), NEW armed \in BOOLEAN, NEW lev, NEW h, NEW un, NEW q \in Nat, NEW p,
         Held(l, lev, h, un, q)
  PROVE  LET m == Sweep(l, armed).rt IN
         /\ m.last = l.last /\ m.base = l.base /\ m.window = l.window
         /\ Held(m, lev, h, un, q) /\ InTime(l, m, lev, h, q, p)
<1> DEFINE r == l.last
           m == Sweep(l, armed).rt
           ended == Off(Expired(l))
           wait == [l EXCEPT !.confirm = r.hold]
           up == [Up(l) EXCEPT !.confirm = None]
<1>1. \/ m = l
      \/ l.expiry = 0 /\ ~IsStillness(r) /\ m = ended
      \/ IsStillness(r) /\ l.used /\ l.confirm = None /\ m = wait
      \/ IsStillness(r) /\ l.used /\ l.confirm = 0 /\ ~l.active /\ m = up
  BY SweepIs
<1> HIDE DEF m
<1>2. IsStillness(r) => r.kind = "pulse" /\ ~IsMotion(r)
  BY DEF IsStillness, IsMotion
<1>3. r.kind = "state" => ~IsMotion(r) /\ ~IsStillness(r)
  BY DEF IsStillness, IsMotion
<1>4. CASE m = l
  BY <1>4, SameInTime DEF m
<1>5. CASE l.expiry = 0 /\ ~IsStillness(r) /\ m = ended
  <2>1. /\ m.last = r /\ m.base = l.base /\ m.window = l.window /\ m.confirm = l.confirm
        /\ ~m.active /\ m.expiry = None
    BY <1>5 DEF Off, Expired, LatchOk, LatchType
  <2>2. Held(m, lev, h, un, q)
    BY <1>5, <2>1 DEF Held, LevelHeld, StillHeld, MotionHeld
  <2>3. IsMotion(r) => q + 0 >= r.hold
    BY <1>5 DEF Held, MotionHeld, None
  <2>4. IsMotion(r) => q >= r.hold
    BY <2>3
  <2>5. InTime(l, m, lev, h, q, p)
    BY <2>1, <2>4 DEF InTime, FiresOf, EndsOf
  <2> QED BY <2>1, <2>2, <2>5 DEF m
<1>6. CASE IsStillness(r) /\ l.used /\ l.confirm = None /\ m = wait
  <2>1. /\ m.last = r /\ m.base = l.base /\ m.window = l.window /\ m.confirm = r.hold
        /\ m.active = l.active /\ m.expiry = l.expiry
    BY <1>6 DEF LatchOk, LatchType
  <2>2. r.hold \in Nat
    BY <1>6, RuleIs DEF LatchOk
  <2>3. Held(m, lev, h, un, q)
    BY <1>2, <1>6, <2>1, <2>2 DEF Held, LevelHeld, StillHeld, MotionHeld
  <2> QED BY <2>1, <2>3, SameInTime DEF m
<1>7. CASE IsStillness(r) /\ l.used /\ l.confirm = 0 /\ ~l.active /\ m = up
  <2>1. /\ m.last = r /\ m.base = l.base /\ m.window = l.window /\ m.confirm = None
        /\ m.active
    BY <1>7 DEF Up, LatchOk, LatchType
  <2>2. Held(m, lev, h, un, q)
    BY <1>2, <1>7, <2>1 DEF Held, LevelHeld, StillHeld, MotionHeld
  <2>3. q + 0 >= r.hold
    BY <1>7 DEF Held, StillHeld, None
  <2>4. q >= r.hold
    BY <2>3
  <2>5. InTime(l, m, lev, h, q, p)
    BY <1>2, <1>7, <2>1, <2>4 DEF InTime, FiresOf, EndsOf
  <2> QED BY <2>1, <2>2, <2>5 DEF m
<1> QED BY <1>1, <1>4, <1>5, <1>6, <1>7

\* What only a level, a count or a pulse is about leaves the other kinds alone.
LEMMA OtherKind ==
  ASSUME NEW l, NEW m, m.last = l.last, NEW lev, NEW h, NEW un, NEW q, NEW p,
         l.last.kind \notin {"pulse", "rate"}, l.last.kind = "state" => l.last.w1
  PROVE  /\ Held(m, lev, h, un, q) /\ InTime(l, m, lev, h, q, p)
BY DEF Held, LevelHeld, StillHeld, MotionHeld, InTime, IsStillness, IsMotion

\* What the poll makes of a latch whose rule is in force.
LEMMA EvalTime ==
  ASSUME NEW l, LatchOk(l), l.last \in RuleSet, NEW on \in BOOLEAN, NEW reads \in BOOLEAN,
         NEW in, InputsOk(in), ~l.last.w1 => reads, NEW h \in Nat, NEW un, NEW q, NEW p \in Nat,
         Held(l, in.level, h, un, q), RateCounted(l, in.count, p)
  PROVE  LET m == EvalRule(l, l.last, on, reads, in).rt IN
         /\ m.last = l.last
         /\ Held(m, in.level, h, un, q) /\ InTime(l, m, in.level, h, q, p)
         /\ l.last.kind = "rate" =>
              m.base = in.count \/ (l.base # None /\ m.base = l.base /\ m.window = l.window)
<1> DEFINE r == l.last
           m == EvalRule(l, r, on, reads, in).rt
<1>1. m.last = r
  BY EvalRuleSound
<1>2. r.kind \in {"threshold", "state", "pulse", "rate"}
  BY RuleIs
<1>3. CASE r.kind = "pulse"
  <2>1. m = l
    BY <1>3 DEF EvalRule, Same
  <2> HIDE DEF m
  <2> QED BY <1>3, <2>1, SameInTime DEF m
<1>4. CASE r.kind = "rate"
  <2>1. m = Count(l, r, on, in.count).rt
    BY <1>4 DEF EvalRule
  <2> HIDE DEF m
  <2>2. /\ m.base = in.count \/ (l.base # None /\ m.base = l.base /\ m.window = l.window)
        /\ m.active /\ ~l.active => p >= RateHi
    BY <1>4, <2>1, CountTime DEF InputsOk
  <2>3. Held(m, in.level, h, un, q) /\ InTime(l, m, in.level, h, q, p)
    BY <1>1, <1>4, <2>2
       DEF Held, LevelHeld, StillHeld, MotionHeld, InTime, FiresOf, IsStillness, IsMotion
  <2> QED BY <1>1, <2>2, <2>3 DEF m
<1>5. CASE r.kind = "state" /\ ~r.w1
  <2>1. m = State(l, r, on, in.level).rt
    BY <1>5 DEF EvalRule
  <2> HIDE DEF m
  <2>2. /\ LevelHeld(m, in.level, h, FALSE)
        /\ m.active /\ ~l.active => in.level = r.to /\ h >= r.hold
    BY <1>5, <2>1, LevelTime DEF InputsOk, Held
  <2>3. LevelHeld(m, in.level, h, un)
    BY <2>2 DEF LevelHeld
  <2>4. Held(m, in.level, h, un, q) /\ InTime(l, m, in.level, h, q, p)
    BY <1>1, <1>5, <2>2, <2>3
       DEF Held, StillHeld, MotionHeld, InTime, FiresOf, IsStillness, IsMotion
  <2> QED BY <1>1, <1>5, <2>4 DEF m
<1>6. CASE r.kind = "threshold" \/ (r.kind = "state" /\ r.w1)
  <2> HIDE DEF m
  <2>1. Held(m, in.level, h, un, q) /\ InTime(l, m, in.level, h, q, p)
    BY <1>1, <1>6, OtherKind
  <2> QED BY <1>1, <1>6, <2>1 DEF m
<1> QED BY <1>2, <1>3, <1>4, <1>5, <1>6

LEMMA RulePollTime ==
  ASSUME RulesOk, NEW i \in Idx, held \in Nat, quiet \in Nat, NEW p \in Nat,
         Held(rt[i], level, held, unheard, quiet), RateCounted(rt[i], count, p)
  PROVE  LET m == RulePoll(i).rt IN
         /\ Held(m, level, held, unheard, quiet)
         /\ InTime(rt[i], m, level, held, quiet, p)
         /\ RateCounted(m, count, IF Restarts(i, m) THEN 0 ELSE p)
<1> DEFINE l == rt[i]
           r == rule[i]
           s == Synced(l, r)
           eval == EvalRule(s.rt, r, Armed(r), Reads(r), Inputs)
           evaled == IF r = NoRule THEN s ELSE After(s, eval)
           armed == evaled.rt.used /\ Armed(evaled.rt.last)
           m == RulePoll(i).rt
<1>1. r \in RuleSet \cup {NoRule} /\ LatchOk(l) /\ count \in Nat
  BY DEF RulesOk
<1>2. Armed(r) \in BOOLEAN /\ Reads(r) \in BOOLEAN /\ InputsOk(Inputs) /\ (~r.w1 => Reads(r))
  BY DEF Armed, Reads, RulesOk, InputsOk, Inputs
<1>3. /\ Sound(i, l, s) /\ s.rt.last = r /\ LatchOk(s.rt)
      /\ s.rt = l \/ (Fresh(s.rt) /\ (r = NoRule \/ l.last # r))
  BY <1>1, SyncedSound, SyncedIs
<1>4. Held(s.rt, level, held, unheard, quiet) /\ RateCounted(s.rt, count, p)
  BY <1>3, FreshHeld
<1>5. Inputs.level = level /\ Inputs.count = count
  BY DEF Inputs
<1>6. m = Sweep(evaled.rt, armed).rt
  <2>1. RulePoll(i) = After(evaled, Sweep(evaled.rt, armed))
    BY DEF RulePoll
  <2> HIDE DEF evaled, armed
  <2> QED BY <2>1 DEF After
<1> HIDE DEF m
<1>7. /\ LatchOk(evaled.rt) /\ evaled.rt.last = r
      /\ Held(evaled.rt, level, held, unheard, quiet)
      /\ InTime(s.rt, evaled.rt, level, held, quiet, p)
      /\ r.kind = "rate" => evaled.rt.base = count
            \/ (s.rt.base # None /\ evaled.rt.base = s.rt.base /\ evaled.rt.window = s.rt.window)
  <2>1. CASE r = NoRule
    <3>1. evaled = s
      BY <2>1
    <3>2. r.kind # "rate"
      BY <2>1, NoRuleIs
    <3> HIDE DEF evaled, s
    <3> QED BY <1>3, <1>4, <3>1, <3>2, SameInTime
  <2>2. CASE r # NoRule
    <3>1. r \in RuleSet
      BY <1>1, <2>2
    <3> HIDE DEF s, l, r
    <3>2. Sound(i, s.rt, eval) /\ eval.rt.last = r
      <4>1. s.rt.last \in RuleSet /\ LatchOk(s.rt) /\ s.rt.last = r
        BY <1>3, <3>1
      <4>2. Armed(r) \in BOOLEAN /\ Reads(r) \in BOOLEAN /\ InputsOk(Inputs)
        BY <1>2
      <4>3. /\ Sound(i, s.rt, EvalRule(s.rt, s.rt.last, Armed(r), Reads(r), Inputs))
            /\ EvalRule(s.rt, s.rt.last, Armed(r), Reads(r), Inputs).rt.last = s.rt.last
        BY <4>1, <4>2, EvalRuleSound
      <4> QED BY <4>1, <4>3
    <3>3. /\ Held(eval.rt, level, held, unheard, quiet)
          /\ InTime(s.rt, eval.rt, level, held, quiet, p)
          /\ r.kind = "rate" => eval.rt.base = count
               \/ (s.rt.base # None /\ eval.rt.base = s.rt.base /\ eval.rt.window = s.rt.window)
      BY <1>2, <1>3, <1>4, <1>5, <3>1, EvalTime
    <3> HIDE DEF eval
    <3>4. evaled.rt = eval.rt
      BY <1>3, <2>2, <3>2, SoundThen
    <3> HIDE DEF evaled
    <3> QED BY <3>2, <3>3, <3>4 DEF Sound
  <2> QED BY <2>1, <2>2
<1> HIDE DEF evaled
<1>8. armed \in BOOLEAN
  BY <1>7 DEF LatchOk, LatchType, Armed
<1> HIDE DEF armed, s, l, r
<1>9. /\ m.last = r /\ m.base = evaled.rt.base /\ m.window = evaled.rt.window
      /\ Held(m, level, held, unheard, quiet)
      /\ InTime(evaled.rt, m, level, held, quiet, p)
  BY <1>6, <1>7, <1>8, SweepTime
<1>10. InTime(l, m, level, held, quiet, p)
  <2>1. InTime(s.rt, m, level, held, quiet, p)
    BY <1>3, <1>7, <1>9, InTimeThen
  <2>2. r = NoRule => ~m.active
    <3>1. LatchOk(m)
      BY RulePollSound DEF m
    <3> QED BY <3>1, <1>9, NoRuleIs DEF LatchOk
  <2> QED BY <1>1, <1>9, <2>1, <2>2, SyncedInTime DEF s
<1>11. RateCounted(m, count, IF Restarts(i, m) THEN 0 ELSE p)
  <2> SUFFICES ASSUME r.kind = "rate", m.base # None
               PROVE  LET n == IF Restarts(i, m) THEN 0 ELSE p
                      IN  n >= RateHi \/ count - m.base <= n
    BY <1>9 DEF RateCounted
  <2>1. CASE m.base = count
    BY <1>1, <2>1
  <2>2. CASE m.base # count
    <3>1. s.rt.base # None /\ m.base = s.rt.base /\ m.window = s.rt.window
      BY <1>7, <1>9, <2>2
    <3>2. s.rt = l
      BY <1>3, <3>1 DEF Fresh
    <3>3. ~Restarts(i, m)
      BY <3>1, <3>2 DEF Restarts, l
    <3>4. p >= RateHi \/ count - m.base <= p
      BY <1>3, <1>4, <3>1 DEF RateCounted
    <3> QED BY <3>3, <3>4
  <2> QED BY <2>1, <2>2
<1> QED BY <1>9, <1>10, <1>11 DEF m, l

\* A pulse starts the silence anew, and the hold of a motion.
LEMMA PulseIs ==
  ASSUME NEW l, LatchOk(l), NEW r, ~IsEdge(r)
  PROVE  LET m == Pulse(l, r, 1).rt IN m.active /\ m.expiry = r.hold
<1> DEFINE lapsed == Lapsed(l, r)
           n == [lapsed.rt EXCEPT !.prev = 1]
           raise == [Raised(n, r, "trigger") EXCEPT !.rt.expiry = r.hold]
           more == [n EXCEPT !.expiry = r.hold]
           m == Pulse(l, r, 1).rt
<1>1. lapsed.rt = l \/ lapsed.rt = Off(Expired(l))
  <2>1. CASE ~(l.active /\ l.expiry = 0)
    BY <2>1 DEF Lapsed, Same
  <2>2. CASE l.active /\ l.expiry = 0
    <3>1. lapsed = Cleared(Expired(l), r, "trigger")
      BY <2>2 DEF Lapsed, Expired
    <3> HIDE DEF lapsed
    <3> QED BY <3>1, ClearedRt
  <2> QED BY <2>1, <2>2
<1>2. LatchOk(lapsed.rt)
  <2>1. LatchOk(Off(Expired(l)))
    BY ExpiredIs, OffIs
  <2> HIDE DEF lapsed
  <2> QED BY <1>1, <2>1
<1>4. /\ raise.rt = [Up(n) EXCEPT !.expiry = r.hold]
      /\ \E x, es : raise = [rt |-> x, edges |-> es]
  <2> DEFINE es == <<Edge(TRUE, r, "trigger")>>
             o == Up(n)
  <2>1. Raised(n, r, "trigger") = [rt |-> o, edges |-> es]
    BY DEF Raised, Up
  <2> HIDE DEF es, o
  <2>2. raise = [rt |-> [o EXCEPT !.expiry = r.hold], edges |-> es]
    BY <2>1
  <2> QED BY <2>2 DEF o
<1>3. \/ ~n.active /\ m = raise.rt
      \/ n.active /\ m = more
  <2>1. Pulse(l, r, 1) = After(lapsed, IF ~n.active THEN raise ELSE Same(more))
    BY DEF Pulse
  <2> HIDE DEF lapsed, n, raise, more
  <2>2. \A out : (\E x, es : out = [rt |-> x, edges |-> es]) => After(lapsed, out).rt = out.rt
    BY DEF After
  <2>3. \E x, es : Same(more) = [rt |-> x, edges |-> es]
    BY DEF Same
  <2>4. Same(more).rt = more
    BY DEF Same
  <2>5. n.active \in BOOLEAN
    BY <1>2 DEF n, LatchOk, LatchType
  <2> QED BY <1>4, <2>1, <2>2, <2>3, <2>4, <2>5
<1> HIDE DEF lapsed, m, raise
<1>5. n \in LatchType
  BY <1>2 DEF LatchOk, LatchType
<1> HIDE DEF n
<1>6. LET up == [Up(n) EXCEPT !.expiry = r.hold] IN
      up.active /\ up.expiry = r.hold /\ more.expiry = r.hold /\ more.active = n.active
  BY <1>5 DEF Up, LatchType
<1> HIDE DEF more
<1> QED BY <1>3, <1>4, <1>6 DEF m

LEMMA PulseTime ==
  ASSUME NEW l, LatchOk(l), l.last \in RuleSet, l.last.kind = "pulse", NEW on \in BOOLEAN,
         l.last.on => on, NEW lev, NEW h, NEW un, NEW q, NEW p, Held(l, lev, h, un, q)
  PROVE  LET m == State(l, l.last, on, 1).rt IN
         /\ m.last = l.last
         /\ Held(m, lev, h, un, 0) /\ InTime(l, m, lev, h, q, p)
<1> DEFINE r == l.last
           m == State(l, r, on, 1).rt
<1>1. m.last = r
  BY StateSound
<1>2. r.hold \in Nat
  BY RuleIs
<1>3. LevelHeld(m, lev, h, un)
  <2> HIDE DEF m
  <2> QED BY <1>1 DEF LevelHeld
<1>4. CASE ~on
  <2>1. m = Disabled(l, r, 1).rt
    BY <1>4 DEF State
  <2> HIDE DEF m
  <2>2. ~m.active /\ m.confirm = None /\ m.expiry = IF l.active THEN None ELSE l.expiry
    BY <2>1, DisabledIs
  <2>3. IsMotion(r) => m.expiry = None
    BY <2>2 DEF Held, MotionHeld
  <2>4. Held(m, lev, h, un, 0)
    BY <1>1, <1>3, <2>2, <2>3 DEF Held, StillHeld, MotionHeld
  <2>5. InTime(l, m, lev, h, q, p)
    BY <1>1, <1>4, <2>2 DEF InTime, FiresOf
  <2> QED BY <1>1, <2>4, <2>5 DEF m
<1>5. CASE on /\ IsStillness(r)
  <2> DEFINE n == [l EXCEPT !.confirm = r.hold, !.prev = 1]
  <2>1. m = Off(n)
    <3>1. m = Cleared(n, r, "trigger").rt
      BY <1>5 DEF State, Stillness
    <3> QED BY <3>1, ClearedRt
  <2> HIDE DEF m
  <2>2. ~m.active /\ m.confirm = r.hold
    BY <2>1 DEF Off, LatchOk, LatchType
  <2>3. ~IsMotion(r)
    BY <1>5 DEF IsStillness, IsMotion
  <2>4. Held(m, lev, h, un, 0)
    BY <1>1, <1>2, <1>3, <2>2, <2>3 DEF Held, StillHeld, MotionHeld
  <2>5. InTime(l, m, lev, h, q, p)
    BY <1>1, <2>2, <2>3 DEF InTime, FiresOf
  <2> QED BY <1>1, <2>4, <2>5 DEF m
<1>6. CASE on /\ ~IsStillness(r) /\ ~IsEdge(r)
  <2>1. m = Pulse(l, r, 1).rt
    BY <1>6 DEF State
  <2> HIDE DEF m
  <2>2. m.active /\ m.expiry = r.hold
    BY <1>6, <2>1, PulseIs
  <2>3. Held(m, lev, h, un, 0)
    BY <1>1, <1>2, <1>3, <1>6, <2>2 DEF Held, StillHeld, MotionHeld
  <2>4. InTime(l, m, lev, h, q, p)
    BY <1>1, <1>6, <2>2 DEF InTime, EndsOf
  <2> QED BY <1>1, <2>3, <2>4 DEF m
<1>7. CASE IsEdge(r)
  <2> HIDE DEF m
  <2>1. ~IsStillness(r) /\ ~IsMotion(r)
    BY <1>7 DEF IsEdge, IsStillness, IsMotion
  <2> QED BY <1>1, <1>3, <2>1 DEF Held, StillHeld, MotionHeld, InTime, m
<1> QED BY <1>4, <1>5, <1>6, <1>7

\* What an event makes of a latch: it follows the edit of its rule, and its channel.
LEMMA RuleEventIs ==
  ASSUME RulesOk, NEW i \in Idx, NEW kind \in {"state", "pulse"}, NEW cur \in {0, 1}
  PROVE  LET r == rule[i]
             s == Synced(rt[i], r).rt
             m == RuleEvent(i, kind, cur).rt
         IN /\ LatchOk(s) /\ s.last = r /\ m.last = r /\ LatchOk(m)
            /\ s = rt[i] \/ Fresh(s)
            /\ IF r \in RuleSet /\ r.kind = kind /\ ~r.w1
                 THEN m = State(s, r, Armed(r), cur).rt
                 ELSE m = s
<1> DEFINE r == rule[i]
           s == Synced(rt[i], r)
           eval == State(s.rt, r, Armed(r), cur)
           out == RuleEvent(i, kind, cur)
<1>1. r \in RuleSet \cup {NoRule} /\ LatchOk(rt[i]) /\ Armed(r) \in BOOLEAN /\ NoRule \notin RuleSet
  BY NoRuleIs DEF RulesOk, Armed
<1>2. /\ Sound(i, rt[i], s) /\ s.rt.last = r /\ LatchOk(s.rt)
      /\ s.rt = rt[i] \/ Fresh(s.rt)
  BY <1>1, SyncedSound, SyncedIs
<1>3. out = IF r = NoRule \/ r.kind # kind \/ r.w1 THEN s ELSE After(s, eval)
  BY DEF RuleEvent
<1>4. LatchOk(out.rt)
  BY RuleEventSound
<1> HIDE DEF r, s, out
<1>5. CASE ~(r \in RuleSet /\ r.kind = kind /\ ~r.w1)
  <2>1. out = s
    BY <1>1, <1>3, <1>5
  <2> QED BY <1>2, <1>4, <1>5, <2>1 DEF r, s, out
<1>6. CASE r \in RuleSet /\ r.kind = kind /\ ~r.w1
  <2>1. Sound(i, s.rt, eval) /\ eval.rt.last = r
    <3>1. s.rt.last \in RuleSet /\ s.rt.last.kind \in {"state", "pulse"} /\ LatchOk(s.rt)
      BY <1>2, <1>6
    <3>2. /\ Sound(i, s.rt, State(s.rt, s.rt.last, Armed(r), cur))
          /\ State(s.rt, s.rt.last, Armed(r), cur).rt.last = s.rt.last
      BY <1>1, <3>1, StateSound
    <3> QED BY <1>2, <3>2
  <2>2. out = After(s, eval)
    BY <1>1, <1>3, <1>6
  <2> HIDE DEF eval
  <2>3. out.rt = eval.rt
    BY <1>2, <2>1, <2>2, SoundThen
  <2> QED BY <1>2, <1>4, <1>6, <2>1, <2>3 DEF r, s, out, eval
<1> QED BY <1>5, <1>6

LEMMA LevelEventTime ==
  ASSUME RulesOk, NEW i \in Idx, held \in Nat, NEW p,
         Held(rt[i], level, held, unheard, quiet), RateCounted(rt[i], count, p)
  PROVE  LET m == RuleEvent(i, "state", level).rt IN
         /\ Held(m, level, held, FALSE, quiet) /\ RateCounted(m, count, p)
         /\ InTime(rt[i], m, level, held, quiet, p)
<1> DEFINE r == rule[i]
           s == Synced(rt[i], r).rt
           m == RuleEvent(i, "state", level).rt
<1>1. level \in {0, 1} /\ r \in RuleSet \cup {NoRule} /\ LatchOk(rt[i]) /\ Armed(r) \in BOOLEAN
  BY DEF RulesOk, Armed
<1>2. /\ LatchOk(s) /\ s.last = r /\ m.last = r /\ LatchOk(m)
      /\ s = rt[i] \/ Fresh(s)
      /\ IF r \in RuleSet /\ r.kind = "state" /\ ~r.w1
           THEN m = State(s, r, Armed(r), level).rt
           ELSE m = s
  BY <1>1, RuleEventIs
<1>3. Held(s, level, held, unheard, quiet) /\ RateCounted(s, count, p)
  BY <1>2, FreshHeld
<1>4. r = NoRule => ~m.active
  BY <1>2, NoRuleIs DEF LatchOk
<1> HIDE DEF r, s, m
<1>5. /\ Held(m, level, held, FALSE, quiet) /\ RateCounted(m, count, p)
      /\ InTime(s, m, level, held, quiet, p)
  <2>1. CASE r \in RuleSet /\ r.kind = "state" /\ ~r.w1
    <3>1. s.last \in RuleSet /\ s.last.kind = "state" /\ ~s.last.w1 /\ LevelHeld(s, level, held, unheard)
      BY <1>2, <1>3, <2>1 DEF Held
    <3>2. m = State(s, s.last, Armed(r), level).rt
      BY <1>2, <2>1
    <3>3. /\ LevelHeld(m, level, held, FALSE)
          /\ m.active /\ ~s.active => level = r.to /\ held >= r.hold
      <4>1. /\ LevelHeld(State(s, s.last, Armed(r), level).rt, level, held, FALSE)
            /\ State(s, s.last, Armed(r), level).rt.active /\ ~s.active =>
                 level = s.last.to /\ held >= s.last.hold
        BY <1>1, <1>2, <3>1, LevelTime
      <4> QED BY <1>2, <3>2, <4>1
    <3> QED BY <1>2, <2>1, <3>3
        DEF Held, StillHeld, MotionHeld, RateCounted, InTime, FiresOf, IsStillness, IsMotion
  <2>2. CASE ~(r \in RuleSet /\ r.kind = "state" /\ ~r.w1)
    <3>1. m = s /\ LevelHeld(m, level, held, FALSE)
      BY <1>1, <1>2, <2>2, NoRuleIs DEF LevelHeld
    <3> QED BY <1>2, <1>3, <3>1, SameInTime DEF Held
  <2> QED BY <2>1, <2>2
<1>6. InTime(rt[i], m, level, held, quiet, p)
  BY <1>1, <1>2, <1>4, <1>5, SyncedInTime DEF s
<1> QED BY <1>5, <1>6 DEF m

LEMMA PulseEventTime ==
  ASSUME RulesOk, NEW i \in Idx, NEW p,
         Held(rt[i], level, held, unheard, quiet), RateCounted(rt[i], count, p)
  PROVE  LET m == RuleEvent(i, "pulse", 1).rt IN
         /\ Held(m, level, held, unheard, 0) /\ RateCounted(m, count, p)
         /\ InTime(rt[i], m, level, held, quiet, p)
<1> DEFINE r == rule[i]
           s == Synced(rt[i], r).rt
           m == RuleEvent(i, "pulse", 1).rt
<1>1. r \in RuleSet \cup {NoRule} /\ LatchOk(rt[i]) /\ Armed(r) \in BOOLEAN
  BY DEF RulesOk, Armed
<1>2. /\ LatchOk(s) /\ s.last = r /\ m.last = r /\ LatchOk(m)
      /\ s = rt[i] \/ Fresh(s)
      /\ IF r \in RuleSet /\ r.kind = "pulse" /\ ~r.w1
           THEN m = State(s, r, Armed(r), 1).rt
           ELSE m = s
  BY <1>1, RuleEventIs
<1>3. Held(s, level, held, unheard, quiet) /\ RateCounted(s, count, p)
  BY <1>2, FreshHeld
<1>4. r = NoRule => ~m.active
  BY <1>2, NoRuleIs DEF LatchOk
<1>5. r \in RuleSet /\ r.kind = "pulse" => ~r.w1 /\ (r.on => Armed(r))
  BY RuleIs DEF Armed
<1> HIDE DEF r, s, m
<1>6. /\ Held(m, level, held, unheard, 0) /\ RateCounted(m, count, p)
      /\ InTime(s, m, level, held, quiet, p)
  <2>1. CASE r \in RuleSet /\ r.kind = "pulse"
    <3>1. s.last \in RuleSet /\ s.last.kind = "pulse" /\ (s.last.on => Armed(r))
      BY <1>2, <1>5, <2>1
    <3>2. m = State(s, s.last, Armed(r), 1).rt
      BY <1>2, <1>5, <2>1
    <3>3. Held(m, level, held, unheard, 0) /\ InTime(s, m, level, held, quiet, p)
      BY <1>1, <1>2, <1>3, <3>1, <3>2, PulseTime
    <3>4. RateCounted(m, count, p)
      BY <1>2, <2>1 DEF RateCounted
    <3> QED BY <3>3, <3>4
  <2>2. CASE ~(r \in RuleSet /\ r.kind = "pulse")
    <3>1. m = s /\ r.kind # "pulse"
      BY <1>1, <1>2, <2>2, NoRuleIs
    <3>2. Held(m, level, held, unheard, 0)
      BY <1>2, <1>3, <3>1 DEF Held, StillHeld, MotionHeld, IsStillness, IsMotion
    <3> QED BY <1>2, <1>3, <3>1, <3>2, SameInTime
  <2> QED BY <2>1, <2>2
<1>7. InTime(rt[i], m, level, held, quiet, p)
  BY <1>1, <1>2, <1>4, <1>6, SyncedInTime DEF s
<1> QED BY <1>6, <1>7 DEF m

\* The clock: what was waited for is a tick older, what is still to wait a tick shorter.
LEMMA AgedTime ==
  ASSUME NEW l, LatchOk(l), NEW lev, NEW h \in 0..MaxHold, NEW un, NEW q \in 0..MaxHold,
         NEW c, NEW p, Held(l, lev, h, un, q), RateCounted(l, c, p)
  PROVE  LET m == Aged(l) IN
         /\ Held(m, lev, Younger(h, MaxHold), un, Younger(q, MaxHold)) /\ RateCounted(m, c, p)
         /\ m.last = l.last /\ m.active = l.active
<1> DEFINE r == l.last
           m == Aged(l)
           hh == Younger(h, MaxHold)
           qq == Younger(q, MaxHold)
<1>1. /\ m.last = r /\ m.active = l.active /\ m.base = l.base
      /\ m.confirm = Older(l.confirm) /\ m.expiry = Older(l.expiry)
  BY DEF Aged, LatchOk, LatchType
<1>2. l.confirm \in {None} \cup 0..MaxHold /\ l.expiry \in {None} \cup 0..MaxHold /\ None = -1
  BY DEF LatchOk, LatchType, None
<1>3. r.kind \in {"state", "pulse"} => r.hold \in 0..MaxHold
  <2>1. r.kind \in {"state", "pulse"} => r \in RuleSet
    BY NoRuleIs DEF LatchOk, LatchType
  <2> QED BY <2>1, RuleIs
<1>4. ASSUME NEW a \in 0..MaxHold, NEW b \in {None} \cup 0..MaxHold, NEW n \in 0..MaxHold, b # None => a + b >= n
      PROVE  Older(b) # None => b # None /\ Younger(a, MaxHold) + Older(b) >= n
  BY <1>2, <1>4, AlarmAssumption DEF Older, Younger
<1>5. Older(None) = None
  BY DEF Older, None
<1> HIDE DEF m, hh, qq
<1>6. LevelHeld(m, lev, hh, un)
  <2> SUFFICES ASSUME r.kind = "state", ~r.w1, Older(l.confirm) # None
               PROVE  /\ lev = r.to => hh + Older(l.confirm) >= r.hold
                      /\ ~un => lev = r.to
    BY <1>1 DEF LevelHeld
  <2>1. l.confirm # None
    BY <1>5
  <2>2. /\ lev = r.to => h + l.confirm >= r.hold
        /\ ~un => lev = r.to
    BY <2>1 DEF Held, LevelHeld
  <2>3. lev = r.to => hh + Older(l.confirm) >= r.hold
    BY <1>2, <1>3, <1>4, <2>2 DEF hh
  <2> QED BY <2>2, <2>3
<1>7. StillHeld(m, qq)
  <2>1. IsStillness(r) => r.kind = "pulse" /\ (l.confirm # None => q + l.confirm >= r.hold)
    BY DEF IsStillness, Held, StillHeld
  <2>2. IsStillness(r) /\ Older(l.confirm) # None => qq + Older(l.confirm) >= r.hold
    BY <1>2, <1>3, <1>4, <2>1 DEF qq
  <2> QED BY <1>1, <2>2 DEF StillHeld
<1>8. MotionHeld(m, qq)
  <2>1. IsMotion(r) => r.kind = "pulse" /\ (l.expiry # None => l.active /\ q + l.expiry >= r.hold)
    BY DEF IsMotion, Held, MotionHeld
  <2>2. IsMotion(r) /\ Older(l.expiry) # None => l.active /\ qq + Older(l.expiry) >= r.hold
    BY <1>2, <1>3, <1>4, <1>5, <2>1 DEF qq
  <2> QED BY <1>1, <2>2 DEF MotionHeld
<1>9. RateCounted(m, c, p)
  BY <1>1 DEF RateCounted
<1> QED BY <1>1, <1>6, <1>7, <1>8, <1>9 DEF Held, m, hh, qq

\* The inductive invariant, and what each step keeps.
TimeInd == RulesOk /\ TimeOk

LEMMA TimeIndIs ==
  ASSUME TimeInd
  PROVE  /\ held \in Nat /\ quiet \in Nat /\ MaxHold \in Nat /\ RateHi \in Nat
         /\ \A i \in Idx : /\ Held(rt[i], level, held, unheard, quiet) /\ LatchOk(rt[i])
                           /\ RateCounted(rt[i], count, pulsed[i]) /\ pulsed[i] \in 0..RateHi
BY AlarmAssumption DEF TimeInd, TimeOk, RulesOk

\* A step that changes no latch fires nothing.
LEMMA StillRules ==
  ASSUME rt' = rt
  PROVE  \A i \in Idx : InItsTime(i)
<1> SUFFICES ASSUME NEW i \in Idx PROVE InItsTime(i)
  OBVIOUS
<1>1. InTime(rt[i], rt'[i], level, held, quiet, pulsed[i])
  BY SameInTime
<1> QED BY <1>1, InItsTimeIs

LEMMA PollTime ==
  ASSUME TimeInd, Poll
  PROVE  TimeOk' /\ \A i \in Idx : InItsTime(i)
<1>1. /\ rt' = [i \in Idx |-> RulePoll(i).rt]
      /\ UNCHANGED <<level, count, unheard, held, quiet>>
  BY PollIs
<1>2. pulsed' = [i \in Idx |-> IF Restarts(i, RulePoll(i).rt) THEN 0 ELSE pulsed[i]]
  <2> DEFINE ruled == [i \in Idx |-> RulePoll(i)]
  <2>1. pulsed' = [i \in Idx |-> IF Restarts(i, ruled[i].rt) THEN 0 ELSE pulsed[i]]
    BY Zenon DEF Poll
  <2>2. \A i \in Idx : ruled[i] = RulePoll(i)
    OBVIOUS
  <2> HIDE DEF ruled
  <2> QED BY <2>1, <2>2
<1>3. ASSUME NEW i \in Idx
      PROVE  /\ Held(rt'[i], level, held, unheard, quiet) /\ RateCounted(rt'[i], count, pulsed'[i])
             /\ pulsed'[i] \in 0..RateHi /\ InItsTime(i)
  <2>1. /\ RulesOk /\ held \in Nat /\ quiet \in Nat /\ pulsed[i] \in Nat /\ RateHi \in Nat
        /\ Held(rt[i], level, held, unheard, quiet) /\ RateCounted(rt[i], count, pulsed[i])
        /\ pulsed[i] \in 0..RateHi
    BY TimeIndIs DEF TimeInd
  <2>2. /\ Held(RulePoll(i).rt, level, held, unheard, quiet)
        /\ InTime(rt[i], RulePoll(i).rt, level, held, quiet, pulsed[i])
        /\ RateCounted(RulePoll(i).rt, count,
                       IF Restarts(i, RulePoll(i).rt) THEN 0 ELSE pulsed[i])
    BY <2>1, RulePollTime
  <2>3. rt'[i] = RulePoll(i).rt
    BY <1>1
  <2>4. pulsed'[i] = IF Restarts(i, RulePoll(i).rt) THEN 0 ELSE pulsed[i]
    BY <1>2
  <2> QED BY <2>1, <2>2, <2>3, <2>4, InItsTimeIs
<1>4. held \in 0..MaxHold /\ quiet \in 0..MaxHold
  BY DEF TimeInd, TimeOk
<1>5. pulsed' \in [Idx -> 0..RateHi]
  BY <1>2, <1>3
<1> QED BY <1>1, <1>3, <1>4, <1>5 DEF TimeOk

LEMMA EventTime ==
  ASSUME TimeInd, LevelEvent \/ PulseEvent
  PROVE  TimeOk' /\ \A i \in Idx : InItsTime(i)
<1>1. PICK kind \in {"state", "pulse"}, cur \in {0, 1} :
        /\ Event(kind, cur) /\ level \in {0, 1}
        /\ \/ kind = "state" /\ cur = level /\ unheard' = FALSE /\ quiet' = quiet
           \/ kind = "pulse" /\ cur = 1 /\ unheard' = unheard /\ quiet' = 0
  BY DEF LevelEvent, PulseEvent, TimeInd, RulesOk
<1>2. rt' = [i \in Idx |-> RuleEvent(i, kind, cur).rt] /\ UNCHANGED <<level, count, held, pulsed>>
  BY <1>1, Zenon DEF Event
<1>3. ASSUME NEW i \in Idx
      PROVE  /\ Held(rt'[i], level, held, unheard', quiet') /\ RateCounted(rt'[i], count, pulsed[i])
             /\ InItsTime(i)
  <2>1. /\ RulesOk /\ held \in Nat
        /\ Held(rt[i], level, held, unheard, quiet) /\ RateCounted(rt[i], count, pulsed[i])
    BY TimeIndIs DEF TimeInd
  <2>2. rt'[i] = RuleEvent(i, kind, cur).rt
    BY <1>2
  <2>3. CASE kind = "state" /\ cur = level /\ unheard' = FALSE /\ quiet' = quiet
    <3>1. LET m == RuleEvent(i, "state", level).rt IN
          /\ Held(m, level, held, FALSE, quiet) /\ RateCounted(m, count, pulsed[i])
          /\ InTime(rt[i], m, level, held, quiet, pulsed[i])
      BY <2>1, LevelEventTime
    <3> QED BY <2>2, <2>3, <3>1, InItsTimeIs
  <2>4. CASE kind = "pulse" /\ cur = 1 /\ unheard' = unheard /\ quiet' = 0
    <3>1. LET m == RuleEvent(i, "pulse", 1).rt IN
          /\ Held(m, level, held, unheard, 0) /\ RateCounted(m, count, pulsed[i])
          /\ InTime(rt[i], m, level, held, quiet, pulsed[i])
      BY <2>1, PulseEventTime
    <3> QED BY <2>2, <2>4, <3>1, InItsTimeIs
  <2> QED BY <1>1, <2>3, <2>4
<1>4. held \in 0..MaxHold /\ quiet' \in 0..MaxHold /\ pulsed \in [Idx -> 0..RateHi]
  BY <1>1, TimeIndIs DEF TimeInd, TimeOk
<1> QED BY <1>2, <1>3, <1>4 DEF TimeOk

LEMMA TickTime ==
  ASSUME TimeInd, Tick
  PROVE  TimeOk' /\ \A i \in Idx : InItsTime(i)
<1>1. /\ rt' = [i \in Idx |-> Aged(rt[i])]
      /\ held' = Younger(held, MaxHold) /\ quiet' = Younger(quiet, MaxHold)
      /\ UNCHANGED <<level, count, unheard, pulsed>>
  BY DEF Tick
<1>2. held \in 0..MaxHold /\ quiet \in 0..MaxHold /\ pulsed \in [Idx -> 0..RateHi]
  BY DEF TimeInd, TimeOk
<1>3. ASSUME NEW i \in Idx
      PROVE  /\ Held(rt'[i], level, held', unheard, quiet') /\ RateCounted(rt'[i], count, pulsed[i])
             /\ InItsTime(i)
  <2>1. LatchOk(rt[i]) /\ Held(rt[i], level, held, unheard, quiet) /\ RateCounted(rt[i], count, pulsed[i])
    BY TimeIndIs
  <2>2. rt'[i] = Aged(rt[i])
    BY <1>1
  <2>3. /\ Held(Aged(rt[i]), level, Younger(held, MaxHold), unheard, Younger(quiet, MaxHold))
        /\ RateCounted(Aged(rt[i]), count, pulsed[i])
        /\ Aged(rt[i]).last = rt[i].last /\ Aged(rt[i]).active = rt[i].active
    BY <1>2, <2>1, AgedTime
  <2>4. InTime(rt[i], rt'[i], level, held, quiet, pulsed[i])
    BY <2>2, <2>3, SameInTime
  <2> QED BY <1>1, <2>2, <2>3, <2>4, InItsTimeIs
<1>4. held' \in 0..MaxHold /\ quiet' \in 0..MaxHold
  BY <1>1, <1>2, TimeIndIs DEF Younger
<1> QED BY <1>1, <1>2, <1>3, <1>4 DEF TimeOk

LEMMA InputTime ==
  ASSUME TimeInd, LevelTurns \/ Counts
  PROVE  TimeOk' /\ \A i \in Idx : InItsTime(i)
<1>1. rt' = rt /\ quiet' = quiet
  BY DEF LevelTurns, Counts
<1>2. \A i \in Idx : InItsTime(i)
  BY <1>1, StillRules
<1>3. held \in 0..MaxHold /\ quiet \in 0..MaxHold /\ pulsed \in [Idx -> 0..RateHi]
  BY DEF TimeInd, TimeOk
<1>4. CASE LevelTurns
  <2>1. ~unheard /\ level' = 1 - level /\ unheard' = TRUE /\ held' = 0 /\ UNCHANGED <<count, pulsed>>
        /\ level \in {0, 1}
    BY <1>4 DEF LevelTurns, TimeInd, RulesOk
  <2>2. ASSUME NEW i \in Idx
        PROVE  Held(rt[i], level', held', unheard', quiet) /\ RateCounted(rt[i], count, pulsed[i])
    <3>1. Held(rt[i], level, held, unheard, quiet) /\ RateCounted(rt[i], count, pulsed[i])
      BY TimeIndIs
    <3>2. level' # level
      BY <2>1
    <3>3. LevelHeld(rt[i], level', held', unheard')
      BY <2>1, <3>1, <3>2 DEF Held, LevelHeld
    <3> QED BY <3>1, <3>3 DEF Held
  <2>3. held' \in 0..MaxHold
    BY <2>1, TimeIndIs
  <2> QED BY <1>1, <1>2, <1>3, <2>1, <2>2, <2>3 DEF TimeOk
<1>5. CASE Counts
  <2>1. UNCHANGED <<level, unheard, held>>
    BY <1>5 DEF Counts
  <2>2. /\ \A i \in Idx : pulsed'[i] \in 0..RateHi
        /\ \/ count' = count + 1
                /\ \A i \in Idx : pulsed'[i] = IF pulsed[i] < RateHi THEN pulsed[i] + 1 ELSE pulsed[i]
           \/ count' = 0 /\ pulsed' = pulsed
        /\ pulsed' \in [Idx -> 0..RateHi]
    BY <1>3, <1>5, TimeIndIs DEF Counts
  <2>3. ASSUME NEW i \in Idx
        PROVE  Held(rt[i], level, held, unheard, quiet) /\ RateCounted(rt[i], count', pulsed'[i])
    <3>1. /\ Held(rt[i], level, held, unheard, quiet) /\ RateCounted(rt[i], count, pulsed[i])
          /\ pulsed[i] \in 0..RateHi /\ RateHi \in Nat /\ LatchOk(rt[i])
      BY TimeIndIs
    <3>2. count \in 0..MaxCount /\ MaxCount \in Nat /\ rt[i].base \in {None} \cup 0..MaxCount
      BY <3>1, EvalAssumption DEF TimeInd, RulesOk, LatchOk, LatchType
    <3>3. SUFFICES ASSUME rt[i].last.kind = "rate", rt[i].base # None
                   PROVE  pulsed'[i] >= RateHi \/ count' - rt[i].base <= pulsed'[i]
      BY <3>1 DEF RateCounted
    <3>4. pulsed[i] >= RateHi \/ count - rt[i].base <= pulsed[i]
      BY <3>1, <3>3 DEF RateCounted
    <3>5. rt[i].base \in Nat /\ count \in Nat /\ pulsed[i] \in Nat
      BY <3>1, <3>2, <3>3
    <3> QED BY <2>2, <3>1, <3>4, <3>5
  <2> QED BY <1>1, <1>2, <1>3, <2>1, <2>2, <2>3 DEF TimeOk
<1> QED BY <1>4, <1>5

LEMMA TimeStep ==
  ASSUME TimeInd, [AlarmNext]_alarmVars
  PROVE  TimeOk' /\ \A i \in Idx : InItsTime(i)
<1>1. CASE UNCHANGED <<rt, level, count, unheard, held, quiet, pulsed>>
  <2>1. TimeOk'
    BY <1>1 DEF TimeInd, TimeOk
  <2> QED BY <1>1, <2>1, StillRules
<1>2. CASE UNCHANGED alarmVars
  BY <1>1, <1>2 DEF alarmVars, ruleVars
<1>3. CASE RuleInputs
  <2>1. ASSUME NEW i \in Idx, NEW r \in RuleSet \cup {NoRule}, Store(i, r)
        PROVE  UNCHANGED <<rt, level, count, unheard, held, quiet, pulsed>>
    BY <2>1 DEF Store
  <2>2. CASE Reading
    BY <1>1, <2>2 DEF Reading
  <2> QED BY <1>1, <1>3, <2>1, <2>2, EventTime, InputTime DEF RuleInputs
<1>4. CASE WatchInputs
  <2>1. UNCHANGED ruleVars
    BY <1>4 DEF WatchInputs, SlotRebinds, Samples, BoardReads
  <2> QED BY <1>1, <2>1 DEF ruleVars
<1> QED BY <1>2, <1>3, <1>4, PollTime, TickTime DEF AlarmNext

LEMMA TimeStarts == AlarmInit => TimeOk
<1> SUFFICES ASSUME AlarmInit PROVE TimeOk
  OBVIOUS
<1>1. Fresh(NoLatch)
  BY DEF Fresh, NoLatch
<1>2. \A i \in Idx : rt[i] = NoLatch /\ Held(NoLatch, level, held, unheard, quiet)
                     /\ RateCounted(NoLatch, count, pulsed[i])
  BY <1>1, FreshHeld DEF AlarmInit
<1> QED BY <1>2, AlarmAssumption DEF AlarmInit, TimeOk

\* Alarms in their time: a level rule fires only on a level that held for its dwell, however
\* the poll and the event that reports it fall; stillness fires and a motion ends only after
\* its silence; a rate fires only on pulses that were counted in its own window, even across
\* a counter that was reset - for all rules, dwells and widths of the counter.
THEOREM AlarmsKeepTheirTime == AlarmSpec => AlarmsInTime
<1>1. AlarmInit => AlarmInd /\ TimeOk
  BY AlarmStarts, TimeStarts
<1>2. AlarmInd /\ TimeOk /\ [AlarmNext]_alarmVars => AlarmInd' /\ TimeOk'
  <2>1. AlarmInd /\ TimeOk => TimeInd
    BY DEF AlarmInd, TimeInd
  <2> QED BY <2>1, AlarmStep, TimeStep
<1>3. AlarmInd /\ TimeOk /\ [AlarmNext]_alarmVars => [\A i \in Idx : InItsTime(i)]_alarmVars
  <2>1. AlarmInd /\ TimeOk => TimeInd
    BY DEF AlarmInd, TimeInd
  <2> QED BY <2>1, TimeStep
<1> QED BY <1>1, <1>2, <1>3, PTL DEF AlarmSpec, AlarmsInTime
=============================================================================
