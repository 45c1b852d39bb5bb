------------------------ MODULE HistoryRing_proofs ------------------------
(***************************************************************************)
(* Proofs about the history's flash ring, for every number and size of     *)
(* pages, every size of records and any resets, failed writes, clears and  *)
(* replays, of a ring that is never continued from pages older than its    *)
(* newest (GoesBack = FALSE): its pages are one run and its records are in *)
(* place and in order (RingInv), a mount finds every record the flash held *)
(* whole (CommittedSurvive), and a replay is in order (ReplayInOrder).     *)
(*                                                                         *)
(* What the flash and the stage hold is said byte by byte: a page holds a  *)
(* byte at a place, and every step either holds less than before or adds   *)
(* bytes of the record under way at the end of the head page.              *)
(***************************************************************************)
EXTENDS HistoryRing, SequenceTheorems, WellFoundedInduction, TLAPS

-----------------------------------------------------------------------------
(* Numbers                                                                   *)

LEMMA DivMod ==
  ASSUME NEW s \in Nat \ {0}, NEW x \in Nat
  PROVE  /\ x \div s \in Nat /\ x % s \in 0..(s - 1)
         /\ x = ((x \div s) * s) + (x % s)
OBVIOUS

LEMMA ModUnique ==
  ASSUME NEW s \in Nat \ {0}, NEW q \in Int, NEW r \in 0..(s - 1)
  PROVE  ((q * s) + r) % s = r /\ ((q * s) + r) \div s = q
OBVIOUS

LEMMA Products ==
  ASSUME NEW a \in Nat, NEW b \in Nat, NEW s \in Nat
  PROVE  /\ a * s \in Nat /\ (a + 1) * s = (a * s) + s
         /\ a <= b => a * s <= b * s
         /\ s # 0 /\ a * s < b * s => a < b
<1>1. a * s \in Nat /\ b * s \in Nat /\ (a + 1) * s = (a * s) + s
  OBVIOUS
<1>2. ASSUME a <= b PROVE a * s <= b * s
  <2>1. PICK c \in Nat : b = a + c
    BY <1>2, b - a \in Nat
  <2>2. b * s = (a * s) + (c * s) /\ c * s \in Nat
    BY <2>1
  <2> QED BY <1>1, <2>2
<1>3. ASSUME s # 0, a * s < b * s, ~(a < b) PROVE FALSE
  <2>1. PICK c \in Nat : a = b + c
    BY <1>3, a - b \in Nat
  <2>2. a * s = (b * s) + (c * s) /\ c * s \in Nat
    BY <2>1
  <2> QED BY <1>1, <1>3, <2>2
<1> QED BY <1>1, <1>2, <1>3

\* A place and the part of s places it lies in.
LEMMA InPart ==
  ASSUME NEW s \in Nat \ {0}, NEW d \in Nat, NEW n \in Nat
  PROVE  /\ d \div s \in Nat
         /\ d < n * s <=> d \div s < n
         /\ n * s <= d <=> n <= d \div s
         /\ d \div s = n <=> n * s <= d /\ d < (n * s) + s
         /\ d \div s = n => d = (n * s) + (d % s)
<1> DEFINE q == d \div s
           m == d % s
<1>1. q \in Nat /\ m \in 0..(s - 1) /\ d = (q * s) + m
  BY DivMod
<1> HIDE DEF q, m
<1>2. q * s \in Nat /\ n * s \in Nat /\ (q + 1) * s = (q * s) + s /\ (n + 1) * s = (n * s) + s
  BY <1>1, Products
<1>3. q < n => d < n * s
  <2>1. q < n => (q + 1) * s <= n * s
    BY <1>1, q + 1 \in Nat, Products
  <2> QED BY <1>1, <1>2, <2>1
<1>4. n <= q => n * s <= d
  BY <1>1, <1>2, Products
<1>5. d < n * s <=> q < n
  BY <1>1, <1>2, <1>3, <1>4
<1>6. q < n + 1 <=> d < (n * s) + s
  <2>1. q < n + 1 => (q + 1) * s <= (n + 1) * s
    BY <1>1, q + 1 \in Nat, n + 1 \in Nat, Products
  <2>2. n + 1 <= q => (n + 1) * s <= q * s
    BY <1>1, n + 1 \in Nat, Products
  <2> QED BY <1>1, <1>2, <2>1, <2>2
<1>7. n * s <= d <=> n <= q
  BY <1>1, <1>2, <1>5
<1>8. q = n => d = (n * s) + m
  BY <1>1
<1> QED BY <1>1, <1>5, <1>6, <1>7, <1>8 DEF q, m

\* A set of numbers up to n has a greatest element, and a least.
LEMMA LeastIs ==
  ASSUME NEW S \in SUBSET Nat, S # {}
  PROVE  Min(S) \in S /\ \A y \in S : Min(S) <= y
<1>1. IsWellFoundedOn(OpToRel(<, Nat), Nat)
  BY NatLessThanWellFounded
<1>2. PICK x \in S : \A y \in S : ~(<<y, x>> \in OpToRel(<, Nat))
  BY <1>1, WFMin
<1>3. \A y \in S : x <= y
  <2>1. \A y \in S : ~(y < x)
    BY <1>2 DEF OpToRel
  <2> QED BY <2>1
<1>4. \E m \in S : \A y \in S : m <= y
  BY <1>3
<1> QED BY <1>4, Zenon DEF Min

LEMMA GreatestIs ==
  ASSUME NEW n \in Nat, NEW S \in SUBSET (0..n), S # {}
  PROVE  Max(S) \in S /\ \A y \in S : Max(S) >= y
<1> DEFINE T == {n - x : x \in S}
<1>1. T \in SUBSET Nat /\ T # {}
  <2>1. \A x \in S : n - x \in Nat
    OBVIOUS
  <2>2. PICK x \in S : TRUE
    OBVIOUS
  <2>3. n - x \in T
    BY <2>2
  <2>4. \A y \in T : y \in Nat
    BY <2>1, Zenon
  <2> HIDE DEF T
  <2> QED BY <2>3, <2>4
<1>2. PICK y \in T : \A z \in T : y <= z
  <2> HIDE DEF T
  <2> QED BY <1>1, LeastIs
<1>3. PICK x \in S : y = n - x
  OBVIOUS
<1>4. ASSUME NEW z \in S PROVE x >= z
  <2>1. n - z \in T
    OBVIOUS
  <2>2. y <= n - z
    BY <1>2, <2>1
  <2> QED BY <1>3, <2>2
<1>5. \E m \in S : \A z \in S : m >= z
  BY <1>4
<1> QED BY <1>5, Zenon DEF Max

LEMMA MinOfTwo ==
  ASSUME NEW a \in Nat, NEW b \in Nat
  PROVE  Min({a, b}) = IF a <= b THEN a ELSE b
<1>1. {a, b} \in SUBSET Nat /\ {a, b} # {}
  OBVIOUS
<1>2. Min({a, b}) \in {a, b} /\ \A y \in {a, b} : Min({a, b}) <= y
  BY <1>1, LeastIs, Zenon
<1> QED BY <1>2

\* Of pages numbered up to n, one in S has the greatest key.
LEMMA GreatestKey ==
  ASSUME NEW n \in Nat, NEW S \in SUBSET (0..n), S # {}, NEW key \in [0..n -> Nat]
  PROVE  \E p \in S : \A q \in S : key[q] <= key[p]
<1> DEFINE Good == {m \in 0..n : \A q \in S : q <= m => \E p \in S : p <= m /\ \A x \in S : x <= m => key[x] <= key[p]}
           Bad == {m \in 0..n : m \notin Good}
<1>1. n \in Good
  <2> SUFFICES ASSUME Bad # {} PROVE FALSE
    <3>1. n \in 0..n
      OBVIOUS
    <3> HIDE DEF Good
    <3> QED BY <3>1
  <2>1. Bad \in SUBSET Nat
    OBVIOUS
  <2>2. PICK m \in Bad : \A y \in Bad : m <= y
    <3> HIDE DEF Bad
    <3> QED BY <2>1, LeastIs
  <2>3. m \in 0..n /\ m \notin Good
    OBVIOUS
  <2>4. PICK q \in S : q <= m /\ ~\E p \in S : p <= m /\ \A x \in S : x <= m => key[x] <= key[p]
    BY <2>3
  <2>5. CASE \E p \in S : p < m
    <3>1. PICK p0 \in S : p0 < m
      BY <2>5
    <3>2. m - 1 \in 0..n /\ m - 1 \notin Bad
      <4> HIDE DEF Good, Bad
      <4> QED BY <2>2, <2>3, <3>1
    <3>3. m - 1 \in Good
      <4> HIDE DEF Good
      <4> QED BY <3>2
    <3>4. PICK p \in S : p <= m - 1 /\ \A x \in S : x <= m - 1 => key[x] <= key[p]
      BY <3>1, <3>3
    <3>5. CASE m \in S
      <4>1. p \in 0..n /\ key[p] \in Nat /\ key[m] \in Nat
        BY <2>3
      <4>2. CASE key[m] <= key[p]
        <5>1. \A x \in S : x <= m => key[x] <= key[p]
          BY <3>4, <4>2, <2>3
        <5> QED BY <2>4, <3>4, <5>1, <4>1, <2>3
      <4>3. CASE key[p] <= key[m]
        <5>1. \A x \in S : x <= m => key[x] <= key[m]
          <6> TAKE x \in S
          <6>1. key[x] \in Nat
            OBVIOUS
          <6>2. CASE x = m
            BY <4>1, <6>2
          <6>3. CASE x # m
            <7>1. x <= m => key[x] <= key[p]
              BY <3>4, <2>3, <6>3
            <7>2. key[x] \in Nat /\ key[p] \in Nat /\ key[m] \in Nat /\ key[p] <= key[m]
              BY <4>1, <4>3, <6>1
            <7> HIDE DEF Good, Bad
            <7> QED BY <7>1, <7>2
          <6> QED BY <6>2, <6>3
        <5> QED BY <2>4, <3>5, <5>1, <2>3
      <4> QED BY <4>1, <4>2, <4>3
    <3>6. CASE m \notin S
      <4>1. \A x \in S : x <= m => key[x] <= key[p]
        BY <3>4, <3>6, <2>3
      <4> QED BY <2>4, <3>4, <4>1, <2>3
    <3> QED BY <3>5, <3>6
  <2>6. CASE ~\E p \in S : p < m
    <3>1. q = m
      BY <2>4, <2>6, <2>3
    <3>2. \A x \in S : x <= m => x = m
      BY <2>6, <2>3
    <3>3. key[m] \in Nat
      BY <2>3
    <3> QED BY <2>4, <3>1, <3>2, <3>3
  <2> QED BY <2>5, <2>6
<1>2. PICK q \in S : TRUE
  OBVIOUS
<1>3. \E p \in S : p <= n /\ \A x \in S : x <= n => key[x] <= key[p]
  BY <1>1, <1>2
<1> QED BY <1>3

-----------------------------------------------------------------------------
(* What the flash and the stage hold                                         *)

\* The page k before phys.
Behind(phys, k) == IF phys >= k THEN phys - k ELSE phys + NPages - k

\* A view in RAM.
Views ==
  [live : Seq([first : Nat, phys : Phys]), seq : Nat, abs : Nat, last : Phys,
   dw : 0..PayloadDw, stage : Seq(Byte), full : BOOLEAN, layout : Layouts,
   interval : Nat, pending : BOOLEAN]
FlashPages == [Phys -> Page]

\* Where the next byte goes.
Pos(r) == (r.dw * DwData) + Len(r.stage)

\* Byte d of double words.
InWords(dws, d, b) ==
  d < Len(dws) * DwData /\ b = dws[(d \div DwData) + 1][(d % DwData) + 1]
InStaged(r, p, d, b) ==
  /\ r.live # <<>> /\ p = HeadPage(r).phys
  /\ d >= r.dw * DwData /\ d - (r.dw * DwData) < Len(r.stage)
  /\ b = r.stage[d - (r.dw * DwData) + 1]

\* Page p holds byte b of a record at place d, in the flash or staged.
Holds(f, r, p, d, b) ==
  b[1] > 0 /\ ((f[p].valid /\ InWords(f[p].dws, d, b)) \/ InStaged(r, p, d, b))

\* The record of its page that place d belongs to.
SlotOf(f, p, d) == d \div SampleSize[f[p].layout]
\* The records of the head page, and where the next one starts.
HeadSize(r) == SampleSize[r.layout]
Start(r) == HeadRecords(r) * HeadSize(r)

\* A byte lies at its place of its slot, and its record was taken under the
\* page's layout and interval.
PlacedAt(f, m, p, d, b) ==
  /\ b[2] = (d % SampleSize[f[p].layout]) + 1
  /\ b[1] \in DOMAIN m
  /\ m[b[1]].layout = f[p].layout /\ m[b[1]].interval = f[p].interval
Placed(f, r, m) ==
  \A p \in Phys, d \in Nat, b \in Byte : Holds(f, r, p, d, b) => PlacedAt(f, m, p, d, b)

\* A slot has bytes of one record, and later slots and pages those of later ones.
Before(f, p, d, q, e) ==
  f[p].seq < f[q].seq \/ (p = q /\ SlotOf(f, p, d) < SlotOf(f, q, e))
InOrder(f, p, d, b, q, e, c) ==
  /\ Before(f, p, d, q, e) => b[1] < c[1]
  /\ p = q /\ SlotOf(f, p, d) = SlotOf(f, q, e) => b[1] = c[1]
Ordered(f, r) ==
  \A p, q \in Phys, d, e \in Nat, b, c \in Byte :
    Holds(f, r, p, d, b) /\ Holds(f, r, q, e, c) => InOrder(f, p, d, b, q, e, c)

\* Record n is nowhere yet; or just where the record under way goes.
Nowhere(f, r, n) ==
  \A p \in Phys, d \in Nat, b \in Byte : Holds(f, r, p, d, b) => b[1] # n
AtHead(r, p, d) == p = HeadPage(r).phys /\ Start(r) <= d
UnderWay(f, r, n) ==
  \A p \in Phys, d \in Nat, b \in Byte : Holds(f, r, p, d, b) => (b[1] = n <=> AtHead(r, p, d))

-----------------------------------------------------------------------------
(* The inductive invariant                                                   *)

\* Sequence numbers are unique, and rise with the layouts; pages that a mount may
\* chain are one run.
Linked(f, p, q) ==
  /\ p # q => f[p].seq # f[q].seq
  /\ f[p].seq < f[q].seq => f[p].layout <= f[q].layout
  /\ f[q].seq = f[p].seq + 1 /\ f[p].layout = f[q].layout /\ f[p].interval = f[q].interval
       => f[p].first <= f[q].first /\ f[q].first <= f[p].first + PerPage(f[p].layout)
Headers(f) == \A p, q \in Phys : f[p].valid /\ f[q].valid => Linked(f, p, q)
LayoutsUpTo(f, l) == \A p \in Phys : f[p].valid => f[p].layout <= l

\* The view is a run of pages that ends with the head.
LivePage(f, r, i) ==
  /\ f[r.live[i].phys].valid
  /\ f[r.live[i].phys].first = r.live[i].first
  /\ f[r.live[i].phys].layout = r.layout
  /\ r.interval \in {0, f[r.live[i].phys].interval}
  /\ f[r.live[i].phys].seq = r.seq - 1 - (Len(r.live) - i)
Erasing(f, r, i) == i = 1 /\ f[r.live[1].phys] = Blank /\ r.live[1].phys = After(r.last)
Chained(f, r, i) ==
  /\ r.live[i].phys = Behind(r.last, Len(r.live) - i)
  /\ i < Len(r.live) => /\ r.live[i].first <= r.live[i + 1].first
                        /\ r.live[i + 1].first <= r.live[i].first + PerPage(r.layout)
  /\ LivePage(f, r, i) \/ Erasing(f, r, i)
Run(f, r) ==
  /\ Len(r.live) <= NPages
  /\ HeadPage(r).first <= r.abs /\ r.abs <= HeadPage(r).first + PerPage(r.layout)
  /\ r.last = HeadPage(r).phys /\ r.dw = Len(f[r.last].dws)
  /\ \A i \in 1..Len(r.live) : Chained(f, r, i)
RunOk(f, r) ==
  /\ r.live # <<>> => Run(f, r)
  /\ r.live = <<>> => r.stage = <<>>
  /\ Pos(r) <= PayloadDw * DwData

\* The view goes on after every page there is, and right after its own head only.
AheadOf(f, r, p) ==
  /\ f[p].seq < r.seq /\ f[p].layout <= r.layout
  /\ f[p].seq = r.seq - 1 => r.live # <<>> /\ p = r.last
Ahead(f, r) == \A p \in Phys : f[p].valid => AheadOf(f, r, p)

\* A page that takes records has room, and its next record starts where it should.
HasRoom(r) == r.live # <<>> /\ ~r.full => HeadRecords(r) < PerPage(r.layout)
Aligned(r) == r.live # <<>> /\ ~r.full => Pos(r) = Start(r)

Body(f, r, m) ==
  /\ f \in FlashPages /\ r \in Views /\ \A p \in Phys : Len(f[p].dws) <= PayloadDw
  /\ Headers(f) /\ RunOk(f, r) /\ HasRoom(r)
  /\ Placed(f, r, m) /\ Ordered(f, r)

\* The rest of record n, under way in the head page.
Streaming(r, rs, n) ==
  /\ r.live # <<>> /\ ~r.full
  /\ Pos(r) + Len(rs.left) = Start(r) + HeadSize(r) /\ Len(rs.left) <= HeadSize(r)
  /\ \A k \in 1..Len(rs.left) : rs.left[k] = <<n, HeadSize(r) - Len(rs.left) + k>>
  /\ (rs.dw * DwData) + rs.staged = Start(r)

Waiting(a) == a \in {"split", "close", "erase", "header"}
Capturing(a) == Waiting(a) \/ a = "stream"
Rests == [left : Seq(Byte), dw : 0..PayloadDw, staged : 0..DwData]
Takes == Seq([layout : Layouts, interval : Intervals])

\* The capture of record n = Len(m) under way at flash operation a.
Taking(f, r, a, rs, m) ==
  /\ m # <<>> /\ m[Len(m)].layout = r.layout /\ m[Len(m)].interval = r.interval
  /\ Waiting(a) => rs.left = Record(Len(m), r.layout) /\ Nowhere(f, r, Len(m))
  /\ a = "stream" => /\ Streaming(r, rs, Len(m)) /\ Len(r.stage) = DwData
                      /\ UnderWay(f, r, Len(m))
CaptureOk(f, r, a, rs, m) ==
  /\ a \in {"idle", "tail", "stream"} \/ Waiting(a)
  /\ rs \in Rests
  /\ Capturing(a) => Taking(f, r, a, rs, m)
  /\ a # "stream" => Aligned(r) /\ Len(r.stage) < DwData
  /\ a \in {"split", "close", "tail"} => r.live # <<>> /\ r.full /\ r.stage # <<>>

\* Before its first capture a boot's view is just what its mount found.
BootOk ==
  /\ ram.layout <= sel /\ LayoutsUpTo(flash, sel)
  /\ ram.pending => at = "idle" /\ ram = Booted(ram.layout)
  /\ ~ram.pending => Ahead(flash, ram)

OthersOk ==
  /\ sel \in Layouts
  /\ replay \in [on : BOOLEAN, held : BOOLEAN, cursor : Nat, end : Nat, last : Numbers,
                 layout : Layouts \union {0}]
  /\ made \in Takes /\ Len(made) <= MaxRecords
  /\ events \in 0..MaxEvents

RingInd ==
  OthersOk /\ Body(flash, ram, made) /\ CaptureOk(flash, ram, at, rest, made) /\ BootOk

-----------------------------------------------------------------------------
(* Sizes and places of pages                                                 *)

LEMMA SizesAre ==
  /\ NPages \in Nat /\ NPages >= 3 /\ DwData \in Nat \ {0} /\ PayloadDw \in Nat \ {0}
  /\ PayloadDw * DwData \in Nat /\ Layouts \subseteq Nat
  /\ \A l \in Layouts : /\ SampleSize[l] \in Nat \ {0} /\ PerPage(l) \in Nat \ {0}
                        /\ PerPage(l) * SampleSize[l] <= PayloadDw * DwData
<1>1. NPages \in Nat /\ NPages >= 3 /\ DwData \in Nat \ {0} /\ PayloadDw \in Nat \ {0}
  BY RingAssumption
<1> DEFINE P == PayloadDw * DwData
<1>2. P \in Nat
  BY <1>1
<1>3. SampleSize \in Seq(1..P)
  BY RingAssumption
<1> HIDE DEF P
<1>4. Layouts \subseteq Nat /\ \A l \in Layouts : SampleSize[l] \in 1..P
  BY <1>2, <1>3 DEF Layouts
<1>5. ASSUME NEW l \in Layouts
      PROVE  /\ SampleSize[l] \in Nat \ {0} /\ PerPage(l) \in Nat \ {0}
             /\ PerPage(l) * SampleSize[l] <= P
  <2> DEFINE s == SampleSize[l]
             q == P \div s
  <2>1. s \in Nat \ {0} /\ s <= P
    BY <1>2, <1>4, <1>5
  <2>2. PerPage(l) = q
    BY DEF PerPage, P
  <2> HIDE DEF s
  <2>3. q \in Nat /\ P % s \in 0..(s - 1) /\ P = (q * s) + (P % s)
    BY <1>2, <2>1, DivMod
  <2> HIDE DEF q
  <2>4. q * s <= P /\ q # 0
    BY <2>1, <2>3
  <2> QED BY <2>1, <2>2, <2>3, <2>4 DEF s
<1> QED BY <1>1, <1>2, <1>4, <1>5 DEF P

LEMMA BehindIs ==
  ASSUME NEW p \in Phys, NEW k \in 0..(NPages - 1)
  PROVE  /\ (p + NPages - k) % NPages = Behind(p, k) /\ Behind(p, k) \in Phys
         /\ Behind(p, 0) = p
         /\ \A j \in 0..(NPages - 1) : Behind(p, k) = Behind(p, j) => k = j
<1>0. NPages \in Nat /\ NPages >= 3
  BY SizesAre
<1>1. Behind(p, k) \in 0..(NPages - 1)
  BY <1>0 DEF Behind, Phys
<1>2. p + NPages - k = (0 * NPages) + Behind(p, k) \/ p + NPages - k = (1 * NPages) + Behind(p, k)
  BY <1>0 DEF Behind, Phys
<1>3. (p + NPages - k) % NPages = Behind(p, k)
  <2> DEFINE b == Behind(p, k)
  <2>0. b \in 0..(NPages - 1) /\ NPages \in Nat \ {0}
    BY <1>0, <1>1
  <2> HIDE DEF b
  <2>1. ((0 * NPages) + b) % NPages = b
    BY <2>0, 0 \in Int, ModUnique
  <2>3. ((1 * NPages) + b) % NPages = b
    BY <2>0, 1 \in Int, ModUnique
  <2> QED BY <1>2, <2>1, <2>3 DEF b
<1>4. \A j \in 0..(NPages - 1) : Behind(p, k) = Behind(p, j) => k = j
  BY <1>0 DEF Behind, Phys
<1>5. Behind(p, 0) = p
  BY DEF Behind, Phys
<1> QED BY <1>1, <1>3, <1>4, <1>5 DEF Phys

LEMMA AfterIs ==
  ASSUME NEW p \in Phys
  PROVE  /\ After(p) \in Phys /\ After(p) # p /\ After(p) = Behind(p, NPages - 1)
         /\ \A k \in 0..(NPages - 2) : Behind(After(p), k + 1) = Behind(p, k)
         /\ \A k \in 0..(NPages - 1) : Behind(p, k) = After(p) => k = NPages - 1
<1>0. NPages \in Nat /\ NPages >= 3 /\ p \in 0..(NPages - 1)
  BY SizesAre DEF Phys
<1>1. After(p) = IF p = NPages - 1 THEN 0 ELSE p + 1
  <2>1. CASE p = NPages - 1
    <3>1. p + 1 = (1 * NPages) + 0
      BY <1>0, <2>1
    <3>2. ((1 * NPages) + 0) % NPages = 0
      BY <1>0, 0 \in 0..(NPages - 1), ModUnique
    <3> QED BY <2>1, <3>1, <3>2 DEF After
  <2>2. CASE p # NPages - 1
    <3>1. p + 1 = (0 * NPages) + (p + 1) /\ p + 1 \in 0..(NPages - 1)
      BY <1>0, <2>2
    <3>2. ((0 * NPages) + (p + 1)) % NPages = p + 1
      BY <1>0, <3>1, ModUnique
    <3> QED BY <2>2, <3>1, <3>2 DEF After
  <2> QED BY <2>1, <2>2
<1>2. After(p) \in 0..(NPages - 1) /\ After(p) # p /\ After(p) = Behind(p, NPages - 1)
  BY <1>0, <1>1 DEF Behind
<1>3. \A k \in 0..(NPages - 2) : Behind(After(p), k + 1) = Behind(p, k)
  BY <1>0, <1>1 DEF Behind
<1>4. \A k \in 0..(NPages - 1) : Behind(p, k) = After(p) => k = NPages - 1
  BY <1>0, <1>1 DEF Behind
<1> QED BY <1>2, <1>3, <1>4 DEF Phys

LEMMA FlashIs ==
  ASSUME NEW f \in FlashPages, NEW p \in Phys
  PROVE  /\ f[p] \in Page /\ f[p].valid \in BOOLEAN /\ f[p].seq \in Nat /\ f[p].layout \in Layouts
         /\ f[p].interval \in Nat /\ f[p].first \in Nat
         /\ f[p].dws \in Seq([1..DwData -> Byte]) /\ Len(f[p].dws) \in Nat
BY DEF FlashPages, Page

LEMMA ViewIs ==
  ASSUME NEW r \in Views
  PROVE  /\ r.live \in Seq([first : Nat, phys : Phys]) /\ Len(r.live) \in Nat
         /\ r.live # <<>> => Len(r.live) >= 1 /\ Len(r.live) \in 1..Len(r.live)
         /\ r.live = <<>> <=> Len(r.live) = 0
         /\ \A i \in 1..Len(r.live) : r.live[i].first \in Nat /\ r.live[i].phys \in Phys
         /\ r.live # <<>> => HeadPage(r) = r.live[Len(r.live)]
         /\ r.live # <<>> => HeadPage(r).first \in Nat /\ HeadPage(r).phys \in Phys
         /\ r.live # <<>> => HeadRecords(r) = r.abs - HeadPage(r).first
         /\ r.seq \in Nat /\ r.abs \in Nat /\ r.last \in Phys /\ r.dw \in Nat /\ r.dw <= PayloadDw
         /\ r.stage \in Seq(Byte) /\ Len(r.stage) \in Nat /\ (r.stage = <<>> <=> Len(r.stage) = 0)
         /\ r.full \in BOOLEAN /\ r.layout \in Layouts /\ r.interval \in Nat /\ r.pending \in BOOLEAN
         /\ HeadSize(r) \in Nat \ {0} /\ PerPage(r.layout) \in Nat \ {0}
         /\ r.dw * DwData \in Nat /\ Pos(r) = (r.dw * DwData) + Len(r.stage)
         /\ Pos(r) \in Nat
<1> DEFINE L == [first : Nat, phys : Phys]
<1>1. /\ r.live \in Seq(L) /\ r.seq \in Nat /\ r.abs \in Nat /\ r.last \in Phys
      /\ r.dw \in 0..PayloadDw /\ r.stage \in Seq(Byte) /\ r.full \in BOOLEAN
      /\ r.layout \in Layouts /\ r.interval \in Nat /\ r.pending \in BOOLEAN
  BY DEF Views
<1>2. /\ Len(r.live) \in Nat /\ (r.live = <<>> <=> Len(r.live) = 0)
      /\ \A i \in 1..Len(r.live) : r.live[i] \in L
  <2> HIDE DEF L
  <2> QED BY <1>1, EmptySeq, LenProperties, ElementOfSeq
<1>3. /\ r.live # <<>> => Len(r.live) >= 1 /\ Len(r.live) \in 1..Len(r.live)
      /\ \A i \in 1..Len(r.live) : r.live[i].first \in Nat /\ r.live[i].phys \in Phys
  BY <1>2
<1>4. Len(r.stage) \in Nat /\ (r.stage = <<>> <=> Len(r.stage) = 0)
  BY <1>1, EmptySeq, LenProperties
<1>5. r.dw \in Nat /\ r.dw <= PayloadDw /\ r.dw * DwData \in Nat
  BY <1>1, SizesAre
<1>6. HeadSize(r) \in Nat \ {0} /\ PerPage(r.layout) \in Nat \ {0}
  BY <1>1, SizesAre DEF HeadSize
<1>7. r.live # <<>> => HeadPage(r) = r.live[Len(r.live)]
  BY DEF HeadPage
<1>8. r.live # <<>> => HeadPage(r).first \in Nat /\ HeadPage(r).phys \in Phys
  BY <1>3, <1>7
<1>9. r.live # <<>> => HeadRecords(r) = r.abs - HeadPage(r).first
  BY DEF HeadRecords
<1>10. Pos(r) = (r.dw * DwData) + Len(r.stage) /\ Pos(r) \in Nat
  BY <1>4, <1>5 DEF Pos
<1> HIDE DEF L
<1> QED BY <1>1, <1>2, <1>3, <1>4, <1>5, <1>6, <1>7, <1>8, <1>9, <1>10 DEF L

-----------------------------------------------------------------------------
(* The mount                                                                 *)

\* What a mount of layout l leaves.
Finds(l, m) ==
  /\ m.layout = l /\ m.stage = <<>>
  /\ m.live # <<>> =>
       /\ m.full /\ m.last \in Matching(l) /\ m.seq = flash[m.last].seq + 1
       /\ \A q \in Matching(l) : flash[q].seq <= flash[m.last].seq
       /\ m.abs = flash[m.last].first + FoundRecords(m.last)
       /\ \A k \in 0..(NPages - 1) : (\A i \in 1..k : Continues(m.last, i)) => k < Len(m.live)
  /\ m.live = <<>> => /\ Matching(l) = {}
                      /\ \A p \in Phys : flash[p].valid => flash[p].seq + 1 < m.seq

LEMMA NewestIs ==
  ASSUME flash \in FlashPages, Headers(flash), NEW S \in SUBSET ValidPages, S # {}
  PROVE  Newest(S) \in S /\ \A q \in S : flash[q].seq <= flash[Newest(S)].seq
<1> DEFINE key == [p \in Phys |-> flash[p].seq]
           N == NPages - 1
<1>1. N \in Nat /\ Phys = 0..N
  BY SizesAre DEF Phys
<1>2. key \in [Phys -> Nat] /\ \A p \in Phys : key[p] = flash[p].seq
  BY FlashIs
<1>3. S \in SUBSET Phys /\ \A p \in S : flash[p].valid
  BY DEF ValidPages
<1> HIDE DEF key, N
<1>4. PICK p \in S : \A q \in S : key[q] <= key[p]
  BY <1>1, <1>2, <1>3, GreatestKey
<1>5. ASSUME NEW q \in S
      PROVE  flash[q].seq < flash[p].seq \/ (flash[q].seq = flash[p].seq /\ p <= q)
  <2>1. p \in Phys /\ q \in Phys /\ p \in Nat /\ q \in Nat
    BY <1>1, <1>3
  <2>2. flash[q].seq <= flash[p].seq /\ flash[q].seq \in Nat /\ flash[p].seq \in Nat
    BY <1>2, <1>4, <2>1, FlashIs
  <2>3. p # q => flash[p].seq # flash[q].seq
    BY <1>3, <2>1 DEF Headers, Linked
  <2> QED BY <2>1, <2>2, <2>3
<1> DEFINE Top(x) == \A q \in S : \/ flash[q].seq < flash[x].seq
                                  \/ flash[q].seq = flash[x].seq /\ x <= q
<1>6. \E x \in S : Top(x)
  BY <1>5
<1>7. Newest(S) = CHOOSE x \in S : Top(x)
  BY DEF Newest
<1> HIDE DEF Top
<1>8. Newest(S) \in S /\ Top(Newest(S))
  BY <1>6, <1>7, Zenon
<1>9. \A q \in S : flash[q].seq \in Nat /\ flash[Newest(S)].seq \in Nat
  BY <1>3, <1>8, FlashIs
<1> QED BY <1>8, <1>9 DEF Top

\* The chain of a head is its pages in their places.
LEMMA ChainIs ==
  ASSUME flash \in FlashPages, NEW head \in Phys
  PROVE  \E n \in 0..(NPages - 1) :
           /\ Chain(head) = [j \in 1..(n + 1) |-> Behind(head, n + 1 - j)]
           /\ \A i \in 1..n : Continues(head, i)
           /\ \A k \in 0..(NPages - 1) : (\A i \in 1..k : Continues(head, i)) => k <= n
<1> DEFINE S == {k \in 0..(NPages - 1) : \A i \in 1..k : Continues(head, i)}
           n == Max(S)
<1>1. NPages - 1 \in Nat /\ S \in SUBSET (0..(NPages - 1)) /\ 0 \in S
  BY SizesAre
<1>2. n \in S /\ \A k \in S : n >= k
  <2> HIDE DEF S
  <2> QED BY <1>1, GreatestIs
<1>3. Chain(head) = [j \in 1..(n + 1) |-> (head + NPages - (n + 1 - j)) % NPages]
  BY DEF Chain
<1>4. n \in 0..(NPages - 1) /\ \A i \in 1..n : Continues(head, i)
  BY <1>2
<1>5. \A k \in 0..(NPages - 1) : (\A i \in 1..k : Continues(head, i)) => k <= n
  <2> TAKE k \in 0..(NPages - 1)
  <2> HAVE \A i \in 1..k : Continues(head, i)
  <2>1. k \in S
    OBVIOUS
  <2> HIDE DEF S
  <2> QED BY <1>2, <1>1, <2>1
<1> HIDE DEF n
<1>6. \A j \in 1..(n + 1) : (head + NPages - (n + 1 - j)) % NPages = Behind(head, n + 1 - j)
  <2> TAKE j \in 1..(n + 1)
  <2>1. n + 1 - j \in 0..(NPages - 1)
    BY <1>1, <1>4
  <2> QED BY <2>1, BehindIs
<1>7. Chain(head) = [j \in 1..(n + 1) |-> Behind(head, n + 1 - j)]
  BY <1>3, <1>6
<1> QED BY <1>4, <1>5, <1>7

LEMMA FoundRecordsAre ==
  ASSUME flash \in FlashPages, NEW p \in Phys
  PROVE  FoundRecords(p) \in 0..PerPage(flash[p].layout)
<1> DEFINE l == flash[p].layout
           x == (Len(flash[p].dws) * DwData) \div SampleSize[l]
<1>1. l \in Layouts /\ Len(flash[p].dws) \in Nat /\ DwData \in Nat
  BY FlashIs, SizesAre
<1>2. SampleSize[l] \in Nat \ {0} /\ PerPage(l) \in Nat
  BY <1>1, SizesAre
<1>3. x \in Nat
  <2>1. Len(flash[p].dws) * DwData \in Nat
    BY <1>1
  <2> HIDE DEF l
  <2> QED BY <1>2, <2>1, DivMod
<1>4. FoundRecords(p) = Min({x, PerPage(l)})
  BY DEF FoundRecords
<1> HIDE DEF x, l
<1>5. Min({x, PerPage(l)}) = IF x <= PerPage(l) THEN x ELSE PerPage(l)
  BY <1>2, <1>3, MinOfTwo
<1> QED BY <1>2, <1>3, <1>4, <1>5 DEF l

LEMMA MountedOk ==
  ASSUME flash \in FlashPages, \A p \in Phys : Len(flash[p].dws) <= PayloadDw, Headers(flash),
         NEW l \in Layouts, NEW r \in Views
  PROVE  /\ Mounted(l, r) \in Views /\ Mounted(l, r).pending = r.pending
         /\ RunOk(flash, Mounted(l, r)) /\ Finds(l, Mounted(l, r))
<1> DEFINE m == Mounted(l, r)
           any == Newest(ValidPages)
           head == Newest(Matching(l))
           r0 == [r EXCEPT !.live = <<>>, !.seq = 0, !.abs = 0, !.dw = 0, !.stage = <<>>,
                           !.full = FALSE, !.layout = l]
<1>1. /\ r0 \in Views /\ r0.live = <<>> /\ r0.stage = <<>> /\ r0.pending = r.pending
      /\ r0.layout = l /\ r0.dw = 0 /\ r0.last = r.last /\ r0.interval = r.interval
      /\ r0.seq = 0 /\ r0.abs = 0 /\ r0.full = FALSE
  <2> DEFINE L == Seq([first : Nat, phys : Phys])
             B == Seq(Byte)
  <2>1. <<>> \in L /\ <<>> \in B /\ 0 \in 0..PayloadDw /\ FALSE \in BOOLEAN /\ 0 \in Nat
    BY SizesAre
  <2>2. Views = [live : L, seq : Nat, abs : Nat, last : Phys,
                 dw : 0..PayloadDw, stage : B, full : BOOLEAN, layout : Layouts,
                 interval : Nat, pending : BOOLEAN]
    BY DEF Views
  <2> HIDE DEF L, B
  <2>3. r0 \in Views
    BY <2>1, <2>2
  <2> QED BY <2>2, <2>3
<1>2. \A q \in Views : q.live = <<>> /\ q.stage = <<>> /\ q.dw = 0 => RunOk(flash, q)
  <2> TAKE q \in Views
  <2> HAVE q.live = <<>> /\ q.stage = <<>> /\ q.dw = 0
  <2>1. Pos(q) = 0 * DwData + 0
    BY ViewIs
  <2>2. Pos(q) <= PayloadDw * DwData
    BY <2>1, SizesAre
  <2> QED BY <2>2 DEF RunOk
<1>3. CASE ValidPages = {}
  <2>1. m = r0
    BY <1>3 DEF Mounted
  <2>2. Matching(l) = {} /\ \A p \in Phys : ~flash[p].valid
    BY <1>3 DEF Matching, ValidPages
  <2> HIDE DEF m, r0
  <2>3. m \in Views /\ m.pending = r.pending /\ RunOk(flash, m)
    BY <1>1, <1>2, <2>1
  <2>4. Finds(l, m)
    BY <1>1, <2>1, <2>2 DEF Finds
  <2> QED BY <2>3, <2>4 DEF m
<1>4. CASE ValidPages # {} /\ Matching(l) = {}
  <2>1. m = [r0 EXCEPT !.seq = flash[any].seq + 2, !.last = any]
    BY <1>4 DEF Mounted
  <2>2. any \in ValidPages /\ \A q \in ValidPages : flash[q].seq <= flash[any].seq
    BY <1>4, NewestIs
  <2>3. any \in Phys /\ \A p \in Phys : flash[p].valid <=> p \in ValidPages
    BY <2>2 DEF ValidPages
  <2>4. flash[any].seq \in Nat /\ \A p \in Phys : flash[p].seq \in Nat
    BY <2>3, FlashIs
  <2> DEFINE sq == flash[any].seq + 2
  <2>9. sq \in Nat
    BY <2>4
  <2> HIDE DEF r0, any, m
  <2>5. /\ m \in Views /\ m.live = <<>> /\ m.stage = <<>> /\ m.pending = r.pending
        /\ m.layout = l /\ m.dw = 0 /\ m.seq = flash[any].seq + 2
    <3>1. m = [r0 EXCEPT !.seq = sq, !.last = any]
      BY <2>1
    <3> HIDE DEF sq
    <3>2. m \in Views
      BY <1>1, <2>3, <2>9, <3>1 DEF Views
    <3>3. m.live = r0.live /\ m.stage = r0.stage /\ m.pending = r0.pending /\ m.layout = r0.layout
          /\ m.dw = r0.dw /\ m.seq = sq
      BY <1>1, <3>1 DEF Views
    <3> QED BY <1>1, <3>2, <3>3 DEF sq
  <2>6. \A p \in Phys : flash[p].valid => flash[p].seq + 1 < m.seq
    BY <2>2, <2>3, <2>4, <2>5
  <2>7. RunOk(flash, m)
    BY <1>2, <2>5
  <2>8. Finds(l, m)
    BY <1>4, <2>5, <2>6 DEF Finds
  <2> QED BY <2>5, <2>7, <2>8 DEF m
<1>5. CASE ValidPages # {} /\ Matching(l) # {}
  <2>1. Matching(l) \in SUBSET ValidPages
    BY DEF Matching
  <2>2. head \in Matching(l) /\ \A q \in Matching(l) : flash[q].seq <= flash[head].seq
    BY <1>5, <2>1, NewestIs
  <2>3. head \in Phys /\ flash[head].valid /\ flash[head].layout = l
    BY <2>2 DEF Matching, ValidPages
  <2>4. PICK n \in 0..(NPages - 1) :
          /\ Chain(head) = [j \in 1..(n + 1) |-> Behind(head, n + 1 - j)]
          /\ \A i \in 1..n : Continues(head, i)
          /\ \A k \in 0..(NPages - 1) : (\A i \in 1..k : Continues(head, i)) => k <= n
    BY <2>3, ChainIs
  <2> DEFINE live == [i \in 1..(n + 1) |-> [first |-> flash[Behind(head, n + 1 - i)].first,
                                            phys |-> Behind(head, n + 1 - i)]]
  <2>5. Len(Chain(head)) = n + 1 /\ \A i \in 1..(n + 1) : Chain(head)[i] = Behind(head, n + 1 - i)
    BY <2>4
  <2>6. m = [r0 EXCEPT !.live = live, !.seq = flash[head].seq + 1, !.last = head,
                       !.abs = flash[head].first + FoundRecords(head),
                       !.dw = Len(flash[head].dws), !.full = TRUE,
                       !.interval = flash[head].interval]
    <3>1. [i \in 1..Len(Chain(head)) |->
             LET p == Chain(head)[i] IN [first |-> flash[p].first, phys |-> p]] = live
      BY <2>5
    <3> HIDE DEF live
    <3> QED BY <1>5, <3>1 DEF Mounted
  <2>7. n \in Nat /\ n <= NPages - 1
    BY <2>4
  <2>8. \A i \in 1..(n + 1) : /\ n + 1 - i \in 0..(NPages - 1) /\ Behind(head, n + 1 - i) \in Phys
                              /\ flash[Behind(head, n + 1 - i)].first \in Nat
    <3> TAKE i \in 1..(n + 1)
    <3>1. n + 1 - i \in 0..(NPages - 1)
      BY <2>7, SizesAre
    <3>2. Behind(head, n + 1 - i) \in Phys
      BY <2>3, <3>1, BehindIs
    <3> QED BY <3>1, <3>2, FlashIs
  <2>9. /\ live \in Seq([first : Nat, phys : Phys]) /\ Len(live) = n + 1
        /\ \A i \in 1..(n + 1) : /\ live[i].phys = Behind(head, n + 1 - i)
                                 /\ live[i].first = flash[Behind(head, n + 1 - i)].first
    BY <2>7, <2>8
  <2> HIDE DEF live
  <2>10. /\ flash[head].seq \in Nat /\ flash[head].first \in Nat /\ flash[head].interval \in Nat
         /\ Len(flash[head].dws) \in 0..PayloadDw
    BY <2>3, FlashIs, SizesAre
  <2>11. FoundRecords(head) \in Nat /\ FoundRecords(head) <= PerPage(l) /\ PerPage(l) \in Nat
    BY <2>3, FoundRecordsAre, SizesAre
  <2> HIDE DEF r0, head
  <2>12. /\ m \in Views /\ m.live = live /\ m.stage = <<>> /\ m.pending = r.pending
         /\ m.layout = l /\ m.dw = Len(flash[head].dws) /\ m.seq = flash[head].seq + 1
         /\ m.last = head /\ m.abs = flash[head].first + FoundRecords(head) /\ m.full = TRUE
         /\ m.interval = flash[head].interval
    <3> DEFINE sq == flash[head].seq + 1
               ab == flash[head].first + FoundRecords(head)
               dw == Len(flash[head].dws)
               iv == flash[head].interval
               L == Seq([first : Nat, phys : Phys])
    <3>1. sq \in Nat /\ ab \in Nat /\ dw \in 0..PayloadDw /\ iv \in Nat /\ live \in L
      BY <2>9, <2>10, <2>11
    <3>2. m = [r0 EXCEPT !.live = live, !.seq = sq, !.last = head, !.abs = ab, !.dw = dw,
                         !.full = TRUE, !.interval = iv]
      BY <2>6
    <3>3. Views = [live : L, seq : Nat, abs : Nat, last : Phys,
                   dw : 0..PayloadDw, stage : Seq(Byte), full : BOOLEAN, layout : Layouts,
                   interval : Nat, pending : BOOLEAN]
      BY DEF Views
    <3> HIDE DEF sq, ab, dw, iv, L, m
    <3>4. m \in Views
      BY <1>1, <2>3, <3>1, <3>2, <3>3
    <3>5. /\ m.live = live /\ m.stage = r0.stage /\ m.pending = r0.pending
          /\ m.layout = r0.layout /\ m.dw = dw /\ m.seq = sq
          /\ m.last = head /\ m.abs = ab /\ m.full = TRUE /\ m.interval = iv
      BY <1>1, <3>2, <3>3
    <3> QED BY <1>1, <3>4, <3>5 DEF sq, ab, dw, iv
  <2> HIDE DEF m
  <2>13. Len(m.live) = n + 1 /\ m.live # <<>> /\ HeadPage(m) = live[n + 1]
    BY <2>7, <2>9, <2>12 DEF HeadPage
  <2>14. live[n + 1].phys = head /\ live[n + 1].first = flash[head].first
    <3>1. n + 1 \in 1..(n + 1) /\ n + 1 - (n + 1) = 0 /\ Behind(head, 0) = head
      BY <2>3, <2>7, <2>8, BehindIs
    <3> QED BY <2>9, <3>1
  <2>15. ASSUME NEW i \in 1..(n + 1)
         PROVE  /\ flash[live[i].phys].valid /\ flash[live[i].phys].layout = l
                /\ flash[live[i].phys].interval = flash[head].interval
                /\ flash[live[i].phys].seq = flash[head].seq - (n + 1 - i)
    <3>1. CASE i = n + 1
      BY <2>3, <2>14, <3>1, <2>10
    <3>2. CASE i # n + 1
      <4>1. n + 1 - i \in 1..n /\ n + 1 - i \in 0..(NPages - 1)
        BY <3>2, <2>7, <2>8
      <4>2. Continues(head, n + 1 - i)
        BY <2>4, <4>1
      <4>3. (head + NPages - (n + 1 - i)) % NPages = live[i].phys
        BY <2>3, <2>9, <4>1, BehindIs
      <4>4. /\ flash[live[i].phys].valid /\ flash[live[i].phys].layout = flash[head].layout
            /\ flash[live[i].phys].interval = flash[head].interval
            /\ flash[head].seq - flash[live[i].phys].seq = n + 1 - i
        BY <4>2, <4>3 DEF Continues
      <4>5. flash[live[i].phys].seq \in Nat
        BY <2>8, <2>9, FlashIs
      <4> QED BY <2>3, <2>10, <4>4, <4>5, <4>1
    <3> QED BY <3>1, <3>2
  <2>16. ASSUME NEW i \in 1..(n + 1), i < n + 1
         PROVE  live[i].first <= live[i + 1].first /\ live[i + 1].first <= live[i].first + PerPage(l)
    <3>1. i + 1 \in 1..(n + 1)
      BY <2>16
    <3>2. live[i].phys \in Phys /\ live[i + 1].phys \in Phys
      BY <2>8, <2>9, <3>1
    <3>3. flash[live[i + 1].phys].seq = flash[live[i].phys].seq + 1
      <4>1. /\ flash[live[i].phys].seq = flash[head].seq - (n + 1 - i)
            /\ flash[live[i + 1].phys].seq = flash[head].seq - (n + 1 - (i + 1))
        BY <2>15, <3>1
      <4>2. i \in Nat /\ n \in Nat /\ flash[head].seq \in Nat
        BY <2>7, <2>10
      <4> QED BY <4>1, <4>2
    <3>4. Linked(flash, live[i].phys, live[i + 1].phys)
      BY <2>15, <3>1, <3>2 DEF Headers
    <3>5. /\ flash[live[i].phys].layout = l /\ flash[live[i + 1].phys].layout = l
          /\ flash[live[i].phys].interval = flash[live[i + 1].phys].interval
          /\ flash[live[i].phys].first = live[i].first
          /\ flash[live[i + 1].phys].first = live[i + 1].first
      BY <2>9, <2>15, <3>1
    <3> QED BY <3>3, <3>4, <3>5 DEF Linked
  <2>17. ASSUME NEW i \in 1..(n + 1) PROVE Chained(flash, m, i)
    <3>1. LivePage(flash, m, i)
      <4>1. flash[m.live[i].phys].seq = m.seq - 1 - (Len(m.live) - i)
        BY <2>10, <2>12, <2>13, <2>15, <2>7
      <4> QED BY <2>9, <2>12, <2>13, <2>15, <4>1 DEF LivePage
    <3>2. m.live[i].phys = Behind(m.last, Len(m.live) - i)
      BY <2>9, <2>12, <2>13
    <3> QED BY <2>12, <2>13, <2>16, <3>1, <3>2 DEF Chained
  <2>18. Run(flash, m)
    <3>1. Len(m.live) <= NPages
      BY <2>7, <2>13, SizesAre
    <3>2. HeadPage(m).first <= m.abs /\ m.abs <= HeadPage(m).first + PerPage(m.layout)
      BY <2>10, <2>11, <2>12, <2>13, <2>14
    <3> QED BY <2>12, <2>13, <2>14, <2>17, <3>1, <3>2 DEF Run
  <2>19. Pos(m) <= PayloadDw * DwData
    <3>1. Pos(m) = m.dw * DwData
      BY <2>12, ViewIs
    <3>2. m.dw \in Nat /\ m.dw <= PayloadDw /\ PayloadDw \in Nat /\ DwData \in Nat
      BY <2>12, ViewIs, SizesAre
    <3> QED BY <3>1, <3>2, Products
  <2>20. Finds(l, m)
    <3>1. \A k \in 0..(NPages - 1) : (\A i \in 1..k : Continues(m.last, i)) => k < Len(m.live)
      <4> TAKE k \in 0..(NPages - 1)
      <4>1. (\A i \in 1..k : Continues(head, i)) => k <= n
        BY <2>4
      <4> QED BY <4>1, <2>7, <2>12, <2>13
    <3> QED BY <2>2, <2>12, <2>13, <3>1 DEF Finds
  <2>21. RunOk(flash, m)
    BY <2>13, <2>18, <2>19 DEF RunOk
  <2> QED BY <2>12, <2>20, <2>21 DEF m
<1> QED BY <1>3, <1>4, <1>5

-----------------------------------------------------------------------------
(* What is held, as pages are written                                        *)

SameHeader(f, g, p) ==
  g[p].seq = f[p].seq /\ g[p].layout = f[p].layout /\ g[p].interval = f[p].interval

\* The flash g and the view s hold no byte that f and r did not.
HoldNoMore(f, r, g, s) ==
  \A p \in Phys, d \in Nat, b \in Byte :
    Holds(g, s, p, d, b) => Holds(f, r, p, d, b) /\ SameHeader(f, g, p)

LEMMA LessKeeps ==
  ASSUME NEW f, NEW r, NEW g, NEW s, NEW m, HoldNoMore(f, r, g, s)
  PROVE  /\ Placed(f, r, m) => Placed(g, s, m)
         /\ Ordered(f, r) => Ordered(g, s)
         /\ \A n : Nowhere(f, r, n) => Nowhere(g, s, n)
<1>1. ASSUME NEW p \in Phys, NEW d \in Nat, NEW b \in Byte, Holds(g, s, p, d, b)
      PROVE  /\ Holds(f, r, p, d, b) /\ SameHeader(f, g, p)
             /\ SlotOf(g, p, d) = SlotOf(f, p, d)
             /\ PlacedAt(f, m, p, d, b) => PlacedAt(g, m, p, d, b)
  BY <1>1 DEF HoldNoMore, SameHeader, SlotOf, PlacedAt
<1>2. ASSUME Placed(f, r, m) PROVE Placed(g, s, m)
  BY <1>1, <1>2 DEF Placed
<1>3. ASSUME Ordered(f, r) PROVE Ordered(g, s)
  <2> SUFFICES ASSUME NEW p \in Phys, NEW q \in Phys, NEW d \in Nat, NEW e \in Nat,
                      NEW b \in Byte, NEW c \in Byte, Holds(g, s, p, d, b), Holds(g, s, q, e, c)
               PROVE  InOrder(g, p, d, b, q, e, c)
    BY DEF Ordered
  <2>1. InOrder(f, p, d, b, q, e, c)
    BY <1>1, <1>3 DEF Ordered
  <2>2. /\ SlotOf(g, p, d) = SlotOf(f, p, d) /\ SlotOf(g, q, e) = SlotOf(f, q, e)
        /\ SameHeader(f, g, p) /\ SameHeader(f, g, q)
    BY <1>1
  <2> QED BY <2>1, <2>2 DEF InOrder, Before, SameHeader
<1>4. \A n : Nowhere(f, r, n) => Nowhere(g, s, n)
  BY <1>1 DEF Nowhere
<1> QED BY <1>2, <1>3, <1>4

\* A view that lost its stage, or has the one it had.
LEMMA UnstagedHolds ==
  ASSUME NEW f, NEW r, NEW s \in Views,
         s.stage = <<>> \/ (s.stage = r.stage /\ s.live = r.live /\ s.dw = r.dw)
  PROVE  HoldNoMore(f, r, f, s)
<1> SUFFICES ASSUME NEW p \in Phys, NEW d \in Nat, NEW b \in Byte, Holds(f, s, p, d, b)
             PROVE  Holds(f, r, p, d, b)
  BY DEF HoldNoMore, SameHeader
<1>1. CASE s.stage = <<>>
  <2>1. ~InStaged(s, p, d, b)
    <3>1. Len(s.stage) = 0 /\ s.dw * DwData \in Nat
      BY <1>1, ViewIs
    <3> QED BY <3>1 DEF InStaged
  <2> QED BY <2>1 DEF Holds
<1>2. CASE s.stage = r.stage /\ s.live = r.live /\ s.dw = r.dw
  BY <1>2 DEF Holds, InStaged, HeadPage
<1> QED BY <1>1, <1>2

\* The head page is there.
LEMMA HeadIs ==
  ASSUME NEW f \in FlashPages, NEW r \in Views, Run(f, r), r.live # <<>>
  PROVE  /\ HeadPage(r).phys = r.last /\ LivePage(f, r, Len(r.live))
         /\ f[r.last].valid /\ f[r.last].layout = r.layout /\ f[r.last].seq = r.seq - 1
         /\ f[r.last].first = HeadPage(r).first
         /\ r.interval \in {0, f[r.last].interval} /\ r.dw = Len(f[r.last].dws)
         /\ HeadRecords(r) \in 0..PerPage(r.layout)
<1> DEFINE n == Len(r.live)
<1>1. n \in 1..n /\ n \in Nat /\ HeadPage(r) = r.live[n] /\ r.last \in Phys
  BY ViewIs
<1>2. Chained(f, r, n) /\ HeadPage(r).phys = r.last /\ r.dw = Len(f[r.last].dws)
  BY <1>1 DEF Run
<1>3. ~Erasing(f, r, n)
  <2>1. After(r.last) # r.last
    BY <1>1, AfterIs
  <2> QED BY <1>1, <1>2, <2>1 DEF Erasing
<1>4. LivePage(f, r, n)
  BY <1>2, <1>3 DEF Chained
<1>5. f[r.last].seq = r.seq - 1
  <2>1. r.seq - 1 - (n - n) = r.seq - 1
    BY <1>1, ViewIs
  <2> QED BY <1>1, <1>2, <1>4, <2>1 DEF LivePage
<1>6. HeadRecords(r) \in 0..PerPage(r.layout)
  <2>1. HeadPage(r).first <= r.abs /\ r.abs <= HeadPage(r).first + PerPage(r.layout)
    BY DEF Run
  <2> QED BY <2>1, ViewIs
<1> QED BY <1>1, <1>2, <1>4, <1>5, <1>6 DEF LivePage

\* The pages that hold something are valid, and the head page ends where the next
\* byte goes.
LEMMA HeldIs ==
  ASSUME NEW f \in FlashPages, NEW r \in Views, RunOk(f, r),
         NEW p \in Phys, NEW d \in Nat, NEW b \in Byte, Holds(f, r, p, d, b)
  PROVE  /\ f[p].valid
         /\ r.live # <<>> /\ p = HeadPage(r).phys => d < Pos(r)
<1>1. CASE f[p].valid /\ InWords(f[p].dws, d, b)
  <2>1. r.live # <<>> /\ p = HeadPage(r).phys => Len(f[p].dws) = r.dw
    BY HeadIs DEF RunOk
  <2>2. d < Len(f[p].dws) * DwData
    BY <1>1 DEF InWords
  <2> QED BY <1>1, <2>1, <2>2, ViewIs
<1>2. CASE InStaged(r, p, d, b)
  <2>1. r.live # <<>> /\ p = HeadPage(r).phys
    BY <1>2 DEF InStaged
  <2>2. f[p].valid
    BY <2>1, HeadIs DEF RunOk
  <2>3. d - (r.dw * DwData) < Len(r.stage)
    BY <1>2 DEF InStaged
  <2> QED BY <2>2, <2>3, ViewIs
<1> QED BY <1>1, <1>2 DEF Holds

\* A double word is written.
LEMMA ProgrammedIs ==
  ASSUME NEW f \in FlashPages, NEW r, HeadPage(r).phys \in Phys, NEW dw \in [1..DwData -> Byte]
  PROVE  /\ Programmed(f, r, dw) \in FlashPages
         /\ \A p \in Phys : p # HeadPage(r).phys => Programmed(f, r, dw)[p] = f[p]
         /\ \A p \in Phys : /\ SameHeader(f, Programmed(f, r, dw), p)
                            /\ Programmed(f, r, dw)[p].valid = f[p].valid
                            /\ Programmed(f, r, dw)[p].first = f[p].first
         /\ Programmed(f, r, dw)[HeadPage(r).phys].dws = Append(f[HeadPage(r).phys].dws, dw)
<1> DEFINE h == HeadPage(r).phys
           D == [1..DwData -> Byte]
           S == Seq(D)
           g == Programmed(f, r, dw)
<1>1. h \in Phys /\ dw \in D
  OBVIOUS
<1>2. f \in [Phys -> Page] /\ Page = [valid : BOOLEAN, seq : Nat, layout : Layouts, interval : Nat,
                                      first : Nat, dws : S]
  BY DEF FlashPages, Page
<1>3. Append(f[h].dws, dw) \in S
  <2>1. f[h].dws \in S
    BY <1>1, <1>2
  <2> HIDE DEF D
  <2> QED BY <1>1, <2>1, AppendProperties
<1>4. g = [f EXCEPT ![h] = [f[h] EXCEPT !.dws = Append(f[h].dws, dw)]]
  BY DEF Programmed
<1> HIDE DEF h, S, g, D
<1>5. [f[h] EXCEPT !.dws = Append(f[h].dws, dw)] \in Page
  BY <1>1, <1>2, <1>3
<1>6. g \in [Phys -> Page] /\ \A p \in Phys : p # h => g[p] = f[p]
  BY <1>1, <1>2, <1>4, <1>5
<1>7. /\ g[h].dws = Append(f[h].dws, dw) /\ SameHeader(f, g, h)
      /\ g[h].valid = f[h].valid /\ g[h].first = f[h].first
  BY <1>1, <1>2, <1>4 DEF SameHeader
<1>8. \A p \in Phys : /\ SameHeader(f, g, p) /\ g[p].valid = f[p].valid /\ g[p].first = f[p].first
  BY <1>6, <1>7 DEF SameHeader
<1> QED BY <1>6, <1>7, <1>8 DEF g, h, FlashPages

LEMMA SameFunction ==
  ASSUME NEW S, NEW T, NEW f \in [S -> T], NEW g \in [S -> T], \A x \in S : f[x] = g[x]
  PROVE  f = g
OBVIOUS

LEMMA PaddedIs ==
  ASSUME NEW t \in Seq(Byte)
  PROVE  /\ Padded(t) \in [1..DwData -> Byte]
         /\ \A j \in 1..DwData : Padded(t)[j] = IF j <= Len(t) THEN t[j] ELSE Zero
         /\ Len(t) = DwData => Padded(t) = t
<1>1. Zero \in Byte
  BY DEF Byte
<1>2. \A j \in 1..DwData : Padded(t)[j] = IF j <= Len(t) THEN t[j] ELSE Zero
  BY DEF Padded
<1>3. \A j \in 1..DwData : j <= Len(t) => t[j] \in Byte
  <2> TAKE j \in 1..DwData
  <2>1. j <= Len(t) => j \in 1..Len(t)
    BY SizesAre, LenProperties
  <2> QED BY <2>1, ElementOfSeq
<1>4. Padded(t) \in [1..DwData -> Byte]
  BY <1>1, <1>3 DEF Padded
<1>5. ASSUME Len(t) = DwData PROVE Padded(t) = t
  <2>1. t \in [1..DwData -> Byte]
    BY <1>5, LenProperties
  <2>2. \A j \in 1..DwData : Padded(t)[j] = t[j]
    BY <1>2, <1>5, SizesAre
  <2> DEFINE D == 1..DwData
  <2>3. t \in [D -> Byte]
    BY <2>1
  <2>4. Padded(t) \in [D -> Byte]
    BY <1>4
  <2>5. \A j \in D : Padded(t)[j] = t[j]
    BY <2>2
  <2> DEFINE x == Padded(t)
  <2> HIDE DEF D, x
  <2>6. x = t
    BY <2>3, <2>4, <2>5 DEF x
  <2> QED BY <2>6 DEF x
<1> QED BY <1>2, <1>4, <1>5

\* Of the bytes a flush writes, each was staged where it is written.
LEMMA FlushHolds ==
  ASSUME NEW f \in FlashPages, NEW r \in Views, RunOk(f, r), r.live # <<>>,
         NEW s \in Views, s.live = r.live, s.stage = <<>>
  PROVE  HoldNoMore(f, r, Programmed(f, r, Padded(r.stage)), s)
<1> DEFINE h == HeadPage(r).phys
           w == Padded(r.stage)
           g == Programmed(f, r, w)
<1>1. h \in Phys /\ w \in [1..DwData -> Byte] /\ r.stage \in Seq(Byte)
  BY ViewIs, PaddedIs
<1>2. /\ \A p \in Phys : p # h => g[p] = f[p]
      /\ \A p \in Phys : SameHeader(f, g, p) /\ g[p].valid = f[p].valid
      /\ g[h].dws = Append(f[h].dws, w)
  BY <1>1, ProgrammedIs
<1>3. f[h].valid /\ Len(f[h].dws) = r.dw /\ r.dw \in Nat
  <2>1. Run(f, r)
    BY DEF RunOk
  <2>2. h = r.last /\ f[r.last].valid /\ r.dw = Len(f[r.last].dws)
    BY <2>1, HeadIs
  <2> QED BY <2>2, ViewIs
<1>4. f[h].dws \in Seq([1..DwData -> Byte])
  BY <1>1, FlashIs
<1> DEFINE D == [1..DwData -> Byte]
           q == f[h].dws
<1>5. /\ Len(Append(q, w)) = r.dw + 1 /\ \A i \in 1..r.dw : Append(q, w)[i] = q[i]
      /\ Append(q, w)[r.dw + 1] = w
  <2>1. q \in Seq(D) /\ w \in D /\ Len(q) = r.dw
    BY <1>1, <1>3, <1>4
  <2> HIDE DEF D, q, w
  <2> QED BY <2>1, AppendProperties
<1> HIDE DEF g, D, q
<1> SUFFICES ASSUME NEW p \in Phys, NEW d \in Nat, NEW b \in Byte, Holds(g, s, p, d, b)
             PROVE  Holds(f, r, p, d, b)
  BY <1>2 DEF HoldNoMore, g
<1>6. b[1] > 0 /\ g[p].valid /\ InWords(g[p].dws, d, b)
  <2>1. ~InStaged(s, p, d, b)
    <3>1. Len(s.stage) = 0 /\ s.dw * DwData \in Nat
      BY ViewIs
    <3> QED BY <3>1 DEF InStaged
  <2> QED BY <2>1 DEF Holds
<1>7. CASE p # h
  <2>1. g[p] = f[p]
    BY <1>2, <1>7
  <2> QED BY <1>6, <2>1 DEF Holds
<1>8. CASE p = h
  <2> DEFINE k == d \div DwData
  <2>1. /\ k \in Nat /\ (d < r.dw * DwData <=> k < r.dw) /\ (d < (r.dw + 1) * DwData <=> k < r.dw + 1)
        /\ (k = r.dw => d = (r.dw * DwData) + (d % DwData)) /\ d % DwData \in 0..(DwData - 1)
    <3>1. r.dw \in Nat /\ r.dw + 1 \in Nat /\ DwData \in Nat \ {0}
      BY <1>3, SizesAre
    <3>2. k \in Nat /\ d % DwData \in 0..(DwData - 1)
      BY <3>1, DivMod
    <3>3. (d < r.dw * DwData <=> k < r.dw) /\ (k = r.dw => d = (r.dw * DwData) + (d % DwData))
      BY <3>1, InPart
    <3>4. d < (r.dw + 1) * DwData <=> k < r.dw + 1
      BY <3>1, InPart
    <3> QED BY <3>2, <3>3, <3>4
  <2> HIDE DEF k
  <2>2. k < r.dw + 1 /\ b = Append(q, w)[k + 1][(d % DwData) + 1]
    <3>1. d < (r.dw + 1) * DwData /\ b = Append(q, w)[k + 1][(d % DwData) + 1]
      BY <1>2, <1>5, <1>6, <1>8 DEF InWords, k, q
    <3> QED BY <2>1, <3>1
  <2>3. CASE k < r.dw
    <3>1. k + 1 \in 1..r.dw
      BY <1>3, <2>1, <2>3
    <3>2. b = q[k + 1][(d % DwData) + 1] /\ d < r.dw * DwData
      BY <1>5, <2>1, <2>2, <2>3, <3>1
    <3>3. InWords(f[p].dws, d, b)
      BY <1>3, <1>8, <3>2 DEF InWords, k, q
    <3> QED BY <1>3, <1>6, <1>8, <3>3 DEF Holds
  <2>4. CASE ~(k < r.dw)
    <3> DEFINE j == (d % DwData) + 1
    <3>1. k = r.dw /\ d = (r.dw * DwData) + (j - 1) /\ j \in 1..DwData /\ r.dw * DwData \in Nat
      <4> DEFINE W == r.dw * DwData
                 m == d % DwData
      <4>1. W \in Nat /\ r.dw \in Nat
        BY ViewIs
      <4>2. DwData \in Nat
        BY SizesAre
      <4>3. k = r.dw
        BY <2>1, <2>2, <2>4, <4>1
      <4>4. m \in 0..(DwData - 1) /\ d = W + m /\ j = m + 1
        BY <2>1, <4>3
      <4> HIDE DEF W, m, j
      <4>5. d = W + (j - 1) /\ j \in 1..DwData
        BY <4>1, <4>2, <4>4
      <4> QED BY <4>1, <4>3, <4>5 DEF W
    <3>2. b = w[j]
      BY <1>5, <2>2, <3>1
    <3> HIDE DEF j
    <3>3. w[j] = IF j <= Len(r.stage) THEN r.stage[j] ELSE Zero
      BY <1>1, <3>1, PaddedIs
    <3>4. j <= Len(r.stage)
      BY <1>6, <3>2, <3>3 DEF Zero
    <3>5. d - (r.dw * DwData) + 1 = j /\ d >= r.dw * DwData /\ d - (r.dw * DwData) < Len(r.stage)
      <4> DEFINE x == r.dw * DwData
                 y == Len(r.stage)
      <4>1. x \in Nat /\ y \in Nat /\ d = x + (j - 1) /\ j \in Nat /\ j >= 1 /\ j <= y
        BY <3>1, <3>4, ViewIs, SizesAre
      <4> HIDE DEF x, y
      <4>2. d - x + 1 = j /\ d >= x /\ d - x < y
        BY <4>1
      <4> QED BY <4>2 DEF x, y
    <3>6. InStaged(r, p, d, b)
      BY <1>8, <3>2, <3>3, <3>4, <3>5 DEF InStaged
    <3> QED BY <1>6, <3>6 DEF Holds
  <2> QED BY <2>3, <2>4
<1> QED BY <1>7, <1>8

\* What is left of the stage fits a double word more.
LEMMA FlushFits ==
  ASSUME NEW r \in Views, r.stage # <<>>, Pos(r) <= PayloadDw * DwData
  PROVE  r.dw + 1 <= PayloadDw
<1>1. r.dw \in Nat /\ PayloadDw \in Nat /\ DwData \in Nat \ {0}
  BY ViewIs, SizesAre
<1>2. r.dw * DwData < PayloadDw * DwData
  <2>1. Pos(r) = (r.dw * DwData) + Len(r.stage) /\ Len(r.stage) \in Nat /\ Len(r.stage) # 0
    BY ViewIs
  <2>2. r.dw * DwData \in Nat /\ PayloadDw * DwData \in Nat
    BY <1>1
  <2> QED BY <2>1, <2>2
<1>3. r.dw < PayloadDw
  BY <1>1, <1>2, Products
<1> QED BY <1>1, <1>3

\* Where the view and the flash's run agree as before.
SameRun(r, s) ==
  /\ s.live = r.live /\ s.seq = r.seq /\ s.last = r.last /\ s.layout = r.layout
  /\ s.interval = r.interval /\ s.pending = r.pending

LEMMA FlushedIs ==
  ASSUME NEW r \in Views, r.dw + 1 <= PayloadDw
  PROVE  /\ Flushed(r) \in Views /\ SameRun(r, Flushed(r)) /\ Flushed(r).abs = r.abs
         /\ Flushed(r).dw = r.dw + 1 /\ Flushed(r).stage = <<>> /\ Flushed(r).full = r.full
<1>1. r.dw + 1 \in 0..PayloadDw /\ <<>> \in Seq(Byte)
  BY ViewIs
<1> DEFINE S == Seq(Byte)
           L == Seq([first : Nat, phys : Phys])
           w == r.dw + 1
<1>2. Views = [live : L, seq : Nat, abs : Nat, last : Phys,
               dw : 0..PayloadDw, stage : S, full : BOOLEAN, layout : Layouts,
               interval : Nat, pending : BOOLEAN]
  BY DEF Views
<1>3. Flushed(r) = [r EXCEPT !.dw = w, !.stage = <<>>]
  BY DEF Flushed
<1>4. w \in 0..PayloadDw /\ <<>> \in S
  BY <1>1
<1> HIDE DEF S, L, w
<1> QED BY <1>2, <1>3, <1>4 DEF SameRun, w

\* The stage of a head page is written, padded.
LEMMA FlushKeeps ==
  ASSUME NEW f, NEW r, NEW m, Body(f, r, m), r.live # <<>>, r.stage # <<>>, Len(r.stage) <= DwData,
         NEW l
  PROVE  LET g == Programmed(f, r, Padded(r.stage))
         IN /\ Body(g, Flushed(r), m) /\ HoldNoMore(f, r, g, Flushed(r))
            /\ SameRun(r, Flushed(r)) /\ Flushed(r).abs = r.abs
            /\ Flushed(r).full = r.full /\ Flushed(r).stage = <<>>
            /\ Len(r.stage) = DwData => Pos(Flushed(r)) = Pos(r)
            /\ LayoutsUpTo(f, l) => LayoutsUpTo(g, l)
            /\ Ahead(f, r) => Ahead(g, Flushed(r))
<1> DEFINE w == Padded(r.stage)
           g == Programmed(f, r, w)
           s == Flushed(r)
           h == HeadPage(r).phys
<1>1. /\ f \in FlashPages /\ r \in Views /\ (\A p \in Phys : Len(f[p].dws) <= PayloadDw)
      /\ Headers(f) /\ RunOk(f, r) /\ HasRoom(r) /\ Placed(f, r, m) /\ Ordered(f, r)
  BY DEF Body
<1>2. r.dw + 1 <= PayloadDw
  BY <1>1, FlushFits DEF RunOk
<1>3. /\ s \in Views /\ SameRun(r, s) /\ s.abs = r.abs /\ s.dw = r.dw + 1 /\ s.stage = <<>>
      /\ s.full = r.full
  BY <1>1, <1>2, FlushedIs
<1>4. h \in Phys /\ w \in [1..DwData -> Byte] /\ r.stage \in Seq(Byte)
  BY <1>1, ViewIs, PaddedIs
<1>5. /\ g \in FlashPages /\ \A p \in Phys : p # h => g[p] = f[p]
      /\ \A p \in Phys : SameHeader(f, g, p) /\ g[p].valid = f[p].valid /\ g[p].first = f[p].first
      /\ g[h].dws = Append(f[h].dws, w)
  BY <1>1, <1>4, ProgrammedIs
<1>6. HoldNoMore(f, r, g, s)
  BY <1>1, <1>3, FlushHolds DEF SameRun
<1>7. /\ h = r.last /\ f[h].valid /\ r.dw = Len(f[h].dws)
  BY <1>1, HeadIs DEF RunOk
<1>8. Len(g[h].dws) = r.dw + 1
  <2> DEFINE D == [1..DwData -> Byte]
  <2>1. f[h].dws \in Seq(D) /\ w \in D
    BY <1>1, <1>4, FlashIs
  <2> HIDE DEF D, w, g
  <2>2. Len(Append(f[h].dws, w)) = Len(f[h].dws) + 1
    BY <2>1, AppendProperties
  <2> QED BY <1>5, <1>7, <2>2
<1>9. \A p \in Phys : Len(g[p].dws) <= PayloadDw
  <2> TAKE p \in Phys
  <2>1. CASE p = h
    BY <1>2, <1>8, <2>1
  <2>2. CASE p # h
    BY <1>1, <1>5, <2>2
  <2> QED BY <2>1, <2>2
<1> HIDE DEF g, w
<1>10. Headers(g)
  BY <1>1, <1>5 DEF Headers, Linked, SameHeader
<1>11. Run(g, s)
  <2>0. Run(f, r)
    BY <1>1 DEF RunOk
  <2> HIDE DEF s, h
  <2>1. HeadPage(s) = HeadPage(r) /\ s.dw = Len(g[s.last].dws) /\ s.last = HeadPage(s).phys
    BY <1>3, <1>7, <1>8 DEF SameRun, HeadPage, h
  <2>2. ASSUME NEW i \in 1..Len(r.live) PROVE Chained(g, s, i)
    <3>1. Chained(f, r, i) /\ r.live[i].phys \in Phys /\ r.live[1].phys \in Phys /\ r.last \in Phys
      <4>1. 1 \in 1..Len(r.live)
        BY <1>1, ViewIs
      <4> QED BY <1>1, <2>0, <4>1, ViewIs DEF Run
    <3>2. LivePage(f, r, i) => LivePage(g, s, i)
      BY <1>3, <1>5, <3>1 DEF LivePage, SameRun, SameHeader
    <3>3. Erasing(f, r, i) => Erasing(g, s, i)
      <4> SUFFICES ASSUME Erasing(f, r, i) PROVE Erasing(g, s, i)
        OBVIOUS
      <4>1. r.live[1].phys = After(r.last) /\ After(r.last) # r.last
        BY <3>1, AfterIs DEF Erasing
      <4>2. g[r.live[1].phys] = f[r.live[1].phys]
        BY <1>5, <1>7, <3>1, <4>1
      <4> QED BY <1>3, <4>1, <4>2 DEF Erasing, SameRun
    <3> QED BY <1>3, <3>1, <3>2, <3>3 DEF Chained, SameRun
  <2> QED BY <1>3, <2>0, <2>1, <2>2 DEF Run, SameRun
<1>12. Pos(s) <= PayloadDw * DwData /\ (Len(r.stage) = DwData => Pos(s) = Pos(r))
  <2>1. Len(s.stage) = 0 /\ Pos(s) = (r.dw + 1) * DwData
    BY <1>3, ViewIs
  <2>2. r.dw \in Nat /\ DwData \in Nat /\ PayloadDw \in Nat
    BY <1>1, ViewIs, SizesAre
  <2>3. (r.dw + 1) * DwData <= PayloadDw * DwData /\ (r.dw + 1) * DwData = (r.dw * DwData) + DwData
    BY <1>2, <2>2, r.dw + 1 \in Nat, Products
  <2>4. Pos(r) = (r.dw * DwData) + Len(r.stage)
    BY <1>1, ViewIs
  <2> QED BY <2>1, <2>3, <2>4
<1>13. RunOk(g, s)
  BY <1>3, <1>11, <1>12 DEF RunOk, SameRun
<1>14. HasRoom(s)
  BY <1>1, <1>3 DEF HasRoom, SameRun, HeadRecords, HeadPage
<1>15. Placed(g, s, m) /\ Ordered(g, s)
  BY <1>1, <1>6, LessKeeps
<1>16. Body(g, s, m)
  BY <1>3, <1>5, <1>9, <1>10, <1>13, <1>14, <1>15 DEF Body
<1>17. LayoutsUpTo(f, l) => LayoutsUpTo(g, l)
  BY <1>5 DEF LayoutsUpTo, SameHeader
<1>18. Ahead(f, r) => Ahead(g, s)
  BY <1>3, <1>5 DEF Ahead, AheadOf, SameHeader, SameRun
<1> QED BY <1>3, <1>6, <1>12, <1>16, <1>17, <1>18 DEF g, w

-----------------------------------------------------------------------------
(* Views with the same run, or none                                          *)

\* A view of no page.
NoRun(s) == s.live = <<>> /\ s.stage = <<>> /\ s.dw = 0

LEMMA NoRunKeeps ==
  ASSUME NEW f, NEW r, NEW m, Body(f, r, m), NEW s \in Views, NoRun(s)
  PROVE  Body(f, s, m) /\ HoldNoMore(f, r, f, s) /\ Aligned(s)
<1>1. HoldNoMore(f, r, f, s)
  BY UnstagedHolds DEF NoRun
<1>2. Placed(f, s, m) /\ Ordered(f, s)
  BY <1>1, LessKeeps DEF Body
<1>3. RunOk(f, s)
  <2>1. Pos(s) = (0 * DwData) + 0
    BY ViewIs DEF NoRun
  <2> QED BY <2>1, SizesAre DEF RunOk, NoRun
<1> QED BY <1>1, <1>2, <1>3 DEF Body, HasRoom, Aligned, NoRun

\* The stage was dropped, or the page closed.
LEMMA SameRunKeeps ==
  ASSUME NEW f, NEW r, NEW m, Body(f, r, m), NEW s \in Views,
         s.live = r.live, s.seq = r.seq, s.last = r.last, s.layout = r.layout,
         s.interval = r.interval, s.abs = r.abs, s.dw = r.dw,
         s.stage = <<>> \/ s.stage = r.stage, s.full = r.full \/ s.full
  PROVE  Body(f, s, m) /\ HoldNoMore(f, r, f, s) /\ (Ahead(f, r) => Ahead(f, s))
<1>0. r \in Views /\ RunOk(f, r) /\ HasRoom(r)
  BY DEF Body
<1>1. HoldNoMore(f, r, f, s)
  BY UnstagedHolds
<1>2. Placed(f, s, m) /\ Ordered(f, s)
  BY <1>1, LessKeeps DEF Body
<1>3. r.live # <<>> => Run(f, s)
  <2> SUFFICES ASSUME r.live # <<>> PROVE Run(f, s)
    OBVIOUS
  <2>1. Run(f, r)
    BY <1>0 DEF RunOk
  <2>2. ASSUME NEW i \in 1..Len(r.live), Chained(f, r, i) PROVE Chained(f, s, i)
    BY <2>2 DEF Chained, LivePage, Erasing
  <2> QED BY <2>1, <2>2 DEF Run, HeadPage
<1>4. Pos(s) <= Pos(r)
  <2>1. s.stage = <<>> => Len(s.stage) = 0
    BY ViewIs
  <2> QED BY <1>0, <2>1, ViewIs
<1>5. RunOk(f, s)
  <2>1. Pos(s) <= PayloadDw * DwData
    <3>1. Pos(r) <= PayloadDw * DwData
      BY <1>0 DEF RunOk
    <3> QED BY <1>0, <1>4, <3>1, ViewIs, SizesAre
  <2> QED BY <1>0, <1>3, <2>1 DEF RunOk
<1>6. HasRoom(s)
  BY <1>0 DEF HasRoom, HeadRecords, HeadPage
<1>7. Ahead(f, r) => Ahead(f, s)
  BY DEF Ahead, AheadOf
<1> QED BY <1>1, <1>2, <1>5, <1>6, <1>7 DEF Body

-----------------------------------------------------------------------------
(* The bytes of a record go to the stage                                     *)

LEMMA StagedIs ==
  ASSUME NEW r \in Views, Len(r.stage) < DwData, NEW left \in Seq(Byte)
  PROVE  LET t == Taken(r, left)
         IN /\ t \in Nat /\ t <= Len(left) /\ Len(r.stage) + t <= DwData
            /\ Len(r.stage) + t # DwData => t = Len(left)
            /\ Staged(r, left) \in Views /\ SameRun(r, Staged(r, left))
            /\ Staged(r, left).abs = r.abs /\ Staged(r, left).dw = r.dw
            /\ Staged(r, left).full = r.full
            /\ Len(Staged(r, left).stage) = Len(r.stage) + t
            /\ \A j \in 1..(Len(r.stage) + t) :
                 Staged(r, left).stage[j] = IF j <= Len(r.stage) THEN r.stage[j]
                                            ELSE left[j - Len(r.stage)]
            /\ Remaining(r, left) \in Seq(Byte) /\ Len(Remaining(r, left)) = Len(left) - t
            /\ \A k \in 1..(Len(left) - t) : Remaining(r, left)[k] = left[t + k]
<1> DEFINE t == Taken(r, left)
           n == Len(r.stage)
           x == Len(left)
           a == SubSeq(left, 1, t)
           c == r.stage \o a
           e == Remaining(r, left)
<1>1. n \in Nat /\ x \in Nat /\ DwData \in Nat /\ n < DwData /\ r.stage \in Seq(Byte)
  BY ViewIs, SizesAre
<1>2. t = IF DwData - n <= x THEN DwData - n ELSE x
  <2>1. t = Min({DwData - n, x})
    BY DEF Taken
  <2> HIDE DEF t, n, x
  <2>2. DwData - n \in Nat
    BY <1>1
  <2> QED BY <1>1, <2>1, <2>2, MinOfTwo
<1>3. \A j \in 1..x : left[j] \in Byte
  BY ElementOfSeq
<1> HIDE DEF t, n, x
<1>4. t \in Nat /\ t <= x /\ n + t <= DwData /\ (n + t # DwData => t = x)
  BY <1>1, <1>2
<1>5. a \in Seq(Byte) /\ Len(a) = t /\ \A j \in 1..t : a[j] = left[j]
  <2>1. \A i \in 1..t : left[i] \in Byte
    BY <1>1, <1>3, <1>4
  <2>2. /\ a \in Seq(Byte) /\ Len(a) = (IF 1 <= t THEN t - 1 + 1 ELSE 0)
        /\ \A i \in 1..(t - 1 + 1) : a[i] = left[1 + i - 1]
    BY <1>4, <2>1, SubSeqProperties
  <2> HIDE DEF a
  <2>3. Len(a) = t
    BY <1>4, <2>2
  <2>4. \A i \in 1..t : i \in 1..(t - 1 + 1) /\ 1 + i - 1 = i
    BY <1>4
  <2> QED BY <2>2, <2>3, <2>4
<1>6. /\ c \in Seq(Byte) /\ Len(c) = n + t
      /\ \A j \in 1..(n + t) : c[j] = IF j <= n THEN r.stage[j] ELSE a[j - n]
  <2> HIDE DEF a
  <2>1. /\ c \in Seq(Byte) /\ Len(c) = Len(r.stage) + Len(a)
        /\ \A j \in 1..(Len(r.stage) + Len(a)) :
             c[j] = IF j <= Len(r.stage) THEN r.stage[j] ELSE a[j - Len(r.stage)]
    BY <1>1, <1>5, ConcatProperties
  <2> QED BY <1>5, <2>1 DEF n
<1>7. \A j \in 1..(n + t) : c[j] = IF j <= n THEN r.stage[j] ELSE left[j - n]
  <2> TAKE j \in 1..(n + t)
  <2> HIDE DEF a, c
  <2>1. ~(j <= n) => j - n \in 1..t
    BY <1>1, <1>4
  <2> QED BY <1>5, <1>6, <2>1
<1>8. /\ e \in Seq(Byte) /\ Len(e) = x - t /\ \A k \in 1..(x - t) : e[k] = left[t + k]
  <2>1. e = SubSeq(left, t + 1, x)
    BY DEF Remaining, t, x
  <2>2. \A i \in (t + 1)..x : left[i] \in Byte
    BY <1>1, <1>3, <1>4
  <2>3. /\ e \in Seq(Byte) /\ Len(e) = (IF t + 1 <= x THEN x - (t + 1) + 1 ELSE 0)
        /\ \A i \in 1..(x - (t + 1) + 1) : e[i] = left[(t + 1) + i - 1]
    BY <1>1, <1>4, <2>1, <2>2, t + 1 \in Int, SubSeqProperties
  <2> HIDE DEF e
  <2>4. Len(e) = x - t
    BY <1>1, <1>4, <2>3
  <2>5. \A k \in 1..(x - t) : k \in 1..(x - (t + 1) + 1) /\ (t + 1) + k - 1 = t + k
    BY <1>1, <1>4
  <2> QED BY <2>3, <2>4, <2>5
<1>9. Staged(r, left) = [r EXCEPT !.stage = c]
  BY DEF Staged, t
<1> HIDE DEF c, a, e
<1> DEFINE s == Staged(r, left)
           S == Seq(Byte)
           L == Seq([first : Nat, phys : Phys])
<1>10. Views = [live : L, seq : Nat, abs : Nat, last : Phys,
                dw : 0..PayloadDw, stage : S, full : BOOLEAN, layout : Layouts,
                interval : Nat, pending : BOOLEAN]
  BY DEF Views
<1>11. s = [r EXCEPT !.stage = c] /\ c \in S
  BY <1>6, <1>9
<1> HIDE DEF s, S, L
<1>12. /\ s \in Views /\ SameRun(r, s) /\ s.abs = r.abs /\ s.dw = r.dw /\ s.full = r.full
       /\ s.stage = c
  BY <1>10, <1>11 DEF SameRun
<1> QED BY <1>4, <1>6, <1>7, <1>8, <1>12 DEF s, t, n, x, e

\* What the record under way adds: its bytes at the end of the head page.
Adds(f, r, s, n) ==
  \A p \in Phys, d \in Nat, b \in Byte :
    Holds(f, s, p, d, b) =>
      \/ Holds(f, r, p, d, b)
      \/ /\ p = HeadPage(r).phys /\ Pos(r) <= d /\ d < Start(r) + HeadSize(r)
         /\ b[1] = n /\ b[2] = d - Start(r) + 1

LEMMA StagedHolds ==
  ASSUME NEW f, NEW r \in Views, Len(r.stage) < DwData, NEW rs \in Rests, NEW n,
         r.live # <<>>, HeadRecords(r) \in Nat, Streaming(r, rs, n)
  PROVE  Adds(f, r, Staged(r, rs.left), n)
<1> DEFINE left == rs.left
           t == Taken(r, left)
           s == Staged(r, left)
           len == Len(r.stage)
           x == Len(left)
           base == r.dw * DwData
           st == Start(r)
           size == HeadSize(r)
<1>1. left \in Seq(Byte)
  BY DEF Rests
<1>2. /\ t \in Nat /\ t <= x /\ s \in Views /\ SameRun(r, s) /\ s.dw = r.dw
      /\ Len(s.stage) = len + t
      /\ \A j \in 1..(len + t) : s.stage[j] = IF j <= len THEN r.stage[j] ELSE left[j - len]
  BY <1>1, StagedIs
<1>3. /\ Pos(r) + x = st + size /\ x <= size
      /\ \A k \in 1..x : left[k] = <<n, size - x + k>>
  BY DEF Streaming
<1>4. len \in Nat /\ x \in Nat /\ base \in Nat /\ Pos(r) = base + len /\ size \in Nat /\ st \in Nat
  <2>1. st \in Nat
    BY ViewIs DEF Start
  <2> QED BY <1>1, <2>1, ViewIs, LenProperties
<1> SUFFICES ASSUME NEW p \in Phys, NEW d \in Nat, NEW b \in Byte, Holds(f, s, p, d, b),
                    ~Holds(f, r, p, d, b)
             PROVE  /\ p = HeadPage(r).phys /\ Pos(r) <= d /\ d < st + size
                    /\ b[1] = n /\ b[2] = d - st + 1
  BY DEF Adds
<1>5. InStaged(s, p, d, b) /\ b[1] > 0 /\ ~InStaged(r, p, d, b)
  BY DEF Holds
<1> HIDE DEF left, t, s, len, x, base, st, size
<1>6. /\ p = HeadPage(r).phys /\ d >= base /\ d - base < len + t /\ b = s.stage[d - base + 1]
  BY <1>2, <1>5 DEF InStaged, SameRun, HeadPage, base
<1>7. d - base + 1 \in 1..(len + t)
  BY <1>2, <1>4, <1>6
<1>8. ~(d - base + 1 <= len)
  <2> SUFFICES ASSUME d - base + 1 <= len PROVE FALSE
    OBVIOUS
  <2>1. b = r.stage[d - base + 1] /\ d - base < len
    BY <1>2, <1>4, <1>6, <1>7
  <2> QED BY <1>5, <1>6, <2>1 DEF InStaged, base, len
<1> DEFINE k == d - base + 1 - len
<1>9. k \in 1..x /\ b = left[k]
  BY <1>2, <1>4, <1>6, <1>7, <1>8
<1>10. b = <<n, size - x + k>>
  BY <1>3, <1>9
<1>11. size - x + k = d - st + 1 /\ Pos(r) <= d /\ d < st + size
  <2> DEFINE P == Pos(r)
  <2>1. k \in Nat /\ k >= 1 /\ k <= x
    BY <1>4, <1>9
  <2>2. P = base + len /\ P + x = st + size /\ x <= size
    BY <1>3, <1>4
  <2>3. k = d - base + 1 - len
    OBVIOUS
  <2> HIDE DEF P, k
  <2>4. P \in Nat /\ d = P + k - 1
    BY <1>4, <2>1, <2>2, <2>3
  <2> QED BY <1>4, <2>1, <2>2, <2>4 DEF P
<1> QED BY <1>6, <1>10, <1>11

\* The record under way belongs where it goes.
LEMMA AddsKeep ==
  ASSUME NEW f, NEW r, NEW m \in Takes, m # <<>>, Body(f, r, m), Ahead(f, r), r.live # <<>>,
         m[Len(m)].layout = r.layout, m[Len(m)].interval = r.interval,
         Start(r) <= Pos(r), Pos(r) <= Start(r) + HeadSize(r), UnderWay(f, r, Len(m)),
         NEW s, SameRun(r, s), s.abs = r.abs, Adds(f, r, s, Len(m))
  PROVE  Placed(f, s, m) /\ Ordered(f, s) /\ UnderWay(f, s, Len(m))
<1> DEFINE h == HeadPage(r).phys
           n == Len(m)
           K == HeadRecords(r)
           size == HeadSize(r)
           st == Start(r)
           New(p, d, b) == /\ p = h /\ Pos(r) <= d /\ d < st + size
                           /\ b[1] = n /\ b[2] = d - st + 1
<1>1. /\ f \in FlashPages /\ r \in Views /\ RunOk(f, r) /\ Run(f, r)
      /\ Placed(f, r, m) /\ Ordered(f, r)
  BY DEF Body, RunOk
<1>2. /\ h = r.last /\ h \in Phys /\ f[h].valid /\ f[h].layout = r.layout /\ f[h].seq = r.seq - 1
      /\ r.interval \in {0, f[h].interval} /\ K \in Nat
  BY <1>1, HeadIs, ViewIs
<1>3. size \in Nat \ {0} /\ Pos(r) \in Nat /\ st = K * size /\ st \in Nat
  <2>1. size \in Nat \ {0} /\ Pos(r) \in Nat /\ st = K * size
    BY <1>1, ViewIs DEF Start
  <2> HIDE DEF size, K, st
  <2>2. K * size \in Nat
    BY <1>2, <2>1
  <2> QED BY <2>1, <2>2
<1>4. n \in 1..n /\ n \in Nat /\ DOMAIN m = 1..n /\ m[n].interval \in Nat \ {0}
  <2> DEFINE T == [layout : Layouts, interval : Intervals]
  <2>1. m \in Seq(T) /\ Intervals \subseteq Nat \ {0}
    BY RingAssumption DEF Takes
  <2>2. n \in Nat /\ n # 0 /\ DOMAIN m = 1..n /\ \A i \in 1..n : m[i] \in T
    <3> HIDE DEF T
    <3> QED BY <2>1, EmptySeq, LenProperties, ElementOfSeq
  <2> HIDE DEF n
  <2>3. n \in 1..n
    BY <2>2
  <2> QED BY <2>1, <2>2, <2>3
<1>5. m[n].layout = f[h].layout /\ m[n].interval = f[h].interval
  BY <1>2, <1>4
<1>6. \A p \in Phys, d \in Nat, b \in Byte : Holds(f, s, p, d, b) => Holds(f, r, p, d, b) \/ New(p, d, b)
  BY DEF Adds
<1>7. \A p \in Phys, d \in Nat, b \in Byte : Holds(f, r, p, d, b) =>
        /\ f[p].valid /\ PlacedAt(f, m, p, d, b) /\ (b[1] = n <=> AtHead(r, p, d))
        /\ b[1] \in 1..n /\ (p = h => d < Pos(r))
  <2> TAKE p \in Phys, d \in Nat, b \in Byte
  <2> HAVE Holds(f, r, p, d, b)
  <2>1. f[p].valid /\ (p = h => d < Pos(r))
    BY <1>1, HeldIs
  <2>2. PlacedAt(f, m, p, d, b) /\ (b[1] = n <=> AtHead(r, p, d))
    BY <1>1 DEF Placed, UnderWay
  <2> QED BY <1>4, <2>1, <2>2 DEF PlacedAt
\* Slots of the head page.
<1>8. \A d \in Nat : /\ SlotOf(f, h, d) = d \div size /\ SlotOf(f, h, d) \in Nat
                     /\ SlotOf(f, h, d) < K <=> d < st
                     /\ SlotOf(f, h, d) = K <=> st <= d /\ d < st + size
                     /\ st <= d /\ d < st + size => d = st + (d % size)
  <2> TAKE d \in Nat
  <2>1. SlotOf(f, h, d) = d \div size
    BY <1>2 DEF SlotOf, HeadSize
  <2> HIDE DEF size, K, st
  <2>2. /\ d \div size \in Nat /\ (d < K * size <=> d \div size < K)
        /\ (d \div size = K <=> K * size <= d /\ d < (K * size) + size)
        /\ (d \div size = K => d = (K * size) + (d % size))
    BY <1>2, <1>3, InPart
  <2> QED BY <1>3, <2>1, <2>2
<1> HIDE DEF h, n, K, size, st
<1>9. \A d \in Nat, b \in Byte : New(h, d, b) =>
        /\ st <= d /\ d < st + size /\ SlotOf(f, h, d) = K /\ PlacedAt(f, m, h, d, b)
  <2> TAKE d \in Nat, b \in Byte
  <2> HAVE New(h, d, b)
  <2>1. st <= d /\ d < st + size
    BY <1>3 DEF st
  <2>2. SlotOf(f, h, d) = K /\ d = st + (d % size)
    BY <1>8, <2>1
  <2>3. d % size \in Nat
    <3>1. size \in Nat \ {0}
      BY <1>3
    <3>2. d % size \in 0..(size - 1)
      BY <3>1, DivMod
    <3> QED BY <3>1, <3>2
  <2>4. b[2] = (d % size) + 1
    BY <1>3, <2>2, <2>3
  <2>5. SampleSize[f[h].layout] = size
    BY <1>2 DEF size, HeadSize
  <2> QED BY <1>4, <1>5, <2>1, <2>2, <2>4, <2>5 DEF PlacedAt
<1>10. Placed(f, s, m)
  BY <1>6, <1>7, <1>9 DEF Placed
<1>11. UnderWay(f, s, n)
  <2>1. HeadPage(s) = HeadPage(r) /\ Start(s) = Start(r)
    BY DEF SameRun, HeadPage, Start, HeadRecords, HeadSize
  <2> SUFFICES ASSUME NEW p \in Phys, NEW d \in Nat, NEW b \in Byte, Holds(f, s, p, d, b)
               PROVE  b[1] = n <=> AtHead(s, p, d)
    BY DEF UnderWay
  <2>2. AtHead(s, p, d) <=> AtHead(r, p, d)
    BY <2>1 DEF AtHead
  <2>3. CASE Holds(f, r, p, d, b)
    BY <1>7, <2>2, <2>3
  <2>4. CASE New(p, d, b)
    BY <1>9, <2>2, <2>4 DEF AtHead, h, st
  <2> QED BY <1>6, <2>3, <2>4
<1>12. Ordered(f, s)
  <2> SUFFICES ASSUME NEW p \in Phys, NEW q \in Phys, NEW d \in Nat, NEW e \in Nat,
                      NEW b \in Byte, NEW c \in Byte, Holds(f, s, p, d, b), Holds(f, s, q, e, c)
               PROVE  InOrder(f, p, d, b, q, e, c)
    BY DEF Ordered
  <2>1. CASE Holds(f, r, p, d, b) /\ Holds(f, r, q, e, c)
    BY <1>1, <2>1 DEF Ordered
  <2>2. CASE New(p, d, b) /\ New(q, e, c)
    <3>1. p = h /\ q = h /\ SlotOf(f, h, d) = K /\ SlotOf(f, h, e) = K /\ b[1] = n /\ c[1] = n
      BY <1>9, <2>2
    <3>2. f[h].seq \in Nat /\ K \in Nat
      BY <1>1, <1>2, FlashIs
    <3> QED BY <3>1, <3>2 DEF InOrder, Before
  <2>3. CASE Holds(f, r, p, d, b) /\ New(q, e, c)
    <3>1. q = h /\ c[1] = n /\ SlotOf(f, h, e) = K
      BY <1>9, <2>3
    <3>2. b[1] \in 1..n /\ (b[1] = n <=> AtHead(r, p, d))
      BY <1>7, <2>3
    <3>3. ASSUME Before(f, p, d, h, e) PROVE b[1] # n
      <4>1. CASE p = h
        <5>1. f[h].seq \in Nat
          BY <1>1, <1>2, FlashIs
        <5>2. SlotOf(f, h, d) < K
          BY <3>1, <3>3, <4>1, <5>1 DEF Before
        <5>3. d < st
          BY <1>8, <5>2
        <5> QED BY <1>3, <3>2, <4>1, <5>3 DEF AtHead, st
      <4>2. CASE p # h
        BY <3>2, <4>2 DEF AtHead, h
      <4> QED BY <4>1, <4>2
    <3>4. ASSUME p = h, SlotOf(f, p, d) = SlotOf(f, h, e) PROVE b[1] = n
      <4>1. st <= d
        BY <1>8, <3>1, <3>4
      <4> QED BY <3>2, <3>4, <4>1 DEF AtHead, h, st
    <3>5. b[1] # n => b[1] < n
      BY <1>4, <3>2
    <3> QED BY <3>1, <3>3, <3>4, <3>5 DEF InOrder
  <2>4. CASE New(p, d, b) /\ Holds(f, r, q, e, c)
    <3>1. p = h /\ b[1] = n /\ SlotOf(f, h, d) = K
      BY <1>9, <2>4
    <3>2. f[q].valid /\ (c[1] = n <=> AtHead(r, q, e)) /\ (q = h => e < Pos(r))
      BY <1>7, <2>4
    <3>3. ~Before(f, h, d, q, e)
      <4>1. f[q].seq < r.seq /\ f[q].seq \in Nat /\ r.seq \in Nat /\ f[h].seq = r.seq - 1
        BY <1>1, <1>2, <3>2, FlashIs, ViewIs DEF Ahead, AheadOf
      <4>2. ~(f[h].seq < f[q].seq)
        BY <4>1
      <4>3. CASE q = h
        <5>1. e < st + size
          BY <1>3, <3>2, <4>3 DEF st, size
        <5>2. SlotOf(f, h, e) < K \/ SlotOf(f, h, e) = K
          <6>1. /\ SlotOf(f, h, e) < K <=> e < st
                /\ SlotOf(f, h, e) = K <=> st <= e /\ e < st + size
            BY <1>8
          <6>2. e < st \/ st <= e
            BY <1>3
          <6> QED BY <5>1, <6>1, <6>2
        <5>3. SlotOf(f, h, e) \in Nat /\ K \in Nat
          BY <1>2, <1>8
        <5> QED BY <3>1, <4>2, <4>3, <5>2, <5>3 DEF Before
      <4>4. CASE q # h
        BY <4>2, <4>4 DEF Before
      <4> QED BY <4>3, <4>4
    <3>4. ASSUME h = q, SlotOf(f, h, d) = SlotOf(f, q, e) PROVE c[1] = n
      <4>1. st <= e
        BY <1>8, <3>1, <3>4
      <4> QED BY <3>2, <3>4, <4>1 DEF AtHead, h, st
    <3> QED BY <3>1, <3>3, <3>4 DEF InOrder
  <2> QED BY <1>6, <2>1, <2>2, <2>3, <2>4
<1> QED BY <1>10, <1>11, <1>12 DEF n


-----------------------------------------------------------------------------
(* The ring goes on                                                          *)

\* Of the records of the live pages that count from ordinal c on, each is newer
\* than record n.
Newer(f, r, c, n) ==
  \A i \in 1..Len(r.live), d \in Nat, b \in Byte :
    /\ Holds(f, r, r.live[i].phys, d, b)
    /\ c <= r.live[i].first + SlotOf(f, r.live[i].phys, d)
    /\ i < Len(r.live) => r.live[i].first + SlotOf(f, r.live[i].phys, d) < r.live[i + 1].first
    => b[1] > n

\* What is held and was not is of record n.
NewOnly(f, r, g, s, n) ==
  \A p \in Phys, d \in Nat, b \in Byte :
    Holds(g, s, p, d, b) => (Holds(f, r, p, d, b) /\ SameHeader(f, g, p)) \/ b[1] = n

\* The ordinals go on, and what they count is as it was or of record n.
GoesOn(f, r, g, s, n) ==
  /\ r.abs <= s.abs /\ FirstAbs(r) <= FirstAbs(s)
  /\ \A c, m \in Nat : m < n /\ Newer(f, r, c, m) => Newer(g, s, c, m)
SameKind(r, s) == s.layout = r.layout /\ s.interval = r.interval
Onward(f, r, g, s, n) == SameKind(r, s) /\ GoesOn(f, r, g, s, n)

\* The ordinals of the live pages rise.
LEMMA FirstsRise ==
  ASSUME NEW f, NEW r \in Views, Run(f, r), NEW i \in 1..Len(r.live), NEW j \in i..Len(r.live)
  PROVE  r.live[i].first <= r.live[j].first
<1> DEFINE n == Len(r.live)
           first(x) == r.live[x].first
           S == {x \in Nat : i + x <= n /\ ~(first(i) <= first(i + x))}
<1>1. /\ n \in Nat /\ \A x \in 1..n : first(x) \in Nat
      /\ \A x \in 1..n : x < n => first(x) <= first(x + 1)
  BY ViewIs DEF Run, Chained
<1> HIDE DEF n, first
<1>2. CASE S = {}
  <2>1. j - i \in Nat /\ i + (j - i) <= n /\ i + (j - i) = j
    BY <1>1 DEF n
  <2> QED BY <1>2, <2>1 DEF first
<1>3. CASE S # {}
  <2> DEFINE x == Min(S)
  <2>1. x \in S /\ \A y \in S : x <= y
    <3>1. S \in SUBSET Nat
      OBVIOUS
    <3> HIDE DEF S
    <3> QED BY <1>3, <3>1, LeastIs
  <2>2. x \in Nat /\ i + x <= n /\ ~(first(i) <= first(i + x))
    BY <2>1
  <2>3. x # 0
    BY <1>1, <2>2 DEF n
  <2> HIDE DEF x
  <2>4. x - 1 \in Nat /\ x - 1 \notin S /\ i + (x - 1) <= n
    <3>1. x - 1 \in Nat /\ i \in Nat /\ ~(x <= x - 1)
      BY <2>2, <2>3
    <3>2. x - 1 \notin S
      <4> HIDE DEF S
      <4> QED BY <2>1, <3>1
    <3>3. i + (x - 1) <= n
      <4> HIDE DEF S
      <4> QED BY <1>1, <2>2, <3>1
    <3> QED BY <3>1, <3>2, <3>3
  <2>5. first(i) <= first(i + (x - 1))
    BY <2>4
  <2>6. i + (x - 1) \in 1..n /\ i + (x - 1) < n /\ (i + (x - 1)) + 1 = i + x /\ i + x \in 1..n
        /\ i \in 1..n
    BY <1>1, <2>2, <2>4 DEF n
  <2>7. /\ first(i) \in Nat /\ first(i + x) \in Nat /\ first(i + (x - 1)) \in Nat
        /\ first(i + (x - 1)) <= first(i + x)
    BY <1>1, <2>6
  <2> QED BY <2>2, <2>5, <2>7
<1> QED BY <1>2, <1>3

LEMMA FirstAbsIs ==
  ASSUME NEW f, NEW r \in Views, RunOk(f, r)
  PROVE  /\ FirstAbs(r) \in Nat /\ r.abs \in Nat /\ FirstAbs(r) <= r.abs
         /\ \A i \in 1..Len(r.live) : FirstAbs(r) <= r.live[i].first /\ r.live[i].first <= r.abs
<1>1. CASE r.live = <<>>
  BY <1>1, ViewIs DEF FirstAbs
<1>2. CASE r.live # <<>>
  <2> DEFINE n == Len(r.live)
  <2>1. /\ Run(f, r) /\ n \in 1..n /\ n \in Nat /\ HeadPage(r) = r.live[n] /\ r.abs \in Nat
        /\ FirstAbs(r) = r.live[1].first /\ 1 \in 1..n
        /\ \A i \in 1..n : r.live[i].first \in Nat
    BY <1>2, ViewIs DEF RunOk, FirstAbs
  <2>2. r.live[n].first <= r.abs
    BY <2>1 DEF Run
  <2>3. ASSUME NEW i \in 1..n PROVE r.live[1].first <= r.live[i].first /\ r.live[i].first <= r.abs
    <3>1. i \in 1..n /\ n \in i..n
      BY <2>1
    <3>2. r.live[1].first <= r.live[i].first /\ r.live[i].first <= r.live[n].first
      BY <2>1, <3>1, FirstsRise
    <3> HIDE DEF n
    <3> QED BY <2>1, <2>2, <3>2
  <2> HIDE DEF n
  <2>4. r.live[1].first <= r.abs
    BY <2>1, <2>3
  <2> QED BY <2>1, <2>3, <2>4 DEF n
<1> QED BY <1>1, <1>2

\* The same pages, with bytes of record n at most.
LEMMA SameRunGoesOn ==
  ASSUME NEW f, NEW r \in Views, NEW g, NEW s \in Views, NEW n, s.live = r.live, r.abs <= s.abs,
         NewOnly(f, r, g, s, n)
  PROVE  GoesOn(f, r, g, s, n)
<1>1. FirstAbs(r) <= FirstAbs(s)
  <2>1. CASE r.live = <<>>
    BY <2>1 DEF FirstAbs
  <2>2. CASE r.live # <<>>
    <3>1. FirstAbs(s) = FirstAbs(r) /\ FirstAbs(r) \in Nat
      <4>1. 1 \in 1..Len(r.live)
        BY <2>2, ViewIs
      <4> QED BY <2>2, <4>1, ViewIs DEF FirstAbs
    <3> QED BY <3>1
  <2> QED BY <2>1, <2>2
<1>2. ASSUME NEW c \in Nat, NEW m \in Nat, m < n, Newer(f, r, c, m) PROVE Newer(g, s, c, m)
  <2> SUFFICES ASSUME NEW i \in 1..Len(r.live), NEW d \in Nat, NEW b \in Byte,
                      Holds(g, s, r.live[i].phys, d, b),
                      c <= r.live[i].first + SlotOf(g, r.live[i].phys, d),
                      i < Len(r.live) =>
                        r.live[i].first + SlotOf(g, r.live[i].phys, d) < r.live[i + 1].first
               PROVE  b[1] > m
    BY DEF Newer
  <2>1. r.live[i].phys \in Phys
    BY ViewIs
  <2>2. CASE b[1] = n
    BY <1>2, <2>2
  <2>3. CASE Holds(f, r, r.live[i].phys, d, b) /\ SameHeader(f, g, r.live[i].phys)
    <3>1. SlotOf(g, r.live[i].phys, d) = SlotOf(f, r.live[i].phys, d)
      BY <2>3 DEF SlotOf, SameHeader
    <3> QED BY <1>2, <2>3, <3>1 DEF Newer
  <2> QED BY <2>1, <2>2, <2>3 DEF NewOnly
<1> QED BY <1>1, <1>2 DEF GoesOn

LEMMA HoldNoMoreGoesOn ==
  ASSUME NEW f, NEW r \in Views, NEW g, NEW s \in Views, NEW n, SameRun(r, s), r.abs <= s.abs,
         HoldNoMore(f, r, g, s)
  PROVE  Onward(f, r, g, s, n)
<1>1. NewOnly(f, r, g, s, n)
  BY DEF HoldNoMore, NewOnly
<1> QED BY <1>1, SameRunGoesOn DEF SameRun, Onward, SameKind

\* No page is left.
LEMMA EmptiedGoesOn ==
  ASSUME NEW f, NEW r \in Views, RunOk(f, r), NEW g, NEW s \in Views, NEW n, s.live = <<>>,
         s.abs = r.abs
  PROVE  GoesOn(f, r, g, s, n)
<1>1. FirstAbs(s) = r.abs /\ FirstAbs(r) <= r.abs /\ r.abs \in Nat
  BY FirstAbsIs DEF FirstAbs
<1>2. \A c, m \in Nat : Newer(g, s, c, m)
  <2>1. Len(s.live) = 0
    BY ViewIs
  <2> QED BY <2>1 DEF Newer
<1> QED BY <1>1, <1>2 DEF GoesOn

LEMMA GoesOnAgain ==
  ASSUME NEW f, NEW r \in Views, NEW g, NEW s \in Views, NEW h, NEW t \in Views, NEW n,
         GoesOn(f, r, g, s, n), GoesOn(g, s, h, t, n)
  PROVE  GoesOn(f, r, h, t, n)
<1>1. ASSUME NEW v \in Views PROVE FirstAbs(v) \in Nat /\ v.abs \in Nat
  <2>1. v.live # <<>> => 1 \in 1..Len(v.live)
    BY ViewIs
  <2> QED BY <2>1, ViewIs DEF FirstAbs
<1>2. /\ FirstAbs(r) \in Nat /\ FirstAbs(s) \in Nat /\ FirstAbs(t) \in Nat
      /\ r.abs \in Nat /\ s.abs \in Nat /\ t.abs \in Nat
  BY <1>1
<1>3. r.abs <= t.abs /\ FirstAbs(r) <= FirstAbs(t)
  BY <1>2 DEF GoesOn
<1> QED BY <1>3 DEF GoesOn

LEMMA OnwardAgain ==
  ASSUME NEW f, NEW r \in Views, NEW g, NEW s \in Views, NEW h, NEW t \in Views, NEW n,
         Onward(f, r, g, s, n), Onward(g, s, h, t, n)
  PROVE  Onward(f, r, h, t, n)
BY GoesOnAgain DEF Onward, SameKind

LEMMA OnwardSame ==
  ASSUME NEW f, NEW r \in Views, NEW n
  PROVE  Onward(f, r, f, r, n)
<1>1. HoldNoMore(f, r, f, r)
  BY DEF HoldNoMore, SameHeader
<1>2. SameRun(r, r) /\ r.abs <= r.abs
  BY ViewIs DEF SameRun
<1> QED BY <1>1, <1>2, HoldNoMoreGoesOn

-----------------------------------------------------------------------------
(* The byte loop                                                             *)

\* The stage is as far as it was, or further, in the same page.
LEMMA SameRunIs ==
  ASSUME NEW f, NEW r \in Views, r.live # <<>>, Run(f, r), HeadRecords(r) \in Nat,
         NEW s \in Views, SameRun(r, s), s.dw = r.dw, r.abs <= s.abs,
         HeadRecords(r) + (s.abs - r.abs) <= PerPage(r.layout)
  PROVE  /\ s.live # <<>> /\ HeadPage(s) = HeadPage(r) /\ HeadSize(s) = HeadSize(r)
         /\ HeadRecords(s) = HeadRecords(r) + (s.abs - r.abs)
         /\ Run(f, s)
<1>1. s.live # <<>> /\ HeadPage(s) = HeadPage(r) /\ HeadSize(s) = HeadSize(r)
  BY DEF SameRun, HeadPage, HeadSize
<1> DEFINE first == HeadPage(r).first
           pages == PerPage(r.layout)
<1>2. /\ first \in Nat /\ r.abs \in Nat /\ s.abs \in Nat /\ pages \in Nat
      /\ HeadRecords(r) = r.abs - first /\ HeadRecords(s) = s.abs - first
      /\ PerPage(s.layout) = pages
  BY <1>1, ViewIs DEF SameRun
<1>3. first <= r.abs /\ r.last = HeadPage(r).phys /\ Len(r.live) <= NPages
      /\ r.dw = Len(f[r.last].dws) /\ \A i \in 1..Len(r.live) : Chained(f, r, i)
  BY DEF Run
<1>4. ASSUME NEW i \in 1..Len(r.live), Chained(f, r, i) PROVE Chained(f, s, i)
  BY <1>4 DEF Chained, LivePage, Erasing, SameRun
<1> HIDE DEF first, pages
<1>5. /\ first <= s.abs /\ s.abs <= first + pages
      /\ HeadRecords(s) = HeadRecords(r) + (s.abs - r.abs)
  <2>1. HeadRecords(r) + (s.abs - r.abs) <= pages
    BY DEF pages
  <2>2. first <= r.abs
    BY <1>3 DEF first
  <2> QED BY <1>2, <2>1, <2>2
<1>6. s.live = r.live /\ s.last = r.last
  BY DEF SameRun
<1>7. Run(f, s)
  <2>1. HeadPage(s).first <= s.abs /\ s.abs <= HeadPage(s).first + PerPage(s.layout)
    BY <1>1, <1>2, <1>5 DEF first
  <2> QED BY <1>1, <1>3, <1>4, <1>6, <2>1 DEF Run
<1> QED BY <1>1, <1>5, <1>7

\* The record under way is stored.
LEMMA CountedIs ==
  ASSUME NEW s \in Views, NEW full \in BOOLEAN
  PROVE  LET v == [[s EXCEPT !.abs = @ + 1] EXCEPT !.full = full]
         IN /\ v \in Views /\ SameRun(s, v) /\ v.abs = s.abs + 1 /\ v.dw = s.dw
            /\ v.stage = s.stage /\ v.full = full
<1> DEFINE S == Seq(Byte)
           L == Seq([first : Nat, phys : Phys])
<1>1. Views = [live : L, seq : Nat, abs : Nat, last : Phys,
               dw : 0..PayloadDw, stage : S, full : BOOLEAN, layout : Layouts,
               interval : Nat, pending : BOOLEAN]
  BY DEF Views
<1>2. s.abs + 1 \in Nat
  BY ViewIs
<1> HIDE DEF S, L
<1> QED BY <1>1, <1>2 DEF SameRun

\* Before the loop goes on: the rest of record Len(m) goes after what is there.
Streamable(f, r, rs, m) ==
  /\ m \in Takes /\ m # <<>> /\ m[Len(m)].layout = r.layout /\ m[Len(m)].interval = r.interval
  /\ Body(f, r, m) /\ Ahead(f, r) /\ Len(r.stage) < DwData
  /\ rs \in Rests /\ Streaming(r, rs, Len(m)) /\ UnderWay(f, r, Len(m))

\* The stage took bytes of the record.
LEMMA StagedKeeps ==
  ASSUME NEW f, NEW r, NEW rs, NEW m, Streamable(f, r, rs, m)
  PROVE  LET s == Staged(r, rs.left)
         IN /\ s \in Views /\ SameRun(r, s) /\ s.abs = r.abs /\ s.dw = r.dw /\ s.full = r.full
            /\ Body(f, s, m) /\ Ahead(f, s) /\ UnderWay(f, s, Len(m))
            /\ HeadRecords(r) \in Nat /\ HeadRecords(r) < PerPage(r.layout)
            /\ HeadRecords(s) = HeadRecords(r) /\ HeadSize(s) = HeadSize(r) /\ Start(s) = Start(r)
            /\ Pos(s) = Pos(r) + Taken(r, rs.left) /\ Start(r) \in Nat
            /\ Len(s.stage) <= DwData
            /\ Len(s.stage) # DwData => Pos(s) = Start(r) + HeadSize(r)
<1> DEFINE left == rs.left
           n == Len(m)
           s == Staged(r, left)
           t == Taken(r, left)
           K == HeadRecords(r)
           size == HeadSize(r)
<1>0. left \in Seq(Byte) /\ f \in FlashPages /\ r \in Views /\ RunOk(f, r) /\ Run(f, r) /\ r.live # <<>>
  BY DEF Streamable, Streaming, Body, RunOk, Rests
<1>1. /\ t \in Nat /\ t <= Len(left) /\ Len(r.stage) + t <= DwData
      /\ (Len(r.stage) + t # DwData => t = Len(left))
      /\ s \in Views /\ SameRun(r, s) /\ s.abs = r.abs /\ s.dw = r.dw /\ s.full = r.full
      /\ Len(s.stage) = Len(r.stage) + t
  BY <1>0, StagedIs DEF Streamable
<1>2. K \in Nat /\ K < PerPage(r.layout) /\ PerPage(r.layout) \in Nat
  <2>1. K \in Nat /\ PerPage(r.layout) \in Nat
    BY <1>0, HeadIs, ViewIs
  <2> QED BY <1>0, <2>1 DEF Streamable, Streaming, Body, HasRoom
<1>3. /\ size \in Nat \ {0} /\ PerPage(r.layout) * size <= PayloadDw * DwData
      /\ PayloadDw * DwData \in Nat
  BY <1>0, ViewIs, SizesAre DEF HeadSize
<1>4. /\ Start(r) = K * size /\ Pos(r) + Len(left) = Start(r) + size /\ Len(left) <= size
      /\ Len(left) \in Nat
  BY <1>0, LenProperties DEF Streamable, Streaming, Start
<1>5. Pos(r) \in Nat /\ Pos(r) = (r.dw * DwData) + Len(r.stage) /\ Pos(s) = (s.dw * DwData) + Len(s.stage)
      /\ Len(r.stage) \in Nat /\ r.dw * DwData \in Nat /\ Len(s.stage) \in Nat
  BY <1>0, <1>1, ViewIs
<1> HIDE DEF left, n, s, t, size, K
<1>6. K * size \in Nat /\ (K + 1) * size = (K * size) + size /\ (K + 1) * size <= PerPage(r.layout) * size
      /\ PerPage(r.layout) * size \in Nat
  <2>1. K + 1 \in Nat /\ K + 1 <= PerPage(r.layout) /\ size \in Nat
    BY <1>2, <1>3
  <2>2. K * size \in Nat /\ (K + 1) * size = (K * size) + size
    BY <1>2, <2>1, Products
  <2>3. (K + 1) * size <= PerPage(r.layout) * size /\ PerPage(r.layout) * size \in Nat
    BY <1>2, <2>1, Products
  <2> QED BY <2>2, <2>3
<1> DEFINE ks == K * size
           k1 == (K + 1) * size
           top == PerPage(r.layout) * size
           all == PayloadDw * DwData
           base == r.dw * DwData
<1>7. /\ ks \in Nat /\ k1 = ks + size /\ k1 <= top /\ top <= all /\ top \in Nat /\ all \in Nat
      /\ Start(r) = ks /\ base \in Nat /\ Pos(r) = base + Len(r.stage) /\ Pos(s) = base + Len(s.stage)
      /\ Pos(r) + Len(left) = ks + size
  BY <1>1, <1>3, <1>4, <1>5, <1>6
<1> HIDE DEF ks, k1, top, all, base
<1>8. /\ Start(r) \in Nat /\ Start(r) <= Pos(r) /\ Pos(r) <= Start(r) + size
      /\ Pos(s) = Pos(r) + t /\ Pos(s) <= all
      /\ (Len(s.stage) # DwData => Pos(s) = Start(r) + size)
  <2>1. size \in Nat /\ Len(left) \in Nat /\ Len(left) <= size /\ Len(r.stage) \in Nat
    BY <1>3, <1>4, <1>5
  <2>2. Pos(s) = Pos(r) + t /\ Pos(r) \in Nat
    BY <1>1, <1>7, <2>1
  <2>3. ks <= Pos(r) /\ Pos(r) <= ks + size
    BY <1>7, <2>1, <2>2
  <2>4. Pos(s) <= ks + size
    BY <1>1, <1>7, <2>1, <2>2
  <2>5. Len(s.stage) # DwData => Pos(s) = ks + size
    BY <1>1, <1>7, <2>1, <2>2
  <2>6. Pos(s) <= all
    BY <1>3, <1>7, <2>2, <2>4
  <2> QED BY <1>7, <2>2, <2>3, <2>5, <2>6
<1>9. /\ s.live # <<>> /\ HeadSize(s) = size /\ HeadRecords(s) = K /\ Run(f, s)
  <2>1. r.abs <= s.abs /\ s.abs - r.abs = 0
    <3>1. r.abs \in Nat
      BY <1>0, ViewIs
    <3> QED BY <1>1, <3>1
  <2>2. K + 0 <= PerPage(r.layout) /\ K + 0 = K
    BY <1>2
  <2> QED BY <1>0, <1>1, <1>2, <2>1, <2>2, SameRunIs DEF K, size
<1>10. Start(s) = Start(r)
  BY <1>9 DEF Start, K, size
<1>11. Placed(f, s, m) /\ Ordered(f, s) /\ UnderWay(f, s, n)
  <2>1. Adds(f, r, s, n)
    <3>1. Len(r.stage) < DwData /\ rs \in Rests /\ Streaming(r, rs, n)
      BY DEF Streamable, n
    <3>2. K \in Nat
      BY <1>2
    <3> QED BY <1>0, <3>1, <3>2, StagedHolds DEF s, left, K
  <2>2. /\ m \in Takes /\ m # <<>> /\ m[Len(m)].layout = r.layout /\ m[Len(m)].interval = r.interval
        /\ Body(f, r, m) /\ Ahead(f, r) /\ UnderWay(f, r, Len(m))
    BY DEF Streamable
  <2>3. Start(r) <= Pos(r) /\ Pos(r) <= Start(r) + HeadSize(r)
    BY <1>8 DEF size
  <2> QED BY <1>0, <1>1, <2>1, <2>2, <2>3, AddsKeep DEF n
<1>12. RunOk(f, s) /\ HasRoom(s)
  <2>1. HeadRecords(s) < PerPage(s.layout)
    BY <1>1, <1>2, <1>9 DEF SameRun
  <2> QED BY <1>8, <1>9, <2>1 DEF RunOk, HasRoom, all
<1>13. Body(f, s, m) /\ Ahead(f, s)
  <2>1. Body(f, r, m) /\ Ahead(f, r)
    BY DEF Streamable
  <2>2. Ahead(f, s)
    BY <1>1, <2>1 DEF Ahead, AheadOf, SameRun
  <2> QED BY <1>1, <1>11, <1>12, <2>1, <2>2 DEF Body
<1> QED BY <1>1, <1>2, <1>8, <1>9, <1>10, <1>11, <1>13 DEF n, s, t, K, size, left

\* The byte loop keeps the ring, up to its next write or the record's end.
LEMMA StreamsKeep ==
  ASSUME NEW f, NEW r, NEW rs, NEW m, Streamable(f, r, rs, m),
         Streams(r, rs.left, rs.dw, rs.staged)
  PROVE  /\ Body(f, ram', m) /\ CaptureOk(f, ram', at', rest', m)
         /\ SameRun(r, ram') /\ Ahead(f, ram') /\ Onward(f, r, f, ram', Len(m))
<1> DEFINE left == rs.left
           n == Len(m)
           s == Staged(r, left)
           t == Taken(r, left)
           K == HeadRecords(r)
           size == HeadSize(r)
<1>0. /\ left \in Seq(Byte) /\ r \in Views /\ Run(f, r) /\ r.live # <<>> /\ ~r.full
      /\ rs.dw \in 0..PayloadDw /\ rs.staged \in 0..DwData
  BY DEF Streamable, Streaming, Body, RunOk, Rests
<1>1. /\ t \in Nat /\ t <= Len(left)
      /\ Remaining(r, left) \in Seq(Byte) /\ Len(Remaining(r, left)) = Len(left) - t
      /\ \A k \in 1..(Len(left) - t) : Remaining(r, left)[k] = left[t + k]
  BY <1>0, StagedIs DEF Streamable
<1>2. /\ s \in Views /\ SameRun(r, s) /\ s.abs = r.abs /\ s.dw = r.dw /\ s.full = r.full
      /\ Body(f, s, m) /\ Ahead(f, s) /\ UnderWay(f, s, n)
      /\ K \in Nat /\ K < PerPage(r.layout)
      /\ HeadRecords(s) = K /\ HeadSize(s) = size /\ Start(s) = Start(r)
      /\ Pos(s) = Pos(r) + t /\ Start(r) \in Nat /\ Len(s.stage) <= DwData
      /\ (Len(s.stage) # DwData => Pos(s) = Start(r) + size)
  BY StagedKeeps
<1>3. /\ Pos(r) + Len(left) = Start(r) + size /\ Len(left) <= size /\ Len(left) \in Nat
      /\ size \in Nat \ {0} /\ Pos(r) \in Nat
      /\ \A k \in 1..Len(left) : left[k] = <<n, size - Len(left) + k>>
      /\ (rs.dw * DwData) + rs.staged = Start(r)
  BY <1>0, ViewIs, LenProperties DEF Streamable, Streaming
<1>4. Streams(r, left, rs.dw, rs.staged)
  OBVIOUS
<1>5. /\ m \in Takes /\ m # <<>> /\ m[n].layout = r.layout /\ m[n].interval = r.interval
  BY DEF Streamable
<1> HIDE DEF left, n, s, t, K, size
<1>8. NewOnly(f, r, f, s, n)
  <2>1. Adds(f, r, s, n)
    BY <1>0, <1>2, StagedHolds DEF Streamable, s, n, K, left
  <2> QED BY <2>1 DEF Adds, NewOnly, SameHeader
<1>9. ASSUME NEW v \in Views, v.live = s.live, v.stage = s.stage, v.dw = s.dw, s.abs <= v.abs,
             SameRun(r, v)
      PROVE  Onward(f, r, f, v, n)
  <2>1. HoldNoMore(f, s, f, v)
    BY <1>9, UnstagedHolds
  <2>2. NewOnly(f, r, f, v, n)
    BY <1>8, <2>1 DEF HoldNoMore, NewOnly, SameHeader
  <2>3. GoesOn(f, r, f, v, n)
    BY <1>0, <1>2, <1>9, <2>2, SameRunGoesOn DEF SameRun
  <2> QED BY <1>9, <2>3 DEF Onward, SameKind, SameRun
<1>6. CASE Len(s.stage) = DwData
  <2> DEFINE e == Remaining(r, left)
             rs2 == [left |-> e, dw |-> rs.dw, staged |-> rs.staged]
  <2>1. ram' = s /\ at' = "stream" /\ rest' = rs2
    BY <1>4, <1>6 DEF Streams, s
  <2>2. rs2 \in Rests /\ rs2.left = e /\ rs2.dw = rs.dw /\ rs2.staged = rs.staged
    BY <1>0, <1>1 DEF Rests
  <2>3. Len(e) = Len(left) - t /\ \A k \in 1..Len(e) : e[k] = left[t + k]
    BY <1>1
  <2> HIDE DEF e, rs2
  <2>4. Streaming(s, rs2, n)
    <3>1. s.live # <<>> /\ ~s.full
      BY <1>0, <1>2 DEF SameRun
    <3>2. Pos(s) + Len(e) = Start(s) + size /\ Len(e) <= size
      BY <1>1, <1>2, <1>3, <2>3
    <3>3. ASSUME NEW k \in 1..Len(e) PROVE e[k] = <<n, size - Len(e) + k>>
      <4>1. t + k \in 1..Len(left) /\ size - Len(left) + (t + k) = size - Len(e) + k
        BY <1>1, <1>3, <2>3
      <4> QED BY <1>3, <2>3, <4>1
    <3> QED BY <1>2, <1>3, <2>2, <3>1, <3>2, <3>3 DEF Streaming
  <2>5. CaptureOk(f, s, "stream", rs2, m)
    <3>1. Taking(f, s, "stream", rs2, m)
      BY <1>2, <1>5, <1>6, <2>4 DEF Taking, Waiting, SameRun, n
    <3> QED BY <2>2, <3>1 DEF CaptureOk
  <2>6. Onward(f, r, f, s, n)
    BY <1>2, <1>9, ViewIs
  <2> QED BY <1>2, <2>1, <2>5, <2>6 DEF n
<1>7. CASE Len(s.stage) # DwData
  <2> DEFINE counted == [s EXCEPT !.abs = @ + 1]
             fills == HeadRecords(counted) >= PerPage(s.layout)
             v == [counted EXCEPT !.full = @ \/ fills]
  <2>1. Stored(s)
    BY <1>4, <1>7 DEF Streams, s
  <2>2. /\ ram' = v
        /\ IF fills /\ s.stage # <<>> THEN at' = "tail" /\ rest' = NoRest ELSE Done
    BY <2>1 DEF Stored
  <2>3. /\ v \in Views /\ SameRun(s, v) /\ v.abs = s.abs + 1 /\ v.dw = s.dw
        /\ v.stage = s.stage /\ (v.full <=> fills)
        /\ counted \in Views /\ SameRun(s, counted) /\ counted.abs = s.abs + 1 /\ counted.dw = s.dw
    <3>1. /\ counted \in Views /\ SameRun(s, counted) /\ counted.abs = s.abs + 1
          /\ counted.dw = s.dw /\ counted.stage = s.stage /\ counted.full = s.full
      <4>1. counted = [[s EXCEPT !.abs = @ + 1] EXCEPT !.full = s.full]
        <5> DEFINE S == Seq(Byte)
                   L == Seq([first : Nat, phys : Phys])
        <5>1. s \in [live : L, seq : Nat, abs : Nat, last : Phys,
                   dw : 0..PayloadDw, stage : S, full : BOOLEAN, layout : Layouts,
                   interval : Nat, pending : BOOLEAN]
          BY <1>2 DEF Views
        <5> HIDE DEF S, L
        <5> QED BY <5>1
      <4>2. s.full \in BOOLEAN
        BY <1>2, ViewIs
      <4> HIDE DEF counted
      <4> QED BY <1>2, <4>1, <4>2, CountedIs
    <3>2. ~s.full
      BY <1>0, <1>2
    <3> DEFINE full == counted.full \/ fills
    <3>3. v = [[s EXCEPT !.abs = @ + 1] EXCEPT !.full = full]
      OBVIOUS
    <3>4. full \in BOOLEAN /\ (full <=> fills)
      BY <3>1, <3>2
    <3> HIDE DEF v, fills, full, counted
    <3>5. /\ v \in Views /\ SameRun(s, v) /\ v.abs = s.abs + 1 /\ v.dw = s.dw
          /\ v.stage = s.stage /\ v.full = full
      BY <1>2, <3>3, <3>4, CountedIs
    <3> QED BY <3>1, <3>4, <3>5
  <2> HIDE DEF v, counted
  <2>4. s.live # <<>> /\ Run(f, s) /\ RunOk(f, s)
    BY <1>0, <1>2 DEF SameRun, Body, RunOk
  <2>5. K + 1 <= PerPage(s.layout) /\ PerPage(s.layout) \in Nat /\ s.abs \in Nat
    BY <1>2, ViewIs DEF SameRun
  <2>6. /\ v.live # <<>> /\ HeadPage(v) = HeadPage(s) /\ HeadSize(v) = size /\ HeadRecords(v) = K + 1
        /\ Run(f, v) /\ v.layout = s.layout
    <3>1. s.abs <= v.abs /\ v.abs - s.abs = 1
      BY <2>3, <2>5
    <3>2. /\ v.live # <<>> /\ HeadPage(v) = HeadPage(s) /\ HeadSize(v) = HeadSize(s)
          /\ HeadRecords(v) = HeadRecords(s) + (v.abs - s.abs) /\ Run(f, v)
      BY <1>2, <2>3, <2>4, <2>5, <3>1, SameRunIs
    <3> QED BY <1>2, <2>3, <3>1, <3>2 DEF SameRun
  <2>7. HeadRecords(counted) = K + 1
    <3>1. s.abs <= counted.abs /\ counted.abs - s.abs = 1
      BY <2>3, <2>5
    <3>2. HeadRecords(counted) = HeadRecords(s) + (counted.abs - s.abs)
      BY <1>2, <2>3, <2>4, <2>5, <3>1, SameRunIs
    <3> QED BY <1>2, <3>1, <3>2
  <2>8. HasRoom(v)
    <3>1. ~v.full => ~(HeadRecords(counted) >= PerPage(s.layout))
      BY <2>3
    <3>2. ~v.full => K + 1 < PerPage(s.layout)
      <4>1. K + 1 \in Nat /\ PerPage(s.layout) \in Nat
        BY <1>2, <2>5
      <4> QED BY <2>7, <3>1, <4>1
    <3> QED BY <2>6, <3>2 DEF HasRoom
  <2>9. Pos(v) = Pos(s) /\ Pos(s) = Start(r) + size
    BY <1>2, <1>7, <2>3, ViewIs
  <2>10. Pos(v) = Start(v)
    <3>1. Start(v) = (K + 1) * size /\ Start(r) = K * size
      BY <2>6 DEF Start, K, size
    <3>2. (K + 1) * size = (K * size) + size
      BY <1>2, <1>3, Products
    <3> QED BY <2>9, <3>1, <3>2
  <2>11. RunOk(f, v)
    BY <2>4, <2>6, <2>9 DEF RunOk
  <2>12. Placed(f, v, m) /\ Ordered(f, v)
    <3>1. v.live = s.live
      BY <2>3 DEF SameRun
    <3>2. HoldNoMore(f, s, f, v)
      BY <2>3, <3>1, UnstagedHolds
    <3> QED BY <1>2, <3>2, LessKeeps DEF Body
  <2>13. Body(f, v, m)
    BY <1>2, <2>3, <2>8, <2>11, <2>12 DEF Body
  <2>14. SameRun(r, v) /\ Ahead(f, v)
    <3>1. SameRun(r, v)
      BY <1>2, <2>3 DEF SameRun
    <3> QED BY <1>2, <2>3, <3>1 DEF Ahead, AheadOf, SameRun
  <2>15. NoRest \in Rests
    BY SizesAre DEF NoRest, Rests
  <2>16. Len(v.stage) < DwData /\ Aligned(v)
    <3>1. Len(s.stage) \in Nat
      BY <1>2, ViewIs
    <3> QED BY <1>2, <1>7, <2>3, <2>10, <3>1, SizesAre DEF Aligned
  <2>17. CaptureOk(f, v, "idle", NoRest, m)
    BY <2>15, <2>16 DEF CaptureOk, Capturing, Waiting
  <2>18. fills /\ s.stage # <<>> => CaptureOk(f, v, "tail", NoRest, m)
    BY <2>3, <2>6, <2>15, <2>16 DEF CaptureOk, Capturing, Waiting
  <2>19. Onward(f, r, f, v, n)
    <3>1. v.live = s.live /\ s.abs <= v.abs
      BY <2>3, <2>5 DEF SameRun
    <3> QED BY <1>9, <2>3, <2>14, <3>1
  <2> HIDE DEF fills
  <2> QED BY <2>2, <2>13, <2>14, <2>17, <2>18, <2>19 DEF Done, n
<1> QED BY <1>6, <1>7

\* A record's bytes.
LEMMA RecordIs ==
  ASSUME NEW n \in Nat, n <= MaxRecords, NEW l \in Layouts
  PROVE  /\ Record(n, l) \in Seq(Byte) /\ Len(Record(n, l)) = SampleSize[l]
         /\ \A k \in 1..SampleSize[l] : Record(n, l)[k] = <<n, k>>
<1>1. SampleSize[l] \in Nat
  BY SizesAre
<1> DEFINE e == Record(n, l)
           x == SampleSize[l]
<1>2. e = [j \in 1..x |-> <<n, j>>]
  BY DEF Record
<1>3. \A j \in 1..x : <<n, j>> \in Byte
  BY RingAssumption DEF Byte, Numbers
<1> HIDE DEF e, x
<1>4. e \in [1..x -> Byte]
  BY <1>2, <1>3
<1>5. x \in Nat
  BY <1>1 DEF x
<1>6. e \in Seq(Byte) /\ Len(e) = x
  <2>1. e \in Seq(Byte) /\ DOMAIN e = 1..x
    BY <1>4, <1>5, SeqDef
  <2> QED BY <1>5, <2>1, LenProperties
<1> QED BY <1>2, <1>6 DEF e, x

\* Before record Len(m) is appended: it is nowhere yet.
Appendable(f, r, rec, m) ==
  /\ m \in Takes /\ m # <<>> /\ Len(m) <= MaxRecords
  /\ m[Len(m)].layout = r.layout /\ m[Len(m)].interval = r.interval
  /\ Body(f, r, m) /\ Ahead(f, r) /\ Aligned(r) /\ Len(r.stage) < DwData
  /\ rec = Record(Len(m), r.layout) /\ Nowhere(f, r, Len(m))

LEMMA AppendsKeep ==
  ASSUME NEW f, NEW r, NEW rec, NEW m, Appendable(f, r, rec, m), Appends(r, rec)
  PROVE  /\ Body(f, ram', m) /\ CaptureOk(f, ram', at', rest', m)
         /\ SameRun(r, ram') /\ Ahead(f, ram') /\ Onward(f, r, f, ram', Len(m))
<1> DEFINE n == Len(m)
           size == HeadSize(r)
<1>1. /\ f \in FlashPages /\ r \in Views /\ RunOk(f, r) /\ HasRoom(r) /\ Body(f, r, m)
      /\ Ahead(f, r) /\ Aligned(r) /\ Len(r.stage) < DwData
      /\ m \in Takes /\ m # <<>> /\ m[n].layout = r.layout /\ m[n].interval = r.interval
      /\ rec = Record(n, r.layout) /\ Nowhere(f, r, n)
  BY DEF Appendable, Body
<1>2. rec \in Seq(Byte) /\ Len(rec) = size /\ \A k \in 1..size : rec[k] = <<n, k>>
  <2>1. n \in Nat /\ n <= MaxRecords /\ r.layout \in Layouts
    BY <1>1, ViewIs, LenProperties DEF Appendable, Takes
  <2> QED BY <1>1, <2>1, RecordIs DEF HeadSize
<1>3. size \in Nat \ {0} /\ Pos(r) \in Nat /\ Len(r.stage) \in Nat /\ DwData \in Nat
  BY <1>1, ViewIs, SizesAre
<1>4. NoRest \in Rests /\ [NoRest EXCEPT !.left = rec] \in Rests
  BY <1>2, SizesAre DEF NoRest, Rests
<1>5. SameRun(r, r) /\ Onward(f, r, f, r, n)
  BY <1>1, OnwardSame DEF SameRun
<1>6. CASE NeedsPage(r) /\ replay.held /\ ram' = r /\ Done
  <2>1. CaptureOk(f, r, "idle", NoRest, m)
    BY <1>1, <1>4 DEF CaptureOk, Capturing, Waiting
  <2> QED BY <1>1, <1>5, <1>6, <2>1 DEF Done
<1>7. CASE /\ NeedsPage(r) /\ ~replay.held /\ ram' = r
           /\ at' = IF r.live # <<>> /\ r.stage # <<>> THEN "close" ELSE "erase"
           /\ rest' = [NoRest EXCEPT !.left = rec]
  <2> DEFINE rs == [NoRest EXCEPT !.left = rec]
  <2>1. rs.left = rec
    BY DEF NoRest
  <2>2. rs \in Rests
    BY <1>4
  <2> HIDE DEF rs
  <2>3. Taking(f, r, "close", rs, m) /\ Taking(f, r, "erase", rs, m)
    BY <1>1, <2>1 DEF Taking, Waiting, n
  <2>4. CaptureOk(f, r, "erase", rs, m)
    BY <1>1, <2>2, <2>3 DEF CaptureOk, Capturing, Waiting
  <2>5. ASSUME r.live # <<>>, r.stage # <<>> PROVE CaptureOk(f, r, "close", rs, m)
    <3>1. r.full
      <4>1. ~r.full => HeadRecords(r) < PerPage(r.layout)
        BY <1>1, <2>5 DEF HasRoom
      <4>2. ~r.full => HeadRecords(r) + 1 > PerPage(r.layout)
        BY <1>7, <2>5 DEF NeedsPage
      <4>3. HeadRecords(r) \in Nat /\ PerPage(r.layout) \in Nat
        BY <1>1, <2>5, HeadIs, ViewIs DEF RunOk
      <4> QED BY <4>1, <4>2, <4>3
    <3> QED BY <1>1, <2>2, <2>3, <2>5, <3>1 DEF CaptureOk, Capturing, Waiting
  <2> QED BY <1>1, <1>5, <1>7, <2>4, <2>5 DEF rs
<1>8. CASE ~NeedsPage(r) /\ Streams(r, rec, r.dw, Len(r.stage))
  <2> DEFINE rs == [left |-> rec, dw |-> r.dw, staged |-> Len(r.stage)]
  <2>1. r.live # <<>> /\ ~r.full
    BY <1>8 DEF NeedsPage
  <2>2. rs.left = rec /\ rs.dw = r.dw /\ rs.staged = Len(r.stage)
    OBVIOUS
  <2>3. rs \in Rests
    <3>1. r.dw \in 0..PayloadDw /\ Len(r.stage) \in 0..DwData
      BY <1>1, <1>3, ViewIs
    <3> QED BY <1>2, <3>1 DEF Rests
  <2> HIDE DEF rs
  <2>4. Pos(r) = Start(r)
    BY <1>1, <2>1 DEF Aligned
  <2>5. Streaming(r, rs, n)
    <3>1. Pos(r) + Len(rs.left) = Start(r) + size /\ Len(rs.left) <= size
      BY <1>2, <1>3, <2>2, <2>4
    <3>2. ASSUME NEW k \in 1..Len(rs.left) PROVE rs.left[k] = <<n, size - Len(rs.left) + k>>
      <4>1. Len(rs.left) = size /\ k \in 1..size /\ size - size + k = k
        BY <1>2, <1>3, <2>2
      <4> QED BY <1>2, <2>2, <4>1
    <3>3. (rs.dw * DwData) + rs.staged = Start(r)
      BY <1>1, <2>2, <2>4, ViewIs
    <3> QED BY <2>1, <3>1, <3>2, <3>3 DEF Streaming
  <2>6. UnderWay(f, r, n)
    <3> SUFFICES ASSUME NEW p \in Phys, NEW d \in Nat, NEW b \in Byte, Holds(f, r, p, d, b)
                 PROVE  b[1] = n <=> AtHead(r, p, d)
      BY DEF UnderWay
    <3>1. b[1] # n
      BY <1>1 DEF Nowhere
    <3>2. p = HeadPage(r).phys => d < Pos(r)
      BY <1>1, <2>1, HeldIs
    <3> QED BY <1>3, <2>4, <3>1, <3>2 DEF AtHead
  <2>7. Streamable(f, r, rs, m)
    BY <1>1, <2>3, <2>5, <2>6 DEF Streamable
  <2> QED BY <1>8, <2>2, <2>7, StreamsKeep
<1> QED BY <1>6, <1>7, <1>8 DEF Appends

-----------------------------------------------------------------------------
(* Pages erased                                                              *)

Fits(f) == \A p \in Phys : Len(f[p].dws) <= PayloadDw
Blanked(f, g) == \A p \in Phys : g[p] = f[p] \/ g[p] = Blank

LEMMA BlankIs ==
  /\ Blank \in Page /\ ~Blank.valid /\ Blank.dws = <<>> /\ Len(Blank.dws) = 0
<1> DEFINE S == Seq([1..DwData -> Byte])
<1>1. <<>> \in S /\ Len(<<>>) = 0
  BY EmptySeq
<1>2. 1 \in Layouts
  <2>1. SampleSize \in Seq(1..(PayloadDw * DwData)) /\ SampleSize # <<>>
    BY RingAssumption
  <2>2. Len(SampleSize) \in Nat \ {0} /\ DOMAIN SampleSize = 1..Len(SampleSize)
    BY <2>1, EmptySeq, LenProperties
  <2> QED BY <2>2 DEF Layouts
<1>3. Page = [valid : BOOLEAN, seq : Nat, layout : Layouts, interval : Nat, first : Nat, dws : S]
  BY DEF Page
<1> HIDE DEF S
<1> QED BY <1>1, <1>2, <1>3 DEF Blank

LEMMA BlankedHolds ==
  ASSUME NEW f \in FlashPages, NEW g \in FlashPages, Blanked(f, g), NEW r \in Views, NEW s \in Views,
         \/ s.stage = <<>>
         \/ s = r /\ (r.live # <<>> => g[HeadPage(r).phys] = f[HeadPage(r).phys])
  PROVE  /\ HoldNoMore(f, r, g, s)
         /\ Headers(f) => Headers(g)
         /\ \A l : LayoutsUpTo(f, l) => LayoutsUpTo(g, l)
         /\ Ahead(f, r) => Ahead(g, r)
         /\ Fits(f) => Fits(g)
<1>1. \A p \in Phys : g[p].valid => g[p] = f[p]
  BY BlankIs DEF Blanked
<1>2. HoldNoMore(f, r, g, s)
  <2> SUFFICES ASSUME NEW p \in Phys, NEW d \in Nat, NEW b \in Byte, Holds(g, s, p, d, b)
               PROVE  Holds(f, r, p, d, b) /\ SameHeader(f, g, p)
    BY DEF HoldNoMore
  <2>1. CASE g[p].valid /\ InWords(g[p].dws, d, b)
    <3>1. g[p] = f[p]
      BY <1>1, <2>1
    <3> QED BY <2>1, <3>1 DEF Holds, SameHeader
  <2>2. CASE InStaged(s, p, d, b)
    <3>1. s.stage # <<>>
      <4>1. s.stage = <<>> => Len(s.stage) = 0 /\ s.dw * DwData \in Nat
        BY ViewIs
      <4> QED BY <2>2, <4>1 DEF InStaged
    <3>2. s = r /\ r.live # <<>> /\ p = HeadPage(r).phys /\ g[p] = f[p]
      BY <2>2, <3>1 DEF InStaged
    <3> QED BY <2>2, <3>2 DEF Holds, SameHeader
  <2> QED BY <2>1, <2>2 DEF Holds
<1>3. Headers(f) => Headers(g)
  BY <1>1 DEF Headers, Linked
<1>4. ASSUME NEW l PROVE LayoutsUpTo(f, l) => LayoutsUpTo(g, l)
  BY <1>1 DEF LayoutsUpTo
<1>5. Ahead(f, r) => Ahead(g, r)
  BY <1>1 DEF Ahead, AheadOf
<1>6. Fits(f) => Fits(g)
  BY BlankIs, SizesAre DEF Fits, Blanked
<1> QED BY <1>2, <1>3, <1>4, <1>5, <1>6

\* The page after the head is erased: at most the oldest of the run.
LEMMA EraseKeeps ==
  ASSUME NEW f, NEW r, NEW m, Body(f, r, m), NEW g \in {f, [f EXCEPT ![After(r.last)] = Blank]}
  PROVE  /\ Body(g, r, m) /\ HoldNoMore(f, r, g, r)
         /\ \A l : LayoutsUpTo(f, l) => LayoutsUpTo(g, l)
         /\ Ahead(f, r) => Ahead(g, r)
<1> DEFINE next == After(r.last)
<1>1. /\ f \in FlashPages /\ r \in Views /\ Fits(f) /\ Headers(f) /\ RunOk(f, r) /\ HasRoom(r)
      /\ Placed(f, r, m) /\ Ordered(f, r)
  BY DEF Body, Fits
<1>2. next \in Phys /\ next # r.last
  BY <1>1, ViewIs, AfterIs
<1>3. /\ g \in FlashPages /\ Blanked(f, g) /\ (\A p \in Phys : p # next => g[p] = f[p])
      /\ (g[next] = f[next] \/ g[next] = Blank)
  <2>1. f \in [Phys -> Page] /\ Blank \in Page
    BY <1>1, BlankIs DEF FlashPages
  <2> HIDE DEF next
  <2>2. g = f \/ g = [f EXCEPT ![next] = Blank]
    BY DEF next
  <2>3. g \in [Phys -> Page]
    BY <1>2, <2>1, <2>2
  <2>4. (\A p \in Phys : p # next => g[p] = f[p]) /\ (g[next] = f[next] \/ g[next] = Blank)
    BY <1>2, <2>1, <2>2
  <2> QED BY <2>3, <2>4 DEF FlashPages, Blanked
<1> HIDE DEF next
<1>4. r.live # <<>> => HeadPage(r).phys = r.last /\ Run(f, r)
  BY <1>1 DEF RunOk, Run
<1>5. r.live # <<>> => g[HeadPage(r).phys] = f[HeadPage(r).phys]
  BY <1>1, <1>2, <1>3, <1>4, ViewIs
<1>6. /\ HoldNoMore(f, r, g, r) /\ Headers(g) /\ Fits(g)
      /\ \A l : LayoutsUpTo(f, l) => LayoutsUpTo(g, l)
      /\ Ahead(f, r) => Ahead(g, r)
  BY <1>1, <1>3, <1>5, BlankedHolds
<1>7. Placed(g, r, m) /\ Ordered(g, r)
  BY <1>1, <1>6, LessKeeps
<1>8. ASSUME r.live # <<>> PROVE Run(g, r)
  <2>1. ASSUME NEW i \in 1..Len(r.live) PROVE Chained(g, r, i)
    <3>1. Chained(f, r, i) /\ r.live[i].phys \in Phys /\ Len(r.live) <= NPages /\ Len(r.live) \in Nat
      BY <1>1, <1>4, <1>8, ViewIs DEF Run
    <3>2. CASE r.live[i].phys # next
      <4>1. g[r.live[i].phys] = f[r.live[i].phys]
        BY <1>3, <3>1, <3>2
      <4>2. LivePage(f, r, i) => LivePage(g, r, i)
        BY <4>1 DEF LivePage
      <4>3. Erasing(f, r, i) => Erasing(g, r, i)
        BY <3>2 DEF Erasing, next
      <4> QED BY <3>1, <4>2, <4>3 DEF Chained
    <3>3. CASE r.live[i].phys = next
      <4>1. i = 1
        <5>1. r.live[i].phys = Behind(r.last, Len(r.live) - i) /\ r.last \in Phys
          BY <1>1, <3>1, ViewIs DEF Chained
        <5>2. Len(r.live) - i \in 0..(NPages - 1)
          BY <3>1, SizesAre
        <5>3. Len(r.live) - i = NPages - 1
          BY <3>3, <5>1, <5>2, AfterIs DEF next
        <5> QED BY <3>1, <5>3, SizesAre
      <4>2. CASE g[next] = f[next]
        <5>1. LivePage(f, r, i) => LivePage(g, r, i)
          BY <3>3, <4>2 DEF LivePage
        <5>2. Erasing(f, r, i) => Erasing(g, r, i)
          BY <3>3, <4>1, <4>2 DEF Erasing
        <5> QED BY <3>1, <5>1, <5>2 DEF Chained
      <4>3. CASE g[next] = Blank
        <5>1. Erasing(g, r, i)
          BY <3>3, <4>1, <4>3 DEF Erasing, next
        <5> QED BY <3>1, <5>1 DEF Chained
      <4> QED BY <1>3, <4>2, <4>3
    <3> QED BY <3>2, <3>3
  <2>2. g[r.last] = f[r.last]
    BY <1>4, <1>5, <1>8
  <2> QED BY <1>4, <1>8, <2>1, <2>2 DEF Run
<1>9. RunOk(g, r)
  BY <1>1, <1>8 DEF RunOk
<1> QED BY <1>1, <1>3, <1>6, <1>7, <1>9 DEF Body, Fits

-----------------------------------------------------------------------------
(* A page opened                                                             *)

\* The pages that stay live when the next one is opened.
Staying(r) == IF r.live # <<>> /\ r.live[1].phys = After(r.last) THEN Tail(r.live) ELSE r.live
Evicted(r) == IF r.live # <<>> /\ r.live[1].phys = After(r.last) THEN 1 ELSE 0

LEMMA StayingIs ==
  ASSUME NEW r \in Views
  PROVE  /\ Staying(r) \in Seq([first : Nat, phys : Phys]) /\ Evicted(r) \in {0, 1}
         /\ Len(Staying(r)) = Len(r.live) - Evicted(r) /\ Len(Staying(r)) \in Nat
         /\ \A i \in 1..Len(Staying(r)) : Staying(r)[i] = r.live[i + Evicted(r)]
<1> DEFINE L == [first : Nat, phys : Phys]
<1>1. r.live \in Seq(L) /\ Len(r.live) \in Nat
  BY ViewIs
<1> HIDE DEF L
<1>2. CASE r.live # <<>> /\ r.live[1].phys = After(r.last)
  <2>1. Staying(r) = Tail(r.live) /\ Evicted(r) = 1
    BY <1>2 DEF Staying, Evicted
  <2>2. /\ Tail(r.live) \in Seq(L) /\ Len(Tail(r.live)) = Len(r.live) - 1
        /\ \A i \in 1..Len(Tail(r.live)) : Tail(r.live)[i] = r.live[i + 1]
    BY <1>1, <1>2, HeadTailProperties
  <2>3. Len(Tail(r.live)) \in Nat
    BY <2>2, LenProperties
  <2> QED BY <2>1, <2>2, <2>3 DEF L
<1>3. CASE ~(r.live # <<>> /\ r.live[1].phys = After(r.last))
  <2>1. Staying(r) = r.live /\ Evicted(r) = 0
    BY <1>3 DEF Staying, Evicted
  <2>2. \A i \in 1..Len(r.live) : i + 0 = i
    BY <1>1
  <2> QED BY <1>1, <2>1, <2>2 DEF L
<1> QED BY <1>2, <1>3

LEMMA OpenedIs ==
  ASSUME NEW r \in Views
  PROVE  LET o == Opened(r)
             k == Len(Staying(r))
         IN /\ o \in Views /\ o.seq = r.seq + 1 /\ o.last = After(r.last) /\ o.dw = 0
            /\ o.stage = <<>> /\ ~o.full /\ o.abs = r.abs /\ o.layout = r.layout
            /\ o.interval = r.interval /\ o.pending = r.pending
            /\ Len(o.live) = k + 1 /\ o.live # <<>>
            /\ \A i \in 1..k : o.live[i] = r.live[i + Evicted(r)]
            /\ o.live[k + 1] = [first |-> r.abs, phys |-> After(r.last)]
            /\ HeadPage(o) = o.live[k + 1]
<1> DEFINE T == [first : Nat, phys : Phys]
           L == Seq(T)
           S == Seq(Byte)
           next == After(r.last)
           page == [first |-> r.abs, phys |-> next]
           old == Staying(r)
           k == Len(old)
           new == Append(old, page)
           o == Opened(r)
<1>1. old \in L /\ k \in Nat /\ \A i \in 1..k : old[i] = r.live[i + Evicted(r)]
  BY StayingIs
<1>2. next \in Phys /\ r.abs \in Nat /\ page \in T /\ r.seq + 1 \in Nat
  BY ViewIs, AfterIs
<1>3. <<>> \in S /\ 0 \in 0..PayloadDw /\ FALSE \in BOOLEAN
  BY SizesAre, EmptySeq
<1>4. o = [r EXCEPT !.live = new, !.seq = @ + 1, !.last = next, !.dw = 0, !.stage = <<>>,
                    !.full = FALSE]
  BY DEF Opened, Staying
<1>5. Views = [live : L, seq : Nat, abs : Nat, last : Phys,
               dw : 0..PayloadDw, stage : S, full : BOOLEAN, layout : Layouts,
               interval : Nat, pending : BOOLEAN]
  BY DEF Views
<1> HIDE DEF T, next, page, old, k, o
<1>6. /\ new \in L /\ Len(new) = k + 1 /\ new[k + 1] = page /\ \A i \in 1..k : new[i] = old[i]
  BY <1>1, <1>2, AppendProperties DEF k
<1>7. new # <<>>
  BY <1>1, <1>6, EmptySeq
<1> HIDE DEF L, S, new
<1>8. /\ o \in Views /\ o.seq = r.seq + 1 /\ o.last = next /\ o.dw = 0
      /\ o.stage = <<>> /\ ~o.full /\ o.abs = r.abs /\ o.layout = r.layout
      /\ o.interval = r.interval /\ o.pending = r.pending /\ o.live = new
  BY <1>2, <1>3, <1>4, <1>5, <1>6
<1>9. HeadPage(o) = o.live[k + 1]
  BY <1>6, <1>8 DEF HeadPage
<1> QED BY <1>1, <1>6, <1>7, <1>8, <1>9 DEF o, k, old, page, next

\* The header is written and the page opened.
Header(r) ==
  [valid |-> TRUE, seq |-> r.seq, layout |-> r.layout, interval |-> r.interval,
   first |-> r.abs, dws |-> <<>>]

LEMMA HeaderIs ==
  ASSUME NEW f \in FlashPages, NEW r \in Views
  PROVE  LET next == After(r.last)
             g == [f EXCEPT ![next] = Header(r)]
         IN /\ g \in FlashPages /\ next \in Phys
            /\ \A p \in Phys : p # next => g[p] = f[p]
            /\ g[next].valid /\ g[next].seq = r.seq /\ g[next].layout = r.layout
            /\ g[next].interval = r.interval /\ g[next].first = r.abs
            /\ g[next].dws = <<>> /\ Len(g[next].dws) = 0
            /\ Fits(f) => Fits(g)
<1> DEFINE next == After(r.last)
           x == Header(r)
           g == [f EXCEPT ![next] = x]
           S == Seq([1..DwData -> Byte])
<1>1. next \in Phys
  BY ViewIs, AfterIs
<1>2. <<>> \in S /\ Len(<<>>) = 0
  BY EmptySeq
<1>3. f \in [Phys -> Page] /\ Page = [valid : BOOLEAN, seq : Nat, layout : Layouts, interval : Nat,
                                      first : Nat, dws : S]
  BY DEF FlashPages, Page
<1> HIDE DEF S
<1>4. /\ x \in Page /\ x.valid /\ x.seq = r.seq /\ x.layout = r.layout
      /\ x.interval = r.interval /\ x.first = r.abs /\ x.dws = <<>> /\ Len(x.dws) = 0
  BY <1>2, <1>3, ViewIs DEF Header
<1> HIDE DEF next, x
<1>5. g \in [Phys -> Page] /\ g[next] = x /\ \A p \in Phys : p # next => g[p] = f[p]
  BY <1>1, <1>3, <1>4
<1> HIDE DEF g
<1>6. Fits(f) => Fits(g)
  BY <1>4, <1>5, SizesAre DEF Fits
<1> QED BY <1>1, <1>4, <1>5, <1>6 DEF FlashPages, next, x, g

\* The headers link: the new page follows the newest, or no other.
LEMMA HeaderLinks ==
  ASSUME NEW f, NEW r, NEW m, Body(f, r, m), Ahead(f, r), NEW g \in FlashPages,
         \A p \in Phys : p # After(r.last) => g[p] = f[p],
         g[After(r.last)].seq = r.seq, g[After(r.last)].layout = r.layout,
         g[After(r.last)].interval = r.interval, g[After(r.last)].first = r.abs
  PROVE  Headers(g)
<1> DEFINE next == After(r.last)
<1>1. f \in FlashPages /\ r \in Views /\ Headers(f) /\ RunOk(f, r) /\ next \in Phys
  BY ViewIs, AfterIs DEF Body
<1>2. /\ r.seq \in Nat /\ r.abs \in Nat /\ r.layout \in Layouts
      /\ g[next].seq = r.seq /\ g[next].layout = r.layout
      /\ g[next].interval = r.interval /\ g[next].first = r.abs
  BY <1>1, ViewIs
<1> HIDE DEF next
<1> SUFFICES ASSUME NEW p \in Phys, NEW q \in Phys, g[p].valid, g[q].valid PROVE Linked(g, p, q)
  BY DEF Headers
<1>3. ASSUME NEW x \in Phys, x # next, g[x].valid
      PROVE  /\ g[x] = f[x] /\ f[x].valid /\ f[x].seq \in Nat /\ f[x].seq < r.seq
             /\ f[x].layout <= r.layout
             /\ r.seq = f[x].seq + 1 => r.live # <<>> /\ x = r.last
  <2>1. g[x] = f[x]
    BY <1>3 DEF next
  <2>2. AheadOf(f, r, x) /\ f[x].seq \in Nat
    BY <1>1, <1>3, <2>1, FlashIs DEF Ahead
  <2> QED BY <1>2, <1>3, <2>1, <2>2 DEF AheadOf
<1>4. CASE p # next /\ q # next
  <2>1. g[p] = f[p] /\ g[q] = f[q]
    BY <1>3, <1>4
  <2>2. Linked(f, p, q)
    BY <1>1, <2>1 DEF Headers
  <2> QED BY <2>1, <2>2 DEF Linked
<1>5. CASE p = next /\ q = next
  <2>1. ~(g[next].seq < g[next].seq) /\ g[next].seq # g[next].seq + 1
    BY <1>2
  <2> QED BY <1>5, <2>1 DEF Linked
<1>6. CASE p = next /\ q # next
  <2>1. /\ g[q].seq \in Nat /\ g[q].seq < r.seq
    BY <1>3, <1>6
  <2>2. g[p].seq # g[q].seq /\ ~(g[p].seq < g[q].seq) /\ g[q].seq # g[p].seq + 1
    BY <1>2, <1>6, <2>1
  <2> QED BY <2>2 DEF Linked
<1>7. CASE p # next /\ q = next
  <2>1. /\ g[p] = f[p] /\ f[p].seq \in Nat /\ f[p].seq < r.seq /\ f[p].layout <= r.layout
        /\ r.seq = f[p].seq + 1 => r.live # <<>> /\ p = r.last
    BY <1>3, <1>7
  <2>2. g[p].seq # g[q].seq /\ g[p].layout <= g[q].layout
    BY <1>2, <1>7, <2>1
  <2>3. ASSUME g[q].seq = g[p].seq + 1
        PROVE  g[p].first <= g[q].first /\ g[q].first <= g[p].first + PerPage(g[p].layout)
    <3>1. r.live # <<>> /\ p = r.last
      BY <1>2, <1>7, <2>1, <2>3
    <3>2. Run(f, r) /\ f[p].first = HeadPage(r).first /\ f[p].layout = r.layout
      BY <1>1, <3>1, HeadIs DEF RunOk
    <3>3. HeadPage(r).first <= r.abs /\ r.abs <= HeadPage(r).first + PerPage(r.layout)
      BY <3>2 DEF Run
    <3> QED BY <1>2, <1>7, <2>1, <3>2, <3>3
  <2> QED BY <2>2, <2>3 DEF Linked
<1> QED BY <1>4, <1>5, <1>6, <1>7

\* The run goes on with the new page.
LEMMA OpenedRun ==
  ASSUME NEW f, NEW r, NEW m, Body(f, r, m), NEW g \in FlashPages,
         \A p \in Phys : p # After(r.last) => g[p] = f[p],
         g[After(r.last)].valid, g[After(r.last)].seq = r.seq, g[After(r.last)].layout = r.layout,
         g[After(r.last)].interval = r.interval, g[After(r.last)].first = r.abs,
         Len(g[After(r.last)].dws) = 0
  PROVE  Run(g, Opened(r))
<1> DEFINE next == After(r.last)
           o == Opened(r)
           e == Evicted(r)
           n == Len(r.live)
           k == Len(Staying(r))
<1>1. f \in FlashPages /\ r \in Views /\ RunOk(f, r) /\ next \in Phys /\ r.last \in Phys
  BY ViewIs, AfterIs DEF Body
<1>2. /\ o \in Views /\ o.seq = r.seq + 1 /\ o.last = next /\ o.dw = 0
      /\ o.abs = r.abs /\ o.layout = r.layout /\ o.interval = r.interval
      /\ Len(o.live) = k + 1 /\ o.live # <<>>
      /\ \A i \in 1..k : o.live[i] = r.live[i + e]
      /\ o.live[k + 1] = [first |-> r.abs, phys |-> next]
      /\ HeadPage(o) = o.live[k + 1]
  BY <1>1, OpenedIs
<1>3. /\ g[next].valid /\ g[next].seq = r.seq /\ g[next].layout = r.layout
      /\ g[next].interval = r.interval /\ g[next].first = r.abs /\ Len(g[next].dws) = 0
      /\ \A p \in Phys : p # next => g[p] = f[p]
  OBVIOUS
<1>4. /\ e \in {0, 1} /\ k = n - e /\ k \in Nat /\ n \in Nat
      /\ (n = 0 <=> r.live = <<>>) /\ r.seq \in Nat /\ r.abs \in Nat
      /\ \A i \in 1..n : r.live[i].first \in Nat /\ r.live[i].phys \in Phys
  BY <1>1, StayingIs, ViewIs
<1>5. n # 0 => /\ Run(f, r) /\ n <= NPages /\ \A i \in 1..n : Chained(f, r, i)
  BY <1>1, <1>4 DEF RunOk, Run
<1>6. e = 1 <=> n # 0 /\ r.live[1].phys = next
  BY <1>4 DEF Evicted
<1> HIDE DEF next, o, e, n, k
<1>7. k <= NPages - 1
  <2>1. CASE n = NPages
    <3>1. r.live[1].phys = Behind(r.last, n - 1)
      BY <1>4, <1>5, <2>1, SizesAre DEF Chained, n
    <3>2. r.live[1].phys = next
      BY <1>1, <2>1, <3>1, AfterIs DEF next
    <3> QED BY <1>4, <1>6, <2>1, <3>2, SizesAre
  <2>2. CASE n # NPages
    BY <1>4, <1>5, <2>2, SizesAre
  <2> QED BY <2>1, <2>2
\* The pages that stay.
<1>8. ASSUME NEW i \in 1..k PROVE Chained(g, o, i)
  <2> DEFINE j == i + e
  <2>1. j \in 1..n /\ n - j = k - i /\ k - i \in 0..(NPages - 2) /\ (j = 1 => e = 0) /\ n # 0 /\ j \in Nat
    BY <1>4, <1>7, SizesAre
  <2>2. o.live[i] = r.live[j]
    BY <1>2
  <2> HIDE DEF j
  <2>3. Chained(f, r, j)
    BY <1>5, <2>1
  <2>4. r.live[j].phys = Behind(r.last, k - i)
    BY <2>1, <2>3 DEF Chained, n
  <2>5. Behind(next, (k - i) + 1) = Behind(r.last, k - i) /\ r.live[j].phys # next
    <3>1. Behind(next, (k - i) + 1) = Behind(r.last, k - i)
      BY <1>1, <2>1, AfterIs DEF next
    <3>2. k - i # NPages - 1 /\ k - i \in 0..(NPages - 1)
      BY <2>1, SizesAre
    <3> QED BY <1>1, <2>4, <3>1, <3>2, AfterIs DEF next
  <2>6. ~Erasing(f, r, j)
    BY <2>5 DEF Erasing, next
  <2>7. LivePage(f, r, j)
    BY <2>3, <2>6 DEF Chained
  <2>8. g[r.live[j].phys] = f[r.live[j].phys]
    BY <1>3, <1>4, <2>1, <2>5
  <2>9. LivePage(g, o, i)
    <3>1. f[r.live[j].phys].seq = r.seq - 1 - (n - j)
      BY <2>7 DEF LivePage, n
    <3>2. r.seq - 1 - (n - j) = o.seq - 1 - ((k + 1) - i)
      <4>1. o.seq = r.seq + 1 /\ r.seq \in Nat /\ k \in Nat /\ i \in Nat /\ n - j = k - i
        BY <1>2, <1>4, <2>1
      <4> DEFINE x == r.seq
                 z == o.seq
                 y == n - j
      <4>2. z = x + 1 /\ x \in Nat /\ y = k - i
        BY <4>1
      <4> HIDE DEF x, y, z
      <4>3. x - 1 - y = z - 1 - ((k + 1) - i)
        BY <4>1, <4>2
      <4> QED BY <4>3 DEF x, y, z
    <3> QED BY <1>2, <2>2, <2>7, <2>8, <3>1, <3>2 DEF LivePage
  <2>10. o.live[i].phys = Behind(o.last, Len(o.live) - i)
    <3>1. (k + 1) - i = (k - i) + 1
      BY <1>4
    <3> QED BY <1>2, <2>2, <2>4, <2>5, <3>1
  <2>11. o.live[i].first <= o.live[i + 1].first /\ o.live[i + 1].first <= o.live[i].first + PerPage(o.layout)
    <3>1. CASE i < k
      <4>1. i + 1 \in 1..k /\ j < n /\ (i + 1) + e = j + 1
        BY <1>4, <2>1, <3>1 DEF j
      <4>2. o.live[i + 1] = r.live[j + 1]
        BY <1>2, <4>1
      <4> QED BY <1>2, <2>2, <2>3, <4>1, <4>2 DEF Chained, n
    <3>2. CASE i = k
      <4>1. j = n /\ o.live[i + 1].first = r.abs
        BY <1>2, <1>4, <3>2 DEF j
      <4>2. HeadPage(r).first <= r.abs /\ r.abs <= HeadPage(r).first + PerPage(r.layout)
        BY <1>5, <2>1 DEF Run
      <4>3. HeadPage(r) = r.live[j]
        BY <4>1 DEF HeadPage, n
      <4> QED BY <1>2, <2>2, <4>1, <4>2, <4>3
    <3>3. i < k \/ i = k
      BY <1>4
    <3> QED BY <3>1, <3>2, <3>3
  <2> QED BY <2>9, <2>10, <2>11 DEF Chained
\* The new one.
<1>9. Chained(g, o, k + 1)
  <2>1. Behind(next, 0) = next /\ (k + 1) - (k + 1) = 0
    <3>1. next \in Phys /\ 0 \in 0..(NPages - 1)
      BY <1>1, SizesAre
    <3> QED BY <1>4, <3>1, BehindIs
  <2>2. o.live[k + 1].phys = next /\ o.live[k + 1].first = r.abs
    BY <1>2
  <2>3. r.seq = o.seq - 1 - ((k + 1) - (k + 1))
    BY <1>2, <1>4
  <2>4. LivePage(g, o, k + 1)
    BY <1>2, <1>3, <2>2, <2>3 DEF LivePage
  <2>5. ~(k + 1 < Len(o.live))
    BY <1>2, <1>4
  <2> QED BY <1>2, <2>1, <2>2, <2>4, <2>5 DEF Chained
<1>10. \A i \in 1..Len(o.live) : Chained(g, o, i)
  <2> TAKE i \in 1..Len(o.live)
  <2>1. i \in 1..k \/ i = k + 1
    BY <1>2, <1>4
  <2> QED BY <1>8, <1>9, <2>1
<1>11. /\ HeadPage(o).first <= o.abs /\ o.abs <= HeadPage(o).first + PerPage(o.layout)
       /\ o.last = HeadPage(o).phys /\ o.dw = Len(g[o.last].dws) /\ Len(o.live) <= NPages
  <2>1. HeadPage(o).first = r.abs /\ HeadPage(o).phys = next
    BY <1>2
  <2>2. PerPage(o.layout) \in Nat
    BY <1>2, ViewIs
  <2> QED BY <1>2, <1>3, <1>4, <1>7, <2>1, <2>2, SizesAre
<1> QED BY <1>10, <1>11 DEF Run, o

LEMMA NothingStaged ==
  ASSUME NEW s \in Views, s.stage = <<>>, NEW p, NEW d \in Nat, NEW b
  PROVE  ~InStaged(s, p, d, b)
<1>1. Len(s.stage) = 0 /\ s.dw * DwData \in Nat
  BY ViewIs
<1> QED BY <1>1 DEF InStaged

\* The record goes to the page that was opened for it.
LEMMA HeaderKeeps ==
  ASSUME NEW f, NEW r, NEW rec, NEW m, Appendable(f, r, rec, m), NEW l, LayoutsUpTo(f, l), r.layout <= l,
         NEW rs, rs.left = rec, rs.dw = 0, rs.staged = 0, rs \in Rests
  PROVE  LET g == [f EXCEPT ![After(r.last)] = Header(r)]
         IN /\ Streamable(g, Opened(r), rs, m) /\ LayoutsUpTo(g, l)
            /\ HoldNoMore(f, r, g, Opened(r))
<1> DEFINE next == After(r.last)
           g == [f EXCEPT ![next] = Header(r)]
           o == Opened(r)
           n == Len(m)
           size == HeadSize(r)
<1>1. /\ f \in FlashPages /\ r \in Views /\ Body(f, r, m) /\ Ahead(f, r) /\ Fits(f)
      /\ m \in Takes /\ m # <<>> /\ n <= MaxRecords
      /\ m[n].layout = r.layout /\ m[n].interval = r.interval
      /\ rec = Record(n, r.layout) /\ Nowhere(f, r, n) /\ Placed(f, r, m) /\ Ordered(f, r)
  BY DEF Appendable, Body, Fits
<1>2. /\ g \in FlashPages /\ next \in Phys
      /\ \A p \in Phys : p # next => g[p] = f[p]
      /\ g[next].valid /\ g[next].seq = r.seq /\ g[next].layout = r.layout
      /\ g[next].interval = r.interval /\ g[next].first = r.abs
      /\ g[next].dws = <<>> /\ Len(g[next].dws) = 0
      /\ Fits(g)
  BY <1>1, HeaderIs
<1>3. /\ o \in Views /\ o.seq = r.seq + 1 /\ o.last = next /\ o.dw = 0
      /\ o.stage = <<>> /\ ~o.full /\ o.abs = r.abs /\ o.layout = r.layout
      /\ o.interval = r.interval /\ o.live # <<>>
      /\ HeadPage(o) = [first |-> r.abs, phys |-> next]
  BY <1>1, OpenedIs
<1>4. Headers(g)
  BY <1>1, <1>2, HeaderLinks DEF next
<1>5. Run(g, o)
  BY <1>1, <1>2, OpenedRun DEF next
<1> HIDE DEF g, next, o
<1>6. Len(o.stage) = 0 /\ Pos(o) = 0 /\ HeadRecords(o) = 0 /\ Start(o) = 0 /\ HeadSize(o) = size
      /\ size \in Nat \ {0}
  <2>1. Len(o.stage) = 0 /\ o.dw * DwData = 0 /\ DwData \in Nat
    BY <1>3, ViewIs, SizesAre
  <2>2. Pos(o) = 0
    BY <1>3, <2>1, ViewIs
  <2>3. HeadSize(o) = size /\ size \in Nat \ {0}
    BY <1>1, <1>3, ViewIs DEF HeadSize
  <2>4. HeadRecords(o) = r.abs - r.abs /\ r.abs \in Nat
    BY <1>1, <1>3, ViewIs DEF HeadRecords
  <2>5. HeadRecords(o) = 0
    BY <2>4
  <2>6. Start(o) = 0
    BY <2>3, <2>5 DEF Start
  <2> QED BY <2>1, <2>2, <2>3, <2>5, <2>6
<1>7. RunOk(g, o) /\ HasRoom(o)
  <2>1. PerPage(o.layout) \in Nat \ {0} /\ PayloadDw * DwData \in Nat
    BY <1>3, ViewIs, SizesAre
  <2> QED BY <1>3, <1>5, <1>6, <2>1 DEF RunOk, HasRoom
<1>8. \A p \in Phys, d \in Nat, b \in Byte : Holds(g, o, p, d, b) => p # next
  <2> SUFFICES ASSUME NEW p \in Phys, NEW d \in Nat, NEW b \in Byte, Holds(g, o, p, d, b), p = next
               PROVE  FALSE
    OBVIOUS
  <2>1. ~InStaged(o, p, d, b)
    BY <1>3, NothingStaged
  <2>2. d < Len(g[next].dws) * DwData
    BY <2>1 DEF Holds, InWords
  <2>3. Len(g[next].dws) * DwData = 0
    BY <1>2, SizesAre
  <2> QED BY <2>2, <2>3
<1>9. HoldNoMore(f, r, g, o)
  <2> SUFFICES ASSUME NEW p \in Phys, NEW d \in Nat, NEW b \in Byte, Holds(g, o, p, d, b)
               PROVE  Holds(f, r, p, d, b) /\ SameHeader(f, g, p)
    BY DEF HoldNoMore
  <2>1. g[p] = f[p]
    BY <1>2, <1>8
  <2>2. ~InStaged(o, p, d, b)
    BY <1>3, NothingStaged
  <2> QED BY <2>1, <2>2 DEF Holds, SameHeader
<1>10. Placed(g, o, m) /\ Ordered(g, o) /\ Nowhere(g, o, n)
  BY <1>1, <1>9, LessKeeps
<1>11. Body(g, o, m)
  BY <1>2, <1>3, <1>4, <1>7, <1>10 DEF Body, Fits
<1>12. Ahead(g, o)
  <2> SUFFICES ASSUME NEW p \in Phys, g[p].valid PROVE AheadOf(g, o, p)
    BY DEF Ahead
  <2>1. r.seq \in Nat /\ r.layout \in Nat
    BY <1>1, ViewIs, SizesAre
  <2>2. CASE p = next
    <3>1. g[p].seq < o.seq /\ g[p].layout <= o.layout
      BY <1>2, <1>3, <2>1, <2>2
    <3> QED BY <1>3, <2>2, <3>1 DEF AheadOf
  <2>3. CASE p # next
    <3>1. g[p] = f[p] /\ AheadOf(f, r, p) /\ f[p].seq \in Nat
      BY <1>1, <1>2, <2>3, FlashIs DEF Ahead
    <3>2. f[p].seq < r.seq /\ f[p].layout <= r.layout
      BY <3>1 DEF AheadOf
    <3>3. g[p].seq < o.seq /\ g[p].layout <= o.layout /\ g[p].seq # o.seq - 1
      BY <1>3, <2>1, <3>1, <3>2
    <3> QED BY <3>3 DEF AheadOf
  <2> QED BY <2>2, <2>3
<1>13. rec \in Seq(Byte) /\ Len(rec) = size /\ \A k \in 1..size : rec[k] = <<n, k>>
  <2>1. n \in Nat /\ r.layout \in Layouts
    BY <1>1, ViewIs, LenProperties DEF Takes
  <2> QED BY <1>1, <2>1, RecordIs DEF HeadSize
<1>14. Streaming(o, rs, n)
  <2>1. Pos(o) + Len(rs.left) = Start(o) + size /\ Len(rs.left) <= size
    BY <1>6, <1>13
  <2>2. ASSUME NEW k \in 1..Len(rs.left) PROVE rs.left[k] = <<n, size - Len(rs.left) + k>>
    <3>1. Len(rs.left) = size /\ k \in 1..size /\ size - size + k = k
      BY <1>6, <1>13
    <3> QED BY <1>13, <3>1
  <2>3. (rs.dw * DwData) + rs.staged = Start(o)
    BY <1>6, SizesAre
  <2> QED BY <1>3, <1>6, <2>1, <2>2, <2>3 DEF Streaming
<1>15. UnderWay(g, o, n)
  <2> SUFFICES ASSUME NEW p \in Phys, NEW d \in Nat, NEW b \in Byte, Holds(g, o, p, d, b)
               PROVE  b[1] # n /\ ~AtHead(o, p, d)
    BY DEF UnderWay
  <2>1. b[1] # n
    BY <1>10 DEF Nowhere
  <2>2. p # next
    BY <1>8
  <2> QED BY <1>3, <2>1, <2>2 DEF AtHead
<1>16. LayoutsUpTo(g, l)
  BY <1>2 DEF LayoutsUpTo
<1>17. Streamable(g, o, rs, m)
  <2>1. Len(o.stage) < DwData
    BY <1>6, SizesAre
  <2> QED BY <1>1, <1>3, <1>11, <1>12, <1>14, <1>15, <2>1 DEF Streamable
<1> QED BY <1>9, <1>16, <1>17 DEF g, o, next

\* The ordinals go on in the page that was opened.
LEMMA OpenedGoesOn ==
  ASSUME NEW f, NEW r, NEW m, Body(f, r, m), NEW n, NEW g,
         g = [f EXCEPT ![After(r.last)] = Header(r)], HoldNoMore(f, r, g, Opened(r))
  PROVE  Onward(f, r, g, Opened(r), n)
<1> DEFINE o == Opened(r)
           next == After(r.last)
           k == Len(Staying(r))
           e == Evicted(r)
<1>1. f \in FlashPages /\ r \in Views /\ RunOk(f, r)
  BY DEF Body
<1>2. /\ o \in Views /\ o.stage = <<>> /\ o.abs = r.abs /\ o.layout = r.layout
      /\ o.interval = r.interval /\ Len(o.live) = k + 1 /\ o.live # <<>>
      /\ \A i \in 1..k : o.live[i] = r.live[i + e]
      /\ o.live[k + 1] = [first |-> r.abs, phys |-> next]
  BY <1>1, OpenedIs
<1>3. e \in {0, 1} /\ k = Len(r.live) - e /\ k \in Nat
  BY <1>1, StayingIs
<1>4. next \in Phys /\ g[next].dws = <<>> /\ Len(g[next].dws) * DwData = 0
  BY <1>1, HeaderIs, SizesAre
<1>5. /\ FirstAbs(r) \in Nat /\ r.abs \in Nat /\ FirstAbs(r) <= r.abs
      /\ \A i \in 1..Len(r.live) : FirstAbs(r) <= r.live[i].first
      /\ Len(r.live) \in Nat
  BY <1>1, FirstAbsIs, ViewIs
<1> HIDE DEF o, next, k, e
<1>6. FirstAbs(r) <= FirstAbs(o) /\ r.abs <= o.abs
  <2>1. FirstAbs(o) = o.live[1].first
    BY <1>2 DEF FirstAbs
  <2>2. CASE k = 0
    BY <1>2, <1>3, <1>5, <2>1, <2>2
  <2>3. CASE k # 0
    <3>1. 1 \in 1..k /\ 1 + e \in 1..Len(r.live)
      BY <1>3, <1>5, <2>3
    <3> QED BY <1>2, <1>5, <2>1, <3>1
  <2> QED BY <2>2, <2>3
<1>7. ASSUME NEW c \in Nat, NEW x \in Nat, Newer(f, r, c, x) PROVE Newer(g, o, c, x)
  <2> SUFFICES ASSUME NEW i \in 1..(k + 1), NEW d \in Nat, NEW b \in Byte,
                      Holds(g, o, o.live[i].phys, d, b),
                      c <= o.live[i].first + SlotOf(g, o.live[i].phys, d),
                      i < k + 1 =>
                        o.live[i].first + SlotOf(g, o.live[i].phys, d) < o.live[i + 1].first
               PROVE  b[1] > x
    BY <1>2 DEF Newer
  <2>1. CASE i = k + 1
    <3>1. o.live[i].phys = next
      BY <1>2, <2>1
    <3>2. ~InStaged(o, next, d, b)
      BY <1>2, NothingStaged
    <3>3. d < Len(g[next].dws) * DwData
      BY <3>1, <3>2 DEF Holds, InWords
    <3> QED BY <1>4, <3>3
  <2>2. CASE i # k + 1
    <3>1. i \in 1..k /\ i + e \in 1..Len(r.live) /\ (i + e < Len(r.live) => i + 1 \in 1..k)
          /\ (i + 1) + e = (i + e) + 1
      BY <1>3, <1>5, <2>2
    <3> DEFINE p == r.live[i + e].phys
    <3>2. o.live[i] = r.live[i + e] /\ p \in Phys /\ o.live[i].phys = p
      BY <1>1, <1>2, <3>1, ViewIs
    <3>3. Holds(f, r, p, d, b) /\ SameHeader(f, g, p)
      BY <3>2 DEF HoldNoMore, o
    <3>4. SlotOf(g, p, d) = SlotOf(f, p, d)
      BY <3>3 DEF SlotOf, SameHeader
    <3>5. i + e < Len(r.live) =>
            r.live[i + e].first + SlotOf(f, p, d) < r.live[(i + e) + 1].first
      <4> SUFFICES ASSUME i + e < Len(r.live)
                   PROVE  r.live[i + e].first + SlotOf(f, p, d) < r.live[(i + e) + 1].first
        OBVIOUS
      <4>1. i < k + 1 /\ o.live[i + 1] = r.live[(i + e) + 1]
        BY <1>2, <1>3, <3>1
      <4> QED BY <3>2, <3>4, <4>1
    <3>6. c <= r.live[i + e].first + SlotOf(f, p, d)
      BY <3>2, <3>4
    <3> QED BY <1>7, <3>1, <3>3, <3>5, <3>6 DEF Newer
  <2> QED BY <2>1, <2>2
<1> QED BY <1>2, <1>6, <1>7 DEF Onward, SameKind, GoesOn, o

-----------------------------------------------------------------------------
(* A boot, and the view a capture takes                                      *)

\* A view that can take a record of layout l.
Good(r, l) ==
  /\ Body(flash, r, made) /\ Aligned(r) /\ Len(r.stage) < DwData
  /\ Ahead(flash, r) /\ r.layout <= l

LEMMA MountKeeps ==
  ASSUME NEW r, Body(flash, r, made), NEW l \in Layouts, NEW s \in Views,
         RunOk(flash, s), Finds(l, s)
  PROVE  /\ Body(flash, s, made) /\ Aligned(s) /\ Len(s.stage) < DwData /\ HoldNoMore(flash, r, flash, s)
         /\ LayoutsUpTo(flash, l) => Good(s, l)
<1>1. s.layout = l /\ s.stage = <<>> /\ (s.live # <<>> => s.full)
  BY DEF Finds
<1>2. HoldNoMore(flash, r, flash, s)
  BY <1>1, UnstagedHolds
<1>3. Placed(flash, s, made) /\ Ordered(flash, s)
  BY <1>2, LessKeeps DEF Body
<1>4. HasRoom(s) /\ Aligned(s)
  BY <1>1 DEF HasRoom, Aligned
<1>5. Body(flash, s, made)
  BY <1>3, <1>4 DEF Body
<1>6. Len(s.stage) < DwData
  BY <1>1, ViewIs, SizesAre
<1>7. ASSUME LayoutsUpTo(flash, l) PROVE Ahead(flash, s)
  <2>1. flash \in FlashPages /\ Headers(flash)
    BY DEF Body
  <2> SUFFICES ASSUME NEW p \in Phys, flash[p].valid PROVE AheadOf(flash, s, p)
    BY DEF Ahead
  <2>2. flash[p].layout <= l /\ flash[p].seq \in Nat /\ flash[p].layout \in Nat /\ l \in Nat /\ s.seq \in Nat
    BY <1>7, <2>1, FlashIs, ViewIs, SizesAre DEF LayoutsUpTo
  <2>3. CASE s.live = <<>>
    <3>1. flash[p].seq + 1 < s.seq
      BY <2>3 DEF Finds
    <3> QED BY <1>1, <2>2, <3>1 DEF AheadOf
  <2>4. CASE s.live # <<>>
    <3>1. /\ s.last \in Matching(l) /\ s.seq = flash[s.last].seq + 1
          /\ \A q \in Matching(l) : flash[q].seq <= flash[s.last].seq
      BY <2>4 DEF Finds
    <3>2. s.last \in Phys /\ flash[s.last].valid /\ flash[s.last].layout = l /\ flash[s.last].seq \in Nat
      BY <2>1, <3>1, FlashIs DEF Matching, ValidPages
    <3>3. Linked(flash, s.last, p)
      BY <2>1, <3>2 DEF Headers
    <3>4. flash[p].seq <= flash[s.last].seq
      <4> SUFFICES ASSUME flash[s.last].seq < flash[p].seq PROVE FALSE
        BY <2>2, <3>2
      <4>1. l <= flash[p].layout
        BY <3>2, <3>3 DEF Linked
      <4>2. p \in Matching(l)
        BY <2>2, <4>1 DEF Matching, ValidPages
      <4> QED BY <2>2, <3>1, <3>2, <4>2
    <3>5. p # s.last => flash[p].seq # flash[s.last].seq
      BY <3>3 DEF Linked
    <3>6. flash[p].seq < s.seq /\ (flash[p].seq = s.seq - 1 => p = s.last)
      BY <2>2, <3>1, <3>2, <3>4, <3>5
    <3> QED BY <1>1, <2>2, <2>4, <3>6 DEF AheadOf
  <2> QED BY <2>3, <2>4
<1>8. s.layout <= l
  BY <1>1, SizesAre
<1> QED BY <1>2, <1>4, <1>5, <1>6, <1>7, <1>8 DEF Good

\* What an update of a view leaves.
LEMMA ResetIs ==
  ASSUME NEW r \in Views
  PROVE  /\ Reset(r) \in Views /\ NoRun(Reset(r)) /\ Reset(r).seq = r.seq + 1 /\ Reset(r).abs = r.abs
         /\ Reset(r).layout = r.layout /\ Reset(r).interval = r.interval
         /\ Reset(r).pending = r.pending /\ Reset(r).last = r.last
<1> DEFINE T == [first : Nat, phys : Phys]
           L == Seq(T)
           S == Seq(Byte)
<1>1. <<>> \in S /\ <<>> \in L /\ 0 \in 0..PayloadDw /\ FALSE \in BOOLEAN /\ r.seq + 1 \in Nat
  <2>1. <<>> \in S /\ <<>> \in Seq(T)
    BY EmptySeq
  <2> QED BY <2>1, SizesAre, ViewIs
<1>2. Views = [live : L, seq : Nat, abs : Nat, last : Phys,
               dw : 0..PayloadDw, stage : S, full : BOOLEAN, layout : Layouts,
               interval : Nat, pending : BOOLEAN]
  BY DEF Views
<1> HIDE DEF T, L, S
<1> QED BY <1>1, <1>2 DEF Reset, NoRun

\* The same view but for one of its parts that no page of the run depends on.
SamePages(r, s) ==
  /\ s.live = r.live /\ s.stage = r.stage /\ s.dw = r.dw /\ s.seq = r.seq /\ s.abs = r.abs
  /\ s.last = r.last /\ s.full = r.full

LEMMA LayoutSet ==
  ASSUME NEW r \in Views, NEW l \in Layouts
  PROVE  LET s == [r EXCEPT !.layout = l]
         IN /\ s \in Views /\ SamePages(r, s) /\ s.layout = l /\ s.interval = r.interval
            /\ s.pending = r.pending
<1> DEFINE L == Seq([first : Nat, phys : Phys])
           S == Seq(Byte)
<1>1. Views = [live : L, seq : Nat, abs : Nat, last : Phys,
               dw : 0..PayloadDw, stage : S, full : BOOLEAN, layout : Layouts,
               interval : Nat, pending : BOOLEAN]
  BY DEF Views
<1> HIDE DEF L, S
<1> QED BY <1>1 DEF SamePages

LEMMA IntervalSet ==
  ASSUME NEW r \in Views, NEW i \in Nat
  PROVE  LET s == [r EXCEPT !.interval = i]
         IN /\ s \in Views /\ SamePages(r, s) /\ s.interval = i /\ s.layout = r.layout
            /\ s.pending = r.pending
<1> DEFINE L == Seq([first : Nat, phys : Phys])
           S == Seq(Byte)
<1>1. Views = [live : L, seq : Nat, abs : Nat, last : Phys,
               dw : 0..PayloadDw, stage : S, full : BOOLEAN, layout : Layouts,
               interval : Nat, pending : BOOLEAN]
  BY DEF Views
<1> HIDE DEF L, S
<1> QED BY <1>1 DEF SamePages

\* The flags, which the ring does not depend on.
LEMMA FlagsAre ==
  ASSUME NEW r \in Views, NEW b \in BOOLEAN
  PROVE  /\ [r EXCEPT !.pending = b] \in Views /\ SameRun([r EXCEPT !.full = b], r)
         /\ [r EXCEPT !.full = b] \in Views
         /\ [r EXCEPT !.full = b].full = b /\ [r EXCEPT !.full = b].abs = r.abs
         /\ [r EXCEPT !.full = b].dw = r.dw /\ [r EXCEPT !.full = b].stage = r.stage
         /\ [r EXCEPT !.pending = b].pending = b /\ [r EXCEPT !.pending = b].live = r.live
         /\ [r EXCEPT !.pending = b].seq = r.seq /\ [r EXCEPT !.pending = b].last = r.last
         /\ [r EXCEPT !.pending = b].layout = r.layout
         /\ [r EXCEPT !.pending = b].interval = r.interval /\ [r EXCEPT !.pending = b].abs = r.abs
         /\ [r EXCEPT !.pending = b].dw = r.dw /\ [r EXCEPT !.pending = b].stage = r.stage
         /\ [r EXCEPT !.pending = b].full = r.full
<1> DEFINE L == Seq([first : Nat, phys : Phys])
           S == Seq(Byte)
<1>1. Views = [live : L, seq : Nat, abs : Nat, last : Phys,
               dw : 0..PayloadDw, stage : S, full : BOOLEAN, layout : Layouts,
               interval : Nat, pending : BOOLEAN]
  BY DEF Views
<1> HIDE DEF L, S
<1> QED BY <1>1 DEF SameRun

LEMMA BootedOk ==
  ASSUME flash \in FlashPages, Fits(flash), Headers(flash), NEW l \in Layouts
  PROVE  /\ Booted(l) \in Views /\ Booted(l).layout = l /\ Booted(l).pending
         /\ RunOk(flash, Booted(l)) /\ Finds(l, Booted(l))
<1> DEFINE x == [live |-> <<>>, seq |-> 0, abs |-> 0, last |-> NPages - 1, dw |-> 0,
                 stage |-> <<>>, full |-> FALSE, layout |-> l, interval |-> 0,
                 pending |-> TRUE]
           s == Mounted(l, x)
           z == [s EXCEPT !.interval = 0]
<1>1. x \in Views /\ x.pending
  <2> DEFINE T == [first : Nat, phys : Phys]
             L == Seq(T)
             S == Seq(Byte)
  <2>1. <<>> \in S /\ <<>> \in Seq(T)
    BY EmptySeq
  <2>2. 0 \in Nat /\ NPages - 1 \in Phys /\ 0 \in 0..PayloadDw
    BY SizesAre DEF Phys
  <2>3. Views = [live : L, seq : Nat, abs : Nat, last : Phys,
                 dw : 0..PayloadDw, stage : S, full : BOOLEAN, layout : Layouts,
                 interval : Nat, pending : BOOLEAN]
    BY DEF Views
  <2>4. <<>> \in L
    BY <2>1
  <2> HIDE DEF T, L, S
  <2> QED BY <2>1, <2>2, <2>3, <2>4
<1> HIDE DEF x
<1>2. s \in Views /\ s.pending /\ RunOk(flash, s) /\ Finds(l, s)
  BY <1>1, MountedOk DEF Fits
<1>3. Booted(l) = IF Restored(s) THEN s ELSE z
  BY DEF Booted, x
<1> HIDE DEF s
<1>4. /\ z \in Views /\ z.interval = 0
      /\ z.live = s.live /\ z.stage = s.stage /\ z.dw = s.dw /\ z.seq = s.seq
      /\ z.abs = s.abs /\ z.layout = s.layout
      /\ z.pending = s.pending /\ z.last = s.last /\ z.full = s.full
  BY <1>2, 0 \in Nat, IntervalSet DEF SamePages
<1> HIDE DEF z
<1>5. Finds(l, z)
  BY <1>2, <1>4 DEF Finds
<1>6. RunOk(flash, z)
  <2>1. ASSUME z.live # <<>> PROVE Run(flash, z)
    <3>1. Run(flash, s)
      BY <1>2, <1>4, <2>1 DEF RunOk
    <3>2. ASSUME NEW i \in 1..Len(s.live), Chained(flash, s, i) PROVE Chained(flash, z, i)
      BY <1>4, <3>2 DEF Chained, LivePage, Erasing
    <3> QED BY <1>4, <3>1, <3>2 DEF Run, HeadPage
  <2>2. Pos(z) = Pos(s)
    BY <1>4 DEF Pos
  <2> QED BY <1>2, <1>4, <2>1, <2>2 DEF RunOk
<1>7. s.layout = l
  BY <1>2 DEF Finds
<1> QED BY <1>2, <1>3, <1>4, <1>5, <1>6, <1>7

\* A view of no page, further on.
LEMMA ResetKeeps ==
  ASSUME NEW r, Good(r, r.layout), NEW s \in Views, NoRun(s), s.seq = r.seq + 1, r.layout <= s.layout,
         NEW l, s.layout <= l
  PROVE  Good(s, l)
<1>1. /\ r \in Views /\ flash \in FlashPages /\ Body(flash, r, made) /\ Ahead(flash, r)
  BY DEF Good, Body
<1>2. Body(flash, s, made) /\ Aligned(s)
  BY <1>1, NoRunKeeps
<1>3. Len(s.stage) < DwData
  BY ViewIs, SizesAre DEF NoRun
<1>4. Ahead(flash, s)
  <2> SUFFICES ASSUME NEW p \in Phys, flash[p].valid PROVE AheadOf(flash, s, p)
    BY DEF Ahead
  <2>1. AheadOf(flash, r, p) /\ flash[p].seq \in Nat /\ flash[p].layout \in Nat
    BY <1>1, FlashIs, SizesAre DEF Ahead
  <2>2. r.seq \in Nat /\ r.layout \in Nat /\ s.layout \in Nat
    BY <1>1, ViewIs, SizesAre
  <2>3. flash[p].seq < r.seq /\ flash[p].layout <= r.layout
    BY <2>1 DEF AheadOf
  <2>4. flash[p].seq < s.seq /\ flash[p].seq # s.seq - 1 /\ flash[p].layout <= s.layout
    BY <2>1, <2>2, <2>3
  <2> QED BY <2>4 DEF AheadOf
<1> QED BY <1>2, <1>3, <1>4 DEF Good

LEMMA RemountedOk ==
  ASSUME RingInd, at = "idle", ~ram.pending \/ ~replay.held
  PROVE  /\ Good(Remounted, sel)
         /\ ~ram.pending => Remounted = ram
<1>1. /\ Body(flash, ram, made) /\ ram \in Views /\ flash \in FlashPages /\ Fits(flash) /\ Headers(flash)
      /\ Aligned(ram) /\ Len(ram.stage) < DwData /\ ram.layout <= sel /\ LayoutsUpTo(flash, sel)
      /\ sel \in Layouts /\ ram.layout \in Layouts
      /\ (ram.pending => ram = Booted(ram.layout)) /\ (~ram.pending => Ahead(flash, ram))
  <2>1. /\ Body(flash, ram, made) /\ CaptureOk(flash, ram, at, rest, made) /\ BootOk /\ OthersOk
    BY DEF RingInd
  <2>2. ram \in Views /\ flash \in FlashPages /\ Fits(flash) /\ Headers(flash)
    BY <2>1 DEF Body, Fits
  <2>3. Aligned(ram) /\ Len(ram.stage) < DwData
    BY <2>1 DEF CaptureOk
  <2> QED BY <2>1, <2>2, <2>3, ViewIs DEF BootOk, OthersOk
<1>2. CASE ~ram.pending
  <2>1. Remounted = ram
    BY <1>2 DEF Remounted
  <2> QED BY <1>1, <1>2, <2>1 DEF Good
<1>3. CASE ram.pending /\ sel = ram.layout
  <2>1. Remounted = ram
    BY <1>3 DEF Remounted
  <2>2. RunOk(flash, ram) /\ Finds(sel, ram)
    BY <1>1, <1>3, BootedOk
  <2> QED BY <1>1, <1>3, <2>1, <2>2, MountKeeps
<1>4. CASE ram.pending /\ sel # ram.layout
  <2> DEFINE s == Mounted(sel, ram)
  <2>1. s \in Views /\ RunOk(flash, s) /\ Finds(sel, s)
    BY <1>1, MountedOk DEF Fits
  <2>2. Remounted = IF Restored(s) THEN s ELSE Reset(s)
    BY <1>4 DEF Remounted
  <2> HIDE DEF s
  <2>3. Good(s, sel) /\ s.layout = sel
    BY <1>1, <2>1, MountKeeps DEF Finds
  <2>4. Good(Reset(s), sel)
    <3>1. Reset(s) \in Views /\ NoRun(Reset(s)) /\ Reset(s).seq = s.seq + 1 /\ Reset(s).layout = s.layout
      BY <2>1, ResetIs
    <3>2. sel <= sel
      BY <1>1, SizesAre
    <3> QED BY <2>3, <3>1, <3>2, ResetKeeps
  <2> QED BY <1>4, <2>2, <2>3, <2>4
<1> QED BY <1>2, <1>3, <1>4

\* The interval, and then the layout, of the record: the run goes on or a new one starts.
LEMMA AtIntervalOk ==
  ASSUME NEW r, NEW l, Good(r, l), NEW i \in Nat
  PROVE  /\ Good(AtInterval(r, i), l) /\ AtInterval(r, i).interval = i
         /\ AtInterval(r, i).layout = r.layout
         /\ AtInterval(r, i) = r \/ (AtInterval(r, i).live = <<>> /\ AtInterval(r, i).abs = r.abs)
<1>1. r \in Views /\ r.layout \in Layouts /\ r.full \in BOOLEAN /\ r.layout <= l
  BY ViewIs DEF Good, Body
<1>2. CASE r.interval = i
  BY <1>2 DEF AtInterval
<1>3. CASE r.interval # i
  <2> DEFINE x == Reset(r)
             s == [x EXCEPT !.interval = i]
  <2>1. AtInterval(r, i) = s
    BY <1>3 DEF AtInterval
  <2>2. x \in Views /\ NoRun(x) /\ x.seq = r.seq + 1 /\ x.layout = r.layout /\ x.abs = r.abs
    BY <1>1, ResetIs
  <2> HIDE DEF x
  <2>4. /\ s \in Views /\ s.interval = i /\ s.live = x.live /\ s.stage = x.stage
        /\ s.dw = x.dw /\ s.seq = x.seq /\ s.layout = x.layout /\ s.abs = x.abs
    BY <2>2, IntervalSet DEF SamePages
  <2> HIDE DEF s
  <2>5. NoRun(s) /\ s.seq = r.seq + 1 /\ s.layout = r.layout
    BY <2>2, <2>4 DEF NoRun
  <2>6. Good(r, r.layout) /\ r.layout <= s.layout
    <3>1. r.layout \in Nat
      BY <1>1, SizesAre
    <3>2. r.layout <= r.layout
      BY <3>1
    <3> QED BY <2>5, <3>2 DEF Good
  <2>7. Good(s, l)
    BY <1>1, <2>4, <2>5, <2>6, ResetKeeps
  <2> QED BY <2>1, <2>2, <2>4, <2>5, <2>7 DEF NoRun
<1> QED BY <1>2, <1>3

LEMMA AtLayoutOk ==
  ASSUME NEW r, NEW l \in Layouts, Good(r, l)
  PROVE  /\ Good(AtLayout(r, l), l) /\ AtLayout(r, l).layout = l
         /\ AtLayout(r, l).interval = r.interval
         /\ AtLayout(r, l) = r \/ (AtLayout(r, l).live = <<>> /\ AtLayout(r, l).abs = r.abs)
<1>1. r \in Views /\ r.layout \in Layouts /\ r.full \in BOOLEAN /\ r.layout <= l /\ r.interval \in Nat
  BY ViewIs DEF Good, Body
<1>2. CASE r.layout = l
  BY <1>2 DEF AtLayout
<1>3. CASE r.layout # l
  <2> DEFINE x == Reset(r)
             s == [x EXCEPT !.layout = l]
  <2>1. AtLayout(r, l) = s
    BY <1>3 DEF AtLayout
  <2>2. /\ x \in Views /\ NoRun(x) /\ x.seq = r.seq + 1 /\ x.layout = r.layout /\ x.abs = r.abs
        /\ x.interval = r.interval
    BY <1>1, ResetIs
  <2> HIDE DEF x
  <2>4. /\ s \in Views /\ s.layout = l /\ s.live = x.live /\ s.stage = x.stage
        /\ s.dw = x.dw /\ s.seq = x.seq /\ s.interval = x.interval /\ s.abs = x.abs
    BY <2>2, LayoutSet DEF SamePages
  <2> HIDE DEF s
  <2>5. NoRun(s) /\ s.seq = r.seq + 1
    BY <2>2, <2>4 DEF NoRun
  <2>6. Good(r, r.layout) /\ r.layout <= s.layout /\ s.layout <= l
    <3>1. r.layout \in Nat /\ l \in Nat
      BY <1>1, SizesAre
    <3>2. r.layout <= r.layout /\ l <= l
      BY <3>1
    <3> QED BY <1>1, <2>4, <3>2 DEF Good
  <2>7. Good(s, l)
    BY <1>1, <2>4, <2>5, <2>6, ResetKeeps
  <2> QED BY <2>1, <2>2, <2>4, <2>5, <2>7 DEF NoRun
<1> QED BY <1>2, <1>3

\* The pending remount is dropped.
LEMMA SettledOk ==
  ASSUME NEW r, NEW l, Good(r, l)
  PROVE  LET s == [r EXCEPT !.pending = FALSE]
         IN /\ Good(s, l) /\ ~s.pending /\ s.layout = r.layout /\ s.interval = r.interval
            /\ s.live = r.live /\ s.abs = r.abs /\ s.stage = r.stage /\ s.dw = r.dw
            /\ s.full = r.full /\ s.seq = r.seq /\ s.last = r.last
            /\ HoldNoMore(flash, r, flash, s)
<1> DEFINE s == [r EXCEPT !.pending = FALSE]
<1>1. r \in Views
  BY DEF Good, Body
<1>2. /\ s \in Views /\ s.pending = FALSE /\ s.live = r.live /\ s.seq = r.seq /\ s.last = r.last
      /\ s.layout = r.layout /\ s.interval = r.interval /\ s.abs = r.abs
      /\ s.dw = r.dw /\ s.stage = r.stage /\ s.full = r.full
  BY <1>1, FlagsAre
<1> HIDE DEF s
<1>3. Body(flash, s, made) /\ HoldNoMore(flash, r, flash, s) /\ Ahead(flash, s)
  BY <1>2, SameRunKeeps DEF Good
<1>4. Aligned(s)
  BY <1>2 DEF Good, Aligned, Pos, Start, HeadRecords, HeadPage, HeadSize
<1> QED BY <1>2, <1>3, <1>4 DEF Good, s

LEMMA ReadyOk ==
  ASSUME RingInd, at = "idle", ~ram.pending \/ ~replay.held, NEW i \in Intervals
  PROVE  /\ Good(Ready(i), sel) /\ Ready(i).layout = sel /\ Ready(i).interval = i /\ ~Ready(i).pending
         /\ \/ Ready(i).live = <<>> /\ Ready(i).abs = Remounted.abs
            \/ /\ Ready(i).live = Remounted.live /\ Ready(i).abs = Remounted.abs
               /\ Ready(i).layout = Remounted.layout /\ HoldNoMore(flash, Remounted, flash, Ready(i))
<1> DEFINE x == Remounted
           y == AtInterval(x, i)
           z == AtLayout(y, sel)
<1>1. i \in Nat /\ sel \in Layouts
  BY RingAssumption DEF RingInd, OthersOk
<1>2. Good(x, sel)
  BY RemountedOk
<1> HIDE DEF x
<1>3. Good(y, sel) /\ y.interval = i /\ y.layout = x.layout /\ (y = x \/ (y.live = <<>> /\ y.abs = x.abs))
  BY <1>1, <1>2, AtIntervalOk
<1> HIDE DEF y
<1>4. Good(z, sel) /\ z.layout = sel /\ z.interval = y.interval /\ (z = y \/ (z.live = <<>> /\ z.abs = y.abs))
  BY <1>1, <1>3, AtLayoutOk
<1>5. Ready(i) = [z EXCEPT !.pending = FALSE]
  BY DEF Ready, x, y, z
<1> HIDE DEF z
<1>6. /\ Good(Ready(i), sel) /\ ~Ready(i).pending /\ Ready(i).layout = z.layout
      /\ Ready(i).interval = z.interval /\ Ready(i).live = z.live /\ Ready(i).abs = z.abs
      /\ HoldNoMore(flash, z, flash, Ready(i))
  BY <1>4, <1>5, SettledOk
<1> QED BY <1>3, <1>4, <1>6 DEF x

-----------------------------------------------------------------------------
(* The steps of a capture                                                    *)

\* What the appending of a record leaves of the invariant.
Kept(f, m) ==
  /\ Body(f, ram', m) /\ CaptureOk(f, ram', at', rest', m) /\ Ahead(f, ram')
  /\ ram'.layout <= sel /\ ~ram'.pending

LEMMA KeptIs ==
  ASSUME NEW f, NEW m, NEW r, SameRun(r, ram'), Body(f, ram', m), CaptureOk(f, ram', at', rest', m),
         Ahead(f, ram'), r.layout <= sel, ~r.pending
  PROVE  Kept(f, m)
BY DEF Kept, SameRun

\* Nothing held changes when a capture starts: its number is new.
LEMMA NewNumber ==
  ASSUME NEW f, NEW r, NEW m \in Takes, Body(f, r, m), NEW x \in [layout : Layouts, interval : Intervals]
  PROVE  LET n == Append(m, x)
         IN /\ n \in Takes /\ n # <<>> /\ Len(n) = Len(m) + 1 /\ n[Len(n)] = x
            /\ Body(f, r, n) /\ Nowhere(f, r, Len(n))
<1> DEFINE T == [layout : Layouts, interval : Intervals]
           n == Append(m, x)
<1>1. m \in Seq(T) /\ x \in T
  BY DEF Takes
<1> HIDE DEF T
<1>2. /\ n \in Seq(T) /\ Len(n) = Len(m) + 1 /\ n[Len(m) + 1] = x
      /\ \A i \in 1..Len(m) : n[i] = m[i]
  BY <1>1, AppendProperties
<1>3. Len(m) \in Nat /\ DOMAIN m = 1..Len(m)
  BY <1>1, LenProperties
<1> HIDE DEF n
<1>4. n # <<>> /\ DOMAIN n = 1..(Len(m) + 1)
  BY <1>2, <1>3, LenProperties, EmptySeq
<1>5. ASSUME NEW p \in Phys, NEW d \in Nat, NEW b \in Byte, Holds(f, r, p, d, b)
      PROVE  PlacedAt(f, n, p, d, b) /\ b[1] # Len(n)
  <2>1. PlacedAt(f, m, p, d, b)
    BY <1>5 DEF Body, Placed
  <2>2. b[1] \in 1..Len(m)
    BY <1>3, <2>1 DEF PlacedAt
  <2>3. b[1] \in DOMAIN n /\ n[b[1]] = m[b[1]] /\ b[1] # Len(n)
    BY <1>2, <1>3, <1>4, <2>2
  <2> QED BY <2>1, <2>3 DEF PlacedAt
<1>6. Placed(f, r, n) /\ Nowhere(f, r, Len(n))
  BY <1>5 DEF Placed, Nowhere
<1>7. Body(f, r, n)
  BY <1>6 DEF Body
<1> QED BY <1>2, <1>4, <1>6, <1>7 DEF n, T, Takes

\* A page closed early takes no more.
LEMMA ClosedOk ==
  ASSUME NEW f, NEW r, NEW m, Body(f, r, m), Ahead(f, r), Len(r.stage) < DwData
  PROVE  LET s == [r EXCEPT !.full = TRUE]
         IN /\ SameRun(r, s) /\ Body(f, s, m) /\ Ahead(f, s) /\ Aligned(s) /\ Len(s.stage) < DwData
            /\ s.full /\ s.live = r.live /\ s.stage = r.stage /\ HoldNoMore(f, r, f, s)
<1> DEFINE s == [r EXCEPT !.full = TRUE]
<1>1. r \in Views
  BY DEF Body
<1>2. /\ s \in Views /\ SameRun(s, r) /\ s.full = TRUE /\ s.abs = r.abs /\ s.dw = r.dw
      /\ s.stage = r.stage
  BY <1>1, FlagsAre
<1> HIDE DEF s
<1>3. SameRun(r, s) /\ s.live = r.live
  BY <1>2 DEF SameRun
<1>4. Body(f, s, m) /\ HoldNoMore(f, r, f, s) /\ Ahead(f, s)
  BY <1>2, <1>3, SameRunKeeps DEF SameRun
<1> QED BY <1>2, <1>3, <1>4 DEF Aligned, s

\* A capture keeps the ring, and goes on from the view it takes.
LEMMA CaptureKeeps ==
  ASSUME GoesBack = FALSE, RingInd, NEW i \in Intervals, NEW split \in BOOLEAN, Capture(i, split)
  PROVE  Kept(flash, made') /\ Onward(flash, Ready(i), flash, ram', Len(made'))
<1> DEFINE x == [layout |-> sel, interval |-> i]
           m == Append(made, x)
           r == Ready(i)
           n == Len(made) + 1
           rec == Record(n, sel)
           closes == split /\ r.live # <<>> /\ ~r.full
           closed == [r EXCEPT !.full = TRUE]
<1>1. /\ at = "idle" /\ Len(made) < MaxRecords /\ (~ram.pending \/ ~replay.held) /\ made' = m
      /\ \/ ~closes /\ ~split /\ Appends(r, rec)
         \/ closes /\ r.stage = <<>> /\ Appends(closed, rec)
         \/ /\ closes /\ r.stage # <<>>
            /\ ram' = closed /\ at' = "split" /\ rest' = [NoRest EXCEPT !.left = rec]
  BY DEF Capture
<1>2. /\ Good(r, sel) /\ r.layout = sel /\ r.interval = i /\ ~r.pending
  BY <1>1, ReadyOk
<1>3. made \in Takes /\ sel \in Layouts /\ MaxRecords \in Nat
  BY RingAssumption DEF RingInd, OthersOk
<1>4. Body(flash, r, made) /\ Aligned(r) /\ Ahead(flash, r) /\ Len(r.stage) < DwData /\ r \in Views
  BY <1>2 DEF Good, Body
<1>5. /\ m \in Takes /\ m # <<>> /\ Len(m) = n /\ m[Len(m)] = x
      /\ Body(flash, r, m) /\ Nowhere(flash, r, Len(m))
  BY <1>3, <1>4, NewNumber
<1>6. x.layout = sel /\ x.interval = i /\ Len(made) \in Nat
  BY <1>3, LenProperties DEF Takes
<1>7. n \in Nat /\ n <= MaxRecords
  BY <1>1, <1>3, <1>6
<1>8. /\ SameRun(r, closed) /\ Body(flash, closed, m) /\ Ahead(flash, closed) /\ Aligned(closed)
      /\ Len(closed.stage) < DwData /\ closed.full /\ closed.live = r.live /\ closed.stage = r.stage
      /\ HoldNoMore(flash, r, flash, closed)
  BY <1>4, <1>5, ClosedOk
<1>9. r.layout <= sel
  BY <1>2, <1>3, SizesAre
<1> HIDE DEF x, m, r, n, rec, closed
<1>10. Nowhere(flash, closed, Len(m)) /\ closed.layout = sel /\ closed.interval = i /\ ~closed.pending
  BY <1>2, <1>5, <1>8, LessKeeps DEF SameRun
<1>16. closed \in Views /\ Onward(flash, r, flash, closed, Len(m))
  <2>1. closed \in Views /\ closed.abs = r.abs /\ r.abs \in Nat
    BY <1>4, FlagsAre, ViewIs DEF closed
  <2> QED BY <1>4, <1>8, <2>1, HoldNoMoreGoesOn
<1>11. Appendable(flash, r, rec, m)
  BY <1>2, <1>4, <1>5, <1>6, <1>7 DEF Appendable, rec
<1>12. Appendable(flash, closed, rec, m)
  BY <1>5, <1>6, <1>7, <1>8, <1>10 DEF Appendable, rec
<1>13. CASE Appends(r, rec)
  <2>1. /\ Body(flash, ram', m) /\ CaptureOk(flash, ram', at', rest', m)
        /\ SameRun(r, ram') /\ Ahead(flash, ram') /\ Onward(flash, r, flash, ram', Len(m))
    BY <1>11, <1>13, AppendsKeep
  <2> QED BY <1>1, <1>2, <1>9, <2>1, KeptIs DEF r
<1>14. CASE Appends(closed, rec)
  <2>1. /\ Body(flash, ram', m) /\ CaptureOk(flash, ram', at', rest', m)
        /\ SameRun(closed, ram') /\ Ahead(flash, ram') /\ Onward(flash, closed, flash, ram', Len(m))
    BY <1>12, <1>14, AppendsKeep
  <2>2. closed.layout <= sel
    BY <1>2, <1>9, <1>10
  <2>3. Onward(flash, r, flash, ram', Len(m))
    BY <1>4, <1>16, <2>1, OnwardAgain DEF Body
  <2> QED BY <1>1, <1>10, <2>1, <2>2, <2>3, KeptIs DEF r
<1>15. CASE /\ closes /\ r.stage # <<>>
            /\ ram' = closed /\ at' = "split" /\ rest' = [NoRest EXCEPT !.left = rec]
  <2> DEFINE rs == [NoRest EXCEPT !.left = rec]
  <2>1. rec \in Seq(Byte)
    BY <1>3, <1>7, RecordIs DEF rec
  <2>2. rs \in Rests /\ rs.left = rec
    BY <2>1, SizesAre DEF NoRest, Rests
  <2> HIDE DEF rs
  <2>3. Taking(flash, closed, "split", rs, m)
    BY <1>5, <1>6, <1>10, <2>2 DEF Taking, Waiting, rec
  <2>4. CaptureOk(flash, closed, "split", rs, m)
    BY <1>8, <1>15, <2>2, <2>3 DEF CaptureOk, Capturing, Waiting
  <2>5. closed.layout <= sel
    BY <1>2, <1>9, <1>10
  <2> QED BY <1>1, <1>8, <1>10, <1>15, <1>16, <2>4, <2>5 DEF Kept, rs, r
<1> QED BY <1>1, <1>13, <1>14, <1>15

\* While a capture is under way.
LEMMA UnderWayIs ==
  ASSUME RingInd, at # "idle"
  PROVE  /\ Body(flash, ram, made) /\ Ahead(flash, ram) /\ ~ram.pending /\ ram.layout <= sel
         /\ LayoutsUpTo(flash, sel) /\ CaptureOk(flash, ram, at, rest, made)
         /\ made \in Takes /\ Len(made) <= MaxRecords /\ ram \in Views /\ flash \in FlashPages
         /\ RunOk(flash, ram) /\ rest \in Rests /\ Len(ram.stage) \in Nat
<1>1. Body(flash, ram, made) /\ BootOk /\ OthersOk /\ CaptureOk(flash, ram, at, rest, made)
  BY DEF RingInd
<1>2. ram \in Views /\ flash \in FlashPages /\ RunOk(flash, ram)
  BY <1>1 DEF Body
<1> QED BY <1>1, <1>2, ViewIs DEF BootOk, OthersOk, CaptureOk

LEMMA NoRestIs == NoRest \in Rests
BY SizesAre DEF NoRest, Rests

\* Between captures, or with a full page's tail to write.
LEMMA RestingOk ==
  ASSUME NEW f, NEW r, NEW m, Aligned(r), Len(r.stage) < DwData
  PROVE  CaptureOk(f, r, "idle", NoRest, m)
BY NoRestIs DEF CaptureOk, Capturing, Waiting

\* The record under way is still nowhere.
WaitingOk(f, r, rec, m) ==
  /\ m # <<>> /\ m[Len(m)].layout = r.layout /\ m[Len(m)].interval = r.interval
  /\ rec = Record(Len(m), r.layout) /\ Nowhere(f, r, Len(m))

LEMMA WaitingIs ==
  ASSUME NEW f, NEW r, NEW a \in {"erase", "header"}, NEW rs \in Rests, NEW m,
         WaitingOk(f, r, rs.left, m), Aligned(r), Len(r.stage) < DwData
  PROVE  CaptureOk(f, r, a, rs, m)
<1>1. Taking(f, r, a, rs, m)
  BY DEF Taking, Waiting, WaitingOk
<1> QED BY <1>1 DEF CaptureOk, Capturing, Waiting

LEMMA AppendsNext ==
  ASSUME RingInd, at # "idle", NEW f, NEW r, SameRun(ram, r), Body(f, r, made), Ahead(f, r),
         Aligned(r), Len(r.stage) < DwData, NEW rec, WaitingOk(f, r, rec, made), Appends(r, rec)
  PROVE  Kept(f, made) /\ Onward(f, r, f, ram', Len(made))
<1>1. /\ made \in Takes /\ Len(made) <= MaxRecords /\ ~ram.pending /\ ram.layout <= sel
  BY UnderWayIs
<1>2. Appendable(f, r, rec, made)
  BY <1>1 DEF Appendable, WaitingOk
<1>3. /\ Body(f, ram', made) /\ CaptureOk(f, ram', at', rest', made)
      /\ SameRun(r, ram') /\ Ahead(f, ram') /\ Onward(f, r, f, ram', Len(made))
  BY <1>2, AppendsKeep
<1> QED BY <1>1, <1>3, KeptIs DEF SameRun

\* The stage of the head page is written, padded, in one of the steps.
LEMMA FlushStep ==
  ASSUME RingInd, at # "idle", ram.live # <<>>, ram.full, ram.stage # <<>>, Len(ram.stage) < DwData
  PROVE  LET g == Programmed(flash, ram, Padded(ram.stage))
             s == Flushed(ram)
         IN /\ Body(g, s, made) /\ Ahead(g, s) /\ LayoutsUpTo(g, sel) /\ SameRun(ram, s)
            /\ HoldNoMore(flash, ram, g, s) /\ Aligned(s) /\ Len(s.stage) < DwData
            /\ s \in Views /\ Onward(flash, ram, g, s, Len(made))
            /\ Onward(flash, ram, g, s, Len(made) + 1)
            /\ \A rec : WaitingOk(flash, ram, rec, made) => WaitingOk(g, s, rec, made)
<1> DEFINE g == Programmed(flash, ram, Padded(ram.stage))
           s == Flushed(ram)
<1>1. Body(flash, ram, made) /\ Ahead(flash, ram) /\ LayoutsUpTo(flash, sel) /\ Len(ram.stage) <= DwData
  BY UnderWayIs, SizesAre
<1>2. /\ Body(g, s, made) /\ HoldNoMore(flash, ram, g, s) /\ SameRun(ram, s)
      /\ s.full = ram.full /\ s.stage = <<>> /\ LayoutsUpTo(g, sel) /\ Ahead(g, s)
      /\ s.abs = ram.abs
  BY <1>1, FlushKeeps
<1> HIDE DEF g, s
<1>3. s \in Views
  BY <1>2 DEF Body
<1>4. Len(s.stage) < DwData /\ Aligned(s)
  BY <1>2, <1>3, ViewIs, SizesAre DEF Aligned
<1>5. ASSUME NEW rec, WaitingOk(flash, ram, rec, made) PROVE WaitingOk(g, s, rec, made)
  BY <1>2, <1>5, LessKeeps DEF WaitingOk, SameRun
<1>6. Onward(flash, ram, g, s, Len(made)) /\ Onward(flash, ram, g, s, Len(made) + 1)
  <2>1. ram \in Views /\ ram.abs <= s.abs
    BY <1>2, UnderWayIs, ViewIs
  <2> QED BY <1>2, <1>3, <2>1, HoldNoMoreGoesOn
<1> QED BY <1>2, <1>3, <1>4, <1>5, <1>6 DEF g, s

LEMMA SplitWritesKeep ==
  ASSUME RingInd, SplitWrites
  PROVE  /\ Kept(flash', made') /\ LayoutsUpTo(flash', sel)
         /\ Onward(flash, ram, flash', ram', Len(made))
<1>1. at = "split" /\ made' = made
  BY DEF SplitWrites
<1>2. /\ Body(flash, ram, made) /\ Ahead(flash, ram) /\ LayoutsUpTo(flash, sel)
      /\ CaptureOk(flash, ram, at, rest, made)
  BY <1>1, UnderWayIs
<1>3. /\ ram.live # <<>> /\ ram.full /\ ram.stage # <<>> /\ Len(ram.stage) < DwData /\ Aligned(ram)
      /\ WaitingOk(flash, ram, rest.left, made)
  BY <1>1, <1>2 DEF CaptureOk, Capturing, Waiting, Taking, WaitingOk
<1> DEFINE g == Programmed(flash, ram, Padded(ram.stage))
           s == Flushed(ram)
<1>4. CASE flash' = g /\ Appends(s, rest.left)
  <2>1. /\ Body(g, s, made) /\ Ahead(g, s) /\ LayoutsUpTo(g, sel) /\ SameRun(ram, s)
        /\ Aligned(s) /\ Len(s.stage) < DwData /\ WaitingOk(g, s, rest.left, made)
        /\ s \in Views /\ Onward(flash, ram, g, s, Len(made))
    BY <1>1, <1>3, FlushStep
  <2> HIDE DEF g, s
  <2>2. Kept(g, made) /\ Onward(g, s, g, ram', Len(made))
    BY <1>1, <1>4, <2>1, AppendsNext
  <2>3. Onward(flash, ram, g, ram', Len(made))
    BY <1>2, <2>1, <2>2, OnwardAgain DEF Body, Kept
  <2> QED BY <1>1, <1>4, <2>1, <2>2, <2>3
<1>5. CASE flash' = flash /\ Appends(ram, rest.left)
  <2>1. SameRun(ram, ram)
    BY DEF SameRun
  <2>2. Kept(flash, made) /\ Onward(flash, ram, flash, ram', Len(made))
    BY <1>1, <1>2, <1>3, <1>5, <2>1, AppendsNext
  <2> QED BY <1>1, <1>2, <1>5, <2>2
<1> QED BY <1>4, <1>5 DEF SplitWrites

LEMMA CloseWritesKeep ==
  ASSUME RingInd, CloseWrites
  PROVE  /\ Kept(flash', made') /\ LayoutsUpTo(flash', sel)
         /\ Onward(flash, ram, flash', ram', Len(made))
<1>1. at = "close" /\ made' = made
  BY DEF CloseWrites
<1>2. /\ Body(flash, ram, made) /\ Ahead(flash, ram) /\ LayoutsUpTo(flash, sel)
      /\ CaptureOk(flash, ram, at, rest, made) /\ ~ram.pending /\ ram.layout <= sel /\ rest \in Rests
  BY <1>1, UnderWayIs
<1>3. /\ ram.live # <<>> /\ ram.full /\ ram.stage # <<>> /\ Len(ram.stage) < DwData /\ Aligned(ram)
      /\ WaitingOk(flash, ram, rest.left, made)
  BY <1>1, <1>2 DEF CaptureOk, Capturing, Waiting, Taking, WaitingOk
<1> DEFINE g == Programmed(flash, ram, Padded(ram.stage))
           s == Flushed(ram)
<1>4. CASE flash' = g /\ ram' = s /\ at' = "erase" /\ rest' = rest
  <2>1. /\ Body(g, s, made) /\ Ahead(g, s) /\ LayoutsUpTo(g, sel) /\ SameRun(ram, s)
        /\ Aligned(s) /\ Len(s.stage) < DwData /\ WaitingOk(g, s, rest.left, made)
        /\ s \in Views /\ Onward(flash, ram, g, s, Len(made))
    BY <1>1, <1>3, FlushStep
  <2> HIDE DEF g, s
  <2>2. CaptureOk(g, s, "erase", rest, made)
    BY <1>2, <2>1, WaitingIs
  <2>3. s.layout <= sel /\ ~s.pending
    BY <1>2, <2>1 DEF SameRun
  <2> QED BY <1>1, <1>4, <2>1, <2>2, <2>3 DEF Kept
<1>5. CASE flash' = flash /\ ram' = ram /\ Done
  <2>1. CaptureOk(flash, ram, "idle", NoRest, made) /\ Onward(flash, ram, flash, ram, Len(made))
    BY <1>2, <1>3, RestingOk, OnwardSame DEF Body
  <2> QED BY <1>1, <1>2, <1>5, <2>1 DEF Kept, Done
<1> QED BY <1>4, <1>5 DEF CloseWrites

LEMMA PageErasesKeep ==
  ASSUME RingInd, PageErases
  PROVE  /\ Kept(flash', made') /\ LayoutsUpTo(flash', sel)
         /\ Onward(flash, ram, flash', ram', Len(made))
<1> DEFINE erased == [flash EXCEPT ![After(ram.last)] = Blank]
<1>1. /\ at = "erase" /\ made' = made /\ ram' = ram /\ flash' \in {flash, erased}
      /\ (at' = "header" /\ rest' = rest) \/ Done
  BY DEF PageErases
<1>2. /\ Body(flash, ram, made) /\ Ahead(flash, ram) /\ LayoutsUpTo(flash, sel)
      /\ CaptureOk(flash, ram, at, rest, made) /\ ~ram.pending /\ ram.layout <= sel /\ rest \in Rests
  BY <1>1, UnderWayIs
<1>3. Len(ram.stage) < DwData /\ Aligned(ram) /\ WaitingOk(flash, ram, rest.left, made)
  BY <1>1, <1>2 DEF CaptureOk, Capturing, Waiting, Taking, WaitingOk
<1>4. PICK g \in {flash, erased} : flash' = g
  BY <1>1
<1>5. Body(g, ram, made) /\ HoldNoMore(flash, ram, g, ram) /\ LayoutsUpTo(g, sel) /\ Ahead(g, ram)
  BY <1>2, EraseKeeps
<1> HIDE DEF erased
<1>6. WaitingOk(g, ram, rest.left, made)
  BY <1>3, <1>5, LessKeeps DEF WaitingOk
<1>7. CaptureOk(g, ram, "header", rest, made) /\ CaptureOk(g, ram, "idle", NoRest, made)
  BY <1>2, <1>3, <1>6, WaitingIs, RestingOk
<1>8. Onward(flash, ram, g, ram, Len(made))
  <2>1. ram \in Views /\ SameRun(ram, ram) /\ ram.abs <= ram.abs
    BY <1>2, ViewIs DEF Body, SameRun
  <2> QED BY <1>5, <2>1, HoldNoMoreGoesOn
<1> QED BY <1>1, <1>2, <1>4, <1>5, <1>7, <1>8 DEF Kept, Done

LEMMA HeaderWritesKeep ==
  ASSUME RingInd, HeaderWrites
  PROVE  /\ Kept(flash', made') /\ LayoutsUpTo(flash', sel)
         /\ Onward(flash, ram, flash', ram', Len(made))
<1> DEFINE g == [flash EXCEPT ![After(ram.last)] = Header(ram)]
           o == Opened(ram)
           rs == [left |-> rest.left, dw |-> 0, staged |-> 0]
<1>1. at = "header" /\ made' = made
  BY DEF HeaderWrites
<1>2. /\ Body(flash, ram, made) /\ Ahead(flash, ram) /\ LayoutsUpTo(flash, sel)
      /\ CaptureOk(flash, ram, at, rest, made) /\ ~ram.pending /\ ram.layout <= sel /\ rest \in Rests
      /\ made \in Takes /\ Len(made) <= MaxRecords /\ ram \in Views
  BY <1>1, UnderWayIs
<1>3. Len(ram.stage) < DwData /\ Aligned(ram) /\ WaitingOk(flash, ram, rest.left, made)
  BY <1>1, <1>2 DEF CaptureOk, Capturing, Waiting, Taking, WaitingOk
<1>4. CASE flash' = g /\ Streams(o, rest.left, 0, 0)
  <2>1. Appendable(flash, ram, rest.left, made)
    BY <1>2, <1>3 DEF Appendable, WaitingOk
  <2>2. rs \in Rests /\ rs.left = rest.left /\ rs.dw = 0 /\ rs.staged = 0
    BY <1>2, SizesAre DEF Rests
  <2> HIDE DEF rs
  <2>3. Streamable(g, o, rs, made) /\ LayoutsUpTo(g, sel) /\ HoldNoMore(flash, ram, g, o)
    BY <1>2, <2>1, <2>2, HeaderKeeps
  <2>4. o.layout = ram.layout /\ o.pending = ram.pending /\ o \in Views
    BY <1>2, OpenedIs
  <2>8. Onward(flash, ram, g, o, Len(made))
    BY <1>2, <2>3, OpenedGoesOn
  <2> HIDE DEF g, o
  <2>5. Streams(o, rs.left, rs.dw, rs.staged)
    BY <1>4, <2>2
  <2>6. /\ Body(g, ram', made) /\ CaptureOk(g, ram', at', rest', made)
        /\ SameRun(o, ram') /\ Ahead(g, ram') /\ Onward(g, o, g, ram', Len(made))
    BY <2>3, <2>5, StreamsKeep
  <2>7. Kept(g, made)
    BY <1>2, <2>4, <2>6, KeptIs
  <2>9. Onward(flash, ram, g, ram', Len(made))
    BY <1>2, <2>4, <2>6, <2>8, OnwardAgain DEF Body
  <2> QED BY <1>1, <1>4, <2>3, <2>7, <2>9
<1>5. CASE flash' = flash /\ ram' = ram /\ Done
  <2>1. CaptureOk(flash, ram, "idle", NoRest, made) /\ Onward(flash, ram, flash, ram, Len(made))
    BY <1>2, <1>3, RestingOk, OnwardSame DEF Body
  <2> QED BY <1>1, <1>2, <1>5, <2>1 DEF Kept, Done
<1> QED BY <1>4, <1>5 DEF HeaderWrites, Header

LEMMA TailWritesKeep ==
  ASSUME RingInd, TailWrites
  PROVE  /\ Kept(flash', made') /\ LayoutsUpTo(flash', sel)
         /\ Onward(flash, ram, flash', ram', Len(made))
         /\ Onward(flash, ram, flash', ram', Len(made) + 1)
<1> DEFINE g == Programmed(flash, ram, Padded(ram.stage))
           s == Flushed(ram)
<1>1. at = "tail" /\ made' = made /\ Done
  BY DEF TailWrites
<1>2. /\ Body(flash, ram, made) /\ Ahead(flash, ram) /\ LayoutsUpTo(flash, sel)
      /\ CaptureOk(flash, ram, at, rest, made) /\ ~ram.pending /\ ram.layout <= sel
  BY <1>1, UnderWayIs
<1>3. ram.live # <<>> /\ ram.full /\ ram.stage # <<>> /\ Len(ram.stage) < DwData /\ Aligned(ram)
  BY <1>1, <1>2 DEF CaptureOk
<1>4. CASE flash' = g /\ ram' = s
  <2>1. /\ Body(g, s, made) /\ Ahead(g, s) /\ LayoutsUpTo(g, sel) /\ SameRun(ram, s)
        /\ Aligned(s) /\ Len(s.stage) < DwData /\ Onward(flash, ram, g, s, Len(made))
        /\ Onward(flash, ram, g, s, Len(made) + 1)
    BY <1>1, <1>3, FlushStep
  <2> HIDE DEF g, s
  <2>2. CaptureOk(g, s, "idle", NoRest, made)
    BY <2>1, RestingOk
  <2>3. s.layout <= sel /\ ~s.pending
    BY <1>2, <2>1 DEF SameRun
  <2> QED BY <1>1, <1>4, <2>1, <2>2, <2>3 DEF Kept, Done
<1>5. CASE flash' = flash /\ ram' = ram
  <2>1. /\ CaptureOk(flash, ram, "idle", NoRest, made) /\ Onward(flash, ram, flash, ram, Len(made))
        /\ Onward(flash, ram, flash, ram, Len(made) + 1)
    BY <1>2, <1>3, RestingOk, OnwardSame DEF Body
  <2> QED BY <1>1, <1>2, <1>5, <2>1 DEF Kept, Done
<1> QED BY <1>4, <1>5 DEF TailWrites

\* A double word that failed is dropped.
LEMMA DroppedIs ==
  ASSUME NEW r \in Views, NEW full \in BOOLEAN
  PROVE  LET s == [r EXCEPT !.stage = <<>>, !.full = full]
         IN /\ s \in Views /\ SameRun(r, s) /\ s.abs = r.abs /\ s.dw = r.dw
            /\ s.stage = <<>> /\ s.full = full
<1> DEFINE L == Seq([first : Nat, phys : Phys])
           S == Seq(Byte)
<1>1. Views = [live : L, seq : Nat, abs : Nat, last : Phys,
               dw : 0..PayloadDw, stage : S, full : BOOLEAN, layout : Layouts,
               interval : Nat, pending : BOOLEAN]
  BY DEF Views
<1>2. <<>> \in S
  BY EmptySeq
<1> HIDE DEF L, S
<1> QED BY <1>1, <1>2 DEF SameRun

LEMMA StreamWritesKeep ==
  ASSUME RingInd, StreamWrites
  PROVE  /\ Kept(flash', made') /\ LayoutsUpTo(flash', sel)
         /\ Onward(flash, ram, flash', ram', Len(made))
<1> DEFINE g == Programmed(flash, ram, ram.stage)
           s == Flushed(ram)
           n == Len(made)
<1>1. at = "stream" /\ made' = made
  BY DEF StreamWrites
<1>2. /\ Body(flash, ram, made) /\ Ahead(flash, ram) /\ LayoutsUpTo(flash, sel)
      /\ CaptureOk(flash, ram, at, rest, made) /\ ~ram.pending /\ ram.layout <= sel /\ rest \in Rests
      /\ made \in Takes /\ Len(made) <= MaxRecords /\ ram \in Views /\ RunOk(flash, ram)
  BY <1>1, UnderWayIs
<1>3. /\ made # <<>> /\ made[n].layout = ram.layout /\ made[n].interval = ram.interval
      /\ Streaming(ram, rest, n) /\ Len(ram.stage) = DwData /\ UnderWay(flash, ram, n)
  BY <1>1, <1>2 DEF CaptureOk, Capturing, Taking
<1>4. /\ ram.live # <<>> /\ ~ram.full /\ ram.stage # <<>> /\ Len(ram.stage) <= DwData
      /\ ram.stage \in Seq(Byte)
  <2>1. Len(ram.stage) # 0
    BY <1>3, SizesAre
  <2>2. ram.stage # <<>> /\ ram.stage \in Seq(Byte)
    BY <1>2, <2>1, ViewIs
  <2> QED BY <1>3, <2>2, SizesAre DEF Streaming
<1>5. CASE flash' = g /\ Streams(s, rest.left, rest.dw, rest.staged)
  <2>1. Padded(ram.stage) = ram.stage
    BY <1>3, <1>4, PaddedIs
  <2>2. /\ Body(g, s, made) /\ HoldNoMore(flash, ram, g, s) /\ SameRun(ram, s) /\ s.abs = ram.abs
        /\ s.full = ram.full /\ s.stage = <<>> /\ Pos(s) = Pos(ram)
        /\ LayoutsUpTo(g, sel) /\ Ahead(g, s)
    BY <1>2, <1>3, <1>4, <2>1, FlushKeeps
  <2> HIDE DEF g, s, n
  <2>3. HeadPage(s) = HeadPage(ram) /\ Start(s) = Start(ram) /\ HeadSize(s) = HeadSize(ram)
    BY <2>2 DEF SameRun, HeadPage, Start, HeadRecords, HeadSize
  <2>4. Streaming(s, rest, n)
    BY <1>3, <2>2, <2>3 DEF Streaming, SameRun
  <2>5. UnderWay(g, s, n)
    <3> SUFFICES ASSUME NEW p \in Phys, NEW d \in Nat, NEW b \in Byte, Holds(g, s, p, d, b)
                 PROVE  b[1] = n <=> AtHead(s, p, d)
      BY DEF UnderWay
    <3>1. b[1] = n <=> AtHead(ram, p, d)
      BY <1>3, <2>2 DEF UnderWay, HoldNoMore
    <3> QED BY <2>3, <3>1 DEF AtHead
  <2>6. Len(s.stage) < DwData
    <3>1. s \in Views
      BY <2>2 DEF Body
    <3> QED BY <2>2, <3>1, ViewIs, SizesAre
  <2>7. Streamable(g, s, rest, made)
    BY <1>2, <1>3, <2>2, <2>4, <2>5, <2>6 DEF Streamable, SameRun, n
  <2>8. /\ Body(g, ram', made) /\ CaptureOk(g, ram', at', rest', made)
        /\ SameRun(s, ram') /\ Ahead(g, ram') /\ Onward(g, s, g, ram', n)
    BY <1>5, <2>7, StreamsKeep DEF n
  <2>9. Kept(g, made)
    BY <1>2, <2>2, <2>8, KeptIs DEF SameRun
  <2>10. Onward(flash, ram, g, s, n)
    <3>1. s \in Views /\ ram.abs <= s.abs
      BY <1>2, <2>2, ViewIs DEF Body
    <3> QED BY <1>2, <2>2, <3>1, HoldNoMoreGoesOn
  <2>11. Onward(flash, ram, g, ram', n)
    BY <1>2, <2>2, <2>8, <2>10, OnwardAgain DEF Body
  <2> QED BY <1>1, <1>5, <2>2, <2>9, <2>11 DEF n
<1>6. CASE flash' = flash /\ ram' = Dropped(ram) /\ Done
  <2> DEFINE full == ram.full \/ ram.dw # rest.dw \/ rest.staged # 0
             z == [ram EXCEPT !.stage = <<>>, !.full = full]
  <2>1. ram' = z
    BY <1>6 DEF Dropped
  <2>2. full \in BOOLEAN
    OBVIOUS
  <2> HIDE DEF full
  <2>3. /\ z \in Views /\ SameRun(ram, z) /\ z.abs = ram.abs /\ z.dw = ram.dw
        /\ z.stage = <<>> /\ z.full = full
    BY <1>2, <2>2, DroppedIs
  <2> HIDE DEF z
  <2>4. /\ z.live = ram.live /\ z.seq = ram.seq /\ z.last = ram.last /\ z.layout = ram.layout
        /\ z.interval = ram.interval
    BY <2>3 DEF SameRun
  <2>5. z.full = ram.full \/ z.full
    <3>1. z.full \in BOOLEAN /\ ram.full \in BOOLEAN /\ ~ram.full
      BY <1>2, <1>4, <2>3, ViewIs
    <3> QED BY <3>1
  <2>6. Body(flash, z, made) /\ (Ahead(flash, ram) => Ahead(flash, z))
    BY <1>2, <2>3, <2>4, <2>5, SameRunKeeps
  <2>7. Aligned(z)
    <3>1. ASSUME ~z.full PROVE Pos(z) = Start(z)
      <4>1. ram.dw = rest.dw /\ rest.staged = 0
        BY <2>3, <3>1 DEF full
      <4>2. (rest.dw * DwData) + rest.staged = Start(ram)
        BY <1>3 DEF Streaming
      <4>3. Start(z) = Start(ram)
        BY <2>3, <2>4 DEF HeadPage, Start, HeadRecords, HeadSize
      <4>4. Pos(z) = (ram.dw * DwData) + 0
        BY <2>3, ViewIs
      <4> QED BY <4>1, <4>2, <4>3, <4>4
    <3> QED BY <3>1 DEF Aligned
  <2>8. Len(z.stage) < DwData
    BY <2>3, ViewIs, SizesAre
  <2>9. CaptureOk(flash, z, "idle", NoRest, made)
    BY <2>7, <2>8, RestingOk
  <2>10. z.layout <= sel /\ ~z.pending
    BY <1>2, <2>3 DEF SameRun
  <2>11. Onward(flash, ram, flash, z, n)
    <3>1. HoldNoMore(flash, ram, flash, z) /\ ram.abs <= z.abs
      BY <1>2, <2>3, UnstagedHolds, ViewIs
    <3> QED BY <1>2, <2>3, <3>1, HoldNoMoreGoesOn
  <2> QED BY <1>1, <1>2, <1>6, <2>1, <2>6, <2>9, <2>10, <2>11 DEF Kept, Done, n
<1> QED BY <1>5, <1>6 DEF StreamWrites

-----------------------------------------------------------------------------
(* The invariant                                                             *)

\* A step that keeps the ring and settles it keeps the invariant.
LEMMA KeptInd ==
  ASSUME RingInd, Kept(flash', made'), LayoutsUpTo(flash', sel), sel' = sel, OthersOk'
  PROVE  RingInd'
<1>1. Body(flash', ram', made') /\ CaptureOk(flash', ram', at', rest', made')
  BY DEF Kept
<1>2. BootOk'
  BY DEF BootOk, Kept
<1> QED BY <1>1, <1>2 DEF RingInd

LEMMA OthersIs ==
  ASSUME OthersOk
  PROVE  /\ sel \in Layouts /\ made \in Takes /\ Len(made) \in Nat /\ Len(made) <= MaxRecords
         /\ events \in Nat /\ events <= MaxEvents /\ MaxEvents \in Nat /\ MaxRecords \in Nat
         /\ replay \in [on : BOOLEAN, held : BOOLEAN, cursor : Nat, end : Nat, last : Numbers,
                        layout : Layouts \union {0}]
BY RingAssumption, LenProperties DEF OthersOk, Takes

LEMMA EventsKeep ==
  ASSUME OthersOk, sel' = sel, replay' = replay, made' = made, Works \/ MayFail
  PROVE  OthersOk'
<1>1. events' \in 0..MaxEvents
  BY OthersIs DEF Works, MayFail, OthersOk
<1> QED BY <1>1 DEF OthersOk

LEMMA FlashesKeep ==
  ASSUME RingInd, Flashes
  PROVE  RingInd' /\ Onward(flash, ram, flash', ram', Len(made)) /\ made' = made
<1>1. OthersOk
  BY DEF RingInd
<1>2. CASE SplitWrites
  <2>1. /\ Kept(flash', made') /\ LayoutsUpTo(flash', sel)
        /\ Onward(flash, ram, flash', ram', Len(made))
    BY <1>2, SplitWritesKeep
  <2>2. sel' = sel /\ replay' = replay /\ made' = made /\ (Works \/ MayFail)
    BY <1>2 DEF SplitWrites
  <2> QED BY <1>1, <2>1, <2>2, EventsKeep, KeptInd
<1>3. CASE CloseWrites
  <2>1. /\ Kept(flash', made') /\ LayoutsUpTo(flash', sel)
        /\ Onward(flash, ram, flash', ram', Len(made))
    BY <1>3, CloseWritesKeep
  <2>2. sel' = sel /\ replay' = replay /\ made' = made /\ (Works \/ MayFail)
    BY <1>3 DEF CloseWrites
  <2> QED BY <1>1, <2>1, <2>2, EventsKeep, KeptInd
<1>4. CASE PageErases
  <2>1. /\ Kept(flash', made') /\ LayoutsUpTo(flash', sel)
        /\ Onward(flash, ram, flash', ram', Len(made))
    BY <1>4, PageErasesKeep
  <2>2. sel' = sel /\ replay' = replay /\ made' = made /\ (Works \/ MayFail)
    BY <1>4 DEF PageErases
  <2> QED BY <1>1, <2>1, <2>2, EventsKeep, KeptInd
<1>5. CASE HeaderWrites
  <2>1. /\ Kept(flash', made') /\ LayoutsUpTo(flash', sel)
        /\ Onward(flash, ram, flash', ram', Len(made))
    BY <1>5, HeaderWritesKeep
  <2>2. sel' = sel /\ replay' = replay /\ made' = made /\ (Works \/ MayFail)
    BY <1>5 DEF HeaderWrites
  <2> QED BY <1>1, <2>1, <2>2, EventsKeep, KeptInd
<1>6. CASE StreamWrites
  <2>1. /\ Kept(flash', made') /\ LayoutsUpTo(flash', sel)
        /\ Onward(flash, ram, flash', ram', Len(made))
    BY <1>6, StreamWritesKeep
  <2>2. sel' = sel /\ replay' = replay /\ made' = made /\ (Works \/ MayFail)
    BY <1>6 DEF StreamWrites
  <2> QED BY <1>1, <2>1, <2>2, EventsKeep, KeptInd
<1>7. CASE TailWrites
  <2>1. /\ Kept(flash', made') /\ LayoutsUpTo(flash', sel)
        /\ Onward(flash, ram, flash', ram', Len(made))
    BY <1>7, TailWritesKeep
  <2>2. sel' = sel /\ replay' = replay /\ made' = made /\ (Works \/ MayFail)
    BY <1>7 DEF TailWrites
  <2> QED BY <1>1, <2>1, <2>2, EventsKeep, KeptInd
<1> QED BY <1>2, <1>3, <1>4, <1>5, <1>6, <1>7 DEF Flashes

\* Nothing of the ring changes.
LEMMA SameRing ==
  ASSUME RingInd, OthersOk', flash' = flash, ram' = ram, at' = at, rest' = rest, made' = made,
         sel' \in Layouts, sel <= sel'
  PROVE  RingInd'
<1>1. Body(flash, ram, made) /\ CaptureOk(flash, ram, at, rest, made) /\ BootOk /\ OthersOk
  BY DEF RingInd
<1>2. ram \in Views /\ flash \in FlashPages /\ sel \in Layouts
  BY <1>1 DEF Body, OthersOk
<1>3. Body(flash', ram', made') /\ CaptureOk(flash', ram', at', rest', made')
  BY <1>1
<1>4. Booted(ram.layout)' = Booted(ram.layout)
  BY DEF Booted, Mounted, Newest, ValidPages, Matching, Chain, Continues, FoundRecords, Restored
<1>5. ram.layout <= sel' /\ LayoutsUpTo(flash, sel')
  <2>1. sel \in Nat /\ sel' \in Nat /\ ram.layout \in Nat
    BY <1>2, ViewIs, SizesAre
  <2>2. ram.layout <= sel'
    BY <1>1, <2>1 DEF BootOk
  <2>3. ASSUME NEW p \in Phys, flash[p].valid PROVE flash[p].layout <= sel'
    <3>1. flash[p].layout <= sel /\ flash[p].layout \in Nat
      BY <1>1, <1>2, <2>3, FlashIs, SizesAre DEF BootOk, LayoutsUpTo
    <3> QED BY <2>1, <3>1
  <2> QED BY <2>2, <2>3 DEF LayoutsUpTo
<1>6. BootOk'
  <2>1. ram.pending => at = "idle" /\ ram = Booted(ram.layout)
    BY <1>1 DEF BootOk
  <2>2. ~ram.pending => Ahead(flash, ram)
    BY <1>1 DEF BootOk
  <2> QED BY <1>4, <1>5, <2>1, <2>2 DEF BootOk
<1> QED BY <1>3, <1>6 DEF RingInd

LEMMA SelIs ==
  ASSUME RingInd
  PROVE  sel \in Layouts /\ sel \in Nat /\ sel <= sel
BY SizesAre DEF RingInd, OthersOk

LEMMA RetypeKeeps ==
  ASSUME GoesBack = FALSE, RingInd, Retype
  PROVE  RingInd'
<1>1. OthersOk /\ sel \in Nat
  BY SelIs DEF RingInd
<1>2. PICK l \in Layouts : l > sel /\ sel' = l
  BY DEF Retype
<1>3. /\ flash' = flash /\ ram' = ram /\ at' = at /\ rest' = rest /\ made' = made
      /\ replay' = replay /\ events' = events
  BY DEF Retype
<1>4. OthersOk'
  BY <1>1, <1>2, <1>3 DEF OthersOk
<1>5. sel <= sel'
  BY <1>1, <1>2, SizesAre
<1> QED BY <1>2, <1>3, <1>4, <1>5, SameRing

LEMMA SetChannelsKeeps ==
  ASSUME GoesBack = FALSE, RingInd, SetChannels
  PROVE  RingInd'
<1>1. /\ at = "idle" /\ ~ram.pending /\ ram' = [AtLayout(ram, sel) EXCEPT !.pending = FALSE]
      /\ flash' = flash /\ at' = at /\ rest' = rest /\ sel' = sel /\ replay' = replay
      /\ made' = made /\ events' = events
  BY DEF SetChannels
<1>2. Good(Remounted, sel) /\ Remounted = ram
  BY <1>1, RemountedOk
<1>3. sel \in Layouts /\ LayoutsUpTo(flash, sel) /\ rest \in Rests
  BY SelIs DEF RingInd, BootOk, CaptureOk
<1> DEFINE x == AtLayout(ram, sel)
           s == [x EXCEPT !.pending = FALSE]
<1>4. Good(x, sel) /\ x.layout = sel
  BY <1>2, <1>3, AtLayoutOk
<1>5. ram' = s
  BY <1>1
<1> HIDE DEF x
<1>6. Good(s, sel) /\ ~s.pending /\ s.layout = x.layout
  BY <1>4, SettledOk
<1> HIDE DEF s
<1>7. Kept(flash', made')
  <2>1. CaptureOk(flash, s, "idle", rest, made)
    BY <1>3, <1>6 DEF CaptureOk, Capturing, Waiting, Good
  <2> QED BY <1>1, <1>5, <1>6, <2>1 DEF Kept, Good
<1>8. OthersOk'
  BY <1>1 DEF RingInd, OthersOk
<1> QED BY <1>1, <1>3, <1>7, <1>8, KeptInd

\* A clear's erase may fail at any page; before the boot's first capture it is
\* taken to be whole.
LEMMA ClearKeeps ==
  ASSUME GoesBack = FALSE, RingInd, Clear
  PROVE  RingInd'
<1>1. /\ at = "idle" /\ events < MaxEvents /\ events' = events + 1
      /\ ram' = [Reset(ram) EXCEPT !.pending = FALSE]
      /\ at' = at /\ rest' = rest /\ sel' = sel /\ replay' = replay /\ made' = made
  BY DEF Clear
<1>2. PICK n \in 0..NPages : /\ n = NPages \/ ~ram.pending
                             /\ flash' = [p \in Phys |-> IF p < n THEN Blank ELSE flash[p]]
  BY DEF Clear
<1> DEFINE g == [p \in Phys |-> IF p < n THEN Blank ELSE flash[p]]
           x == Reset(ram)
           s == [x EXCEPT !.pending = FALSE]
<1>3. /\ Body(flash, ram, made) /\ ram \in Views /\ flash \in FlashPages /\ Fits(flash) /\ Headers(flash)
      /\ LayoutsUpTo(flash, sel) /\ ram.layout <= sel /\ rest \in Rests /\ OthersOk
      /\ (~ram.pending => Ahead(flash, ram))
  BY DEF RingInd, BootOk, CaptureOk, Body, Fits
<1>4. x \in Views /\ NoRun(x) /\ x.seq = ram.seq + 1 /\ x.layout = ram.layout
  BY <1>3, ResetIs
<1>5. g \in FlashPages /\ \A p \in Phys : g[p] = IF p < n THEN Blank ELSE flash[p]
  <2>1. flash \in [Phys -> Page] /\ Blank \in Page
    BY <1>3, BlankIs DEF FlashPages
  <2>2. \A p \in Phys : (IF p < n THEN Blank ELSE flash[p]) \in Page
    BY <2>1
  <2> QED BY <2>2 DEF FlashPages
<1>6. flash' = g /\ ram' = s
  BY <1>1, <1>2
<1> HIDE DEF g, x
<1>7. /\ s \in Views /\ s.pending = FALSE /\ s.live = x.live /\ s.seq = x.seq /\ s.layout = x.layout
      /\ s.dw = x.dw /\ s.stage = x.stage
  BY <1>4, FlagsAre
<1> HIDE DEF s
<1>8. NoRun(s) /\ s.seq = ram.seq + 1 /\ s.layout = ram.layout
  BY <1>4, <1>7 DEF NoRun
<1>9. Body(flash, s, made) /\ HoldNoMore(flash, ram, flash, s) /\ Aligned(s)
  BY <1>3, <1>7, <1>8, NoRunKeeps
<1>10. Blanked(flash, g)
  BY <1>5 DEF Blanked
<1>11. HoldNoMore(flash, s, g, s) /\ Headers(g) /\ LayoutsUpTo(g, sel) /\ Fits(g)
  BY <1>3, <1>5, <1>7, <1>8, <1>10, BlankedHolds DEF NoRun
<1>12. Body(g, s, made)
  <2>1. Placed(g, s, made) /\ Ordered(g, s)
    BY <1>9, <1>11, LessKeeps DEF Body
  <2>2. RunOk(g, s)
    BY <1>8, <1>9 DEF Body, RunOk, NoRun
  <2> QED BY <1>5, <1>9, <1>11, <2>1, <2>2 DEF Body, Fits
<1>13. Ahead(g, s)
  <2> SUFFICES ASSUME NEW p \in Phys, g[p].valid PROVE AheadOf(g, s, p)
    BY DEF Ahead
  <2>1. g[p] = flash[p] /\ ~(p < n)
    BY <1>5, BlankIs
  <2>2. n # NPages
    BY <2>1, SizesAre DEF Phys
  <2>3. AheadOf(flash, ram, p) /\ flash[p].seq \in Nat
    BY <1>2, <1>3, <2>1, <2>2, FlashIs DEF Ahead
  <2>4. flash[p].seq < ram.seq /\ flash[p].layout <= ram.layout /\ ram.seq \in Nat
    BY <1>3, <2>3, ViewIs DEF AheadOf
  <2>5. g[p].seq < s.seq /\ g[p].layout <= s.layout /\ g[p].seq # s.seq - 1
    BY <1>8, <2>1, <2>3, <2>4
  <2> QED BY <2>5 DEF AheadOf
<1>14. Kept(g, made)
  <2>1. Len(s.stage) < DwData
    BY <1>7, <1>8, ViewIs, SizesAre DEF NoRun
  <2>2. CaptureOk(g, s, "idle", rest, made)
    BY <1>3, <1>9, <2>1 DEF CaptureOk, Capturing, Waiting
  <2> QED BY <1>1, <1>3, <1>6, <1>7, <1>8, <1>12, <1>13, <2>2 DEF Kept
<1>15. OthersOk'
  <2>1. events' \in 0..MaxEvents
    BY <1>1, <1>3, OthersIs
  <2> QED BY <1>1, <1>3, <2>1 DEF OthersOk
<1> QED BY <1>1, <1>6, <1>11, <1>14, <1>15, KeptInd

\* A boot's view is what its mount found.
LEMMA MountedRing ==
  ASSUME NEW r, Body(flash, r, made), NEW l \in Layouts
  PROVE  /\ Body(flash, Booted(l), made) /\ CaptureOk(flash, Booted(l), "idle", NoRest, made)
         /\ Booted(l).layout = l /\ Booted(l).pending
<1>1. flash \in FlashPages /\ Fits(flash) /\ Headers(flash)
  BY DEF Body, Fits
<1>2. /\ Booted(l) \in Views /\ Booted(l).layout = l /\ Booted(l).pending
      /\ RunOk(flash, Booted(l)) /\ Finds(l, Booted(l))
  BY <1>1, BootedOk
<1>3. Body(flash, Booted(l), made) /\ Aligned(Booted(l)) /\ Len(Booted(l).stage) < DwData
  BY <1>2, MountKeeps
<1> QED BY <1>2, <1>3, RestingOk

LEMMA BootKeeps ==
  ASSUME GoesBack = FALSE, RingInd, Boot
  PROVE  RingInd'
<1>1. /\ events < MaxEvents /\ events' = events + 1 /\ at' = "idle" /\ rest' = NoRest
      /\ replay' = NoReplay /\ flash' = flash /\ sel' = sel /\ made' = made
  BY DEF Boot, Done
<1>2. PICK l \in Layouts : l <= sel /\ ram' = Booted(l)
  BY DEF Boot
<1>3. Body(flash, ram, made) /\ LayoutsUpTo(flash, sel) /\ OthersOk
  BY DEF RingInd, BootOk
<1>4. /\ Body(flash, Booted(l), made) /\ CaptureOk(flash, Booted(l), "idle", NoRest, made)
      /\ Booted(l).layout = l /\ Booted(l).pending
  BY <1>3, MountedRing
<1>5. Booted(l)' = Booted(l)
  BY <1>1 DEF Booted, Mounted, Newest, ValidPages, Matching, Chain, Continues, FoundRecords, Restored
<1>6. ram'.layout = l /\ ram'.pending /\ ram' = Booted(l)'
  BY <1>2, <1>4, <1>5
<1>7. BootOk'
  BY <1>1, <1>2, <1>3, <1>6 DEF BootOk
<1>8. OthersOk'
  <2>1. events' \in 0..MaxEvents
    BY <1>1, <1>3, OthersIs
  <2>2. NoReplay \in [on : BOOLEAN, held : BOOLEAN, cursor : Nat, end : Nat, last : Numbers,
                      layout : Layouts \union {0}]
    BY RingAssumption DEF NoReplay, Numbers
  <2> QED BY <1>1, <1>3, <2>1, <2>2 DEF OthersOk
<1> QED BY <1>1, <1>2, <1>4, <1>7, <1>8 DEF RingInd

-----------------------------------------------------------------------------
(* What is read                                                              *)

LEMMA PageOfIs ==
  ASSUME ram \in Views, NEW a \in Window, FirstAbs(ram) <= a
  PROVE  /\ ram.live # <<>> /\ PageOf(a) \in 1..Len(ram.live)
         /\ ram.live[PageOf(a)].first <= a
         /\ \A i \in 1..Len(ram.live) : ram.live[i].first <= a => i <= PageOf(a)
<1> DEFINE S == {i \in DOMAIN ram.live : ram.live[i].first <= a}
           n == Len(ram.live)
<1>1. ram.live # <<>>
  BY DEF Window
<1>2. /\ n \in Nat /\ 1 \in 1..n /\ DOMAIN ram.live = 1..n
  <2>1. n \in Nat /\ n >= 1 /\ ram.live \in Seq([first : Nat, phys : Phys])
    BY <1>1, ViewIs
  <2>2. DOMAIN ram.live = 1..n
    BY <2>1, LenProperties
  <2> HIDE DEF n
  <2> QED BY <2>1, <2>2
<1>3. ram.live[1].first <= a
  BY <1>1 DEF FirstAbs
<1> HIDE DEF n
<1>4. S \in SUBSET (0..n) /\ S # {}
  BY <1>2, <1>3
<1>5. PageOf(a) = Max(S)
  BY <1>4 DEF PageOf
<1>6. \A i \in S : i \in 1..n /\ ram.live[i].first <= a
  BY <1>2
<1>7. \A i \in 1..n : ram.live[i].first <= a => i \in S
  BY <1>2
<1> HIDE DEF S
<1>8. Max(S) \in S /\ \A i \in S : Max(S) >= i
  BY <1>2, <1>4, GreatestIs
<1>9. \A i \in S : i <= Max(S)
  BY <1>6, <1>8
<1> QED BY <1>1, <1>5, <1>6, <1>7, <1>8, <1>9 DEF n

LEMMA WindowIs ==
  ASSUME ram \in Views, RunOk(flash, ram), NEW a \in Window
  PROVE  a \in Nat /\ FirstAbs(ram) <= a /\ a < ram.abs
<1>1. ram.live # <<>> /\ a \in FirstAbs(ram)..(ram.abs - 1)
  BY DEF Window
<1>2. FirstAbs(ram) \in Nat /\ ram.abs \in Nat
  BY <1>1, ViewIs DEF FirstAbs
<1> QED BY <1>1, <1>2

\* Where the record of an ordinal lies.
PhysOf(a) == ram.live[PageOf(a)].phys
PlaceOf(a) == (a - ram.live[PageOf(a)].first) * HeadSize(ram)

\* A byte read at an ordinal: of its page and slot, in its place.
ReadAt(a, j, b) ==
  /\ Holds(flash, ram, PhysOf(a), PlaceOf(a) + j - 1, b)
  /\ PlaceOf(a) + j - 1 \in Nat /\ flash[PhysOf(a)].layout = ram.layout
  /\ ram.interval \in {0, flash[PhysOf(a)].interval}
  /\ SlotOf(flash, PhysOf(a), PlaceOf(a) + j - 1) = a - ram.live[PageOf(a)].first
  /\ (PlaceOf(a) + j - 1) % HeadSize(ram) = j - 1

LEMMA ReadIs ==
  ASSUME ram \in Views, flash \in FlashPages, RunOk(flash, ram), NEW a \in Window
  PROVE  /\ ram.live # <<>> /\ PageOf(a) \in 1..Len(ram.live) /\ PhysOf(a) \in Phys
         /\ a - ram.live[PageOf(a)].first \in Nat
         /\ Read(a) # <<>> =>
              /\ Read(a) = [j \in 1..HeadSize(ram) |-> ByteAt(PageOf(a), PlaceOf(a) + j - 1)]
              /\ \A j \in 1..HeadSize(ram) :
                   /\ ByteAt(PageOf(a), PlaceOf(a) + j - 1) \in Byte
                   /\ ByteAt(PageOf(a), PlaceOf(a) + j - 1)[1] > 0
                        => ReadAt(a, j, ByteAt(PageOf(a), PlaceOf(a) + j - 1))
<1> DEFINE i == PageOf(a)
           p == PhysOf(a)
           size == HeadSize(ram)
           k == a - ram.live[i].first
           from == PlaceOf(a)
<1>1. a \in Nat /\ FirstAbs(ram) <= a
  BY WindowIs
<1>2. ram.live # <<>> /\ i \in 1..Len(ram.live) /\ ram.live[i].first <= a
  BY <1>1, PageOfIs
<1>3. ram.live[i].first \in Nat /\ p \in Phys /\ p = ram.live[i].phys
  BY <1>2, ViewIs DEF PhysOf
<1>4. k \in Nat
  BY <1>1, <1>2, <1>3
<1>5. size \in Nat \ {0} /\ from = k * size
  BY ViewIs DEF PlaceOf
<1>6. from \in Nat
  <2> HIDE DEF k, size, from
  <2> QED BY <1>4, <1>5
<1>7. Chained(flash, ram, i)
  BY <1>2 DEF RunOk, Run
<1>8. /\ ram.dw * DwData \in Nat /\ ram.stage \in Seq(Byte) /\ DwData \in Nat \ {0}
      /\ flash[p].dws \in Seq([1..DwData -> Byte]) /\ Len(flash[p].dws) \in Nat
  BY <1>3, ViewIs, FlashIs, SizesAre
<1>9. HeadPage(ram) = ram.live[Len(ram.live)] /\ HeadPage(ram).phys \in Phys
  BY <1>2, ViewIs
<1> HIDE DEF i, p, size, k, from
<1>10. ASSUME NEW j \in 1..size
       PROVE  /\ from + j - 1 \in Nat /\ (from + j - 1) \div size = k
              /\ (from + j - 1) % size = j - 1
  <2> DEFINE z == k * size
  <2>1. z \in Nat /\ j - 1 \in 0..(size - 1) /\ k \in Int /\ from + j - 1 = z + (j - 1)
    BY <1>4, <1>5, <1>6
  <2>2. (z + (j - 1)) % size = j - 1 /\ (z + (j - 1)) \div size = k
    BY <1>5, <2>1, ModUnique
  <2> HIDE DEF z
  <2>3. z + (j - 1) \in Nat
    BY <1>5, <2>1
  <2> QED BY <2>1, <2>2, <2>3
<1>11. ASSUME NEW d \in Nat, Readable(i, d)
       PROVE  /\ ByteAt(i, d) \in Byte
              /\ ByteAt(i, d)[1] > 0 => Holds(flash, ram, p, d, ByteAt(i, d)) /\ LivePage(flash, ram, i)
  <2>1. CASE InStage(i, d)
    <3> DEFINE e == d - (ram.dw * DwData)
    <3>1. d - (ram.dw * DwData) < Len(ram.stage)
      BY <1>11, <2>1 DEF Readable
    <3>2. p = HeadPage(ram).phys /\ d >= ram.dw * DwData
      BY <1>3, <2>1 DEF InStage
    <3>3. ByteAt(i, d) = ram.stage[d - (ram.dw * DwData) + 1]
      BY <2>1 DEF ByteAt
    <3>4. e + 1 \in 1..Len(ram.stage)
      <4>1. Len(ram.stage) \in Nat
        BY <1>8, LenProperties
      <4> QED BY <1>8, <3>1, <3>2, <4>1
    <3>5. ByteAt(i, d) \in Byte
      <4> HIDE DEF e
      <4>1. ram.stage[e + 1] \in Byte
        BY <1>8, <3>4, ElementOfSeq
      <4> QED BY <3>3, <4>1 DEF e
    <3>6. InStaged(ram, p, d, ByteAt(i, d))
      BY <1>2, <3>1, <3>2, <3>3 DEF InStaged
    <3>7. LivePage(flash, ram, i)
      <4>1. ram.last = p /\ After(ram.last) # ram.last
        BY <1>2, <3>2, ViewIs, AfterIs DEF RunOk, Run
      <4>2. ~Erasing(flash, ram, i)
        BY <1>3, <4>1 DEF Erasing
      <4> QED BY <1>7, <4>2 DEF Chained
    <3> QED BY <3>5, <3>6, <3>7 DEF Holds
  <2>2. CASE ~InStage(i, d)
    <3>1. ByteAt(i, d) = Flash(p, d)
      BY <1>3, <2>2 DEF ByteAt
    <3>2. CASE d \div DwData < Len(flash[p].dws)
      <4> DEFINE q == d \div DwData
                 m == d % DwData
      <4>1. q \in Nat /\ m \in 0..(DwData - 1)
        BY <1>8, DivMod
      <4>2. d < Len(flash[p].dws) * DwData
        BY <1>8, <3>2, InPart
      <4>3. Flash(p, d) = flash[p].dws[q + 1][m + 1]
        BY <3>2 DEF Flash
      <4> HIDE DEF q, m
      <4>4. q + 1 \in 1..Len(flash[p].dws) /\ m + 1 \in 1..DwData
        BY <1>8, <3>2, <4>1 DEF q
      <4>5. flash[p].dws[q + 1] \in [1..DwData -> Byte]
        BY <1>8, <4>4, ElementOfSeq
      <4>6. Flash(p, d) \in Byte
        BY <4>3, <4>4, <4>5
      <4>7. ~Erasing(flash, ram, i)
        <5>1. Len(Blank.dws) = 0 /\ Len(flash[p].dws) # 0
          BY <1>8, <4>4, BlankIs
        <5>2. Erasing(flash, ram, i) => flash[p] = Blank
          BY <1>3 DEF Erasing
        <5> QED BY <5>1, <5>2
      <4>8. LivePage(flash, ram, i)
        BY <1>7, <4>7 DEF Chained
      <4>9. InWords(flash[p].dws, d, Flash(p, d)) /\ flash[p].valid
        BY <1>3, <4>2, <4>3, <4>8 DEF InWords, LivePage, q, m
      <4> QED BY <3>1, <4>6, <4>8, <4>9 DEF Holds
    <3>3. CASE ~(d \div DwData < Len(flash[p].dws))
      <4>1. Flash(p, d) = Erased
        BY <3>3 DEF Flash
      <4> QED BY <3>1, <4>1 DEF Erased, Byte
    <3> QED BY <3>2, <3>3
  <2> QED BY <2>1, <2>2
<1>12. ASSUME Read(a) # <<>>
       PROVE  /\ Read(a) = [j \in 1..size |-> ByteAt(i, from + j - 1)]
              /\ \A j \in 0..(size - 1) : Readable(i, from + j)
  BY <1>12 DEF Read, HeadSize, PlaceOf, i, size, from
<1>13. ASSUME Read(a) # <<>>, NEW j \in 1..size
       PROVE  /\ ByteAt(i, from + j - 1) \in Byte
              /\ ByteAt(i, from + j - 1)[1] > 0 => ReadAt(a, j, ByteAt(i, from + j - 1))
  <2> DEFINE d == from + j - 1
  <2>1. d \in Nat /\ d \div size = k /\ d % size = j - 1
    BY <1>10
  <2>2. Readable(i, d)
    <3>1. j - 1 \in 0..(size - 1) /\ from + (j - 1) = d
      BY <1>5, <1>6
    <3>2. Readable(i, from + (j - 1))
      BY <1>12, <1>13, <3>1
    <3> QED BY <3>1, <3>2
  <2> HIDE DEF d
  <2>3. /\ ByteAt(i, d) \in Byte
        /\ ByteAt(i, d)[1] > 0 => Holds(flash, ram, p, d, ByteAt(i, d)) /\ LivePage(flash, ram, i)
    BY <1>11, <2>1, <2>2
  <2>4. LivePage(flash, ram, i) => /\ flash[p].layout = ram.layout
                                   /\ ram.interval \in {0, flash[p].interval}
                                   /\ SlotOf(flash, p, d) = k
    BY <1>3, <2>1 DEF LivePage, SlotOf, HeadSize, size
  <2>5. d = PlaceOf(a) + j - 1
    BY DEF d, from
  <2> QED BY <2>1, <2>3, <2>4, <2>5 DEF ReadAt, d, from, p, size, k, i
<1> QED BY <1>2, <1>3, <1>4, <1>12, <1>13 DEF i, p, size, k, from

LEMMA BytesAre ==
  ASSUME NEW b \in Byte
  PROVE  /\ b[1] \in Int /\ b[2] \in Nat
         /\ b[1] > 0 => b[1] \in Numbers
<1>1. CASE b = Zero
  BY <1>1 DEF Zero
<1>2. CASE b = Erased
  BY <1>2 DEF Erased
<1>3. CASE b \in Numbers \X Nat
  BY <1>3, RingAssumption DEF Numbers
<1> QED BY <1>1, <1>2, <1>3 DEF Byte

LEMMA NumberIs ==
  ASSUME ram \in Views, flash \in FlashPages, RunOk(flash, ram), NEW a \in Window
  PROVE  /\ NumberOf(Read(a)) \in Numbers
         /\ NumberOf(Read(a)) # 0 =>
              /\ Read(a) # <<>> /\ Read(a) = Record(NumberOf(Read(a)), ram.layout)
              /\ NumberOf(Read(a)) > 0
<1>1. CASE Read(a) = <<>>
  BY <1>1, RingAssumption DEF NumberOf, Numbers
<1>2. CASE Read(a) # <<>>
  <2> DEFINE b == ByteAt(PageOf(a), PlaceOf(a) + 1 - 1)
  <2>1. 1 \in 1..HeadSize(ram)
    BY ViewIs
  <2>2. Read(a)[1] = b /\ b \in Byte
    BY <1>2, <2>1, ReadIs
  <2>3. Read(a)[1][1] > 0 => Read(a)[1][1] \in Numbers
    BY <2>2, BytesAre
  <2> QED BY <1>2, <2>3, RingAssumption DEF NumberOf, Numbers
<1> QED BY <1>1, <1>2

\* The oldest ordinal is no later than the next one.
LEMMA FirstIs ==
  ASSUME RingInd
  PROVE  FirstAbs(ram) \in Nat /\ ram.abs \in Nat /\ ram.layout \in Layouts
<1>1. ram \in Views
  BY DEF RingInd, Body
<1>2. CASE ram.live = <<>>
  BY <1>1, <1>2, ViewIs DEF FirstAbs
<1>3. CASE ram.live # <<>>
  <2>1. 1 \in 1..Len(ram.live)
    BY <1>1, <1>3, ViewIs
  <2> QED BY <1>1, <1>3, <2>1, ViewIs DEF FirstAbs
<1> QED BY <1>2, <1>3

\* A replay sends the first record from its cursor on that can be read.
LEMMA ExportIs ==
  ASSUME RingInd, ExportFrame
  PROVE  LET a == Min(Exportable)
             n == NumberOf(Read(a))
         IN /\ a \in Window /\ a \in Nat /\ replay.cursor <= a /\ a < replay.end /\ n \in Numbers
            /\ replay.held
            /\ replay' = [replay EXCEPT !.cursor = a + 1,
                                         !.last = IF n = 0 THEN replay.last ELSE n]
            /\ UNCHANGED <<flash, ram, at, rest, sel, made, events>>
<1> DEFINE a == Min(Exportable)
<1>1. ram \in Views /\ flash \in FlashPages /\ RunOk(flash, ram)
  BY DEF RingInd, Body
<1>2. Exportable # {} /\ Exportable \in SUBSET Nat
  BY <1>1, WindowIs DEF Exportable, ExportFrame
<1>3. a \in Exportable
  BY <1>2, LeastIs
<1>4. a \in Nat /\ a \in Window /\ replay.cursor <= a /\ a < replay.end
  BY <1>2, <1>3 DEF Exportable
<1>5. NumberOf(Read(a)) \in Numbers
  <2> HIDE DEF a
  <2> QED BY <1>1, <1>4, NumberIs
<1> QED BY <1>4, <1>5 DEF ExportFrame

\* The replay's steps leave the ring alone.
LEMMA ReplaysKeep ==
  ASSUME RingInd, StartReplay \/ HoldRollover \/ ExportFrame \/ EndReplay
  PROVE  RingInd'
<1> DEFINE R == [on : BOOLEAN, held : BOOLEAN, cursor : Nat, end : Nat, last : Numbers,
                 layout : Layouts \union {0}]
<1>1. OthersOk /\ sel \in Layouts /\ sel <= sel /\ replay \in R /\ 0 \in Numbers
  BY SelIs, RingAssumption DEF RingInd, OthersOk, Numbers
<1>2. flash' = flash /\ ram' = ram /\ at' = at /\ rest' = rest /\ sel' = sel /\ made' = made
  BY DEF StartReplay, HoldRollover, ExportFrame, EndReplay
<1>3. events' \in 0..MaxEvents
  BY <1>1, OthersIs DEF StartReplay, HoldRollover, ExportFrame, EndReplay
<1>4. replay' \in R
  <2>1. CASE StartReplay
    <3>1. /\ FirstAbs(ram) \in Nat /\ ram.abs \in Nat
          /\ (IF ram.pending THEN 0 ELSE ram.layout) \in Layouts \union {0}
      BY FirstIs
    <3>2. replay' = [on |-> TRUE, held |-> FALSE, cursor |-> FirstAbs(ram), end |-> ram.abs, last |-> 0,
                     layout |-> IF ram.pending THEN 0 ELSE ram.layout]
      BY <2>1 DEF StartReplay
    <3> QED BY <1>1, <3>1, <3>2
  <2>2. CASE HoldRollover
    BY <1>1, <2>2 DEF HoldRollover
  <2>3. CASE ExportFrame
    <3> DEFINE a == Min(Exportable)
               n == NumberOf(Read(a))
               last == IF n = 0 THEN replay.last ELSE n
    <3>1. a \in Nat /\ n \in Numbers /\ replay' = [replay EXCEPT !.cursor = a + 1, !.last = last]
      BY <2>3, ExportIs
    <3> HIDE DEF a, n
    <3>2. a + 1 \in Nat /\ last \in Numbers
      BY <1>1, <3>1
    <3> HIDE DEF last
    <3> QED BY <1>1, <3>1, <3>2
  <2>4. CASE EndReplay
    BY <1>1, <2>4 DEF EndReplay, NoReplay
  <2> QED BY <2>1, <2>2, <2>3, <2>4
<1>5. OthersOk'
  BY <1>1, <1>2, <1>3, <1>4 DEF OthersOk
<1> QED BY <1>1, <1>2, <1>5, SameRing

LEMMA CapturesKeep ==
  ASSUME GoesBack = FALSE, RingInd, NEW i \in Intervals, NEW split \in BOOLEAN, Capture(i, split)
  PROVE  RingInd'
<1>1. /\ Len(made) < MaxRecords /\ made' = Append(made, [layout |-> sel, interval |-> i])
      /\ flash' = flash /\ sel' = sel /\ replay' = replay /\ events' = events
  BY DEF Capture
<1>2. OthersOk /\ LayoutsUpTo(flash, sel)
  BY DEF RingInd, BootOk
<1>3. made' \in Takes /\ Len(made') = Len(made) + 1
  <2>1. [layout |-> sel, interval |-> i] \in [layout : Layouts, interval : Intervals]
    BY <1>2 DEF OthersOk
  <2> QED BY <1>1, <1>2, <2>1, OthersIs, AppendProperties DEF Takes
<1>4. OthersOk'
  BY <1>1, <1>2, <1>3, OthersIs DEF OthersOk
<1>5. Kept(flash, made')
  BY CaptureKeeps
<1> QED BY <1>1, <1>2, <1>4, <1>5, KeptInd

LEMMA RingStarts ==
  ASSUME Init
  PROVE  RingInd /\ ram.pending
<1>1. /\ flash = [p \in Phys |-> Blank] /\ sel = 1 /\ ram = Booted(1) /\ at = "idle"
      /\ rest = NoRest /\ replay = NoReplay /\ made = <<>> /\ events = 0
  BY DEF Init
<1>2. 1 \in Layouts
  BY RingAssumption, LenProperties, EmptySeq DEF Layouts
<1>3. /\ flash \in FlashPages /\ Headers(flash) /\ \A p \in Phys : ~flash[p].valid
      /\ Fits(flash) /\ LayoutsUpTo(flash, sel)
  <2>1. flash \in FlashPages /\ \A p \in Phys : flash[p] = Blank
    BY <1>1, BlankIs DEF FlashPages
  <2>2. \A p \in Phys : ~flash[p].valid /\ Len(flash[p].dws) = 0
    BY <2>1, BlankIs
  <2> QED BY <2>1, <2>2, SizesAre DEF Headers, Fits, LayoutsUpTo
<1>4. /\ ram \in Views /\ ram.layout = 1 /\ ram.pending /\ RunOk(flash, ram) /\ Finds(1, ram)
  BY <1>1, <1>2, <1>3, BootedOk
<1>5. ram.live = <<>> /\ ram.stage = <<>>
  <2>1. Matching(1) = {}
    BY <1>3 DEF Matching, ValidPages
  <2> QED BY <1>4, <2>1 DEF Finds
<1>6. \A p \in Phys, d \in Nat, b \in Byte : ~Holds(flash, ram, p, d, b)
  BY <1>3, <1>5 DEF Holds, InStaged
<1>7. Body(flash, ram, made)
  BY <1>3, <1>4, <1>5, <1>6 DEF Body, HasRoom, Placed, Ordered, Fits
<1>8. CaptureOk(flash, ram, at, rest, made)
  <2>1. Aligned(ram) /\ Len(ram.stage) < DwData
    BY <1>4, <1>5, ViewIs, SizesAre DEF Aligned
  <2> QED BY <1>1, <2>1, RestingOk
<1>9. OthersOk
  <2>1. NoReplay \in [on : BOOLEAN, held : BOOLEAN, cursor : Nat, end : Nat, last : Numbers,
                      layout : Layouts \union {0}]
    BY RingAssumption DEF NoReplay, Numbers
  <2>2. made \in Takes /\ Len(made) = 0
    BY <1>1, EmptySeq DEF Takes
  <2> QED BY <1>1, <1>2, <2>1, <2>2, RingAssumption DEF OthersOk
<1>10. BootOk
  BY <1>1, <1>2, <1>3, <1>4, SizesAre DEF BootOk
<1> QED BY <1>4, <1>7, <1>8, <1>9, <1>10 DEF RingInd

\* The invariant of every step, which the theorems rest on.
LEMMA RingIndNext ==
  ASSUME GoesBack = FALSE, RingInd, [Next]_vars
  PROVE  RingInd'
<1>1. CASE \E i \in Intervals, split \in BOOLEAN : Capture(i, split)
  BY <1>1, CapturesKeep
<1>2. CASE Flashes
  BY <1>2, FlashesKeep
<1>3. CASE Retype
  BY <1>3, RetypeKeeps
<1>4. CASE SetChannels
  BY <1>4, SetChannelsKeeps
<1>5. CASE Clear
  BY <1>5, ClearKeeps
<1>6. CASE Boot
  BY <1>6, BootKeeps
<1>7. CASE StartReplay \/ HoldRollover \/ ExportFrame \/ EndReplay
  BY <1>7, ReplaysKeep
<1>8. CASE UNCHANGED vars
  <2>1. OthersOk /\ sel \in Layouts /\ sel <= sel
    BY SelIs DEF RingInd
  <2>2. OthersOk'
    BY <1>8, <2>1 DEF vars, OthersOk
  <2> QED BY <1>8, <2>1, <2>2, SameRing DEF vars
<1> QED BY <1>1, <1>2, <1>3, <1>4, <1>5, <1>6, <1>7, <1>8 DEF Next

-----------------------------------------------------------------------------
(* The ring can be read                                                      *)

LEMMA TypeFollows ==
  ASSUME RingInd
  PROVE  TypeOK
<1>1. /\ OthersOk /\ flash \in FlashPages /\ ram \in Views /\ RunOk(flash, ram)
      /\ \A p \in Phys : Len(flash[p].dws) <= PayloadDw
      /\ CaptureOk(flash, ram, at, rest, made)
  BY DEF RingInd, Body
<1>2. Len(ram.live) <= NPages
  BY <1>1, ViewIs, SizesAre DEF RunOk, Run
<1>3. Len(ram.stage) <= DwData /\ (at # "stream" => Len(ram.stage) < DwData)
  <2>1. CASE at = "stream"
    BY <1>1, <2>1, SizesAre DEF CaptureOk, Capturing, Taking
  <2>2. CASE at # "stream"
    BY <1>1, <2>2, ViewIs, SizesAre DEF CaptureOk
  <2> QED BY <2>1, <2>2
<1>4. /\ at \in {"idle", "split", "close", "erase", "header", "stream", "tail"}
      /\ rest \in [left : Seq(Byte), dw : 0..PayloadDw, staged : 0..DwData]
  BY <1>1 DEF CaptureOk, Waiting, Rests
<1> QED BY <1>1, <1>2, <1>3, <1>4 DEF TypeOK, OthersOk, Views, FlashPages, Takes

LEMMA NextPage ==
  ASSUME NEW p \in Phys, NEW k \in 0..(NPages - 2)
  PROVE  Behind(p, k) = After(Behind(p, k + 1))
<1> DEFINE q == Behind(p, k + 1)
<1>1. NPages \in Nat /\ NPages >= 3 /\ p \in 0..(NPages - 1) /\ k \in Nat
  BY SizesAre DEF Phys
<1>2. q \in 0..(NPages - 1) /\ (q + 1 = NPages => Behind(p, k) = 0)
      /\ (q + 1 < NPages => Behind(p, k) = q + 1)
  BY <1>1 DEF Behind
<1> HIDE DEF q
<1>3. CASE q + 1 = NPages
  <2>1. (q + 1) % NPages = 0
    BY <1>1, <1>3
  <2> QED BY <1>2, <1>3, <2>1 DEF After, q
<1>4. CASE q + 1 < NPages
  <2>1. (q + 1) % NPages = q + 1
    BY <1>1, <1>2, <1>4
  <2> QED BY <1>2, <1>4, <2>1 DEF After, q
<1> QED BY <1>1, <1>2, <1>3, <1>4

LEMMA OneRunFollows ==
  ASSUME RingInd
  PROVE  OneRun
<1>1. flash \in FlashPages /\ ram \in Views /\ RunOk(flash, ram)
  BY DEF RingInd, Body
<1> DEFINE n == Len(ram.live)
<1>2. DOMAIN ram.live = 1..n /\ n \in Nat
  BY <1>1, ViewIs, LenProperties
<1> HIDE DEF n
<1> SUFFICES ASSUME NEW i \in 1..n
             PROVE  LET lp == ram.live[i]
                        page == flash[lp.phys]
                        next == IF i = n THEN ram.abs ELSE ram.live[i + 1].first
                    IN /\ lp.first <= next /\ next <= lp.first + PerPage(ram.layout)
                       /\ i < n => ram.live[i + 1].phys = After(lp.phys)
                       /\ \/ /\ page.valid /\ page.first = lp.first /\ page.layout = ram.layout
                             /\ ram.interval \in {0, page.interval}
                          \/ i = 1 /\ page = Blank /\ lp.phys = After(ram.last)
  BY <1>2 DEF OneRun, n
<1>3. ram.live # <<>>
  BY <1>1, <1>2, ViewIs DEF n
<1>4. /\ n <= NPages /\ HeadPage(ram).first <= ram.abs
      /\ ram.abs <= HeadPage(ram).first + PerPage(ram.layout)
      /\ Chained(flash, ram, i) /\ (i < n => Chained(flash, ram, i + 1))
      /\ HeadPage(ram) = ram.live[n] /\ ram.last \in Phys
  <2>1. Run(flash, ram) /\ HeadPage(ram) = ram.live[n] /\ ram.last \in Phys
    BY <1>1, <1>3, ViewIs DEF RunOk, n
  <2>2. \A x \in 1..n : Chained(flash, ram, x)
    BY <2>1 DEF Run, n
  <2>3. i < n => i + 1 \in 1..n
    BY <1>2
  <2> QED BY <2>1, <2>2, <2>3 DEF Run, n
<1>5. i = n => /\ ram.live[i].first <= ram.abs
               /\ ram.abs <= ram.live[i].first + PerPage(ram.layout)
  BY <1>4
<1>6. i # n => i < n
  BY <1>2
<1>7. i < n => /\ ram.live[i].first <= ram.live[i + 1].first
               /\ ram.live[i + 1].first <= ram.live[i].first + PerPage(ram.layout)
  BY <1>4 DEF Chained, n
<1>8. ASSUME i < n PROVE ram.live[i + 1].phys = After(ram.live[i].phys)
  <2> DEFINE k == n - (i + 1)
  <2>1. k \in 0..(NPages - 2) /\ k + 1 = n - i
    BY <1>2, <1>4, <1>8, SizesAre
  <2>2. ram.live[i].phys = Behind(ram.last, k + 1) /\ ram.live[i + 1].phys = Behind(ram.last, k)
    BY <1>4, <1>8, <2>1 DEF Chained, n
  <2> HIDE DEF k
  <2> QED BY <1>4, <2>1, <2>2, NextPage
<1>9. LivePage(flash, ram, i) \/ (i = 1 /\ Erasing(flash, ram, i))
  BY <1>4 DEF Chained, Erasing
<1> QED BY <1>5, <1>6, <1>7, <1>8, <1>9 DEF LivePage, Erasing

LEMMA InPlaceFollows ==
  ASSUME RingInd
  PROVE  RecordsInPlace
<1>1. /\ flash \in FlashPages /\ ram \in Views /\ RunOk(flash, ram)
      /\ Placed(flash, ram, made) /\ Ordered(flash, ram)
  BY DEF RingInd, Body
<1> SUFFICES ASSUME NEW a \in Window PROVE InPlace(a)
  BY DEF RecordsInPlace
<1> DEFINE bytes == Read(a)
           size == HeadSize(ram)
           p == PhysOf(a)
           d(j) == PlaceOf(a) + j - 1
<1>2. CASE bytes = <<>>
  <2>1. DOMAIN <<>> = {}
    OBVIOUS
  <2> QED BY <1>2, <2>1 DEF InPlace
<1>3. CASE bytes # <<>>
  <2>1. /\ p \in Phys /\ bytes = [j \in 1..size |-> ByteAt(PageOf(a), d(j))]
        /\ \A j \in 1..size : /\ ByteAt(PageOf(a), d(j)) \in Byte
                              /\ ByteAt(PageOf(a), d(j))[1] > 0 => ReadAt(a, j, ByteAt(PageOf(a), d(j)))
    BY <1>1, <1>3, ReadIs
  <2> HIDE DEF bytes, size
  <2>2. /\ DOMAIN bytes = 1..size
        /\ \A j \in 1..size : bytes[j] \in Byte /\ (bytes[j][1] > 0 => ReadAt(a, j, bytes[j]))
    BY <2>1
  <2>3. ASSUME NEW j \in 1..size, bytes[j][1] > 0
        PROVE  /\ bytes[j][2] = j
               /\ made[bytes[j][1]].layout = ram.layout
               /\ ram.interval \in {0, made[bytes[j][1]].interval}
               /\ \A k \in 1..size : bytes[k][1] > 0 => bytes[k][1] = bytes[j][1]
    <3>1. ReadAt(a, j, bytes[j]) /\ bytes[j] \in Byte
      BY <2>2, <2>3
    <3>2. /\ Holds(flash, ram, p, d(j), bytes[j]) /\ d(j) \in Nat /\ flash[p].layout = ram.layout
          /\ ram.interval \in {0, flash[p].interval} /\ d(j) % size = j - 1
      BY <3>1 DEF ReadAt, size
    <3>3. PlacedAt(flash, made, p, d(j), bytes[j])
      BY <1>1, <2>1, <3>1, <3>2 DEF Placed
    <3>4. SampleSize[flash[p].layout] = size
      BY <3>2 DEF HeadSize, size
    <3>5. bytes[j][2] = (j - 1) + 1
      BY <3>2, <3>3, <3>4 DEF PlacedAt
    <3>6. bytes[j][2] = j
      BY <3>5, <1>1, ViewIs DEF size
    <3>7. ASSUME NEW k \in 1..size, bytes[k][1] > 0 PROVE bytes[k][1] = bytes[j][1]
      <4>1. ReadAt(a, k, bytes[k]) /\ bytes[k] \in Byte
        BY <2>2, <3>7
      <4>2. /\ Holds(flash, ram, p, d(k), bytes[k]) /\ d(k) \in Nat
            /\ SlotOf(flash, p, d(k)) = SlotOf(flash, p, d(j))
        BY <3>1, <4>1 DEF ReadAt
      <4> HIDE DEF d, p
      <4>3. InOrder(flash, p, d(k), bytes[k], p, d(j), bytes[j])
        BY <1>1, <2>1, <3>1, <3>2, <4>1, <4>2 DEF Ordered
      <4> QED BY <4>2, <4>3 DEF InOrder
    <3> QED BY <3>2, <3>3, <3>6, <3>7 DEF PlacedAt
  <2> QED BY <2>2, <2>3 DEF InPlace, bytes
<1> QED BY <1>2, <1>3

-----------------------------------------------------------------------------
(* What a reset leaves                                                       *)

\* A run that was not just mounted has its interval.
IntervalKnown == ~ram.pending /\ ram.live # <<>> => ram.interval # 0

LEMMA IntervalNext ==
  ASSUME GoesBack = FALSE, RingInd, IntervalKnown, [Next]_vars
  PROVE  IntervalKnown'
<1>1. ram \in Views /\ sel \in Layouts /\ LayoutsUpTo(flash, sel) /\ made \in Takes
  BY SelIs DEF RingInd, Body, BootOk, OthersOk
<1>2. CASE \E i \in Intervals, split \in BOOLEAN : Capture(i, split)
  <2>1. PICK i \in Intervals, split \in BOOLEAN : Capture(i, split)
    BY <1>2
  <2>2. at = "idle" /\ (~ram.pending \/ ~replay.held)
    BY <2>1 DEF Capture
  <2>3. Ready(i).interval = i /\ Onward(flash, Ready(i), flash, ram', Len(made'))
    BY <2>1, <2>2, ReadyOk, CaptureKeeps
  <2>4. ram'.interval = i /\ i # 0
    BY <2>3, RingAssumption DEF Onward, SameKind
  <2> QED BY <2>4 DEF IntervalKnown
<1>3. CASE Flashes
  <2>1. Onward(flash, ram, flash', ram', Len(made)) /\ at # "idle"
    BY <1>3, FlashesKeep DEF Flashes, SplitWrites, CloseWrites, PageErases, HeaderWrites, StreamWrites,
       TailWrites
  <2>2. CaptureOk(flash, ram, at, rest, made) /\ ~ram.pending
    BY <2>1, UnderWayIs
  <2>3. ram.interval # 0
    <3>1. CASE at = "tail"
      BY <2>2, <3>1 DEF CaptureOk, IntervalKnown
    <3>2. CASE at # "tail"
      <4>1. made # <<>> /\ made[Len(made)].interval = ram.interval
        BY <2>1, <2>2, <3>2 DEF CaptureOk, Capturing, Taking
      <4>2. Len(made) \in 1..Len(made)
        BY <1>1, <4>1, LenProperties, EmptySeq DEF Takes
      <4>3. made[Len(made)] \in [layout : Layouts, interval : Intervals]
        BY <1>1, <4>2, ElementOfSeq DEF Takes
      <4> QED BY <4>1, <4>3, RingAssumption
    <3> QED BY <3>1, <3>2
  <2> QED BY <2>1, <2>3 DEF Onward, SameKind, IntervalKnown
<1>4. CASE SetChannels
  <2>1. at = "idle" /\ ~ram.pending /\ ram' = [AtLayout(ram, sel) EXCEPT !.pending = FALSE]
    BY <1>4 DEF SetChannels
  <2>2. Good(ram, sel)
    BY <2>1, RemountedOk
  <2> DEFINE x == AtLayout(ram, sel)
             s == [x EXCEPT !.pending = FALSE]
  <2>3. Good(x, sel) /\ x.interval = ram.interval /\ (x = ram \/ x.live = <<>>)
    BY <1>1, <2>2, AtLayoutOk
  <2>4. ram' = s
    BY <2>1
  <2> HIDE DEF x
  <2>5. s.interval = x.interval /\ s.live = x.live
    BY <2>3, SettledOk
  <2> QED BY <2>1, <2>3, <2>4, <2>5 DEF IntervalKnown
<1>5. CASE Clear
  <2> DEFINE x == Reset(ram)
  <2>1. ram' = [x EXCEPT !.pending = FALSE]
    BY <1>5 DEF Clear
  <2>2. x \in Views /\ x.live = <<>>
    BY <1>1, ResetIs DEF NoRun
  <2> HIDE DEF x
  <2>3. [x EXCEPT !.pending = FALSE].live = x.live
    BY <2>2, FlagsAre
  <2> QED BY <2>1, <2>2, <2>3 DEF IntervalKnown
<1>6. CASE Boot
  <2>1. PICK l \in Layouts : ram' = Booted(l)
    BY <1>6 DEF Boot
  <2>2. Booted(l).pending
    BY <2>1, MountedRing DEF RingInd
  <2> QED BY <2>1, <2>2 DEF IntervalKnown
<1>7. CASE Retype \/ StartReplay \/ HoldRollover \/ ExportFrame \/ EndReplay \/ UNCHANGED vars
  <2>1. ram' = ram
    BY <1>7 DEF Retype, StartReplay, HoldRollover, ExportFrame, EndReplay, vars
  <2> QED BY <2>1 DEF IntervalKnown
<1> QED BY <1>2, <1>3, <1>4, <1>5, <1>6, <1>7 DEF Next

\* Reading, by the flash, the view and the page.
InStageOf(r, i, d) == r.live[i].phys = HeadPage(r).phys /\ d >= r.dw * DwData
FlashOf(f, p, d) ==
  IF d \div DwData < Len(f[p].dws) THEN f[p].dws[(d \div DwData) + 1][(d % DwData) + 1] ELSE Erased
ReadableOf(r, i, d) == InStageOf(r, i, d) => d - r.dw * DwData < Len(r.stage)
ByteOf(f, r, i, d) ==
  IF InStageOf(r, i, d) THEN r.stage[d - r.dw * DwData + 1] ELSE FlashOf(f, r.live[i].phys, d)
ReadOf(f, r, i, a) ==
  LET size == SampleSize[r.layout]
      from == (a - r.live[i].first) * size
  IN IF \A j \in 0..(size - 1) : ReadableOf(r, i, from + j)
     THEN [j \in 1..size |-> ByteOf(f, r, i, from + j - 1)]
     ELSE <<>>

LEMMA ReadOfIs == \A a : Read(a) = ReadOf(flash, ram, PageOf(a), a)
<1> TAKE a
<1> DEFINE i == PageOf(a)
           size == SampleSize[ram.layout]
           from == (a - ram.live[i].first) * size
<1>1. \A d : InStage(i, d) <=> InStageOf(ram, i, d)
  BY DEF InStage, InStageOf
<1>2. \A d : Readable(i, d) <=> ReadableOf(ram, i, d)
  BY <1>1 DEF Readable, ReadableOf
<1>3. \A d : Flash(ram.live[i].phys, d) = FlashOf(flash, ram.live[i].phys, d)
  BY DEF Flash, FlashOf
<1>4. \A d : ByteAt(i, d) = ByteOf(flash, ram, i, d)
  BY <1>1, <1>3 DEF ByteAt, ByteOf
<1>5. Read(a) = IF \A j \in 0..(size - 1) : Readable(i, from + j)
                THEN [j \in 1..size |-> ByteAt(i, from + j - 1)] ELSE <<>>
  BY DEF Read
<1>6. ReadOf(flash, ram, i, a) = IF \A j \in 0..(size - 1) : ReadableOf(ram, i, from + j)
                                THEN [j \in 1..size |-> ByteOf(flash, ram, i, from + j - 1)] ELSE <<>>
  BY DEF ReadOf
<1> HIDE DEF i, size, from
<1>7. [j \in 1..size |-> ByteAt(i, from + j - 1)] = [j \in 1..size |-> ByteOf(flash, ram, i, from + j - 1)]
  BY <1>4
<1>8. (\A j \in 0..(size - 1) : Readable(i, from + j)) <=>
      (\A j \in 0..(size - 1) : ReadableOf(ram, i, from + j))
  BY <1>2
<1>9. Read(a) = ReadOf(flash, ram, i, a)
  BY <1>5, <1>6, <1>7, <1>8
<1> QED BY <1>9 DEF i

\* Two views read a record that is not staged alike.
LEMMA ReadsAlike ==
  ASSUME NEW f, NEW r \in Views, NEW s \in Views, NEW i, NEW j, NEW a, s.layout = r.layout,
         s.live[j] = r.live[i], r.live[i].first \in Nat, a \in Nat, r.live[i].first <= a,
         HeadPage(s).phys = HeadPage(r).phys, s.dw = r.dw,
         ~InStageOf(r, i, (a + 1 - r.live[i].first) * SampleSize[r.layout] - 1)
  PROVE  ReadOf(f, s, j, a) = ReadOf(f, r, i, a)
<1> DEFINE size == SampleSize[r.layout]
           k == a - r.live[i].first
           from == k * size
           W == r.dw * DwData
<1>1. size \in Nat \ {0} /\ k \in Nat /\ W \in Nat
  <2>1. HeadSize(r) \in Nat \ {0} /\ W \in Nat
    BY ViewIs
  <2> QED BY <2>1 DEF HeadSize
<1>2. from \in Nat /\ (k + 1) * size = from + size /\ a + 1 - r.live[i].first = k + 1
  <2>1. a + 1 - r.live[i].first = k + 1
    OBVIOUS
  <2> HIDE DEF k, size
  <2> QED BY <1>1, <2>1, Products
<1>3. r.live[i].phys = HeadPage(r).phys => (from + size) - 1 < W
  <2>1. ~InStageOf(r, i, (from + size) - 1)
    BY <1>2
  <2> HIDE DEF k, size, from, W
  <2>2. ~(r.live[i].phys = HeadPage(r).phys /\ (from + size) - 1 >= W)
    BY <2>1 DEF InStageOf, W
  <2> QED BY <1>1, <1>2, <2>2
<1>4. ASSUME NEW d \in Nat, d < from + size PROVE ~InStageOf(r, i, d) /\ ~InStageOf(s, j, d)
  <2> HIDE DEF k, size, from
  <2>1. ~(r.live[i].phys = HeadPage(r).phys /\ d >= W)
    BY <1>1, <1>2, <1>3, <1>4
  <2> QED BY <2>1 DEF InStageOf, W
<1>5. \A y \in 0..(size - 1) : ~InStageOf(r, i, from + y) /\ ~InStageOf(s, j, from + y)
  <2> HIDE DEF k, size, from
  <2> TAKE y \in 0..(size - 1)
  <2>1. from + y \in Nat /\ from + y < from + size
    BY <1>1, <1>2
  <2> QED BY <1>4, <2>1
<1>6. \A y \in 1..size : ~InStageOf(r, i, from + y - 1) /\ ~InStageOf(s, j, from + y - 1)
  <2> HIDE DEF k, size, from
  <2> TAKE y \in 1..size
  <2>1. from + y - 1 \in Nat /\ from + y - 1 < from + size
    BY <1>1, <1>2
  <2> QED BY <1>4, <2>1
<1>7. ReadOf(f, r, i, a) = [y \in 1..size |-> FlashOf(f, r.live[i].phys, from + y - 1)]
  <2>1. \A y \in 0..(size - 1) : ReadableOf(r, i, from + y)
    BY <1>5 DEF ReadableOf
  <2>2. \A y \in 1..size : ByteOf(f, r, i, from + y - 1) = FlashOf(f, r.live[i].phys, from + y - 1)
    BY <1>6 DEF ByteOf
  <2>3. ReadOf(f, r, i, a) = [y \in 1..size |-> ByteOf(f, r, i, from + y - 1)]
    BY <2>1 DEF ReadOf
  <2> HIDE DEF size, from, k
  <2> QED BY <2>2, <2>3
<1>8. ReadOf(f, s, j, a) = [y \in 1..size |-> FlashOf(f, r.live[i].phys, from + y - 1)]
  <2>1. \A y \in 0..(size - 1) : ReadableOf(s, j, from + y)
    BY <1>5 DEF ReadableOf
  <2>2. \A y \in 1..size : ByteOf(f, s, j, from + y - 1) = FlashOf(f, r.live[i].phys, from + y - 1)
    BY <1>6 DEF ByteOf
  <2>3. ReadOf(f, s, j, a) = [y \in 1..size |-> ByteOf(f, s, j, from + y - 1)]
    BY <2>1 DEF ReadOf
  <2> HIDE DEF size, from, k
  <2> QED BY <2>2, <2>3
<1> QED BY <1>7, <1>8

\* A ring and the run a mount of its layout finds are the same pages from the one
\* of a record on.
LEMMA FoundAgain ==
  ASSUME NEW r, NEW s \in Views, Body(flash, r, made), Ahead(flash, r), r.live # <<>>, r.interval # 0,
         RunOk(flash, s), Finds(r.layout, s), NEW i \in 1..Len(r.live),
         \A x \in i..Len(r.live) : LivePage(flash, r, x)
  PROVE  /\ s.live # <<>> /\ s.last = r.last /\ Run(flash, s)
         /\ Len(r.live) - i < Len(s.live)
         /\ \A k \in 0..(Len(r.live) - i) : s.live[Len(s.live) - k] = r.live[Len(r.live) - k]
<1> DEFINE n == Len(r.live)
           q == Len(s.live)
           h == r.last
<1>1. /\ flash \in FlashPages /\ r \in Views /\ RunOk(flash, r) /\ Run(flash, r)
      /\ Headers(flash) /\ n \in Nat /\ i \in 1..n /\ h \in Phys /\ r.seq \in Nat
  BY ViewIs DEF Body, RunOk
<1>2. /\ flash[h].valid /\ flash[h].layout = r.layout /\ flash[h].seq = r.seq - 1
      /\ r.interval \in {0, flash[h].interval}
  BY <1>1, HeadIs
<1>3. h \in Matching(r.layout)
  BY <1>1, <1>2 DEF Matching, ValidPages
<1>4. /\ s.live # <<>> /\ s.last \in Matching(r.layout)
      /\ flash[h].seq <= flash[s.last].seq
      /\ \A k \in 0..(NPages - 1) : (\A x \in 1..k : Continues(s.last, x)) => k < q
  BY <1>3 DEF Finds
<1>5. s.last = h
  <2>1. s.last \in Phys /\ flash[s.last].valid
    BY <1>4 DEF Matching, ValidPages
  <2>2. AheadOf(flash, r, s.last) /\ flash[s.last].seq \in Nat /\ flash[h].seq \in Nat
    BY <1>1, <2>1, FlashIs DEF Ahead
  <2>3. flash[s.last].seq = r.seq - 1
    BY <1>1, <1>2, <1>4, <2>2 DEF AheadOf
  <2> QED BY <2>2, <2>3 DEF AheadOf
<1>6. Run(flash, s) /\ q \in Nat
  BY <1>4, ViewIs DEF RunOk
<1> HIDE DEF n, q, h
<1>7. ASSUME NEW k \in 0..(n - i)
      PROVE  /\ n - k \in i..n /\ n - k \in 1..n /\ k \in 0..(NPages - 1) /\ n - (n - k) = k
             /\ r.live[n - k].phys = Behind(h, k) /\ LivePage(flash, r, n - k)
  <2>1. n - k \in i..n /\ n - k \in 1..n /\ k \in 0..(NPages - 1) /\ n - (n - k) = k
    BY <1>1, SizesAre DEF Run, n
  <2>2. Chained(flash, r, n - k)
    BY <1>1, <2>1 DEF Run, n
  <2> QED BY <2>1, <2>2 DEF Chained, n, h
<1>8. ASSUME NEW k \in 1..(n - i) PROVE Continues(h, k)
  <2>1. k \in 0..(n - i)
    BY <1>1
  <2>2. /\ r.live[n - k].phys = Behind(h, k) /\ LivePage(flash, r, n - k) /\ k \in 0..(NPages - 1)
        /\ n - (n - k) = k
    BY <1>7, <2>1
  <2>3. (h + NPages - k) % NPages = Behind(h, k) /\ Behind(h, k) \in Phys
    BY <1>1, <2>2, BehindIs
  <2>4. /\ flash[Behind(h, k)].valid /\ flash[Behind(h, k)].layout = r.layout
        /\ r.interval \in {0, flash[Behind(h, k)].interval}
        /\ flash[Behind(h, k)].seq = r.seq - 1 - k
    BY <2>2 DEF LivePage, n
  <2>5. flash[h].seq - flash[Behind(h, k)].seq = k
    BY <1>1, <1>2, <2>2, <2>4
  <2>6. flash[Behind(h, k)].interval = flash[h].interval
    BY <1>2, <2>4
  <2> QED BY <1>2, <2>3, <2>4, <2>5, <2>6 DEF Continues
<1>9. n - i < q
  <2>1. n - i \in 0..(n - i)
    BY <1>1
  <2>2. n - i \in 0..(NPages - 1)
    BY <1>7, <2>1
  <2> QED BY <1>4, <1>5, <1>8, <2>2
<1>10. ASSUME NEW k \in 0..(n - i) PROVE s.live[q - k] = r.live[n - k]
  <2>1. q - k \in 1..q /\ q - (q - k) = k /\ k \in Nat
    BY <1>1, <1>6, <1>9
  <2>2. /\ r.live[n - k].phys = Behind(h, k) /\ LivePage(flash, r, n - k) /\ n - k \in 1..n
    BY <1>7
  <2>3. Chained(flash, s, q - k)
    BY <1>6, <2>1 DEF Run, q
  <2>4. s.live[q - k].phys = Behind(h, k)
    BY <1>5, <2>1, <2>3 DEF Chained, q
  <2>5. flash[s.live[q - k].phys].valid /\ flash[s.live[q - k].phys].first = r.live[n - k].first
    BY <2>2, <2>4 DEF LivePage
  <2>6. LivePage(flash, s, q - k)
    <3>1. ~Erasing(flash, s, q - k)
      BY <2>5, BlankIs DEF Erasing
    <3> QED BY <2>3, <3>1 DEF Chained
  <2>7. s.live[q - k].first = r.live[n - k].first /\ s.live[q - k].phys = r.live[n - k].phys
    BY <2>2, <2>4, <2>5, <2>6 DEF LivePage
  <2>8. s.live[q - k] \in [first : Nat, phys : Phys] /\ r.live[n - k] \in [first : Nat, phys : Phys]
    BY <1>1, <2>1, <2>2, ViewIs, ElementOfSeq DEF q, n
  <2> QED BY <2>7, <2>8
<1> QED BY <1>4, <1>5, <1>6, <1>9, <1>10 DEF n, q, h

\* A record whose last byte is not staged is counted by the head's double words.
LEMMA CommittedCounted ==
  ASSUME NEW r \in Views, Run(flash, r), r.live # <<>>, flash \in FlashPages, NEW a \in Nat,
         HeadPage(r).first <= a, a < r.abs, flash[r.last].layout = r.layout,
         ~InStageOf(r, Len(r.live), (a + 1 - HeadPage(r).first) * SampleSize[r.layout] - 1)
  PROVE  a < HeadPage(r).first + FoundRecords(r.last)
<1> DEFINE n == Len(r.live)
           first == HeadPage(r).first
           size == SampleSize[r.layout]
           c == a + 1 - first
           W == Len(flash[r.last].dws) * DwData
           K == PerPage(r.layout)
<1>1. /\ size \in Nat \ {0} /\ first \in Nat /\ r.abs \in Nat /\ r.last \in Phys
      /\ r.dw = Len(flash[r.last].dws) /\ r.dw * DwData \in Nat /\ K \in Nat /\ r.abs <= first + K
      /\ HeadPage(r) = r.live[n]
  <2>1. HeadSize(r) = size
    BY DEF HeadSize
  <2> QED BY <2>1, ViewIs DEF Run
<1>2. c \in Nat /\ c >= 1 /\ c <= K
  <2>1. first <= a
    OBVIOUS
  <2> HIDE DEF first, K
  <2> QED BY <1>1, <2>1
<1>3. c * size - 1 < W
  <2>1. ~(r.live[n].phys = HeadPage(r).phys /\ c * size - 1 >= r.dw * DwData)
    BY DEF InStageOf
  <2>2. ~(c * size - 1 >= W)
    BY <1>1, <2>1
  <2> HIDE DEF c, size, W
  <2>3. c * size \in Nat
    BY <1>1, <1>2
  <2>4. W \in Nat
    BY <1>1 DEF W
  <2> QED BY <2>2, <2>3, <2>4
<1>4. W \in Nat
  BY <1>1
<1> HIDE DEF c, size, W, K, first
<1>5. c * size \in Nat /\ c * size <= W
  <2>1. c * size \in Nat
    BY <1>1, <1>2
  <2> HIDE DEF c
  <2> QED BY <1>3, <1>4, <2>1
<1>6. W \div size \in Nat /\ c <= W \div size
  BY <1>1, <1>2, <1>4, <1>5, InPart
<1>7. FoundRecords(r.last) = Min({W \div size, K})
  BY DEF FoundRecords, W, size, K
<1>8. FoundRecords(r.last) = IF W \div size <= K THEN W \div size ELSE K
  BY <1>1, <1>6, <1>7, MinOfTwo
<1>9. c <= FoundRecords(r.last) /\ FoundRecords(r.last) \in Nat
  BY <1>1, <1>2, <1>6, <1>8
<1>10. c = a + 1 - first
  BY DEF c
<1> HIDE DEF c
<1>11. a < first + FoundRecords(r.last)
  BY <1>1, <1>9, <1>10
<1> QED BY <1>11 DEF first

LEMMA PageFound ==
  ram \in Views /\ RunOk(flash, ram) =>
    \A a \in Window :
      /\ ram.live # <<>> /\ PageOf(a) \in 1..Len(ram.live) /\ ram.live[PageOf(a)].first <= a
      /\ \A i \in 1..Len(ram.live) : ram.live[i].first <= a => i <= PageOf(a)
<1> SUFFICES ASSUME ram \in Views, RunOk(flash, ram), NEW a \in Window
             PROVE  /\ ram.live # <<>> /\ PageOf(a) \in 1..Len(ram.live) /\ ram.live[PageOf(a)].first <= a
                    /\ \A i \in 1..Len(ram.live) : ram.live[i].first <= a => i <= PageOf(a)
  OBVIOUS
<1>1. FirstAbs(ram) <= a
  BY WindowIs
<1> QED BY <1>1, PageOfIs

\* What the lemmas say of a state, of the next one too.
ReadsAsOf == \A a : Read(a) = ReadOf(flash, ram, PageOf(a), a)
PagesFound ==
  ram \in Views /\ RunOk(flash, ram) =>
    \A a \in Window :
      /\ ram.live # <<>> /\ PageOf(a) \in 1..Len(ram.live) /\ ram.live[PageOf(a)].first <= a
      /\ \A i \in 1..Len(ram.live) : ram.live[i].first <= a => i <= PageOf(a)

LEMMA ReadsAsOfThen == ReadsAsOf'
<1>1. ReadsAsOf
  BY ReadOfIs DEF ReadsAsOf
<1> QED BY <1>1, PTL

LEMMA PagesFoundThen == PagesFound'
<1>1. PagesFound
  BY PageFound DEF PagesFound
<1> QED BY <1>1, PTL

\* A record of which no byte was staged is found by the next mount.
LEMMA FoundByMount ==
  ASSUME RingInd, IntervalKnown, ~ram.pending, RingInd', flash' = flash,
         Finds(ram.layout, ram'), ram'.layout = ram.layout,
         NEW a \in Window, NumberOf(Read(a)) # 0,
         OnFlash(PageOf(a), (a + 1 - ram.live[PageOf(a)].first) * SampleSize[ram.layout] - 1)
  PROVE  a \in Window' /\ Read(a)' = Read(a)
<1> DEFINE i == PageOf(a)
           n == Len(ram.live)
           s == ram'
           q == Len(s.live)
           o == n - i
           j == q - o
<1>1. /\ flash \in FlashPages /\ ram \in Views /\ RunOk(flash, ram) /\ Body(flash, ram, made)
      /\ Ahead(flash, ram)
  BY DEF RingInd, Body, BootOk
<1>2. s \in Views /\ RunOk(flash, s)
  BY DEF RingInd, Body
<1>3. /\ ram.live # <<>> /\ i \in 1..n /\ ram.live[i].first <= a /\ a \in Nat /\ a < ram.abs
      /\ \A x \in 1..n : ram.live[x].first <= a => x <= i
  BY <1>1, WindowIs, PageFound
<1>4. ram.interval # 0 /\ Run(flash, ram) /\ n \in Nat
  BY <1>1, <1>3, ViewIs DEF IntervalKnown, RunOk
<1>5. LivePage(flash, ram, i)
  <2>1. Chained(flash, ram, i)
    BY <1>3, <1>4 DEF Run
  <2>2. flash[PhysOf(a)].valid
    <3>1. Read(a) # <<>> /\ NumberOf(Read(a)) = Read(a)[1][1] /\ Read(a)[1][1] > 0
      BY DEF NumberOf
    <3>2. 1 \in 1..HeadSize(ram)
      BY <1>1, ViewIs
    <3> DEFINE b == ByteAt(PageOf(a), PlaceOf(a) + 1 - 1)
    <3>3. Read(a)[1] = b /\ b \in Byte /\ (b[1] > 0 => ReadAt(a, 1, b)) /\ PhysOf(a) \in Phys
      BY <1>1, <3>1, <3>2, ReadIs
    <3> HIDE DEF b
    <3>4. Holds(flash, ram, PhysOf(a), PlaceOf(a) + 1 - 1, b) /\ PlaceOf(a) + 1 - 1 \in Nat
      BY <3>1, <3>3 DEF ReadAt
    <3> QED BY <1>1, <3>3, <3>4, HeldIs
  <2>3. ~Erasing(flash, ram, i)
    BY <2>2, BlankIs DEF Erasing, PhysOf
  <2> QED BY <2>1, <2>3 DEF Chained
<1>6. \A x \in i..n : LivePage(flash, ram, x)
  <2> SUFFICES ASSUME NEW x \in i..n, x # i PROVE LivePage(flash, ram, x)
    BY <1>5
  <2>1. x \in 1..n /\ x # 1
    BY <1>3, <1>4
  <2> QED BY <1>4, <2>1 DEF Run, Chained, Erasing
<1>7. /\ s.live # <<>> /\ s.last = ram.last /\ Run(flash, s) /\ o < q
      /\ \A k \in 0..o : s.live[q - k] = ram.live[n - k]
  BY <1>1, <1>2, <1>3, <1>4, <1>6, FoundAgain
<1>8. q \in Nat /\ HeadPage(s) = s.live[q] /\ HeadPage(ram) = ram.live[n]
  BY <1>1, <1>2, <1>3, <1>7, ViewIs
<1>9. HeadPage(s).phys = HeadPage(ram).phys /\ s.dw = ram.dw /\ ram.live[i].first \in Nat
  BY <1>1, <1>3, <1>4, <1>7, ViewIs DEF Run
<1>10. ~InStageOf(ram, i, (a + 1 - ram.live[i].first) * SampleSize[ram.layout] - 1)
  BY DEF OnFlash, InStage, InStageOf
<1> HIDE DEF i, n, q, s
<1>11. j \in 1..q /\ o \in 0..o /\ o \in Nat /\ q - o = j /\ n - o = i
  BY <1>3, <1>4, <1>7, <1>8
<1>12. s.live[j] = ram.live[i]
  BY <1>7, <1>11
<1>13. ASSUME j < q PROVE a < s.live[j + 1].first
  <2>1. o - 1 \in 0..o /\ q - (o - 1) = j + 1 /\ n - (o - 1) = i + 1 /\ i + 1 \in 1..n
    BY <1>3, <1>4, <1>8, <1>11, <1>13
  <2>2. s.live[j + 1] = ram.live[i + 1]
    BY <1>7, <2>1
  <2>3. ~(ram.live[i + 1].first <= a) /\ ram.live[i + 1].first \in Nat
    <3>1. ~(i + 1 <= i) /\ i \in Nat
      BY <1>3
    <3>2. ram.live[i + 1].first \in Nat
      BY <1>1, <2>1, ViewIs DEF n
    <3> QED BY <1>3, <2>1, <3>1, <3>2
  <2> QED BY <1>3, <2>2, <2>3
<1>14. a < s.abs
  <2>1. CASE j < q
    <3>1. j + 1 \in 1..Len(s.live)
      BY <1>8, <1>11, <2>1 DEF q
    <3>2. s.live[j + 1].first <= s.abs /\ s.live[j + 1].first \in Nat /\ s.abs \in Nat
      BY <1>2, <3>1, FirstAbsIs, ViewIs
    <3> QED BY <1>3, <1>13, <2>1, <3>2
  <2>2. CASE j = q
    <3>1. i = n /\ ram.live[i] = HeadPage(ram)
      BY <1>3, <1>4, <1>8, <1>11, <2>2
    <3>2. flash[ram.last].layout = ram.layout /\ flash[ram.last].first = HeadPage(ram).first
      BY <1>1, <1>3, <1>4, HeadIs
    <3>3. a < HeadPage(ram).first + FoundRecords(ram.last)
      BY <1>1, <1>3, <1>4, <1>10, <3>1, <3>2, CommittedCounted DEF n
    <3>4. s.abs = flash[s.last].first + FoundRecords(s.last)
      BY <1>7 DEF Finds, s
    <3> QED BY <1>7, <3>2, <3>3, <3>4
  <2> QED BY <1>8, <1>11, <2>1, <2>2
<1>15. a \in Window'
  <2>1. FirstAbs(s) \in Nat /\ s.abs \in Nat /\ FirstAbs(s) <= s.live[j].first
    BY <1>2, <1>11, FirstAbsIs DEF q
  <2>2. FirstAbs(s) <= a
    BY <1>3, <1>9, <1>12, <2>1
  <2>3. a \in FirstAbs(s)..(s.abs - 1)
    BY <1>3, <1>14, <2>1, <2>2
  <2>4. Window' = FirstAbs(s)..(s.abs - 1)
    BY <1>7 DEF Window, FirstAbs, s
  <2> QED BY <2>3, <2>4
<1>16. PageOf(a)' = j
  <2> DEFINE z == PageOf(a)'
  <2>1. (ram \in Views /\ RunOk(flash, ram) =>
          \A x \in Window :
            /\ ram.live # <<>> /\ PageOf(x) \in 1..Len(ram.live) /\ ram.live[PageOf(x)].first <= x
            /\ \A k \in 1..Len(ram.live) : ram.live[k].first <= x => k <= PageOf(x))'
    BY PagesFoundThen DEF PagesFound
  <2>2. RunOk(flash', ram') /\ ram' \in Views
    BY <1>2 DEF s
  <2>3. /\ z \in 1..q /\ s.live[z].first <= a
        /\ \A k \in 1..q : s.live[k].first <= a => k <= z
    BY <1>15, <2>1, <2>2 DEF s, q
  <2> HIDE DEF z
  <2>4. j <= z
    BY <1>3, <1>11, <1>12, <2>3
  <2>5. ~(j < z)
    <3> SUFFICES ASSUME j < z PROVE FALSE
      OBVIOUS
    <3>1. j + 1 \in 1..q /\ z \in (j + 1)..q /\ j < q
      BY <1>8, <1>11, <2>3
    <3>2. s.live[j + 1].first <= s.live[z].first
      BY <1>2, <1>7, <3>1, FirstsRise DEF q
    <3>3. s.live[j + 1].first \in Nat /\ s.live[z].first \in Nat
      BY <1>2, <2>3, <3>1, ViewIs DEF q
    <3> QED BY <1>3, <1>13, <2>3, <3>1, <3>2, <3>3
  <2>6. j \in Nat /\ z \in Nat
    BY <1>8, <1>11, <2>3
  <2> QED BY <2>4, <2>5, <2>6 DEF z
<1>17. Read(a)' = Read(a)
  <2>1. (\A x : Read(x) = ReadOf(flash, ram, PageOf(x), x))'
    BY ReadsAsOfThen DEF ReadsAsOf
  <2>2. Read(a)' = ReadOf(flash, s, j, a)
    BY <1>16, <2>1 DEF s
  <2>3. Read(a) = ReadOf(flash, ram, i, a)
    BY ReadOfIs DEF i
  <2>4. s.layout = ram.layout
    BY DEF s
  <2> HIDE DEF j
  <2>5. ReadOf(flash, s, j, a) = ReadOf(flash, ram, i, a)
    BY <1>1, <1>2, <1>3, <1>9, <1>10, <1>12, <2>4, ReadsAlike
  <2> QED BY <2>2, <2>3, <2>5
<1> QED BY <1>15, <1>17

LEMMA SurvivesNext ==
  ASSUME RingInd, IntervalKnown, RingInd', Boot, ram'.layout = ram.layout
  PROVE  Committed \subseteq Found'
<1>1. PICK l \in Layouts : ram' = Booted(l)
  BY DEF Boot
<1>2. flash' = flash
  BY DEF Boot
<1>3. flash \in FlashPages /\ Fits(flash) /\ Headers(flash)
  BY DEF RingInd, Body, Fits
<1>4. Finds(l, ram') /\ l = ram.layout
  BY <1>1, <1>3, BootedOk
<1> SUFFICES ASSUME NEW x \in Committed PROVE x \in Found'
  OBVIOUS
<1>5. PICK a \in Window : /\ x = NumberOf(Read(a)) /\ x # 0
                          /\ OnFlash(PageOf(a), (a + 1 - ram.live[PageOf(a)].first) * SampleSize[ram.layout] - 1)
  BY DEF Committed
<1>6. a \in Window' /\ Read(a)' = Read(a)
  <2>1. CASE ram.pending
    <3>1. ram' = ram
      BY <1>1, <1>4, <2>1 DEF RingInd, BootOk
    <3>2. Window' = Window
      BY <3>1 DEF Window, FirstAbs
    <3>3. PageOf(a)' = PageOf(a)
      BY <3>1 DEF PageOf
    <3>4. (\A y : Read(y) = ReadOf(flash, ram, PageOf(y), y))'
      BY ReadsAsOfThen DEF ReadsAsOf
    <3>5. Read(a)' = Read(a)
      BY <1>2, <3>1, <3>3, <3>4, ReadOfIs
    <3> QED BY <1>5, <3>2, <3>5
  <2>2. CASE ~ram.pending
    BY <1>2, <1>4, <1>5, <2>2, FoundByMount
  <2> QED BY <2>1, <2>2
<1>7. NumberOf(Read(a))' = x
  BY <1>5, <1>6 DEF NumberOf, Record
<1> QED BY <1>5, <1>6, <1>7 DEF Found

\* A reset loses the staged tail and nothing else: each record that the flash held
\* whole is found by the next mount of its layout, wherever in a write, a rollover
\* or a split the power failed (backend_mount()).
THEOREM CommittedAreFound ==
  ASSUME GoesBack = FALSE
  PROVE  Spec => CommittedSurvive
<1>1. Init => RingInd /\ IntervalKnown
  BY RingStarts DEF IntervalKnown
<1>2. RingInd /\ IntervalKnown /\ [Next]_vars => RingInd' /\ IntervalKnown'
  BY RingIndNext, IntervalNext
<1>3. RingInd /\ IntervalKnown /\ RingInd' =>
        [(Boot /\ ram'.layout = ram.layout) => Committed \subseteq Found']_vars
  BY SurvivesNext
<1> QED BY <1>1, <1>2, <1>3, PTL DEF Spec, CommittedSurvive

-----------------------------------------------------------------------------
(* A replay                                                                  *)

\* What is held at a later ordinal than one that is read is of a later record.
LEMMA HeldRise ==
  ASSUME RingInd, NEW a \in Window, NEW j, NEW b \in Byte, ReadAt(a, j, b),
         NEW i \in 1..Len(ram.live), NEW d \in Nat, NEW c \in Byte,
         Holds(flash, ram, ram.live[i].phys, d, c),
         a < ram.live[i].first + SlotOf(flash, ram.live[i].phys, d),
         i < Len(ram.live) =>
           ram.live[i].first + SlotOf(flash, ram.live[i].phys, d) < ram.live[i + 1].first
  PROVE  b[1] < c[1]
<1> DEFINE n == Len(ram.live)
           x == PageOf(a)
           p == ram.live[x].phys
           q == ram.live[i].phys
           e == PlaceOf(a) + j - 1
           slot == SlotOf(flash, q, d)
<1>1. /\ flash \in FlashPages /\ ram \in Views /\ RunOk(flash, ram) /\ Ordered(flash, ram)
  BY DEF RingInd, Body
<1>2. /\ a \in Nat /\ ram.live # <<>> /\ x \in 1..n /\ ram.live[x].first <= a
      /\ FirstAbs(ram) <= a
  BY <1>1, WindowIs, PageOfIs
<1>3. Run(flash, ram) /\ n \in Nat /\ \A y \in 1..n : ram.live[y].first \in Nat /\ ram.live[y].phys \in Phys
  BY <1>1, <1>2, ViewIs DEF RunOk
<1>4. p \in Phys /\ q \in Phys
  BY <1>2, <1>3
<1>5. Holds(flash, ram, p, e, b) /\ e \in Nat /\ SlotOf(flash, p, e) = a - ram.live[x].first
  BY DEF ReadAt, PhysOf
<1>6. flash[p].valid /\ flash[q].valid
  BY <1>1, <1>4, <1>5, HeldIs
<1>7. LivePage(flash, ram, x) /\ LivePage(flash, ram, i)
  <2>1. Chained(flash, ram, x) /\ Chained(flash, ram, i)
    BY <1>2, <1>3 DEF Run
  <2>2. ~Erasing(flash, ram, x) /\ ~Erasing(flash, ram, i)
    BY <1>6, BlankIs DEF Erasing
  <2> QED BY <2>1, <2>2 DEF Chained
<1>8. flash[q].layout \in Layouts /\ slot \in Nat
  <2>1. flash[q].layout \in Layouts
    BY <1>1, <1>4, FlashIs
  <2>2. SampleSize[flash[q].layout] \in Nat \ {0}
    BY <2>1, SizesAre
  <2> QED BY <2>1, <2>2, DivMod DEF SlotOf
<1>9. ram.seq \in Nat
  BY <1>1, ViewIs
<1>10. flash[p].seq = ram.seq - 1 - (n - x) /\ flash[q].seq = ram.seq - 1 - (n - i)
  BY <1>7 DEF LivePage
<1>11. a < ram.live[i].first + slot /\ (i < n => ram.live[i].first + slot < ram.live[i + 1].first)
  OBVIOUS
<1> HIDE DEF n, x, e, slot
<1>12. x <= i
  <2> SUFFICES ASSUME i < x PROVE FALSE
    BY <1>2, <1>3 DEF n
  <2>1. i < n /\ i + 1 \in 1..n /\ x \in (i + 1)..n
    BY <1>2, <1>3 DEF n
  <2>2. ram.live[i + 1].first <= ram.live[x].first
    BY <1>1, <1>3, <2>1, FirstsRise DEF n
  <2>3. ram.live[i + 1].first \in Nat /\ ram.live[x].first \in Nat /\ ram.live[i].first \in Nat
    BY <1>2, <1>3, <2>1 DEF n
  <2> DEFINE u == ram.live[i].first
             v == ram.live[i + 1].first
             w == ram.live[x].first
  <2>4. u \in Nat /\ v \in Nat /\ w \in Nat /\ slot \in Nat /\ a \in Nat
    BY <1>2, <1>8, <2>3
  <2>5. w <= a /\ a < u + slot /\ u + slot < v /\ v <= w
    BY <1>2, <1>11, <2>1, <2>2
  <2> HIDE DEF u, v, w
  <2> QED BY <2>4, <2>5
<1>13. Before(flash, p, e, q, d)
  <2>1. CASE x = i
    <3>1. SlotOf(flash, p, e) < slot
      <4>1. ram.live[i].first \in Nat /\ SlotOf(flash, p, e) = a - ram.live[i].first
        BY <1>3, <1>5, <2>1 DEF n
      <4> QED BY <1>2, <1>8, <1>11, <4>1
    <3> QED BY <2>1, <3>1 DEF Before, slot
  <2>2. CASE x < i
    <3>1. flash[p].seq < flash[q].seq
      BY <1>2, <1>3, <1>9, <1>10, <2>2 DEF n
    <3> QED BY <3>1 DEF Before
  <2> QED BY <1>2, <1>12, <2>1, <2>2 DEF n
<1> HIDE DEF p, q
<1>14. InOrder(flash, p, e, b, q, d, c)
  <2>1. Holds(flash, ram, q, d, c)
    BY DEF q
  <2> QED BY <1>1, <1>4, <1>5, <2>1 DEF Ordered
<1> QED BY <1>13, <1>14 DEF InOrder

\* A byte that is read lies in its page, before the next one's ordinals.
LEMMA ReadsLie ==
  ASSUME RingInd, NEW a \in Window, NEW j, NEW b, ReadAt(a, j, b)
  PROVE  LET i == PageOf(a)
             d == PlaceOf(a) + j - 1
         IN /\ i \in 1..Len(ram.live) /\ d \in Nat /\ Holds(flash, ram, ram.live[i].phys, d, b)
            /\ ram.live[i].first + SlotOf(flash, ram.live[i].phys, d) = a
            /\ i < Len(ram.live) => a < ram.live[i + 1].first
<1> DEFINE i == PageOf(a)
           d == PlaceOf(a) + j - 1
<1>1. ram \in Views /\ RunOk(flash, ram)
  BY DEF RingInd, Body
<1>2. /\ a \in Nat /\ ram.live # <<>> /\ i \in 1..Len(ram.live) /\ ram.live[i].first <= a
      /\ \A k \in 1..Len(ram.live) : ram.live[k].first <= a => k <= i
  BY <1>1, WindowIs, PageOfIs
<1>3. /\ Holds(flash, ram, ram.live[i].phys, d, b) /\ d \in Nat
      /\ SlotOf(flash, ram.live[i].phys, d) = a - ram.live[i].first
  BY DEF ReadAt, PhysOf
<1>4. Len(ram.live) \in Nat /\ \A k \in 1..Len(ram.live) : ram.live[k].first \in Nat
  BY <1>1, ViewIs
<1> HIDE DEF i, d
<1>5. ram.live[i].first + SlotOf(flash, ram.live[i].phys, d) = a
  BY <1>2, <1>3, <1>4
<1>6. ASSUME i < Len(ram.live) PROVE a < ram.live[i + 1].first
  <2>1. i + 1 \in 1..Len(ram.live) /\ ~(i + 1 <= i)
    BY <1>2, <1>4, <1>6
  <2> QED BY <1>2, <1>4, <2>1
<1> QED BY <1>2, <1>3, <1>5, <1>6 DEF i, d

\* A replay whose layout is known has its end behind every page of another one, and
\* what it has still to read is newer than what it sent.
Replaying(f, r, rp) ==
  /\ rp.end <= r.abs /\ (r.layout # rp.layout => rp.end <= FirstAbs(r))
  /\ Newer(f, r, rp.cursor, rp.last)
ReplayOk ==
  /\ replay.held => replay.on
  /\ replay.on /\ replay.layout # 0 =>
       /\ ~ram.pending /\ Replaying(flash, ram, replay)
       /\ replay.last <= Len(made) /\ (Capturing(at) => replay.last < Len(made))

LEMMA ReplayingGoesOn ==
  ASSUME NEW f, NEW r \in Views, RunOk(f, r), NEW g, NEW s \in Views, RunOk(g, s), NEW n,
         GoesOn(f, r, g, s, n), NEW rp, rp.end \in Nat, rp.cursor \in Nat, rp.last \in Nat,
         rp.last < n, Replaying(f, r, rp), s.layout = r.layout \/ s.live = <<>>
  PROVE  Replaying(g, s, rp)
<1>1. /\ FirstAbs(r) \in Nat /\ r.abs \in Nat /\ FirstAbs(s) \in Nat /\ s.abs \in Nat
      /\ r.abs <= s.abs /\ FirstAbs(r) <= FirstAbs(s)
  BY FirstAbsIs DEF GoesOn
<1>2. Newer(g, s, rp.cursor, rp.last)
  BY DEF GoesOn, Replaying
<1>3. rp.end <= s.abs
  BY <1>1 DEF Replaying
<1>4. ASSUME s.layout # rp.layout PROVE rp.end <= FirstAbs(s)
  <2>1. CASE s.layout = r.layout
    BY <1>1, <1>4, <2>1 DEF Replaying
  <2>2. CASE s.live = <<>>
    BY <1>1, <1>3, <2>2 DEF FirstAbs
  <2> QED BY <2>1, <2>2
<1> QED BY <1>2, <1>3, <1>4 DEF Replaying

LEMMA ReplayIs ==
  ASSUME RingInd
  PROVE  /\ replay \in [on : BOOLEAN, held : BOOLEAN, cursor : Nat, end : Nat, last : Numbers,
                        layout : Layouts \union {0}]
         /\ replay.cursor \in Nat /\ replay.end \in Nat /\ replay.last \in Nat
         /\ replay.last <= MaxRecords /\ Len(made) \in Nat
<1>1. OthersOk
  BY DEF RingInd
<1>2. replay.last \in Numbers /\ MaxRecords \in Nat
  BY <1>1, RingAssumption DEF OthersOk
<1> QED BY <1>1, <1>2, OthersIs DEF Numbers

\* The ring goes on and the replay stands: what it knows of the ring still holds.
LEMMA ReplayStands ==
  ASSUME RingInd, RingInd', ReplayOk, replay' = replay, ~ram'.pending, NEW n \in Nat,
         GoesOn(flash, ram, flash', ram', n), Len(made) <= Len(made'), Len(made') \in Nat,
         ram'.layout = ram.layout \/ ram'.live = <<>>,
         replay.on /\ replay.layout # 0 =>
           /\ replay.last < n
           /\ Capturing(at') => replay.last < Len(made')
  PROVE  ReplayOk'
<1>1. replay.held => replay.on
  BY DEF ReplayOk
<1>2. ASSUME replay.on, replay.layout # 0
      PROVE  /\ Replaying(flash', ram', replay) /\ replay.last <= Len(made')
             /\ (Capturing(at') => replay.last < Len(made'))
  <2>1. /\ ram \in Views /\ RunOk(flash, ram) /\ ram' \in Views /\ RunOk(flash', ram')
    BY DEF RingInd, Body
  <2>2. Replaying(flash, ram, replay) /\ replay.last <= Len(made)
    BY <1>2 DEF ReplayOk
  <2>3. replay.cursor \in Nat /\ replay.end \in Nat /\ replay.last \in Nat /\ Len(made) \in Nat
    BY ReplayIs
  <2>4. Replaying(flash', ram', replay)
    BY <1>2, <2>1, <2>2, <2>3, ReplayingGoesOn
  <2>5. replay.last <= Len(made')
    BY <2>2, <2>3
  <2> QED BY <1>2, <2>4, <2>5
<1> QED BY <1>1, <1>2 DEF ReplayOk

LEMMA CaptureReplays ==
  ASSUME GoesBack = FALSE, RingInd, RingInd', ReplayOk, NEW i \in Intervals, NEW split \in BOOLEAN,
         Capture(i, split)
  PROVE  ReplayOk'
<1>1. /\ at = "idle" /\ (~ram.pending \/ ~replay.held) /\ replay' = replay
      /\ made' = Append(made, [layout |-> sel, interval |-> i])
  BY DEF Capture
<1>2. replay.held => replay.on
  BY DEF ReplayOk
<1>3. CASE ~(replay.on /\ replay.layout # 0)
  BY <1>1, <1>2, <1>3 DEF ReplayOk
<1>4. CASE replay.on /\ replay.layout # 0
  <2>1. ~ram.pending /\ replay.last <= Len(made) /\ replay.last \in Nat
    BY <1>4, ReplayIs DEF ReplayOk
  <2>2. Good(Ready(i), sel) /\ Remounted = ram
    BY <1>1, <2>1, ReadyOk, RemountedOk
  <2>3. /\ ram \in Views /\ RunOk(flash, ram) /\ Ready(i) \in Views /\ ram' \in Views
        /\ ram.abs \in Nat
    BY <2>2, ViewIs DEF RingInd, Body, Good
  <2>4. \/ Ready(i).live = <<>> /\ Ready(i).abs = ram.abs
        \/ /\ Ready(i).live = ram.live /\ Ready(i).abs = ram.abs
           /\ Ready(i).layout = ram.layout /\ HoldNoMore(flash, ram, flash, Ready(i))
    BY <1>1, <2>1, <2>2, ReadyOk
  <2>5. GoesOn(flash, ram, flash, Ready(i), Len(made'))
    <3>1. CASE Ready(i).live = <<>> /\ Ready(i).abs = ram.abs
      BY <2>3, <3>1, EmptiedGoesOn
    <3>2. CASE Ready(i).live = ram.live /\ HoldNoMore(flash, ram, flash, Ready(i)) /\ Ready(i).abs = ram.abs
      <4>1. NewOnly(flash, ram, flash, Ready(i), Len(made'))
        BY <3>2 DEF HoldNoMore, NewOnly
      <4>2. ram.abs <= Ready(i).abs
        BY <2>3, <3>2
      <4> QED BY <2>3, <3>2, <4>1, <4>2, SameRunGoesOn
    <3> QED BY <2>4, <3>1, <3>2
  <2>6. Kept(flash, made') /\ Onward(flash, Ready(i), flash, ram', Len(made'))
    BY CaptureKeeps
  <2>7. flash' = flash /\ ~ram'.pending
    BY <2>6 DEF Capture, Kept
  <2>8. made \in Takes /\ Len(made) \in Nat
    BY OthersIs DEF RingInd
  <2>9. Len(made') = Len(made) + 1
    BY <1>1, <2>8, AppendProperties DEF Takes
  <2> QED
    <3>1. /\ ram.layout # replay.layout => replay.end <= FirstAbs(ram)
          /\ replay.end <= ram.abs /\ Newer(flash, ram, replay.cursor, replay.last)
      BY <1>4 DEF ReplayOk, Replaying
    <3>2. /\ replay.cursor \in Nat /\ replay.end \in Nat /\ replay.last < Len(made') /\ Len(made') \in Nat
          /\ replay.last <= Len(made')
      BY <2>1, <2>8, <2>9, ReplayIs
    <3>3. Replaying(flash, Ready(i), replay)
      <4>1. RunOk(flash, Ready(i)) /\ (Ready(i).layout = ram.layout \/ Ready(i).live = <<>>)
        BY <2>2, <2>4 DEF Good, Body
      <4>2. Replaying(flash, ram, replay)
        BY <3>1 DEF Replaying
      <4> QED BY <2>1, <2>3, <2>5, <3>2, <4>1, <4>2, ReplayingGoesOn
    <3>4. Replaying(flash', ram', replay)
      <4>1. RunOk(flash, Ready(i)) /\ RunOk(flash, ram')
        BY <2>2, <2>7 DEF Good, Body, RingInd
      <4>2. GoesOn(flash, Ready(i), flash, ram', Len(made')) /\ ram'.layout = Ready(i).layout
        BY <2>6 DEF Onward, SameKind
      <4> QED BY <2>1, <2>3, <2>7, <3>2, <3>3, <4>1, <4>2, ReplayingGoesOn
    <3> QED BY <1>1, <1>2, <2>7, <3>2, <3>4 DEF ReplayOk
<1> QED BY <1>3, <1>4

LEMMA FlashesReplay ==
  ASSUME RingInd, RingInd', ReplayOk, Flashes
  PROVE  ReplayOk'
<1>1. Onward(flash, ram, flash', ram', Len(made)) /\ made' = made
  BY FlashesKeep
<1>2. at # "idle" /\ replay' = replay
  BY DEF Flashes, SplitWrites, CloseWrites, PageErases, HeaderWrites, StreamWrites, TailWrites
<1>3. ~ram.pending /\ Len(made) \in Nat /\ CaptureOk(flash, ram, at, rest, made)
  BY <1>2, UnderWayIs, ReplayIs
<1>4. ram'.layout = ram.layout /\ ~ram'.pending
  <2>1. ~ram'.pending
    <3>1. SplitWrites \/ CloseWrites \/ PageErases \/ HeaderWrites \/ StreamWrites \/ TailWrites
      BY DEF Flashes
    <3> QED BY <3>1, SplitWritesKeep, CloseWritesKeep, PageErasesKeep, HeaderWritesKeep,
               StreamWritesKeep, TailWritesKeep DEF Kept
  <2> QED BY <1>1, <2>1 DEF Onward, SameKind
<1>5. CASE at = "tail"
  <2>1. TailWrites
    BY <1>5 DEF Flashes, SplitWrites, CloseWrites, PageErases, HeaderWrites, StreamWrites
  <2>2. at' = "idle"
    BY <2>1 DEF TailWrites, Done
  <2>3. Onward(flash, ram, flash', ram', Len(made) + 1)
    BY <2>1, TailWritesKeep
  <2>4. replay.on /\ replay.layout # 0 => replay.last < Len(made) + 1
    BY <1>3, ReplayIs DEF ReplayOk
  <2>5. ~Capturing(at')
    BY <2>2 DEF Capturing, Waiting
  <2>6. GoesOn(flash, ram, flash', ram', Len(made) + 1) /\ Len(made) + 1 \in Nat
    BY <1>3, <2>3 DEF Onward
  <2> QED BY <1>1, <1>2, <1>3, <1>4, <2>4, <2>5, <2>6, ReplayStands
<1>6. CASE at # "tail"
  <2>1. Capturing(at)
    BY <1>2, <1>3, <1>6 DEF CaptureOk, Capturing
  <2>2. replay.on /\ replay.layout # 0 => replay.last < Len(made)
    BY <2>1 DEF ReplayOk
  <2>3. GoesOn(flash, ram, flash', ram', Len(made))
    BY <1>1 DEF Onward
  <2> QED BY <1>1, <1>2, <1>3, <1>4, <2>2, <2>3, ReplayStands
<1> QED BY <1>5, <1>6

LEMMA EmptiedReplays ==
  ASSUME RingInd, RingInd', ReplayOk, replay' = replay, made' = made, ~ram'.pending,
         ram'.live = <<>>, ram'.abs = ram.abs, at' = "idle"
  PROVE  ReplayOk'
<1>1. ram \in Views /\ RunOk(flash, ram) /\ ram' \in Views
  BY DEF RingInd, Body
<1>2. Len(made) \in Nat /\ replay.last \in Nat
  BY ReplayIs
<1>3. GoesOn(flash, ram, flash', ram', Len(made) + 1) /\ Len(made) + 1 \in Nat
  BY <1>1, <1>2, EmptiedGoesOn
<1>4. replay.on /\ replay.layout # 0 => replay.last < Len(made) + 1
  BY <1>2 DEF ReplayOk
<1>5. ~Capturing(at')
  BY DEF Capturing, Waiting
<1> QED BY <1>2, <1>3, <1>4, <1>5, ReplayStands

LEMMA SetChannelsReplays ==
  ASSUME GoesBack = FALSE, RingInd, RingInd', ReplayOk, SetChannels
  PROVE  ReplayOk'
<1> DEFINE x == AtLayout(ram, sel)
           s == [x EXCEPT !.pending = FALSE]
<1>1. /\ at = "idle" /\ ~ram.pending /\ ram' = s /\ flash' = flash /\ replay' = replay
      /\ made' = made /\ at' = "idle"
  BY DEF SetChannels
<1>2. sel \in Layouts
  BY SelIs
<1>3. Good(ram, sel)
  BY <1>1, RemountedOk
<1>4. Good(x, sel) /\ (x = ram \/ (x.live = <<>> /\ x.abs = ram.abs))
  BY <1>2, <1>3, AtLayoutOk
<1> HIDE DEF x
<1>5. /\ ~s.pending /\ s.live = x.live /\ s.abs = x.abs /\ s.layout = x.layout
      /\ HoldNoMore(flash, x, flash, s)
  BY <1>4, SettledOk
<1> HIDE DEF s
<1>6. ram' \in Views /\ ram \in Views /\ ram.abs \in Nat
  BY ViewIs DEF RingInd, Body
<1>7. CASE x.live = <<>> /\ x.abs = ram.abs
  BY <1>1, <1>5, <1>7, EmptiedReplays
<1>8. CASE x = ram
  <2>1. NewOnly(flash, ram, flash', ram', Len(made) + 1)
    BY <1>1, <1>5, <1>8 DEF HoldNoMore, NewOnly
  <2>2. ram'.live = ram.live /\ ram.abs <= ram'.abs /\ ram'.layout = ram.layout /\ ~ram'.pending
    BY <1>1, <1>5, <1>6, <1>8
  <2>3. Len(made) \in Nat /\ replay.last \in Nat
    BY ReplayIs
  <2>4. GoesOn(flash, ram, flash', ram', Len(made) + 1) /\ Len(made) + 1 \in Nat
    BY <1>6, <2>1, <2>2, <2>3, SameRunGoesOn
  <2>5. replay.on /\ replay.layout # 0 => replay.last < Len(made) + 1
    BY <2>3 DEF ReplayOk
  <2>6. ~Capturing(at')
    BY <1>1 DEF Capturing, Waiting
  <2> QED BY <1>1, <2>2, <2>3, <2>4, <2>5, <2>6, ReplayStands
<1> QED BY <1>4, <1>7, <1>8

LEMMA ClearReplays ==
  ASSUME RingInd, RingInd', ReplayOk, Clear
  PROVE  ReplayOk'
<1> DEFINE x == Reset(ram)
           s == [x EXCEPT !.pending = FALSE]
<1>1. at' = "idle" /\ ram' = s /\ replay' = replay /\ made' = made
  BY DEF Clear
<1>2. x \in Views /\ x.live = <<>> /\ x.abs = ram.abs
  BY ResetIs DEF NoRun, RingInd, Body
<1> HIDE DEF x
<1>3. s.live = x.live /\ s.abs = x.abs /\ s.pending = FALSE
  BY <1>2, FlagsAre
<1> HIDE DEF s
<1>4. ram'.live = <<>> /\ ram'.abs = ram.abs /\ ~ram'.pending
  BY <1>1, <1>2, <1>3
<1> QED BY <1>1, <1>4, EmptiedReplays

LEMMA StartReplays ==
  ASSUME RingInd, StartReplay
  PROVE  ReplayOk'
<1>1. /\ flash' = flash /\ ram' = ram /\ at' = "idle" /\ made' = made
      /\ replay' = [on |-> TRUE, held |-> FALSE, cursor |-> FirstAbs(ram), end |-> ram.abs, last |-> 0,
                    layout |-> IF ram.pending THEN 0 ELSE ram.layout]
  BY DEF StartReplay
<1>2. /\ ~replay'.held /\ replay'.on /\ replay'.end = ram.abs /\ replay'.last = 0
      /\ replay'.layout = IF ram.pending THEN 0 ELSE ram.layout
  BY <1>1
<1>3. Newer(flash, ram, replay'.cursor, 0)
  BY DEF Newer, Holds
<1>4. ram.abs \in Nat /\ FirstAbs(ram) \in Nat /\ Len(made) \in Nat
  BY FirstIs, ReplayIs
<1>5. ~Capturing(at')
  BY <1>1 DEF Capturing, Waiting
<1>6. ASSUME replay'.layout # 0 PROVE ~ram.pending /\ Replaying(flash, ram, replay')
  <2>1. ~ram.pending /\ replay'.layout = ram.layout
    BY <1>2, <1>6
  <2>2. replay'.end <= ram.abs
    BY <1>2, <1>4
  <2> QED BY <1>2, <1>3, <2>1, <2>2 DEF Replaying
<1>7. replay'.last <= Len(made)
  BY <1>2, <1>4
<1> QED BY <1>1, <1>2, <1>5, <1>6, <1>7 DEF ReplayOk

\* What a replay sends was in the flash, or staged, under its number.
LEMMA SentIs ==
  ASSUME RingInd, NEW a \in Window, NumberOf(Read(a)) # 0
  PROVE  \E b \in Byte : ReadAt(a, 1, b) /\ b[1] = NumberOf(Read(a))
<1>1. ram \in Views /\ flash \in FlashPages /\ RunOk(flash, ram)
  BY DEF RingInd, Body
<1>2. Read(a) # <<>> /\ NumberOf(Read(a)) = Read(a)[1][1] /\ Read(a)[1][1] > 0
  BY DEF NumberOf
<1>3. 1 \in 1..HeadSize(ram)
  BY <1>1, ViewIs
<1> DEFINE b == ByteAt(PageOf(a), PlaceOf(a) + 1 - 1)
<1>4. Read(a)[1] = b /\ b \in Byte /\ (b[1] > 0 => ReadAt(a, 1, b))
  BY <1>1, <1>2, <1>3, ReadIs
<1> HIDE DEF b
<1>5. b \in Byte /\ ReadAt(a, 1, b) /\ b[1] = NumberOf(Read(a))
  BY <1>2, <1>4
<1> QED BY <1>5

LEMMA SentFits ==
  ASSUME RingInd, NEW a \in Window, NEW b \in Byte, ReadAt(a, 1, b)
  PROVE  b[1] \in DOMAIN made /\ made[b[1]].layout = ram.layout
<1>1. Placed(flash, ram, made) /\ ram \in Views /\ flash \in FlashPages /\ RunOk(flash, ram)
  BY DEF RingInd, Body
<1>2. PhysOf(a) \in Phys
  BY <1>1, ReadIs
<1> DEFINE d == PlaceOf(a) + 1 - 1
<1>3. Holds(flash, ram, PhysOf(a), d, b) /\ d \in Nat /\ flash[PhysOf(a)].layout = ram.layout
  BY DEF ReadAt
<1> HIDE DEF d
<1>4. PlacedAt(flash, made, PhysOf(a), d, b)
  BY <1>1, <1>2, <1>3 DEF Placed
<1> QED BY <1>3, <1>4 DEF PlacedAt

\* What is sent is newer than what was, and what is left is newer still.
LEMMA ExportRises ==
  ASSUME RingInd, NEW a \in Window, NEW c \in Nat, NEW n \in Nat, c <= a, Newer(flash, ram, c, n),
         NumberOf(Read(a)) # 0
  PROVE  /\ NumberOf(Read(a)) > n /\ Newer(flash, ram, a + 1, NumberOf(Read(a)))
         /\ NumberOf(Read(a)) \in 1..Len(made) /\ made[NumberOf(Read(a))].layout = ram.layout
<1>1. PICK b \in Byte : ReadAt(a, 1, b) /\ b[1] = NumberOf(Read(a))
  BY SentIs
<1> DEFINE i == PageOf(a)
           d == PlaceOf(a) + 1 - 1
<1>2. /\ i \in 1..Len(ram.live) /\ d \in Nat /\ Holds(flash, ram, ram.live[i].phys, d, b)
      /\ ram.live[i].first + SlotOf(flash, ram.live[i].phys, d) = a
      /\ i < Len(ram.live) => a < ram.live[i + 1].first
  BY <1>1, ReadsLie
<1> HIDE DEF i, d
<1>3. b[1] > n
  BY <1>2 DEF Newer
<1>4. b[1] \in DOMAIN made /\ made[b[1]].layout = ram.layout
  BY <1>1, SentFits
<1>5. DOMAIN made = 1..Len(made)
  BY OthersIs, LenProperties DEF RingInd, Takes
<1>6. a \in Nat
  BY WindowIs DEF RingInd, Body
<1>7. ASSUME NEW j \in 1..Len(ram.live), NEW e \in Nat, NEW x \in Byte,
             Holds(flash, ram, ram.live[j].phys, e, x),
             a + 1 <= ram.live[j].first + SlotOf(flash, ram.live[j].phys, e),
             j < Len(ram.live) =>
               ram.live[j].first + SlotOf(flash, ram.live[j].phys, e) < ram.live[j + 1].first
      PROVE  x[1] > b[1]
  <2>1. ram \in Views /\ flash \in FlashPages /\ RunOk(flash, ram)
    BY DEF RingInd, Body
  <2>2. ram.live[j].first \in Nat /\ ram.live[j].phys \in Phys
    BY <2>1, ViewIs
  <2>3. SlotOf(flash, ram.live[j].phys, e) \in Nat
    <3>1. flash[ram.live[j].phys].layout \in Layouts
      BY <2>1, <2>2, FlashIs
    <3>2. SampleSize[flash[ram.live[j].phys].layout] \in Nat \ {0}
      BY <3>1, SizesAre
    <3> QED BY <3>2, DivMod DEF SlotOf
  <2>4. a < ram.live[j].first + SlotOf(flash, ram.live[j].phys, e)
    BY <1>6, <1>7, <2>2, <2>3
  <2>5. b[1] < x[1]
    BY <1>1, <1>7, <2>4, HeldRise
  <2>6. b[1] \in Int /\ x[1] \in Int
    BY BytesAre
  <2> QED BY <2>5, <2>6
<1>8. Newer(flash, ram, a + 1, b[1])
  BY <1>7 DEF Newer
<1> QED BY <1>1, <1>3, <1>4, <1>5, <1>8

LEMMA ExportOk ==
  ASSUME RingInd, ReplayOk, ExportFrame
  PROVE  /\ ReplayOk'
         /\ replay.layout # 0 =>
              LET n == NumberOf(Read(Min(Exportable)))
              IN n > 0 => n > replay.last /\ made[n].layout = replay.layout
<1> DEFINE a == Min(Exportable)
           n == NumberOf(Read(a))
           last == IF n = 0 THEN replay.last ELSE n
<1>1. /\ a \in Window /\ a \in Nat /\ replay.cursor <= a /\ a < replay.end /\ n \in Numbers
      /\ replay.held /\ replay' = [replay EXCEPT !.cursor = a + 1, !.last = last]
      /\ flash' = flash /\ ram' = ram /\ at' = at /\ made' = made
  BY ExportIs
<1>2. replay.on /\ at = "idle"
  BY <1>1 DEF ReplayOk, ExportFrame
<1>3. /\ replay \in [on : BOOLEAN, held : BOOLEAN, cursor : Nat, end : Nat, last : Numbers,
                     layout : Layouts \union {0}]
      /\ replay.cursor \in Nat /\ replay.end \in Nat /\ replay.last \in Nat /\ Len(made) \in Nat
  BY ReplayIs
<1>4. n \in Nat
  BY <1>1, RingAssumption DEF Numbers
<1>5. n # 0 /\ Newer(flash, ram, replay.cursor, replay.last) =>
        /\ n > replay.last /\ Newer(flash, ram, a + 1, n)
        /\ n \in 1..Len(made) /\ made[n].layout = ram.layout
  <2> HIDE DEF a
  <2> QED BY <1>1, <1>3, ExportRises DEF n
<1> HIDE DEF a, n, last
<1>6. /\ replay'.cursor = a + 1 /\ replay'.last = last /\ replay'.on /\ replay'.held
      /\ replay'.end = replay.end /\ replay'.layout = replay.layout
  BY <1>1, <1>2, <1>3
<1>7. ~Capturing(at')
  BY <1>1, <1>2 DEF Capturing, Waiting
<1>8. CASE replay.layout = 0
  <2>1. ReplayOk'
    BY <1>6, <1>8 DEF ReplayOk
  <2> QED BY <1>8, <2>1
<1>9. CASE replay.layout # 0
  <2>1. ~ram.pending /\ Replaying(flash, ram, replay) /\ replay.last <= Len(made)
    BY <1>2, <1>9 DEF ReplayOk
  <2>2. Newer(flash, ram, replay.cursor, replay.last)
    BY <2>1 DEF Replaying
  <2>3. Newer(flash, ram, a + 1, last) /\ last <= Len(made)
    <3>1. CASE n = 0
      <4>1. Newer(flash, ram, a + 1, replay.last)
        <5> SUFFICES ASSUME NEW i \in 1..Len(ram.live), NEW d \in Nat, NEW b \in Byte,
                            Holds(flash, ram, ram.live[i].phys, d, b),
                            a + 1 <= ram.live[i].first + SlotOf(flash, ram.live[i].phys, d),
                            i < Len(ram.live) =>
                              ram.live[i].first + SlotOf(flash, ram.live[i].phys, d)
                                < ram.live[i + 1].first
                     PROVE  b[1] > replay.last
          BY DEF Newer
        <5>1. ram \in Views /\ flash \in FlashPages
          BY DEF RingInd, Body
        <5>2. ram.live[i].first \in Nat /\ ram.live[i].phys \in Phys
          BY <5>1, ViewIs
        <5>3. SlotOf(flash, ram.live[i].phys, d) \in Nat
          <6>1. flash[ram.live[i].phys].layout \in Layouts
            BY <5>1, <5>2, FlashIs
          <6>2. SampleSize[flash[ram.live[i].phys].layout] \in Nat \ {0}
            BY <6>1, SizesAre
          <6> QED BY <6>2, DivMod DEF SlotOf
        <5>4. replay.cursor <= ram.live[i].first + SlotOf(flash, ram.live[i].phys, d)
          BY <1>1, <1>3, <5>2, <5>3
        <5> QED BY <2>2, <5>4 DEF Newer
      <4> QED BY <2>1, <3>1, <4>1 DEF last
    <3>2. CASE n # 0
      BY <1>3, <1>5, <2>2, <3>2 DEF last
    <3> QED BY <3>1, <3>2
  <2>4. Replaying(flash, ram, replay')
    BY <1>6, <2>1, <2>3 DEF Replaying
  <2>5. ReplayOk'
    BY <1>1, <1>6, <1>7, <2>1, <2>3, <2>4 DEF ReplayOk
  <2>6. ram.layout = replay.layout
    <3> SUFFICES ASSUME ram.layout # replay.layout PROVE FALSE
      OBVIOUS
    <3>1. replay.end <= FirstAbs(ram)
      BY <2>1 DEF Replaying
    <3>2. FirstAbs(ram) <= a /\ FirstAbs(ram) \in Nat
      BY <1>1, WindowIs, FirstIs DEF RingInd, Body
    <3> QED BY <1>1, <1>3, <3>1, <3>2
  <2>7. n > 0 => n > replay.last /\ made[n].layout = replay.layout
    BY <1>4, <1>5, <2>2, <2>6
  <2> QED BY <2>5, <2>7 DEF n, a
<1> QED BY <1>8, <1>9

LEMMA ReplayNext ==
  ASSUME GoesBack = FALSE, RingInd, RingInd', ReplayOk, [Next]_vars
  PROVE  ReplayOk'
<1>1. CASE \E i \in Intervals, split \in BOOLEAN : Capture(i, split)
  BY <1>1, CaptureReplays
<1>2. CASE Flashes
  BY <1>2, FlashesReplay
<1>3. CASE SetChannels
  BY <1>3, SetChannelsReplays
<1>4. CASE Clear
  BY <1>4, ClearReplays
<1>5. CASE Boot \/ EndReplay
  BY <1>5 DEF Boot, EndReplay, NoReplay, ReplayOk
<1>6. CASE StartReplay
  BY <1>6, StartReplays
<1>7. CASE HoldRollover
  <2>1. /\ replay' = [replay EXCEPT !.held = TRUE] /\ replay.on /\ flash' = flash /\ ram' = ram
        /\ at' = at /\ made' = made
    BY <1>7 DEF HoldRollover
  <2>2. /\ replay'.on /\ replay'.cursor = replay.cursor /\ replay'.end = replay.end
        /\ replay'.last = replay.last /\ replay'.layout = replay.layout
    BY <2>1, ReplayIs
  <2> QED BY <2>1, <2>2 DEF ReplayOk, Replaying
<1>8. CASE ExportFrame
  BY <1>8, ExportOk
<1>9. CASE Retype \/ UNCHANGED vars
  <2>1. flash' = flash /\ ram' = ram /\ at' = at /\ made' = made /\ replay' = replay
    BY <1>9 DEF Retype, vars
  <2> QED BY <2>1 DEF ReplayOk
<1> QED BY <1>1, <1>2, <1>3, <1>4, <1>5, <1>6, <1>7, <1>8, <1>9 DEF Next

\* A replay sends each record once, in the order they were taken, and of the
\* layout its cursor was taken under only, over captures, evictions, clears and
\* resets of the ring meanwhile (app_radio_history_replay_start(),
\* export_locked(), backend_append()).
THEOREM ReplaysAreInOrder ==
  ASSUME GoesBack = FALSE
  PROVE  Spec => ReplayInOrder
<1>1. Init => RingInd /\ ReplayOk
  BY RingStarts DEF Init, NoReplay, ReplayOk
<1>2. RingInd /\ ReplayOk /\ [Next]_vars => RingInd' /\ ReplayOk'
  BY RingIndNext, ReplayNext
<1>3. RingInd /\ ReplayOk =>
        [(ExportFrame /\ replay.layout # 0) =>
           LET n == NumberOf(Read(Min(Exportable)))
           IN n > 0 => n > replay.last /\ made[n].layout = replay.layout]_vars
  BY ExportOk
<1> QED BY <1>1, <1>2, <1>3, PTL DEF Spec, ReplayInOrder

-----------------------------------------------------------------------------
(* No page of an earlier run                                                 *)

\* The record of an ordinal is of a byte that is read there, or 0.
LEMMA RecordOfIs ==
  ASSUME RingInd, NEW a \in Window
  PROVE  /\ RecordOf(a) \in Nat
         /\ RecordOf(a) # 0 => \E j \in Nat, b \in Byte : ReadAt(a, j, b) /\ b[1] = RecordOf(a)
<1> DEFINE bytes == Read(a)
           G == {bytes[j][1] : j \in DOMAIN bytes}
           S == {0} \union G
           T == S \intersect Nat
<1>1. ram \in Views /\ flash \in FlashPages /\ RunOk(flash, ram)
  BY DEF RingInd, Body
<1>2. MaxRecords \in Nat
  BY RingAssumption
<1>3. ASSUME NEW j \in DOMAIN bytes
      PROVE  /\ bytes[j][1] \in Int /\ (bytes[j][1] > 0 => bytes[j][1] \in 0..MaxRecords)
             /\ bytes[j][1] > 0 => \E k \in Nat, b \in Byte : ReadAt(a, k, b) /\ b[1] = bytes[j][1]
  <2>1. bytes # <<>>
    <3>1. DOMAIN <<>> = {}
      OBVIOUS
    <3> QED BY <3>1
  <2>2. /\ bytes = [k \in 1..HeadSize(ram) |-> ByteAt(PageOf(a), PlaceOf(a) + k - 1)]
        /\ \A k \in 1..HeadSize(ram) :
             /\ ByteAt(PageOf(a), PlaceOf(a) + k - 1) \in Byte
             /\ ByteAt(PageOf(a), PlaceOf(a) + k - 1)[1] > 0
                  => ReadAt(a, k, ByteAt(PageOf(a), PlaceOf(a) + k - 1))
    BY <1>1, <2>1, ReadIs
  <2> HIDE DEF bytes
  <2>3. /\ j \in 1..HeadSize(ram) /\ bytes[j] \in Byte /\ (bytes[j][1] > 0 => ReadAt(a, j, bytes[j]))
    BY <2>2
  <2>4. j \in Nat /\ bytes[j][1] \in Int /\ (bytes[j][1] > 0 => bytes[j][1] \in Numbers)
    BY <2>3, BytesAre, <1>1, ViewIs
  <2>5. bytes[j][1] > 0 => \E k \in Nat, b \in Byte : ReadAt(a, k, b) /\ b[1] = bytes[j][1]
    BY <2>3, <2>4
  <2> QED BY <2>4, <2>5 DEF Numbers
<1> HIDE DEF bytes
<1>4. \A x \in G : x \in Int /\ (x > 0 => x \in 0..MaxRecords)
  BY <1>3
<1> HIDE DEF G
<1>5. T \in SUBSET (0..MaxRecords) /\ T # {}
  BY <1>2, <1>4
<1>6. Max(T) \in T /\ \A y \in T : Max(T) >= y
  <2> HIDE DEF T
  <2> QED BY <1>2, <1>5, GreatestIs
<1>7. Max(T) \in S /\ \A y \in S : Max(T) >= y
  <2>1. \A y \in S : y \in Int
    BY <1>4
  <2>2. Max(T) \in Nat
    BY <1>6
  <2> QED BY <1>6, <2>1, <2>2
<1>8. Max(S) \in S /\ \A y \in S : Max(S) >= y
  <2> HIDE DEF S, T
  <2>1. \E x \in S : \A y \in S : x >= y
    BY <1>7
  <2> QED BY <2>1, Zenon DEF Max
<1>9. RecordOf(a) = Max(S)
  BY DEF RecordOf, S, G, bytes
<1>10. RecordOf(a) \in Nat /\ (RecordOf(a) # 0 => RecordOf(a) \in G /\ RecordOf(a) > 0)
  <2>1. 0 \in S /\ \A y \in S : y \in Int
    BY <1>4
  <2>2. \A y \in S : y = 0 \/ y \in G
    OBVIOUS
  <2> HIDE DEF S
  <2>3. RecordOf(a) \in S /\ RecordOf(a) >= 0
    BY <1>8, <1>9, <2>1
  <2>4. RecordOf(a) \in Int
    BY <2>1, <2>3
  <2> QED BY <2>2, <2>3, <2>4
<1>11. RecordOf(a) \in G => \E j \in DOMAIN bytes : RecordOf(a) = bytes[j][1]
  BY DEF G
<1> QED BY <1>3, <1>10, <1>11

LEMMA NoStaleFollows ==
  ASSUME RingInd
  PROVE  NoStalePage
<1> SUFFICES ASSUME NEW a \in Window, NEW b \in Window, a < b, RecordOf(b) > 0
             PROVE  RecordOf(a) < RecordOf(b)
  BY DEF NoStalePage
<1>1. RecordOf(a) \in Nat /\ RecordOf(b) \in Nat
  BY RecordOfIs
<1>2. CASE RecordOf(a) = 0
  BY <1>1, <1>2
<1>3. CASE RecordOf(a) # 0
  <2>1. PICK j \in Nat, x \in Byte : ReadAt(a, j, x) /\ x[1] = RecordOf(a)
    BY <1>3, RecordOfIs
  <2>2. PICK k \in Nat, y \in Byte : ReadAt(b, k, y) /\ y[1] = RecordOf(b)
    BY <1>1, RecordOfIs
  <2> DEFINE i == PageOf(b)
             d == PlaceOf(b) + k - 1
  <2>3. /\ i \in 1..Len(ram.live) /\ d \in Nat /\ Holds(flash, ram, ram.live[i].phys, d, y)
        /\ ram.live[i].first + SlotOf(flash, ram.live[i].phys, d) = b
        /\ i < Len(ram.live) => b < ram.live[i + 1].first
    BY <2>2, ReadsLie
  <2> HIDE DEF i, d
  <2>4. x[1] < y[1]
    BY <2>1, <2>3, HeldRise
  <2> QED BY <2>1, <2>2, <2>4
<1> QED BY <1>2, <1>3

LEMMA RingFollows ==
  ASSUME RingInd
  PROVE  RingInv
BY TypeFollows, OneRunFollows, InPlaceFollows, NoStaleFollows DEF RingInv

\* The run of pages taken to be live is whole, what is read at an ordinal is
\* nowhere shifted, mixed of two records or of another layout or interval, and
\* later ordinals hold later records, after any captures, failed writes, erases,
\* clears, replays and resets of a ring that never goes back to a layout it left
\* (backend_append(), advance_page(), backend_mount()).
THEOREM RingIsOneRun ==
  ASSUME GoesBack = FALSE
  PROVE  Spec => []RingInv
<1>1. Init => RingInd
  BY RingStarts
<1>2. RingInd /\ [Next]_vars => RingInd'
  BY RingIndNext
<1>3. RingInd => RingInv
  BY RingFollows
<1> QED BY <1>1, <1>2, <1>3, PTL DEF Spec

\* Later ordinals hold later records, as long as the ring never goes back to a
\* layout it left: no mount chains a page of an earlier run onto a newer one.  The
\* run that lets a layout come back shows that the condition is needed
\* (backend_reset_logical(), backend_mount()).
THEOREM NoPageIsStale ==
  ASSUME GoesBack = FALSE
  PROVE  Spec => []NoStalePage
<1>1. Init => RingInd
  BY RingStarts
<1>2. RingInd /\ [Next]_vars => RingInd'
  BY RingIndNext
<1>3. RingInd => NoStalePage
  BY NoStaleFollows
<1> QED BY <1>1, <1>2, <1>3, PTL DEF Spec
=============================================================================
