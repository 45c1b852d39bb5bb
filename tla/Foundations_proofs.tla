------------------------- MODULE Foundations_proofs -------------------------
(***************************************************************************)
(* Proofs about what the radio backends rest on, for every value of the     *)
(* constants: the duty-cycle ledger, the gate between flash writes and      *)
(* radio exchanges, and the counters and the session of P2P.                *)
(***************************************************************************)
EXTENDS DutyLedger, AirGate, P2PSession, FiniteSetTheorems, WellFoundedInduction, TLAPS

-----------------------------------------------------------------------------
(* The ledger: remainders and slots *)

LEMMA DivMod ==
  ASSUME NEW s \in Nat \ {0}, NEW x \in Int
  PROVE  /\ x \div s \in Int /\ x % s \in 0..(s - 1)
         /\ x = ((x \div s) * s) + (x % s)
OBVIOUS

LEMMA ModUnique ==
  ASSUME NEW s \in Nat \ {0}, NEW q \in Int, NEW r \in 0..(s - 1)
  PROVE  ((q * s) + r) % s = r /\ ((q * s) + r) \div s = q
OBVIOUS

\* The remainder of the next number: one more, or zero again.
LEMMA ModNext ==
  ASSUME NEW s \in Nat \ {0}, NEW x \in Int
  PROVE  (x + 1) % s = IF (x % s) + 1 = s THEN 0 ELSE (x % s) + 1
<1> DEFINE q == x \div s
           r == x % s
<1>1. q \in Int /\ r \in 0..(s - 1) /\ x = (q * s) + r
  BY DivMod
<1> HIDE DEF q, r
<1>2. CASE r + 1 = s
  <2>1. x + 1 = ((q + 1) * s) + 0
    BY <1>1, <1>2
  <2>2. (((q + 1) * s) + 0) % s = 0
    BY ModUnique, <1>1, 0 \in 0..(s - 1), q + 1 \in Int
  <2> QED BY <1>2, <2>1, <2>2 DEF r
<1>3. CASE r + 1 # s
  <2>1. x + 1 = (q * s) + (r + 1)
    BY <1>1
  <2>2. ((q * s) + (r + 1)) % s = r + 1
    BY ModUnique, <1>1, <1>3, r + 1 \in 0..(s - 1)
  <2> QED BY <1>3, <2>1, <2>2 DEF r
<1> QED BY <1>2, <1>3

\* An unsigned difference of two remainders.
LEMMA ModDiff ==
  ASSUME NEW s \in Nat \ {0}, NEW x \in 0..(s - 1), NEW y \in 0..(s - 1)
  PROVE  (x - y) % s = IF x >= y THEN x - y ELSE (x - y) + s
OBVIOUS

LEMMA SmallMod ==
  ASSUME NEW s \in Nat \ {0}, NEW x \in 0..(s - 1)
  PROVE  x % s = x
OBVIOUS

\* Numbers of one slot are less than a slot apart; numbers a slot apart are in different slots.
LEMMA SlotsApart ==
  ASSUME NEW s \in Nat \ {0}, NEW x \in Int, NEW y \in Int, x <= y
  PROVE  /\ x \div s <= y \div s
         /\ y - x >= s => x \div s < y \div s
         /\ x \div s = y \div s => y - x <= y % s
<1> DEFINE p == x \div s
           q == y \div s
<1>1. p \in Int /\ q \in Int
  BY DivMod
<1>2. x % s \in 0..(s - 1) /\ x = (p * s) + (x % s) /\ y % s \in 0..(s - 1) /\ y = (q * s) + (y % s)
  BY DivMod
<1> HIDE DEF p, q
<1>3. p * s <= x /\ x < (p * s) + s /\ q * s <= y /\ y < (q * s) + s /\ p * s \in Int /\ q * s \in Int
  BY <1>1, <1>2
<1>4. p <= q
  <2>1. SUFFICES ASSUME p >= q + 1 PROVE FALSE
    BY <1>1
  <2>2. p * s >= (q + 1) * s
    BY <2>1, <1>1
  <2>3. (q + 1) * s = (q * s) + s
    BY <1>1
  <2> QED BY <2>2, <2>3, <1>3
<1>5. y - x >= s => p # q
  BY <1>3, <1>1
<1>6. p = q => y - x <= y % s
  BY <1>2, <1>3, <1>1
<1> QED BY <1>4, <1>5, <1>6, <1>1 DEF p, q

\* Less than n slots later, the number of the slot is at most n more.
LEMMA SlotsWithin ==
  ASSUME NEW s \in Nat \ {0}, NEW n \in Nat, NEW x \in Int, NEW y \in Int, y - x < n * s
  PROVE  y \div s <= (x \div s) + n
<1> DEFINE p == x \div s
           q == y \div s
<1>1. p \in Int /\ q \in Int
  BY DivMod
<1>2. x % s \in 0..(s - 1) /\ x = (p * s) + (x % s) /\ y % s \in 0..(s - 1) /\ y = (q * s) + (y % s)
  BY DivMod
<1> HIDE DEF p, q
<1>3. p * s <= x /\ x < (p * s) + s /\ q * s <= y /\ y < (q * s) + s /\ p * s \in Int /\ q * s \in Int /\ n * s \in Int
  BY <1>1, <1>2
<1>4. SUFFICES ASSUME q >= (p + n) + 1 PROVE FALSE
  BY <1>1 DEF p, q
<1>5. q * s >= ((p + n) + 1) * s
  BY <1>4, <1>1
<1>6. ((p + n) + 1) * s = ((p * s) + (n * s)) + s
  BY <1>1
<1> QED BY <1>5, <1>6, <1>3

-----------------------------------------------------------------------------
(* The ledger: running sums *)

LEMMA LeastNat ==
  ASSUME NEW T, T \subseteq Nat, T # {}
  PROVE  \E n \in T : \A m \in T : n <= m
<1>1. IsWellFoundedOn(OpToRel(<, Nat), Nat)
  BY NatLessThanWellFounded
<1>2. \E n \in T : \A m \in T : ~ (<<m, n>> \in OpToRel(<, Nat))
  BY <1>1, WFMin
<1>3. PICK n \in T : \A m \in T : ~ (<<m, n>> \in OpToRel(<, Nat))
  BY <1>2
<1>4. \A m \in T : ~(m < n)
  BY <1>3 DEF OpToRel
<1> QED BY <1>4

LEMMA Induct ==
  ASSUME NEW S, S \subseteq Nat, 0 \in S, \A n \in S : n + 1 \in S
  PROVE  S = Nat
<1> SUFFICES ASSUME S # Nat PROVE FALSE
  OBVIOUS
<1>1. PICK n \in Nat \ S : \A m \in Nat \ S : n <= m
  BY LeastNat
<1>2. n - 1 \in Nat /\ n - 1 \in S
  BY <1>1
<1> QED BY <1>1, <1>2

\* The first n + 1 values of a running sum.
Partial(w, n, g) ==
  /\ g = [i \in 0..n |-> g[i]]
  /\ g[0] = 0
  /\ \A i \in 1..n : g[i] = g[i - 1] + w[i]

LEMMA PartialExists ==
  ASSUME NEW w
  PROVE  \A n \in Nat : \E g : Partial(w, n, g)
<1> DEFINE T == {n \in Nat : \E g : Partial(w, n, g)}
<1>1. 0 \in T
  <2>1. Partial(w, 0, [i \in 0..0 |-> 0])
    BY DEF Partial
  <2> QED BY <2>1
<1>2. ASSUME NEW n \in T PROVE n + 1 \in T
  <2>1. n \in Nat
    OBVIOUS
  <2>2. PICK g : Partial(w, n, g)
    OBVIOUS
  <2> DEFINE h == [i \in 0..(n + 1) |-> IF i = n + 1 THEN g[n] + w[n + 1] ELSE g[i]]
  <2>3. h[0] = 0
    BY <2>1, <2>2 DEF Partial
  <2>4. ASSUME NEW i \in 1..(n + 1) PROVE h[i] = h[i - 1] + w[i]
    <3>1. CASE i = n + 1
      <4>1. h[i] = g[n] + w[i] /\ h[i - 1] = g[n]
        BY <2>1, <3>1
      <4> QED BY <4>1
    <3>2. CASE i # n + 1
      <4>1. i \in 1..n /\ h[i] = g[i] /\ h[i - 1] = g[i - 1]
        BY <2>1, <3>2
      <4> QED BY <4>1, <2>2 DEF Partial
    <3> QED BY <3>1, <3>2
  <2>5. h = [i \in 0..(n + 1) |-> h[i]]
    OBVIOUS
  <2> HIDE DEF h
  <2>6. Partial(w, n + 1, h)
    BY <2>3, <2>4, <2>5 DEF Partial
  <2> QED BY <2>1, <2>6
<1> HIDE DEF T
<1>3. T = Nat
  <2>1. T \subseteq Nat
    BY DEF T
  <2> QED BY <1>1, <1>2, <2>1, Induct
<1> QED BY <1>3 DEF T

LEMMA PartialUnique ==
  ASSUME NEW w, NEW m \in Nat, NEW n \in Nat, NEW g, NEW h,
         Partial(w, m, g), Partial(w, n, h)
  PROVE  \A i \in 0..m : i \in 0..n => g[i] = h[i]
<1> DEFINE T == {i \in Nat : i <= m /\ i <= n => g[i] = h[i]}
<1>1. 0 \in T
  BY DEF Partial
<1>2. ASSUME NEW i \in T PROVE i + 1 \in T
  <2>1. SUFFICES ASSUME i + 1 <= m, i + 1 <= n PROVE g[i + 1] = h[i + 1]
    OBVIOUS
  <2>2. i \in Nat /\ g[i] = h[i]
    BY <2>1
  <2>3. i + 1 \in 1..m /\ i + 1 \in 1..n /\ (i + 1) - 1 = i
    BY <2>1, <2>2
  <2>4. g[i + 1] = g[i] + w[i + 1] /\ h[i + 1] = h[i] + w[i + 1]
    BY <2>3 DEF Partial
  <2> QED BY <2>2, <2>4
<1> HIDE DEF T
<1>3. T = Nat
  <2>1. T \subseteq Nat
    BY DEF T
  <2> QED BY <1>1, <1>2, <2>1, Induct
<1> QED BY <1>3 DEF T

LEMMA RunningIs ==
  ASSUME NEW w
  PROVE  /\ Running(w)[0] = 0
         /\ \A n \in Nat : Running(w)[n + 1] = Running(w)[n] + w[n + 1]
<1> DEFINE G(n) == CHOOSE g : Partial(w, n, g)
           F == [n \in Nat |-> G(n)[n]]
<1>1. ASSUME NEW n \in Nat PROVE Partial(w, n, G(n))
  BY PartialExists
<1> HIDE DEF G
<1>2. F[0] = 0
  BY <1>1 DEF Partial
<1>3. ASSUME NEW n \in Nat PROVE F[n + 1] = F[n] + w[n + 1]
  <2>1. n + 1 \in Nat /\ n + 1 \in 1..(n + 1) /\ (n + 1) - 1 = n
    OBVIOUS
  <2>2. G(n + 1)[n + 1] = G(n + 1)[n] + w[n + 1]
    BY <2>1, <1>1 DEF Partial
  <2>3. G(n + 1)[n] = G(n)[n]
    <3>1. n \in 0..(n + 1) /\ n \in 0..n
      OBVIOUS
    <3> QED BY <3>1, <2>1, <1>1, PartialUnique
  <2> QED BY <2>1, <2>2, <2>3
<1>4. ASSUME NEW n \in Nat PROVE F[n] = IF n = 0 THEN 0 ELSE F[n - 1] + w[n]
  <2>1. CASE n = 0
    BY <2>1, <1>2
  <2>2. CASE n # 0
    <3>1. n - 1 \in Nat /\ (n - 1) + 1 = n
      BY <2>2
    <3>2. F[(n - 1) + 1] = F[n - 1] + w[(n - 1) + 1]
      BY <3>1, <1>3
    <3> QED BY <3>1, <3>2, <2>2
  <2> QED BY <2>1, <2>2
<1>5. F = [n \in Nat |-> F[n]]
  OBVIOUS
<1> HIDE DEF F
<1>6. F = [n \in Nat |-> IF n = 0 THEN 0 ELSE F[n - 1] + w[n]]
  BY <1>4, <1>5
<1>7. Running(w) = [n \in Nat |-> IF n = 0 THEN 0 ELSE Running(w)[n - 1] + w[n]]
  BY <1>6 DEF Running
<1>8. ASSUME NEW n \in Nat PROVE Running(w)[n + 1] = Running(w)[n] + w[n + 1]
  <2>1. n + 1 \in Nat /\ n + 1 # 0 /\ (n + 1) - 1 = n
    OBVIOUS
  <2> DEFINE R == Running(w)
  <2> HIDE DEF R
  <2>2. R = [k \in Nat |-> IF k = 0 THEN 0 ELSE R[k - 1] + w[k]]
    BY <1>7 DEF R
  <2>3. R[n + 1] = R[n] + w[n + 1]
    BY <2>1, <2>2
  <2> QED BY <2>3 DEF R
<1>9. Running(w)[0] = 0
  <2> DEFINE R == Running(w)
  <2> HIDE DEF R
  <2>2. R = [k \in Nat |-> IF k = 0 THEN 0 ELSE R[k - 1] + w[k]]
    BY <1>7 DEF R
  <2>3. R[0] = 0
    BY <2>2
  <2> QED BY <2>3 DEF R
<1> QED BY <1>8, <1>9

\* What is not negative adds up to a sum that grows.
LEMMA RunningNat ==
  ASSUME NEW w, NEW n \in Nat, \A i \in 1..n : w[i] \in Nat
  PROVE  /\ \A i \in 0..n : Running(w)[i] \in Nat
         /\ \A i \in 0..n : \A j \in 0..i : Running(w)[j] <= Running(w)[i]
<1> DEFINE R == Running(w)
<1>1. R[0] = 0 /\ \A i \in Nat : R[i + 1] = R[i] + w[i + 1]
  BY RunningIs
<1> HIDE DEF R
<1> DEFINE T == {i \in Nat : i <= n => \A j \in 0..i : R[j] \in Nat /\ R[j] <= R[i]}
<1>2. 0 \in T
  BY <1>1
<1>3. ASSUME NEW i \in T PROVE i + 1 \in T
  <2>1. SUFFICES ASSUME i + 1 <= n
                 PROVE  \A j \in 0..(i + 1) : R[j] \in Nat /\ R[j] <= R[i + 1]
    OBVIOUS
  <2>2. i \in Nat /\ \A j \in 0..i : R[j] \in Nat /\ R[j] <= R[i]
    BY <2>1
  <2>3. w[i + 1] \in Nat /\ R[i + 1] = R[i] + w[i + 1]
    <3>1. i + 1 \in 1..n
      BY <2>1, <2>2
    <3> QED BY <3>1, <2>2, <1>1
  <2>4. R[i] \in Nat
    <3>1. i \in 0..i
      BY <2>2
    <3> QED BY <2>2, <3>1
  <2>5. R[i + 1] \in Nat /\ R[i] <= R[i + 1]
    BY <2>3, <2>4
  <2>6. ASSUME NEW j \in 0..(i + 1) PROVE R[j] \in Nat /\ R[j] <= R[i + 1]
    <3>1. CASE j = i + 1
      BY <3>1, <2>5
    <3>2. CASE j # i + 1
      <4>1. j \in 0..i
        BY <3>2, <2>2
      <4>2. R[j] <= R[i] /\ R[j] \in Nat
        BY <2>2, <4>1
      <4> QED BY <4>2, <2>4, <2>5
    <3> QED BY <3>1, <3>2
  <2> QED BY <2>6
<1> HIDE DEF T
<1>4. T = Nat
  <2>1. T \subseteq Nat
    BY DEF T
  <2> QED BY <1>2, <1>3, <2>1, Induct
<1>5. ASSUME NEW i \in 0..n PROVE \A j \in 0..i : R[j] \in Nat /\ R[j] <= R[i]
  BY <1>4 DEF T
<1>6. ASSUME NEW i \in 0..n PROVE R[i] \in Nat
  BY <1>5, i \in 0..i
<1> QED BY <1>5, <1>6 DEF R

\* From m on in v and from k on in w, n numbers are the same.
Alike(v, m, w, k, n) ==
  /\ m \in Nat /\ k \in Nat /\ n \in Nat
  /\ Running(v)[m] \in Int /\ Running(w)[k] \in Int
  /\ \A i \in (m + 1)..(m + n) : v[i] \in Int
  /\ \A i \in 1..n : v[m + i] = w[k + i]

\* Two sums that add the same from there on differ by what they were there.
LEMMA RunningFrom ==
  ASSUME NEW v, NEW m, NEW w, NEW k, NEW n, Alike(v, m, w, k, n)
  PROVE  \A i \in 0..n : /\ Running(v)[m + i] \in Int /\ Running(w)[k + i] \in Int
                         /\ Running(v)[m + i] - Running(v)[m] = Running(w)[k + i] - Running(w)[k]
<1> USE DEF Alike
<1> DEFINE R == Running(v)
           Q == Running(w)
<1>1. /\ \A i \in Nat : R[i + 1] = R[i] + v[i + 1]
      /\ \A i \in Nat : Q[i + 1] = Q[i] + w[i + 1]
      /\ R[m] \in Int /\ Q[k] \in Int
  BY RunningIs
<1> HIDE DEF R, Q
<1> DEFINE T == {i \in Nat : i <= n => /\ R[m + i] \in Int /\ Q[k + i] \in Int
                                      /\ R[m + i] - R[m] = Q[k + i] - Q[k]}
<1>2. 0 \in T
  <2>1. m + 0 = m /\ k + 0 = k
    OBVIOUS
  <2> QED BY <1>1, <2>1
<1>3. ASSUME NEW i \in T PROVE i + 1 \in T
  <2>1. SUFFICES ASSUME i + 1 <= n
                 PROVE  /\ R[m + (i + 1)] \in Int /\ Q[k + (i + 1)] \in Int
                        /\ R[m + (i + 1)] - R[m] = Q[k + (i + 1)] - Q[k]
    OBVIOUS
  <2>2. /\ i \in Nat /\ R[m + i] \in Int /\ Q[k + i] \in Int
        /\ R[m + i] - R[m] = Q[k + i] - Q[k]
    BY <2>1
  <2>3. /\ i + 1 \in 1..n /\ m + i \in Nat /\ k + i \in Nat
        /\ m + (i + 1) = (m + i) + 1 /\ k + (i + 1) = (k + i) + 1
        /\ (m + i) + 1 \in (m + 1)..(m + n)
    BY <2>1, <2>2
  <2>4. /\ R[(m + i) + 1] = R[m + i] + v[(m + i) + 1]
        /\ Q[(k + i) + 1] = Q[k + i] + w[(k + i) + 1]
    BY <2>3, <1>1
  <2>5. /\ v[(m + i) + 1] \in Int /\ w[(k + i) + 1] \in Int
        /\ v[(m + i) + 1] = w[(k + i) + 1]
    <3>1. v[m + (i + 1)] = w[k + (i + 1)]
      BY <2>3
    <3> QED BY <2>3, <3>1
  <2> QED BY <2>2, <2>3, <2>4, <2>5, <1>1
<1> HIDE DEF T
<1>4. T = Nat
  <2>1. T \subseteq Nat
    BY DEF T
  <2> QED BY <1>2, <1>3, <2>1, Induct
<1>5. ASSUME NEW i \in 0..n
      PROVE  R[m + i] \in Int /\ Q[k + i] \in Int /\ R[m + i] - R[m] = Q[k + i] - Q[k]
  <2>1. i \in T /\ i <= n
    BY <1>4
  <2> QED BY <2>1 DEF T
<1> QED BY <1>5 DEF R, Q

\* A sum of nothing.
LEMMA RunningZero ==
  ASSUME NEW w, NEW n \in Nat, \A i \in 1..n : w[i] = 0
  PROVE  Running(w)[n] = 0
<1> DEFINE R == Running(w)
<1>1. R[0] = 0 /\ \A i \in Nat : R[i + 1] = R[i] + w[i + 1]
  BY RunningIs
<1> HIDE DEF R
<1> DEFINE T == {i \in Nat : i <= n => R[i] = 0}
<1>2. 0 \in T
  BY <1>1
<1>3. ASSUME NEW i \in T PROVE i + 1 \in T
  <2>1. SUFFICES ASSUME i + 1 <= n PROVE R[i + 1] = 0
    OBVIOUS
  <2>2. i \in Nat /\ R[i] = 0 /\ w[i + 1] = 0
    BY <2>1
  <2> QED BY <2>2, <1>1
<1> HIDE DEF T
<1>4. T = Nat
  <2>1. T \subseteq Nat
    BY DEF T
  <2> QED BY <1>2, <1>3, <2>1, Induct
<1> QED BY <1>4 DEF T, R

-----------------------------------------------------------------------------
(* The ledger: its entries, oldest first *)

Entry == [end : 0..(Wrap - 1), air : Nat \ {0}]
Total(s) == Running(AirIn(s))
Descending(s) == \A i, j \in 1..Len(s) : i < j => Age(s[j]) < Age(s[i])
\* The entries up to m are as old as age, the others younger.
Cut(s, age, m) ==
  /\ m \in 0..Len(s)
  /\ \A i \in 1..m : Age(s[i]) >= age
  /\ \A i \in (m + 1)..Len(s) : Age(s[i]) < age

LEMMA Sizes ==
  /\ Window \in Nat \ {0} /\ Slot \in Nat \ {0} /\ Wrap \in Nat \ {0} /\ MaxIdle \in Nat
  /\ Window < Wrap /\ Window + MaxIdle <= Wrap /\ Slot <= Window
  /\ Window = (Window \div Slot) * Slot /\ Window \div Slot \in Nat \ {0}
  /\ Budget \in Nat /\ Airs \subseteq Nat \ {0}
<1>1. /\ Window \in Nat \ {0} /\ Slot \in Nat \ {0} /\ Wrap \in Nat \ {0} /\ MaxIdle \in Nat
      /\ Window + Slot < Wrap /\ Window + MaxIdle <= Wrap /\ Window % Slot = 0
      /\ Budget \in Nat /\ Airs \subseteq Nat \ {0}
  BY LedgerSizes, LedgerIsUsed
<1> DEFINE q == Window \div Slot
<1>2. q \in Int /\ Window = (q * Slot) + (Window % Slot)
  BY <1>1, DivMod
<1> HIDE DEF q
<1>3. Window = q * Slot
  BY <1>1, <1>2
<1>4. q > 0
  <2>1. SUFFICES ASSUME q <= 0 PROVE FALSE
    BY <1>2
  <2>2. q * Slot <= 0
    BY <2>1, <1>1, <1>2
  <2> QED BY <2>2, <1>3, <1>1
<1>5. Slot <= Window
  <2>1. q * Slot >= 1 * Slot
    BY <1>1, <1>2, <1>4
  <2> QED BY <2>1, <1>3, <1>1
<1> QED BY <1>1, <1>2, <1>3, <1>4, <1>5 DEF q

LEMMA NowIs ==
  ASSUME clock \in Nat
  PROVE  Now \in 0..(Wrap - 1) /\ (clock < Wrap => Now = clock)
<1>1. Now \in 0..(Wrap - 1)
  BY Sizes, DivMod DEF Now
<1>2. clock < Wrap => clock \in 0..(Wrap - 1)
  BY Sizes
<1> QED BY <1>1, <1>2, Sizes, SmallMod DEF Now

LEMMA AgeIs ==
  ASSUME clock \in Nat, NEW e, e.end \in 0..(Wrap - 1)
  PROVE  /\ Age(e) \in 0..(Wrap - 1)
         /\ Age(e) = IF Now >= e.end THEN Now - e.end ELSE (Now - e.end) + Wrap
<1> DEFINE x == Now
           y == e.end
<1>1. x \in 0..(Wrap - 1) /\ y \in 0..(Wrap - 1) /\ Wrap \in Nat \ {0}
  BY NowIs, Sizes
<1> HIDE DEF x, y
<1>2. (x - y) % Wrap = IF x >= y THEN x - y ELSE (x - y) + Wrap
  BY <1>1, ModDiff
<1> QED BY <1>1, <1>2 DEF Age, x, y

\* Before the wrap an entry that is not older than the clock keeps its uptime.
LEMMA EndIs ==
  ASSUME clock \in Nat, clock < Wrap, NEW e, e.end \in 0..(Wrap - 1), Age(e) <= clock
  PROVE  e.end = clock - Age(e)
BY AgeIs, NowIs, Sizes

\* A tick makes an entry one older, as long as its age does not wrap.
LEMMA AgeNext ==
  ASSUME clock \in Nat, clock' = clock + 1,
         NEW e, e.end \in 0..(Wrap - 1), Age(e) + 1 < Wrap
  PROVE  (Now' - e.end) % Wrap = Age(e) + 1
<1> DEFINE x == Now
           z == Now'
           y == e.end
<1>1. x \in 0..(Wrap - 1) /\ y \in 0..(Wrap - 1) /\ Wrap \in Nat \ {0}
  BY NowIs, Sizes
<1>2. z = IF x + 1 = Wrap THEN 0 ELSE x + 1
  <2>1. z = (clock + 1) % Wrap /\ x = clock % Wrap
    BY DEF Now
  <2>2. (clock + 1) % Wrap = IF (clock % Wrap) + 1 = Wrap THEN 0 ELSE (clock % Wrap) + 1
    BY <1>1, clock \in Int, ModNext
  <2> QED BY <2>1, <2>2
<1>3. Age(e) = IF x >= y THEN x - y ELSE (x - y) + Wrap
  BY AgeIs
<1> HIDE DEF x, y, z
<1>4. z \in 0..(Wrap - 1)
  BY <1>1, <1>2
<1>5. (z - y) % Wrap = IF z >= y THEN z - y ELSE (z - y) + Wrap
  BY <1>1, <1>4, ModDiff
<1> QED BY <1>1, <1>2, <1>3, <1>5 DEF y, z

LEMMA AirsIn ==
  ASSUME NEW s \in Seq(Entry)
  PROVE  /\ Len(s) \in Nat /\ DOMAIN s = 1..Len(s)
         /\ \A i \in 1..Len(s) : /\ s[i] \in Entry /\ s[i].end \in 0..(Wrap - 1)
                                 /\ s[i].air \in Nat \ {0}
                                 /\ AirIn(s)[i] = s[i].air
         /\ Total(s)[0] = 0
         /\ \A i \in 0..Len(s) : Total(s)[i] \in Nat
         /\ \A i \in 0..Len(s) : \A j \in 0..i : Total(s)[j] <= Total(s)[i]
<1>1. Len(s) \in Nat /\ DOMAIN s = 1..Len(s)
  OBVIOUS
<1>2. ASSUME NEW i \in 1..Len(s)
      PROVE  /\ s[i] \in Entry /\ s[i].end \in 0..(Wrap - 1) /\ s[i].air \in Nat \ {0}
             /\ AirIn(s)[i] = s[i].air
  <2>1. s[i] \in Entry
    OBVIOUS
  <2>2. s[i].end \in 0..(Wrap - 1) /\ s[i].air \in Nat \ {0}
    BY <2>1 DEF Entry
  <2> QED BY <1>1, <2>1, <2>2 DEF AirIn
<1>3. \A i \in 1..Len(s) : AirIn(s)[i] \in Nat
  BY <1>2
<1>4. /\ \A i \in 0..Len(s) : Total(s)[i] \in Nat
      /\ \A i \in 0..Len(s) : \A j \in 0..i : Total(s)[j] <= Total(s)[i]
  BY <1>1, <1>3, RunningNat DEF Total
<1>5. Total(s)[0] = 0
  BY RunningIs DEF Total
<1> QED BY <1>1, <1>2, <1>4, <1>5

LEMMA CutExists ==
  ASSUME clock \in Nat, NEW s \in Seq(Entry), Descending(s), NEW age \in Int
  PROVE  \E m \in 0..Len(s) : Cut(s, age, m)
<1> DEFINE n == Len(s)
           T == {m \in Nat : m <= n /\ \A i \in (m + 1)..n : Age(s[i]) < age}
<1>1. n \in Nat /\ n \in T
  BY AirsIn
<1>2. \A i \in 1..n : Age(s[i]) \in Int
  BY AirsIn, AgeIs
<1>3. PICK m \in T : \A k \in T : m <= k
  <2>1. T \subseteq Nat /\ T # {}
    BY <1>1
  <2> QED BY <2>1, LeastNat
<1>4. m \in 0..n /\ \A i \in (m + 1)..n : Age(s[i]) < age
  BY <1>1
<1>5. ASSUME NEW i \in 1..m PROVE Age(s[i]) >= age
  <2>1. m - 1 \in Nat /\ m - 1 <= n /\ ~(m <= m - 1) /\ m \in 1..n /\ i \in 1..n
    BY <1>1, <1>4
  <2>2. m - 1 \notin T
    BY <1>3, <2>1
  <2>3. PICK j \in ((m - 1) + 1)..n : ~(Age(s[j]) < age)
    BY <2>1, <2>2
  <2>4. j = m
    <3>1. j \notin (m + 1)..n
      BY <1>4, <2>3
    <3> QED BY <3>1, <2>1, <1>1
  <2>5. Age(s[m]) >= age
    BY <2>1, <2>3, <2>4, <1>2
  <2>6. i < m => Age(s[m]) < Age(s[i])
    BY <2>1 DEF Descending
  <2> QED BY <2>1, <2>5, <2>6, <1>2, <1>1
<1> QED BY <1>4, <1>5, <1>1 DEF Cut

\* What is younger than age is what the entries after the cut hold.
LEMMA YoungerIs ==
  ASSUME clock \in Nat, NEW s \in Seq(Entry), NEW age \in Int, NEW m, Cut(s, age, m)
  PROVE  Younger(s, age) = Total(s)[Len(s)] - Total(s)[m]
<1> DEFINE n == Len(s)
           v == [i \in DOMAIN s |-> IF Age(s[i]) < age THEN s[i].air ELSE 0]
<1>1. n \in Nat /\ DOMAIN s = 1..n /\ m \in 0..n
  BY AirsIn DEF Cut
<1>2. \A i \in 1..n : Age(s[i]) \in Int /\ s[i].air \in Nat /\ AirIn(s)[i] = s[i].air
  BY AirsIn, AgeIs
<1>3. \A i \in 1..m : v[i] = 0
  <2> SUFFICES ASSUME NEW i \in 1..m PROVE v[i] = 0
    OBVIOUS
  <2>1. i \in 1..n /\ ~(Age(s[i]) < age)
    BY <1>1, <1>2 DEF Cut
  <2> QED BY <1>1, <2>1
<1>4. \A i \in (m + 1)..n : v[i] = AirIn(s)[i]
  <2> SUFFICES ASSUME NEW i \in (m + 1)..n PROVE v[i] = AirIn(s)[i]
    OBVIOUS
  <2>1. i \in 1..n /\ Age(s[i]) < age
    BY <1>1 DEF Cut
  <2> QED BY <1>1, <1>2, <2>1
<1>5. \A i \in 1..n : v[i] \in Int
  BY <1>1, <1>2
<1> HIDE DEF v
<1>6. Running(v)[m] = 0
  BY <1>1, <1>3, RunningZero
<1>7. n - m \in Nat /\ m + (n - m) = n
  BY <1>1
<1>8. \A i \in 1..(n - m) : v[m + i] = AirIn(s)[m + i]
  <2> SUFFICES ASSUME NEW i \in 1..(n - m) PROVE v[m + i] = AirIn(s)[m + i]
    OBVIOUS
  <2>1. m + i \in (m + 1)..n
    BY <1>1
  <2> QED BY <2>1, <1>4
<1>9. Total(s)[m] \in Int /\ Total(s)[n] \in Int
  BY <1>1, AirsIn
<1>10. Running(v)[n] - Running(v)[m] = Total(s)[n] - Total(s)[m] /\ Running(v)[n] \in Int
  <2> DEFINE w == AirIn(s)
             d == n - m
  <2>1. d \in Nat /\ m \in Nat /\ m + d = n
    BY <1>1, <1>7
  <2>2. Running(v)[m] \in Int /\ Running(w)[m] \in Int
    BY <1>6, <1>9 DEF Total
  <2>3. \A i \in (m + 1)..(m + d) : v[i] \in Int
    BY <1>1, <1>5, <2>1
  <2>4. \A i \in 1..d : v[m + i] = w[m + i]
    BY <1>8
  <2> HIDE DEF w, d
  <2>7. Alike(v, m, w, m, d)
    BY <2>1, <2>2, <2>3, <2>4 DEF Alike
  <2>5. \A i \in 0..d :
          /\ Running(v)[m + i] \in Int /\ Running(w)[m + i] \in Int
          /\ Running(v)[m + i] - Running(v)[m] = Running(w)[m + i] - Running(w)[m]
    BY <2>7, RunningFrom
  <2>6. d \in 0..d
    BY <2>1
  <2> QED BY <2>1, <2>5, <2>6 DEF Total, w
<1>11. Running(v)[n] = Total(s)[n] - Total(s)[m]
  BY <1>6, <1>9, <1>10
<1> QED BY <1>11 DEF Younger, v

LEMMA YoungerNat ==
  ASSUME clock \in Nat, NEW s \in Seq(Entry), Descending(s), NEW age \in Int
  PROVE  /\ Younger(s, age) \in Nat /\ Total(s)[Len(s)] \in Nat
         /\ Younger(s, age) <= Total(s)[Len(s)]
<1> DEFINE n == Len(s)
<1>1. PICK c \in 0..n : Cut(s, age, c)
  BY CutExists
<1>2. Younger(s, age) = Total(s)[n] - Total(s)[c]
  BY <1>1, YoungerIs
<1>3. n \in 0..n
  BY AirsIn
<1>4. Total(s)[n] \in Nat /\ Total(s)[c] \in Nat /\ Total(s)[c] <= Total(s)[n]
  BY <1>3, AirsIn
<1> QED BY <1>2, <1>4

\* From entry m of u and entry k of s on, n entries hold the same air.
SameAirs(u, m, s, k, n) ==
  /\ m \in Nat /\ k \in Nat /\ n \in Nat /\ m + n <= Len(u) /\ k + n <= Len(s)
  /\ \A i \in 1..n : u[m + i].air = s[k + i].air

LEMMA TotalFrom ==
  ASSUME NEW u \in Seq(Entry), NEW s \in Seq(Entry), NEW m, NEW k, NEW n,
         SameAirs(u, m, s, k, n)
  PROVE  \A i \in 0..n : Total(u)[m + i] - Total(u)[m] = Total(s)[k + i] - Total(s)[k]
<1> DEFINE v == AirIn(u)
           w == AirIn(s)
<1>1. m \in Nat /\ k \in Nat /\ n \in Nat /\ m \in 0..Len(u) /\ k \in 0..Len(s)
      /\ Len(u) \in Nat /\ Len(s) \in Nat /\ m + n <= Len(u) /\ k + n <= Len(s)
  BY AirsIn DEF SameAirs
<1>2. Running(v)[m] \in Int /\ Running(w)[k] \in Int
  <2>1. Total(u)[m] \in Nat /\ Total(s)[k] \in Nat
    BY <1>1, AirsIn
  <2> QED BY <2>1 DEF Total
<1>3. \A i \in 1..Len(u) : v[i] = u[i].air /\ v[i] \in Int
  BY AirsIn
<1>4. \A i \in 1..Len(s) : w[i] = s[i].air
  BY AirsIn
<1>5. \A i \in (m + 1)..(m + n) : v[i] \in Int
  BY <1>1, <1>3
<1>6. \A i \in 1..n : v[m + i] = w[k + i]
  <2> SUFFICES ASSUME NEW i \in 1..n PROVE v[m + i] = w[k + i]
    OBVIOUS
  <2>1. m + i \in 1..Len(u) /\ k + i \in 1..Len(s)
    BY <1>1
  <2>2. u[m + i].air = s[k + i].air
    BY DEF SameAirs
  <2>3. v[m + i] = u[m + i].air
    BY <2>1, <1>3
  <2>4. w[k + i] = s[k + i].air
    BY <2>1, <1>4
  <2> QED BY <2>2, <2>3, <2>4
<1> HIDE DEF v, w
<1>7. Alike(v, m, w, k, n)
  BY <1>1, <1>2, <1>5, <1>6 DEF Alike
<1>8. \A i \in 0..n : Running(v)[m + i] - Running(v)[m] = Running(w)[k + i] - Running(w)[k]
  BY <1>7, RunningFrom
<1> QED BY <1>8 DEF Total, v, w

\* The same from the first entry on.
LEMMA TotalPrefix ==
  ASSUME NEW u \in Seq(Entry), NEW s \in Seq(Entry), NEW n \in Nat,
         n <= Len(u), n <= Len(s), \A i \in 1..n : u[i].air = s[i].air
  PROVE  \A i \in 0..n : Total(u)[i] = Total(s)[i]
<1>1. SameAirs(u, 0, s, 0, n)
  <2>1. \A i \in 1..n : 0 + i = i
    OBVIOUS
  <2>2. Len(u) \in Nat /\ Len(s) \in Nat
    BY AirsIn
  <2> QED BY <2>1, <2>2 DEF SameAirs
<1>2. \A i \in 0..n : Total(u)[0 + i] - Total(u)[0] = Total(s)[0 + i] - Total(s)[0]
  BY <1>1, TotalFrom
<1>3. Total(u)[0] = 0 /\ Total(s)[0] = 0
  BY AirsIn
<1> SUFFICES ASSUME NEW i \in 0..n PROVE Total(u)[i] = Total(s)[i]
  OBVIOUS
<1>4. Total(u)[i] \in Nat /\ Total(s)[i] \in Nat
  <2>1. i \in 0..Len(u) /\ i \in 0..Len(s)
    BY AirsIn
  <2> QED BY <2>1, AirsIn
<1>5. 0 + i = i
  OBVIOUS
<1> QED BY <1>2, <1>3, <1>4, <1>5

LEMMA TotalStep ==
  ASSUME NEW s \in Seq(Entry), NEW i \in 1..Len(s)
  PROVE  Total(s)[i] = Total(s)[i - 1] + s[i].air
<1>1. i - 1 \in Nat /\ (i - 1) + 1 = i
  BY AirsIn
<1>2. Total(s)[(i - 1) + 1] = Total(s)[i - 1] + AirIn(s)[(i - 1) + 1]
  BY <1>1, RunningIs DEF Total
<1>3. AirIn(s)[i] = s[i].air
  BY AirsIn
<1> QED BY <1>1, <1>2, <1>3

LEMMA MinIs ==
  ASSUME NEW T, T \subseteq Int, NEW m \in T, \A i \in T : m <= i
  PROVE  Min(T) = m
<1>1. \E x \in T : \A y \in T : x <= y
  OBVIOUS
<1>2. Min(T) \in T /\ \A y \in T : Min(T) <= y
  BY <1>1 DEF Min
<1>3. Min(T) <= m /\ m <= Min(T) /\ Min(T) \in Int /\ m \in Int
  BY <1>2
<1> QED BY <1>3

\* duty_expire() cuts off what is as old as the window.
LEMMA ExpireIs ==
  ASSUME clock \in Nat, NEW s \in Seq(Entry), NEW m, Cut(s, Window, m)
  PROVE  /\ Expire(s) \in Seq(Entry) /\ Len(Expire(s)) = Len(s) - m
         /\ \A i \in 1..(Len(s) - m) : Expire(s)[i] = s[m + i]
<1> DEFINE n == Len(s)
           live == {i \in DOMAIN s : Age(s[i]) < Window}
<1>1. n \in Nat /\ DOMAIN s = 1..n /\ m \in 0..n /\ Window \in Int
  BY AirsIn, Sizes DEF Cut
<1>2. \A i \in 1..n : Age(s[i]) \in Int
  BY AirsIn, AgeIs
<1>3. live = (m + 1)..n
  <2>1. ASSUME NEW i \in live PROVE i \in (m + 1)..n
    <3>1. i \in 1..n /\ ~(Age(s[i]) >= Window)
      BY <1>1, <1>2
    <3>2. i \notin 1..m
      BY <3>1 DEF Cut
    <3> QED BY <3>1, <3>2, <1>1
  <2>2. ASSUME NEW i \in (m + 1)..n PROVE i \in live
    <3>1. i \in 1..n /\ Age(s[i]) < Window
      BY <1>1 DEF Cut
    <3> QED BY <3>1, <1>1
  <2> HIDE DEF live
  <2> QED BY <2>1, <2>2
<1>4. Expire(s) = IF live = {} THEN <<>> ELSE SubSeq(s, Min(live), Len(s))
  BY DEF Expire
<1> HIDE DEF live
<1>5. CASE m = n
  <2>1. Expire(s) = <<>>
    BY <1>1, <1>3, <1>4, <1>5
  <2> QED BY <1>1, <1>5, <2>1
<1>6. CASE m # n
  <2>4. m \in Nat /\ m + 1 \in Nat /\ m + 1 <= n /\ m + 1 \in (m + 1)..n
    <3> HIDE DEF n
    <3> QED BY <1>1, <1>6
  <2>1. Min(live) = m + 1
    <3>1. m + 1 \in live /\ live \subseteq Int /\ \A i \in live : m + 1 <= i
      BY <2>4, <1>1, <1>3
    <3> QED BY <3>1, MinIs
  <2>2. Expire(s) = SubSeq(s, m + 1, n)
    <3>1. live # {}
      BY <1>3, <2>4
    <3> QED BY <3>1, <2>1, <1>4
  <2>3. /\ SubSeq(s, m + 1, n) \in Seq(Entry) /\ Len(SubSeq(s, m + 1, n)) = n - m
        /\ \A i \in 1..(n - m) : SubSeq(s, m + 1, n)[i] = s[m + i]
    <3>1. m + 1 \in Nat /\ m + 1 <= n /\ m + 1 \in 1..n /\ n \in 1..n /\ (n - (m + 1)) + 1 = n - m
      BY <1>1, <2>4
    <3>2. \A i \in 1..(n - m) : ((m + 1) + i) - 1 = m + i /\ m + i \in 1..n
      BY <1>1
    <3> QED BY <3>1, <3>2
  <2> QED BY <2>2, <2>3
<1> QED BY <1>5, <1>6

\* What is left is as sorted, and what is younger than the window is all left.
LEMMA ExpireKeeps ==
  ASSUME clock \in Nat, NEW s \in Seq(Entry), Descending(s), NEW m, Cut(s, Window, m)
  PROVE  /\ Descending(Expire(s))
         /\ \A i \in 1..Len(Expire(s)) : Age(Expire(s)[i]) < Window
         /\ \A i \in 0..Len(Expire(s)) : Total(Expire(s))[i] = Total(s)[m + i] - Total(s)[m]
         /\ \A age \in 0..Window : Younger(Expire(s), age) = Younger(s, age)
<1> DEFINE u == Expire(s)
           n == Len(s)
<1>1. u \in Seq(Entry) /\ Len(u) = n - m /\ \A i \in 1..(n - m) : u[i] = s[m + i]
  BY ExpireIs
<1>2. n \in Nat /\ m \in 0..n /\ n - m \in Nat
  BY AirsIn DEF Cut
<1> HIDE DEF u
<1>3. Descending(u)
  <2> SUFFICES ASSUME NEW i \in 1..(n - m), NEW j \in 1..(n - m), i < j
               PROVE  Age(u[j]) < Age(u[i])
    BY <1>1 DEF Descending
  <2>1. m + i \in 1..n /\ m + j \in 1..n /\ m + i < m + j
    BY <1>2
  <2>2. Age(s[m + j]) < Age(s[m + i])
    BY <2>1 DEF Descending
  <2> QED BY <2>2, <1>1
<1>4. \A i \in 1..Len(u) : Age(u[i]) < Window
  <2> SUFFICES ASSUME NEW i \in 1..(n - m) PROVE Age(u[i]) < Window
    BY <1>1
  <2>1. m + i \in (m + 1)..n
    BY <1>2
  <2> QED BY <2>1, <1>1 DEF Cut
<1>5. \A i \in 0..Len(u) : Total(u)[i] = Total(s)[m + i] - Total(s)[m]
  <2>1. SameAirs(u, 0, s, m, n - m)
    <3>1. \A i \in 1..(n - m) : 0 + i = i
      OBVIOUS
    <3> QED BY <1>1, <1>2, <3>1 DEF SameAirs
  <2>2. \A i \in 0..(n - m) : Total(u)[0 + i] - Total(u)[0] = Total(s)[m + i] - Total(s)[m]
    BY <1>1, <2>1, TotalFrom
  <2> SUFFICES ASSUME NEW i \in 0..(n - m) PROVE Total(u)[i] = Total(s)[m + i] - Total(s)[m]
    BY <1>1
  <2>3. Total(u)[0] = 0 /\ Total(u)[i] \in Nat /\ 0 + i = i
    BY <1>1, AirsIn
  <2> QED BY <2>2, <2>3
<1>6. ASSUME NEW age \in 0..Window PROVE Younger(u, age) = Younger(s, age)
  <2>1. PICK c \in 0..n : Cut(s, age, c)
    <3>1. age \in Int
      BY Sizes
    <3> QED BY <3>1, CutExists
  <2>2. \A i \in 1..n : Age(s[i]) \in Int
    BY AirsIn, AgeIs
  <2>3. m <= c
    <3>1. SUFFICES ASSUME c < m PROVE FALSE
      BY <1>2
    <3>2. m \in 1..m /\ m \in (c + 1)..n /\ m \in 1..n
      BY <3>1, <1>2
    <3>3. Age(s[m]) >= Window /\ Age(s[m]) < age
      BY <3>2, <2>1 DEF Cut
    <3> QED BY <3>2, <3>3, <2>2, Sizes
  <2>4. Cut(u, age, c - m)
    <3>1. c - m \in 0..Len(u)
      BY <1>1, <1>2, <2>3
    <3>2. ASSUME NEW i \in 1..(c - m) PROVE Age(u[i]) >= age
      <4>1. m + i \in 1..c /\ i \in 1..(n - m)
        BY <1>2, <2>3
      <4> QED BY <4>1, <1>1, <2>1 DEF Cut
    <3>3. ASSUME NEW i \in ((c - m) + 1)..Len(u) PROVE Age(u[i]) < age
      <4>1. m + i \in (c + 1)..n /\ i \in 1..(n - m)
        BY <1>1, <1>2, <2>3
      <4> QED BY <4>1, <1>1, <2>1 DEF Cut
    <3> QED BY <3>1, <3>2, <3>3 DEF Cut
  <2>5. Younger(u, age) = Total(u)[n - m] - Total(u)[c - m]
    <3>1. age \in Int
      BY Sizes
    <3> QED BY <3>1, <2>4, <1>1, YoungerIs
  <2>6. Younger(s, age) = Total(s)[n] - Total(s)[c]
    <3>1. age \in Int
      BY Sizes
    <3> QED BY <3>1, <2>1, YoungerIs
  <2>7. Total(u)[n - m] = Total(s)[n] - Total(s)[m] /\ Total(u)[c - m] = Total(s)[c] - Total(s)[m]
    <3>1. n - m \in 0..Len(u) /\ c - m \in 0..Len(u) /\ m + (n - m) = n /\ m + (c - m) = c
      BY <1>1, <1>2, <2>3
    <3> QED BY <3>1, <1>5
  <2>8. Total(s)[n] \in Nat /\ Total(s)[m] \in Nat /\ Total(s)[c] \in Nat
    <3>1. n \in 0..n
      BY <1>2
    <3> QED BY <3>1, <1>2, <2>1, AirsIn
  <2> QED BY <2>5, <2>6, <2>7, <2>8
<1> QED BY <1>3, <1>4, <1>5, <1>6 DEF u

-----------------------------------------------------------------------------
(* The ledger: a charge *)

Newest(a) == [end |-> Now, air |-> a]

LEMMA NewestIs ==
  ASSUME clock \in Nat, NEW a \in Nat \ {0}
  PROVE  Newest(a) \in Entry /\ Newest(a).end = Now /\ Newest(a).air = a /\ Age(Newest(a)) = 0
<1>1. Now \in 0..(Wrap - 1)
  BY NowIs
<1>2. Newest(a) \in Entry /\ Newest(a).end = Now /\ Newest(a).air = a
  BY <1>1 DEF Newest, Entry
<1>3. Now - Now = 0 /\ Now >= Now
  BY <1>1, Sizes
<1> QED BY <1>1, <1>2, <1>3, AgeIs

LEMMA AppendAirs ==
  ASSUME clock \in Nat, NEW u \in Seq(Entry), Descending(u), NEW a \in Nat \ {0},
         \A i \in 1..Len(u) : Age(u[i]) > 0
  PROVE  /\ Append(u, Newest(a)) \in Seq(Entry)
         /\ Len(Append(u, Newest(a))) = Len(u) + 1
         /\ \A i \in 1..Len(u) : Append(u, Newest(a))[i] = u[i]
         /\ Append(u, Newest(a))[Len(u) + 1] = Newest(a)
         /\ Descending(Append(u, Newest(a)))
         /\ \A age \in 1..Window : Younger(Append(u, Newest(a)), age) = Younger(u, age) + a
<1> DEFINE n == Len(u)
           z == Append(u, Newest(a))
<1>1. /\ n \in Nat /\ z \in Seq(Entry) /\ Len(z) = n + 1
      /\ \A i \in 1..n : z[i] = u[i]
      /\ z[n + 1] = Newest(a)
  BY AirsIn, NewestIs
<1> HIDE DEF z
<1>2. Age(z[n + 1]) = 0 /\ z[n + 1].air = a
  BY <1>1, NewestIs
<1>3. Descending(z)
  <2> SUFFICES ASSUME NEW i \in 1..(n + 1), NEW j \in 1..(n + 1), i < j
               PROVE  Age(z[j]) < Age(z[i])
    BY <1>1 DEF Descending
  <2>1. i \in 1..n
    BY <1>1
  <2>2. CASE j = n + 1
    BY <2>1, <2>2, <1>1, <1>2
  <2>3. CASE j # n + 1
    <3>1. j \in 1..n
      BY <2>3, <1>1
    <3> QED BY <2>1, <3>1, <1>1 DEF Descending
  <2> QED BY <2>2, <2>3
<1>4. ASSUME NEW age \in 1..Window PROVE Younger(z, age) = Younger(u, age) + a
  <2>1. age \in Int /\ age >= 1
    BY Sizes
  <2>2. PICK c \in 0..n : Cut(u, age, c)
    BY <2>1, CutExists
  <2>3. Cut(z, age, c)
    <3>1. c \in 0..Len(z)
      BY <1>1
    <3>2. ASSUME NEW i \in 1..c PROVE Age(z[i]) >= age
      <4>1. i \in 1..n
        BY <1>1
      <4> QED BY <4>1, <1>1, <2>2 DEF Cut
    <3>3. ASSUME NEW i \in (c + 1)..Len(z) PROVE Age(z[i]) < age
      <4>1. CASE i = n + 1
        BY <4>1, <1>2, <2>1
      <4>2. CASE i # n + 1
        <5>1. i \in 1..n /\ i \in (c + 1)..n
          BY <4>2, <1>1
        <5> QED BY <5>1, <1>1, <2>2 DEF Cut
      <4> QED BY <4>1, <4>2
    <3> QED BY <3>1, <3>2, <3>3 DEF Cut
  <2>4. Younger(z, age) = Total(z)[n + 1] - Total(z)[c] /\ Younger(u, age) = Total(u)[n] - Total(u)[c]
    BY <2>1, <2>2, <2>3, <1>1, YoungerIs
  <2>5. \A i \in 0..n : Total(z)[i] = Total(u)[i]
    <3>1. n <= Len(z) /\ n <= Len(u) /\ \A i \in 1..n : z[i].air = u[i].air
      BY <1>1
    <3> QED BY <3>1, <1>1, TotalPrefix
  <2>6. Total(z)[n + 1] = Total(z)[n] + a
    <3>1. n + 1 \in 1..Len(z) /\ (n + 1) - 1 = n
      BY <1>1
    <3>2. Total(z)[n + 1] = Total(z)[(n + 1) - 1] + z[n + 1].air
      BY <3>1, <1>1, TotalStep
    <3> QED BY <3>1, <3>2, <1>2
  <2>7. Total(u)[n] \in Nat /\ Total(u)[c] \in Nat /\ n \in 0..n
    <3>1. n \in 0..n
      BY <1>1
    <3> QED BY <3>1, AirsIn
  <2> QED BY <2>4, <2>5, <2>6, <2>7
<1> QED BY <1>1, <1>3, <1>4 DEF z

\* duty_fold_oldest(): what the two oldest held stays as long as the younger does.
LEMMA FoldIs ==
  ASSUME clock \in Nat, NEW s \in Seq(Entry), Descending(s), Len(s) >= 2
  PROVE  /\ FoldOldest(s) \in Seq(Entry)
         /\ Len(FoldOldest(s)) = Len(s) - 1
         /\ \A i \in 1..(Len(s) - 1) : FoldOldest(s)[i].end = s[i + 1].end
         /\ Descending(FoldOldest(s))
         /\ \A age \in 1..Window : Younger(FoldOldest(s), age) >= Younger(s, age)
<1> DEFINE n == Len(s)
           u == FoldOldest(s)
           first == [end |-> s[2].end, air |-> s[1].air + s[2].air]
<1>1. n \in Nat /\ n >= 2 /\ n - 1 \in Nat /\ 1 \in 1..n /\ 2 \in 1..n
  BY AirsIn
<1>2. \A i \in 1..n : /\ s[i] \in Entry /\ s[i].end \in 0..(Wrap - 1) /\ s[i].air \in Nat \ {0}
                      /\ Age(s[i]) \in Int
  BY AirsIn, AgeIs
<1>3. first \in Entry
  <2>1. s[2].end \in 0..(Wrap - 1) /\ s[1].air + s[2].air \in Nat \ {0}
    BY <1>1, <1>2
  <2> QED BY <2>1 DEF Entry
<1>4. u = [i \in 1..(n - 1) |-> IF i = 1 THEN first ELSE s[i + 1]]
  BY DEF FoldOldest
<1> HIDE DEF n, u, first
<1>5. \A i \in 1..(n - 1) : u[i] \in Entry /\ (i = 1 => u[i] = first) /\ (i # 1 => u[i] = s[i + 1])
  <2> SUFFICES ASSUME NEW i \in 1..(n - 1)
               PROVE  u[i] \in Entry /\ (i = 1 => u[i] = first) /\ (i # 1 => u[i] = s[i + 1])
    OBVIOUS
  <2>1. i + 1 \in 1..n
    BY <1>1
  <2> QED BY <2>1, <1>2, <1>3, <1>4
<1>6. u \in Seq(Entry) /\ Len(u) = n - 1
  <2>1. u \in [1..(n - 1) -> Entry]
    BY <1>4, <1>5
  <2> QED BY <2>1, <1>1
<1>7. \A i \in 1..(n - 1) : u[i].end = s[i + 1].end /\ Age(u[i]) = Age(s[i + 1])
  <2> SUFFICES ASSUME NEW i \in 1..(n - 1) PROVE u[i].end = s[i + 1].end
    BY DEF Age
  <2>1. i = 1 => u[i].end = s[i + 1].end
    <3>1. first.end = s[2].end
      BY DEF first
    <3> QED BY <3>1, <1>5
  <2> QED BY <2>1, <1>5
<1>8. Descending(u)
  <2> SUFFICES ASSUME NEW i \in 1..(n - 1), NEW j \in 1..(n - 1), i < j
               PROVE  Age(u[j]) < Age(u[i])
    BY <1>6 DEF Descending
  <2>1. i + 1 \in 1..n /\ j + 1 \in 1..n /\ i + 1 < j + 1
    BY <1>1
  <2>2. Age(s[j + 1]) < Age(s[i + 1])
    BY <2>1 DEF Descending, n
  <2> QED BY <2>2, <1>7
<1>9. \A i \in 1..(n - 1) : Total(u)[i] = Total(s)[i + 1]
  <2>1. Total(u)[1] = Total(s)[2]
    <3>1. Total(u)[1] = Total(u)[0] + u[1].air /\ Total(u)[0] = 0
      <4>1. 1 \in 1..Len(u) /\ 1 - 1 = 0
        BY <1>1, <1>6
      <4> QED BY <4>1, <1>6, TotalStep, AirsIn
    <3>2. Total(s)[2] = Total(s)[1] + s[2].air
      <4>1. 2 \in 1..Len(s) /\ 2 - 1 = 1
        BY <1>1 DEF n
      <4> QED BY <4>1, TotalStep
    <3>3. Total(s)[1] = Total(s)[0] + s[1].air /\ Total(s)[0] = 0
      <4>1. 1 \in 1..Len(s) /\ 1 - 1 = 0
        BY <1>1 DEF n
      <4> QED BY <4>1, TotalStep, AirsIn
    <3>4. u[1].air = s[1].air + s[2].air
      <4>1. u[1] = first
        BY <1>1, <1>5
      <4> QED BY <4>1 DEF first
    <3> QED BY <3>1, <3>2, <3>3, <3>4, <1>1, <1>2
  <2>2. SameAirs(u, 1, s, 2, n - 2)
    <3>1. 1 + (n - 2) <= Len(u) /\ 2 + (n - 2) <= Len(s) /\ n - 2 \in Nat
      BY <1>1, <1>6 DEF n
    <3>2. ASSUME NEW i \in 1..(n - 2) PROVE u[1 + i].air = s[2 + i].air
      <4>1. 1 + i \in 1..(n - 1) /\ 1 + i # 1 /\ (1 + i) + 1 = 2 + i
        BY <1>1
      <4>2. u[1 + i] = s[(1 + i) + 1]
        BY <4>1, <1>5
      <4> QED BY <4>1, <4>2
    <3> QED BY <3>1, <3>2 DEF SameAirs
  <2>3. \A i \in 0..(n - 2) : Total(u)[1 + i] - Total(u)[1] = Total(s)[2 + i] - Total(s)[2]
    BY <2>2, <1>6, TotalFrom
  <2> SUFFICES ASSUME NEW i \in 1..(n - 1) PROVE Total(u)[i] = Total(s)[i + 1]
    OBVIOUS
  <2>4. i - 1 \in 0..(n - 2) /\ 1 + (i - 1) = i /\ 2 + (i - 1) = i + 1
    BY <1>1
  <2>5. Total(u)[i] - Total(u)[1] = Total(s)[i + 1] - Total(s)[2]
    BY <2>3, <2>4
  <2>6. Total(u)[i] \in Nat /\ Total(u)[1] \in Nat /\ Total(s)[i + 1] \in Nat
    <3>1. i \in 0..Len(u) /\ 1 \in 0..Len(u) /\ i + 1 \in 0..Len(s)
      BY <1>1, <1>6 DEF n
    <3> QED BY <3>1, <1>6, AirsIn
  <2> QED BY <2>1, <2>5, <2>6
<1>10. ASSUME NEW age \in 1..Window PROVE Younger(u, age) >= Younger(s, age)
  <2>1. age \in Int
    BY Sizes
  <2>2. PICK c \in 0..n : Cut(s, age, c)
    BY <2>1, CutExists DEF n
  <2>3. Younger(s, age) = Total(s)[n] - Total(s)[c]
    BY <2>1, <2>2, YoungerIs DEF n
  <2>4. Total(u)[n - 1] = Total(s)[n]
    <3>1. n - 1 \in 1..(n - 1) /\ (n - 1) + 1 = n
      BY <1>1
    <3> QED BY <3>1, <1>9
  <2>5. Total(s)[n] \in Nat /\ Total(s)[c] \in Nat
    <3>1. n \in 0..Len(s) /\ c \in 0..Len(s)
      BY <1>1 DEF n
    <3> QED BY <3>1, AirsIn
  <2>6. CASE c <= 1
    <3>1. Cut(u, age, 0)
      <4>1. 0 \in 0..Len(u)
        BY <1>1, <1>6
      <4>2. ASSUME NEW i \in 1..(n - 1) PROVE Age(u[i]) < age
        <5>1. i + 1 \in (c + 1)..n
          BY <2>6, <1>1
        <5> QED BY <5>1, <1>7, <2>2 DEF Cut, n
      <4>3. \A i \in (0 + 1)..Len(u) : Age(u[i]) < age
        BY <4>2, <1>6
      <4> QED BY <4>1, <4>3 DEF Cut
    <3>2. Younger(u, age) = Total(u)[n - 1] - Total(u)[0]
      BY <3>1, <2>1, <1>6, YoungerIs
    <3>3. Total(u)[0] = 0
      BY <1>6, AirsIn
    <3> QED BY <2>3, <2>4, <2>5, <3>2, <3>3
  <2>7. CASE c >= 2
    <3>1. Cut(u, age, c - 1)
      <4>1. c - 1 \in 0..Len(u)
        BY <1>1, <1>6, <2>7
      <4>2. ASSUME NEW i \in 1..(c - 1) PROVE Age(u[i]) >= age
        <5>1. i + 1 \in 1..c /\ i \in 1..(n - 1)
          BY <1>1, <2>7
        <5> QED BY <5>1, <1>7, <2>2 DEF Cut
      <4>3. ASSUME NEW i \in ((c - 1) + 1)..Len(u) PROVE Age(u[i]) < age
        <5>1. i + 1 \in (c + 1)..n /\ i \in 1..(n - 1)
          BY <1>1, <1>6, <2>7
        <5> QED BY <5>1, <1>7, <2>2 DEF Cut, n
      <4> QED BY <4>1, <4>2, <4>3 DEF Cut
    <3>2. Younger(u, age) = Total(u)[n - 1] - Total(u)[c - 1]
      BY <3>1, <2>1, <1>6, YoungerIs
    <3>3. Total(u)[c - 1] = Total(s)[c]
      <4>1. c - 1 \in 1..(n - 1) /\ (c - 1) + 1 = c
        BY <1>1, <2>7
      <4> QED BY <4>1, <1>9
    <3> QED BY <2>3, <2>4, <2>5, <3>2, <3>3
  <2>8. c <= 1 \/ c >= 2
    BY <1>1
  <2> QED BY <2>6, <2>7, <2>8
<1> QED BY <1>6, <1>7, <1>8, <1>10 DEF u, n

Coalesces(s) == s # <<>> /\ SameSlot(s[Len(s)])
Coalesced(s, a) == [s EXCEPT ![Len(s)] = [end |-> Now, air |-> s[Len(s)].air + a]]

LEMMA CoalescedIs ==
  ASSUME clock \in Nat, NEW s \in Seq(Entry), Descending(s), NEW a \in Nat \ {0}, s # <<>>
  PROVE  /\ Coalesced(s, a) \in Seq(Entry)
         /\ Len(Coalesced(s, a)) = Len(s) /\ Len(s) \in 1..Len(s)
         /\ \A i \in 1..(Len(s) - 1) : Coalesced(s, a)[i] = s[i]
         /\ Coalesced(s, a)[Len(s)] = Newest(s[Len(s)].air + a)
         /\ Descending(Coalesced(s, a))
         /\ \A age \in 1..Window :
              /\ Younger(Coalesced(s, a), age) >= Younger(s, age) + a
              /\ \/ Younger(Coalesced(s, a), age) = Younger(s, age) + a
                 \/ /\ Age(s[Len(s)]) >= age
                    /\ Younger(Coalesced(s, a), age) = s[Len(s)].air + a
<1> DEFINE n == Len(s)
           z == Coalesced(s, a)
           b == s[n].air + a
<1>1. n \in Nat /\ n # 0 /\ n \in 1..n /\ n - 1 \in Nat /\ n >= 1
  <2>1. n \in Nat
    BY AirsIn
  <2>2. n # 0
    OBVIOUS
  <2> HIDE DEF n
  <2> QED BY <2>1, <2>2
<1>2. s[n].air \in Nat \ {0} /\ b \in Nat \ {0}
  BY <1>1, AirsIn
<1>3. Newest(b) \in Entry /\ Age(Newest(b)) = 0 /\ Newest(b).air = b
  BY <1>2, NewestIs
<1>4. z = [s EXCEPT ![n] = Newest(b)]
  BY DEF Coalesced, Newest
<1> HIDE DEF z, b
<1>5. /\ z \in Seq(Entry) /\ Len(z) = n /\ z[n] = Newest(b)
      /\ \A i \in 1..(n - 1) : z[i] = s[i]
  BY <1>1, <1>3, <1>4
<1>6. \A i \in 1..n : Age(s[i]) \in Nat
  BY AirsIn, AgeIs
<1> HIDE DEF n
<1>7. Descending(z)
  <2> SUFFICES ASSUME NEW i \in 1..n, NEW j \in 1..n, i < j PROVE Age(z[j]) < Age(z[i])
    BY <1>5 DEF Descending
  <2>1. Age(s[j]) < Age(s[i])
    BY DEF Descending, n
  <2>2. z[i] = s[i]
    BY <1>1, <1>5
  <2>3. j = n => Age(z[j]) = 0
    BY <1>3, <1>5
  <2>4. j # n => z[j] = s[j]
    BY <1>1, <1>5
  <2>5. Age(s[j]) \in Nat /\ Age(s[i]) \in Nat
    BY <1>6
  <2> QED BY <2>1, <2>2, <2>3, <2>4, <2>5
<1>8. ASSUME NEW age \in 1..Window
      PROVE  /\ Younger(z, age) >= Younger(s, age) + a
             /\ \/ Younger(z, age) = Younger(s, age) + a
                \/ Age(s[n]) >= age /\ Younger(z, age) = b
  <2>1. age \in Int /\ age >= 1
    BY Sizes
  <2>2. PICK c \in 0..n : Cut(s, age, c)
    BY <2>1, CutExists DEF n
  <2> DEFINE d == IF c = n THEN n - 1 ELSE c
  <2>3. d \in 0..(n - 1) /\ d <= c
    BY <1>1
  <2>4. Cut(z, age, d)
    <3>1. d \in 0..Len(z)
      BY <1>1, <1>5, <2>3
    <3>2. ASSUME NEW i \in 1..d PROVE Age(z[i]) >= age
      <4>1. i \in 1..(n - 1) /\ i \in 1..c
        BY <1>1, <2>3
      <4> QED BY <4>1, <1>5, <2>2 DEF Cut
    <3>3. ASSUME NEW i \in (d + 1)..n PROVE Age(z[i]) < age
      <4>1. CASE i = n
        BY <4>1, <1>3, <1>5, <2>1
      <4>2. CASE i # n
        <5>1. i \in 1..(n - 1) /\ i \in (c + 1)..n
          BY <4>2, <1>1, <2>3
        <5> QED BY <5>1, <1>5, <2>2 DEF Cut, n
      <4> QED BY <4>1, <4>2
    <3>4. \A i \in (d + 1)..Len(z) : Age(z[i]) < age
      BY <3>3, <1>5
    <3> HIDE DEF d
    <3> QED BY <3>1, <3>2, <3>4 DEF Cut
  <2>5. Younger(z, age) = Total(z)[n] - Total(z)[d]
    BY <2>1, <2>4, <1>5, YoungerIs
  <2>6. Younger(s, age) = Total(s)[n] - Total(s)[c]
    BY <2>1, <2>2, YoungerIs DEF n
  <2>7. \A i \in 0..(n - 1) : Total(z)[i] = Total(s)[i]
    <3>1. n - 1 <= Len(z) /\ n - 1 <= Len(s) /\ \A i \in 1..(n - 1) : z[i].air = s[i].air
      BY <1>1, <1>5 DEF n
    <3> QED BY <3>1, <1>1, <1>5, TotalPrefix
  <2>8. Total(z)[n] = Total(z)[n - 1] + b
    <3>1. n \in 1..Len(z) /\ z[n].air = b
      BY <1>1, <1>3, <1>5
    <3> QED BY <3>1, <1>5, TotalStep
  <2>9. Total(s)[n] = Total(s)[n - 1] + s[n].air
    BY <1>1, TotalStep DEF n
  <2>10. Total(s)[n - 1] \in Nat /\ Total(s)[c] \in Nat /\ n - 1 \in 0..(n - 1)
    <3>1. n - 1 \in 0..Len(s) /\ c \in 0..Len(s) /\ n - 1 \in 0..(n - 1)
      BY <1>1 DEF n
    <3> QED BY <3>1, AirsIn
  <2>11. b = s[n].air + a
    BY DEF b
  <2>12. Total(z)[n - 1] = Total(s)[n - 1] /\ Total(z)[d] = Total(s)[d]
    BY <2>3, <2>7, <2>10
  <2>13. CASE c = n
    <3>1. Age(s[n]) >= age
      <4>1. n \in 1..c
        BY <2>13, <1>1
      <4> QED BY <4>1, <2>2 DEF Cut
    <3>2. Younger(z, age) = b
      BY <2>13, <2>5, <2>8, <2>10, <2>12, <1>2
    <3>3. Younger(s, age) = 0
      BY <2>13, <2>6, <2>10
    <3>4. b >= 0 + a
      BY <2>11, <1>2
    <3> QED BY <3>1, <3>2, <3>3, <3>4
  <2>14. CASE c # n
    <3>1. d = c
      BY <2>14
    <3>4. Total(z)[d] = Total(s)[c]
      BY <3>1, <2>12
    <3> HIDE DEF d
    <3>5. Younger(z, age) = (Total(s)[n - 1] + b) - Total(s)[c]
      BY <3>4, <2>5, <2>8, <2>12
    <3>6. Younger(s, age) = (Total(s)[n - 1] + s[n].air) - Total(s)[c]
      BY <2>6, <2>9
    <3>2. Younger(z, age) = Younger(s, age) + a
      <4> DEFINE t == Total(s)[n - 1]
                 w == Total(s)[c]
                 x == s[n].air
      <4>1. t \in Nat /\ w \in Nat /\ x \in Nat /\ a \in Nat /\ b = x + a
        BY <2>10, <2>11, <1>2
      <4>2. Younger(z, age) = (t + b) - w /\ Younger(s, age) = (t + x) - w
        BY <3>5, <3>6
      <4> HIDE DEF t, w, x
      <4> QED BY <4>1, <4>2
    <3>3. Younger(s, age) \in Int
      BY <2>6, <2>9, <2>10, <1>2
    <3> QED BY <3>2, <3>3
  <2> QED BY <2>13, <2>14
<1> QED BY <1>1, <1>5, <1>7, <1>8 DEF z, b, n

\* Where a charge adds an entry, the entries there are have left the present ms.
LEMMA NotNow ==
  ASSUME clock \in Nat, NEW s \in Seq(Entry), Descending(s), ~Coalesces(s)
  PROVE  \A i \in 1..Len(s) : Age(s[i]) > 0
<1> SUFFICES ASSUME NEW i \in 1..Len(s) PROVE Age(s[i]) > 0
  OBVIOUS
<1> DEFINE n == Len(s)
<1>1. n \in Nat /\ n \in 1..n /\ s # <<>>
  BY AirsIn
<1>2. Age(s[n]) \in Nat /\ Age(s[i]) \in Nat /\ s[n].end \in 0..(Wrap - 1)
  BY <1>1, AirsIn, AgeIs
<1>3. Age(s[n]) # 0
  <2>1. SUFFICES ASSUME Age(s[n]) = 0 PROVE FALSE
    OBVIOUS
  <2>2. Now = s[n].end
    <3>1. Now \in 0..(Wrap - 1)
      BY NowIs
    <3> QED BY <2>1, <3>1, <1>2, AgeIs, Sizes
  <2>3. 0 < Slot
    BY Sizes
  <2> QED BY <2>1, <2>2, <2>3, <1>1 DEF Coalesces, SameSlot
<1>4. i # n => Age(s[n]) < Age(s[i])
  <2>1. i # n => i < n
    BY <1>1
  <2> QED BY <2>1, <1>1 DEF Descending
<1> QED BY <1>2, <1>3, <1>4

LEMMA EntriesIs == Entries = (Window \div Slot) + 1 /\ Entries \in Nat /\ Entries >= 2
BY Sizes DEF Entries

\* app_radio_ledger_charge() never loses air; only folding can hold it longer.
LEMMA ChargedIs ==
  ASSUME clock \in Nat, NEW s \in Seq(Entry), Descending(s), NEW a \in Nat \ {0}
  PROVE  /\ Charged(s, a) \in Seq(Entry)
         /\ Descending(Charged(s, a))
         /\ \A i \in 1..Len(Charged(s, a)) :
              \/ Age(Charged(s, a)[i]) = 0
              \/ \E j \in 1..Len(s) : Charged(s, a)[i].end = s[j].end
         /\ \A age \in 1..Window : Younger(Charged(s, a), age) >= Younger(s, age) + a
         /\ Coalesces(s) => Charged(s, a) = Coalesced(s, a)
         /\ ~Coalesces(s) /\ Len(s) < Entries => Charged(s, a) = Append(s, Newest(a))
<1> DEFINE n == Len(s)
           z == Charged(s, a)
<1>1. n \in Nat
  BY AirsIn
<1>2. Coalesces(s) => z = Coalesced(s, a)
  BY DEF Coalesces, Coalesced, Charged
<1>3. ~Coalesces(s) => z = Append(IF n >= Entries THEN FoldOldest(s) ELSE s, Newest(a))
  BY DEF Coalesces, Charged, AppendEntry, Newest
<1>4. ~Coalesces(s) /\ n < Entries => z = Append(s, Newest(a))
  BY <1>1, <1>3, EntriesIs
<1> HIDE DEF z
<1>5. CASE Coalesces(s)
  <2>1. s # <<>>
    BY <1>5 DEF Coalesces
  <2> DEFINE u == Coalesced(s, a)
  <2>2. /\ u \in Seq(Entry) /\ Descending(u) /\ Len(u) = n /\ n \in 1..n
        /\ \A i \in 1..(n - 1) : u[i] = s[i]
        /\ u[n] = Newest(s[n].air + a)
        /\ \A age \in 1..Window : Younger(u, age) >= Younger(s, age) + a
    BY <2>1, CoalescedIs
  <2>3. z = u
    BY <1>2, <1>5
  <2> HIDE DEF u
  <2>4. Age(u[n]) = 0
    <3>1. s[n].air + a \in Nat \ {0}
      BY <2>2, AirsIn
    <3> QED BY <2>2, <3>1, NewestIs
  <2>5. \A i \in 1..n : Age(u[i]) = 0 \/ \E j \in 1..n : u[i].end = s[j].end
    <3> SUFFICES ASSUME NEW i \in 1..n, i # n PROVE u[i].end = s[i].end
      BY <2>4
    <3>1. i \in 1..(n - 1)
      BY <1>1
    <3> QED BY <3>1, <2>2
  <2> QED BY <1>5, <2>2, <2>3, <2>5 DEF z, u
<1>6. CASE ~Coalesces(s)
  <2> DEFINE u == IF n >= Entries THEN FoldOldest(s) ELSE s
  <2>1. \A i \in 1..n : Age(s[i]) > 0
    BY <1>6, NotNow
  <2>2. /\ u \in Seq(Entry) /\ Descending(u)
        /\ \A i \in 1..Len(u) : \E j \in 1..n : u[i].end = s[j].end
        /\ \A age \in 1..Window : Younger(u, age) >= Younger(s, age)
    <3>1. CASE n >= Entries
      <4>1. n >= 2
        BY <1>1, <3>1, EntriesIs
      <4>2. u = FoldOldest(s)
        BY <3>1
      <4>3. /\ FoldOldest(s) \in Seq(Entry) /\ Len(FoldOldest(s)) = n - 1
            /\ \A i \in 1..(n - 1) : FoldOldest(s)[i].end = s[i + 1].end
            /\ Descending(FoldOldest(s))
            /\ \A age \in 1..Window : Younger(FoldOldest(s), age) >= Younger(s, age)
        BY <4>1, FoldIs
      <4>4. \A i \in 1..(n - 1) : i + 1 \in 1..n
        BY <1>1
      <4> QED BY <4>2, <4>3, <4>4
    <3>2. CASE ~(n >= Entries)
      <4>1. u = s
        BY <3>2
      <4>2. ASSUME NEW age \in 1..Window PROVE Younger(s, age) >= Younger(s, age)
        <5>1. age \in Int
          BY Sizes
        <5>2. PICK c \in 0..n : Cut(s, age, c)
          BY <5>1, CutExists
        <5>3. Younger(s, age) = Total(s)[n] - Total(s)[c]
          BY <5>1, <5>2, YoungerIs
        <5>4. Total(s)[n] \in Nat /\ Total(s)[c] \in Nat
          <6>1. n \in 0..n
            BY <1>1
          <6> QED BY <6>1, AirsIn
        <5> QED BY <5>3, <5>4
      <4> QED BY <4>1, <4>2
    <3> QED BY <3>1, <3>2
  <2>3. z = Append(u, Newest(a))
    BY <1>3, <1>6
  <2> HIDE DEF u
  <2>4. \A i \in 1..Len(u) : Age(u[i]) > 0
    <3> SUFFICES ASSUME NEW i \in 1..Len(u) PROVE Age(u[i]) > 0
      OBVIOUS
    <3>1. PICK j \in 1..n : u[i].end = s[j].end
      BY <2>2
    <3>2. Age(u[i]) = Age(s[j])
      BY <3>1 DEF Age
    <3> QED BY <3>2, <2>1
  <2>5. /\ z \in Seq(Entry) /\ Len(z) = Len(u) + 1 /\ Descending(z)
        /\ \A i \in 1..Len(u) : z[i] = u[i]
        /\ z[Len(u) + 1] = Newest(a)
        /\ \A age \in 1..Window : Younger(z, age) = Younger(u, age) + a
    BY <2>2, <2>3, <2>4, AppendAirs
  <2>6. Age(Newest(a)) = 0
    BY NewestIs
  <2>7. \A i \in 1..Len(z) : Age(z[i]) = 0 \/ \E j \in 1..n : z[i].end = s[j].end
    <3> SUFFICES ASSUME NEW i \in 1..Len(z)
                 PROVE  Age(z[i]) = 0 \/ \E j \in 1..n : z[i].end = s[j].end
      OBVIOUS
    <3>1. Len(u) \in Nat
      BY <2>2, AirsIn
    <3>2. CASE i = Len(u) + 1
      BY <3>2, <2>5, <2>6
    <3>3. CASE i # Len(u) + 1
      <4>1. i \in 1..Len(u)
        BY <3>1, <3>3, <2>5
      <4> QED BY <4>1, <2>2, <2>5
    <3> QED BY <3>2, <3>3
  <2>8. ASSUME NEW age \in 1..Window PROVE Younger(z, age) >= Younger(s, age) + a
    <3>1. Younger(z, age) = Younger(u, age) + a /\ Younger(u, age) >= Younger(s, age)
      BY <2>2, <2>5
    <3>3. age \in Int
      BY Sizes
    <3>2. Younger(u, age) \in Nat /\ Younger(s, age) \in Nat
      BY <3>3, <2>2, YoungerNat
    <3> QED BY <3>1, <3>2
  <2> QED BY <1>4, <1>6, <2>5, <2>7, <2>8 DEF z
<1> QED BY <1>5, <1>6

-----------------------------------------------------------------------------
(* The ledger: the inductive invariant *)

\* No entry is older than the window at the last expiry, and none older than the uptime.
Aging ==
  /\ clock - touched <= MaxIdle
  /\ Descending(ledger)
  /\ \A i \in 1..Len(ledger) :
       Age(ledger[i]) <= clock /\ Age(ledger[i]) < Window + (clock - touched)

\* A longer stretch saw no less, and each transmission had its air.
Remembered ==
  /\ sent[0].air = 0 /\ sent[0].frames = 0
  /\ \A k \in 0..(Window + Slot) :
       /\ sent[k].air = 0 <=> sent[k].frames = 0
       /\ \A j \in 0..k : sent[j].air <= sent[k].air /\ sent[j].frames <= sent[k].frames

\* Whatever the stretch, the ledger holds what ended in it, ...
Under == \A k \in 0..Window : sent[k].air <= Younger(ledger, k)

\* ... and until the wrap no more than what ended in a slot more; what is not
\* older than the present slot is exact.
Over ==
  clock < Wrap =>
    /\ \A k \in 0..Window : Younger(ledger, k) <= sent[k + Slot].air
    /\ Younger(ledger, (clock % Slot) + 1) <= sent[(clock % Slot) + 1].air

\* Until the wrap there is at most one entry a slot, so that nothing is folded.
Spread(s) ==
  \A i, j \in 1..Len(s) : i < j => s[j].end \div Slot >= (s[i].end \div Slot) + (j - i)
OneASlot == clock < Wrap => Spread(ledger)

\* A refused frame waits for the first entry f with which enough air is freed, or for the last.
WaitsFor(a, until, f) ==
  /\ f \in 1..Len(ledger)
  /\ until = (clock - Age(ledger[f])) + Window
  /\ f = Len(ledger) \/ Total(ledger)[f] >= (Total(ledger)[Len(ledger)] + a) - Budget
  /\ \A j \in 0..(f - 1) : Total(ledger)[j] < (Total(ledger)[Len(ledger)] + a) - Budget
Waiting ==
  held # <<>> =>
    /\ flight = <<>> /\ Budget # 0
    /\ \E f \in 1..Len(ledger) : WaitsFor(held[1].air, held[1].until, f)

LedgerProofInv ==
  /\ LedgerType /\ Aging /\ Remembered /\ Under /\ Over /\ OneASlot /\ WindowBound /\ Waiting

-----------------------------------------------------------------------------
(* The ledger: the clock *)

LEMMA YoungerMoves ==
  ASSUME NEW age, NEW old,
         \A i \in DOMAIN ledger' : Age(ledger[i])' < age <=> Age(ledger'[i]) < old
  PROVE  Younger(ledger, age)' = Younger(ledger', old)
<1> DEFINE v == [i \in DOMAIN ledger' |-> IF Age(ledger[i])' < age THEN ledger'[i].air ELSE 0]
           w == [i \in DOMAIN ledger' |-> IF Age(ledger'[i]) < old THEN ledger'[i].air ELSE 0]
<1>1. v = w
  OBVIOUS
<1>2. Younger(ledger, age)' = Running(v)[Len(ledger')]
  BY DEF Younger
<1>3. Younger(ledger', old) = Running(w)[Len(ledger')]
  BY DEF Younger
<1> QED BY <1>1, <1>2, <1>3

LEMMA ClockStands ==
  ASSUME clock' = clock
  PROVE  /\ \A i : Age(ledger[i])' = Age(ledger'[i])
         /\ Descending(ledger)' <=> Descending(ledger')
         /\ \A age : Younger(ledger, age)' = Younger(ledger', age)
<1>1. \A i : Age(ledger[i])' = Age(ledger'[i])
  BY DEF Age, Now
<1>2. Descending(ledger)' <=> Descending(ledger')
  BY <1>1 DEF Descending
<1>3. ASSUME NEW age PROVE Younger(ledger, age)' = Younger(ledger', age)
  BY <1>1, YoungerMoves
<1> QED BY <1>1, <1>2, <1>3

LEMMA SentIs ==
  ASSUME LedgerType
  PROVE  \A k \in 0..(Window + Slot) : /\ sent[k].air \in Nat /\ sent[k].frames \in Nat
                                       /\ sent[k] = [air |-> sent[k].air, frames |-> sent[k].frames]
<1> SUFFICES ASSUME NEW k \in 0..(Window + Slot)
             PROVE  /\ sent[k].air \in Nat /\ sent[k].frames \in Nat
                    /\ sent[k] = [air |-> sent[k].air, frames |-> sent[k].frames]
  OBVIOUS
<1>1. sent[k] \in [air : Nat, frames : Nat]
  BY DEF LedgerType
<1> QED BY <1>1

\* The stretches the invariant is about are recorded.
LEMMA Stretches ==
  ASSUME clock \in Nat
  PROVE  /\ 0..Window \subseteq 0..(Window + Slot) /\ 0 \in 0..(Window + Slot)
         /\ \A k \in 0..Window : k + Slot \in 0..(Window + Slot)
         /\ (clock % Slot) + 1 \in 1..Slot /\ (clock % Slot) + 1 \in 1..Window
         /\ Window \in 0..Window /\ Window \in 1..Window
<1>1. clock % Slot \in 0..(Slot - 1)
  BY Sizes, DivMod
<1> QED BY <1>1, Sizes

LEMMA Expired ==
  ASSUME LedgerType, Aging
  PROVE  /\ Expire(ledger) \in Seq(Entry) /\ Descending(Expire(ledger))
         /\ \A i \in 1..Len(Expire(ledger)) :
              Age(Expire(ledger)[i]) < Window /\ Age(Expire(ledger)[i]) <= clock
         /\ \A age \in 0..Window : Younger(Expire(ledger), age) = Younger(ledger, age)
         /\ Spread(ledger) => Spread(Expire(ledger))
<1> DEFINE u == Expire(ledger)
           n == Len(ledger)
<1>1. ledger \in Seq(Entry) /\ clock \in Nat /\ Descending(ledger) /\ n \in Nat
  <2>1. ledger \in Seq(Entry)
    BY DEF LedgerType, Entry
  <2> QED BY <2>1, AirsIn DEF LedgerType, Aging
<1>2. PICK m \in 0..n : Cut(ledger, Window, m)
  BY <1>1, CutExists, Sizes
<1>3. u \in Seq(Entry) /\ Len(u) = n - m /\ \A i \in 1..(n - m) : u[i] = ledger[m + i]
  BY <1>1, <1>2, ExpireIs
<1>4. /\ Descending(u) /\ \A i \in 1..Len(u) : Age(u[i]) < Window
      /\ \A age \in 0..Window : Younger(u, age) = Younger(ledger, age)
  BY <1>1, <1>2, ExpireKeeps
<1> HIDE DEF u
<1>5. \A i \in 1..(n - m) : m + i \in 1..n
  BY <1>1
<1>6. \A i \in 1..Len(u) : Age(u[i]) <= clock
  <2> SUFFICES ASSUME NEW i \in 1..(n - m) PROVE Age(u[i]) <= clock
    BY <1>3
  <2>1. m + i \in 1..n /\ u[i] = ledger[m + i]
    BY <1>3, <1>5
  <2> QED BY <2>1 DEF Aging
<1>7. ASSUME Spread(ledger) PROVE Spread(u)
  <2> SUFFICES ASSUME NEW i \in 1..(n - m), NEW j \in 1..(n - m), i < j
               PROVE  u[j].end \div Slot >= (u[i].end \div Slot) + (j - i)
    BY <1>3 DEF Spread
  <2>1. m + i \in 1..n /\ m + j \in 1..n /\ m + i < m + j /\ (m + j) - (m + i) = j - i
    BY <1>1, <1>5
  <2>2. ledger[m + j].end \div Slot >= (ledger[m + i].end \div Slot) + ((m + j) - (m + i))
    BY <2>1, <1>7 DEF Spread
  <2> QED BY <2>1, <2>2, <1>3
<1> QED BY <1>3, <1>4, <1>6, <1>7 DEF u

\* The expiry before a frame is admitted or refused.
LEMMA ExpiryStep ==
  ASSUME LedgerType, Aging, Remembered, Under, Over, OneASlot,
         ledger' = Expire(ledger), touched' = clock, clock' = clock, sent' = sent
  PROVE  ledger' \in Seq(Entry) /\ Aging' /\ Remembered' /\ Under' /\ Over' /\ OneASlot'
<1>1. /\ ledger' \in Seq(Entry) /\ Descending(ledger')
      /\ \A i \in 1..Len(ledger') : Age(ledger'[i]) < Window /\ Age(ledger'[i]) <= clock
      /\ \A age \in 0..Window : Younger(ledger', age) = Younger(ledger, age)
      /\ Spread(ledger) => Spread(ledger')
  BY Expired
<1>2. /\ \A i : Age(ledger[i])' = Age(ledger'[i])
      /\ Descending(ledger)' <=> Descending(ledger')
      /\ \A age : Younger(ledger, age)' = Younger(ledger', age)
  BY ClockStands
<1>3. clock \in Nat /\ clock - clock = 0 /\ Window + 0 = Window /\ 0 <= MaxIdle
  BY Sizes DEF LedgerType
<1>4. Aging'
  BY <1>1, <1>2, <1>3 DEF Aging
<1>5. Remembered'
  BY DEF Remembered
<1>6. Under'
  BY <1>1, <1>2 DEF Under
<1>7. Over'
  BY <1>1, <1>2, <1>3, Stretches, Sizes DEF Over
<1>8. OneASlot'
  BY <1>1 DEF OneASlot
<1> QED BY <1>1, <1>4, <1>5, <1>6, <1>7, <1>8

-----------------------------------------------------------------------------
(* The ledger: the wait *)

LEMMA UsedIs ==
  ASSUME clock \in Nat, NEW s \in Seq(Entry), \A i \in 1..Len(s) : Age(s[i]) < Window
  PROVE  UsedAir(s) = Total(s)[Len(s)] /\ Total(s)[Len(s)] \in Nat /\ Len(s) \in Nat
<1>1. Len(s) \in Nat /\ 0 \in 0..Len(s) /\ Len(s) \in 0..Len(s)
  BY AirsIn
<1>2. Cut(s, Window, 0)
  BY <1>1 DEF Cut
<1>3. Younger(s, Window) = Total(s)[Len(s)] - Total(s)[0]
  <2>1. Window \in Int
    BY Sizes
  <2> QED BY <2>1, <1>2, YoungerIs
<1>4. Total(s)[0] = 0 /\ Total(s)[Len(s)] \in Nat
  BY <1>1, AirsIn
<1> QED BY <1>1, <1>3, <1>4 DEF UsedAir

\* The entry whose expiry frees enough, and none before it.
LEMMA FreesIs ==
  ASSUME NEW s \in Seq(Entry), s # <<>>, NEW over \in Int, over > 0
  PROVE  /\ Frees(s, over) \in 1..Len(s)
         /\ Frees(s, over) = Len(s) \/ Total(s)[Frees(s, over)] >= over
         /\ \A j \in 0..(Frees(s, over) - 1) : Total(s)[j] < over
<1> DEFINE n == Len(s)
           f == Frees(s, over)
           enough == {i \in 1..(n - 1) : Total(s)[i] >= over}
<1>1. n \in Nat /\ n # 0 /\ \A i \in 0..n : Total(s)[i] \in Nat
  <2>1. n # 0
    OBVIOUS
  <2> QED BY <2>1, AirsIn
<1>2. Total(s)[0] = 0
  BY AirsIn
<1>3. f = IF enough = {} THEN n ELSE Min(enough)
  BY DEF Frees, Total
<1>4. enough \subseteq Nat /\ enough \subseteq 1..(n - 1)
  OBVIOUS
<1>5. \A j \in 1..(n - 1) : j \notin enough => Total(s)[j] < over
  <2> SUFFICES ASSUME NEW j \in 1..(n - 1), ~(Total(s)[j] >= over) PROVE Total(s)[j] < over
    OBVIOUS
  <2>1. j \in 0..n
    BY <1>1
  <2> QED BY <2>1, <1>1
<1>6. \A i \in enough : Total(s)[i] >= over
  OBVIOUS
<1> HIDE DEF f, enough, n
<1>7. f \in 1..n /\ (f = n \/ Total(s)[f] >= over) /\ \A j \in 1..(f - 1) : Total(s)[j] < over
  <2>1. CASE enough = {}
    <3>1. f = n
      BY <1>3, <2>1
    <3> QED BY <3>1, <2>1, <1>1, <1>5
  <2>2. CASE enough # {}
    <3>1. PICK m \in enough : \A k \in enough : m <= k
      BY <2>2, <1>4, LeastNat
    <3>2. f = m
      <4>1. enough \subseteq Int
        BY <1>4
      <4> QED BY <4>1, <3>1, <2>2, <1>3, MinIs
    <3>3. m \in 1..(n - 1) /\ m \in 1..n
      BY <3>1, <1>4, <1>1
    <3>4. ASSUME NEW j \in 1..(m - 1) PROVE Total(s)[j] < over
      <4>1. j \in 1..(n - 1) /\ ~(m <= j)
        BY <3>3, <1>1
      <4> QED BY <4>1, <3>1, <1>5
    <3> QED BY <3>1, <3>2, <3>3, <3>4, <1>6
  <2> QED BY <2>1, <2>2
<1>8. \A j \in 0..(f - 1) : Total(s)[j] < over
  <2> SUFFICES ASSUME NEW j \in 0..(f - 1) PROVE Total(s)[j] < over
    OBVIOUS
  <2>1. j = 0 \/ j \in 1..(f - 1)
    BY <1>7, <1>1
  <2> QED BY <2>1, <1>2, <1>7
<1> QED BY <1>7, <1>8 DEF f, n

LEMMA WaitIs ==
  ASSUME clock \in Nat, NEW s \in Seq(Entry), \A i \in 1..Len(s) : Age(s[i]) < Window,
         NEW a \in Nat \ {0}
  PROVE  /\ Wait(s, a) \in Nat
         /\ Wait(s, a) = 0 <=> (Budget = 0 \/ Total(s)[Len(s)] + a <= Budget \/ s = <<>>)
         /\ Wait(s, a) # 0 =>
              LET f == Frees(s, (Total(s)[Len(s)] + a) - Budget)
              IN  /\ f \in 1..Len(s) /\ Wait(s, a) = Window - Age(s[f])
                  /\ f = Len(s) \/ Total(s)[f] >= (Total(s)[Len(s)] + a) - Budget
                  /\ \A j \in 0..(f - 1) : Total(s)[j] < (Total(s)[Len(s)] + a) - Budget
<1> DEFINE over == (Total(s)[Len(s)] + a) - Budget
           room == Budget = 0 \/ Total(s)[Len(s)] + a <= Budget \/ s = <<>>
           f == Frees(s, over)
<1>1. UsedAir(s) = Total(s)[Len(s)] /\ Total(s)[Len(s)] \in Nat /\ over \in Int
  BY UsedIs, Sizes
<1>2. Wait(s, a) = IF room THEN 0 ELSE (Window - Age(s[f])) % Wrap
  <2> DEFINE used == UsedAir(s)
  <2>1. Wait(s, a) = IF Budget = 0 \/ used + a <= Budget \/ s = <<>>
                     THEN 0 ELSE (Window - Age(s[Frees(s, used + (a - Budget))])) % Wrap
    BY DEF Wait
  <2>2. used = Total(s)[Len(s)] /\ used + (a - Budget) = over
    BY <1>1, Sizes
  <2> HIDE DEF used
  <2> QED BY <2>1, <2>2, Zenon
<1>3. ASSUME ~room
      PROVE  /\ f \in 1..Len(s)
             /\ f = Len(s) \/ Total(s)[f] >= over
             /\ \A j \in 0..(f - 1) : Total(s)[j] < over
             /\ (Window - Age(s[f])) % Wrap = Window - Age(s[f])
             /\ Window - Age(s[f]) \in Nat \ {0}
  <2>1. over > 0 /\ s # <<>>
    BY <1>1, <1>3, Sizes
  <2> HIDE DEF over
  <2>2. /\ f \in 1..Len(s)
        /\ f = Len(s) \/ Total(s)[f] >= over
        /\ \A j \in 0..(f - 1) : Total(s)[j] < over
    BY <2>1, <1>1, FreesIs
  <2> HIDE DEF f
  <2>3. Age(s[f]) \in Nat /\ Age(s[f]) < Window
    BY <2>2, AirsIn, AgeIs
  <2>4. Window - Age(s[f]) \in 0..(Wrap - 1) /\ Window - Age(s[f]) \in Nat \ {0}
    BY <2>3, Sizes
  <2>5. (Window - Age(s[f])) % Wrap = Window - Age(s[f])
    BY <2>4, Sizes, SmallMod
  <2> QED BY <2>2, <2>4, <2>5
<1> HIDE DEF f
<1>4. CASE room
  BY <1>2, <1>4
<1>5. CASE ~room
  BY <1>2, <1>3, <1>5 DEF f
<1> QED BY <1>4, <1>5

-----------------------------------------------------------------------------
(* The ledger: one step at a time *)

LEMMA FlightIs ==
  ASSUME LedgerType
  PROVE  /\ flight # <<>> => flight[1].start \in 0..clock /\ flight[1].air \in Airs
                             /\ flight[1].air \in Nat \ {0} /\ Len(flight) = 1
         /\ flight = <<>> => Len(flight) = 0
<1>1. flight \in Seq([start : 0..clock, air : Airs]) /\ Len(flight) <= 1
  BY DEF LedgerType
<1> DEFINE Flights == [start : 0..clock, air : Airs]
<1>2. ASSUME flight # <<>>
      PROVE  Len(flight) = 1 /\ flight[1].start \in 0..clock /\ flight[1].air \in Airs
  <2>1. Len(flight) \in Nat
    BY <1>1
  <2>2. Len(flight) # 0
    BY <1>1, <1>2
  <2>3. Len(flight) = 1
    <3> DEFINE n == Len(flight)
    <3>1. n \in Nat /\ n # 0 /\ n <= 1
      BY <1>1, <2>1, <2>2
    <3> HIDE DEF n
    <3>2. n = 1
      BY <3>1
    <3> QED BY <3>2 DEF n
  <2>4. flight[1] \in Flights
    <3> HIDE DEF Flights
    <3>1. flight \in Seq(Flights)
      BY <1>1 DEF Flights
    <3> QED BY <2>3, <3>1
  <2> QED BY <2>3, <2>4
<1>3. flight # <<>> => flight[1].air \in Nat \ {0}
  BY <1>2, Sizes
<1>4. flight = <<>> => Len(flight) = 0
  OBVIOUS
<1> QED BY <1>2, <1>3, <1>4

LEMMA OneFlight ==
  ASSUME NEW c \in Nat, NEW a \in Airs
  PROVE  /\ <<[start |-> c, air |-> a]>> \in Seq([start : 0..c, air : Airs])
         /\ Len(<<[start |-> c, air |-> a]>>) = 1
         /\ <<[start |-> c, air |-> a]>>[1] = [start |-> c, air |-> a]
         /\ <<[start |-> c, air |-> a]>> # <<>>
<1>1. [start |-> c, air |-> a] \in [start : 0..c, air : Airs]
  OBVIOUS
<1> QED BY <1>1

\* What ended in the window is in the ledger.
LEMMA WindowIsHeld ==
  ASSUME LedgerType, Aging, Under
  PROVE  /\ sent[Window].air <= Total(Expire(ledger))[Len(Expire(ledger))]
         /\ sent[Window].air \in Nat /\ Total(Expire(ledger))[Len(Expire(ledger))] \in Nat
<1> DEFINE u == Expire(ledger)
<1>1. clock \in Nat
  BY DEF LedgerType
<1>2. /\ u \in Seq(Entry) /\ \A i \in 1..Len(u) : Age(u[i]) < Window
      /\ \A age \in 0..Window : Younger(u, age) = Younger(ledger, age)
  BY Expired
<1> HIDE DEF u
<1>3. UsedAir(u) = Total(u)[Len(u)] /\ Total(u)[Len(u)] \in Nat
  BY <1>1, <1>2, UsedIs
<1>4. sent[Window].air <= Younger(ledger, Window) /\ Younger(u, Window) = Younger(ledger, Window)
  BY <1>1, <1>2, Stretches DEF Under
<1>5. sent[Window].air \in Nat
  BY <1>1, SentIs, Stretches
<1> QED BY <1>3, <1>4, <1>5 DEF UsedAir, u

LEMMA AdmitStep ==
  ASSUME LedgerProofInv, NEW a \in Airs, Admit(a)
  PROVE  LedgerProofInv'
<1> USE DEF LedgerProofInv
<1>1. /\ flight = <<>> /\ ledger' = Expire(ledger) /\ Wait(ledger', a) = 0
      /\ flight' = <<[start |-> clock, air |-> a]>>
      /\ touched' = clock /\ held' = <<>> /\ clock' = clock /\ sent' = sent
  BY DEF Admit
<1>2. clock \in Nat /\ a \in Nat \ {0}
  BY Sizes DEF LedgerType
<1>3. ledger' \in Seq(Entry) /\ Aging' /\ Remembered' /\ Under' /\ Over' /\ OneASlot'
  BY <1>1, ExpiryStep
<1>4. LedgerType'
  <2>1. touched' \in 0..clock' /\ clock' \in Nat /\ sent' \in [0..(Window + Slot) -> [air : Nat, frames : Nat]]
    BY <1>1, <1>2 DEF LedgerType
  <2>2. flight' \in Seq([start : 0..clock', air : Airs]) /\ Len(flight') <= 1
    BY <1>1, <1>2, OneFlight
  <2>3. held' \in Seq([until : Nat, air : Airs]) /\ Len(held') <= 1
    BY <1>1
  <2> QED BY <2>1, <2>2, <2>3, <1>3 DEF LedgerType, Entry
<1>5. WindowBound'
  <2> SUFFICES ASSUME Budget # 0
               PROVE  sent[Window].air + a <= Budget \/ sent[Window].frames + 1 = 1
    <3>1. OnAir' = a /\ Len(flight') = 1
      BY <1>1, <1>2, OneFlight DEF OnAir
    <3> QED BY <3>1, <1>1 DEF WindowBound, InWindow
  <2>1. /\ \A i \in 1..Len(ledger') : Age(ledger'[i]) < Window
    BY <1>1, Expired
  <2>2. Total(ledger')[Len(ledger')] + a <= Budget \/ ledger' = <<>>
    BY <2>1, <1>1, <1>2, <1>3, WaitIs
  <2>3. sent[Window].air <= Total(ledger')[Len(ledger')]
        /\ sent[Window].air \in Nat /\ Total(ledger')[Len(ledger')] \in Nat
    BY <1>1, WindowIsHeld
  <2>4. CASE Total(ledger')[Len(ledger')] + a <= Budget
    BY <2>3, <2>4, <1>2, Sizes
  <2>5. CASE ledger' = <<>>
    <3>1. Total(ledger')[Len(ledger')] = 0
      BY <2>5, <1>3, AirsIn
    <3>2. sent[Window].air = 0
      BY <2>3, <3>1
    <3>3. sent[Window].frames = 0
      BY <3>2, <1>2, Stretches DEF Remembered
    <3> QED BY <3>3
  <2> QED BY <2>2, <2>4, <2>5
<1>6. Waiting'
  BY <1>1 DEF Waiting
<1> QED BY <1>3, <1>4, <1>5, <1>6

LEMMA RefuseStep ==
  ASSUME LedgerProofInv, NEW a \in Airs, Refuse(a)
  PROVE  LedgerProofInv'
<1> USE DEF LedgerProofInv
<1>1. /\ flight = <<>> /\ ledger' = Expire(ledger) /\ Wait(ledger', a) > 0
      /\ held' = <<[until |-> clock + Wait(ledger', a), air |-> a]>>
      /\ touched' = clock /\ clock' = clock /\ sent' = sent /\ flight' = flight
  BY DEF Refuse
<1>2. clock \in Nat /\ a \in Nat \ {0}
  BY Sizes DEF LedgerType
<1>3. ledger' \in Seq(Entry) /\ Aging' /\ Remembered' /\ Under' /\ Over' /\ OneASlot'
  BY <1>1, ExpiryStep
<1> DEFINE over == (Total(ledger')[Len(ledger')] + a) - Budget
           f == Frees(ledger', over)
<1>4. /\ Wait(ledger', a) \in Nat /\ Wait(ledger', a) # 0 /\ Budget # 0
      /\ f \in 1..Len(ledger') /\ Wait(ledger', a) = Window - Age(ledger'[f])
      /\ f = Len(ledger') \/ Total(ledger')[f] >= over
      /\ \A j \in 0..(f - 1) : Total(ledger')[j] < over
  <2>1. \A i \in 1..Len(ledger') : Age(ledger'[i]) < Window
    BY <1>1, Expired
  <2>2. Wait(ledger', a) \in Nat /\ Wait(ledger', a) # 0
    BY <2>1, <1>1, <1>2, <1>3, WaitIs
  <2> QED BY <2>1, <2>2, <1>2, <1>3, WaitIs
<1> HIDE DEF f
<1>5. LedgerType'
  <2>1. touched' \in 0..clock' /\ clock' \in Nat /\ sent' \in [0..(Window + Slot) -> [air : Nat, frames : Nat]]
    BY <1>1, <1>2 DEF LedgerType
  <2>2. flight' \in Seq([start : 0..clock', air : Airs]) /\ Len(flight') <= 1
    BY <1>1 DEF LedgerType
  <2>3. held' \in Seq([until : Nat, air : Airs]) /\ Len(held') <= 1
    <3>1. clock + Wait(ledger', a) \in Nat
      BY <1>2, <1>4
    <3>2. [until |-> clock + Wait(ledger', a), air |-> a] \in [until : Nat, air : Airs]
      BY <3>1
    <3> QED BY <1>1, <3>2
  <2> QED BY <2>1, <2>2, <2>3, <1>3 DEF LedgerType, Entry
<1>6. WindowBound'
  BY <1>1 DEF WindowBound, InWindow, OnAir
<1>7. Waiting'
  <2>1. held'[1].until = clock + Wait(ledger', a) /\ held'[1].air = a
    BY <1>1
  <2>2. PICK g \in Nat : g = f
    BY <1>3, <1>4, AirsIn
  <2>3. Age(ledger[g])' = Age(ledger'[g])
    BY <1>1, ClockStands
  <2>4. (clock + Wait(ledger', a)) = (clock - Age(ledger'[g])) + Window
    <3>1. ledger'[g].end \in 0..(Wrap - 1)
      BY <1>3, <1>4, <2>2, AirsIn
    <3>2. Age(ledger'[g]) \in Int
      BY <3>1, <1>2, AgeIs
    <3> QED BY <3>2, <1>2, <1>4, <2>2, Sizes
  <2>5. /\ g \in 1..Len(ledger')
        /\ held'[1].until = (clock' - Age(ledger[g])') + Window
        /\ g = Len(ledger') \/ Total(ledger')[g] >= (Total(ledger')[Len(ledger')] + a) - Budget
        /\ \A j \in 0..(g - 1) : Total(ledger')[j] < (Total(ledger')[Len(ledger')] + a) - Budget
    BY <2>1, <2>2, <2>3, <2>4, <1>1, <1>4
  <2>6. WaitsFor(held[1].air, held[1].until, g)'
    BY <2>1, <2>5 DEF WaitsFor
  <2>7. \E i \in 1..Len(ledger') : WaitsFor(held[1].air, held[1].until, i)'
    BY <2>5, <2>6
  <2> QED BY <2>7, <1>1, <1>4 DEF Waiting
<1> QED BY <1>3, <1>5, <1>6, <1>7

LEMMA YoungerZero ==
  ASSUME clock \in Nat, NEW s \in Seq(Entry)
  PROVE  Younger(s, 0) = 0
<1> DEFINE n == Len(s)
<1>1. n \in Nat /\ n \in 0..n /\ \A i \in 1..n : Age(s[i]) >= 0
  BY AirsIn, AgeIs
<1>2. Cut(s, 0, n)
  BY <1>1 DEF Cut
<1>3. Younger(s, 0) = Total(s)[n] - Total(s)[n]
  <2>1. 0 \in Int
    OBVIOUS
  <2> QED BY <2>1, <1>2, YoungerIs
<1>4. Total(s)[n] \in Nat
  BY <1>1, AirsIn
<1> QED BY <1>3, <1>4

\* An entry that a charge does not coalesce with is in an earlier slot.
LEMMA NewSlot ==
  ASSUME clock \in Nat, clock < Wrap, NEW e, e.end \in 0..(Wrap - 1), Age(e) <= clock
  PROVE  /\ e.end \div Slot \in Int /\ clock \div Slot \in Int
         /\ ~SameSlot(e) => clock \div Slot >= (e.end \div Slot) + 1
         /\ SameSlot(e) => e.end \div Slot = clock \div Slot /\ Age(e) <= clock % Slot
<1>1. e.end = clock - Age(e) /\ Now = clock /\ Age(e) \in Nat
  BY EndIs, NowIs, AgeIs
<1> DEFINE x == e.end
<1>2. x \in Int /\ clock \in Int /\ x <= clock /\ clock - x = Age(e) /\ Slot \in Nat \ {0}
  BY <1>1, Sizes
<1> HIDE DEF x
<1>3. /\ x \div Slot <= clock \div Slot
      /\ clock - x >= Slot => x \div Slot < clock \div Slot
      /\ x \div Slot = clock \div Slot => clock - x <= clock % Slot
  BY <1>2, SlotsApart
<1>4. x \div Slot \in Int /\ clock \div Slot \in Int
  BY <1>2, DivMod
<1>5. SameSlot(e) <=> (clock - x < Slot /\ clock \div Slot = x \div Slot)
  BY <1>1, <1>2 DEF SameSlot, x
<1> QED BY <1>2, <1>3, <1>4, <1>5 DEF x

\* Until the wrap the ring has room for an entry a slot.
LEMMA NoFold ==
  ASSUME clock \in Nat, clock < Wrap, NEW s \in Seq(Entry), Spread(s), ~Coalesces(s),
         \A i \in 1..Len(s) : Age(s[i]) < Window /\ Age(s[i]) <= clock
  PROVE  Len(s) < Entries
<1> DEFINE n == Len(s)
           q == Window \div Slot
<1>1. n \in Nat /\ Entries = q + 1 /\ q \in Nat \ {0} /\ Window = q * Slot /\ Slot \in Nat \ {0}
  BY AirsIn, EntriesIs, Sizes
<1>2. CASE n = 0
  BY <1>1, <1>2
<1>3. CASE n # 0
  <2>1. 1 \in 1..n /\ n \in 1..n /\ s # <<>>
    BY <1>1, <1>3
  <2>2. s[1].end \in 0..(Wrap - 1) /\ s[n].end \in 0..(Wrap - 1)
    BY <2>1, AirsIn
  <2>3. Age(s[1]) < Window /\ Age(s[1]) <= clock /\ Age(s[n]) <= clock
    BY <2>1
  <2> DEFINE x == s[1].end
             y == s[n].end
  <2>4. x \in Int /\ clock - x < q * Slot
    <3>1. x = clock - Age(s[1])
      BY <2>2, <2>3, EndIs
    <3>2. Age(s[1]) \in Nat
      BY <2>2, AgeIs
    <3> QED BY <3>1, <3>2, <2>2, <2>3, <1>1
  <2>5. clock \div Slot >= (y \div Slot) + 1 /\ y \div Slot \in Int /\ clock \div Slot \in Int
    <3>1. ~SameSlot(s[n])
      BY <2>1 DEF Coalesces
    <3> QED BY <3>1, <2>2, <2>3, NewSlot
  <2>6. y \div Slot >= (x \div Slot) + (n - 1)
    <3>1. CASE n = 1
      BY <3>1, <2>5
    <3>2. CASE n # 1
      <4>1. 1 < n
        <5> HIDE DEF n
        <5> QED BY <3>2, <1>1, <1>3
      <4> QED BY <4>1, <2>1 DEF Spread
    <3> QED BY <3>1, <3>2
  <2> HIDE DEF x, y, n, q
  <2>7. clock \div Slot <= (x \div Slot) + q /\ x \div Slot \in Int
    <3>1. clock \in Int /\ q \in Nat
      BY <1>1
    <3> QED BY <3>1, <2>4, <1>1, SlotsWithin, DivMod
  <2>8. n <= q
    BY <2>5, <2>6, <2>7, <1>1
  <2> QED BY <2>8, <1>1 DEF n
<1> QED BY <1>2, <1>3

\* A charge keeps at most one entry a slot.
LEMMA ChargeSpreads ==
  ASSUME clock \in Nat, clock < Wrap, NEW s \in Seq(Entry), Descending(s), Spread(s),
         \A i \in 1..Len(s) : Age(s[i]) < Window /\ Age(s[i]) <= clock,
         NEW a \in Nat \ {0}
  PROVE  Spread(Charged(s, a))
<1> DEFINE n == Len(s)
           z == Charged(s, a)
           Slots(e) == e.end \div Slot
<1>1. n \in Nat /\ \A i \in 1..n : s[i].end \in 0..(Wrap - 1)
  BY AirsIn
<1>2. /\ Coalesces(s) => z = Coalesced(s, a)
      /\ ~Coalesces(s) => z = Append(s, Newest(a))
  BY NoFold, ChargedIs
<1> HIDE DEF z
<1>3. Now = clock
  BY NowIs
<1>4. \A i \in 1..n : /\ Slots(s[i]) \in Int /\ clock \div Slot \in Int
                      /\ ~SameSlot(s[i]) => clock \div Slot >= Slots(s[i]) + 1
                      /\ SameSlot(s[i]) => Slots(s[i]) = clock \div Slot
  BY <1>1, NewSlot
<1>5. \A i, j \in 1..n : i < j => Slots(s[j]) >= Slots(s[i]) + (j - i)
  BY DEF Spread
<1>6. CASE Coalesces(s)
  <2>1. s # <<>> /\ SameSlot(s[n])
    BY <1>6 DEF Coalesces
  <2>2. s[n].air + a \in Nat \ {0} /\ n \in 1..n
    <3>1. n \in 1..n
      BY <2>1, CoalescedIs
    <3> QED BY <3>1, AirsIn
  <2>3. Newest(s[n].air + a).end = clock
    BY <2>2, <1>3, NewestIs
  <2>4. Len(z) = n /\ (\A i \in 1..(n - 1) : z[i] = s[i]) /\ z[n] = Newest(s[n].air + a)
    BY <2>1, <1>2, <1>6, CoalescedIs
  <2>5. Slots(z[n]) = Slots(s[n])
    BY <2>1, <2>2, <2>3, <2>4, <1>4
  <2>6. \A i \in 1..n : Slots(z[i]) = Slots(s[i])
    <3> SUFFICES ASSUME NEW i \in 1..n, i # n PROVE z[i] = s[i]
      BY <2>5
    <3>1. i \in 1..(n - 1)
      BY <1>1
    <3> QED BY <3>1, <2>4
  <2> HIDE DEF Slots
  <2>7. \A i, j \in 1..Len(z) : i < j => Slots(z[j]) >= Slots(z[i]) + (j - i)
    BY <1>5, <2>4, <2>6
  <2>8. Spread(z)
    BY <2>7, Zenon DEF Spread, Slots
  <2> QED BY <2>8 DEF z
<1>7. CASE ~Coalesces(s)
  <2>1. Newest(a).end = clock
    BY <1>3, NewestIs
  <2>2. Len(z) = n + 1 /\ (\A i \in 1..n : z[i] = s[i]) /\ z[n + 1] = Newest(a)
    <3>1. \A i \in 1..n : Age(s[i]) > 0
      BY <1>7, NotNow
    <3> QED BY <3>1, <1>2, <1>7, AppendAirs
  <2>3. Slots(z[n + 1]) = clock \div Slot
    BY <2>1, <2>2
  <2>4. ASSUME NEW i \in 1..n PROVE clock \div Slot >= Slots(s[i]) + ((n + 1) - i)
    <3>1. s # <<>> /\ n \in 1..n
      BY <1>1
    <3>2. clock \div Slot >= Slots(s[n]) + 1
      BY <3>1, <1>4, <1>7 DEF Coalesces
    <3>3. i # n => Slots(s[n]) >= Slots(s[i]) + (n - i)
      <4>1. i # n => i < n
        BY <1>1
      <4> QED BY <4>1, <3>1, <1>5
    <3>4. Slots(s[i]) \in Int /\ Slots(s[n]) \in Int /\ clock \div Slot \in Int
      BY <3>1, <1>4
    <3> HIDE DEF Slots
    <3>5. CASE i = n
      BY <3>2, <3>4, <3>5, <1>1
    <3>6. CASE i # n
      BY <3>2, <3>3, <3>4, <3>6, <1>1
    <3> QED BY <3>5, <3>6
  <2> SUFFICES ASSUME NEW i \in 1..(n + 1), NEW j \in 1..(n + 1), i < j
               PROVE  Slots(z[j]) >= Slots(z[i]) + (j - i)
    <3>1. ASSUME \A i, j \in 1..Len(z) : i < j => Slots(z[j]) >= Slots(z[i]) + (j - i)
          PROVE  Spread(z)
      BY <3>1, Zenon DEF Spread
    <3> HIDE DEF Slots
    <3> QED BY <3>1, <2>2 DEF z
  <2>5. i \in 1..n /\ z[i] = s[i]
    BY <1>1, <2>2
  <2>6. CASE j = n + 1
    BY <2>3, <2>4, <2>5, <2>6
  <2>7. CASE j # n + 1
    <3>1. j \in 1..n /\ z[j] = s[j]
      BY <2>2, <2>7, <1>1
    <3> QED BY <3>1, <2>5, <1>5
  <2> QED BY <2>6, <2>7
<1> QED BY <1>6, <1>7 DEF z

\* What a charge adds below the wrap, stretch by stretch.
LEMMA ChargeOvercounts ==
  ASSUME LedgerType, Aging, Remembered, Over, OneASlot, clock < Wrap, NEW a \in Nat \ {0}
  PROVE  /\ \A k \in 1..Window :
              Younger(Charged(Expire(ledger), a), k) <= sent[k + Slot].air + a
         /\ Younger(Charged(Expire(ledger), a), (clock % Slot) + 1)
              <= sent[(clock % Slot) + 1].air + a
<1> DEFINE s == Expire(ledger)
           z == Charged(s, a)
           n == Len(s)
           now == (clock % Slot) + 1
<1>1. /\ clock \in Nat /\ s \in Seq(Entry) /\ Descending(s) /\ Spread(s)
      /\ \A i \in 1..n : Age(s[i]) < Window /\ Age(s[i]) <= clock
      /\ \A k \in 0..Window : Younger(s, k) = Younger(ledger, k)
  BY Expired DEF LedgerType, OneASlot
<1> HIDE DEF s
<1>2. /\ now \in 1..Slot /\ now \in 1..Window /\ 1..Window \subseteq 0..Window
      /\ \A k \in 1..Window : k + Slot \in 0..(Window + Slot)
      /\ 1..Slot \subseteq 0..(Window + Slot)
  BY <1>1, Stretches, Sizes
<1>3. /\ Coalesces(s) => z = Coalesced(s, a)
      /\ ~Coalesces(s) => z = Append(s, Newest(a))
  BY <1>1, NoFold, ChargedIs
<1>4. /\ \A k \in 1..Window : Younger(s, k) <= sent[k + Slot].air
      /\ Younger(s, now) <= sent[now].air
  BY <1>1, <1>2 DEF Over
<1>5. ASSUME NEW k \in 1..Window PROVE Younger(s, k) \in Nat
  <2>1. k \in Int
    BY Sizes
  <2> QED BY <2>1, <1>1, YoungerNat
<1>6. \A k \in 1..Window : sent[k + Slot].air \in Nat
  BY <1>2, SentIs
<1>7. sent[now].air \in Nat
  BY <1>2, SentIs
<1> HIDE DEF z
<1>8. CASE ~Coalesces(s)
  <2>1. \A k \in 1..Window : Younger(z, k) = Younger(s, k) + a
    <3>1. \A i \in 1..n : Age(s[i]) > 0
      BY <1>1, <1>8, NotNow
    <3>2. \A k \in 1..Window : Younger(Append(s, Newest(a)), k) = Younger(s, k) + a
      BY <3>1, <1>1, AppendAirs
    <3> QED BY <3>2, <1>3, <1>8
  <2>2. ASSUME NEW k \in 1..Window PROVE Younger(z, k) <= sent[k + Slot].air + a
    <3>1. Younger(z, k) = Younger(s, k) + a /\ Younger(s, k) <= sent[k + Slot].air
      BY <2>1, <1>4
    <3>2. Younger(s, k) \in Nat /\ sent[k + Slot].air \in Nat
      BY <1>5, <1>6
    <3> QED BY <3>1, <3>2
  <2>3. Younger(z, now) <= sent[now].air + a
    <3> HIDE DEF now
    <3>1. Younger(z, now) = Younger(s, now) + a /\ Younger(s, now) \in Nat
      BY <2>1, <1>2, <1>5
    <3> QED BY <3>1, <1>4, <1>7
  <2> QED BY <2>2, <2>3 DEF z, s
<1>9. CASE Coalesces(s)
  <2> DEFINE e == s[n]
  <2>1. s # <<>> /\ SameSlot(e)
    BY <1>9 DEF Coalesces
  <2>2. n \in 1..n /\ e.end \in 0..(Wrap - 1) /\ e.air \in Nat \ {0} /\ Age(e) <= clock
        /\ Age(e) \in Nat
    <3>1. n \in 1..n
      BY <2>1, <1>1, CoalescedIs
    <3> QED BY <3>1, <1>1, AirsIn, AgeIs
  <2>3. Age(e) <= clock % Slot
    BY <2>1, <2>2, <1>1, NewSlot
  <2>4. Age(e) < now /\ ~(Age(e) >= now)
    <3>1. clock % Slot \in Int
      BY <1>1, Sizes, DivMod
    <3> QED BY <3>1, <2>2, <2>3
  <2>5. ASSUME NEW k \in 1..Window
        PROVE  \/ Younger(z, k) = Younger(s, k) + a
               \/ Age(e) >= k /\ Younger(z, k) = e.air + a
    BY <2>1, <1>1, <1>3, <1>9, CoalescedIs
  \* The air of the present slot's entry is recorded in the present slot.
  <2>6. e.air <= sent[now].air
    <3>1. PICK c \in 0..n : Cut(s, now, c)
      <4>1. now \in Int
        BY <1>2, Sizes
      <4> QED BY <4>1, <1>1, CutExists
    <3>2. Younger(s, now) = Total(s)[n] - Total(s)[c]
      <4>1. now \in Int
        BY <1>2, Sizes
      <4> QED BY <4>1, <3>1, <1>1, YoungerIs
    <3>3. c <= n - 1
      <4>1. SUFFICES ASSUME c = n PROVE FALSE
        BY <3>1, <2>2
      <4>2. n \in 1..c
        BY <4>1, <2>2
      <4> QED BY <4>2, <3>1, <2>4 DEF Cut
    <3>4. Total(s)[n] = Total(s)[n - 1] + e.air
      BY <2>2, <1>1, TotalStep
    <3>5. Total(s)[n - 1] \in Nat /\ Total(s)[c] \in Nat /\ Total(s)[c] <= Total(s)[n - 1]
      <4>1. n - 1 \in 0..n /\ c \in 0..(n - 1)
        BY <2>2, <3>1, <3>3
      <4> QED BY <4>1, <3>1, <1>1, AirsIn
    <3> HIDE DEF now, e
    <3>6. Younger(s, now) >= e.air
      BY <3>2, <3>4, <3>5, <2>2
    <3>7. Younger(s, now) \in Nat
      BY <1>2, <1>5
    <3> QED BY <3>6, <3>7, <1>4, <1>7, <2>2
  <2>7. ASSUME NEW k \in 1..Window PROVE Younger(z, k) <= sent[k + Slot].air + a
    <3>1. Younger(s, k) <= sent[k + Slot].air /\ Younger(s, k) \in Nat /\ sent[k + Slot].air \in Nat
      BY <1>4, <1>5, <1>6
    <3>2. sent[now].air <= sent[k + Slot].air
      <4> HIDE DEF now
      <4>1. now \in 0..(k + Slot)
        BY <1>2, Sizes
      <4> QED BY <4>1, <1>2 DEF Remembered
    <3>3. e.air + a <= sent[k + Slot].air + a
      <4> HIDE DEF now, e
      <4> QED BY <3>1, <3>2, <2>6, <2>2, <1>7
    <3>4. Younger(s, k) + a <= sent[k + Slot].air + a
      BY <3>1
    <3> QED BY <3>3, <3>4, <2>5
  <2>8. Younger(z, now) <= sent[now].air + a
    <3>1. Younger(z, now) = Younger(s, now) + a
      <4> HIDE DEF now
      <4> QED BY <2>4, <2>5, <1>2
    <3>2. Younger(s, now) \in Nat
      BY <1>2, <1>5
    <3> HIDE DEF now
    <3> QED BY <3>1, <3>2, <1>4, <1>7
  <2> QED BY <2>7, <2>8 DEF z, s
<1> QED BY <1>8, <1>9

LEMMA ChargeStep ==
  ASSUME LedgerProofInv, Charge
  PROVE  LedgerProofInv'
<1> USE DEF LedgerProofInv
<1> DEFINE a == flight[1].air
           u == Expire(ledger)
<1>1. /\ flight # <<>> /\ ledger' = Charged(u, a) /\ flight' = <<>>
      /\ touched' = clock /\ clock' = clock /\ held' = held
      /\ sent' = [k \in DOMAIN sent |->
                    IF k = 0 THEN sent[k]
                    ELSE [air |-> sent[k].air + a, frames |-> sent[k].frames + 1]]
  BY DEF Charge
<1>2. clock \in Nat /\ a \in Nat \ {0} /\ Len(flight) = 1
  <2>1. a \in Nat \ {0} /\ Len(flight) = 1
    BY <1>1, FlightIs
  <2> QED BY <2>1 DEF LedgerType
<1>3. /\ u \in Seq(Entry) /\ Descending(u)
      /\ \A i \in 1..Len(u) : Age(u[i]) < Window /\ Age(u[i]) <= clock
      /\ \A age \in 0..Window : Younger(u, age) = Younger(ledger, age)
      /\ Spread(ledger) => Spread(u)
  BY Expired
<1>4. clock < Wrap =>
        /\ \A k \in 1..Window : Younger(ledger', k) <= sent[k + Slot].air + a
        /\ Younger(ledger', (clock % Slot) + 1) <= sent[(clock % Slot) + 1].air + a
  BY <1>1, <1>2, ChargeOvercounts
<1>5. clock < Wrap => Spread(ledger')
  BY <1>1, <1>2, <1>3, ChargeSpreads DEF OneASlot
<1> HIDE DEF u, a
<1>6. /\ ledger' \in Seq(Entry) /\ Descending(ledger')
      /\ \A i \in 1..Len(ledger') :
           Age(ledger'[i]) = 0 \/ \E j \in 1..Len(u) : ledger'[i].end = u[j].end
      /\ \A age \in 1..Window : Younger(ledger', age) >= Younger(u, age) + a
  BY <1>1, <1>2, <1>3, ChargedIs
<1>7. \A i \in 1..Len(ledger') : Age(ledger'[i]) < Window /\ Age(ledger'[i]) <= clock
  <2> SUFFICES ASSUME NEW i \in 1..Len(ledger')
               PROVE  Age(ledger'[i]) < Window /\ Age(ledger'[i]) <= clock
    OBVIOUS
  <2>1. CASE Age(ledger'[i]) = 0
    BY <2>1, <1>2, Sizes
  <2>2. CASE \E j \in 1..Len(u) : ledger'[i].end = u[j].end
    <3>1. PICK j \in 1..Len(u) : ledger'[i].end = u[j].end
      BY <2>2
    <3>2. Age(ledger'[i]) = Age(u[j])
      BY <3>1 DEF Age
    <3> QED BY <3>2, <1>3
  <2> QED BY <2>1, <2>2, <1>6
<1>8. /\ \A i : Age(ledger[i])' = Age(ledger'[i])
      /\ Descending(ledger)' <=> Descending(ledger')
      /\ \A age : Younger(ledger, age)' = Younger(ledger', age)
  BY <1>1, ClockStands
<1>9. /\ DOMAIN sent = 0..(Window + Slot) /\ DOMAIN sent' = 0..(Window + Slot)
      /\ sent'[0] = sent[0]
      /\ \A k \in 1..(Window + Slot) : /\ sent'[k].air = sent[k].air + a
                                       /\ sent'[k].frames = sent[k].frames + 1
                                       /\ sent'[k] \in [air : Nat, frames : Nat]
                                       /\ sent[k].air \in Nat /\ sent[k].frames \in Nat
  <2>1. DOMAIN sent = 0..(Window + Slot) /\ 0 \in 0..(Window + Slot)
    BY <1>2, Stretches DEF LedgerType
  <2>2. ASSUME NEW k \in 1..(Window + Slot)
        PROVE  /\ sent'[k] = [air |-> sent[k].air + a, frames |-> sent[k].frames + 1]
               /\ sent[k].air \in Nat /\ sent[k].frames \in Nat
    <3>1. k \in 0..(Window + Slot) /\ k # 0
      BY Sizes
    <3> QED BY <3>1, <2>1, <1>1, SentIs
  <2>3. sent'[0] = sent[0] /\ DOMAIN sent' = 0..(Window + Slot)
    BY <2>1, <1>1
  <2>4. ASSUME NEW k \in 1..(Window + Slot)
        PROVE  /\ sent'[k].air = sent[k].air + a /\ sent'[k].frames = sent[k].frames + 1
               /\ sent'[k] \in [air : Nat, frames : Nat]
    <3> DEFINE x == sent[k].air
               y == sent[k].frames
    <3>1. x \in Nat /\ y \in Nat /\ sent'[k] = [air |-> x + a, frames |-> y + 1]
      BY <2>2
    <3> HIDE DEF x, y
    <3>2. x + a \in Nat /\ y + 1 \in Nat
      BY <3>1, <1>2
    <3>3. sent'[k].air = x + a /\ sent'[k].frames = y + 1 /\ sent'[k] \in [air : Nat, frames : Nat]
      BY <3>1, <3>2
    <3> QED BY <3>3 DEF x, y
  <2> QED BY <2>1, <2>2, <2>3, <2>4
<1>10. \A k \in 0..(Window + Slot) : k = 0 \/ k \in 1..(Window + Slot)
  BY Sizes
<1>11. LedgerType'
  <2>1. sent' \in [0..(Window + Slot) -> [air : Nat, frames : Nat]]
    <3>1. sent'[0] \in [air : Nat, frames : Nat]
      BY <1>2, <1>9, Stretches DEF LedgerType
    <3>2. \A k \in 0..(Window + Slot) : sent'[k] \in [air : Nat, frames : Nat]
      BY <3>1, <1>9, <1>10
    <3> QED BY <3>2, <1>1, <1>9
  <2>2. touched' \in 0..clock' /\ clock' \in Nat
    BY <1>1, <1>2
  <2>3. flight' \in Seq([start : 0..clock', air : Airs]) /\ Len(flight') <= 1
    BY <1>1
  <2>4. held' \in Seq([until : Nat, air : Airs]) /\ Len(held') <= 1
    BY <1>1 DEF LedgerType
  <2> QED BY <2>1, <2>2, <2>3, <2>4, <1>6 DEF LedgerType, Entry
<1>12. Aging'
  <2>1. clock - clock = 0 /\ Window + 0 = Window /\ 0 <= MaxIdle
    BY <1>2, Sizes
  <2> QED BY <2>1, <1>1, <1>6, <1>7, <1>8 DEF Aging
<1>13. Remembered'
  <2>1. sent'[0].air = 0 /\ sent'[0].frames = 0
    BY <1>9 DEF Remembered
  <2>2. ASSUME NEW k \in 0..(Window + Slot)
        PROVE  sent'[k].air = 0 <=> sent'[k].frames = 0
    BY <2>1, <1>2, <1>9, <1>10
  <2>3. ASSUME NEW k \in 0..(Window + Slot), NEW j \in 0..k
        PROVE  sent'[j].air <= sent'[k].air /\ sent'[j].frames <= sent'[k].frames
    <3>1. CASE j = 0
      BY <3>1, <2>1, <1>2, <1>9, <1>10
    <3>2. CASE j # 0
      <4>1. j \in 1..(Window + Slot) /\ k \in 1..(Window + Slot)
        BY <3>2, Sizes
      <4>2. sent[j].air <= sent[k].air /\ sent[j].frames <= sent[k].frames
        BY DEF Remembered
      <4>3. /\ sent'[j].air = sent[j].air + a /\ sent'[j].frames = sent[j].frames + 1
            /\ sent'[k].air = sent[k].air + a /\ sent'[k].frames = sent[k].frames + 1
            /\ sent[j].air \in Nat /\ sent[j].frames \in Nat
            /\ sent[k].air \in Nat /\ sent[k].frames \in Nat
        BY <4>1, <1>9
      <4> QED BY <4>2, <4>3, <1>2
    <3> QED BY <3>1, <3>2
  <2> QED BY <2>1, <2>2, <2>3 DEF Remembered
<1>14. Under'
  <2> SUFFICES ASSUME NEW k \in 0..Window PROVE sent'[k].air <= Younger(ledger', k)
    BY <1>8 DEF Under
  <2>1. CASE k = 0
    <3>1. sent'[0].air = 0
      BY <1>9 DEF Remembered
    <3> QED BY <2>1, <3>1, <1>2, <1>6, YoungerZero
  <2>2. CASE k # 0
    <3>1. k \in 1..Window /\ k \in 1..(Window + Slot) /\ k \in Int
      BY <2>2, Sizes
    <3>2. sent'[k].air = sent[k].air + a /\ sent[k].air \in Nat
      BY <3>1, <1>9
    <3>3. sent[k].air <= Younger(u, k) /\ Younger(ledger', k) >= Younger(u, k) + a
      BY <3>1, <1>3, <1>6 DEF Under
    <3>4. Younger(u, k) \in Nat /\ Younger(ledger', k) \in Nat
      BY <3>1, <1>2, <1>3, <1>6, YoungerNat
    <3> QED BY <3>2, <3>3, <3>4, <1>2
  <2> QED BY <2>1, <2>2
<1>15. Over'
  <2> SUFFICES ASSUME clock < Wrap
               PROVE  /\ \A k \in 0..Window : Younger(ledger', k) <= sent'[k + Slot].air
                      /\ Younger(ledger', (clock % Slot) + 1) <= sent'[(clock % Slot) + 1].air
    BY <1>1, <1>8 DEF Over
  <2>1. ASSUME NEW k \in 0..Window PROVE Younger(ledger', k) <= sent'[k + Slot].air
    <3>1. k + Slot \in 1..(Window + Slot)
      BY Sizes
    <3>2. sent'[k + Slot].air = sent[k + Slot].air + a /\ sent[k + Slot].air \in Nat
      BY <3>1, <1>9
    <3>3. CASE k = 0
      BY <3>2, <3>3, <1>2, <1>6, YoungerZero
    <3>4. CASE k # 0
      <4>1. k \in 1..Window
        BY <3>4
      <4> QED BY <4>1, <3>2, <1>4
    <3> QED BY <3>3, <3>4
  <2>2. (clock % Slot) + 1 \in 1..(Window + Slot)
    BY <1>2, Stretches, Sizes
  <2>3. Younger(ledger', (clock % Slot) + 1) <= sent'[(clock % Slot) + 1].air
    BY <2>2, <1>4, <1>9
  <2> QED BY <2>1, <2>3
<1>16. OneASlot'
  BY <1>1, <1>5 DEF OneASlot
<1>17. WindowBound'
  <2>1. Window \in 1..(Window + Slot)
    BY Sizes
  <2>2. sent'[Window].air = sent[Window].air + a /\ sent'[Window].frames = sent[Window].frames + 1
        /\ sent[Window].air \in Nat /\ sent[Window].frames \in Nat
    BY <2>1, <1>9
  <2>3. OnAir = a /\ OnAir' = 0 /\ Len(flight') = 0
    BY <1>1 DEF OnAir, a
  <2>4. SUFFICES ASSUME Budget # 0
                 PROVE  sent'[Window].air + 0 <= Budget \/ sent'[Window].frames + 0 = 1
    BY <2>3 DEF WindowBound, InWindow
  <2>5. sent[Window].air + a <= Budget \/ sent[Window].frames + 1 = 1
    BY <2>3, <2>4, <1>2 DEF WindowBound, InWindow
  <2> QED BY <2>2, <2>5, <1>2
<1>18. Waiting'
  BY <1>1 DEF Waiting
<1> QED BY <1>11, <1>12, <1>13, <1>14, <1>15, <1>16, <1>17, <1>18

LEMMA AbandonStep ==
  ASSUME LedgerProofInv, Abandon
  PROVE  LedgerProofInv'
<1> USE DEF LedgerProofInv
<1>1. /\ flight # <<>> /\ flight' = <<>> /\ clock' = clock /\ ledger' = ledger
      /\ touched' = touched /\ sent' = sent /\ held' = held
  BY DEF Abandon
<1>2. /\ \A i : Age(ledger[i])' = Age(ledger'[i])
      /\ Descending(ledger)' <=> Descending(ledger')
      /\ \A age : Younger(ledger, age)' = Younger(ledger', age)
  BY <1>1, ClockStands
<1>3. LedgerType'
  BY <1>1 DEF LedgerType
<1>4. Aging' /\ Remembered' /\ Under' /\ Over' /\ OneASlot'
  <2>1. Aging'
    BY <1>1, <1>2 DEF Aging
  <2>2. Remembered'
    BY <1>1 DEF Remembered
  <2>3. Under'
    BY <1>1, <1>2 DEF Under
  <2>4. Over'
    BY <1>1, <1>2 DEF Over
  <2>5. OneASlot'
    BY <1>1 DEF OneASlot
  <2> QED BY <2>1, <2>2, <2>3, <2>4, <2>5
<1>5. WindowBound'
  <2>1. SUFFICES ASSUME Budget # 0
                 PROVE  sent[Window].air + 0 <= Budget \/ sent[Window].frames + 0 = 1
    <3>1. OnAir' = 0 /\ Len(flight') = 0
      BY <1>1 DEF OnAir
    <3> QED BY <3>1, <1>1 DEF WindowBound, InWindow
  <2>2. OnAir \in Nat /\ Len(flight) = 1
    BY <1>1, FlightIs DEF OnAir
  <2>3. sent[Window].air + OnAir <= Budget \/ sent[Window].frames + 1 = 1
    BY <2>1, <2>2 DEF WindowBound, InWindow
  <2>4. Window \in 0..(Window + Slot)
    BY Sizes
  <2>5. sent[Window].air \in Nat /\ sent[Window].frames \in Nat
        /\ (sent[Window].air = 0 <=> sent[Window].frames = 0)
    BY <2>4, SentIs DEF Remembered
  <2> QED BY <2>2, <2>3, <2>5, Sizes
<1>6. Waiting'
  BY <1>1 DEF Waiting
<1> QED BY <1>3, <1>4, <1>5, <1>6

\* A tick makes every entry one older.
LEMMA TickAges ==
  ASSUME LedgerType, Aging, LedgerTick
  PROVE  /\ \A i \in 1..Len(ledger) : Age(ledger[i])' = Age(ledger[i]) + 1
         /\ Descending(ledger)'
         /\ \A age \in Int : Younger(ledger, age)' = Younger(ledger, age - 1)
<1>1. /\ clock - touched < MaxIdle /\ clock' = clock + 1 /\ ledger' = ledger
      /\ clock \in Nat /\ touched \in Nat /\ ledger \in Seq(Entry)
  BY DEF LedgerTick, LedgerType, Entry
<1>2. \A i \in 1..Len(ledger) : ledger[i].end \in 0..(Wrap - 1) /\ Age(ledger[i]) \in Nat
  BY <1>1, AirsIn, AgeIs
<1>3. ASSUME NEW i \in 1..Len(ledger) PROVE Age(ledger[i])' = Age(ledger[i]) + 1
  <2>1. Age(ledger[i]) < Window + (clock - touched)
    BY DEF Aging
  <2>2. Age(ledger[i]) + 1 < Wrap
    BY <2>1, <1>1, <1>2, Sizes
  <2>3. (Now' - ledger[i].end) % Wrap = Age(ledger[i]) + 1
    BY <2>2, <1>1, <1>2, AgeNext
  <2>4. Age(ledger[i])' = (Now' - ledger'[i].end) % Wrap
    BY DEF Age
  <2> QED BY <2>3, <2>4, <1>1
<1>4. Descending(ledger)'
  <2> SUFFICES ASSUME NEW i \in 1..Len(ledger'), NEW j \in 1..Len(ledger'), i < j
               PROVE  Age(ledger[j])' < Age(ledger[i])'
    BY DEF Descending
  <2>1. i \in 1..Len(ledger) /\ j \in 1..Len(ledger)
    BY <1>1
  <2>2. Age(ledger[j]) < Age(ledger[i])
    BY <2>1 DEF Descending, Aging
  <2>3. Age(ledger[i])' = Age(ledger[i]) + 1 /\ Age(ledger[j])' = Age(ledger[j]) + 1
    BY <2>1, <1>3
  <2>4. Age(ledger[i]) \in Nat /\ Age(ledger[j]) \in Nat
    BY <2>1, <1>2
  <2> QED BY <2>2, <2>3, <2>4
<1>5. ASSUME NEW age \in Int PROVE Younger(ledger, age)' = Younger(ledger, age - 1)
  <2>1. \A i \in DOMAIN ledger' : Age(ledger[i])' < age <=> Age(ledger'[i]) < age - 1
    <3> SUFFICES ASSUME NEW i \in 1..Len(ledger)
                 PROVE  Age(ledger[i])' < age <=> Age(ledger[i]) < age - 1
      BY <1>1, AirsIn
    <3>1. Age(ledger[i])' = Age(ledger[i]) + 1 /\ Age(ledger[i]) \in Nat
      BY <1>2, <1>3
    <3> QED BY <3>1
  <2>2. Younger(ledger, age)' = Younger(ledger', age - 1)
    BY <2>1, YoungerMoves
  <2> QED BY <2>2, <1>1
<1> QED BY <1>3, <1>4, <1>5

LEMMA TickStep ==
  ASSUME LedgerProofInv, LedgerTick
  PROVE  LedgerProofInv'
<1> USE DEF LedgerProofInv
<1>1. /\ clock - touched < MaxIdle /\ clock' = clock + 1
      /\ sent' = [k \in DOMAIN sent |-> IF k = 0 THEN sent[k] ELSE sent[k - 1]]
      /\ ledger' = ledger /\ touched' = touched /\ flight' = flight /\ held' = held
  BY DEF LedgerTick
<1>2. clock \in Nat /\ touched \in Nat /\ touched <= clock /\ clock' \in Nat
      /\ ledger \in Seq(Entry)
  BY <1>1 DEF LedgerType, Entry
<1>3. /\ \A i \in 1..Len(ledger) : Age(ledger[i])' = Age(ledger[i]) + 1
      /\ Descending(ledger)'
      /\ \A age \in Int : Younger(ledger, age)' = Younger(ledger, age - 1)
  BY TickAges
<1>4. \A i \in 1..Len(ledger) : Age(ledger[i]) \in Nat
  BY <1>2, AirsIn, AgeIs
<1>5. /\ DOMAIN sent = 0..(Window + Slot) /\ DOMAIN sent' = 0..(Window + Slot)
      /\ sent'[0] = sent[0] /\ sent[0].air = 0 /\ sent[0].frames = 0
      /\ \A k \in 1..(Window + Slot) : sent'[k] = sent[k - 1] /\ k - 1 \in 0..(Window + Slot)
  <2>1. DOMAIN sent = 0..(Window + Slot) /\ 0 \in 0..(Window + Slot)
    BY <1>2, Stretches DEF LedgerType
  <2>2. ASSUME NEW k \in 1..(Window + Slot) PROVE sent'[k] = sent[k - 1] /\ k - 1 \in 0..(Window + Slot)
    <3>1. k \in 0..(Window + Slot) /\ k # 0 /\ k - 1 \in 0..(Window + Slot)
      BY Sizes
    <3> QED BY <3>1, <2>1, <1>1
  <2>3. sent'[0] = sent[0] /\ DOMAIN sent' = 0..(Window + Slot)
    BY <2>1, <1>1
  <2> QED BY <2>1, <2>2, <2>3 DEF Remembered
<1>6. \A k \in 0..(Window + Slot) : k = 0 \/ k \in 1..(Window + Slot)
  BY Sizes
<1>7. \A k \in 0..(Window + Slot) : sent[k].air \in Nat /\ sent[k].frames \in Nat
  BY SentIs
<1>8. LedgerType'
  <2>1. \A k \in 0..(Window + Slot) : sent[k] \in [air : Nat, frames : Nat]
    BY DEF LedgerType
  <2>2. \A k \in 0..(Window + Slot) : sent'[k] \in [air : Nat, frames : Nat]
    BY <2>1, <1>5, <1>6
  <2>3. sent' \in [0..(Window + Slot) -> [air : Nat, frames : Nat]]
    BY <2>2, <1>1, <1>5
  <2>4. flight' \in Seq([start : 0..clock', air : Airs]) /\ Len(flight') <= 1
    <3>1. [start : 0..clock, air : Airs] \subseteq [start : 0..clock', air : Airs]
      <4>1. 0..clock \subseteq 0..clock'
        BY <1>1, <1>2
      <4> QED BY <4>1
    <3>2. flight \in Seq([start : 0..clock, air : Airs]) /\ Len(flight) <= 1
      BY DEF LedgerType
    <3>3. ASSUME NEW P, NEW Q, P \subseteq Q, flight \in Seq(P) PROVE flight \in Seq(Q)
      BY <3>3
    <3> QED BY <3>1, <3>2, <3>3, <1>1
  <2>5. touched' \in 0..clock'
    BY <1>1, <1>2
  <2> QED BY <2>3, <2>4, <2>5, <1>1, <1>2 DEF LedgerType
<1>9. Aging'
  <2>1. clock' - touched' <= MaxIdle
    BY <1>1, <1>2, Sizes
  <2>2. ASSUME NEW i \in 1..Len(ledger')
        PROVE  Age(ledger[i])' <= clock' /\ Age(ledger[i])' < Window + (clock' - touched')
    <3>1. i \in 1..Len(ledger)
      BY <1>1
    <3>2. Age(ledger[i]) <= clock /\ Age(ledger[i]) < Window + (clock - touched)
      BY <3>1 DEF Aging
    <3>3. Age(ledger[i])' = Age(ledger[i]) + 1 /\ Age(ledger[i]) \in Nat
      BY <3>1, <1>3, <1>4
    <3> QED BY <3>2, <3>3, <1>1, <1>2, Sizes
  <2> QED BY <2>1, <2>2, <1>3 DEF Aging
<1>10. Remembered'
  <2>1. ASSUME NEW k \in 0..(Window + Slot)
        PROVE  sent'[k].air = 0 <=> sent'[k].frames = 0
    BY <1>5, <1>6 DEF Remembered
  <2>2. ASSUME NEW k \in 0..(Window + Slot), NEW j \in 0..k
        PROVE  sent'[j].air <= sent'[k].air /\ sent'[j].frames <= sent'[k].frames
    <3>1. CASE j = 0
      <4>1. sent'[k].air \in Nat /\ sent'[k].frames \in Nat
        BY <1>5, <1>6, <1>7
      <4> QED BY <3>1, <4>1, <1>5
    <3>2. CASE j # 0
      <4>1. j \in 1..(Window + Slot) /\ k \in 1..(Window + Slot) /\ j - 1 \in 0..(k - 1)
        BY <3>2, Sizes
      <4>2. sent[j - 1].air <= sent[k - 1].air /\ sent[j - 1].frames <= sent[k - 1].frames
        BY <4>1, <1>5 DEF Remembered
      <4> QED BY <4>1, <4>2, <1>5
    <3> QED BY <3>1, <3>2
  <2> QED BY <2>1, <2>2, <1>5 DEF Remembered
<1>11. \A k \in 1..Window : Younger(ledger, k)' = Younger(ledger, k - 1)
                            /\ k - 1 \in 0..Window /\ k \in 1..(Window + Slot)
  BY <1>3, Sizes
<1>12. Younger(ledger, 0)' = 0
  <2>1. ledger' \in Seq(Entry)
    BY <1>1, <1>2
  <2>2. LedgerType' => (clock' \in Nat /\ ledger' \in Seq(Entry))
    BY <2>1, <1>2
  <2>3. \A i \in DOMAIN ledger' : Age(ledger[i])' < 0 <=> Age(ledger'[i]) < 0
    <3> SUFFICES ASSUME NEW i \in 1..Len(ledger) PROVE Age(ledger[i])' < 0 <=> Age(ledger[i]) < 0
      BY <1>1, <1>2, AirsIn
    <3> QED BY <1>3, <1>4
  <2>4. Younger(ledger, 0)' = Younger(ledger', 0)
    BY <2>3, YoungerMoves
  <2> QED BY <2>4, <1>1, <1>2, YoungerZero
<1>13. Under'
  <2> SUFFICES ASSUME NEW k \in 0..Window PROVE sent'[k].air <= Younger(ledger, k)'
    BY DEF Under
  <2>1. CASE k = 0
    BY <2>1, <1>5, <1>12
  <2>2. CASE k # 0
    <3>1. k \in 1..Window
      BY <2>2
    <3>2. sent'[k] = sent[k - 1] /\ Younger(ledger, k)' = Younger(ledger, k - 1) /\ k - 1 \in 0..Window
      BY <3>1, <1>5, <1>11
    <3> QED BY <3>2 DEF Under
  <2> QED BY <2>1, <2>2
<1>14. Over'
  <2>4. clock \in Int /\ clock' \in Int /\ Slot \in Nat \ {0}
    BY <1>2, Sizes
  <2>5. clock % Slot \in 0..(Slot - 1) /\ clock' % Slot \in 0..(Slot - 1)
    BY <2>4, DivMod
  <2>6. (clock' % Slot) + 1 \in Nat
    <3>1. \A x \in 0..(Slot - 1) : x + 1 \in Nat
      BY <2>4
    <3> QED BY <2>5, <3>1
  <2> SUFFICES ASSUME clock' < Wrap
               PROVE  /\ \A k \in 0..Window : Younger(ledger, k)' <= sent'[k + Slot].air
                      /\ \A k \in Nat : k = (clock' % Slot) + 1 =>
                           Younger(ledger, k)' <= sent'[k].air
    BY <2>6 DEF Over
  <2>1. clock < Wrap
    BY <1>1, <1>2, Sizes
  <2>2. ASSUME NEW k \in 0..Window PROVE Younger(ledger, k)' <= sent'[k + Slot].air
    <3>1. k + Slot \in 1..(Window + Slot)
      BY Sizes
    <3>2. sent'[k + Slot] = sent[(k + Slot) - 1] /\ sent'[k + Slot].air \in Nat
      BY <3>1, <1>5, <1>7
    <3>3. CASE k = 0
      BY <3>2, <3>3, <1>12
    <3>4. CASE k # 0
      <4>1. k \in 1..Window /\ (k + Slot) - 1 = (k - 1) + Slot
        BY <3>4, Sizes
      <4>2. Younger(ledger, k)' = Younger(ledger, k - 1) /\ k - 1 \in 0..Window
        BY <4>1, <1>11
      <4>3. Younger(ledger, k - 1) <= sent[(k - 1) + Slot].air
        BY <4>2, <2>1 DEF Over
      <4> QED BY <3>2, <4>1, <4>2, <4>3
    <3> QED BY <3>3, <3>4
  <2>3. ASSUME NEW k \in Nat, k = (clock' % Slot) + 1
        PROVE  Younger(ledger, k)' <= sent'[k].air
    <3>2. clock' % Slot = IF (clock % Slot) + 1 = Slot THEN 0 ELSE (clock % Slot) + 1
      <4>1. (clock + 1) % Slot = IF (clock % Slot) + 1 = Slot THEN 0 ELSE (clock % Slot) + 1
        BY <2>4, ModNext
      <4> QED BY <4>1, <1>1
    <3>3. k \in 1..Window
      BY <2>3, <2>5, Sizes
    <3>4. Younger(ledger, k)' = Younger(ledger, k - 1) /\ sent'[k] = sent[k - 1]
      BY <3>3, <1>5, <1>11
    <3>5. CASE k = 1
      <4>1. k - 1 = 0 /\ Younger(ledger, 0) = 0
        BY <3>5, <1>2, YoungerZero
      <4> QED BY <3>4, <4>1, <1>5
    <3>6. CASE k # 1
      <4>1. k - 1 = (clock % Slot) + 1
        <5> DEFINE x == clock % Slot
                   y == clock' % Slot
        <5>1. /\ x \in 0..(Slot - 1) /\ y = IF x + 1 = Slot THEN 0 ELSE x + 1
              /\ k = y + 1
          BY <2>5, <3>2, <2>3
        <5> HIDE DEF x, y
        <5>2. k - 1 = x + 1
          BY <5>1, <3>6, <2>4
        <5> QED BY <5>2 DEF x
      <4>2. Younger(ledger, (clock % Slot) + 1) <= sent[(clock % Slot) + 1].air
        BY <2>1 DEF Over
      <4> QED BY <3>4, <4>1, <4>2
    <3> QED BY <3>5, <3>6
  <2> QED BY <2>2, <2>3
<1>15. OneASlot'
  <2>1. clock' < Wrap => clock < Wrap
    BY <1>1, <1>2, Sizes
  <2> QED BY <2>1, <1>1 DEF OneASlot
<1>16. WindowBound'
  <2>1. Window \in 1..(Window + Slot) /\ Window - 1 \in 0..Window /\ Window \in 0..(Window + Slot)
        /\ Window - 1 \in 0..(Window + Slot)
    BY Sizes
  <2> DEFINE before == sent[Window]
             after == sent[Window - 1]
  <2>2. /\ sent'[Window] = after
        /\ after.air <= before.air /\ after.frames <= before.frames
        /\ before.air \in Nat /\ before.frames \in Nat /\ after.air \in Nat /\ after.frames \in Nat
        /\ after.air = 0 <=> after.frames = 0
    BY <2>1, <1>5, <1>7 DEF Remembered
  <2>3. OnAir' = OnAir /\ Len(flight') = Len(flight)
    BY <1>1 DEF OnAir
  <2> HIDE DEF before, after
  <2>4. SUFFICES ASSUME Budget # 0
                 PROVE  after.air + OnAir <= Budget \/ after.frames + Len(flight) = 1
    BY <2>2, <2>3 DEF WindowBound, InWindow
  <2>5. before.air + OnAir <= Budget \/ before.frames + Len(flight) = 1
    BY <2>4 DEF WindowBound, InWindow, before
  <2>6. OnAir \in Nat
    BY FlightIs DEF OnAir
  <2>7. CASE before.air + OnAir <= Budget
    BY <2>2, <2>6, <2>7, Sizes
  <2>8. CASE before.frames + Len(flight) = 1
    <3>1. CASE flight # <<>>
      <4>1. Len(flight) = 1
        BY <3>1, FlightIs
      <4> QED BY <4>1, <2>2, <2>8
    <3>2. CASE flight = <<>>
      <4>1. OnAir = 0 /\ Len(flight) = 0
        BY <3>2 DEF OnAir
      <4>2. before.frames = 1
        BY <4>1, <2>2, <2>8
      <4>3. CASE after.frames = 0
        BY <4>1, <4>3, <2>2, Sizes
      <4>4. CASE after.frames # 0
        <5>1. after.frames = 1
          BY <4>2, <4>4, <2>2
        <5> QED BY <4>1, <5>1
      <4> QED BY <4>3, <4>4
    <3> QED BY <3>1, <3>2
  <2> QED BY <2>5, <2>7, <2>8
<1>17. Waiting'
  <2> SUFFICES ASSUME held # <<>>
               PROVE  /\ flight = <<>> /\ Budget # 0
                      /\ \E f \in 1..Len(ledger) : WaitsFor(held[1].air, held[1].until, f)'
    BY <1>1 DEF Waiting
  <2>1. PICK f \in 1..Len(ledger) : WaitsFor(held[1].air, held[1].until, f)
    BY DEF Waiting
  <2>2. (clock' - Age(ledger[f])') + Window = (clock - Age(ledger[f])) + Window
    <3>1. Age(ledger[f])' = Age(ledger[f]) + 1 /\ Age(ledger[f]) \in Nat
      BY <1>3, <1>4
    <3> QED BY <3>1, <1>1, <1>2, Sizes
  <2>3. WaitsFor(held[1].air, held[1].until, f)'
    BY <2>1, <2>2, <1>1 DEF WaitsFor
  <2> QED BY <2>1, <2>3 DEF Waiting
<1> QED BY <1>8, <1>9, <1>10, <1>13, <1>14, <1>15, <1>16, <1>17

LEMMA LedgerStutter ==
  ASSUME LedgerProofInv, UNCHANGED ledgerVars
  PROVE  LedgerProofInv'
<1> USE DEF LedgerProofInv
<1>1. /\ flight' = flight /\ clock' = clock /\ ledger' = ledger
      /\ touched' = touched /\ sent' = sent /\ held' = held
  BY DEF ledgerVars
<1>2. /\ \A i : Age(ledger[i])' = Age(ledger'[i])
      /\ Descending(ledger)' <=> Descending(ledger')
      /\ \A age : Younger(ledger, age)' = Younger(ledger', age)
  BY <1>1, ClockStands
<1>3. LedgerType'
  BY <1>1 DEF LedgerType
<1>4. Aging'
  BY <1>1, <1>2 DEF Aging
<1>5. Remembered'
  BY <1>1 DEF Remembered
<1>6. Under'
  BY <1>1, <1>2 DEF Under
<1>7. Over'
  BY <1>1, <1>2 DEF Over
<1>8. OneASlot'
  BY <1>1 DEF OneASlot
<1>9. WindowBound'
  BY <1>1 DEF WindowBound, InWindow, OnAir
<1>10. Waiting'
  <2> SUFFICES ASSUME held # <<>>
               PROVE  /\ flight = <<>> /\ Budget # 0
                      /\ \E f \in 1..Len(ledger) : WaitsFor(held[1].air, held[1].until, f)'
    BY <1>1 DEF Waiting
  <2>1. PICK f \in 1..Len(ledger) : WaitsFor(held[1].air, held[1].until, f)
    BY DEF Waiting
  <2>2. WaitsFor(held[1].air, held[1].until, f)'
    BY <2>1, <1>1, <1>2 DEF WaitsFor
  <2> QED BY <2>1, <2>2 DEF Waiting
<1> QED BY <1>3, <1>4, <1>5, <1>6, <1>7, <1>8, <1>9, <1>10

LEMMA LedgerStarts == LedgerInit => LedgerProofInv
<1> SUFFICES ASSUME LedgerInit PROVE LedgerProofInv
  OBVIOUS
<1>1. /\ clock = 0 /\ ledger = <<>> /\ touched = 0 /\ flight = <<>> /\ held = <<>>
      /\ sent = [k \in 0..(Window + Slot) |-> [air |-> 0, frames |-> 0]]
  BY DEF LedgerInit
<1>2. \A k \in 0..(Window + Slot) : sent[k].air = 0 /\ sent[k].frames = 0
  BY <1>1
<1>3. LedgerType
  <2>1. ledger \in Seq(Entry) /\ Entry = [end : 0..(Wrap - 1), air : Nat \ {0}]
    BY <1>1 DEF Entry
  <2>2. sent \in [0..(Window + Slot) -> [air : Nat, frames : Nat]]
    BY <1>1
  <2>3. flight \in Seq([start : 0..clock, air : Airs]) /\ Len(flight) <= 1
    BY <1>1
  <2>4. held \in Seq([until : Nat, air : Airs]) /\ Len(held) <= 1
    BY <1>1
  <2> QED BY <1>1, <2>1, <2>2, <2>3, <2>4 DEF LedgerType
<1>4. ledger \in Seq(Entry) /\ Len(ledger) = 0 /\ clock \in Nat
  BY <1>1
<1>5. Aging
  <2>1. Descending(ledger)
    BY <1>4 DEF Descending
  <2>2. 0 - 0 <= MaxIdle
    BY Sizes
  <2> QED BY <2>1, <2>2, <1>1, <1>4 DEF Aging
<1>6. ASSUME NEW age \in Int PROVE Younger(ledger, age) = 0
  <2>1. Cut(ledger, age, 0)
    BY <1>4 DEF Cut
  <2>2. Younger(ledger, age) = Total(ledger)[0] - Total(ledger)[0]
    BY <2>1, <1>4, YoungerIs
  <2>3. Total(ledger)[0] = 0
    BY <1>4, AirsIn
  <2> QED BY <2>2, <2>3
<1>7. 0 \in 0..(Window + Slot) /\ 0..Window \subseteq 0..(Window + Slot) /\ 0..Window \subseteq Int
      /\ \A k \in 0..Window : k + Slot \in 0..(Window + Slot)
  BY <1>4, Stretches, Sizes
<1>8. Remembered
  <2>1. \A k \in 0..(Window + Slot) : \A j \in 0..k : j \in 0..(Window + Slot)
    BY Sizes
  <2> QED BY <2>1, <1>2, <1>7 DEF Remembered
<1>9. Under
  BY <1>2, <1>6, <1>7 DEF Under
<1>10. Over
  <2>1. (clock % Slot) + 1 \in 0..(Window + Slot) /\ (clock % Slot) + 1 \in Int
    BY <1>4, Stretches, Sizes
  <2> QED BY <2>1, <1>2, <1>6, <1>7 DEF Over
<1>11. OneASlot
  BY <1>4 DEF OneASlot, Spread
<1>12. WindowBound
  <2>1. sent[Window].air = 0 /\ OnAir = 0
    BY <1>1, <1>2, Sizes DEF OnAir
  <2> QED BY <2>1, Sizes DEF WindowBound, InWindow
<1>13. Waiting
  BY <1>1 DEF Waiting
<1> QED BY <1>3, <1>5, <1>8, <1>9, <1>10, <1>11, <1>12, <1>13 DEF LedgerProofInv

LEMMA LedgerStep == LedgerProofInv /\ [LedgerNext]_ledgerVars => LedgerProofInv'
<1> SUFFICES ASSUME LedgerProofInv, [LedgerNext]_ledgerVars PROVE LedgerProofInv'
  OBVIOUS
<1>1. ASSUME NEW a \in Airs, Admit(a) PROVE LedgerProofInv'
  BY <1>1, AdmitStep
<1>2. ASSUME NEW a \in Airs, Refuse(a) PROVE LedgerProofInv'
  BY <1>2, RefuseStep
<1>3. CASE Charge
  BY <1>3, ChargeStep
<1>4. CASE Abandon
  BY <1>4, AbandonStep
<1>5. CASE LedgerTick
  BY <1>5, TickStep
<1>6. CASE UNCHANGED ledgerVars
  BY <1>6, LedgerStutter
<1> QED BY <1>1, <1>2, <1>3, <1>4, <1>5, <1>6 DEF LedgerNext

\* The ledger of app_radio.c keeps its invariant through every admission, charge and tick.
THEOREM LedgerInvariant == LedgerSpec => []LedgerProofInv
BY LedgerStarts, LedgerStep, PTL DEF LedgerSpec

\* The wait a frame was told ends when the entry it waits for leaves.
LEMMA WaitEndsInTime ==
  ASSUME LedgerProofInv
  PROVE  OneWaitIsExact
<1> SUFFICES ASSUME held # <<>>
             PROVE  Wait(Expire(ledger), held[1].air) = 0 <=> clock >= held[1].until
  BY DEF OneWaitIsExact
<1> USE DEF LedgerProofInv
<1> DEFINE a == held[1].air
           until == held[1].until
           s == ledger
           n == Len(s)
           u == Expire(ledger)
<1>1. PICK f \in 1..n : WaitsFor(a, until, f)
  BY DEF Waiting
<1>2. Budget # 0 /\ clock \in Nat /\ s \in Seq(Entry) /\ n \in Nat /\ Descending(s)
  BY AirsIn DEF Waiting, LedgerType, Entry, Aging
<1>3. a \in Nat \ {0}
  <2>1. held \in Seq([until : Nat, air : Airs])
    BY DEF LedgerType
  <2>2. held[1] \in [until : Nat, air : Airs]
    <3> DEFINE Holds == [until : Nat, air : Airs]
    <3> HIDE DEF Holds
    <3>1. held \in Seq(Holds)
      BY <2>1 DEF Holds
    <3>2. Len(held) \in Nat /\ Len(held) # 0
      BY <3>1
    <3>3. held[1] \in Holds
      BY <3>1, <3>2
    <3> QED BY <3>3 DEF Holds
  <2> QED BY <2>2, Sizes
<1>4. PICK m \in 0..n : Cut(s, Window, m)
  BY <1>2, CutExists, Sizes
<1>5. /\ u \in Seq(Entry) /\ Len(u) = n - m
      /\ \A i \in 0..Len(u) : Total(u)[i] = Total(s)[m + i] - Total(s)[m]
      /\ \A i \in 1..Len(u) : Age(u[i]) < Window
  BY <1>2, <1>4, ExpireIs, ExpireKeeps
<1> HIDE DEF a, until, u
<1>6. Wait(u, a) = 0 <=> (Total(u)[n - m] + a <= Budget \/ m = n)
  <2>1. Wait(u, a) = 0 <=> (Budget = 0 \/ Total(u)[Len(u)] + a <= Budget \/ u = <<>>)
    BY <1>2, <1>3, <1>5, WaitIs
  <2>2. u = <<>> <=> m = n
    <3>1. u = <<>> <=> Len(u) = 0
      BY <1>5
    <3> QED BY <3>1, <1>2, <1>4, <1>5
  <2> QED BY <2>1, <2>2, <1>2, <1>5
<1>7. /\ \A i \in 0..n : Total(s)[i] \in Nat
      /\ \A i \in 0..n : \A j \in 0..i : Total(s)[j] <= Total(s)[i]
      /\ n \in 0..n /\ m \in 0..n
  BY <1>2, <1>4, AirsIn
<1>8. Total(u)[n - m] = Total(s)[n] - Total(s)[m]
  <2>1. n - m \in 0..Len(u) /\ m + (n - m) = n
    BY <1>2, <1>4, <1>5
  <2> QED BY <2>1, <1>5
<1>9. Wait(u, a) = 0 <=> (Total(s)[m] >= (Total(s)[n] + a) - Budget \/ m = n)
  <2> DEFINE x == Total(s)[m]
             y == Total(s)[n]
  <2>1. x \in Nat /\ y \in Nat
    BY <1>7
  <2>2. Total(u)[n - m] = y - x
    BY <1>8
  <2> HIDE DEF x, y
  <2>3. Total(u)[n - m] + a <= Budget <=> x >= (y + a) - Budget
    BY <2>1, <2>2, <1>3, Sizes
  <2> QED BY <2>3, <1>6 DEF x, y
<1>10. clock >= until <=> f <= m
  <2>1. until = (clock - Age(s[f])) + Window /\ Age(s[f]) \in Nat
    BY <1>1, <1>2, AirsIn, AgeIs DEF WaitsFor
  <2>2. clock >= until <=> Age(s[f]) >= Window
    BY <2>1, <1>2, Sizes
  <2>3. CASE f <= m
    <3>1. f \in 1..m
      BY <2>3, <1>4
    <3> QED BY <3>1, <2>2, <2>3, <1>4 DEF Cut
  <2>4. CASE ~(f <= m)
    <3>1. f \in (m + 1)..n
      BY <2>4, <1>2, <1>4
    <3>2. Age(s[f]) < Window
      BY <3>1, <1>4 DEF Cut
    <3> QED BY <3>2, <2>1, <2>2, <2>4, Sizes
  <2> QED BY <2>3, <2>4
<1> DEFINE over == (Total(s)[n] + a) - Budget
<1>11. /\ f = n \/ Total(s)[f] >= over
       /\ \A j \in 0..(f - 1) : Total(s)[j] < over
       /\ over \in Int
  <2>1. over \in Int
    BY <1>3, <1>7, Sizes
  <2> QED BY <2>1, <1>1 DEF WaitsFor
<1> HIDE DEF over
<1>12. CASE f <= m
  <2>1. f = n => m = n
    BY <1>12, <1>2, <1>4
  <2>2. Total(s)[f] <= Total(s)[m] /\ Total(s)[f] \in Nat /\ Total(s)[m] \in Nat
    <3>1. f \in 0..m /\ f \in 0..n
      BY <1>12, <1>4, <1>2
    <3> QED BY <3>1, <1>7
  <2>3. Total(s)[f] >= over => Total(s)[m] >= over
    BY <2>2, <1>11
  <2>4. Total(s)[m] >= over \/ m = n
    BY <2>1, <2>3, <1>11
  <2>5. Wait(u, a) = 0
    BY <2>4, <1>9 DEF over
  <2> QED BY <2>5, <1>10, <1>12 DEF u, a, until
<1>13. CASE ~(f <= m)
  <2>1. m \in 0..(f - 1) /\ m # n
    BY <1>13, <1>2, <1>4
  <2>2. Total(s)[m] < over /\ Total(s)[m] \in Nat
    BY <2>1, <1>7, <1>11
  <2>3. ~(Total(s)[m] >= over)
    BY <2>2, <1>11
  <2>4. ~(Wait(u, a) = 0)
    BY <2>1, <2>3, <1>9 DEF over
  <2> QED BY <2>4, <1>10, <1>13 DEF u, a, until
<1> QED BY <1>12, <1>13

LEMMA LedgerInvHolds == LedgerProofInv => LedgerInv
<1> SUFFICES ASSUME LedgerProofInv PROVE LedgerInv
  OBVIOUS
<1> USE DEF LedgerProofInv
<1>1. Window \in 0..Window
  BY Sizes
<1>2. NeverUndercounts
  <2>1. sent[Window].air <= Younger(ledger, Window)
    BY <1>1 DEF Under
  <2>2. sent[Window].air \in Nat /\ Younger(ledger, Window) \in Nat
    <3>1. Window \in 0..(Window + Slot) /\ Window \in Int
      BY Sizes
    <3>2. clock \in Nat /\ ledger \in Seq(Entry) /\ Descending(ledger)
      BY DEF LedgerType, Entry, Aging
    <3> QED BY <3>1, <3>2, SentIs, YoungerNat
  <2> QED BY <2>1, <2>2 DEF NeverUndercounts, UsedAir, InWindow
<1>3. OvercountsByASlot
  BY <1>1 DEF Over, OvercountsByASlot, UsedAir
<1>4. OneWaitIsExact
  BY WaitEndsInTime
<1> QED BY <1>2, <1>3, <1>4 DEF LedgerInv

\* The legal limit and the exactness of the account, for every window, slot,
\* allowance and wrap (app_radio.c: "EVERY sliding one-hour window stays within
\* it"): no transmission breaks the allowance of any trailing window, coalescing
\* and folding only over-count, by a slot at most, and one wait is enough.
THEOREM LedgerIsExact == LedgerSpec => []LedgerInv
BY LedgerInvariant, LedgerInvHolds, PTL

-----------------------------------------------------------------------------
(* The ledger: it implements the exact record *)

\* What the exact record remembers.
Past == [k \in 0..Window |-> sent[k]]

LEMMA PastShifts ==
  ASSUME LedgerType
  PROVE  /\ DOMAIN Past = 0..Window /\ 0..Window \subseteq DOMAIN sent
         /\ \A k \in 0..Window : Past[k] = sent[k] /\ (k # 0 => k - 1 \in 0..Window)
         /\ Past[Window] = sent[Window]
<1>1. DOMAIN sent = 0..(Window + Slot)
  BY DEF LedgerType
<1>2. 0..Window \subseteq 0..(Window + Slot) /\ Window \in 0..Window
  BY Sizes
<1>3. \A k \in 0..Window : k # 0 => k - 1 \in 0..Window
  BY Sizes
<1> QED BY <1>1, <1>2, <1>3 DEF Past

LEMMA AllowanceStarts == LedgerInit => Allowance!AllowanceInit
<1> SUFFICES ASSUME LedgerInit PROVE Allowance!AllowanceInit
  OBVIOUS
<1>1. clock = 0 /\ flight = <<>> /\ sent = [k \in 0..(Window + Slot) |-> [air |-> 0, frames |-> 0]]
  BY DEF LedgerInit
<1>2. 0..Window \subseteq 0..(Window + Slot)
  BY Sizes
<1>3. [k \in 0..Window |-> sent[k]] = [k \in 0..Window |-> [air |-> 0, frames |-> 0]]
  BY <1>1, <1>2
<1> QED BY <1>1, <1>3 DEF Allowance!AllowanceInit

\* Each step of the ledger is one of the allowance, or none: a refusal only tidies the ledger.
LEMMA AllowanceStep ==
  LedgerProofInv /\ [LedgerNext]_ledgerVars
    => [Allowance!AllowanceNext]_Allowance!allowanceVars
<1> SUFFICES ASSUME LedgerProofInv, [LedgerNext]_ledgerVars
             PROVE  Allowance!AllowanceNext \/ UNCHANGED Allowance!allowanceVars
  OBVIOUS
<1> USE DEF LedgerProofInv
<1>1. /\ DOMAIN Past = 0..Window /\ 0..Window \subseteq DOMAIN sent
      /\ \A k \in 0..Window : Past[k] = sent[k] /\ (k # 0 => k - 1 \in 0..Window)
      /\ Past[Window] = sent[Window]
  BY PastShifts
<1>2. Past = [k \in 0..Window |-> sent[k]] /\ Past' = [k \in 0..Window |-> sent'[k]]
  BY DEF Past
<1>3. sent' = sent => Past' = Past
  BY <1>2
<1>4. ASSUME NEW a \in Airs, Admit(a) PROVE Allowance!AllowanceNext
  <2>1. /\ flight = <<>> /\ ledger' = Expire(ledger) /\ Wait(ledger', a) = 0
        /\ flight' = <<[start |-> clock, air |-> a]>> /\ clock' = clock /\ sent' = sent
    BY <1>4 DEF Admit
  <2>2. Budget = 0 \/ sent[Window].air + a <= Budget \/ sent[Window].frames = 0
    <3>1. /\ ledger' \in Seq(Entry) /\ \A i \in 1..Len(ledger') : Age(ledger'[i]) < Window
      BY <2>1, Expired
    <3>2. clock \in Nat /\ a \in Nat \ {0}
      BY Sizes DEF LedgerType
    <3>3. Budget = 0 \/ Total(ledger')[Len(ledger')] + a <= Budget \/ ledger' = <<>>
      BY <3>1, <3>2, <2>1, WaitIs
    <3>4. /\ sent[Window].air <= Total(ledger')[Len(ledger')]
          /\ sent[Window].air \in Nat /\ Total(ledger')[Len(ledger')] \in Nat
      BY <2>1, WindowIsHeld
    <3>5. CASE Total(ledger')[Len(ledger')] + a <= Budget
      BY <3>2, <3>4, <3>5, Sizes
    <3>6. CASE ledger' = <<>>
      <4>1. Total(ledger')[Len(ledger')] = 0
        BY <3>1, <3>6, AirsIn
      <4>2. sent[Window].air = 0
        BY <3>4, <4>1
      <4> QED BY <4>2, <3>2, Stretches DEF Remembered
    <3> QED BY <3>3, <3>5, <3>6
  <2>3. Allowance!Send(a)
    BY <2>1, <2>2, <1>1, <1>2, <1>3 DEF Allowance!Send, Past
  <2> QED BY <2>3 DEF Allowance!AllowanceNext
<1>5. ASSUME NEW a \in Airs, Refuse(a) PROVE UNCHANGED Allowance!allowanceVars
  BY <1>5 DEF Refuse, Allowance!allowanceVars
<1>6. CASE Charge
  <2>1. /\ flight # <<>> /\ clock >= flight[1].start + flight[1].air
        /\ sent' = [k \in DOMAIN sent |->
                IF k = 0 THEN sent[k]
                ELSE [air |-> sent[k].air + flight[1].air, frames |-> sent[k].frames + 1]]
        /\ flight' = <<>> /\ clock' = clock
    BY <1>6 DEF Charge
  <2>2. Past' = [k \in DOMAIN Past |->
                IF k = 0 THEN Past[k]
                ELSE [air |-> Past[k].air + flight[1].air, frames |-> Past[k].frames + 1]]
    BY <2>1, <1>1, <1>2
  <2>3. Allowance!Sent
    BY <2>1, <2>2 DEF Allowance!Sent, Past
  <2> QED BY <2>3 DEF Allowance!AllowanceNext
<1>7. CASE Abandon
  <2>1. /\ flight # <<>> /\ clock = flight[1].start /\ flight' = <<>> /\ clock' = clock /\ sent' = sent
    BY <1>7 DEF Abandon
  <2>2. Allowance!GivenUp
    BY <2>1 DEF Allowance!GivenUp
  <2> QED BY <2>2 DEF Allowance!AllowanceNext
<1>8. CASE LedgerTick
  <2>1. /\ clock' = clock + 1 /\ flight' = flight
        /\ sent' = [k \in DOMAIN sent |-> IF k = 0 THEN sent[k] ELSE sent[k - 1]]
    BY <1>8 DEF LedgerTick
  <2>2. Past' = [k \in DOMAIN Past |-> IF k = 0 THEN Past[k] ELSE Past[k - 1]]
    BY <2>1, <1>1, <1>2
  <2>3. Allowance!Passes
    BY <2>1, <2>2 DEF Allowance!Passes, Past
  <2> QED BY <2>3 DEF Allowance!AllowanceNext
<1>9. CASE UNCHANGED ledgerVars
  BY <1>9 DEF ledgerVars, Allowance!allowanceVars
<1> QED BY <1>4, <1>5, <1>6, <1>7, <1>8, <1>9 DEF LedgerNext

\* Coalesced, folded and on a clock that wraps, the ledger admits a frame only
\* when the exact record of the window would: it implements AirAllowance.
THEOREM LedgerImplementsAllowance == LedgerSpec => ImplementsAllowance
<1>1. LedgerSpec => []LedgerProofInv
  BY LedgerInvariant
<1> QED BY <1>1, AllowanceStarts, AllowanceStep, PTL DEF LedgerSpec, ImplementsAllowance, Allowance!AllowanceSpec

-----------------------------------------------------------------------------
(* The gate, for every set of threads and every pair of caps *)

USE DEF MayBlock, WaitEnds, WakeAll

\* Where a thread can be: a writer never waits while it writes, the radio
\* queue does not wait while its exchange runs or while it writes.
Places ==
  /\ writing \cap waiting = {}
  /\ Radio \in waiting => ~onAir

\* The inductive invariant: the counters are cardinalities, and an overlap of
\* a write and an exchange has its excuse on record.
GateInv == GateType /\ Places /\ CountersMatchThreads /\ OverlapIsExcused

\* The sets of threads are finite, so their cardinalities count one by one.
LEMMA ThreadSetsFinite ==
  ASSUME GateType
  PROVE  IsFiniteSet(writing) /\ IsFiniteSet(waiting \ {Radio})
<1>1. writing \subseteq Writers /\ waiting \ {Radio} \subseteq Writers
  BY RadioNeverWaitsToWrite DEF GateType
<1> QED BY <1>1, WritersFinite, FS_Subset

LEMMA CountAdds ==
  ASSUME NEW S, IsFiniteSet(S), NEW t, t \notin S
  PROVE  Cardinality(S \cup {t}) = Cardinality(S) + 1
BY FS_AddElement

LEMMA CountRemoves ==
  ASSUME NEW S, IsFiniteSet(S), NEW t, t \in S
  PROVE  Cardinality(S \ {t}) = Cardinality(S) - 1
BY FS_RemoveElement

LEMMA CountIsNat ==
  ASSUME NEW S, IsFiniteSet(S)
  PROVE  Cardinality(S) \in Nat /\ (Cardinality(S) = 0 <=> S = {})
BY FS_CardinalityType, FS_EmptySet

LEMMA InitGate == GateInit => GateInv
<1> SUFFICES ASSUME GateInit PROVE GateInv
  OBVIOUS
<1>1. GateType
  BY DEF GateInit, GateType, Starts
<1>2. Cardinality({}) = 0
  BY FS_EmptySet
<1>3. {} \ {Radio} = {}
  OBVIOUS
<1> QED BY <1>1, <1>2, <1>3 DEF GateInit, GateInv, Places, CountersMatchThreads, OverlapIsExcused

LEMMA GateStep == GateInv /\ [GateNext]_gateVars => GateInv'
<1> SUFFICES ASSUME GateInv, [GateNext]_gateVars PROVE GateInv'
  OBVIOUS
<1>fin. IsFiniteSet(writing) /\ IsFiniteSet(waiting \ {Radio})
  BY ThreadSetsFinite DEF GateInv
<1>nat. /\ Cardinality(writing) \in Nat
        /\ Cardinality(waiting \ {Radio}) \in Nat
        /\ Cardinality(writing) = 0 <=> writing = {}
        /\ Cardinality(waiting \ {Radio}) = 0 <=> waiting \ {Radio} = {}
  BY <1>fin, CountIsNat
<1>con. Radio \in Writers /\ MayWait \subseteq Writers /\ Radio \notin MayWait
  BY RadioNeverWaitsToWrite
<1>cap. FlashWaitAirMax \in Nat /\ AirWaitFlashMax \in Nat
  BY CapsArePositive
<1> USE DEF GateInv
<1>1. ASSUME NEW w \in Writers, FlashHold(w) PROVE GateInv'
  <2>1. GateType'
    BY <1>1, <1>con DEF FlashHold, GateType, Starts
  <2>2. Places'
    BY <1>1 DEF FlashHold, Places, GateType
  <2>3. Cardinality(writing') = Cardinality(writing) + 1
    BY <1>1, <1>fin, CountAdds DEF FlashHold
  <2>4. CountersMatchThreads'
    BY <1>1, <2>3 DEF FlashHold, CountersMatchThreads
  <2>5. OverlapIsExcused'
    BY <1>1 DEF FlashHold, OverlapIsExcused, GateType
  <2> QED BY <2>1, <2>2, <2>4, <2>5
<1>2. ASSUME NEW w \in Writers, FlashHoldWaits(w) PROVE GateInv'
  <2>1. GateType'
    BY <1>2, <1>con, <1>cap DEF FlashHoldWaits, GateType
  <2>2. Places'
    BY <1>2, <1>con DEF FlashHoldWaits, Places
  <2>3. waiting' \ {Radio} = (waiting \ {Radio}) \cup {w} /\ w \notin waiting \ {Radio}
    BY <1>2, <1>con DEF FlashHoldWaits
  <2>4. CountersMatchThreads'
    BY <1>2, <2>3, <1>fin, CountAdds DEF FlashHoldWaits, CountersMatchThreads
  <2>5. OverlapIsExcused'
    BY <1>2 DEF FlashHoldWaits, OverlapIsExcused
  <2> QED BY <2>1, <2>2, <2>4, <2>5
<1>3. ASSUME NEW w \in Writers, FlashHoldProceeds(w) PROVE GateInv'
  <2>0. w # Radio /\ w \in waiting /\ w \notin writing
    BY <1>3 DEF FlashHoldProceeds, Runs, Places
  <2>1. /\ waiting' \ {Radio} = (waiting \ {Radio}) \ {w}
        /\ w \in waiting \ {Radio}
    BY <1>3, <2>0 DEF FlashHoldProceeds
  <2>2. /\ Cardinality(waiting' \ {Radio}) = Cardinality(waiting \ {Radio}) - 1
        /\ Cardinality(writing') = Cardinality(writing) + 1
        /\ Cardinality(waiting \ {Radio}) # 0
    BY <1>3, <2>0, <2>1, <1>fin, <1>nat, CountAdds, CountRemoves DEF FlashHoldProceeds
  <2>3. GateType'
    BY <1>3, <2>2, <1>nat DEF FlashHoldProceeds, GateType, Starts, CountersMatchThreads
  <2>4. Places'
    BY <1>3, <2>0 DEF FlashHoldProceeds, Places
  <2>5. CountersMatchThreads'
    BY <1>3, <2>2 DEF FlashHoldProceeds, CountersMatchThreads
  <2>6. OverlapIsExcused'
    BY <1>3 DEF FlashHoldProceeds, OverlapIsExcused, GateType
  <2> QED BY <2>3, <2>4, <2>5, <2>6
<1>4. ASSUME NEW w \in Writers, FlashHoldWaitsAgain(w) PROVE GateInv'
  BY <1>4 DEF FlashHoldWaitsAgain, GateType, Places, CountersMatchThreads, OverlapIsExcused
<1>5. ASSUME NEW w \in Writers, FlashRelease(w) PROVE GateInv'
  <2>1. /\ Cardinality(writing') = Cardinality(writing) - 1
        /\ Cardinality(writing) # 0
    BY <1>5, <1>fin, <1>nat, CountRemoves DEF FlashRelease
  <2>2. flashWriters' = flashWriters - 1 /\ flashWriters - 1 \in Nat
    BY <1>5, <2>1, <1>nat DEF FlashRelease, CountersMatchThreads, GateType
  <2>3. GateType'
    BY <1>5, <2>2 DEF FlashRelease, GateType
  <2>4. Places'
    BY <1>5 DEF FlashRelease, Places
  <2>5. CountersMatchThreads'
    BY <1>5, <2>1, <2>2 DEF FlashRelease, CountersMatchThreads
  <2>6. OverlapIsExcused'
    BY <1>5 DEF FlashRelease, OverlapIsExcused
  <2> QED BY <2>3, <2>4, <2>5, <2>6
<1>6. CASE AirBegin
  <2>1. writing = {}
    BY <1>6, <1>nat DEF AirBegin, FlashIdle, CountersMatchThreads
  <2>2. GateType'
    BY <1>6 DEF AirBegin, GateType, Starts
  <2> QED BY <1>6, <2>1, <2>2 DEF AirBegin, RadioFree, Places, CountersMatchThreads, OverlapIsExcused
<1>7. CASE AirBeginWaits
  <2>1. GateType'
    BY <1>7, <1>con, <1>cap DEF AirBeginWaits, GateType
  <2>2. waiting' \ {Radio} = waiting \ {Radio}
    BY <1>7 DEF AirBeginWaits
  <2> QED BY <1>7, <2>1, <2>2 DEF AirBeginWaits, RadioFree, Places, CountersMatchThreads, OverlapIsExcused
<1>8. CASE AirBeginProceeds
  <2>1. GateType'
    BY <1>8 DEF AirBeginProceeds, GateType, Starts
  <2>2. Places' /\ waiting' \ {Radio} = waiting \ {Radio}
    BY <1>8 DEF AirBeginProceeds, Places
  <2>3. CountersMatchThreads'
    BY <1>8, <2>2 DEF AirBeginProceeds, CountersMatchThreads
  <2>4. OverlapIsExcused'
    <3>1. CASE FlashIdle
      BY <1>8, <3>1, <1>nat DEF AirBeginProceeds, FlashIdle, CountersMatchThreads, OverlapIsExcused
    <3>2. CASE ~FlashIdle
      BY <1>8, <3>2 DEF AirBeginProceeds, OverlapIsExcused, GateType
    <3> QED BY <3>1, <3>2
  <2> QED BY <2>1, <2>2, <2>3, <2>4
<1>9. CASE AirBeginWaitsAgain
  BY <1>9 DEF AirBeginWaitsAgain, GateType, Places, CountersMatchThreads, OverlapIsExcused
<1>10. CASE AirEnd
  BY <1>10 DEF AirEnd, GateType, Places, CountersMatchThreads, OverlapIsExcused
<1>11. CASE GateTick
  <2>1. left' \in [Writers -> Nat]
    BY <1>11 DEF GateTick, GateType
  <2> QED BY <1>11, <2>1 DEF GateTick, GateType, Places, CountersMatchThreads, OverlapIsExcused
<1>12. CASE UNCHANGED gateVars
  BY <1>12 DEF gateVars, GateType, Places, CountersMatchThreads, OverlapIsExcused
<1> QED
  BY <1>1, <1>2, <1>3, <1>4, <1>5, <1>6, <1>7, <1>8, <1>9, <1>10, <1>11, <1>12 DEF GateNext

\* The gate's state is always well typed and its inductive invariant holds.
THEOREM GateInvariant == GateSpec => []GateInv
BY InitGate, GateStep, PTL DEF GateSpec

\* For any set of threads and any caps, the counters the waits test
\* (m_flash_writers, m_flash_waiting) are the threads that write and wait.
THEOREM CountersAlwaysMatch == GateSpec => []CountersMatchThreads
<1>1. GateInv => CountersMatchThreads
  BY DEF GateInv
<1> QED BY <1>1, GateInvariant, PTL

\* For any set of threads and any caps, a flash write falls inside an exchange
\* only after a cap ran out or from a thread that may not wait.
THEOREM OverlapAlwaysExcused == GateSpec => []OverlapIsExcused
<1>1. GateInv => OverlapIsExcused
  BY DEF GateInv
<1> QED BY <1>1, GateInvariant, PTL

\* NoLostWakeup is inductive on its own once the counters are right.
LEMMA WakeupStep == GateInv /\ NoLostWakeup /\ [GateNext]_gateVars => NoLostWakeup'
<1> SUFFICES ASSUME GateInv, NoLostWakeup, [GateNext]_gateVars PROVE NoLostWakeup'
  OBVIOUS
<1> USE DEF GateInv, NoLostWakeup
<1>1. ASSUME NEW w \in Writers, FlashHold(w) PROVE NoLostWakeup'
  BY <1>1 DEF FlashHold, FlashIdle, GateType
<1>2. ASSUME NEW w \in Writers, FlashHoldWaits(w) PROVE NoLostWakeup'
  BY <1>2, RadioNeverWaitsToWrite DEF FlashHoldWaits, FlashIdle, GateType
<1>3. ASSUME NEW w \in Writers, FlashHoldProceeds(w) PROVE NoLostWakeup'
  BY <1>3 DEF FlashHoldProceeds, FlashIdle, GateType
<1>4. ASSUME NEW w \in Writers, FlashHoldWaitsAgain(w) PROVE NoLostWakeup'
  BY <1>4 DEF FlashHoldWaitsAgain, FlashIdle
<1>5. ASSUME NEW w \in Writers, FlashRelease(w) PROVE NoLostWakeup'
  BY <1>5 DEF FlashRelease
<1>6. CASE AirBegin
  BY <1>6 DEF AirBegin, RadioFree
<1>7. CASE AirBeginWaits
  BY <1>7 DEF AirBeginWaits, FlashIdle
<1>8. CASE AirBeginProceeds
  BY <1>8 DEF AirBeginProceeds
<1>9. CASE AirBeginWaitsAgain
  BY <1>9 DEF AirBeginWaitsAgain, FlashIdle
<1>10. CASE AirEnd
  BY <1>10 DEF AirEnd
<1>11. CASE GateTick
  BY <1>11 DEF GateTick, FlashIdle
<1>12. CASE UNCHANGED gateVars
  BY <1>12 DEF gateVars, FlashIdle
<1> QED
  BY <1>1, <1>2, <1>3, <1>4, <1>5, <1>6, <1>7, <1>8, <1>9, <1>10, <1>11, <1>12 DEF GateNext

\* For any set of threads and any caps, whoever waits for a condition that
\* already holds has been broadcast to: no wait decays into its cap.
THEOREM NoWakeupEverLost == GateSpec => []NoLostWakeup
<1>1. GateInit => NoLostWakeup
  BY DEF GateInit, NoLostWakeup
<1> QED BY <1>1, GateInvariant, WakeupStep, PTL DEF GateSpec

\* For any set of threads and any caps, an exchange starts over a writer that
\* writes or waits only after AIR_WAIT_FLASH_MAX_MS.
THEOREM ExchangeAlwaysYields == GateSpec => ExchangeYieldsToWriters
<1>1. GateInv /\ [GateNext]_gateVars
      => [~onAir /\ onAir' /\ (writing \cup waiting) \ {Radio} # {}
          => airBegan' = "capped"]_gateVars
  <2> SUFFICES ASSUME GateInv, [GateNext]_gateVars, ~onAir, onAir',
                      (writing \cup waiting) \ {Radio} # {}
               PROVE  airBegan' = "capped"
    OBVIOUS
  <2>1. ~FlashIdle
    <3>1. IsFiniteSet(writing) /\ IsFiniteSet(waiting \ {Radio})
      BY ThreadSetsFinite DEF GateInv
    <3>2. Cardinality(writing) # 0 \/ Cardinality(waiting \ {Radio}) # 0
      BY <3>1, CountIsNat
    <3> QED BY <3>2 DEF GateInv, CountersMatchThreads, FlashIdle
  <2>2. AirBeginProceeds
    BY <2>1 DEF GateNext, gateVars, FlashHold, FlashHoldWaits, FlashHoldProceeds, FlashHoldWaitsAgain,
                FlashRelease, AirBegin, AirBeginWaits, AirBeginWaitsAgain, AirEnd, GateTick
  <2> QED BY <2>1, <2>2 DEF AirBeginProceeds
<1> QED BY <1>1, GateInvariant, PTL DEF GateSpec, ExchangeYieldsToWriters

\* For any set of threads and any caps: everything the runs check of the gate as an invariant.
THEOREM GateIsSafe == GateSpec => []GateSafety
<1>1. GateInv => GateType /\ CountersMatchThreads /\ OverlapIsExcused
  BY DEF GateInv
<1>2. GateType /\ CountersMatchThreads /\ OverlapIsExcused /\ NoLostWakeup => GateSafety
  BY DEF GateSafety
<1> QED BY <1>1, <1>2, GateInvariant, NoWakeupEverLost, PTL

-----------------------------------------------------------------------------
(* The session, for every reservation size, counter width and set of plaintexts: *)
(* the inductive invariant SessionInv, and from it the uniqueness of the CCM     *)
(* nonce and what a reset resumes from                                           *)

\* The reservation in RAM is the one in the flash, and covers the counter.
Reservation(n, r) == r.reserved = n.base /\ r.fcnt <= r.reserved /\ r.reserved # 1

ReservationHolds == Reservation(nvs, ram)

NonceMirrored == ram.nonce = nvs.nonce

\* The counter of the running session is above everything it sealed.
UsedBelow ==
  ram.link = "PAIRED" => \A e \in sealed : e.key = ram.key => e.counter < ram.fcnt

\* Every key was made by an attempt whose number is spent.
KeysAreSpent ==
  /\ nvs.state.key # 0 => nvs.state.key < nvs.nonce
  /\ \A e \in sealed : e.key < nvs.nonce

RetxIsSealed ==
  ram.link = "PAIRED" /\ ram.retx.text # NoText
    => Frame(ram.key, ram.retx.counter, ram.retx.text) \in sealed

LaneBelow == lane # 0 => lane < ram.fcnt

SessionInv ==
  /\ SessionType
  /\ ReservationHolds
  /\ NonceMirrored
  /\ UsedBelow
  /\ KeysAreSpent
  /\ RetxIsSealed
  /\ LaneBelow
  /\ NonceUnique
  /\ AttemptsAreSpent
  /\ PairedIsDurable
  /\ ResumesAbove

USE ReserveAssumption, CounterAssumption, ModulationAssumption, TextAssumption, NonceAssumption

NvsType == [base : Counters, nonce : Nat, state : [key : Nat, modulation : {Lora, Fsk}]]
RamType ==
  [fcnt : Counters, reserved : Counters, nonce : Nat, key : Nat,
   link : {"UNPAIRED", "JOINING", "PAIRED"},
   retx : [text : Texts \union {NoText}, counter : Counters]]

\* What a counter taken leaves: only the counter and its reservation move, a
\* refusal moves nothing, and a counter given is fresh.
LEMMA TakeFacts ==
  ASSUME NEW n \in NvsType, NEW r \in RamType, Reservation(n, r), NEW o \in Take(n, r)
  PROVE  /\ o.nvs \in NvsType /\ o.ram \in RamType /\ o.counter \in Counters
         /\ Reservation(o.nvs, o.ram)
         /\ o.nvs.state = n.state /\ o.nvs.nonce = n.nonce /\ o.nvs.base >= n.base
         /\ o.ram.key = r.key /\ o.ram.link = r.link /\ o.ram.nonce = r.nonce
         /\ o.ram.retx = r.retx
         /\ o.counter = 0 => o.nvs = n /\ o.ram = r
         /\ o.counter # 0 => /\ r.fcnt <= o.counter /\ o.ram.fcnt = o.counter + 1
                             /\ o.counter \in 1..(MaxCounter - 1)
<1> DEFINE h == HighWater(r.fcnt)
<1>1. /\ r.fcnt \in 0..MaxCounter /\ r.reserved \in 0..MaxCounter /\ n.base \in 0..MaxCounter
      /\ r.reserved = n.base /\ r.fcnt <= r.reserved /\ r.reserved # 1
  BY DEF NvsType, RamType, Reservation, Counters
<1>2. CASE o = Refused(n, r)
  BY <1>1, <1>2 DEF Refused, NvsType, RamType, Counters
<1>3. CASE r.fcnt # MaxCounter /\ r.fcnt < r.reserved /\ o = Given(n, r)
  <2>1. FirstFree(r.fcnt) + 1 \in 0..MaxCounter /\ FirstFree(r.fcnt) + 1 <= r.reserved
        /\ FirstFree(r.fcnt) >= r.fcnt /\ FirstFree(r.fcnt) \in 1..(MaxCounter - 1)
    BY <1>1, <1>3 DEF FirstFree
  <2>2. o.nvs = n /\ o.counter = FirstFree(r.fcnt)
        /\ o.ram = [r EXCEPT !.fcnt = FirstFree(r.fcnt) + 1]
    BY <1>3 DEF Given
  <2> QED BY <1>1, <2>1, <2>2 DEF NvsType, RamType, Counters, Reservation
<1>4. CASE /\ r.fcnt # MaxCounter /\ ~(r.fcnt < r.reserved)
           /\ o = Given(SaveBase(n, h), [r EXCEPT !.reserved = h])
  <2>1. h \in 0..MaxCounter /\ h >= r.fcnt + 1 /\ (r.fcnt = 0 => h >= 2) /\ h >= n.base /\ h # 1
    BY <1>1, <1>4 DEF HighWater
  <2>2. FirstFree(r.fcnt) + 1 \in 0..MaxCounter /\ FirstFree(r.fcnt) + 1 <= h
        /\ FirstFree(r.fcnt) >= r.fcnt /\ FirstFree(r.fcnt) \in 1..(MaxCounter - 1)
    BY <1>1, <2>1 DEF FirstFree
  <2>3. o.nvs = [n EXCEPT !.base = h] /\ o.counter = FirstFree(r.fcnt)
        /\ o.ram = [r EXCEPT !.reserved = h, !.fcnt = FirstFree(r.fcnt) + 1]
    BY <1>4 DEF Given, SaveBase, RamType
  <2> HIDE DEF h
  <2>4. o.nvs \in NvsType /\ o.nvs.state = n.state /\ o.nvs.nonce = n.nonce /\ o.nvs.base = h
    BY <2>1, <2>3 DEF NvsType, Counters
  <2>5. /\ o.ram \in RamType /\ o.ram.key = r.key /\ o.ram.link = r.link
        /\ o.ram.nonce = r.nonce /\ o.ram.retx = r.retx
        /\ o.ram.reserved = h /\ o.ram.fcnt = FirstFree(r.fcnt) + 1
    BY <2>1, <2>2, <2>3 DEF RamType, Counters
  <2> QED BY <1>1, <2>1, <2>2, <2>3, <2>4, <2>5 DEF Counters, Reservation
<1> QED BY <1>2, <1>3, <1>4 DEF Take

\* The first state satisfies the invariant.
LEMMA InitSession == SessionInit => SessionInv
BY DEF SessionInit, Boot, NoRecord, NoRetx, SessionInv, SessionType, ReservationHolds, Reservation, NonceMirrored,
   UsedBelow, KeysAreSpent, RetxIsSealed, LaneBelow, NonceUnique, AttemptsAreSpent,
   PairedIsDurable, ResumesAbove, Counters, Lora, Fsk

\* The types as the lemmas below use them.
LEMMA Types == SessionInv => nvs \in NvsType /\ ram \in RamType /\ Reservation(nvs, ram)
BY DEF SessionInv, SessionType, NvsType, RamType, ReservationHolds

\* An exchange: the frame's counter is fresh, or it is the very frame that is
\* already sealed; the ACK's is fresh after it.
LEMMA ExchangeKeeps ==
  ASSUME SessionInv, NEW text \in Texts, NEW kept \in BOOLEAN,
         NEW ack \in Texts \union {NoText}, Exchange(text, kept, ack)
  PROVE  SessionInv'
<1>1. PICK o \in DataCounter(text, kept) : \E p \in AckCounter(o, ack) :
       /\ o.counter # 0
       /\ sealed' = sealed \union {Frame(ram.key, o.counter, text)}
                    \union (IF p.counter = 0 THEN {} ELSE {Frame(ram.key, p.counter, ack)})
       /\ lane' = IF config = Fsk THEN LastOf(o, p) ELSE lane
       /\ nvs' = p.nvs
       /\ ram' = [p.ram EXCEPT !.retx = IF kept THEN [text |-> text, counter |-> o.counter]
                                       ELSE NoRetx]
  BY DEF Exchange
<1>2. PICK p \in AckCounter(o, ack) :
       /\ o.counter # 0
       /\ sealed' = sealed \union {Frame(ram.key, o.counter, text)}
                    \union (IF p.counter = 0 THEN {} ELSE {Frame(ram.key, p.counter, ack)})
       /\ lane' = IF config = Fsk THEN LastOf(o, p) ELSE lane
       /\ nvs' = p.nvs
       /\ ram' = [p.ram EXCEPT !.retx = IF kept THEN [text |-> text, counter |-> o.counter]
                                       ELSE NoRetx]
  BY <1>1
<1>3. ram.link = "PAIRED" /\ config' = config /\ aired' = aired /\ o.counter # 0
  BY <1>2 DEF Exchange
<1>4. nvs \in NvsType /\ ram \in RamType /\ Reservation(nvs, ram)
  BY Types
<1>5. /\ o.nvs \in NvsType /\ o.ram \in RamType /\ Reservation(o.nvs, o.ram)
      /\ o.nvs.state = nvs.state /\ o.nvs.nonce = nvs.nonce /\ o.nvs.base >= nvs.base
      /\ o.ram.key = ram.key /\ o.ram.link = ram.link /\ o.ram.nonce = ram.nonce
      /\ o.counter \in 1..(MaxCounter - 1) /\ o.counter < o.ram.fcnt
      /\ ram.fcnt <= o.ram.fcnt /\ (lane # 0 => lane <= o.counter)
      /\ Frame(ram.key, o.counter, text) \in sealed \/ ram.fcnt <= o.counter
  <2>1. lane \in Nat /\ (lane # 0 => lane < ram.fcnt)
    BY DEF SessionInv, SessionType, LaneBelow, Counters
  <2>2. CASE o \in Take(nvs, ram)
    BY <1>3, <1>4, <2>1, <2>2, TakeFacts DEF RamType, Counters
  <2>3. CASE /\ Reuses(ram, text)
             /\ o = [nvs |-> nvs, ram |-> ram, counter |-> ram.retx.counter]
    <3>1. text # NoText /\ ram.retx.text = text /\ ram.fcnt = ram.retx.counter + 1
      BY <2>3 DEF Reuses
    <3>2. Frame(ram.key, ram.retx.counter, text) \in sealed
      BY <3>1, <1>3 DEF SessionInv, RetxIsSealed
    <3>3. ram.fcnt \in 0..MaxCounter /\ ram.retx.counter \in 0..MaxCounter /\ nvs.base \in Nat
      BY <1>4 DEF RamType, NvsType, Counters
    <3> QED BY <1>3, <1>4, <2>1, <2>3, <3>1, <3>2, <3>3
  <2> QED BY <2>2, <2>3 DEF DataCounter
<1>6. /\ p.nvs \in NvsType /\ p.ram \in RamType /\ Reservation(p.nvs, p.ram)
      /\ p.nvs.state = nvs.state /\ p.nvs.nonce = nvs.nonce /\ p.nvs.base >= nvs.base
      /\ p.ram.key = ram.key /\ p.ram.link = ram.link /\ p.ram.nonce = ram.nonce
      /\ o.ram.fcnt <= p.ram.fcnt
      /\ p.counter # 0 => /\ p.counter \in 1..(MaxCounter - 1) /\ ack \in Texts
                          /\ o.ram.fcnt <= p.counter /\ p.counter < p.ram.fcnt
  <2>1. o.ram.fcnt \in Nat /\ o.nvs.base \in Nat /\ nvs.base \in Nat
    BY <1>4, <1>5 DEF RamType, NvsType, Counters
  <2>2. CASE ack = NoText
    BY <1>5, <2>1, <2>2 DEF AckCounter, Refused
  <2>3. CASE ack # NoText
    <3>1. p \in Take(o.nvs, o.ram) /\ ack \in Texts
      BY <2>3 DEF AckCounter
    <3>2. /\ p.nvs \in NvsType /\ p.ram \in RamType /\ Reservation(p.nvs, p.ram)
          /\ p.nvs.state = o.nvs.state /\ p.nvs.nonce = o.nvs.nonce /\ p.nvs.base >= o.nvs.base
          /\ p.ram.key = o.ram.key /\ p.ram.link = o.ram.link /\ p.ram.nonce = o.ram.nonce
          /\ p.counter = 0 => p.ram = o.ram
          /\ p.counter # 0 => /\ o.ram.fcnt <= p.counter /\ p.ram.fcnt = p.counter + 1
                              /\ p.counter \in 1..(MaxCounter - 1)
      BY <1>5, <3>1, TakeFacts
    <3>3. p.nvs.base \in Nat
      BY <3>2 DEF NvsType, Counters
    <3> QED BY <1>5, <2>1, <3>1, <3>2, <3>3
  <2> QED BY <2>2, <2>3
<1>7. /\ ram'.key = ram.key /\ ram'.link = "PAIRED" /\ ram'.nonce = ram.nonce
      /\ ram'.fcnt = p.ram.fcnt /\ ram'.reserved = p.ram.reserved
      /\ ram'.retx = IF kept THEN [text |-> text, counter |-> o.counter] ELSE NoRetx
      /\ ram' \in RamType
  BY <1>2, <1>3, <1>5, <1>6 DEF RamType, NoRetx, Counters
<1>8. nvs'.state = nvs.state /\ nvs'.nonce = nvs.nonce /\ nvs'.base >= nvs.base /\ nvs' \in NvsType
  BY <1>2, <1>6
<1>9. /\ ram.key \in Nat \ {0} /\ nvs.state.key = ram.key /\ ram.key < nvs.nonce
      /\ \A e \in sealed : /\ e \in [key : Nat \ {0}, counter : 1..(MaxCounter - 1), text : Texts]
                          /\ e.key < nvs.nonce /\ (e.key = ram.key => e.counter < ram.fcnt)
  BY <1>3, <1>4 DEF SessionInv, PairedIsDurable, UsedBelow, KeysAreSpent, SessionType, RamType
<1> DEFINE F == Frame(ram.key, o.counter, text)
           G == Frame(ram.key, p.counter, ack)
<1>10. /\ F.key = ram.key /\ F.counter = o.counter /\ F.text = text
       /\ G.key = ram.key /\ G.counter = p.counter /\ G.text = ack
       /\ F \in [key : Nat \ {0}, counter : 1..(MaxCounter - 1), text : Texts]
       /\ p.counter # 0 => G \in [key : Nat \ {0}, counter : 1..(MaxCounter - 1), text : Texts]
  BY <1>5, <1>6, <1>9 DEF Frame
<1>11. \A e \in sealed' : e \in sealed \/ e = F \/ (e = G /\ p.counter # 0)
  BY <1>2
<1>12. F \in sealed'
  BY <1>2
<1>13. F \in sealed \/ ram.fcnt <= o.counter
  BY <1>5
<1> HIDE DEF F, G
<1>14. /\ ram.fcnt \in Nat /\ o.ram.fcnt \in Nat /\ p.ram.fcnt \in Nat /\ nvs.base \in Nat
       /\ nvs'.base \in Nat /\ o.counter \in Nat /\ p.counter \in 0..MaxCounter /\ lane \in Nat
  <2>1. p.counter = 0 \/ p.counter \in 1..(MaxCounter - 1)
    BY <1>6
  <2> QED BY <1>4, <1>5, <1>6, <1>8, <2>1 DEF RamType, NvsType, Counters, SessionInv, SessionType
<1>15. SessionType'
  <2>1. sealed' \subseteq [key : Nat \ {0}, counter : 1..(MaxCounter - 1), text : Texts]
    BY <1>9, <1>10, <1>11
  <2>2. lane' \in Counters
    <3>1. lane \in Counters /\ o.counter \in Counters /\ p.counter \in Counters
      BY <1>5, <1>14 DEF SessionInv, SessionType, Counters
    <3> QED BY <1>2, <3>1 DEF LastOf
  <2> QED BY <1>3, <1>7, <1>8, <2>1, <2>2 DEF SessionType, SessionInv, RamType, NvsType
<1>16. ReservationHolds' /\ NonceMirrored'
  <2>1. nvs' = p.nvs
    BY <1>2
  <2> QED BY <1>6, <1>7, <1>8, <2>1 DEF ReservationHolds, Reservation, NonceMirrored, SessionInv
<1>17. \A e \in sealed' : e.key = ram.key => e.counter < p.ram.fcnt
  <2> SUFFICES ASSUME NEW e \in sealed', e.key = ram.key PROVE e.counter < p.ram.fcnt
    OBVIOUS
  <2>1. CASE e \in sealed
    <3>1. e.counter < ram.fcnt /\ e.counter \in Nat
      BY <1>9, <2>1
    <3> QED BY <1>5, <1>6, <1>14, <3>1
  <2>2. CASE e = F
    BY <1>5, <1>6, <1>10, <1>14, <2>2
  <2>3. CASE e = G /\ p.counter # 0
    BY <1>6, <1>10, <2>3
  <2> QED BY <1>11, <2>1, <2>2, <2>3
<1>18. UsedBelow'
  BY <1>7, <1>17 DEF UsedBelow
<1>19. KeysAreSpent'
  BY <1>8, <1>9, <1>10, <1>11 DEF KeysAreSpent, SessionInv
<1>20. RetxIsSealed'
  <2>1. CASE kept
    BY <1>7, <1>12, <2>1 DEF RetxIsSealed, F
  <2>2. CASE ~kept
    BY <1>7, <2>2 DEF RetxIsSealed, NoRetx
  <2> QED BY <2>1, <2>2
<1>21. LaneBelow'
  <2>1. LastOf(o, p) < p.ram.fcnt
    BY <1>5, <1>6, <1>14 DEF LastOf
  <2>2. lane # 0 => lane < p.ram.fcnt
    BY <1>5, <1>6, <1>14
  <2> QED BY <1>2, <1>7, <2>1, <2>2 DEF LaneBelow
<1>22. NonceUnique'
  <2>1. \A e \in sealed : e.key = F.key /\ e.counter = F.counter => e.text = F.text
    <3>1. CASE F \in sealed
      BY <3>1 DEF SessionInv, NonceUnique
    <3>2. CASE ram.fcnt <= o.counter
      BY <1>9, <1>10, <1>14, <3>2
    <3> QED BY <1>13, <3>1, <3>2
  <2>2. \A e \in sealed : p.counter # 0 /\ e.key = G.key => e.counter # G.counter
    BY <1>5, <1>6, <1>9, <1>10, <1>14
  <2>3. p.counter # 0 => F.counter # G.counter
    BY <1>5, <1>6, <1>10, <1>14
  <2>4. \A e, f \in sealed : e.key = f.key /\ e.counter = f.counter => e.text = f.text
    BY DEF SessionInv, NonceUnique
  <2> QED BY <1>11, <2>1, <2>2, <2>3, <2>4 DEF NonceUnique
<1>23. AttemptsAreSpent' /\ PairedIsDurable'
  BY <1>3, <1>7, <1>8, <1>9 DEF SessionInv, AttemptsAreSpent, PairedIsDurable
<1>24. ResumesAbove'
  <2>1. nvs'.base = p.ram.reserved /\ p.ram.fcnt <= p.ram.reserved
    BY <1>2, <1>6 DEF Reservation
  <2>2. \A e \in sealed' : e.key = ram.key => e.counter < nvs'.base
    <3> SUFFICES ASSUME NEW e \in sealed', e.key = ram.key PROVE e.counter < nvs'.base
      OBVIOUS
    <3>1. e.counter < p.ram.fcnt /\ e.counter \in Nat
      BY <1>17, <1>15 DEF SessionType
    <3> QED BY <1>14, <2>1, <3>1
  <2> QED BY <1>8, <1>9, <2>2 DEF ResumesAbove
<1> QED
  BY <1>15, <1>16, <1>18, <1>19, <1>20, <1>21, <1>22, <1>23, <1>24 DEF SessionInv

\* The number of an attempt is beyond every key in use.
LEMMA AttemptIsFresh ==
  ASSUME SessionInv
  PROVE  /\ Attempt \in Nat \ {0} /\ nvs.nonce <= Attempt
         /\ \A e \in sealed : e.key < Attempt
<1>1. nvs.nonce \in Nat /\ ram.nonce = nvs.nonce /\ \A e \in sealed : e.key < nvs.nonce /\ e.key \in Nat
  BY DEF SessionInv, SessionType, NonceMirrored, KeysAreSpent
<1> QED BY <1>1 DEF Attempt

\* An attempt that pairs nothing only spends its numbers, ahead of the air.
LEMMA RequestKeeps ==
  ASSUME SessionInv, JoinRequest \/ PairRequest
  PROVE  SessionInv'
<1>1. PICK k \in {1, 2} :
        /\ ram.link = "JOINING"
        /\ nvs' = [nvs EXCEPT !.nonce = Attempt + k]
        /\ ram' = [ram EXCEPT !.nonce = Attempt + k]
        /\ aired' \in Attempt..(Attempt + k - 1)
        /\ UNCHANGED <<config, sealed, lane>>
  <2>1. CASE JoinRequest
    <3>1. Attempt \in Attempt..(Attempt + 1 - 1)
      BY AttemptIsFresh
    <3> QED BY <2>1, <3>1 DEF JoinRequest, SaveNonce
  <2>2. CASE PairRequest
    <3>1. {Attempt, Attempt + 1} \subseteq Attempt..(Attempt + 2 - 1)
      BY AttemptIsFresh
    <3> QED BY <2>2, <3>1 DEF PairRequest, SaveNonce
  <2> QED BY <2>1, <2>2
<1>2. Attempt + k \in Nat /\ nvs.nonce < Attempt + k /\ aired' \in Nat /\ aired' < Attempt + k
  BY <1>1, AttemptIsFresh DEF SessionInv, SessionType
<1>3. nvs \in NvsType /\ ram \in RamType /\ Reservation(nvs, ram)
  BY Types
<1>4. nvs' \in NvsType /\ nvs'.nonce = Attempt + k /\ nvs'.base = nvs.base /\ nvs'.state = nvs.state
  BY <1>1, <1>2, <1>3 DEF NvsType
<1>5. /\ ram' \in RamType /\ ram'.nonce = Attempt + k /\ ram'.link = "JOINING"
      /\ ram'.fcnt = ram.fcnt /\ ram'.reserved = ram.reserved
  BY <1>1, <1>2, <1>3 DEF RamType
<1>6. SessionType'
  BY <1>1, <1>2, <1>4, <1>5 DEF SessionInv, SessionType, NvsType, RamType
<1>7. ReservationHolds' /\ NonceMirrored' /\ UsedBelow' /\ RetxIsSealed' /\ LaneBelow'
      /\ NonceUnique' /\ PairedIsDurable' /\ ResumesAbove' /\ AttemptsAreSpent'
  BY <1>1, <1>2, <1>4, <1>5 DEF SessionInv, ReservationHolds, Reservation, NonceMirrored, UsedBelow,
     RetxIsSealed, LaneBelow, NonceUnique, PairedIsDurable, ResumesAbove, AttemptsAreSpent
<1>8. KeysAreSpent'
  <2>1. nvs.nonce \in Nat /\ nvs.state.key \in Nat /\ \A e \in sealed : e.key \in Nat
    BY DEF SessionInv, SessionType
  <2> QED BY <1>1, <1>2, <1>4, <2>1 DEF SessionInv, KeysAreSpent
<1> QED BY <1>6, <1>7, <1>8 DEF SessionInv

\* A pairing's key is new: whatever the counter does, nothing was sealed under it.
LEMMA PairingKeeps ==
  ASSUME SessionInv, Joined \/ PairedTower
  PROVE  SessionInv'
<1>1. nvs \in NvsType /\ ram \in RamType /\ Reservation(nvs, ram)
  BY Types
<1>2. PICK k \in {1, 2}, m \in {Lora, Fsk}, b \in {nvs.base, Reserve}, f \in {0, ram.fcnt} :
        /\ nvs' = [base |-> b, nonce |-> Attempt + k, state |-> Record(Attempt, m)]
        /\ ram' = [fcnt |-> f, reserved |-> b, nonce |-> Attempt + k, key |-> Attempt,
                   link |-> "PAIRED", retx |-> NoRetx]
        /\ f <= b /\ b # 1
        /\ aired' = Attempt + k - 1
        /\ lane' = IF f = ram.fcnt /\ m = Fsk THEN lane ELSE 0
        /\ UNCHANGED <<config, sealed>>
  <2>1. ram.reserved = nvs.base /\ ram.fcnt <= nvs.base /\ nvs.base # 1 /\ nvs.base \in Nat
    BY <1>1 DEF Reservation, NvsType, Counters
  <2>2. CASE Joined
    <3>1. CASE nvs'.base = Reserve
      <4>1. /\ nvs' = [base |-> Reserve, nonce |-> Attempt + 1, state |-> Record(Attempt, Lora)]
            /\ ram' = [fcnt |-> 0, reserved |-> Reserve, nonce |-> Attempt + 1, key |-> Attempt,
                       link |-> "PAIRED", retx |-> NoRetx]
        BY <1>1, <2>1, <2>2, <3>1, ZenonT(60) DEF Joined, SaveNonce, Paired, NvsType, RamType
      <4>2. aired' = Attempt + 1 - 1 /\ lane' = 0 /\ UNCHANGED <<config, sealed>>
        BY <2>2, AttemptIsFresh DEF Joined
      <4> QED BY <4>1, <4>2 DEF Lora, Fsk
    <3>2. CASE nvs'.base # Reserve
      <4>1. /\ nvs' = [base |-> nvs.base, nonce |-> Attempt + 1, state |-> Record(Attempt, Lora)]
            /\ ram' = [fcnt |-> 0, reserved |-> nvs.base, nonce |-> Attempt + 1, key |-> Attempt,
                       link |-> "PAIRED", retx |-> NoRetx]
        BY <1>1, <2>1, <2>2, <3>2, ZenonT(60) DEF Joined, SaveNonce, Paired, NvsType, RamType
      <4>2. aired' = Attempt + 1 - 1 /\ lane' = 0 /\ UNCHANGED <<config, sealed>>
        BY <2>2, AttemptIsFresh DEF Joined
      <4> QED BY <2>1, <4>1, <4>2 DEF Lora, Fsk
    <3> QED BY <3>1, <3>2
  <2>3. CASE PairedTower
    <3>1. /\ nvs' = [base |-> nvs.base, nonce |-> Attempt + 2, state |-> Record(Attempt, Fsk)]
          /\ ram' = [fcnt |-> ram.fcnt, reserved |-> nvs.base, nonce |-> Attempt + 2,
                     key |-> Attempt, link |-> "PAIRED", retx |-> NoRetx]
      BY <1>1, <2>1, <2>3 DEF PairedTower, SaveNonce, Paired, KeepCounter, NvsType, RamType
    <3>2. aired' = Attempt + 2 - 1 /\ lane' = lane /\ UNCHANGED <<config, sealed>>
      BY <2>3, AttemptIsFresh DEF PairedTower
    <3> QED BY <2>1, <3>1, <3>2
  <2> QED BY <2>2, <2>3
<1>3. /\ Attempt \in Nat \ {0} /\ nvs.nonce <= Attempt /\ Attempt + k \in Nat
      /\ Attempt < Attempt + k /\ Attempt + k - 1 \in Nat /\ Attempt + k - 1 < Attempt + k
      /\ \A e \in sealed : e.key < Attempt /\ e.key \in Nat
  BY AttemptIsFresh DEF SessionInv, SessionType
<1>4. b \in Counters /\ f \in Counters
  BY <1>1 DEF NvsType, RamType, Counters
<1>5. SessionType'
  BY <1>2, <1>3, <1>4 DEF SessionInv, SessionType, Record, NoRetx, Counters
<1>6. ReservationHolds' /\ NonceMirrored' /\ RetxIsSealed' /\ PairedIsDurable' /\ AttemptsAreSpent'
  BY <1>2, <1>3 DEF ReservationHolds, Reservation, NonceMirrored, RetxIsSealed, NoRetx,
     PairedIsDurable, Record, AttemptsAreSpent
<1>7. UsedBelow' /\ ResumesAbove' /\ NonceUnique'
  BY <1>2, <1>3 DEF UsedBelow, ResumesAbove, NonceUnique, Record, SessionInv
<1>8. KeysAreSpent'
  <2>1. \A e \in sealed : e.key < Attempt + k
    BY <1>3
  <2> QED BY <1>2, <1>3, <2>1 DEF KeysAreSpent, Record
<1>9. LaneBelow'
  BY <1>2 DEF LaneBelow, SessionInv
<1> QED BY <1>5, <1>6, <1>7, <1>8, <1>9 DEF SessionInv

\* Losing the pairing, or looking for a new one, touches no counter.
LEMMA UnpairingKeeps ==
  ASSUME SessionInv, PairingClear \/ StartJoin
  PROVE  SessionInv'
<1>1. nvs \in NvsType /\ ram \in RamType /\ Reservation(nvs, ram)
  BY Types
<1>2. /\ nvs' \in NvsType /\ nvs'.base = nvs.base /\ nvs'.nonce = nvs.nonce
      /\ nvs'.state.key \in {0, nvs.state.key}
  BY <1>1 DEF PairingClear, StartJoin, NoRecord, NvsType, Lora
<1>3. /\ ram' \in RamType /\ ram'.link # "PAIRED" /\ ram'.fcnt = ram.fcnt
      /\ ram'.reserved = ram.reserved /\ ram'.nonce = ram.nonce
  <2>1. NoRetx \in [text : Texts \union {NoText}, counter : Counters]
    BY DEF NoRetx, Counters
  <2>2. CASE ram' = [ram EXCEPT !.link = "UNPAIRED", !.retx = NoRetx]
    BY <1>1, <2>1, <2>2 DEF RamType
  <2>3. CASE ram' = [ram EXCEPT !.link = "JOINING"]
    BY <1>1, <2>3 DEF RamType
  <2> QED BY <2>2, <2>3 DEF PairingClear, StartJoin, Unpaired
<1>4. UNCHANGED <<config, sealed, aired, lane>>
  BY DEF PairingClear, StartJoin
<1>5. SessionType'
  BY <1>2, <1>3, <1>4 DEF SessionInv, SessionType, NvsType, RamType
<1>6. \A e \in sealed : e.key # 0
  BY DEF SessionInv, SessionType
<1> QED
  BY <1>2, <1>3, <1>4, <1>5, <1>6 DEF SessionInv, ReservationHolds, Reservation, NonceMirrored, UsedBelow,
     KeysAreSpent, RetxIsSealed, LaneBelow, NonceUnique, AttemptsAreSpent, PairedIsDurable,
     ResumesAbove

\* Wherever a handler is stopped, what it saved is enough to boot from.
LEMMA PowerLossKeeps ==
  ASSUME SessionInv, PowerLoss
  PROVE  SessionInv'
<1>1. nvs \in NvsType /\ ram \in RamType /\ Reservation(nvs, ram)
  BY Types
<1>2. /\ nvs' \in NvsType /\ nvs'.base >= nvs.base /\ nvs'.base # 1
      /\ nvs'.nonce >= nvs.nonce /\ nvs'.state = nvs.state
  <2>1. /\ nvs.base \in 0..MaxCounter /\ ram.fcnt \in 0..MaxCounter /\ nvs.nonce \in Nat
        /\ nvs.base = ram.reserved /\ nvs.base # 1
    BY <1>1 DEF NvsType, RamType, Counters, Reservation
  <2>2. CASE nvs' = nvs
    BY <1>1, <2>1, <2>2
  <2>3. CASE nvs' \in {SaveNonce(nvs, Attempt + (IF config = Lora THEN 1 ELSE 2))}
    <3>1. PICK a \in Nat : a >= nvs.nonce /\ nvs' = [nvs EXCEPT !.nonce = a]
      BY <2>1, <2>3, AttemptIsFresh DEF SaveNonce
    <3> QED BY <1>1, <2>1, <3>1 DEF NvsType
  <2>4. CASE ram.fcnt >= ram.reserved /\ nvs' = SaveBase(nvs, HighWater(ram.fcnt))
    <3>1. /\ HighWater(ram.fcnt) \in 0..MaxCounter /\ HighWater(ram.fcnt) >= nvs.base
          /\ HighWater(ram.fcnt) # 1
      BY <2>1, <2>4 DEF HighWater
    <3> QED BY <1>1, <2>1, <2>4, <3>1 DEF NvsType, SaveBase, Counters
  <2> QED BY <2>2, <2>3, <2>4 DEF PowerLoss, Interrupted
<1>3. config' \in Modulations /\ ram' = Boot(nvs', config') /\ UNCHANGED <<sealed, aired, lane>>
  BY DEF PowerLoss
<1>4. /\ nvs.base \in Nat /\ nvs'.base \in Counters /\ nvs.nonce \in Nat /\ nvs'.nonce \in Nat
      /\ ram.fcnt \in Nat /\ ram.fcnt <= nvs.base /\ nvs'.state.key \in Nat
  BY <1>1, <1>2 DEF NvsType, RamType, Counters, Reservation
<1>5. /\ ram'.fcnt = nvs'.base /\ ram'.reserved = nvs'.base /\ ram'.nonce = nvs'.nonce
      /\ ram'.retx = NoRetx
      /\ ram'.link = "PAIRED" => nvs'.state.key # 0 /\ ram'.key = nvs'.state.key
      /\ ram' \in RamType
  BY <1>3, <1>4 DEF Boot, RamType, NoRetx, Counters
<1>6. SessionType'
  BY <1>2, <1>3, <1>5 DEF SessionInv, SessionType, NvsType, RamType
<1>7. \A e \in sealed : e.counter \in Nat /\ e.key \in Nat
  BY DEF SessionInv, SessionType
<1>8. \A e \in sealed : e.key = nvs'.state.key => e.counter < nvs'.base
  BY <1>2, <1>4, <1>7 DEF SessionInv, ResumesAbove, Counters
<1>9. UsedBelow' /\ ResumesAbove' /\ PairedIsDurable' /\ NonceUnique' /\ RetxIsSealed'
      /\ ReservationHolds' /\ NonceMirrored'
  BY <1>2, <1>3, <1>4, <1>5, <1>8 DEF UsedBelow, ResumesAbove, PairedIsDurable, NonceUnique,
     RetxIsSealed, NoRetx, ReservationHolds, Reservation, NonceMirrored, SessionInv, Counters
<1>10. KeysAreSpent'
  BY <1>2, <1>3, <1>4, <1>7 DEF KeysAreSpent, SessionInv
<1>11. AttemptsAreSpent' /\ LaneBelow'
  <2>1. aired \in Nat /\ lane \in Nat
    BY DEF SessionInv, SessionType, Counters
  <2> QED BY <1>2, <1>3, <1>4, <1>5, <2>1 DEF AttemptsAreSpent, LaneBelow, SessionInv, Counters
<1> QED BY <1>6, <1>9, <1>10, <1>11 DEF SessionInv

LEMMA SessionStep == SessionInv /\ [SessionNext]_sessionVars => SessionInv'
<1> SUFFICES ASSUME SessionInv, [SessionNext]_sessionVars PROVE SessionInv'
  OBVIOUS
<1>1. CASE \E text \in Texts, kept \in BOOLEAN, ack \in Texts \union {NoText} :
             Exchange(text, kept, ack)
  BY <1>1, ExchangeKeeps
<1>2. CASE JoinRequest \/ PairRequest
  BY <1>2, RequestKeeps
<1>3. CASE Joined \/ PairedTower
  BY <1>3, PairingKeeps
<1>4. CASE PairingClear \/ StartJoin
  BY <1>4, UnpairingKeeps
<1>5. CASE PowerLoss
  BY <1>5, PowerLossKeeps
<1>6. CASE UNCHANGED sessionVars
  BY <1>6 DEF sessionVars, SessionInv, SessionType, ReservationHolds, Reservation, NonceMirrored, UsedBelow,
     KeysAreSpent, RetxIsSealed, LaneBelow, NonceUnique, AttemptsAreSpent, PairedIsDurable,
     ResumesAbove
<1> QED BY <1>1, <1>2, <1>3, <1>4, <1>5, <1>6 DEF SessionNext

\* The invariant of the session: what RAM and flash hold is above what was used.
THEOREM SessionInvariant == SessionSpec => []SessionInv
<1>1. SessionInit => SessionInv
  BY InitSession
<1>2. SessionInv /\ [SessionNext]_sessionVars => SessionInv'
  BY SessionStep
<1> QED BY <1>1, <1>2, PTL DEF SessionSpec

\* No two plaintexts under one key and counter, across retries, failed saves,
\* resets and re-pairings (fcnt_next(), retx_counter(), pairing_persist()).
THEOREM NonceNeverReused == SessionSpec => []NonceUnique
<1>1. SessionInv => NonceUnique
  BY DEF SessionInv
<1> QED BY <1>1, SessionInvariant, PTL

\* A reset resumes above every counter of the session it restores.
THEOREM ResetResumesAbove == SessionSpec => []ResumesAbove
<1>1. SessionInv => ResumesAbove
  BY DEF SessionInv
<1> QED BY <1>1, SessionInvariant, PTL

\* A join attempt's number never comes back once it could have been on the air.
THEOREM AttemptsNeverRepeat == SessionSpec => []AttemptsAreSpent
<1>1. SessionInv => AttemptsAreSpent
  BY DEF SessionInv
<1> QED BY <1>1, SessionInvariant, PTL

\* A paired node's session is the one in the flash.
THEOREM PairingIsDurable == SessionSpec => []PairedIsDurable
<1>1. SessionInv => PairedIsDurable
  BY DEF SessionInv
<1> QED BY <1>1, SessionInvariant, PTL

\* A TOWER gateway never sees the counter fall, bar a JoinAccept in between.
THEOREM LaneNeverFalls == SessionSpec => TowerLaneRises
<1>1. SessionInv /\ [SessionNext]_sessionVars => [lane' >= lane \/ (config = Lora /\ lane' = 0)]_sessionVars
  <2> SUFFICES ASSUME SessionInv, [SessionNext]_sessionVars
      PROVE  lane' >= lane \/ (config = Lora /\ lane' = 0) \/ UNCHANGED sessionVars
    OBVIOUS
  <2>1. lane \in Nat /\ ram.fcnt \in Nat /\ (lane # 0 => lane < ram.fcnt)
    BY DEF SessionInv, SessionType, LaneBelow, Counters
  <2>2. nvs \in NvsType /\ ram \in RamType /\ Reservation(nvs, ram)
    BY Types
  <2>3. ASSUME NEW text \in Texts, NEW kept \in BOOLEAN, NEW ack \in Texts \union {NoText},
               Exchange(text, kept, ack)
        PROVE  lane' >= lane
    <3>0. PICK o \in DataCounter(text, kept) : \E p \in AckCounter(o, ack) :
            o.counter # 0 /\ lane' = IF config = Fsk THEN LastOf(o, p) ELSE lane
      BY <2>3 DEF Exchange
    <3>1. PICK p \in AckCounter(o, ack) :
            o.counter # 0 /\ lane' = IF config = Fsk THEN LastOf(o, p) ELSE lane
      BY <3>0
    <3>2. o.nvs \in NvsType /\ o.ram \in RamType /\ Reservation(o.nvs, o.ram) /\ lane <= o.counter
          /\ o.counter \in Nat /\ o.counter < o.ram.fcnt
      <4>1. CASE o \in Take(nvs, ram)
        <5>1. /\ o.nvs \in NvsType /\ o.ram \in RamType /\ Reservation(o.nvs, o.ram)
              /\ ram.fcnt <= o.counter /\ o.ram.fcnt = o.counter + 1
              /\ o.counter \in 1..(MaxCounter - 1)
          BY <2>2, <3>1, <4>1, TakeFacts
        <5> QED BY <2>1, <5>1
      <4>2. CASE Reuses(ram, text) /\ o = [nvs |-> nvs, ram |-> ram, counter |-> ram.retx.counter]
        BY <2>1, <2>2, <4>2 DEF Reuses, RamType, Counters
      <4> QED BY <4>1, <4>2 DEF DataCounter
    <3>3. p.counter = 0 \/ (p.counter \in Nat /\ o.ram.fcnt <= p.counter)
      <4>1. CASE ack = NoText
        BY <4>1 DEF AckCounter, Refused
      <4>2. CASE ack # NoText
        BY <3>2, <4>2, TakeFacts DEF AckCounter
      <4> QED BY <4>1, <4>2
    <3>4. o.ram.fcnt \in Nat
      BY <3>2 DEF RamType, Counters
    <3> QED BY <2>1, <3>1, <3>2, <3>3, <3>4 DEF LastOf
  <2>4. CASE Joined
    BY <2>4 DEF Joined
  <2>5. CASE JoinRequest \/ PairRequest \/ PairedTower \/ PairingClear \/ StartJoin \/ PowerLoss
    BY <2>1, <2>5 DEF JoinRequest, PairRequest, PairedTower, PairingClear, StartJoin, PowerLoss
  <2> QED BY <2>3, <2>4, <2>5 DEF SessionNext
<1> QED BY <1>1, SessionInvariant, PTL DEF SessionSpec, TowerLaneRises

\* For any reservation, counters and configurations: everything the runs check of the
\* session as an invariant.
THEOREM SessionIsSafe == SessionSpec => []SessionSafety
<1>1. SessionInv => SessionSafety
  BY DEF SessionInv, SessionSafety
<1> QED BY <1>1, SessionInvariant, PTL

=============================================================================
