---------------------------- MODULE BitmapProofs ----------------------------
(***************************************************************************)
(* Proofs about Bitmap.                                                    *)
(***************************************************************************)
EXTENDS Bitmap, WellFoundedInduction, TLAPS

\* A set of numbers has a least element, and Min is it.
LEMMA MinInSet ==
    ASSUME NEW S \in SUBSET Nat, S # {}
    PROVE  Min(S) \in S /\ \A y \in S : Min(S) <= y
<1>1. PICK m \in S : \A y \in S : ~(<<y, m>> \in OpToRel(<, Nat))
  BY NatLessThanWellFounded, WFMin, Zenon
<1>2. \A y \in S : ~(y < m)
  BY <1>1, Zenon DEF OpToRel
<1>3. \A y \in S : m <= y
  BY <1>2
<1>4. QED
  BY <1>3 DEF Min

-----------------------------------------------------------------------------
(* The scan of alloc_bitrange *)

Step(bm, count, word_align, f, p) ==
    IF p = 0 THEN [start |-> 0, length |-> 0, next |-> 0]
    ELSE Visit(bm, count, word_align, f[p - 1], p - 1)

IsScan(bm, count, word_align, f, n) ==
    f = [p \in 0 .. n |-> Step(bm, count, word_align, f, p)]

\* The function that Scan is defined with exists.
LEMMA ScanExists ==
    ASSUME NEW bm, NEW count, NEW word_align
    PROVE  \A n \in Nat : \E f : IsScan(bm, count, word_align, f, n)
<1> DEFINE S == {n \in Nat : ~ \E f : IsScan(bm, count, word_align, f, n)}
<1>1. SUFFICES ASSUME S # {} PROVE FALSE
  BY <1>1
<1>2. PICK m \in S : \A y \in S : m <= y
  BY <1>1, MinInSet, S \in SUBSET Nat
<1>3. m # 0
  <2> DEFINE g == [p \in 0 .. 0 |-> [start |-> 0, length |-> 0, next |-> 0]]
  <2>1. IsScan(bm, count, word_align, g, 0)
    BY DEF IsScan, Step
  <2>2. QED
    BY <2>1
<1>4. m - 1 \in Nat /\ m - 1 \notin S
  BY <1>2, <1>3
<1>5. PICK f : IsScan(bm, count, word_align, f, m - 1)
  BY <1>4
<1> DEFINE last == Visit(bm, count, word_align, f[m - 1], m - 1)
           g == [p \in 0 .. m |-> IF p = m THEN last ELSE f[p]]
<1>6. \A p \in 0 .. (m - 1) : f[p] = Step(bm, count, word_align, f, p)
  BY <1>5 DEF IsScan
<1>7. \A p \in 0 .. m : g[p] = Step(bm, count, word_align, g, p)
  <2>1. ASSUME NEW p \in 0 .. m, p = m PROVE g[p] = Step(bm, count, word_align, g, p)
    <3>1. g[p] = last /\ g[p - 1] = f[m - 1]
      BY <1>3, <1>4, <2>1
    <3>2. QED
      BY <1>3, <2>1, <3>1 DEF Step
  <2>2. ASSUME NEW p \in 0 .. m, p # m PROVE g[p] = Step(bm, count, word_align, g, p)
    <3>1. p \in 0 .. (m - 1) /\ g[p] = f[p]
      BY <1>4, <2>2
    <3>2. p # 0 => g[p - 1] = f[p - 1]
      BY <1>4, <2>2
    <3>3. QED
      BY <1>6, <3>1, <3>2 DEF Step
  <2>3. QED
    BY <2>1, <2>2
<1>8. IsScan(bm, count, word_align, g, m)
  BY <1>7 DEF IsScan
<1>9. QED
  BY <1>2, <1>8

LEMMA ScanSteps ==
    ASSUME NEW bm, NEW count, NEW word_align
    PROVE  \E f : /\ IsScan(bm, count, word_align, f, Words * WordBits)
                  /\ Scan(bm, count, word_align) = f[Words * WordBits]
<1> DEFINE F == CHOOSE f : IsScan(bm, count, word_align, f, Words * WordBits)
<1>1. Words * WordBits \in Nat
  BY CapacityAssumption DEF Words, WordBits
<1>2. IsScan(bm, count, word_align, F, Words * WordBits)
  BY <1>1, ScanExists
<1>3. Scan(bm, count, word_align) = F[Words * WordBits]
  BY DEF Scan, IsScan, Step
<1>4. QED
  BY <1>2, <1>3

\* How far the scan has come before it visits bit p: a run of free bits from an
\* aligned start on, and no aligned start before it at which count bits are free.
ScanInv(taken, count, grain, s, p) ==
    /\ s \in [start : Nat, length : Nat, next : Nat]
    /\ s.start % grain = 0 /\ s.length <= count
    /\ \A u \in Nat : s.start <= u /\ u < s.start + s.length => u \notin taken
    /\ \A x \in Nat : x % grain = 0 /\ x < s.start
                        => \E u \in taken : x <= u /\ u < x + count
    /\ s.length = count => s.start + count <= p
    /\ s.length < count => /\ s.next = s.start + s.length /\ p <= s.next
                           /\ p < s.next => s.length = 0

LEMMA VisitKeeps ==
    ASSUME NEW bm, NEW count \in Nat \ {0}, NEW word_align \in BOOLEAN, NEW s,
           NEW p \in 0 .. (Words * WordBits - 1),
           ScanInv(SetBits(bm), count, IF word_align THEN 4 ELSE 1, s, p)
    PROVE  ScanInv(SetBits(bm), count, IF word_align THEN 4 ELSE 1,
                   Visit(bm, count, word_align, s, p), p + 1)
<1> DEFINE taken == SetBits(bm)
           grain == IF word_align THEN 4 ELSE 1
           t     == Visit(bm, count, word_align, s, p)
<1>1. taken \in SUBSET Nat /\ p \in Nat
  BY CapacityAssumption DEF SetBits, Words, WordBits
<1>2. IsSet(bm, p) <=> p \in taken
  BY DEF SetBits
<1>3. CASE s.length = count \/ p < s.next
  <2>1. t = s
    BY <1>3 DEF Visit
  <2>2. ScanInv(taken, count, grain, s, p + 1)
    BY <1>1, <1>3 DEF ScanInv
  <2>3. QED
    BY <2>1, <2>2
<1>4. CASE ~(s.length = count \/ p < s.next)
  <2>1. /\ s.start \in Nat /\ s.length \in Nat /\ s.length < count
        /\ p = s.start + s.length /\ s.start % grain = 0
    BY <1>1, <1>4 DEF ScanInv
  <2>2. CASE p \in taken
    <3> DEFINE behind == IF word_align THEN 4 * (p \div 4) + 4 ELSE p + 1
    <3>1. t = [start |-> behind, length |-> 0, next |-> behind]
      BY <1>2, <1>4, <2>2 DEF Visit
    <3>2. behind \in Nat /\ behind % grain = 0 /\ p + 1 <= behind
      <4>1. CASE word_align
        <5>1. p \div 4 \in Nat /\ p < 4 * (p \div 4) + 4
          BY <1>1
        <5>2. (4 * (p \div 4) + 4) % 4 = 0
          BY <5>1
        <5>3. QED
          BY <1>1, <4>1, <5>1, <5>2
      <4>2. CASE ~word_align
        BY <1>1, <4>2
      <4>3. QED
        BY <4>1, <4>2
    <3>3. ASSUME NEW x \in Nat, x % grain = 0, x < behind
          PROVE  \E u \in taken : x <= u /\ u < x + count
      <4>1. CASE x < s.start
        BY <3>3, <4>1 DEF ScanInv
      <4>2. CASE x >= s.start
        <5>1. x <= p
          <6>1. CASE word_align
            <7>1. x % 4 = 0 /\ x < 4 * (p \div 4) + 4
              BY <3>3, <6>1
            <7>2. QED
              BY <1>1, <7>1
          <6>2. CASE ~word_align
            BY <1>1, <3>3, <6>2
          <6>3. QED
            BY <6>1, <6>2
        <5>2. p < x + count
          BY <2>1, <4>2
        <5>3. QED
          BY <2>2, <5>1, <5>2
      <4>3. QED
        BY <2>1, <4>1, <4>2
    <3> HIDE DEF behind, grain
    <3>4. ScanInv(taken, count, grain, t, p + 1)
      BY <1>1, <3>1, <3>2, <3>3 DEF ScanInv
    <3>5. QED
      BY <3>4 DEF grain
  <2>3. CASE p \notin taken
    <3>1. t = [s EXCEPT !.length = s.length + 1, !.next = p + 1]
      BY <1>2, <1>4, <2>3 DEF Visit
    <3>2. /\ t \in [start : Nat, length : Nat, next : Nat]
          /\ t.start = s.start /\ t.length = s.length + 1 /\ t.next = p + 1
      <4>1. s \in [start : Nat, length : Nat, next : Nat] /\ p + 1 \in Nat /\ s.length + 1 \in Nat
        BY <1>1 DEF ScanInv
      <4> HIDE DEF t
      <4>2. QED
        BY <3>1, <4>1
    <3> HIDE DEF t, grain
    <3>3. \A u \in Nat : t.start <= u /\ u < t.start + t.length => u \notin taken
      BY <1>1, <2>1, <2>3, <3>2 DEF ScanInv
    <3>4. \A x \in Nat : x % grain = 0 /\ x < t.start => \E u \in taken : x <= u /\ u < x + count
      BY <3>2 DEF ScanInv, grain
    <3>5. ScanInv(taken, count, grain, t, p + 1)
      BY <1>1, <2>1, <3>2, <3>3, <3>4 DEF ScanInv
    <3>6. QED
      BY <3>5 DEF t, grain
  <2>4. QED
    BY <2>2, <2>3
<1>5. QED
  BY <1>3, <1>4

LEMMA ScanReaches ==
    ASSUME NEW bm, NEW count \in Nat \ {0}, NEW word_align \in BOOLEAN
    PROVE  ScanInv(SetBits(bm), count, IF word_align THEN 4 ELSE 1,
                   Scan(bm, count, word_align), Words * WordBits)
<1> DEFINE N     == Words * WordBits
           taken == SetBits(bm)
           grain == IF word_align THEN 4 ELSE 1
<1>1. N \in Nat
  BY CapacityAssumption DEF Words, WordBits
<1>2. PICK f : IsScan(bm, count, word_align, f, N) /\ Scan(bm, count, word_align) = f[N]
  BY ScanSteps
<1> DEFINE S == {n \in 0 .. N : ~ScanInv(taken, count, grain, f[n], n)}
<1>3. \A n \in 0 .. N : f[n] = Step(bm, count, word_align, f, n)
  BY <1>2 DEF IsScan
<1>4. SUFFICES ASSUME S # {} PROVE FALSE
  BY <1>1, <1>2, <1>4
<1>5. PICK m \in S : \A y \in S : m <= y
  BY <1>1, <1>4, MinInSet, S \in SUBSET Nat
<1>6. m # 0
  <2>1. f[0] = [start |-> 0, length |-> 0, next |-> 0]
    BY <1>1, <1>3 DEF Step
  <2>2. ScanInv(taken, count, grain, f[0], 0)
    BY <2>1 DEF ScanInv
  <2>3. QED
    BY <2>2
<1>7. m - 1 \in 0 .. (N - 1) /\ (m - 1) + 1 = m
  BY <1>1, <1>6
<1>8. ScanInv(taken, count, grain, f[m - 1], m - 1)
  <2>1. m - 1 \in 0 .. N /\ ~(m <= m - 1)
    BY <1>1, <1>7
  <2>2. m - 1 \notin S
    BY <1>5, <2>1
  <2> HIDE DEF taken, grain, N
  <2>3. QED
    BY <2>1, <2>2
<1>9. ScanInv(taken, count, grain, Visit(bm, count, word_align, f[m - 1], m - 1), m)
  BY <1>7, <1>8, VisitKeeps
<1>10. f[m] = Visit(bm, count, word_align, f[m - 1], m - 1)
  BY <1>3, <1>6 DEF Step
<1>11. QED
  BY <1>9, <1>10

\* What alloc_bitrange computes, for every bitmap, length and alignment: the first
\* fit, and nothing exactly when no range fits.
THEOREM AllocFindsFirstFit ==
    ASSUME NEW bm, NEW count \in Nat \ {0}, NEW word_align \in BOOLEAN
    PROVE  LET fit == FirstFit(SetBits(bm), Words * WordBits, count, IF word_align THEN 4 ELSE 1)
           IN  AllocBitrange(bm, count, word_align)
                 = IF fit = None THEN NoRange ELSE [start |-> fit, length |-> count]
<1> DEFINE N     == Words * WordBits
           taken == SetBits(bm)
           grain == IF word_align THEN 4 ELSE 1
           s     == Scan(bm, count, word_align)
           fits  == Fits(taken, N, count, grain)
<1>1. ScanInv(taken, count, grain, s, N) /\ N \in Nat /\ taken \in SUBSET Nat
  <2>1. N \in Nat
    BY CapacityAssumption DEF Words, WordBits
  <2>2. taken \in SUBSET Nat
    BY <2>1 DEF SetBits
  <2>3. QED
    BY <2>1, <2>2, ScanReaches
<1>2. fits \in SUBSET Nat /\ \A x \in fits : x % grain = 0 /\ x + count <= N
  BY <1>1 DEF Fits
<1>3. \A x \in fits, u \in taken : ~(x <= u /\ u < x + count)
  BY <1>1 DEF Fits
<1> HIDE DEF N, taken, grain, s, fits
<1>4. \A x \in fits : s.start <= x
  BY <1>1, <1>2, <1>3 DEF ScanInv
<1>5. CASE s.length = count
  <2>1. s.start + count <= N /\ s.start \in Nat /\ s.start % grain = 0
    BY <1>1, <1>5 DEF ScanInv
  <2>2. s.start .. (s.start + count - 1) \cap taken = {}
    BY <1>1, <1>5 DEF ScanInv
  <2>3. s.start \in fits
    BY <1>1, <2>1, <2>2 DEF fits, Fits
  <2>4. Min(fits) = s.start
    <3>1. Min(fits) \in fits /\ Min(fits) <= s.start
      BY <1>2, <2>3, MinInSet
    <3>2. s.start <= Min(fits) /\ Min(fits) \in Nat
      BY <1>2, <1>4, <3>1
    <3>3. QED
      BY <2>1, <3>1, <3>2
  <2>5. FirstFit(taken, N, count, grain) = s.start
    BY <2>3, <2>4 DEF FirstFit, fits
  <2>6. AllocBitrange(bm, count, word_align) = [start |-> s.start, length |-> count]
    BY <1>5 DEF AllocBitrange, s
  <2>7. QED
    BY <2>1, <2>5, <2>6 DEF None, taken, N, grain
<1>6. CASE s.length # count
  <2>1. /\ s.start \in Nat /\ s.length \in Nat /\ s.length < count
        /\ N <= s.start + s.length
    BY <1>1, <1>6 DEF ScanInv
  <2>2. fits = {}
    BY <1>1, <1>2, <1>4, <2>1
  <2>3. FirstFit(taken, N, count, grain) = None
    BY <2>2 DEF FirstFit, fits
  <2>4. AllocBitrange(bm, count, word_align) = NoRange
    BY <1>6 DEF AllocBitrange, s
  <2>5. QED
    BY <2>3, <2>4 DEF taken, N, grain
<1>7. QED
  BY <1>5, <1>6

-----------------------------------------------------------------------------
(* The masks of apply_bitrange *)

LEMMA WordAndBit ==
    ASSUME NEW n \in Nat
    PROVE  /\ n \div WordBits \in Nat /\ n % WordBits \in 0 .. 31
           /\ n = 32 * (n \div WordBits) + (n % WordBits)
<1>1. n \div 32 \in Nat
  OBVIOUS
<1>2. n % 32 \in 0 .. 31
  OBVIOUS
<1>3. n = 32 * (n \div 32) + (n % 32)
  OBVIOUS
<1>4. QED
  BY <1>1, <1>2, <1>3 DEF WordBits

Ranged == [start : Nat, length : Nat \ {0}]

\* Within the words of a range the mask holds exactly the bits of the range.
LEMMA CoeffIsRange ==
    ASSUME NEW r \in Ranged, NEW p \in Nat
    PROVE  LET inside == /\ r.start \div WordBits <= p \div WordBits
                         /\ p \div WordBits <= (r.start + r.length) \div WordBits
           IN  /\ inside => (p % WordBits \in Coeff(r, p \div WordBits) <=> p \in Span(r))
               /\ p \in Span(r) => inside
<1> DEFINE e  == r.start + r.length
           sw == r.start \div WordBits
           sb == r.start % WordBits
           ew == e \div WordBits
           eb == e % WordBits
           w  == p \div WordBits
           b  == p % WordBits
           from_start == IF sb # 0 THEN sb .. 31 ELSE AllOnes
<1>1. r.start \in Nat /\ e \in Nat /\ r.start < e
  BY DEF Ranged
<1>2. sw \in Nat /\ sb \in 0 .. 31 /\ r.start = 32 * sw + sb
  BY <1>1, WordAndBit
<1>3. ew \in Nat /\ eb \in 0 .. 31 /\ e = 32 * ew + eb
  BY <1>1, WordAndBit
<1>4. w \in Nat /\ b \in 0 .. 31 /\ p = 32 * w + b
  BY WordAndBit
<1>5. p \in Span(r) <=> r.start <= p /\ p < e
  <2>1. r.start \in Nat /\ r.length \in Nat
    BY DEF Ranged
  <2>2. QED
    BY <2>1 DEF Span
<1>6. AllOnes = 0 .. 31
  BY DEF AllOnes, Bits, WordBits
<1>7. from_start = sb .. 31
  <2> HIDE DEF sb
  <2>1. QED
    BY <1>2, <1>6
<1>8. Coeff(r, w) = IF sw = ew THEN Xor(from_start, eb .. 31)
                    ELSE IF w = sw THEN from_start
                    ELSE IF w = ew THEN IF eb # 0 THEN 0 .. (eb - 1) ELSE {}
                    ELSE AllOnes
  BY DEF Coeff
<1> DEFINE st == r.start
           C  == Coeff(r, w)
           from == from_start
<1>9. st \in Nat /\ st < e /\ st = 32 * sw + sb /\ from = sb .. 31
  BY <1>1, <1>2, <1>7
<1>10. p \in Span(r) <=> st <= p /\ p < e
  BY <1>5
<1>11. C = IF sw = ew THEN Xor(from, eb .. 31)
           ELSE IF w = sw THEN from
           ELSE IF w = ew THEN IF eb # 0 THEN 0 .. (eb - 1) ELSE {}
           ELSE AllOnes
  BY <1>8
<1>12. sw \in Nat /\ sb \in 0 .. 31
  BY <1>2
<1> HIDE DEF e, sw, sb, ew, eb, w, b, from_start, st, C, from
<1>13. ASSUME sw <= w, w <= ew
       PROVE  b \in C <=> st <= p /\ p < e
  <2>1. CASE sw = ew
    <3>1. w = sw
      BY <1>3, <1>4, <1>12, <1>13, <2>1
    <3>2. b \in C <=> sb <= b /\ b < eb
      <4>1. sb < eb
        BY <1>3, <1>9, <1>12, <2>1
      <4>2. QED
        BY <1>3, <1>4, <1>9, <1>11, <1>12, <2>1, <4>1 DEF Xor
    <3>3. QED
      BY <1>3, <1>4, <1>9, <1>12, <2>1, <3>1, <3>2
  <2>2. CASE sw # ew /\ w = sw
    <3>1. b \in C <=> sb <= b
      BY <1>4, <1>9, <1>11, <1>12, <2>2
    <3>2. QED
      BY <1>3, <1>4, <1>9, <1>12, <1>13, <2>2, <3>1
  <2>3. CASE sw # ew /\ w # sw /\ w = ew
    <3>1. b \in C <=> b < eb
      BY <1>3, <1>4, <1>11, <2>3
    <3>2. QED
      BY <1>3, <1>4, <1>9, <1>12, <1>13, <2>3, <3>1
  <2>4. CASE sw # ew /\ w # sw /\ w # ew
    <3>1. b \in C
      BY <1>4, <1>6, <1>11, <2>4
    <3>2. QED
      BY <1>3, <1>4, <1>9, <1>12, <1>13, <2>4, <3>1
  <2>5. QED
    BY <2>1, <2>2, <2>3, <2>4
<1>14. ASSUME st <= p, p < e PROVE sw <= w /\ w <= ew
  BY <1>3, <1>4, <1>9, <1>12, <1>14
<1>15. QED
  BY <1>10, <1>13, <1>14 DEF C, e, sw, ew, w, b

\* apply_bitrange sets or clears exactly the bits of its range, whatever word
\* boundaries it crosses or ends on.
THEOREM ApplyIsExact ==
    ASSUME NEW bm \in Bitmaps, NEW r \in Ranged, NEW set \in BOOLEAN,
           r.start + r.length <= Words * WordBits
    PROVE  /\ ApplyBitrange(bm, r, set) \in Bitmaps
           /\ SetBits(ApplyBitrange(bm, r, set))
                = IF set THEN SetBits(bm) \cup Span(r) ELSE SetBits(bm) \ Span(r)
<1> DEFINE N   == Words * WordBits
           new == ApplyBitrange(bm, r, set)
<1>1. Words \in Nat /\ N \in Nat /\ N = 32 * Words
  BY CapacityAssumption DEF Words, WordBits
<1>2. \A w : Coeff(r, w) \subseteq Bits
  <2>1. \A n \in Nat : n % WordBits \in 0 .. 31
    BY WordAndBit
  <2>2. r.start \in Nat /\ r.start + r.length \in Nat
    BY DEF Ranged
  <2>3. r.start % WordBits \in 0 .. 31 /\ (r.start + r.length) % WordBits \in 0 .. 31
    BY <2>1, <2>2
  <2>4. Bits = 0 .. 31
    BY DEF Bits, WordBits
  <2>5. QED
    BY <2>3, <2>4 DEF Coeff, Xor, AllOnes
<1>3. new \in Bitmaps
  BY <1>2 DEF ApplyBitrange, Bitmaps
<1>4. ASSUME NEW p \in 0 .. (N - 1)
      PROVE  IsSet(new, p) <=> IF set THEN IsSet(bm, p) \/ p \in Span(r)
                               ELSE IsSet(bm, p) /\ p \notin Span(r)
  <2> DEFINE w == p \div WordBits
             b == p % WordBits
             inside == r.start \div WordBits <= w /\ w <= (r.start + r.length) \div WordBits
  <2>1. p \in Nat
    BY <1>1
  <2>2. w \in DOMAIN bm
    <3>1. w \in Nat /\ p = 32 * w + b /\ b \in 0 .. 31
      BY <2>1, WordAndBit
    <3> HIDE DEF w, b, N
    <3>2. w < Words
      BY <1>1, <3>1
    <3>3. QED
      BY <1>1, <3>1, <3>2 DEF Bitmaps
  <2>3. (inside => (b \in Coeff(r, w) <=> p \in Span(r))) /\ (p \in Span(r) => inside)
    BY <2>1, CoeffIsRange
  <2>4. new[w] = IF inside THEN IF set THEN bm[w] \cup Coeff(r, w) ELSE bm[w] \ Coeff(r, w)
                 ELSE bm[w]
    BY <2>2 DEF ApplyBitrange
  <2>5. (IsSet(new, p) <=> b \in new[w]) /\ (IsSet(bm, p) <=> b \in bm[w])
    BY DEF IsSet
  <2> HIDE DEF w, b, inside, new
  <2>6. QED
    BY <2>3, <2>4, <2>5
<1>5. Span(r) \subseteq 0 .. (N - 1)
  BY <1>1 DEF Span, Ranged
<1>6. SetBits(new) = IF set THEN SetBits(bm) \cup Span(r) ELSE SetBits(bm) \ Span(r)
  <2> HIDE DEF new
  <2>1. /\ SetBits(new) = {p \in 0 .. (N - 1) : IsSet(new, p)}
        /\ SetBits(bm) = {p \in 0 .. (N - 1) : IsSet(bm, p)}
    BY DEF SetBits
  <2> HIDE DEF N
  <2>2. QED
    BY <1>4, <1>5, <2>1
<1>7. QED
  BY <1>3, <1>6

-----------------------------------------------------------------------------
(* BitmapInvariant is inductive *)

\* What a request is answered with, by the ranges that are live.
Answer(count, grain) ==
    LET fit == FirstFit(Occupied(live), Words * WordBits, count, grain)
    IN  IF fit = None THEN NoRange ELSE [start |-> fit, length |-> count]

LEMMA AllocAnswers ==
    ASSUME BitmapInvariant, NEW count \in Counts, NEW word_align \in BOOLEAN,
           Alloc(count, word_align)
    PROVE  LET grain == IF word_align THEN 4 ELSE 1
               fit   == FirstFit(Occupied(live), Words * WordBits, count, grain)
           IN  /\ asked' = <<count, grain>> /\ reply' = Answer(count, grain)
               /\ fit = None => UNCHANGED <<bitmap, live>>
               /\ fit # None => /\ reply' \in LiveRanges /\ Span(reply') \cap Occupied(live) = {}
                                /\ bitmap' = ApplyBitrange(bitmap, reply', TRUE)
                                /\ live' = live \cup {reply'}
<1> DEFINE N     == Words * WordBits
           taken == Occupied(live)
           grain == IF word_align THEN 4 ELSE 1
           fit   == FirstFit(taken, N, count, grain)
<1>1. count \in Nat \ {0} /\ N \in Nat
  BY CountsAssumption, CapacityAssumption DEF Words, WordBits
<1>2. SetBits(bitmap) = taken
  BY DEF BitmapInvariant, BitsAreLive
<1>3. reply' = Answer(count, grain) /\ asked' = <<count, grain>>
  BY <1>1, <1>2, AllocFindsFirstFit DEF Alloc, Answer
<1>4. CASE fit = None
  <2>1. reply' = NoRange
    BY <1>3, <1>4 DEF Answer
  <2>2. reply'.length = 0
    BY <2>1 DEF NoRange
  <2>3. UNCHANGED <<bitmap, live>>
    BY <2>2 DEF Alloc
  <2>4. QED
    BY <1>3, <1>4, <2>3
<1>5. CASE fit # None
  <2>1. reply' = [start |-> fit, length |-> count]
    BY <1>3, <1>5 DEF Answer
  <2>2. Fits(taken, N, count, grain) \in SUBSET Nat
    BY <1>1 DEF Fits
  <2>3. fit \in Fits(taken, N, count, grain)
    BY <1>5, <2>2, MinInSet DEF FirstFit
  <2>4. fit \in 0 .. (N - count) /\ fit .. (fit + count - 1) \cap taken = {}
    BY <2>3 DEF Fits
  <2> HIDE DEF fit, taken, N
  <2>5. fit \in Nat /\ fit + count <= N
    BY <1>1, <2>4
  <2>6. reply' \in LiveRanges
    BY <1>1, <2>1, <2>5 DEF LiveRanges, N
  <2>7. Span(reply') = fit .. (fit + count - 1)
    BY <2>1 DEF Span
  <2>8. Span(reply') \cap taken = {}
    BY <2>4, <2>7
  <2>9. reply'.length # 0
    BY <1>1, <2>1
  <2>10. QED
    BY <1>3, <1>5, <2>6, <2>8, <2>9 DEF Alloc, fit, taken, N
<1>6. QED
  BY <1>4, <1>5

LEMMA LiveIsRanged ==
    ASSUME NEW r \in LiveRanges
    PROVE  /\ r \in Ranged /\ r.start + r.length <= Words * WordBits
           /\ r.start \in Span(r)
  BY DEF LiveRanges, Ranged, Span

LEMMA BitmapInit == Init => BitmapInvariant
<1>1. SUFFICES ASSUME Init PROVE BitmapInvariant
  OBVIOUS
<1>2. bitmap \in Bitmaps
  BY <1>1 DEF Init, Bitmaps
<1>3. SetBits(bitmap) = {}
  <2>1. ASSUME NEW p \in 0 .. (Words * WordBits - 1) PROVE ~IsSet(bitmap, p)
    <3>1. Words \in Nat /\ Words * WordBits = 32 * Words
      BY CapacityAssumption DEF Words, WordBits
    <3>2. p \in Nat /\ p < 32 * Words
      BY <3>1
    <3>3. p \div WordBits \in 0 .. (Words - 1)
      <4> DEFINE w == p \div WordBits
                 b == p % WordBits
      <4>1. w \in Nat /\ b \in 0 .. 31 /\ p = 32 * w + b
        BY <3>2, WordAndBit
      <4> HIDE DEF w, b
      <4>2. w \in 0 .. (Words - 1)
        BY <3>1, <3>2, <4>1
      <4>3. QED
        BY <4>2 DEF w
    <3>4. QED
      BY <1>1, <3>3 DEF Init, IsSet
  <2>2. QED
    BY <2>1 DEF SetBits
<1>4. live = {} /\ Occupied(live) = {}
  BY <1>1 DEF Init, Occupied
<1>5. QED
  BY <1>2, <1>3, <1>4 DEF BitmapInvariant, BitsAreLive, Disjoint

LEMMA BitmapStep ==
    ASSUME BitmapInvariant, [Next]_vars
    PROVE  BitmapInvariant'
<1>1. ASSUME NEW count \in Counts, NEW word_align \in BOOLEAN, Alloc(count, word_align)
      PROVE  BitmapInvariant'
  <2> DEFINE grain == IF word_align THEN 4 ELSE 1
             fit   == FirstFit(Occupied(live), Words * WordBits, count, grain)
  <2>1. CASE fit = None
    <3>1. UNCHANGED <<bitmap, live>>
      BY <1>1, <2>1, AllocAnswers
    <3>2. QED
      BY <3>1 DEF BitmapInvariant, BitsAreLive
  <2>2. CASE fit # None
    <3>1. /\ reply' \in LiveRanges /\ Span(reply') \cap Occupied(live) = {}
          /\ bitmap' = ApplyBitrange(bitmap, reply', TRUE)
          /\ live' = live \cup {reply'}
      BY <1>1, <2>2, AllocAnswers
    <3>2. bitmap' \in Bitmaps /\ SetBits(bitmap') = SetBits(bitmap) \cup Span(reply')
      BY <3>1, LiveIsRanged, ApplyIsExact DEF BitmapInvariant
    <3>3. Occupied(live') = Occupied(live) \cup Span(reply')
      BY <3>1 DEF Occupied
    <3>4. \A s \in live : Span(s) \cap Span(reply') = {}
      BY <3>1 DEF Occupied
    <3>5. Disjoint(live')
      BY <3>1, <3>4 DEF Disjoint, BitmapInvariant
    <3>6. QED
      BY <3>1, <3>2, <3>3, <3>5 DEF BitmapInvariant, BitsAreLive
  <2>3. QED
    BY <2>1, <2>2
<1>2. ASSUME NEW r \in live, Dealloc(r)
      PROVE  BitmapInvariant'
  <2>1. bitmap' = ApplyBitrange(bitmap, r, FALSE) /\ live' = live \ {r}
    BY <1>2 DEF Dealloc
  <2>2. bitmap' \in Bitmaps /\ SetBits(bitmap') = SetBits(bitmap) \ Span(r)
    BY <1>2, <2>1, LiveIsRanged, ApplyIsExact DEF BitmapInvariant
  <2>3. \A s \in live \ {r} : Span(s) \cap Span(r) = {}
    BY <1>2 DEF BitmapInvariant, Disjoint
  <2>4. Occupied(live') = Occupied(live) \ Span(r)
    BY <1>2, <2>1, <2>3 DEF Occupied
  <2>5. Disjoint(live') /\ live' \subseteq LiveRanges
    BY <2>1 DEF BitmapInvariant, Disjoint
  <2>6. QED
    BY <2>2, <2>4, <2>5 DEF BitmapInvariant, BitsAreLive
<1>3. CASE UNCHANGED vars
  BY <1>3 DEF vars, BitmapInvariant, BitsAreLive
<1>4. QED
  BY <1>1, <1>2, <1>3 DEF Next

LEMMA BitmapInvariantHolds == Spec => []BitmapInvariant
<1>1. BitmapInvariant /\ [Next]_vars => BitmapInvariant'
  BY BitmapStep
<1>2. QED
  BY <1>1, BitmapInit, PTL DEF Spec

\* Whatever is asked for and given back in whatever order: the 1 bits of the
\* bitmap are those of the ranges that are live, for every capacity.
THEOREM BitsStayLive == Spec => []BitsAreLive
<1>1. BitmapInvariant => BitsAreLive
  BY DEF BitmapInvariant
<1>2. QED
  BY <1>1, BitmapInvariantHolds, PTL

-----------------------------------------------------------------------------
(* The refinement *)

LEMMA SameFit ==
    ASSUME NEW taken, NEW size, NEW count, NEW grain
    PROVE  Abstract!FirstFit(taken, size, count, grain) = FirstFit(taken, size, count, grain)
  BY DEF Abstract!FirstFit, FirstFit, Abstract!Fits, Fits, Abstract!Min, Min, Abstract!None, None

LEMMA SameOccupied == Abstract!Occupied(live) = Occupied(live)
  BY DEF Abstract!Occupied, Occupied, Abstract!Span, Span

\* alloc_bitrange and dealloc_bitrange on words and masks implement the first-fit
\* allocator on sets of units, for every capacity and all lengths: this is what
\* the file system and the heap are modelled with.
THEOREM BitmapIsFirstFit == Spec => ImplementsFirstFit
<1>1. Init => Abstract!Init
  BY DEF Init, Abstract!Init, NoRange, Abstract!NoRange
<1>2. ASSUME BitmapInvariant, [Next]_vars PROVE [Abstract!Next]_(Abstract!vars)
  <2>1. ASSUME NEW count \in Counts, NEW word_align \in BOOLEAN, Alloc(count, word_align)
        PROVE  Abstract!Next
    <3> DEFINE grain == IF word_align THEN 4 ELSE 1
               N     == Words * WordBits
               fit   == FirstFit(Occupied(live), N, count, grain)
               q     == <<count, grain>>
    <3>1. /\ asked' = <<count, grain>> /\ reply' = Answer(count, grain)
          /\ fit = None => UNCHANGED live
          /\ fit # None => live' = live \cup {reply'}
      BY <1>2, <2>1, AllocAnswers
    <3>2. Abstract!FirstFit(Abstract!Occupied(live), N, count, grain) = fit
      BY SameFit, SameOccupied
    <3>3. q \in {<<c, g>> : c \in Counts, g \in {1, 4}} /\ q[1] = count /\ q[2] = grain
      OBVIOUS
    <3>4. CASE fit = None
      <4>1. Abstract!Refuse(count, grain)
        BY <3>1, <3>2, <3>4 DEF Abstract!Refuse, Answer, NoRange, Abstract!NoRange, None,
                                Abstract!None
      <4>2. QED
        <5> HIDE DEF q
        <5>1. QED
          BY <3>3, <4>1 DEF Abstract!Next
    <3>5. CASE fit # None
      <4>1. reply' = [start |-> fit, length |-> count]
        BY <3>1, <3>5 DEF Answer
      <4>2. Abstract!Grant(count, grain)
        BY <3>1, <3>2, <3>5, <4>1 DEF Abstract!Grant, None, Abstract!None
      <4>3. QED
        <5> HIDE DEF q
        <5>1. QED
          BY <3>3, <4>2 DEF Abstract!Next
    <3>6. QED
      BY <3>4, <3>5
  <2>2. ASSUME NEW r \in live, Dealloc(r) PROVE Abstract!Next
    BY <2>2 DEF Dealloc, Abstract!Next, Abstract!Release
  <2>3. CASE UNCHANGED vars
    BY <2>3 DEF vars, Abstract!vars
  <2>4. QED
    BY <1>2, <2>1, <2>2, <2>3 DEF Next
<1>3. QED
  BY <1>1, <1>2, BitmapInvariantHolds, PTL DEF Spec, ImplementsFirstFit, Abstract!Spec
=============================================================================
