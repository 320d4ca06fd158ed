------------------------------- MODULE Bitmap -------------------------------
(***************************************************************************)
(* The bitmap allocator of util.c: apply_bitrange, alloc_bitrange and      *)
(* dealloc_bitrange on an array of 32-bit words.                           *)
(*                                                                         *)
(* A word is the set of its bits that are 1.  Bits are numbered from the   *)
(* left, as the code does: bit p of a word is 1 << (31 - p), so the mask   *)
(* (1 << (32 - k)) - 1 is the set k..31, its complement is 0..k-1, | is    *)
(* union, & ~ is difference and ^ is symmetric difference.                 *)
(***************************************************************************)
EXTENDS Ranges

CONSTANTS Capacity,   \* the capacity argument of alloc_bitrange
          Counts,     \* lengths that callers ask for
          MaxLive     \* bound: ranges live at the same time

ASSUME CapacityAssumption == Capacity \in Nat /\ Capacity >= 4
ASSUME CountsAssumption == Counts \subseteq Nat \ {0}

VARIABLES bitmap,     \* word number -> set of 1 bits
          live,       \* what the callers hold: the ranges granted and not given back
          asked,      \* count and alignment of the last alloc_bitrange
          reply       \* the BitRange it returned

vars == <<bitmap, live, asked, reply>>

WordBits == 32
Words == Capacity \div 4           \* capacity/sizeof(uint32_t), the words that are scanned
Bits == 0 .. (WordBits - 1)
AllOnes == Bits

IsSet(bm, p) == (p % WordBits) \in bm[p \div WordBits]

\* All the 1 bits, numbered through the words.
SetBits(bm) == {p \in 0 .. (Words * WordBits - 1) : IsSet(bm, p)}

-----------------------------------------------------------------------------
(* apply_bitrange *)

Xor(a, b) == (a \ b) \cup (b \ a)

\* A bug the properties must notice: the word behind a range that ends on a word
\* boundary is taken whole (no end_bit test).
CoeffNoEndTest(range, word) ==
    LET start_word == range.start \div WordBits
        start_bit  == range.start % WordBits
        end_word   == (range.start + range.length) \div WordBits
        end_bit    == (range.start + range.length) % WordBits
    IN  IF start_word = end_word THEN start_bit .. (end_bit - 1)
        ELSE IF word = start_word THEN start_bit .. 31
        ELSE IF word = end_word /\ end_bit # 0 THEN 0 .. (end_bit - 1)
        ELSE AllOnes

\* The bits of one word that the range covers, as the three cases of the loop
\* compute them.
Coeff(range, word) ==
    LET start_word == range.start \div WordBits
        start_bit  == range.start % WordBits
        end_word   == (range.start + range.length) \div WordBits
        end_bit    == (range.start + range.length) % WordBits
        from_start == IF start_bit # 0 THEN start_bit .. 31 ELSE AllOnes
    IN  IF start_word = end_word THEN Xor(from_start, end_bit .. 31)
        ELSE IF word = start_word THEN from_start
        ELSE IF word = end_word THEN IF end_bit # 0 THEN 0 .. (end_bit - 1) ELSE {}
        ELSE AllOnes

ApplyBitrange(bm, range, set) ==
    [w \in DOMAIN bm |->
        IF /\ range.start \div WordBits <= w
           /\ w <= (range.start + range.length) \div WordBits
        THEN IF set THEN bm[w] \cup Coeff(range, w) ELSE bm[w] \ Coeff(range, w)
        ELSE bm[w]]

-----------------------------------------------------------------------------
(* alloc_bitrange: one pass over the bits, left to right *)

\* A bug the properties must notice: an aligned scan restarts right behind a
\* 1 bit, without bit &= ~0b11.
VisitNoAlign(bm, count, word_align, scan, p) ==
    IF scan.length = count \/ p < scan.next THEN scan
    ELSE IF IsSet(bm, p)
         THEN [start |-> p + 1, length |-> 0, next |-> p + 1]
         ELSE [scan EXCEPT !.length = @ + 1, !.next = p + 1]

\* scan.next is the bit the loop visits next: a 1 bit makes an aligned scan
\* jump behind its group of four (bit &= ~0b11).
Visit(bm, count, word_align, scan, p) ==
    IF scan.length = count \/ p < scan.next THEN scan
    ELSE IF IsSet(bm, p)
         THEN LET behind == IF word_align THEN 4 * (p \div 4) + 4 ELSE p + 1
              IN  [start |-> behind, length |-> 0, next |-> behind]
         ELSE [scan EXCEPT !.length = @ + 1, !.next = p + 1]

Scan(bm, count, word_align) ==
    LET scan[p \in 0 .. (Words * WordBits)] ==
            IF p = 0 THEN [start |-> 0, length |-> 0, next |-> 0]
            ELSE Visit(bm, count, word_align, scan[p - 1], p - 1)
    IN  scan[Words * WordBits]

AllocBitrange(bm, count, word_align) ==
    LET scan == Scan(bm, count, word_align)
    IN  IF scan.length = count
        THEN [start |-> scan.start, length |-> count]
        ELSE NoRange

-----------------------------------------------------------------------------
Init == /\ bitmap = [w \in 0 .. (Words - 1) |-> {}]
        /\ live = {}
        /\ asked = <<0, 1>>
        /\ reply = NoRange

Alloc(count, word_align) ==
    /\ Cardinality(live) < MaxLive
    /\ asked' = <<count, IF word_align THEN 4 ELSE 1>>
    /\ reply' = AllocBitrange(bitmap, count, word_align)
    /\ IF reply'.length = 0
       THEN UNCHANGED <<bitmap, live>>
       ELSE /\ bitmap' = ApplyBitrange(bitmap, reply', TRUE)
            /\ live' = live \cup {reply'}

Dealloc(range) ==
    /\ bitmap' = ApplyBitrange(bitmap, range, FALSE)
    /\ live' = live \ {range}
    /\ UNCHANGED <<asked, reply>>

Next == \/ \E count \in Counts, word_align \in BOOLEAN : Alloc(count, word_align)
        \/ \E range \in live : Dealloc(range)

Spec == Init /\ [][Next]_vars

-----------------------------------------------------------------------------
\* The masks of apply_bitrange set and clear exactly the bits of their range,
\* whatever word boundaries it crosses: the 1 bits are those of the live ranges.
BitsAreLive == SetBits(bitmap) = Occupied(live)

\* alloc_bitrange fails only when no range fits, and what it returns is the
\* first one that does: its scan, restarted behind every 1 bit, misses no
\* candidate and hands no bit out twice.
Abstract == INSTANCE RangeAllocator
    WITH Size <- Words * WordBits,
         Requests <- {<<count, grain>> : count \in Counts, grain \in {1, 4}}
ImplementsFirstFit == Abstract!Spec

-----------------------------------------------------------------------------
(* The inductive invariant behind both. *)

Bitmaps    == [0 .. (Words - 1) -> SUBSET Bits]
LiveRanges == {r \in [start : Nat, length : Nat \ {0}] : r.start + r.length <= Words * WordBits}

BitmapInvariant ==
    /\ bitmap \in Bitmaps
    /\ live \subseteq LiveRanges
    /\ Disjoint(live)
    /\ BitsAreLive
=============================================================================
