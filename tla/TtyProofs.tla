----------------------------- MODULE TtyProofs -----------------------------
(***************************************************************************)
(* The two sides of tty_handler.                                           *)
(*                                                                         *)
(* Reading: the keyboard ring implements a bounded queue, for every        *)
(* capacity, every keyboard table and every length of read.  The ring      *)
(* itself carries no count: what waits is the stretch of slots from        *)
(* out_index to in_index.  The proof needs, at every step of the reader    *)
(* that an interrupt can split off, that this stretch is not empty and     *)
(* that the character copied is still the oldest one (ReaderHasChar).      *)
(*                                                                         *)
(* Writing: the terminal shows the end of what was written, for every size *)
(* of ring, every height and whatever a command writes.  The ring has no   *)
(* count either, and base_index may be overrun.  The proof needs that the  *)
(* ring holds as much of the output as fits (HoldsTail), that base_index   *)
(* stays behind index until the ring is used a second time (FirstRound),   *)
(* and how many lines render_terminal leaves (FewLines), which rests on    *)
(* the index (lines + 1) % 10 into a table of 20 (EntryIsRecent).          *)
(* That the screen shows this text takes, besides Rendered, an induction   *)
(* over the characters that kwrite writes (Fits).                          *)
(***************************************************************************)
EXTENDS KeyRing, Terminal, SequenceTheorems, FiniteSetTheorems, WellFoundedInduction, TLAPS

(* The keyboard ring *)

RingInv == TypeOK /\ ReaderHasChar

\* The wrap of an index, without the modulus.
LEMMA AfterWraps ==
    ASSUME NEW i \in Slots
    PROVE  After(i) = (IF i = Capacity - 1 THEN 0 ELSE i + 1) /\ After(i) \in Slots
  BY KeyRingAssumption, SMT DEF Slots, After

\* The stretch that waits and the slots it covers.
LEMMA WaitingRange ==
    ASSUME TypeOK
    PROVE  /\ Waiting \in 0 .. (Capacity - 1)
           /\ Waiting > 0 <=> out_index # in_index
           /\ \A n \in 1 .. Waiting : SlotOf(n) \in Slots /\ SlotOf(n) # in_index
           /\ SlotOf(1) = out_index
           /\ SlotOf(Waiting + 1) = in_index
  BY KeyRingAssumption, SMT DEF TypeOK, Waiting, SlotOf, Slots

\* keyboard_handler put a character: one more waits, in the slot that was in_index.
LEMMA PutGrows ==
    ASSUME TypeOK, After(in_index) # out_index,
           in_index' = After(in_index), out_index' = out_index
    PROVE  /\ Waiting' = Waiting + 1
           /\ Waiting < Capacity - 1
           /\ \A n \in 1 .. (Waiting + 1) : SlotOf(n)' = SlotOf(n)
<1>1. in_index' = (IF in_index = Capacity - 1 THEN 0 ELSE in_index + 1)
  BY AfterWraps DEF TypeOK
<1>2. Waiting' = Waiting + 1 /\ Waiting < Capacity - 1
  BY <1>1, KeyRingAssumption, SMT DEF TypeOK, Waiting, Slots
<1>3. \A n \in Int : SlotOf(n)' = SlotOf(n)
  BY DEF SlotOf
<1>4. Waiting \in Int
  BY KeyRingAssumption DEF TypeOK, Waiting, Slots
<1> QED BY <1>2, <1>3, <1>4

\* It dropped one: the ring was full.
LEMMA DropIsFull ==
    ASSUME TypeOK, After(in_index) = out_index
    PROVE  Waiting = Capacity - 1
<1>1. out_index = (IF in_index = Capacity - 1 THEN 0 ELSE in_index + 1)
  BY AfterWraps DEF TypeOK
<1> QED BY <1>1, KeyRingAssumption, SMT DEF TypeOK, Waiting, Slots

\* tty_handler moved on: the second one that waits is the first now.
LEMMA AdvanceShrinks ==
    ASSUME TypeOK, Waiting > 0,
           out_index' = After(out_index), in_index' = in_index
    PROVE  /\ Waiting' = Waiting - 1
           /\ \A n \in 1 .. (Waiting - 1) : SlotOf(n)' = SlotOf(n + 1)
<1>1. out_index' = (IF out_index = Capacity - 1 THEN 0 ELSE out_index + 1)
  BY AfterWraps DEF TypeOK
<1>2. Waiting' = Waiting - 1
  BY <1>1, KeyRingAssumption, SMT DEF TypeOK, Waiting, Slots
<1>3. \A n \in 1 .. (Waiting - 1) : SlotOf(n)' = SlotOf(n + 1)
  <2> SUFFICES ASSUME NEW n \in 1 .. (Waiting - 1) PROVE SlotOf(n)' = SlotOf(n + 1)
    OBVIOUS
  <2>1. Waiting \in 0 .. (Capacity - 1)
    BY WaitingRange
  <2> QED BY <1>1, <2>1, KeyRingAssumption, SMT DEF TypeOK, SlotOf, Slots
<1> QED BY <1>2, <1>3

\* Nothing else moves an index.
LEMMA SameWindow ==
    ASSUME UNCHANGED <<in_index, out_index>>
    PROVE  Waiting' = Waiting /\ \A n \in Int : SlotOf(n)' = SlotOf(n)
  BY DEF Waiting, SlotOf

-----------------------------------------------------------------------------
LEMMA PutInv ==
    ASSUME RingInv, NEW key \in Keys, KeyPress(key)
    PROVE  RingInv'
<1> DEFINE char == IF shift_pressed THEN Shifted[key] ELSE Plain[key]
<1>1. char \in Chars /\ Put(char) /\ UNCHANGED <<shift_pressed, reader>>
  BY KeyRingAssumption DEF KeyPress, RingInv, TypeOK
<1> HIDE DEF char
<1>2. CASE After(in_index) # out_index
  <2>1. /\ char_buffer' = [char_buffer EXCEPT ![in_index] = char]
        /\ in_index' = After(in_index) /\ UNCHANGED lost
    BY <1>1, <1>2 DEF Put
  <2>2. TypeOK'
    BY <1>1, <2>1, AfterWraps DEF RingInv, TypeOK, reader
  <2>3. /\ Waiting' = Waiting + 1 /\ Waiting \in Nat
        /\ \A n \in 1 .. (Waiting + 1) : SlotOf(n)' = SlotOf(n)
    BY <1>1, <1>2, <2>1, PutGrows, WaitingRange DEF RingInv, reader, Slots
  <2>4. ASSUME NEW n \in 1 .. Waiting
        PROVE  char_buffer'[SlotOf(n)] = char_buffer[SlotOf(n)]
    BY <2>1, WaitingRange DEF RingInv, TypeOK
  <2>5. char_buffer'[SlotOf(Waiting + 1)] = char
    BY <2>1, WaitingRange DEF RingInv, TypeOK
  <2>6. ASSUME NEW n \in 1 .. Waiting'
        PROVE  char_buffer'[SlotOf(n)'] \in Chars
    <3>1. CASE n = Waiting + 1
      BY <3>1, <2>3, <2>5, <1>1
    <3>2. CASE n # Waiting + 1
      BY <3>2, <2>3, <2>4 DEF RingInv, ReaderHasChar
    <3> QED BY <3>1, <3>2
  <2>7. pc' \in {"copy", "advance"} => Waiting' > 0 /\ left' > 0
    BY <1>1, <2>3 DEF RingInv, ReaderHasChar, reader
  <2>8. pc' = "advance" => c' = char_buffer'[out_index']
    <3> SUFFICES ASSUME pc = "advance" PROVE c = char_buffer'[out_index]
      BY <1>1 DEF reader
    <3>1. out_index # in_index /\ c = char_buffer[out_index]
      BY WaitingRange DEF RingInv, ReaderHasChar
    <3> QED BY <3>1, <2>1 DEF RingInv, TypeOK
  <2> QED BY <2>2, <2>6, <2>7, <2>8 DEF RingInv, ReaderHasChar
<1>3. CASE After(in_index) = out_index
  BY <1>1, <1>3, SameWindow DEF Put, RingInv, TypeOK, ReaderHasChar, ring, reader, Waiting, SlotOf
<1> QED BY <1>2, <1>3

LEMMA AdvanceInv ==
    ASSUME RingInv, ReadAdvance
    PROVE  RingInv'
<1>1. /\ Waiting > 0 /\ left > 0 /\ c = char_buffer[out_index] /\ c \in Chars
      /\ Waiting \in Nat
  BY WaitingRange DEF RingInv, ReaderHasChar, ReadAdvance
<1>2. /\ Waiting' = Waiting - 1
      /\ \A n \in 1 .. (Waiting - 1) : SlotOf(n)' = SlotOf(n + 1)
  BY <1>1, AdvanceShrinks DEF RingInv, ReadAdvance, ring
<1>3. TypeOK'
  <2>1. got' \in Seq(Chars)
    BY <1>1 DEF RingInv, TypeOK, ReadAdvance
  <2> QED BY <2>1, <1>1, AfterWraps DEF RingInv, TypeOK, ReadAdvance, ring
<1>4. ASSUME NEW n \in 1 .. Waiting'
      PROVE  char_buffer'[SlotOf(n)'] \in Chars
  BY <1>1, <1>2 DEF RingInv, ReaderHasChar, ReadAdvance, ring
<1> QED BY <1>3, <1>4 DEF RingInv, ReaderHasChar, ReadAdvance

LEMMA RingStep ==
    ASSUME RingInv, [Next]_vars
    PROVE  RingInv'
<1>1. CASE \E down \in BOOLEAN : ShiftKey(down)
  BY <1>1 DEF ShiftKey, RingInv, TypeOK, ReaderHasChar, ring, reader, Waiting, SlotOf
<1>2. CASE \E key \in Keys : KeyPress(key)
  BY <1>2, PutInv
<1>3. CASE \E count \in Counts : ReadCall(count)
  BY <1>3, KeyRingAssumption
     DEF ReadCall, RingInv, TypeOK, ReaderHasChar, ring, Waiting, SlotOf
<1>4. CASE ReadTest
  <2>1. TypeOK'
    BY <1>4 DEF ReadTest, RingInv, TypeOK, ring
  <2>2. pc' \in {"copy", "advance"} => Waiting' > 0 /\ left' > 0
    <3>1. UNCHANGED <<in_index, out_index, left>> /\ left \in Nat
      BY <1>4 DEF ReadTest, ring, RingInv, TypeOK
    <3>2. Waiting' = Waiting
      BY <3>1, SameWindow
    <3>3. pc' \in {"copy", "advance"} => left # 0 /\ out_index # in_index
      BY <1>4 DEF ReadTest
    <3>4. out_index # in_index => Waiting > 0
      BY WaitingRange DEF RingInv
    <3> QED BY <3>1, <3>2, <3>3, <3>4
  <2> QED BY <1>4, <2>1, <2>2 DEF ReadTest, RingInv, ReaderHasChar, ring, Waiting, SlotOf
<1>5. CASE ReadCopy
  <2>1. c' \in Chars \cup {NoChar}
    BY <1>5 DEF ReadCopy, RingInv, TypeOK
  <2> QED BY <1>5, <2>1 DEF ReadCopy, RingInv, TypeOK, ReaderHasChar, ring, Waiting, SlotOf
<1>6. CASE ReadAdvance
  BY <1>6, AdvanceInv
<1>7. CASE UNCHANGED vars
  BY <1>7 DEF vars, RingInv, TypeOK, ReaderHasChar, ring, reader, Waiting, SlotOf
<1> QED BY <1>1, <1>2, <1>3, <1>4, <1>5, <1>6, <1>7 DEF Next, KeyboardHandler, Reader

LEMMA RingInit == Init => RingInv
<1> SUFFICES ASSUME Init PROVE RingInv
  OBVIOUS
<1>1. Waiting = 0
  BY DEF Init, Waiting
<1>2. TypeOK
  <2>1. in_index \in Slots /\ out_index \in Slots
    BY KeyRingAssumption DEF Init, Slots
  <2>2. got \in Seq(Chars)
    BY DEF Init
  <2> QED BY <2>1, <2>2 DEF Init, TypeOK
<1>3. ReaderHasChar
  BY <1>1 DEF Init, ReaderHasChar
<1> QED BY <1>2, <1>3 DEF RingInv

\* Neither keyboard_handler nor tty_handler leaves the buffer of the ring.
THEOREM RingTypes == Spec => []TypeOK
<1>1. RingInv => TypeOK
  BY DEF RingInv
<1> QED BY <1>1, RingInit, RingStep, PTL DEF Spec

\* The reader only ever copies a character that keyboard_handler put there, and
\* that character is still the oldest one when the reader moves on.
THEOREM ReaderSafe == Spec => []ReaderHasChar
<1>1. RingInv => ReaderHasChar
  BY DEF RingInv
<1> QED BY <1>1, RingInit, RingStep, PTL DEF Spec

-----------------------------------------------------------------------------
\* The queue that the ring stands for.
QueueOK == /\ Queue \in Seq(Chars) /\ Len(Queue) = Waiting
           /\ \A n \in 1 .. Waiting : Queue[n] = char_buffer[SlotOf(n)]

LEMMA QueueIsSeq == RingInv => QueueOK
<1> SUFFICES ASSUME RingInv PROVE QueueOK
  OBVIOUS
<1>1. Waiting \in Nat
  BY WaitingRange DEF RingInv, Slots
<1>2. \A n \in 1 .. Waiting : char_buffer[SlotOf(n)] \in Chars
  BY DEF RingInv, ReaderHasChar
<1> QED BY <1>1, <1>2 DEF Queue, QueueOK

LEMMA PutRefines ==
    ASSUME RingInv, NEW key \in Keys, KeyPress(key)
    PROVE  Fifo!Next
<1> DEFINE char == IF shift_pressed THEN Shifted[key] ELSE Plain[key]
<1>1. char \in Chars /\ Put(char) /\ UNCHANGED <<shift_pressed, reader>>
  BY KeyRingAssumption DEF KeyPress, RingInv, TypeOK
<1> HIDE DEF char
<1>2. CASE After(in_index) # out_index
  <2>1. /\ char_buffer' = [char_buffer EXCEPT ![in_index] = char]
        /\ in_index' = After(in_index) /\ UNCHANGED lost
    BY <1>1, <1>2 DEF Put
  <2>2. /\ Waiting' = Waiting + 1 /\ Waiting < Capacity - 1 /\ Waiting \in Nat
        /\ \A n \in 1 .. (Waiting + 1) : SlotOf(n)' = SlotOf(n)
    BY <1>1, <1>2, <2>1, PutGrows, WaitingRange DEF RingInv, reader, Slots
  <2>3. /\ Queue' \in Seq(Chars) /\ Len(Queue') = Waiting + 1
        /\ \A n \in 1 .. (Waiting + 1) : Queue'[n] = char_buffer'[SlotOf(n)]
    <3>1. RingInv'
      BY PutInv
    <3>2. /\ Queue' \in Seq(Chars) /\ Len(Queue') = Waiting'
          /\ \A n \in 1 .. Waiting' : Queue'[n] = char_buffer'[SlotOf(n)']
      <4>1. QueueOK'
        BY <3>1, QueueIsSeq, PTL
      <4> QED BY <4>1 DEF QueueOK
    <3> QED BY <3>2, <2>2
  <2>4. \A n \in 1 .. Waiting : char_buffer'[SlotOf(n)] = Queue[n]
    BY <2>1, WaitingRange, QueueIsSeq DEF RingInv, TypeOK, QueueOK
  <2>5. char_buffer'[SlotOf(Waiting + 1)] = char
    BY <2>1, WaitingRange DEF RingInv, TypeOK
  <2>6. Queue' = Append(Queue, char)
    <3>1. /\ Queue \in Seq(Chars) /\ Len(Queue) = Waiting
          /\ Append(Queue, char) \in Seq(Chars) /\ Len(Append(Queue, char)) = Waiting + 1
          /\ \A n \in 1 .. Waiting : Append(Queue, char)[n] = Queue[n]
          /\ Append(Queue, char)[Waiting + 1] = char
      BY QueueIsSeq, <1>1, <2>2 DEF QueueOK
    <3>2. \A n \in 1 .. Len(Queue') : Queue'[n] = Append(Queue, char)[n]
      BY <3>1, <2>2, <2>3, <2>4, <2>5
    <3> HIDE DEF Queue
    <3> QED BY <3>1, <3>2, <2>3, SeqEqual
  <2>7. Fifo!Put(char)
    BY <2>1, <2>2, <2>6, <1>1, QueueIsSeq DEF Fifo!Put, reader, QueueOK
  <2> QED BY <1>1, <2>7 DEF Fifo!Next
<1>3. CASE After(in_index) = out_index
  <2>1. lost' = lost + 1 /\ UNCHANGED <<ring, got>> /\ UNCHANGED <<in_index, out_index>>
    BY <1>1, <1>3 DEF Put, ring, reader
  <2>2. Len(Queue) = Capacity - 1
    BY <1>3, DropIsFull, QueueIsSeq DEF RingInv, QueueOK
  <2>3. Queue' = Queue
    BY <2>1 DEF Queue, Waiting, SlotOf, ring
  <2> QED BY <2>1, <2>2, <2>3 DEF Fifo!Next, Fifo!Refuse
<1> QED BY <1>2, <1>3

LEMMA AdvanceRefines ==
    ASSUME RingInv, ReadAdvance
    PROVE  Fifo!Next
<1>1. /\ Waiting > 0 /\ c = char_buffer[out_index] /\ Waiting \in Nat /\ SlotOf(1) = out_index
  BY WaitingRange DEF RingInv, ReaderHasChar, ReadAdvance
<1>2. /\ Waiting' = Waiting - 1
      /\ \A n \in 1 .. (Waiting - 1) : SlotOf(n)' = SlotOf(n + 1)
  BY <1>1, AdvanceShrinks DEF RingInv, ReadAdvance, ring
<1>3. /\ Queue \in Seq(Chars) /\ Len(Queue) = Waiting
      /\ \A n \in 1 .. Waiting : Queue[n] = char_buffer[SlotOf(n)]
  BY QueueIsSeq DEF QueueOK
<1>4. /\ Queue' \in Seq(Chars) /\ Len(Queue') = Waiting - 1
      /\ \A n \in 1 .. (Waiting - 1) : Queue'[n] = char_buffer[SlotOf(n + 1)]
  <2>1. RingInv'
    BY AdvanceInv
  <2>2. /\ Queue' \in Seq(Chars) /\ Len(Queue') = Waiting'
        /\ \A n \in 1 .. Waiting' : Queue'[n] = char_buffer'[SlotOf(n)']
    <3>1. QueueOK'
      BY <2>1, QueueIsSeq, PTL
    <3> QED BY <3>1 DEF QueueOK
  <2> QED BY <2>2, <1>1, <1>2 DEF ReadAdvance, ring
<1> HIDE DEF Queue
<1>5. Queue # <<>> /\ Head(Queue) = c
  BY <1>1, <1>3
<1>6. Queue' = Tail(Queue)
  <2>1. /\ Tail(Queue) \in Seq(Chars) /\ Len(Tail(Queue)) = Waiting - 1
        /\ \A n \in 1 .. (Waiting - 1) : Tail(Queue)[n] = Queue[n + 1]
    BY <1>3, <1>5, HeadTailProperties
  <2>2. \A n \in 1 .. Len(Queue') : Queue'[n] = Tail(Queue)[n]
    BY <2>1, <1>1, <1>3, <1>4, SMTT(30)
  <2> QED BY <2>1, <2>2, <1>4, SeqEqual
<1> QED BY <1>5, <1>6 DEF Fifo!Next, Fifo!Get, ReadAdvance

LEMMA QueueStays ==
    ASSUME UNCHANGED <<char_buffer, in_index, out_index, got, lost>>
    PROVE  UNCHANGED Fifo!vars
  BY DEF Fifo!vars, Queue, Waiting, SlotOf

\* keyboard_handler and tty_handler, interleaved in every way that interrupts
\* allow, implement a queue of Capacity - 1 characters.
THEOREM RingIsFifo == Spec => ImplementsFifo
<1>1. Init => Fifo!Init
  <2> SUFFICES ASSUME Init PROVE Fifo!Init
    OBVIOUS
  <2>1. Waiting = 0
    BY DEF Init, Waiting
  <2>2. Queue = <<>>
    BY <2>1 DEF Queue
  <2> QED BY <2>2 DEF Init, Fifo!Init
<1>2. RingInv /\ [Next]_vars => [Fifo!Next]_Fifo!vars
  <2> SUFFICES ASSUME RingInv, [Next]_vars PROVE [Fifo!Next]_Fifo!vars
    OBVIOUS
  <2>1. CASE \E key \in Keys : KeyPress(key)
    BY <2>1, PutRefines
  <2>2. CASE ReadAdvance
    BY <2>2, AdvanceRefines
  <2>3. CASE UNCHANGED <<char_buffer, in_index, out_index, got, lost>>
    BY <2>3, QueueStays
  <2> QED BY <2>1, <2>2, <2>3
          DEF Next, KeyboardHandler, Reader, ShiftKey, ReadCall, ReadTest, ReadCopy,
              vars, ring, reader
<1> QED BY <1>1, <1>2, RingInit, RingStep, PTL DEF Spec, ImplementsFifo, Fifo!Spec

-----------------------------------------------------------------------------
(* The terminal *)

\* The place of the character written d characters before the last one.
PlaceOf(i, d) == IF d < i THEN i - 1 - d ELSE i - 1 - d + BufferSize

\* The ring b holds the end of o, as much of it as it has places.
HoldsTail(b, i, o) == \A d \in Places : d < Len(o) => b[PlaceOf(i, d)] = o[Len(o) - d]

\* Types of what the invariant speaks of.
TermTypes ==
    /\ out \in Seq(Glyphs) /\ tty_buffer \in [Places -> Glyphs]
    /\ index \in Places /\ base_index \in Places

\* Until the ring is used a second time.
FirstRound ==
    Len(out) < BufferSize =>
        /\ index = Len(out) /\ base_index <= index
        /\ out # <<>> => base_index < index
        /\ base_index = 0 \/ out[base_index] = NewLine

\* As render_terminal leaves it.
FewLines == Cardinality(LineStarts(tty_buffer, base_index, index)) < Height

\* The screen is that of the last rendering.
Rendered ==
    out # <<>> =>
        LET v == Kwrite(Cleared, ShownText)
        IN  /\ terminal_row = v.row /\ terminal_column = v.column
            /\ screen = v.cells /\ stray = v.out

TermInvariant ==
    TermTypes /\ HoldsTail(tty_buffer, index, out) /\ FirstRound /\ FewLines /\ Rendered

-----------------------------------------------------------------------------
\* Quotient and remainder.
LEMMA ModOf ==
    ASSUME NEW B \in Nat, B > 0, NEW x \in Nat
    PROVE  /\ x % B \in Nat /\ x % B < B
           /\ x \div B \in Nat
           /\ x = B * (x \div B) + (x % B)
<1>1. x % B \in Nat /\ x % B < B
  BY SMT
<1>2. x \div B \in Int
  BY SMT
<1>3. x = B * (x \div B) + (x % B)
  BY SMT
<1>4. x \div B >= 0
  BY <1>1, <1>2, <1>3, SMT
<1> QED BY <1>1, <1>2, <1>3, <1>4

\* A multiple is not small.
LEMMA MultipleIsLarge ==
    ASSUME NEW B \in Nat, B > 0, NEW q \in Int, q >= 1
    PROVE  B * q >= B
  BY SMT

\* The remainder is unique.
LEMMA ModIs ==
    ASSUME NEW B \in Nat, B > 0, NEW q \in Int, NEW r \in Nat, r < B,
           NEW x \in Nat, x = B * q + r
    PROVE  x % B = r
<1> DEFINE d == x \div B
           m == x % B
<1>1. m \in Nat /\ m < B /\ d \in Nat /\ x = B * d + m
  BY ModOf
<1> HIDE DEF d, m
<1>2. B * (q - d) = m - r
  BY <1>1, SMT
<1>3. ~ (q - d >= 1)
  <2>1. q - d >= 1 => B * (q - d) >= B
    BY <1>1, MultipleIsLarge
  <2> QED BY <1>1, <1>2, <2>1
<1>4. ~ (d - q >= 1)
  <2>1. d - q >= 1 => B * (d - q) >= B
    BY <1>1, MultipleIsLarge
  <2>2. B * (d - q) = r - m
    BY <1>1, SMT
  <2> QED BY <1>1, <2>1, <2>2
<1>5. q = d
  BY <1>1, <1>3, <1>4
<1>6. B * d + r = B * d + m
  BY <1>1, <1>5
<1>7. r = m
  BY <1>1, <1>6, SMT
<1> QED BY <1>7 DEF m

\* The place d characters back from where the index comes to after a characters.
LEMMA BackMod ==
    ASSUME NEW a \in Nat, NEW d \in Places, d < a
    PROVE  (a - 1 - d) % BufferSize = PlaceOf(a % BufferSize, d)
<1> DEFINE q == a \div BufferSize
           i == a % BufferSize
<1>0. BufferSize \in Nat /\ BufferSize > 0 /\ d \in Nat /\ d < BufferSize
  BY TerminalAssumption DEF Places
<1>1. i \in Nat /\ i < BufferSize /\ q \in Nat /\ a = BufferSize * q + i
  BY <1>0, ModOf
<1> HIDE DEF q, i
<1>2. a - 1 - d \in Nat
  BY <1>0
<1>3. CASE d < i
  <2>1. i - 1 - d \in Nat /\ i - 1 - d < BufferSize
    BY <1>0, <1>1, <1>3
  <2>2. a - 1 - d = BufferSize * q + (i - 1 - d)
    BY <1>0, <1>1, SMT
  <2>3. (a - 1 - d) % BufferSize = i - 1 - d
    BY <1>0, <1>1, <1>2, <2>1, <2>2, ModIs
  <2> QED BY <1>3, <2>3 DEF PlaceOf, i
<1>4. CASE ~ (d < i)
  <2>1. i - 1 - d + BufferSize \in Nat /\ i - 1 - d + BufferSize < BufferSize
    BY <1>0, <1>1, <1>4
  <2>2. a - 1 - d = BufferSize * (q - 1) + (i - 1 - d + BufferSize)
    BY <1>0, <1>1, SMT
  <2> DEFINE p == q - 1
             r == i - 1 - d + BufferSize
             x == a - 1 - d
  <2>3. p \in Int /\ r \in Nat /\ r < BufferSize /\ x \in Nat /\ x = BufferSize * p + r
    BY <1>1, <1>2, <2>1, <2>2
  <2> HIDE DEF p, r, x
  <2>4. x % BufferSize = r
    BY <1>0, <2>3, ModIs
  <2> QED BY <1>4, <2>4 DEF PlaceOf, i, r, x
<1> QED BY <1>3, <1>4

\* Different distances, different places.
LEMMA PlacesDiffer ==
    ASSUME NEW i \in Places, NEW d \in Places
    PROVE  /\ PlaceOf(i, d) \in Places
           /\ \A e \in Places : PlaceOf(i, d) = PlaceOf(i, e) => d = e
<1>1. BufferSize \in Nat
  BY TerminalAssumption
<1> QED BY <1>1 DEF PlaceOf, Places

\* The index after a write.
LEMMA AdvanceIs ==
    ASSUME NEW i \in Places, NEW n \in Nat
    PROVE  /\ Advance(i, n) \in Places
           /\ i + n < BufferSize => Advance(i, n) = i + n
           /\ i + n >= BufferSize /\ n < BufferSize => Advance(i, n) = i + n - BufferSize
<1>0. BufferSize \in Nat /\ BufferSize > 0 /\ i \in Nat /\ i < BufferSize
  BY TerminalAssumption DEF Places
<1>1. i + n \in Nat
  BY <1>0
<1>2. (i + n) % BufferSize \in Nat /\ (i + n) % BufferSize < BufferSize
  BY <1>0, <1>1, ModOf
<1>3. ASSUME i + n < BufferSize PROVE (i + n) % BufferSize = i + n
  BY <1>0, <1>1, <1>3, SMT
<1>4. ASSUME i + n >= BufferSize, n < BufferSize
      PROVE  (i + n) % BufferSize = i + n - BufferSize
  <2>1. i + n - BufferSize \in Nat /\ i + n - BufferSize < BufferSize
    BY <1>0, <1>4
  <2>2. i + n = BufferSize * 1 + (i + n - BufferSize)
    BY <1>0
  <2> QED BY <1>0, <1>1, <2>1, <2>2, ModIs
<1> QED BY <1>0, <1>2, <1>3, <1>4 DEF Advance, Places

-----------------------------------------------------------------------------
(* The ring of the terminal *)

\* The largest of a set, once it is known.
LEMMA MaxIs ==
    ASSUME NEW S \in SUBSET Nat, NEW n \in S, \A m \in S : m <= n
    PROVE  Max(S) = n
<1>1. \A m \in S : n >= m
  OBVIOUS
<1>2. PICK x \in S : x = Max(S) /\ \A m \in S : x >= m
  BY <1>1 DEF Max
<1> QED BY <1>2

\* tty_handler stores a text of any length: the ring holds the end of the longer
\* output, also where the text overwrites itself.
LEMMA WriteKeepsTail ==
    ASSUME TermTypes, HoldsTail(tty_buffer, index, out), NEW text \in Seq(Glyphs)
    PROVE  /\ Stored(text) \in [Places -> Glyphs]
           /\ HoldsTail(Stored(text), Advance(index, Len(text)), out \o text)
<1> DEFINE N == Len(text)
           L == Len(out)
           i == Advance(index, N)
           at(k) == {n \in 1 .. N : Advance(index, n - 1) = k}
<1>0. /\ tty_buffer \in [Places -> Glyphs] /\ index \in Places /\ out \in Seq(Glyphs)
      /\ BufferSize \in Nat /\ BufferSize > 0 /\ N \in Nat /\ L \in Nat
      /\ index \in Nat /\ index < BufferSize
  BY TerminalAssumption DEF TermTypes, Places
<1>1. i \in Places
  BY <1>0, AdvanceIs
<1>2. \A k \in Places : Stored(text)[k] = IF at(k) = {} THEN tty_buffer[k] ELSE text[Max(at(k))]
  BY DEF Stored
<1>3. \* The n-th character goes N - n places back from the new index.
      ASSUME NEW n \in 1 .. N, N - n < BufferSize
      PROVE  N - n \in Places /\ Advance(index, n - 1) = PlaceOf(i, N - n)
  <2> DEFINE a == index + N
             d == N - n
  <2>1. a \in Nat /\ d \in Places /\ d < a /\ a - 1 - d = index + (n - 1)
    BY <1>0, <1>3 DEF Places
  <2>2. (a - 1 - d) % BufferSize = PlaceOf(a % BufferSize, d)
    BY <2>1, BackMod
  <2> QED BY <2>1, <2>2 DEF Advance
<1>4. \* The d-th character from the end, if it is of the text.
      ASSUME NEW d \in Places, d < N
      PROVE  at(PlaceOf(i, d)) # {} /\ Max(at(PlaceOf(i, d))) = N - d
  <2>0. d \in Nat /\ d < BufferSize
    BY <1>0 DEF Places
  <2>1. N - d \in 1 .. N /\ N - (N - d) = d
    BY <1>0, <1>4, <2>0
  <2>2. N - d \in at(PlaceOf(i, d))
    BY <1>3, <2>0, <2>1
  <2>3. ASSUME NEW m \in at(PlaceOf(i, d)) PROVE m <= N - d
    <3>1. SUFFICES ASSUME m > N - d PROVE FALSE
      BY <1>0, <2>0
    <3>2. m \in 1 .. N /\ Advance(index, m - 1) = PlaceOf(i, d)
      OBVIOUS
    <3>3. N - m < BufferSize /\ N - m # d
      BY <1>0, <2>0, <3>1, <3>2
    <3>4. N - m \in Places /\ PlaceOf(i, N - m) = PlaceOf(i, d)
      BY <1>3, <3>2, <3>3
    <3> QED BY <1>1, <3>3, <3>4, PlacesDiffer
  <2>4. at(PlaceOf(i, d)) \in SUBSET Nat
    BY <1>0
  <2> HIDE DEF at
  <2>5. \A m \in at(PlaceOf(i, d)) : m <= N - d
    BY <2>3
  <2>6. Max(at(PlaceOf(i, d))) = N - d
    BY <2>2, <2>4, <2>5, MaxIs
  <2> QED BY <2>2, <2>6
<1>5. \* The d-th character from the end, if it was there before.
      ASSUME NEW d \in Places, d >= N
      PROVE  /\ at(PlaceOf(i, d)) = {}
             /\ d - N \in Places /\ PlaceOf(i, d) = PlaceOf(index, d - N)
  <2>0. d \in Nat /\ d < BufferSize
    BY <1>0 DEF Places
  <2>1. SUFFICES ASSUME at(PlaceOf(i, d)) # {} PROVE FALSE
    <3>1. d - N \in Places /\ N < BufferSize
      BY <1>0, <1>5, <2>0 DEF Places
    <3>2. /\ index + N < BufferSize => i = index + N
          /\ index + N >= BufferSize => i = index + N - BufferSize
      BY <1>0, <3>1, AdvanceIs
    <3> HIDE DEF i, N
    <3>3. PlaceOf(i, d) = PlaceOf(index, d - N)
      <4>1. CASE index + N < BufferSize
        <5>1. i = index + N
          BY <3>2, <4>1
        <5> QED BY <1>0, <2>0, <5>1 DEF PlaceOf
      <4>2. CASE index + N >= BufferSize
        <5>1. i = index + N - BufferSize
          BY <3>2, <4>2
        <5> QED BY <1>0, <1>5, <2>0, <4>2, <5>1 DEF PlaceOf
      <4> QED BY <1>0, <4>1, <4>2
    <3> QED BY <2>1, <3>1, <3>3
  <2>2. PICK m \in 1 .. N : Advance(index, m - 1) = PlaceOf(i, d)
    BY <2>1
  <2>3. N - m < BufferSize /\ N - m # d
    BY <1>0, <1>5, <2>0
  <2>4. N - m \in Places /\ PlaceOf(i, N - m) = PlaceOf(i, d)
    BY <1>3, <2>2, <2>3
  <2> QED BY <1>1, <2>3, <2>4, PlacesDiffer
<1>6. Stored(text) \in [Places -> Glyphs]
  <2>1. ASSUME NEW k \in Places PROVE Stored(text)[k] \in Glyphs
    <3>1. CASE at(k) = {}
      BY <1>0, <1>2, <3>1
    <3>2. CASE at(k) # {}
      <4>1. \E d \in Places : k = PlaceOf(i, d)
        <5> HIDE DEF i
        <5>1. CASE k < i
          <6>1. i - 1 - k \in Places /\ PlaceOf(i, i - 1 - k) = k
            BY <1>0, <1>1, <5>1 DEF Places, PlaceOf
          <6> QED BY <6>1
        <5>2. CASE ~ (k < i)
          <6>1. i - 1 - k + BufferSize \in Places /\ PlaceOf(i, i - 1 - k + BufferSize) = k
            BY <1>0, <1>1, <5>2 DEF Places, PlaceOf
          <6> QED BY <6>1
        <5> QED BY <5>1, <5>2
      <4>2. PICK d \in Places : k = PlaceOf(i, d)
        BY <4>1
      <4>3. d < N
        BY <1>0, <1>5, <3>2, <4>2 DEF Places
      <4>4. Max(at(k)) = N - d /\ N - d \in 1 .. N
        BY <1>0, <1>4, <4>2, <4>3 DEF Places
      <4>5. text[N - d] \in Glyphs
        BY <4>4
      <4> QED BY <1>2, <3>2, <4>4, <4>5
    <3> QED BY <3>1, <3>2
  <2>2. Stored(text) = [k \in Places |-> Stored(text)[k]]
    BY DEF Stored
  <2> QED BY <2>1, <2>2
<1>7. ASSUME NEW d \in Places, d < Len(out \o text)
      PROVE  Stored(text)[PlaceOf(i, d)] = (out \o text)[Len(out \o text) - d]
  <2>0. d \in Nat /\ d < BufferSize /\ PlaceOf(i, d) \in Places
    <3>1. PlaceOf(i, d) \in Places
      BY <1>1, PlacesDiffer
    <3> QED BY <1>0, <3>1 DEF Places
  <2>1. Len(out \o text) = L + N /\ Len(out \o text) - d = L + N - d
    BY <1>0
  <2>2. CASE d < N
    <3>1. Stored(text)[PlaceOf(i, d)] = text[N - d]
      BY <1>2, <1>4, <2>0, <2>2
    <3> DEFINE y == L + N - d
    <3>2. y \in (L + 1) .. (L + N) /\ y - L = N - d
      BY <1>0, <2>0, <2>2
    <3>3. \A x \in (L + 1) .. (L + N) : (out \o text)[x] = text[x - L]
      BY <1>0
    <3> HIDE DEF L, N, y
    <3>4. (out \o text)[y] = text[y - L]
      BY <3>2, <3>3, Zenon
    <3>5. (out \o text)[y] = text[N - d]
      BY <3>2, <3>4, Zenon
    <3> QED BY <2>1, <3>1, <3>5, Zenon DEF y
  <2>3. CASE d >= N
    <3>1. Stored(text)[PlaceOf(i, d)] = tty_buffer[PlaceOf(index, d - N)] /\ d - N \in Places
      BY <1>2, <1>5, <2>0, <2>3
    <3>2. d - N < L
      BY <1>0, <1>7, <2>0, <2>1
    <3>3. tty_buffer[PlaceOf(index, d - N)] = out[L - (d - N)]
      BY <3>1, <3>2 DEF HoldsTail
    <3>4. L + N - d \in 1 .. L /\ L - (d - N) = L + N - d
      BY <1>0, <2>0, <2>3, <3>2
    <3>5. \A x \in 1 .. L : (out \o text)[x] = out[x]
      BY <1>0
    <3> HIDE DEF L, N
    <3>6. (out \o text)[L + N - d] = out[L - (d - N)]
      BY <3>4, <3>5
    <3> QED BY <2>1, <3>1, <3>3, <3>6, Zenon
  <2>4. d < N \/ d >= N
    BY <1>0, <2>0
  <2> QED BY <2>2, <2>3, <2>4
<1> QED BY <1>6, <1>7 DEF HoldsTail

-----------------------------------------------------------------------------
(* The lines that render_terminal counts *)

\* The newlines can be counted.
LEMMA StartsFinite ==
    ASSUME NEW b, NEW base \in Int, NEW i \in Int
    PROVE  /\ IsFiniteSet(LineStarts(b, base, i))
           /\ Cardinality(LineStarts(b, base, i)) \in Nat
<1>1. LineStarts(b, base, i) \in SUBSET ((base + 1) .. i)
  BY DEF LineStarts
<1>2. IsFiniteSet((base + 1) .. i)
  BY FS_Interval
<1> QED BY <1>1, <1>2, FS_Subset, FS_CardinalityType

\* The place with the smallest number.
LEMMA FirstStart ==
    ASSUME NEW S \in SUBSET Nat, S # {}
    PROVE  \E m \in S : \A q \in S : m <= q
<1>1. PICK m \in S : \A q \in S : ~ (<<q, m>> \in OpToRel(<, Nat))
  BY NatLessThanWellFounded, WFMin, Zenon
<1>2. \A q \in S : ~ (q < m)
  BY <1>1, Zenon DEF OpToRel
<1> QED BY <1>2

\* The largest number of a bounded set.
LEMMA LastStart ==
    ASSUME NEW S \in SUBSET Nat, S # {}, NEW i \in Nat, \A p \in S : p <= i
    PROVE  \E m \in S : \A q \in S : q <= m
<1> DEFINE T == {x \in Nat : \E p \in S : x = i - p}
<1>1. T \in SUBSET Nat /\ T # {}
  <2>1. PICK p \in S : TRUE
    OBVIOUS
  <2>2. i - p \in T
    OBVIOUS
  <2> QED BY <2>2
<1>2. PICK x \in T : \A y \in T : x <= y
  <2> HIDE DEF T
  <2> QED BY <1>1, FirstStart
<1>3. PICK m \in S : x = i - m
  OBVIOUS
<1>4. ASSUME NEW q \in S PROVE q <= m
  <2>1. i - q \in T
    OBVIOUS
  <2> QED BY <1>2, <1>3, <2>1
<1> QED BY <1>4

\* lines counts up by one: every number up to the last is that of one newline.
LEMMA NumbersOf ==
    ASSUME NEW S \in SUBSET Nat, IsFiniteSet(S)
    PROVE  /\ \A p \in S : LinesAt(S, p) \in 1 .. Cardinality(S)
           /\ \A p, q \in S : p < q => LinesAt(S, p) < LinesAt(S, q)
           /\ \A n \in 1 .. Cardinality(S) : \E p \in S : LinesAt(S, p) = n
<1> DEFINE upto(p) == {q \in S : q <= p}
           lines == Cardinality(S)
<1>0. lines \in Nat
  BY FS_CardinalityType
<1>1. ASSUME NEW p \in S
      PROVE  /\ IsFiniteSet(upto(p)) /\ LinesAt(S, p) = Cardinality(upto(p))
             /\ LinesAt(S, p) \in 1 .. lines /\ LinesAt(S, p) \in Nat
  <2>1. upto(p) \in SUBSET S /\ p \in upto(p)
    OBVIOUS
  <2>2. LinesAt(S, p) = Cardinality(upto(p))
    BY DEF LinesAt
  <2> HIDE DEF upto
  <2>3. IsFiniteSet(upto(p)) /\ Cardinality(upto(p)) <= lines
    BY <2>1, FS_Subset
  <2>4. Cardinality(upto(p)) \in Nat /\ Cardinality(upto(p)) # 0
    BY <2>1, <2>3, FS_EmptySet, FS_CardinalityType
  <2> QED BY <1>0, <2>2, <2>3, <2>4
<1>2. ASSUME NEW p \in S, NEW q \in S, p < q PROVE LinesAt(S, p) < LinesAt(S, q)
  <2>1. upto(p) \in SUBSET upto(q) /\ q \in upto(q) /\ q \notin upto(p)
    <3>1. p \in Nat /\ q \in Nat /\ \A x \in S : x \in Nat
      OBVIOUS
    <3>2. \A x \in S : x <= p => x <= q
      BY <1>2, <3>1
    <3>3. q <= q /\ ~ (q <= p)
      BY <1>2, <3>1
    <3> QED BY <3>2, <3>3
  <2>2. /\ IsFiniteSet(upto(q)) /\ LinesAt(S, q) = Cardinality(upto(q))
        /\ LinesAt(S, p) = Cardinality(upto(p))
        /\ LinesAt(S, p) \in Nat /\ LinesAt(S, q) \in Nat
    BY <1>0, <1>1
  <2> HIDE DEF upto
  <2>3. /\ Cardinality(upto(p)) <= Cardinality(upto(q))
        /\ Cardinality(upto(q)) = Cardinality(upto(p)) => upto(q) = upto(p)
    BY <2>1, <2>2, FS_Subset
  <2>4. Cardinality(upto(p)) # Cardinality(upto(q))
    BY <2>1, <2>3
  <2> QED BY <2>2, <2>3, <2>4
<1>3. ASSUME NEW n \in 1 .. lines PROVE \E p \in S : LinesAt(S, p) = n
  <2> DEFINE f == [p \in S |-> LinesAt(S, p)]
             T == 1 .. lines
  <2>1. f \in Injection(S, T)
    <3>1. \A p, q \in S : LinesAt(S, p) = LinesAt(S, q) => p = q
      <4> SUFFICES ASSUME NEW p \in S, NEW q \in S, LinesAt(S, p) = LinesAt(S, q), p # q
          PROVE FALSE
        OBVIOUS
      <4>1. p < q \/ q < p
        OBVIOUS
      <4>2. LinesAt(S, p) \in Nat
        BY <1>1
      <4> QED BY <1>2, <4>1, <4>2
    <3>2. f \in [S -> T]
      BY <1>1
    <3>3. IsInjective(f)
      BY <3>1, Zenon DEF IsInjective
    <3> QED BY <3>2, <3>3 DEF Injection
  <2>2. IsFiniteSet(T) /\ Cardinality(T) = lines
    BY <1>0, FS_Interval
  <2> HIDE DEF f, T
  <2>3. f \in Surjection(S, T)
    BY <2>1, <2>2, FS_Injection
  <2>4. \E p \in S : f[p] = n
    BY <2>3 DEF Surjection, T
  <2> QED BY <2>4 DEF f
<1> QED BY <1>1, <1>2, <1>3

\* The arithmetic of lines_indices[(lines + 1) % 10]: the entry is of one of the last
\* TERMINAL_HEIGHT newlines, and not of the very last.
LEMMA EntryIsRecent ==
    ASSUME NEW lines \in Nat, lines >= Height
    PROVE  /\ \E n \in 1 .. lines : n > lines - Height /\ n % Height = (lines + 1) % Ten
           /\ lines % Height # (lines + 1) % Ten
<1> DEFINE r == (lines + 1) % Ten
           m == lines % Height
           q == lines \div Height
<1>0. Ten \in Nat /\ Ten > 1 /\ Height = 2 * Ten /\ Height \in Nat /\ Height > 0 /\ Ten < Height
  BY TerminalAssumption
<1>1. r \in Nat /\ r < Ten /\ r < Height
  <2>1. lines + 1 \in Nat
    OBVIOUS
  <2>2. r \in Nat /\ r < Ten
    BY <1>0, <2>1, ModOf
  <2> QED BY <1>0, <2>2
<1>2. m \in Nat /\ m < Height /\ q \in Nat /\ lines = Height * q + m
  BY <1>0, ModOf
<1> HIDE DEF r, m, q
<1>3. q >= 1
  <2>1. q = 0 => lines = m
    BY <1>0, <1>2
  <2> QED BY <1>0, <1>2, <2>1
<1>4. \E n \in 1 .. lines : n > lines - Height /\ n % Height = r
  <2>1. CASE r <= m
    <3> DEFINE n == Height * q + r
    <3>1. Height * q >= Height /\ Height * q \in Nat
      BY <1>0, <1>2, <1>3, MultipleIsLarge
    <3>2. n \in Nat /\ n >= 1 /\ n <= lines /\ n > lines - Height
      BY <1>0, <1>1, <1>2, <2>1, <3>1
    <3>3. n = Height * q + r
      OBVIOUS
    <3> HIDE DEF n
    <3>4. n % Height = r
      BY <1>0, <1>1, <1>2, <3>2, <3>3, ModIs
    <3> QED BY <3>2, <3>4
  <2>2. CASE r > m
    <3> DEFINE p == q - 1
               n == Height * p + r
    <3>1. p \in Nat /\ Height * p = Height * q - Height
      BY <1>0, <1>2, <1>3, SMT
    <3>2. Height * p \in Nat
      BY <1>0, <3>1, SMT
    <3> HIDE DEF p
    <3>3. n \in Nat /\ n >= 1 /\ n <= lines /\ n > lines - Height
      BY <1>0, <1>1, <1>2, <2>2, <3>1, <3>2
    <3>4. n = Height * p + r
      OBVIOUS
    <3> HIDE DEF n
    <3>5. n % Height = r
      <4>1. p \in Int
        BY <3>1
      <4> QED BY <1>0, <1>1, <3>3, <3>4, <4>1, ModIs
    <3> QED BY <3>3, <3>5
  <2> QED BY <1>1, <1>2, <2>1, <2>2
<1>5. m # r
  <2> SUFFICES ASSUME m = r PROVE FALSE
    OBVIOUS
  <2> DEFINE x == lines + 1
  <2>1. x \in Nat /\ x % Ten = r
    BY DEF r
  <2>2. CASE r + 1 < Ten
    <3> DEFINE p == 2 * q
               s == r + 1
    <3>1. p \in Int /\ s \in Nat /\ s < Ten /\ x = Ten * p + s
      BY <1>0, <1>1, <1>2, <2>2, SMT
    <3>2. s # r
      BY <1>1
    <3> HIDE DEF p, s, x
    <3>3. x % Ten = s
      BY <1>0, <2>1, <3>1, ModIs
    <3> QED BY <2>1, <3>2, <3>3
  <2>3. CASE r + 1 = Ten
    <3> DEFINE p == 2 * q + 1
               s == 0
    <3>1. p \in Int /\ s \in Nat /\ s < Ten /\ x = Ten * p + s
      BY <1>0, <1>1, <1>2, <2>3, SMT
    <3>2. s # r
      BY <1>0, <1>1, <2>3
    <3> HIDE DEF p, s, x
    <3>3. x % Ten = s
      BY <1>0, <2>1, <3>1, ModIs
    <3> QED BY <2>1, <3>2, <3>3
  <2> QED BY <1>0, <1>1, <2>2, <2>3
<1> QED BY <1>4, <1>5 DEF m, r

\* render_terminal leaves the place it shows from where it is, or moves it behind
\* one of the last TERMINAL_HEIGHT newlines shown, never up to index.
LEMMA ScrollIs ==
    ASSUME NEW b, NEW base \in Places, NEW i \in Places
    PROVE  /\ BaseIndex(b, base, i) \in Places
           /\ \/ BaseIndex(b, base, i) = base
              \/ /\ BaseIndex(b, base, i) \in LineStarts(b, base, i)
                 /\ BaseIndex(b, base, i) < i
           /\ Cardinality(LineStarts(b, BaseIndex(b, base, i), i)) < Height
<1> DEFINE S == LineStarts(b, base, i)
           lines == Cardinality(S)
           r == (lines + 1) % Ten
<1>0. /\ Height \in Nat /\ Height >= 4 /\ BufferSize \in Nat
      /\ base \in Nat /\ i \in Nat /\ i < BufferSize
  BY TerminalAssumption DEF Places
<1>1. IsFiniteSet(S) /\ lines \in Nat
  BY <1>0, StartsFinite
<1>2. CASE lines < Height
  <2>1. BaseIndex(b, base, i) = base
    BY <1>0, <1>1, <1>2 DEF BaseIndex
  <2> QED BY <1>2, <2>1
<1>3. CASE lines >= Height
  <2> DEFINE entered == {p \in S : LinesAt(S, p) % Height = r}
  <2>1. BaseIndex(b, base, i) = LinesIndices(S, r)
    BY <1>3 DEF BaseIndex
  <2>2. S \in SUBSET Nat /\ \A p \in S : p <= i
    BY <1>0 DEF LineStarts
  <2>3. /\ \A p \in S : LinesAt(S, p) \in 1 .. lines
        /\ \A p, q \in S : p < q => LinesAt(S, p) < LinesAt(S, q)
        /\ \A n \in 1 .. lines : \E p \in S : LinesAt(S, p) = n
    <3> HIDE DEF S
    <3> QED BY <1>1, <2>2, NumbersOf
  <2> HIDE DEF S
  <2>4. PICK n \in 1 .. lines : n > lines - Height /\ n % Height = r
    <3> HIDE DEF lines
    <3> QED BY <1>1, <1>3, EntryIsRecent
  <2>5. PICK p \in S : LinesAt(S, p) = n
    BY <2>3
  <2>6. entered \in SUBSET Nat /\ p \in entered /\ \A x \in entered : x <= i
    BY <2>2, <2>4, <2>5
  <2>7. PICK m \in entered : \A x \in entered : x <= m
    <3> HIDE DEF entered
    <3> QED BY <1>0, <2>6, LastStart
  <2>8. LinesIndices(S, r) = m
    <3>1. entered # {}
      BY <2>6
    <3>2. Max(entered) = m
      <4> HIDE DEF entered
      <4> QED BY <2>6, <2>7, MaxIs
    <3> QED BY <3>1, <3>2, Zenon DEF LinesIndices
  <2>9. m \in S /\ m \in Nat /\ m <= i /\ LinesAt(S, m) % Height = r
    BY <2>2, <2>7
  <2>10. LinesAt(S, m) > lines - Height /\ LinesAt(S, m) \in Nat
    <3>1. p <= m /\ p \in Nat
      BY <2>2, <2>6, <2>7
    <3>2. LinesAt(S, m) \in Nat /\ n \in Nat
      BY <1>1, <2>3, <2>9
    <3>3. LinesAt(S, m) >= n
      <4>1. p = m \/ p < m
        BY <2>9, <3>1
      <4>2. CASE p = m
        BY <2>5, <3>2, <4>2
      <4>3. CASE p < m
        BY <2>3, <2>5, <2>9, <3>2, <4>3
      <4> QED BY <4>1, <4>2, <4>3
    <3> QED BY <1>0, <1>1, <2>4, <3>2, <3>3
  <2>11. m # i
    <3> SUFFICES ASSUME m = i PROVE FALSE
      OBVIOUS
    <3>1. {q \in S : q <= m} = S
      BY <2>2
    <3>2. LinesAt(S, m) = lines
      BY <3>1 DEF LinesAt
    <3>3. lines % Height # r
      <4> HIDE DEF lines
      <4> QED BY <1>1, <1>3, EntryIsRecent
    <3> QED BY <2>9, <3>2, <3>3
  <2>12. m \in Places /\ m < i
    BY <1>0, <2>9, <2>11 DEF Places
  <2>13. LineStarts(b, m, i) = S \ {q \in S : q <= m}
    <3>1. base < m
      BY <1>0, <2>9 DEF S, LineStarts
    <3> QED BY <1>0, <2>9, <3>1 DEF S, LineStarts
  <2>14. Cardinality(LineStarts(b, m, i)) = lines - LinesAt(S, m)
    <3>1. S \cap {q \in S : q <= m} = {q \in S : q <= m}
      OBVIOUS
    <3> QED BY <1>1, <2>13, <3>1, FS_Difference DEF LinesAt
  <2>15. Cardinality(LineStarts(b, m, i)) < Height
    BY <1>0, <1>1, <2>10, <2>14
  <2> QED BY <2>1, <2>8, <2>9, <2>12, <2>15 DEF S
<1>4. lines < Height \/ lines >= Height
  BY <1>0, <1>1
<1> QED BY <1>2, <1>3, <1>4

-----------------------------------------------------------------------------
\* The empty ring.
LEMMA TermInitInv == TermInit => TermInvariant
<1> SUFFICES ASSUME TermInit PROVE TermInvariant
  OBVIOUS
<1>0. BufferSize \in Nat /\ BufferSize > 0 /\ Height \in Nat /\ Height > 0
  BY TerminalAssumption
<1>1. TermTypes
  BY <1>0 DEF TermInit, TermTypes, Places, Glyphs
<1>2. Len(out) = 0 /\ out = <<>> /\ index = 0 /\ base_index = 0
  BY DEF TermInit
<1>3. HoldsTail(tty_buffer, index, out)
  BY <1>0, <1>2 DEF HoldsTail, Places
<1>4. FirstRound
  BY <1>2 DEF FirstRound
<1>5. LineStarts(tty_buffer, base_index, index) = {}
  BY <1>2 DEF LineStarts
<1>6. FewLines
  BY <1>0, <1>5, FS_EmptySet DEF FewLines
<1>7. Rendered
  BY <1>2 DEF Rendered
<1> QED BY <1>1, <1>3, <1>4, <1>6, <1>7 DEF TermInvariant

\* One write, rendering included.
LEMMA WriteInv ==
    ASSUME TermInvariant, NEW text \in Seq(Glyphs), Write(text)
    PROVE  TermInvariant'
<1> DEFINE b == Stored(text)
           i == Advance(index, Len(text))
           n == BaseIndex(b, base_index, i)
           o == out \o text
<1>0. /\ TermTypes /\ HoldsTail(tty_buffer, index, out) /\ FirstRound
      /\ BufferSize \in Nat
  BY TerminalAssumption DEF TermInvariant
<1>1. tty_buffer' = b /\ index' = i /\ base_index' = n /\ out' = o
  BY Zenon DEF Write
<1>2. b \in [Places -> Glyphs] /\ HoldsTail(b, i, o)
  BY <1>0, WriteKeepsTail, Zenon
<1>3. /\ out \in Seq(Glyphs) /\ index \in Places /\ base_index \in Places
      /\ Len(out) \in Nat /\ Len(text) \in Nat
  BY <1>0 DEF TermTypes
<1>4. o \in Seq(Glyphs) /\ Len(o) = Len(out) + Len(text)
  BY <1>3
<1>5. i \in Places /\ (index + Len(text) < BufferSize => i = index + Len(text))
  BY <1>3, AdvanceIs
<1> HIDE DEF b, i
<1>6. /\ n \in Places
      /\ n = base_index \/ (n \in LineStarts(b, base_index, i) /\ n < i)
      /\ Cardinality(LineStarts(b, n, i)) < Height
  BY <1>3, <1>5, ScrollIs, Zenon
<1> HIDE DEF n
<1>7. TermTypes'
  BY <1>1, <1>2, <1>4, <1>5, <1>6 DEF TermTypes
<1>8. HoldsTail(tty_buffer, index, out)'
  BY <1>1, <1>2, Zenon DEF HoldsTail
<1>9. FewLines'
  BY <1>1, <1>6, Zenon DEF FewLines
<1>10. FirstRound'
  <2> SUFFICES ASSUME Len(o) < BufferSize
      PROVE  /\ i = Len(o) /\ n <= i
             /\ o # <<>> => n < i
             /\ n = 0 \/ o[n] = NewLine
    BY <1>1 DEF FirstRound
  <2>1. /\ index = Len(out) /\ base_index <= index
        /\ out # <<>> => base_index < index
        /\ base_index = 0 \/ out[base_index] = NewLine
    BY <1>0, <1>3, <1>4 DEF FirstRound
  <2>2. i = Len(o)
    BY <1>3, <1>4, <1>5, <2>1
  <2>3. base_index \in Nat /\ n \in Nat /\ i \in Nat
    BY <1>0, <1>3, <1>5, <1>6 DEF Places
  <2>4. base_index <= i /\ (o # <<>> => base_index < i)
    <3>1. base_index <= Len(out)
      BY <2>1
    <3>2. base_index <= i
      BY <1>3, <1>4, <2>2, <2>3, <3>1
    <3>3. CASE Len(text) = 0
      <4>1. o = out
        BY <1>3, <3>3
      <4> QED BY <2>1, <2>2, <3>2, <4>1
    <3>4. CASE Len(text) > 0
      BY <1>3, <1>4, <2>2, <2>3, <3>1, <3>2, <3>4
    <3> QED BY <1>3, <3>3, <3>4
  <2>5. n <= i /\ (o # <<>> => n < i)
    <3>1. n = base_index \/ n < i
      BY <1>6
    <3> QED BY <2>3, <2>4, <3>1
  <2>6. CASE n = base_index
    <3>1. n = 0 \/ o[n] = NewLine
      <4>1. CASE n > 0
        <5>1. n \in 1 .. Len(out) /\ out[n] = NewLine
          BY <1>3, <2>1, <2>3, <2>6, <4>1
        <5>2. \A x \in 1 .. Len(out) : o[x] = out[x]
          BY <1>3
        <5> QED BY <5>1, <5>2, Zenon
      <4>2. n = 0 \/ n > 0
        BY <2>3
      <4> QED BY <4>1, <4>2
    <3> QED BY <2>2, <2>5, <3>1
  <2>7. CASE n \in LineStarts(b, base_index, i) /\ n < i
    <3>1. n \in (base_index + 1) .. i /\ b[n - 1] = NewLine /\ n < i
      BY <2>7 DEF LineStarts
    <3> HIDE DEF o
    <3> DEFINE d == i - n
    <3>2. d \in Places /\ d < Len(o) /\ PlaceOf(i, d) = n - 1 /\ Len(o) - d = n
      BY <1>0, <1>5, <2>2, <2>3, <3>1 DEF Places, PlaceOf
    <3> HIDE DEF d
    <3>3. b[PlaceOf(i, d)] = o[Len(o) - d]
      BY <1>2, <3>2, Zenon DEF HoldsTail
    <3>4. o[n] = NewLine
      BY <3>1, <3>2, <3>3, Zenon
    <3> QED BY <2>2, <2>5, <3>4
  <2> QED BY <1>6, <2>6, <2>7
<1>11. Rendered'
  BY Zenon DEF Write, Rendered, ShownText
<1> QED BY <1>7, <1>8, <1>9, <1>10, <1>11 DEF TermInvariant

\* Every action of the terminal is one write.
LEMMA TermStep == TermInvariant /\ [TermNext]_termVars => TermInvariant'
<1> SUFFICES ASSUME TermInvariant, [TermNext]_termVars PROVE TermInvariant'
  OBVIOUS
<1>0. /\ \A p \in Glyphs : <<p>> \in Seq(Glyphs)
      /\ \A p, q \in Glyphs : <<p, q>> \in Seq(Glyphs)
      /\ NewLine \in Glyphs /\ Back \in Glyphs /\ "x" \in Glyphs /\ "$" \in Glyphs
  BY DEF Glyphs
<1>1. CASE Echo
  BY <1>0, <1>1, WriteInv, Zenon DEF Echo
<1>2. CASE Backspace
  BY <1>0, <1>2, WriteInv, Zenon DEF Backspace
<1>3. CASE Enter
  BY <1>0, <1>3, WriteInv, Zenon DEF Enter
<1>4. CASE Output
  <2>1. Outputs \subseteq Seq(Glyphs)
    BY TerminalAssumption
  <2> QED BY <1>4, <2>1, WriteInv, Zenon DEF Output
<1>5. CASE Prompt
  BY <1>0, <1>5, WriteInv, Zenon DEF Prompt
<1>6. CASE UNCHANGED termVars
  BY <1>6 DEF termVars, term, vga, TermInvariant, TermTypes, HoldsTail, FirstRound, FewLines,
              Rendered, ShownText
<1> QED BY <1>1, <1>2, <1>3, <1>4, <1>5, <1>6 DEF TermNext

\* The invariant holds always.
LEMMA TermAlways == TermSpec => []TermInvariant
<1> QED BY TermInitInv, TermStep, PTL DEF TermSpec

-----------------------------------------------------------------------------
\* Where each character shown stands in the output.
LEMMA ShownIs ==
    ASSUME TermInvariant, out # <<>>
    PROVE  /\ ShownText \in Seq(Glyphs) /\ Len(ShownText) \in 1 .. Len(out)
           /\ Len(ShownText) = (IF base_index < index THEN index - base_index
                                ELSE BufferSize - base_index + index)
           /\ \A k \in 1 .. Len(ShownText) :
                 /\ ShownText[k] = out[Len(out) - Len(ShownText) + k]
                 /\ base_index < index => ShownText[k] = tty_buffer[base_index + k - 1]
<1>0. /\ tty_buffer \in [Places -> Glyphs] /\ index \in Places /\ base_index \in Places
      /\ BufferSize \in Nat /\ out \in Seq(Glyphs) /\ Len(out) \in Nat /\ Len(out) > 0
      /\ HoldsTail(tty_buffer, index, out)
  BY TerminalAssumption DEF TermInvariant, TermTypes
<1> DEFINE m == IF base_index < index THEN index - base_index
                ELSE BufferSize - base_index + index
           at(k) == IF base_index + k - 1 < BufferSize THEN base_index + k - 1
                    ELSE base_index + k - 1 - BufferSize
<1>1. m \in Nat /\ m > 0 /\ m <= Len(out) /\ m <= BufferSize
  BY <1>0 DEF TermInvariant, FirstRound, Places
<1>2. /\ ShownText \in Seq(Glyphs) /\ Len(ShownText) = m
      /\ \A k \in 1 .. m : ShownText[k] = tty_buffer[at(k)]
  <2>1. CASE base_index < index
    <3>1. ShownText = [k \in 1 .. m |-> tty_buffer[base_index + k - 1]]
      BY <2>1 DEF ShownText, Shown, Piece
    <3>2. \A k \in 1 .. m : at(k) = base_index + k - 1 /\ base_index + k - 1 \in Places
      BY <1>0, <2>1 DEF Places
    <3> HIDE DEF m, at
    <3>3. \A k \in 1 .. m : tty_buffer[base_index + k - 1] \in Glyphs
      BY <1>0, <3>2
    <3>4. ShownText \in Seq(Glyphs) /\ Len(ShownText) = m
      BY <1>1, <3>1, <3>3
    <3>5. \A k \in 1 .. m : ShownText[k] = tty_buffer[at(k)]
      BY <3>1, <3>2
    <3> QED BY <3>4, <3>5
  <2>2. CASE ~ (base_index < index)
    <3> DEFINE u == Piece(tty_buffer, base_index, BufferSize)
               v == Piece(tty_buffer, 0, index)
    <3>1. ShownText = u \o v
      BY <2>2 DEF ShownText, Shown
    <3>2. /\ u \in Seq(Glyphs) /\ Len(u) = BufferSize - base_index
          /\ \A k \in 1 .. Len(u) : u[k] = tty_buffer[base_index + k - 1]
      BY <1>0 DEF Piece, Places
    <3>3. /\ v \in Seq(Glyphs) /\ Len(v) = index
          /\ \A k \in 1 .. Len(v) : v[k] = tty_buffer[k - 1]
      BY <1>0 DEF Piece, Places
    <3> HIDE DEF u, v
    <3>4. ShownText \in Seq(Glyphs) /\ Len(ShownText) = m
      <4>1. u \o v \in Seq(Glyphs) /\ Len(u \o v) = Len(u) + Len(v)
        <5>1. u \in Seq(Glyphs) /\ v \in Seq(Glyphs)
          BY <3>2, <3>3
        <5> QED BY <5>1
      <4>2. Len(u) + Len(v) = m
        BY <1>0, <2>2, <3>2, <3>3 DEF Places
      <4> QED BY <3>1, <4>1, <4>2
    <3>5. ASSUME NEW k \in 1 .. m PROVE ShownText[k] = tty_buffer[at(k)]
      <4>1. CASE k <= Len(u)
        <5>1. ShownText[k] = u[k] /\ k \in 1 .. Len(u)
          BY <1>1, <3>1, <3>2, <3>3, <3>5, <4>1
        <5>2. at(k) = base_index + k - 1
          BY <1>0, <3>2, <4>1 DEF Places
        <5> QED BY <3>2, <5>1, <5>2
      <4>2. CASE k > Len(u)
        <5>1. k - Len(u) \in 1 .. Len(v)
          BY <1>0, <2>2, <3>2, <3>3, <3>5, <4>2 DEF Places
        <5>2. ShownText[k] = v[k - Len(u)]
          BY <1>0, <1>1, <3>1, <3>2, <3>3, <3>5, <4>2, <5>1, SMTT(30) DEF Places
        <5>3. at(k) = k - Len(u) - 1
          BY <1>0, <3>2, <4>2 DEF Places
        <5> QED BY <3>3, <5>1, <5>2, <5>3
      <4> QED BY <1>0, <1>1, <3>2, <4>1, <4>2 DEF Places
    <3> QED BY <3>4, <3>5
  <2> QED BY <2>1, <2>2
<1>3. ASSUME NEW k \in 1 .. m
      PROVE  tty_buffer[at(k)] = out[Len(out) - m + k]
  <2>1. /\ m - k \in Places /\ m - k < Len(out)
        /\ PlaceOf(index, m - k) = at(k)
    BY <1>0, <1>1 DEF Places, PlaceOf
  <2>2. tty_buffer[PlaceOf(index, m - k)] = out[Len(out) - (m - k)]
    BY <1>0, <2>1, Zenon DEF HoldsTail
  <2>3. Len(out) - (m - k) = Len(out) - m + k
    BY <1>0, <1>1
  <2> QED BY <2>1, <2>2, <2>3
<1>4. ASSUME NEW k \in 1 .. m, base_index < index PROVE at(k) = base_index + k - 1
  BY <1>0, <1>4 DEF Places
<1>5. m \in 1 .. Len(out)
  BY <1>0, <1>1
<1>6. Len(ShownText) = (IF base_index < index THEN index - base_index
                        ELSE BufferSize - base_index + index)
  BY <1>2
<1> HIDE DEF m, at
<1>7. \A k \in 1 .. m :
         /\ ShownText[k] = out[Len(out) - m + k]
         /\ base_index < index => ShownText[k] = tty_buffer[base_index + k - 1]
  BY <1>2, <1>3, <1>4
<1> QED BY <1>2, <1>5, <1>6, <1>7

-----------------------------------------------------------------------------
(* The screen that kputc writes *)

\* Counting up: a set of numbers that holds 0 and the next of each holds them all.
LEMMA CountsUp ==
    ASSUME NEW last \in Nat, NEW S, 0 \in S, \A n \in 0 .. (last - 1) : n \in S => n + 1 \in S
    PROVE  last \in S
<1> DEFINE T == {n \in 0 .. last : n \notin S}
<1>1. SUFFICES ASSUME T # {} PROVE FALSE
  BY <1>1
<1>2. T \in SUBSET Nat
  OBVIOUS
<1>3. PICK m \in T : \A y \in T : ~(<<y, m>> \in OpToRel(<, Nat))
  <2> HIDE DEF T
  <2> QED BY <1>1, <1>2, NatLessThanWellFounded, WFMin, Zenon
<1>4. \A y \in T : ~(y < m)
  <2> HIDE DEF T
  <2> QED BY <1>2, <1>3, Zenon DEF OpToRel
<1>5. m # 0 /\ m - 1 \in 0 .. (last - 1)
  OBVIOUS
<1>6. m - 1 \notin T
  BY <1>4, <1>5
<1>7. m - 1 \in S
  BY <1>5, <1>6
<1> QED BY <1>5, <1>7

\* f holds the states of a loop over a text: the first, and one after each character.
IsLoop(f, F, first, text, m) ==
    \A n \in 0 .. m : f[n] = IF n = 0 THEN first ELSE F[<<f[n - 1], text[n]>>]

\* A loop over a text that changes a state of S with each character: the function
\* of the states after each of them exists.
LEMMA LoopExists ==
    ASSUME NEW S, NEW C, NEW F \in [S \X C -> S], NEW first \in S, NEW text \in Seq(C)
    PROVE  \E f \in [0 .. Len(text) -> S] : IsLoop(f, F, first, text, Len(text))
<1> USE DEF IsLoop
<1> DEFINE Run(f, m) == f \in [0 .. m -> S] /\ IsLoop(f, F, first, text, m)
           D == {m \in 0 .. Len(text) : \E f : Run(f, m)}
<1>0. Len(text) \in Nat /\ \A n \in 1 .. Len(text) : text[n] \in C
  OBVIOUS
<1>1. 0 \in D
  <2> DEFINE g == [n \in 0 .. 0 |-> first]
  <2>1. Run(g, 0)
    OBVIOUS
  <2> HIDE DEF Run, g
  <2>2. \E f : Run(f, 0)
    BY <2>1
  <2> QED BY <1>0, <2>2
<1>2. ASSUME NEW m \in 0 .. (Len(text) - 1), m \in D PROVE m + 1 \in D
  <2>1. PICK f : Run(f, m)
    BY <1>2
  <2> DEFINE next == F[<<f[m], text[m + 1]>>]
             g == [n \in 0 .. (m + 1) |-> IF n = m + 1 THEN next ELSE f[n]]
  <2>2. f \in [0 .. m -> S] /\ f[m] \in S /\ text[m + 1] \in C
    BY <1>0, <2>1
  <2>3. next \in S
    BY <2>2
  <2>4. g \in [0 .. (m + 1) -> S]
    <3> HIDE DEF next
    <3> QED BY <2>2, <2>3
  <2>5. ASSUME NEW n \in 0 .. (m + 1)
        PROVE  g[n] = IF n = 0 THEN first ELSE F[<<g[n - 1], text[n]>>]
    <3>1. CASE n = m + 1
      <4>1. g[n] = next /\ g[n - 1] = f[m] /\ n # 0
        BY <3>1
      <4> QED BY <3>1, <4>1
    <3>2. CASE n # m + 1
      <4>1. n \in 0 .. m /\ g[n] = f[n]
        BY <3>2
      <4>2. n # 0 => g[n - 1] = f[n - 1]
        BY <4>1
      <4>3. f[n] = IF n = 0 THEN first ELSE F[<<f[n - 1], text[n]>>]
        BY <2>1, <4>1
      <4> HIDE DEF g
      <4> QED BY <4>1, <4>2, <4>3
    <3> QED BY <3>1, <3>2
  <2> HIDE DEF g
  <2>6. Run(g, m + 1)
    BY <2>4, <2>5
  <2> QED BY <1>0, <2>6
<1> HIDE DEF D
<1>3. Len(text) \in D
  BY <1>0, <1>1, <1>2, CountsUp, Zenon
<1> QED BY <1>3 DEF D

-----------------------------------------------------------------------------
Screens == [row : Int, column : Int, cells : [Cells -> Glyphs \cup {Blank}], out : SUBSET Int]

\* The place of the next character is set.
LEMMA PlacedAt ==
    ASSUME NEW w \in Screens, NEW row \in Int, NEW column \in Int
    PROVE  /\ [w EXCEPT !.column = column, !.row = row] \in Screens
           /\ [w EXCEPT !.column = column, !.row = row]
                 = [row |-> row, column |-> column, cells |-> w.cells, out |-> w.out]
<1> DEFINE u == [w EXCEPT !.column = column]
<1>1. /\ u \in Screens /\ u.cells = w.cells /\ u.out = w.out /\ u.column = column
  BY DEF Screens
<1>2. [u EXCEPT !.row = row] = [w EXCEPT !.column = column, !.row = row]
  BY Zenon
<1> HIDE DEF u
<1>3. /\ [u EXCEPT !.row = row] \in Screens
      /\ [u EXCEPT !.row = row]
            = [row |-> row, column |-> column, cells |-> w.cells, out |-> w.out]
  BY <1>1 DEF Screens
<1> QED BY <1>2, <1>3, Zenon

LEMMA KputcType ==
    ASSUME NEW v \in Screens, NEW ch \in Glyphs
    PROVE  Kputc(v, ch) \in Screens
<1>0. Width \in Nat /\ Rows \in Nat
  BY TerminalAssumption
<1>1. ASSUME NEW w \in Screens, NEW g \in Glyphs \cup {Blank}
      PROVE  PutEntryAt(w, g) \in Screens
  <2>1. w.row * Width + w.column \in Int
    BY <1>0 DEF Screens
  <2> DEFINE cell == w.row * Width + w.column
  <2>2. PutEntryAt(w, g) = IF cell \in Cells THEN [w EXCEPT !.cells[cell] = g]
                           ELSE [w EXCEPT !.out = @ \cup {cell}]
    BY DEF PutEntryAt
  <2> HIDE DEF cell
  <2>3. CASE cell \in Cells
    <3>1. [w.cells EXCEPT ![cell] = g] \in [Cells -> Glyphs \cup {Blank}]
      BY DEF Screens
    <3>2. PutEntryAt(w, g) = [w EXCEPT !.cells = [w.cells EXCEPT ![cell] = g]]
      BY <2>2, <2>3
    <3> QED BY <3>1, <3>2 DEF Screens
  <2>4. CASE cell \notin Cells
    <3>1. w.out \cup {cell} \in SUBSET Int
      BY <2>1 DEF Screens, cell
    <3>2. PutEntryAt(w, g) = [w EXCEPT !.out = w.out \cup {cell}]
      BY <2>2, <2>4
    <3> QED BY <3>1, <3>2 DEF Screens
  <2> QED BY <2>3, <2>4
<1>2. [v EXCEPT !.column = 0, !.row = @ + 1] \in Screens
  <2>1. v.row + 1 \in Int
    BY DEF Screens
  <2>2. 0 \in Int
    OBVIOUS
  <2> QED BY <2>1, <2>2, PlacedAt, Zenon
<1>3. [v EXCEPT !.column = @ - 1] \in Screens
  BY DEF Screens
<1>4. PutEntryAt([v EXCEPT !.column = @ - 1], Blank) \in Screens
  BY <1>1, <1>3
<1> DEFINE w == PutEntryAt(v, ch)
<1>5. w \in Screens
  BY <1>1
<1> HIDE DEF w
<1>6. [w EXCEPT !.column = @ + 1] \in Screens
  BY <1>5 DEF Screens
<1>7. [w EXCEPT !.column = 0, !.row = IF @ + 1 = Rows THEN 0 ELSE @ + 1] \in Screens
  <2>1. (IF w.row + 1 = Rows THEN 0 ELSE w.row + 1) \in Int
    BY <1>5 DEF Screens
  <2>2. 0 \in Int
    OBVIOUS
  <2> QED BY <1>5, <2>1, <2>2, PlacedAt, Zenon
<1> QED BY <1>2, <1>4, <1>6, <1>7 DEF Kputc, w

\* The screen after each character of a text.
LEMMA KwriteSteps ==
    ASSUME NEW v \in Screens, NEW text \in Seq(Glyphs)
    PROVE  \E f : /\ f[0] = v /\ Kwrite(v, text) = f[Len(text)]
                  /\ \A n \in 0 .. (Len(text) - 1) : f[n + 1] = Kputc(f[n], text[n + 1])
<1> DEFINE F == [x \in Screens \X Glyphs |-> Kputc(x[1], x[2])]
           IsRun(f) == f = [n \in 0 .. Len(text) |->
                              IF n = 0 THEN v ELSE Kputc(f[n - 1], text[n])]
           R == CHOOSE f : IsRun(f)
<1>0. Len(text) \in Nat /\ \A n \in 1 .. Len(text) : text[n] \in Glyphs
  OBVIOUS
<1>1. F \in [Screens \X Glyphs -> Screens]
  BY KputcType
<1>2. PICK f \in [0 .. Len(text) -> Screens] : IsLoop(f, F, v, text, Len(text))
  <2> HIDE DEF F
  <2> QED BY <1>1, LoopExists, Zenon
<1>3. IsRun(f)
  <2>1. ASSUME NEW n \in 0 .. Len(text), n # 0
        PROVE  F[<<f[n - 1], text[n]>>] = Kputc(f[n - 1], text[n])
    <3>1. <<f[n - 1], text[n]>> \in Screens \X Glyphs
      BY <1>0, <2>1
    <3> QED BY <3>1
  <2> HIDE DEF F
  <2>2. \A n \in 0 .. Len(text) : f[n] = IF n = 0 THEN v ELSE Kputc(f[n - 1], text[n])
    BY <1>2, <2>1 DEF IsLoop
  <2> QED BY <2>2
<1>4. IsRun(R)
  <2> HIDE DEF IsRun
  <2> QED BY <1>3
<1>5. Kwrite(v, text) = R[Len(text)]
  BY DEF Kwrite
<1> HIDE DEF R
<1>6. R[0] = v /\ \A n \in 0 .. (Len(text) - 1) : R[n + 1] = Kputc(R[n], text[n + 1])
  <2>1. \A n \in 0 .. Len(text) : R[n] = IF n = 0 THEN v ELSE Kputc(R[n - 1], text[n])
    BY <1>4
  <2>2. \A n \in 0 .. (Len(text) - 1) : n + 1 \in 0 .. Len(text) /\ n + 1 # 0 /\ n + 1 - 1 = n
    BY <1>0
  <2> QED BY <1>0, <2>1, <2>2
<1> QED BY <1>5, <1>6

Editions == [lines : Seq(Seq(Glyphs)) \ {<<>>}, plain : BOOLEAN]

\* What a character does to the lines, case by case.
LEMMA EditedByIs ==
    ASSUME NEW t \in Editions, NEW ch \in Glyphs
    PROVE  LET n    == Len(t.lines)
               last == t.lines[n]
               With(line) == [t.lines EXCEPT ![n] = line]
           IN  /\ n \in Nat \ {0} /\ last \in Seq(Glyphs) /\ t.plain \in BOOLEAN
               /\ EditedBy(t, ch) \in Editions
               /\ ch = NewLine =>
                     EditedBy(t, ch) = [lines |-> Append(t.lines, <<>>), plain |-> t.plain]
               /\ ch # NewLine /\ ch # Back =>
                     EditedBy(t, ch) = [lines |-> With(Append(last, ch)),
                                        plain |-> t.plain /\ Len(last) + 1 < Width]
               /\ ch # NewLine /\ ch = Back /\ last # <<>> =>
                     EditedBy(t, ch) = [lines |-> With(Front(last)), plain |-> t.plain]
               /\ ch # NewLine /\ ch = Back /\ last = <<>> =>
                     EditedBy(t, ch) = [lines |-> t.lines, plain |-> FALSE]
<1> DEFINE n == Len(t.lines)
           last == t.lines[n]
           With(line) == [t.lines EXCEPT ![n] = line]
<1>1. /\ t.lines \in Seq(Seq(Glyphs)) /\ t.lines # <<>> /\ t.plain \in BOOLEAN
      /\ t = [lines |-> t.lines, plain |-> t.plain]
  BY DEF Editions
<1>2. n \in Nat \ {0} /\ last \in Seq(Glyphs)
  BY <1>1
<1>3. \A L \in Seq(Seq(Glyphs)), p \in BOOLEAN :
         L # <<>> => [lines |-> L, plain |-> p] \in Editions
  BY DEF Editions
<1>4. \A line \in Seq(Glyphs) : With(line) \in Seq(Seq(Glyphs)) /\ With(line) # <<>>
  BY <1>1, <1>2
<1>5. ASSUME ch = NewLine
      PROVE  /\ EditedBy(t, ch) = [lines |-> Append(t.lines, <<>>), plain |-> t.plain]
             /\ EditedBy(t, ch) \in Editions
  <2>1. EditedBy(t, ch) = [t EXCEPT !.lines = Append(t.lines, <<>>)]
    BY <1>5 DEF EditedBy
  <2>2. Append(t.lines, <<>>) \in Seq(Seq(Glyphs)) /\ Append(t.lines, <<>>) # <<>>
    BY <1>1
  <2>3. EditedBy(t, ch) = [lines |-> Append(t.lines, <<>>), plain |-> t.plain]
    BY <1>1, <2>1
  <2> QED BY <1>1, <1>3, <2>2, <2>3
<1>6. ASSUME ch # NewLine, ch # Back
      PROVE  /\ EditedBy(t, ch) = [lines |-> With(Append(last, ch)),
                                   plain |-> t.plain /\ Len(last) + 1 < Width]
             /\ EditedBy(t, ch) \in Editions
  <2> DEFINE p == t.plain /\ Len(last) + 1 < Width
             u == [t EXCEPT !.lines = With(Append(last, ch))]
  <2>1. EditedBy(t, ch) = [u EXCEPT !.plain = p]
    BY <1>6, Zenon DEF EditedBy
  <2>2. p \in BOOLEAN /\ Append(last, ch) \in Seq(Glyphs)
    BY <1>2
  <2> HIDE DEF With, p, last
  <2>3. u = [lines |-> With(Append(last, ch)), plain |-> t.plain]
    BY <1>1
  <2> HIDE DEF u
  <2>4. [u EXCEPT !.plain = p] = [lines |-> With(Append(last, ch)), plain |-> p]
    BY <2>3
  <2>5. With(Append(last, ch)) \in Seq(Seq(Glyphs)) /\ With(Append(last, ch)) # <<>>
    BY <1>4, <2>2, Zenon
  <2>6. [lines |-> With(Append(last, ch)), plain |-> p] \in Editions
    BY <1>3, <2>2, <2>5, Zenon
  <2>7. EditedBy(t, ch) \in Editions
    BY <2>1, <2>4, <2>6
  <2> QED BY <2>1, <2>4, <2>7 DEF p
<1>7. ASSUME ch # NewLine, ch = Back, last # <<>>
      PROVE  /\ EditedBy(t, ch) = [lines |-> With(Front(last)), plain |-> t.plain]
             /\ EditedBy(t, ch) \in Editions
  <2>1. EditedBy(t, ch) = [t EXCEPT !.lines = With(Front(last))]
    BY <1>7 DEF EditedBy
  <2>2. Front(last) \in Seq(Glyphs)
    BY <1>2, <1>7 DEF Front
  <2> HIDE DEF With, last
  <2>3. EditedBy(t, ch) = [lines |-> With(Front(last)), plain |-> t.plain]
    BY <1>1, <2>1
  <2> QED BY <1>1, <1>3, <1>4, <2>2, <2>3
<1>8. ASSUME ch # NewLine, ch = Back, last = <<>>
      PROVE  /\ EditedBy(t, ch) = [lines |-> t.lines, plain |-> FALSE]
             /\ EditedBy(t, ch) \in Editions
  <2>1. EditedBy(t, ch) = [t EXCEPT !.plain = FALSE]
    BY <1>8 DEF EditedBy
  <2>2. EditedBy(t, ch) = [lines |-> t.lines, plain |-> FALSE]
    BY <1>1, <2>1
  <2> QED BY <1>1, <1>3, <2>2
<1>9. EditedBy(t, ch) \in Editions
  BY <1>5, <1>6, <1>7, <1>8
<1> QED BY <1>1, <1>2, <1>5, <1>6, <1>7, <1>8, <1>9

\* The lines after each character of a text.
Unwritten == [lines |-> << <<>> >>, plain |-> TRUE]

LEMMA EditedSteps ==
    ASSUME NEW text \in Seq(Glyphs)
    PROVE  \E f : /\ f[0] = Unwritten /\ Edited(text) = f[Len(text)]
                  /\ \A n \in 0 .. (Len(text) - 1) : f[n + 1] = EditedBy(f[n], text[n + 1])
<1> DEFINE F == [x \in Editions \X Glyphs |-> EditedBy(x[1], x[2])]
           IsRun(f) == f = [n \in 0 .. Len(text) |->
                              IF n = 0 THEN Unwritten ELSE EditedBy(f[n - 1], text[n])]
           R == CHOOSE f : IsRun(f)
<1>0. Len(text) \in Nat /\ \A n \in 1 .. Len(text) : text[n] \in Glyphs
  OBVIOUS
<1>1. F \in [Editions \X Glyphs -> Editions]
  BY EditedByIs
<1>2. Unwritten \in Editions
  <2>1. << <<>> >> \in Seq(Seq(Glyphs)) /\ << <<>> >> # <<>>
    OBVIOUS
  <2> QED BY <2>1 DEF Unwritten, Editions
<1>3. PICK f \in [0 .. Len(text) -> Editions] : IsLoop(f, F, Unwritten, text, Len(text))
  <2> HIDE DEF F
  <2> QED BY <1>1, <1>2, LoopExists, Zenon
<1>4. IsRun(f)
  <2>1. ASSUME NEW n \in 0 .. Len(text), n # 0
        PROVE  F[<<f[n - 1], text[n]>>] = EditedBy(f[n - 1], text[n])
    <3>1. <<f[n - 1], text[n]>> \in Editions \X Glyphs
      BY <1>0, <2>1
    <3> QED BY <3>1
  <2> HIDE DEF F
  <2>2. \A n \in 0 .. Len(text) :
           f[n] = IF n = 0 THEN Unwritten ELSE EditedBy(f[n - 1], text[n])
    BY <1>3, <2>1 DEF IsLoop
  <2> QED BY <2>2
<1>5. IsRun(R)
  <2> HIDE DEF IsRun
  <2> QED BY <1>4
<1>6. Edited(text) = R[Len(text)]
  BY DEF Edited, Unwritten
<1> HIDE DEF R
<1>7. /\ R[0] = Unwritten
      /\ \A n \in 0 .. (Len(text) - 1) : R[n + 1] = EditedBy(R[n], text[n + 1])
  <2>1. \A n \in 0 .. Len(text) :
           R[n] = IF n = 0 THEN Unwritten ELSE EditedBy(R[n - 1], text[n])
    BY <1>5
  <2>2. \A n \in 0 .. (Len(text) - 1) : n + 1 \in 0 .. Len(text) /\ n + 1 # 0 /\ n + 1 - 1 = n
    BY <1>0
  <2> QED BY <1>0, <2>1, <2>2
<1> QED BY <1>6, <1>7

-----------------------------------------------------------------------------
\* Different places of the screen are different cells.
LEMMA CellsDiffer ==
    ASSUME NEW row \in 0 .. (Rows - 1), NEW column \in 0 .. (Width - 1)
    PROVE  /\ row * Width + column \in Cells
           /\ \A r \in 0 .. (Rows - 1), q \in 0 .. (Width - 1) :
                 r * Width + q = row * Width + column => r = row /\ q = column
<1>0. Width \in Nat /\ Width > 0 /\ Rows \in Nat
  BY TerminalAssumption
<1>1. \A x, y \in Nat : x < y => x * Width + Width <= y * Width
  <2> SUFFICES ASSUME NEW x \in Nat, NEW y \in Nat, x < y
      PROVE  x * Width + Width <= y * Width
    OBVIOUS
  <2>1. Width * (y - x) >= Width
    BY <1>0, SMT
  <2>2. Width * (y - x) = y * Width - x * Width
    BY <1>0, SMT
  <2>3. x * Width \in Nat /\ y * Width \in Nat
    BY <1>0
  <2> QED BY <1>0, <2>1, <2>2, <2>3
<1>2. \A x \in Nat : x * Width \in Nat
  BY <1>0
<1>3. row * Width + column \in Cells
  <2>1. row * Width + Width <= Rows * Width
    BY <1>0, <1>1
  <2>2. Rows * Width = Width * Rows
    BY <1>0
  <2>3. row * Width \in Nat /\ Width * Rows \in Nat
    BY <1>0
  <2> QED BY <1>0, <2>1, <2>2, <2>3 DEF Cells
<1>4. ASSUME NEW r \in 0 .. (Rows - 1), NEW q \in 0 .. (Width - 1),
             r * Width + q = row * Width + column
      PROVE  r = row /\ q = column
  <2>1. r * Width \in Nat /\ row * Width \in Nat
    BY <1>0
  <2>2. ~ (r < row)
    <3>1. r < row => r * Width + Width <= row * Width
      BY <1>0, <1>1
    <3> QED BY <1>0, <1>4, <2>1, <3>1
  <2>3. ~ (row < r)
    <3>1. row < r => row * Width + Width <= r * Width
      BY <1>0, <1>1
    <3> QED BY <1>0, <1>4, <2>1, <3>1
  <2>4. r = row
    BY <1>0, <2>2, <2>3
  <2>5. r * Width = row * Width
    BY <2>4
  <2> QED BY <1>0, <1>4, <2>1, <2>4, <2>5
<1> QED BY <1>3, <1>4

\* The character that the lines put at a place of the screen.
CharAt(lines, row, column) ==
    IF row < Len(lines) /\ column < Len(lines[row + 1]) THEN lines[row + 1][column + 1] ELSE Blank

\* The screen v shows the lines t, the next character behind the last of them.
Fits(v, t) ==
    /\ v.row = Len(t.lines) - 1 /\ v.column = Len(t.lines[Len(t.lines)])
    /\ v.column < Width /\ v.out = {}
    /\ \A row \in 0 .. (Rows - 1), column \in 0 .. (Width - 1) :
          v.cells[row * Width + column] = CharAt(t.lines, row, column)

\* One cell of the screen written.
LEMMA PutCell ==
    ASSUME NEW v \in Screens, NEW ch \in Glyphs \cup {Blank},
           v.row \in 0 .. (Rows - 1), v.column \in 0 .. (Width - 1)
    PROVE  LET w == PutEntryAt(v, ch)
           IN  /\ w \in Screens /\ w.row = v.row /\ w.column = v.column /\ w.out = v.out
               /\ \A r \in 0 .. (Rows - 1), q \in 0 .. (Width - 1) :
                     w.cells[r * Width + q] = IF r = v.row /\ q = v.column THEN ch
                                              ELSE v.cells[r * Width + q]
<1> DEFINE cell == v.row * Width + v.column
           cells == [v.cells EXCEPT ![cell] = ch]
<1>1. cell \in Cells
  BY CellsDiffer
<1>2. PutEntryAt(v, ch) = [v EXCEPT !.cells = cells]
  BY <1>1 DEF PutEntryAt
<1>3. v.cells \in [Cells -> Glyphs \cup {Blank}]
  BY DEF Screens
<1>4. cells \in [Cells -> Glyphs \cup {Blank}]
  BY <1>3
<1>5. ASSUME NEW r \in 0 .. (Rows - 1), NEW q \in 0 .. (Width - 1)
      PROVE  cells[r * Width + q] = IF r = v.row /\ q = v.column THEN ch
                                    ELSE v.cells[r * Width + q]
  <2>1. r * Width + q \in Cells
    BY CellsDiffer
  <2>2. r * Width + q = cell <=> r = v.row /\ q = v.column
    BY CellsDiffer
  <2> DEFINE place == r * Width + q
  <2> HIDE DEF place, cell
  <2>3. cells[place] = IF place = cell THEN ch ELSE v.cells[place]
    BY <1>3, <2>1 DEF place
  <2> QED BY <2>2, <2>3 DEF place
<1> HIDE DEF cells
<1>6. /\ PutEntryAt(v, ch) \in Screens
      /\ PutEntryAt(v, ch).row = v.row /\ PutEntryAt(v, ch).column = v.column
      /\ PutEntryAt(v, ch).out = v.out /\ PutEntryAt(v, ch).cells = cells
  BY <1>2, <1>4 DEF Screens
<1> QED BY <1>5, <1>6

\* Each character keeps the screen and the lines together, as long as the lines fit.
LEMMA KputcFits ==
    ASSUME NEW v \in Screens, NEW t \in Editions, NEW ch \in Glyphs, Fits(v, t),
           EditedBy(t, ch).plain, Len(EditedBy(t, ch).lines) <= Rows
    PROVE  Fits(Kputc(v, ch), EditedBy(t, ch))
<1> DEFINE n    == Len(t.lines)
           last == t.lines[n]
           e    == EditedBy(t, ch)
           With(line) == [t.lines EXCEPT ![n] = line]
           ChangesCell(w, at, g) ==
               \A r \in 0 .. (Rows - 1), q \in 0 .. (Width - 1) :
                  w.cells[r * Width + q] = IF r = n - 1 /\ q = at THEN g
                                           ELSE v.cells[r * Width + q]
           ChangesLine(line, at, g) ==
               \A q \in 0 .. (Width - 1) :
                  (IF q < Len(line) THEN line[q + 1] ELSE Blank)
                     = IF q = at THEN g ELSE IF q < Len(last) THEN last[q + 1] ELSE Blank
<1>0. Width \in Nat /\ Width > 0 /\ Rows \in Nat
  BY TerminalAssumption
<1>1. /\ n \in Nat \ {0} /\ last \in Seq(Glyphs) /\ t.plain \in BOOLEAN
      /\ t.lines \in Seq(Seq(Glyphs)) /\ Len(last) \in Nat
  BY EditedByIs DEF Editions
<1>2. /\ v.row = n - 1 /\ v.column = Len(last) /\ v.column < Width /\ v.out = {}
      /\ \A row \in 0 .. (Rows - 1), column \in 0 .. (Width - 1) :
            v.cells[row * Width + column] = CharAt(t.lines, row, column)
  BY DEF Fits
<1>3. \A k \in 1 .. n : t.lines[k] \in Seq(Glyphs) /\ Len(t.lines[k]) \in Nat
  BY <1>1
\* The last line becomes line, and only the cell at its end changes, to g.
<1>4. ASSUME NEW line \in Seq(Glyphs), NEW g \in Glyphs \cup {Blank}, NEW w \in Screens,
             NEW at \in 0 .. (Width - 1), n <= Rows, Len(line) < Width,
             w.row = n - 1, w.column = Len(line), w.out = {},
             ChangesCell(w, at, g), ChangesLine(line, at, g), e.lines = With(line)
      PROVE  Fits(w, e)
  <2>1. Len(e.lines) = n /\ e.lines[n] = line
    BY <1>1, <1>4
  <2>2. \A k \in 1 .. n : k # n => e.lines[k] = t.lines[k]
    BY <1>1, <1>4
  <2> HIDE DEF n, last, e, With
  <2>3. ASSUME NEW r \in 0 .. (Rows - 1), NEW q \in 0 .. (Width - 1)
        PROVE  w.cells[r * Width + q] = CharAt(e.lines, r, q)
    <3>1. v.cells[r * Width + q] = CharAt(t.lines, r, q)
      BY <1>2
    <3>2. CASE r = n - 1
      <4>1. CharAt(e.lines, r, q) = IF q < Len(line) THEN line[q + 1] ELSE Blank
        BY <1>1, <2>1, <3>2 DEF CharAt
      <4>2. CharAt(t.lines, r, q) = IF q < Len(last) THEN last[q + 1] ELSE Blank
        BY <1>1, <3>2 DEF CharAt, n, last
      <4> QED BY <1>4, <3>1, <3>2, <4>1, <4>2
    <3>3. CASE r # n - 1
      <4>1. w.cells[r * Width + q] = v.cells[r * Width + q]
        BY <1>4, <3>3
      <4>2. CharAt(e.lines, r, q) = CharAt(t.lines, r, q)
        <5>1. r < n => r + 1 \in 1 .. n /\ r + 1 # n
          BY <1>1, <3>3
        <5>2. r < n => e.lines[r + 1] = t.lines[r + 1]
          BY <2>2, <5>1
        <5>3. Len(t.lines) = n
          BY DEF n
        <5> QED BY <2>1, <5>2, <5>3, Zenon DEF CharAt
      <4> QED BY <3>1, <4>1, <4>2
    <3> QED BY <3>2, <3>3
  <2> QED BY <1>4, <2>1, <2>3 DEF Fits
<1>5. CASE ch = NewLine
  <2> DEFINE w == Kputc(v, ch)
  <2>1. e = [lines |-> Append(t.lines, <<>>), plain |-> t.plain]
    BY <1>5, EditedByIs
  <2>2. w = [v EXCEPT !.column = 0, !.row = v.row + 1]
    BY <1>5, Zenon DEF Kputc
  <2>3. v.row + 1 \in Int /\ 0 \in Int
    BY <1>1, <1>2
  <2>4. w = [row |-> v.row + 1, column |-> 0, cells |-> v.cells, out |-> v.out]
    BY <2>2, <2>3, PlacedAt, Zenon
  <2> HIDE DEF w, e
  <2>5. /\ Len(e.lines) = n + 1 /\ e.lines[n + 1] = <<>>
        /\ \A k \in 1 .. n : e.lines[k] = t.lines[k]
    BY <1>1, <2>1
  <2>6. /\ w.row = Len(e.lines) - 1 /\ w.column = 0 /\ w.out = {} /\ w.cells = v.cells
    BY <1>1, <1>2, <2>4, <2>5
  <2> HIDE DEF n, last
  <2>7. ASSUME NEW r \in 0 .. (Rows - 1), NEW q \in 0 .. (Width - 1)
        PROVE  CharAt(t.lines, r, q) = CharAt(e.lines, r, q)
    <3>0. Len(t.lines) = n
      BY DEF n
    <3>1. CASE r < n
      <4>1. r + 1 \in 1 .. n
        BY <1>1, <3>1
      <4>2. e.lines[r + 1] = t.lines[r + 1] /\ r < Len(e.lines)
        BY <1>1, <2>5, <3>1, <4>1
      <4> QED BY <3>0, <3>1, <4>2, Zenon DEF CharAt
    <3>2. CASE ~ (r < n)
      <4>1. r < Len(e.lines) => r + 1 = n + 1
        BY <1>1, <2>5, <3>2
      <4>2. r < Len(e.lines) => Len(e.lines[r + 1]) = 0
        BY <2>5, <4>1
      <4>3. ~ (r < Len(e.lines) /\ q < Len(e.lines[r + 1]))
        BY <4>2
      <4> QED BY <3>0, <3>2, <4>3, Zenon DEF CharAt
    <3> QED BY <3>1, <3>2
  <2>8. e.lines[Len(e.lines)] = <<>>
    BY <2>5
  <2> QED BY <1>0, <1>2, <2>6, <2>7, <2>8 DEF Fits, w, e
<1>6. CASE ch # NewLine /\ ch = Back
  <2>1. last # <<>> /\ e = [lines |-> With(Front(last)), plain |-> t.plain]
    <3>1. last = <<>> => e.plain = FALSE
      BY <1>6, EditedByIs
    <3>2. last # <<>>
      BY <3>1
    <3> QED BY <1>6, <3>2, EditedByIs
  <2> DEFINE u == [v EXCEPT !.column = v.column - 1]
             w == PutEntryAt(u, Blank)
             line == Front(last)
  <2>2. /\ line \in Seq(Glyphs) /\ Len(line) = Len(last) - 1 /\ Len(last) > 0
        /\ \A k \in 1 .. Len(line) : line[k] = last[k]
    BY <1>1, <2>1 DEF Front
  <2>3. Kputc(v, ch) = w
    BY <1>6, Zenon DEF Kputc
  <2>4. /\ u \in Screens /\ u.row = n - 1 /\ u.column = Len(line) /\ u.out = {}
        /\ u.cells = v.cells
    <3>1. v.column - 1 \in Int /\ v.column - 1 = Len(line)
      BY <1>1, <1>2, <2>2
    <3> DEFINE q == v.column - 1
    <3> HIDE DEF q
    <3>2. /\ [v EXCEPT !.column = q] \in Screens
          /\ [v EXCEPT !.column = q].row = v.row
          /\ [v EXCEPT !.column = q].column = q
          /\ [v EXCEPT !.column = q].out = v.out
          /\ [v EXCEPT !.column = q].cells = v.cells
      BY <3>1 DEF Screens, q
    <3> QED BY <1>2, <3>1, <3>2 DEF q
  <2>5. e.lines = With(line) /\ Len(e.lines) = n
    BY <1>1, <2>1
  <2>6. n <= Rows /\ u.row \in 0 .. (Rows - 1) /\ u.column \in 0 .. (Width - 1)
    BY <1>0, <1>1, <1>2, <2>2, <2>4, <2>5, SMTT(30)
  <2> HIDE DEF u, n, last, line, e, With
  <2>7. /\ w \in Screens /\ w.row = n - 1 /\ w.column = Len(line) /\ w.out = {}
        /\ ChangesCell(w, Len(line), Blank)
    BY <2>4, <2>6, PutCell
  <2>8. ChangesLine(line, Len(line), Blank)
    BY <1>1, <2>2
  <2> HIDE DEF w
  <2>9. Len(line) \in 0 .. (Width - 1) /\ Len(line) < Width /\ Blank \in Glyphs \cup {Blank}
    BY <1>0, <2>4, <2>6
  <2> HIDE DEF ChangesCell, ChangesLine
  <2>10. Fits(w, e)
    BY <1>4, <2>2, <2>5, <2>6, <2>7, <2>8, <2>9
  <2> QED BY <2>3, <2>10 DEF e
<1>7. CASE ch # NewLine /\ ch # Back
  <2>1. e = [lines |-> With(Append(last, ch)),
             plain |-> t.plain /\ Len(last) + 1 < Width]
    BY <1>7, EditedByIs
  <2>2. Len(last) + 1 < Width
    <3> DEFINE p == t.plain /\ Len(last) + 1 < Width
    <3>1. e = [lines |-> With(Append(last, ch)), plain |-> p]
      BY <2>1
    <3> HIDE DEF With, last, p, e
    <3>2. e.plain = p
      BY <3>1
    <3> QED BY <3>2 DEF p, e
  <2> DEFINE u == PutEntryAt(v, ch)
             line == Append(last, ch)
  <2>3. /\ line \in Seq(Glyphs) /\ Len(line) = Len(last) + 1
        /\ \A k \in 1 .. Len(last) : line[k] = last[k]
        /\ line[Len(last) + 1] = ch
    BY <1>1
  <2>4. e.lines = With(line) /\ Len(e.lines) = n
    BY <1>1, <2>1
  <2>5. n <= Rows /\ v.row \in 0 .. (Rows - 1) /\ v.column \in 0 .. (Width - 1)
    BY <1>0, <1>1, <1>2, <2>4
  <2> HIDE DEF n, last, line, e, With
  <2>6. /\ u \in Screens /\ u.row = n - 1 /\ u.column = Len(last) /\ u.out = {}
        /\ \A r \in 0 .. (Rows - 1), q \in 0 .. (Width - 1) :
              u.cells[r * Width + q] = IF r = n - 1 /\ q = Len(last) THEN ch
                                       ELSE v.cells[r * Width + q]
    BY <1>2, <2>5, PutCell
  <2> DEFINE w == [u EXCEPT !.column = u.column + 1]
  <2>7. Kputc(v, ch) = w
    <3>1. u.column + 1 # Width
      BY <1>1, <2>2, <2>6
    <3> QED BY <1>7, <3>1, Zenon DEF Kputc
  <2> HIDE DEF u
  <2>8. /\ w \in Screens /\ w.row = n - 1 /\ w.column = Len(line) /\ w.out = {}
        /\ w.cells = u.cells
    <3>1. u.column + 1 \in Int /\ u.column + 1 = Len(line)
      BY <1>1, <2>3, <2>6
    <3> DEFINE q == u.column + 1
    <3> HIDE DEF q
    <3>2. /\ [u EXCEPT !.column = q] \in Screens
          /\ [u EXCEPT !.column = q].row = u.row
          /\ [u EXCEPT !.column = q].column = q
          /\ [u EXCEPT !.column = q].out = u.out
          /\ [u EXCEPT !.column = q].cells = u.cells
      BY <2>6, <3>1 DEF Screens, q
    <3> QED BY <2>6, <3>1, <3>2 DEF q
  <2> HIDE DEF w
  <2>9. ChangesLine(line, Len(last), ch)
    BY <1>1, <2>3
  <2>10. Len(last) \in 0 .. (Width - 1) /\ Len(line) < Width /\ ch \in Glyphs \cup {Blank}
    BY <1>0, <1>1, <2>2, <2>3
  <2>11. ChangesCell(w, Len(last), ch)
    BY <2>6, <2>8
  <2>12. Fits(w, e)
    <3>1. /\ line \in Seq(Glyphs) /\ ch \in Glyphs \cup {Blank} /\ w \in Screens
          /\ n <= Rows /\ Len(line) < Width /\ Len(last) \in 0 .. (Width - 1)
      BY <2>3, <2>5, <2>8, <2>10
    <3>2. w.row = n - 1 /\ w.column = Len(line) /\ w.out = {} /\ e.lines = With(line)
      BY <2>4, <2>8
    <3> HIDE DEF ChangesCell, ChangesLine
    <3> QED BY <1>4, <2>9, <2>11, <3>1, <3>2, Zenon
  <2> QED BY <2>7, <2>12 DEF e
<1> QED BY <1>5, <1>6, <1>7

\* A screen that is cleared and written from the start shows the text, if it fits.
LEMMA KwriteFits ==
    ASSUME NEW text \in Seq(Glyphs), Edited(text).plain, Len(Edited(text).lines) <= Rows
    PROVE  Edited(text) \in Editions /\ Fits(Kwrite(Cleared, text), Edited(text))
<1>0. /\ Len(text) \in Nat /\ Width \in Nat /\ Width > 0 /\ Rows \in Nat
      /\ \A n \in 1 .. Len(text) : text[n] \in Glyphs
  BY TerminalAssumption
<1>1. Cleared \in Screens
  <2>1. [cell \in Cells |-> Blank] \in [Cells -> Glyphs \cup {Blank}]
    OBVIOUS
  <2> QED BY <2>1 DEF Cleared, Screens
<1>2. PICK f : /\ f[0] = Cleared /\ Kwrite(Cleared, text) = f[Len(text)]
               /\ \A n \in 0 .. (Len(text) - 1) : f[n + 1] = Kputc(f[n], text[n + 1])
  BY <1>1, KwriteSteps, Zenon
<1>3. PICK g : /\ g[0] = Unwritten /\ Edited(text) = g[Len(text)]
               /\ \A n \in 0 .. (Len(text) - 1) : g[n + 1] = EditedBy(g[n], text[n + 1])
  BY EditedSteps, Zenon
<1> DEFINE Good(n) == /\ f[n] \in Screens /\ g[n] \in Editions
                      /\ g[n].plain /\ Len(g[n].lines) <= Rows => Fits(f[n], g[n])
           S == {n \in 0 .. Len(text) : Good(n)}
<1>4. 0 \in S
  <2>1. Unwritten \in Editions
    <3>1. << <<>> >> \in Seq(Seq(Glyphs)) /\ << <<>> >> # <<>>
      OBVIOUS
    <3> QED BY <3>1 DEF Unwritten, Editions
  <2>2. Fits(Cleared, Unwritten)
    <3>1. /\ Unwritten.lines = << <<>> >> /\ Len(Unwritten.lines) = 1
          /\ Unwritten.lines[1] = <<>> /\ Len(Unwritten.lines[1]) = 0
      BY DEF Unwritten
    <3>2. /\ Cleared.row = 0 /\ Cleared.column = 0 /\ Cleared.out = {}
          /\ Cleared.cells = [cell \in Cells |-> Blank]
      BY DEF Cleared
    <3>3. ASSUME NEW r \in 0 .. (Rows - 1), NEW q \in 0 .. (Width - 1)
          PROVE  Cleared.cells[r * Width + q] = CharAt(Unwritten.lines, r, q)
      <4>1. r * Width + q \in Cells
        BY CellsDiffer
      <4>2. Cleared.cells[r * Width + q] = Blank
        BY <3>2, <4>1
      <4>3. r < 1 => r + 1 = 1
        BY <1>0
      <4>4. q >= 0
        BY <1>0
      <4> QED BY <3>1, <4>2, <4>3, <4>4 DEF CharAt
    <3>4. Unwritten.lines[Len(Unwritten.lines)] = <<>>
      BY <3>1
    <3>5. /\ Cleared.row = Len(Unwritten.lines) - 1
          /\ Cleared.column = Len(Unwritten.lines[Len(Unwritten.lines)])
          /\ Cleared.column < Width
      BY <1>0, <3>1, <3>2, <3>4
    <3> QED BY <3>2, <3>3, <3>5, Zenon DEF Fits
  <2> QED BY <1>0, <1>1, <1>2, <1>3, <2>1, <2>2
<1>5. ASSUME NEW n \in 0 .. (Len(text) - 1), n \in S PROVE n + 1 \in S
  <2>1. /\ f[n] \in Screens /\ g[n] \in Editions
        /\ g[n].plain /\ Len(g[n].lines) <= Rows => Fits(f[n], g[n])
    BY <1>5
  <2> DEFINE ch == text[n + 1]
  <2>2. ch \in Glyphs /\ f[n + 1] = Kputc(f[n], ch) /\ g[n + 1] = EditedBy(g[n], ch)
    BY <1>0, <1>2, <1>3
  <2> DEFINE t == g[n]
             e == EditedBy(t, ch)
  <2> HIDE DEF ch, S
  <2>3. Kputc(f[n], ch) \in Screens /\ e \in Editions
    BY <2>1, <2>2, KputcType, EditedByIs
  <2>4. e.plain => t.plain
    <3>1. Len(t.lines) \in Nat \ {0} /\ t.plain \in BOOLEAN
      BY <2>1, <2>2, EditedByIs
    <3>2. CASE ch = NewLine
      <4> DEFINE lines == Append(t.lines, <<>>)
      <4>1. e = [lines |-> lines, plain |-> t.plain]
        BY <2>1, <2>2, <3>2, EditedByIs
      <4> HIDE DEF lines, e
      <4> QED BY <4>1 DEF e
    <3>3. CASE ch # NewLine /\ ch # Back
      <4> DEFINE lines == [t.lines EXCEPT ![Len(t.lines)] = Append(t.lines[Len(t.lines)], ch)]
                 p == t.plain /\ Len(t.lines[Len(t.lines)]) + 1 < Width
      <4>1. e = [lines |-> lines, plain |-> p]
        BY <2>1, <2>2, <3>3, EditedByIs, ZenonT(30)
      <4> HIDE DEF lines, p, e
      <4>2. e.plain = p
        BY <4>1
      <4> QED BY <4>2 DEF p, e
    <3>4. CASE ch # NewLine /\ ch = Back
      <4> DEFINE last == t.lines[Len(t.lines)]
                 lines == [t.lines EXCEPT ![Len(t.lines)] = Front(last)]
      <4>1. \/ e = [lines |-> lines, plain |-> t.plain]
            \/ e = [lines |-> t.lines, plain |-> FALSE]
        BY <2>1, <2>2, <3>4, EditedByIs, ZenonT(30)
      <4> HIDE DEF lines, e
      <4> QED BY <4>1 DEF e
    <3> QED BY <3>2, <3>3, <3>4
  <2>5. Len(t.lines) <= Len(e.lines)
    <3>1. /\ Len(t.lines) \in Nat \ {0} /\ t.lines \in Seq(Seq(Glyphs))
          /\ t.lines[Len(t.lines)] \in Seq(Glyphs)
      BY <2>1, <2>2, EditedByIs DEF Editions
    <3> DEFINE With(line) == [t.lines EXCEPT ![Len(t.lines)] = line]
    <3>2. \A line \in Seq(Glyphs) : Len(With(line)) = Len(t.lines)
      BY <3>1
    <3>3. Len(Append(t.lines, <<>>)) = Len(t.lines) + 1
      BY <3>1
    <3>4. \/ e.lines = Append(t.lines, <<>>) \/ e.lines = t.lines
          \/ e.lines = With(Append(t.lines[Len(t.lines)], ch))
          \/ e.lines = With(Front(t.lines[Len(t.lines)])) /\ t.lines[Len(t.lines)] # <<>>
      <4> DEFINE last == t.lines[Len(t.lines)]
                 p == t.plain /\ Len(last) + 1 < Width
      <4>1. \/ e = [lines |-> Append(t.lines, <<>>), plain |-> t.plain]
            \/ e = [lines |-> With(Append(last, ch)), plain |-> p]
            \/ last # <<>> /\ e = [lines |-> With(Front(last)), plain |-> t.plain]
            \/ e = [lines |-> t.lines, plain |-> FALSE]
        BY <2>1, <2>2, EditedByIs, Zenon
      <4> HIDE DEF With, e, p
      <4> QED BY <4>1 DEF e
    <3>5. Append(t.lines[Len(t.lines)], ch) \in Seq(Glyphs)
      BY <2>2, <3>1
    <3>6. t.lines[Len(t.lines)] # <<>> => Front(t.lines[Len(t.lines)]) \in Seq(Glyphs)
      BY <3>1 DEF Front
    <3>7. Len(With(Append(t.lines[Len(t.lines)], ch))) = Len(t.lines)
      BY <3>2, <3>5, Zenon
    <3>8. t.lines[Len(t.lines)] # <<>>
             => Len(With(Front(t.lines[Len(t.lines)]))) = Len(t.lines)
      BY <3>2, <3>6, Zenon
    <3>9. Len(e.lines) = Len(t.lines) \/ Len(e.lines) = Len(t.lines) + 1
      BY <3>3, <3>4, <3>7, <3>8, Zenon
    <3> HIDE DEF With, e
    <3> QED BY <3>1, <3>9
  <2>6. e.plain /\ Len(e.lines) <= Rows => Fits(f[n + 1], e)
    <3> SUFFICES ASSUME e.plain, Len(e.lines) <= Rows PROVE Fits(f[n + 1], e)
      OBVIOUS
    <3>1. Len(t.lines) \in Nat /\ Len(e.lines) \in Nat
      BY <2>1, <2>3 DEF Editions
    <3>2. Len(t.lines) <= Rows
      BY <1>0, <2>5, <3>1
    <3>3. Fits(f[n], t)
      BY <2>1, <2>4, <3>2
    <3> QED BY <2>1, <2>2, <3>3, KputcFits, Zenon
  <2>7. Good(n + 1)
    BY <2>2, <2>3, <2>6
  <2>8. n + 1 \in 0 .. Len(text)
    BY <1>0
  <2> QED BY <2>7, <2>8 DEF S
<1>6. Len(text) \in S
  <2> HIDE DEF S
  <2> QED BY <1>0, <1>4, <1>5, CountsUp, Zenon
<1> QED BY <1>2, <1>3, <1>6

-----------------------------------------------------------------------------
\* ShowsTail: for every size of ring and however often it wraps, what is shown is
\* the end of what was written.
THEOREM TerminalShowsTail == TermSpec => []ShowsTail
<1>1. TermInvariant => ShowsTail
  <2> SUFFICES ASSUME TermInvariant, out # <<>>
      PROVE  ShownText # <<>> /\ IsSuffix(ShownText, out)
    BY DEF ShowsTail
  <2>1. /\ ShownText \in Seq(Glyphs) /\ Len(ShownText) \in 1 .. Len(out)
        /\ \A k \in 1 .. Len(ShownText) : ShownText[k] = out[Len(out) - Len(ShownText) + k]
    BY ShownIs
  <2>2. out \in Seq(Glyphs)
    BY DEF TermInvariant, TermTypes
  <2> HIDE DEF ShownText
  <2>3. IsSuffix(ShownText, out)
    BY <2>1, <2>2 DEF IsSuffix, IsPrefix, Reverse
  <2> QED BY <2>1, <2>3
<1> QED BY <1>1, TermAlways, PTL

\* ShowsHeight: while the text does not wrap, fewer newlines than TERMINAL_HEIGHT
\* are shown.
THEOREM TerminalShowsHeight == TermSpec => []ShowsHeight
<1>1. TermInvariant => ShowsHeight
  <2> SUFFICES ASSUME TermInvariant, base_index < index
      PROVE  NewLines(ShownText) < Height
    BY DEF ShowsHeight
  <2>0. /\ index \in Nat /\ base_index \in Nat /\ Height \in Nat
        /\ Cardinality(LineStarts(tty_buffer, base_index, index)) < Height
    BY TerminalAssumption DEF TermInvariant, TermTypes, FewLines, Places
  <2>1. out # <<>>
    BY <2>0, TerminalAssumption DEF TermInvariant, FirstRound, TermTypes, Places
  <2>2. /\ Len(ShownText) = index - base_index
        /\ \A k \in 1 .. Len(ShownText) : ShownText[k] = tty_buffer[base_index + k - 1]
    BY <2>1, ShownIs
  <2> DEFINE K == {k \in 1 .. Len(ShownText) : ShownText[k] = NewLine}
             S == LineStarts(tty_buffer, base_index, index)
             f == [k \in K |-> base_index + k]
  <2>3. f \in Injection(K, S)
    <3>1. \A k \in K : base_index + k \in S
      BY <2>0, <2>2 DEF LineStarts
    <3>2. \A k, l \in K : base_index + k = base_index + l => k = l
      BY <2>0, <2>2
    <3> HIDE DEF K, S
    <3> QED BY <3>1, <3>2 DEF Injection, IsInjective
  <2>4. IsFiniteSet(S) /\ Cardinality(S) \in Nat
    BY <2>0, StartsFinite
  <2> HIDE DEF K, S, f
  <2>5. IsFiniteSet(K) /\ Cardinality(K) <= Cardinality(S)
    BY <2>3, <2>4, FS_Injection
  <2>6. Cardinality(K) \in Nat
    BY <2>5, FS_CardinalityType
  <2>7. Cardinality(K) < Height
    BY <2>0, <2>4, <2>5, <2>6 DEF S
  <2> QED BY <2>7 DEF NewLines, K
<1> QED BY <1>1, TermAlways, PTL

\* CutsAtLine: until the ring is used a second time, what is shown begins at the
\* start of a line.
THEOREM TerminalCutsAtLine == TermSpec => []CutsAtLine
<1>1. TermInvariant => CutsAtLine
  <2> SUFFICES ASSUME TermInvariant, Len(out) < BufferSize, out # <<>>
      PROVE  \/ Len(out) - Len(ShownText) = 0
             \/ out[Len(out) - Len(ShownText)] = NewLine
    BY DEF CutsAtLine
  <2>1. /\ index = Len(out) /\ base_index < index
        /\ base_index = 0 \/ out[base_index] = NewLine
        /\ index \in Nat /\ base_index \in Nat
    BY TerminalAssumption DEF TermInvariant, FirstRound, TermTypes, Places
  <2>2. Len(ShownText) = index - base_index
    BY <2>1, ShownIs
  <2> HIDE DEF ShownText
  <2>3. Len(out) - Len(ShownText) = base_index
    BY <2>1, <2>2
  <2> QED BY <2>1, <2>3
<1> QED BY <1>1, TermAlways, PTL

\* ScreenIsText: for every size of screen and of ring, a text that fits on the
\* screen is shown line by line, the erased characters gone, no cell outside written.
THEOREM TerminalScreenIsText == TermSpec => []ScreenIsText
<1>1. TermInvariant => ScreenIsText
  <2> DEFINE t == Edited(ShownText)
             v == Kwrite(Cleared, ShownText)
  <2> SUFFICES ASSUME TermInvariant, out # <<>>, t.plain, Len(t.lines) <= Rows
      PROVE  /\ stray = {}
             /\ \A row \in 0 .. (Rows - 1), column \in 0 .. (Width - 1) :
                   screen[row * Width + column] = CharAt(t.lines, row, column)
    BY DEF ScreenIsText, CharAt
  <2>1. ShownText \in Seq(Glyphs)
    BY ShownIs
  <2>2. Fits(v, t)
    BY <2>1, KwriteFits
  <2>3. screen = v.cells /\ stray = v.out
    BY DEF TermInvariant, Rendered
  <2> HIDE DEF v, t
  <2> QED BY <2>2, <2>3 DEF Fits
<1> QED BY <1>1, TermAlways, PTL
=============================================================================
