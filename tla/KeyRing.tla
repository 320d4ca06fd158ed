------------------------------ MODULE KeyRing ------------------------------
(***************************************************************************)
(* Keyboard input: keyboard_handler of io.c puts characters into           *)
(* keyboard_input_buffer, tty_handler of file_handlers.c takes them out.   *)
(*                                                                         *)
(* The handler runs with interrupts off and so is one step.  The reader is *)
(* ordinary kernel code that an interrupt may split between any two of its *)
(* accesses to the ring: nothing but the order of those accesses protects  *)
(* the ring.                                                               *)
(***************************************************************************)
EXTENDS Integers, Sequences

CONSTANTS Capacity,   \* RING_BUFFER_CAPACITY
          Keys,       \* scancodes of keys other than shift
          Chars,      \* characters
          NoChar,     \* the 0 that the tables hold for a key without character
          Plain,      \* scancode_to_ascii
          Shifted,    \* scancode_to_ascii_shifted
          Counts,     \* lengths that callers of read() ask for
          MaxTyped    \* bound: characters produced

ASSUME KeyRingAssumption ==
    /\ Capacity \in Nat /\ Capacity >= 2
    /\ NoChar \notin Chars
    /\ Plain \in [Keys -> Chars \cup {NoChar}]
    /\ Shifted \in [Keys -> Chars \cup {NoChar}]
    /\ Counts \subseteq Nat \ {0}
    /\ MaxTyped \in Nat

VARIABLES shift_pressed,            \* static variable of keyboard_handler
          char_buffer, in_index, out_index,
          pc,                       \* where the reader is: "idle", "test", "copy", "advance"
          left,                     \* count - byte of the read under way
          c,                        \* the character that read copied last
          got,                      \* history: every character the reads returned
          lost                      \* history: how many characters the handler dropped

ring   == <<char_buffer, in_index>>
reader == <<out_index, pc, left, c, got>>
vars   == <<shift_pressed, ring, reader, lost>>

Slots == 0 .. (Capacity - 1)

After(i) == (i + 1) % Capacity

\* How many characters wait in the ring.
Waiting == IF in_index >= out_index THEN in_index - out_index
           ELSE in_index - out_index + Capacity

Init ==
    /\ shift_pressed = FALSE
    /\ char_buffer = [i \in Slots |-> NoChar] /\ in_index = 0 /\ out_index = 0
    /\ pc = "idle" /\ left = 0 /\ c = NoChar
    /\ got = <<>> /\ lost = 0

-----------------------------------------------------------------------------
(* keyboard_handler, one action per kind of scancode *)

ShiftKey(down) == shift_pressed' = down /\ UNCHANGED <<ring, reader, lost>>

\* A bug the properties must notice: no test for a full ring.
PutAlways(char) ==
    /\ char_buffer' = [char_buffer EXCEPT ![in_index] = char]
    /\ in_index' = After(in_index)
    /\ UNCHANGED lost

\* The tail of the handler: a full ring drops the character.
Put(char) ==
    IF After(in_index) # out_index
    THEN /\ char_buffer' = [char_buffer EXCEPT ![in_index] = char]
         /\ in_index' = After(in_index)
         /\ UNCHANGED lost
    ELSE /\ lost' = lost + 1
         /\ UNCHANGED ring

KeyPress(key) ==
    LET char == IF shift_pressed THEN Shifted[key] ELSE Plain[key]
    IN  /\ char # NoChar
        /\ Len(got) + Waiting + lost < MaxTyped
        /\ Put(char)
        /\ UNCHANGED <<shift_pressed, reader>>

\* The release of any other key and a key without character change nothing.
KeyboardHandler == (\E down \in BOOLEAN : ShiftKey(down)) \/ (\E key \in Keys : KeyPress(key))

-----------------------------------------------------------------------------
(* tty_handler(read = true): one action between two accesses to the ring *)

ReadCall(count) ==
    /\ pc = "idle"
    /\ pc' = "test" /\ left' = count
    /\ UNCHANGED <<shift_pressed, ring, out_index, c, got, lost>>

\* A bug the properties must notice: the reader leaves the last character behind.
TestAhead ==
    /\ pc = "test"
    /\ pc' = IF left = 0 \/ in_index \in {out_index, After(out_index)} THEN "idle" ELSE "copy"
    /\ UNCHANGED <<shift_pressed, ring, out_index, left, c, got, lost>>

\* The loop's condition and its break: the call returns.
ReadTest ==
    /\ pc = "test"
    /\ pc' = IF left = 0 \/ out_index = in_index THEN "idle" ELSE "copy"
    /\ UNCHANGED <<shift_pressed, ring, out_index, left, c, got, lost>>

\* A bug the properties must notice: out_index moves before the character is
\* copied, and ReadAdvance copies what is in the slot by then.
CopyLate ==
    /\ pc = "copy"
    /\ out_index' = After(out_index) /\ pc' = "advance"
    /\ UNCHANGED <<shift_pressed, ring, left, c, got, lost>>

ReadCopy ==
    /\ pc = "copy"
    /\ c' = char_buffer[out_index] /\ pc' = "advance"
    /\ UNCHANGED <<shift_pressed, ring, out_index, left, got, lost>>

\* read++ comes with it: from here on the character is the caller's.
ReadAdvance ==
    /\ pc = "advance"
    /\ out_index' = After(out_index) /\ got' = Append(got, c)
    /\ left' = left - 1 /\ pc' = "test"
    /\ UNCHANGED <<shift_pressed, ring, c, lost>>

Reader == (\E count \in Counts : ReadCall(count)) \/ ReadTest \/ ReadCopy \/ ReadAdvance

-----------------------------------------------------------------------------
Next == KeyboardHandler \/ Reader

Spec == Init /\ [][Next]_vars

\* The shell calls read(STDIN) in an endless loop, whatever the keyboard does.
FairSpec == Spec /\ WF_vars(Reader)

-----------------------------------------------------------------------------
TypeOK ==
    /\ shift_pressed \in BOOLEAN
    /\ char_buffer \in [Slots -> Chars \cup {NoChar}]
    /\ in_index \in Slots /\ out_index \in Slots
    /\ pc \in {"idle", "test", "copy", "advance"}
    /\ left \in Nat /\ c \in Chars \cup {NoChar}
    /\ got \in Seq(Chars) /\ lost \in Nat

\* The slot of the n-th character that waits.
SlotOf(n) == IF out_index + n - 1 < Capacity THEN out_index + n - 1
             ELSE out_index + n - 1 - Capacity

\* The characters that wait, oldest first.
Queue == [n \in 1 .. Waiting |-> char_buffer[SlotOf(n)]]

\* The ring refines the bounded queue of Capacity - 1 characters: whatever
\* interrupts split the reader, no character is lost while there is room, none
\* is overwritten before it is copied, none is read twice or out of order.
Fifo == INSTANCE BoundedFifo
    WITH Limit <- Capacity - 1, queue <- Queue
ImplementsFifo == Fifo!Spec

\* What the refinement rests on: the reader copies only what the handler has
\* put there, and the slot it copied from is not reused before it moves on.
ReaderHasChar ==
    /\ \A n \in 1 .. Waiting : char_buffer[SlotOf(n)] \in Chars
    /\ pc \in {"copy", "advance"} => Waiting > 0 /\ left > 0
    /\ pc = "advance" => c = char_buffer[out_index]

\* Every character put into the ring is read while the shell polls, however
\* the keyboard interrupts the reads.
EventuallyRead ==
    \A n \in 1 .. MaxTyped : (Len(got) + Waiting >= n) ~> (Len(got) >= n)
=============================================================================
