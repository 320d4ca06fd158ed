------------------------------ MODULE Transfer ------------------------------
(***************************************************************************)
(* Waiting on the timer: the shell's sget, which polls the serial port and *)
(* stores what arrives, and sleep.  Both read timer_counter, 64 bits wide, *)
(* with two loads of 32 bits, and the timer interrupt may come between     *)
(* them; the build decides which half is loaded first.  Half is 2^32.      *)
(*                                                                         *)
(* The host and the receiver of the port are external: bytes are numbered  *)
(* as the host sends them, and the emulator holds one back while the       *)
(* receiver has no room.  The file is what sget stored in it, Room what    *)
(* its block can still take: write() then returns 0.                       *)
(***************************************************************************)
EXTENDS Integers, Sequences

CONSTANTS Half,       \* values of one half of timer_counter
          Duration,   \* time_out_duration
          SleepTicks, \* ticks_to_wait
          Header,     \* size of file_size
          Room,       \* bytes the block of the file can take
          Fifo,       \* bytes the receiver can hold
          MaxSent,    \* bound: bytes the host sends
          MaxCalls,   \* bound: calls of sget and sleep
          LastTick,   \* bound: ticks while the host may still send
          MaxTicks    \* bound: ticks

ASSUME TransferAssumption ==
    /\ Half \in Nat \ {0} /\ Duration \in 0 .. (Half - 1) /\ SleepTicks \in 0 .. (Half - 1)
    /\ Header \in 0 .. 255 /\ Room \in Nat /\ Fifo \in Nat \ {0}
    /\ MaxSent \in Nat /\ MaxCalls \in Nat /\ LastTick \in Nat /\ MaxTicks \in Nat

VARIABLES timer_counter,
          sent, over, uart,                     \* the host and the receiver
          pc, first, latch,                     \* which half was loaded first, and its value
          base_time, in_message, bytes_read, c, \* exec_sget
          wake,                                 \* start + ticks_to_wait of sleep
          file,                                 \* bytes stored by this call
          since,                                \* history: when this wait began
          begin,                                \* history: bytes taken before this call
          calls

clock == <<timer_counter>>
host  == <<sent, over, uart>>
sget  == <<base_time, in_message, bytes_read, c, file>>
hist  == <<since, begin, calls>>
vars  == <<clock, host, pc, first, latch, sget, wake, hist>>

Word    == 0 .. (Half - 1)
Time    == [hi : Word, lo : Word]
Waiting == {"test", "test2", "base", "base2", "header", "data", "write"}

Value(t)      == t.hi * Half + t.lo
Greater(t, u) == t.hi > u.hi \/ (t.hi = u.hi /\ t.lo > u.lo)
Later(t, d)   == IF t.lo + d < Half THEN [t EXCEPT !.lo = @ + d]
                 ELSE [hi |-> t.hi + 1, lo |-> t.lo + d - Half]

-----------------------------------------------------------------------------
(* The timer, the host and the receiver *)

Init ==
    /\ timer_counter = [hi |-> 0, lo |-> 0]
    /\ sent = 0 /\ over = FALSE /\ uart = <<>>
    /\ pc = "shell" /\ first = "lo" /\ latch = 0
    /\ base_time = timer_counter /\ in_message = FALSE /\ bytes_read = 0 /\ c = 0
    /\ wake = 0 /\ file = <<>>
    /\ since = timer_counter /\ begin = 0 /\ calls = 0

\* Nothing is under way that would have to be waited for again.
Quiet == over /\ uart = <<>> /\ pc \notin {"base", "base2"}

\* timer_handler: it runs with interrupts off.
Tick ==
    /\ Value(timer_counter) < (IF Quiet THEN MaxTicks ELSE LastTick)
    /\ timer_counter # [hi |-> Half - 1, lo |-> Half - 1]
    /\ timer_counter' = Later(timer_counter, 1)
    /\ UNCHANGED <<host, pc, first, latch, sget, wake, hist>>

Send ==
    /\ ~ over /\ sent < MaxSent /\ Len(uart) < Fifo
    /\ sent' = sent + 1 /\ uart' = Append(uart, sent')
    /\ UNCHANGED <<clock, over, pc, first, latch, sget, wake, hist>>

\* The host sends no more.
HangUp ==
    /\ ~ over /\ over' = TRUE
    /\ UNCHANGED <<clock, sent, uart, pc, first, latch, sget, wake, hist>>

-----------------------------------------------------------------------------
(* Loads of timer_counter *)

\* One of the two loads, from pc at to pc at2.
LoadFirst(at, at2) ==
    /\ pc = at /\ pc' = at2
    /\ \E h \in {"hi", "lo"} : first' = h /\ latch' = timer_counter[h]
    /\ UNCHANGED <<clock, host, sget, wake, hist>>

\* What the two loads give.
Loaded == IF first = "hi" THEN [timer_counter EXCEPT !.hi = latch]
                          ELSE [timer_counter EXCEPT !.lo = latch]

-----------------------------------------------------------------------------
(* exec_sget *)

\* open() has given the file; the first load of base_time follows.
Sget ==
    /\ pc = "shell" /\ calls < MaxCalls /\ Value(timer_counter) < LastTick
    /\ pc' = "base" /\ calls' = calls + 1
    /\ in_message' = FALSE /\ bytes_read' = 0 /\ file' = <<>>
    /\ since' = timer_counter /\ begin' = sent - Len(uart)
    /\ UNCHANGED <<clock, host, first, latch, base_time, c, wake>>

BaseFirst == LoadFirst("base", "base2")

BaseTime ==
    /\ pc = "base2" /\ base_time' = Loaded
    /\ pc' = IF in_message THEN "write" ELSE "test"
    /\ UNCHANGED <<clock, host, first, latch, in_message, bytes_read, c, file, wake, hist>>

TestFirst == LoadFirst("test", "test2")

\* Bugs the properties must notice: a time-out one tick early; one that is missed
\* when the loop comes too late.
ExpiredEarly == Loaded = Later(base_time, Duration) \/ Greater(Loaded, Later(base_time, Duration))
ExpiredExact == Loaded = Later(base_time, Duration)

Expired == Greater(Loaded, Later(base_time, Duration))

TimeOut ==
    /\ pc = "test2" /\ Expired /\ pc' = "timedout"
    /\ UNCHANGED <<clock, host, first, latch, sget, wake, hist>>

NotYet ==
    /\ pc = "test2" /\ ~ Expired
    /\ pc' = IF in_message THEN "data" ELSE "header"
    /\ UNCHANGED <<clock, host, first, latch, sget, wake, hist>>

\* A byte of the size; from the fifth on it is stored behind file_size, and
\* nothing is known of what follows.
HeaderByte ==
    /\ pc = "header" /\ uart # <<>> /\ uart' = Tail(uart)
    /\ IF bytes_read < Header
       THEN bytes_read' = bytes_read + 1 /\ UNCHANGED pc
       ELSE pc' = "smashed" /\ UNCHANGED bytes_read
    /\ UNCHANGED <<clock, sent, over, first, latch, base_time, in_message, c, file, wake, hist>>

\* A bug the properties must notice: the size is taken for complete a byte too early.
SizeReadShort == bytes_read + 1 >= Header
SizeRead      == bytes_read = Header

HeaderEnd ==
    /\ pc = "header" /\ uart = <<>>
    /\ IF SizeRead THEN in_message' = TRUE /\ bytes_read' = 0 /\ pc' = "data"
                   ELSE pc' = "test" /\ UNCHANGED <<in_message, bytes_read>>
    /\ UNCHANGED <<clock, host, first, latch, base_time, c, file, wake, hist>>

\* A byte of the file is taken, and the time starts again.
DataByte ==
    /\ pc = "data" /\ uart # <<>> /\ pc' = "base"
    /\ c' = Head(uart) /\ uart' = Tail(uart) /\ since' = timer_counter
    /\ UNCHANGED <<clock, sent, over, first, latch, base_time, in_message, bytes_read, file,
                   wake, begin, calls>>

DataEnd ==
    /\ pc = "data" /\ uart = <<>> /\ pc' = "test"
    /\ UNCHANGED <<clock, host, first, latch, sget, wake, hist>>

\* The byte is written, if need be again and again: a full block takes no byte,
\* and the loop then repeats without changing anything.  bytes_read has 8 bits; it
\* is compared with the address of file_size and never equal to it.
WriteByte ==
    /\ pc = "write" /\ Len(file) < Room /\ pc' = "data"
    /\ file' = Append(file, c) /\ bytes_read' = (bytes_read + 1) % 256
    /\ UNCHANGED <<clock, host, first, latch, base_time, in_message, c, wake, hist>>

\* The file is closed and the caller continues; so it does after sleep.
Return ==
    /\ pc \in {"timedout", "slept"} /\ pc' = "shell"
    /\ UNCHANGED <<clock, host, first, latch, sget, wake, hist>>

-----------------------------------------------------------------------------
(* sleep *)

\* A bug the properties must notice: the sum loses a tick.
WakeEarly(start) == (start + SleepTicks - 1) % Half

\* The sum has 32 bits.
Wake(start) == (start + SleepTicks) % Half

\* start keeps the low half only, so one load is enough.
Sleep ==
    /\ pc = "shell" /\ calls < MaxCalls /\ Value(timer_counter) < LastTick
    /\ pc' = "sleep" /\ calls' = calls + 1
    /\ wake' = Wake(timer_counter.lo) /\ since' = timer_counter
    /\ UNCHANGED <<clock, host, first, latch, sget, begin>>

SleepFirst == LoadFirst("sleep", "sleep2")

SleepTest ==
    /\ pc = "sleep2"
    /\ pc' = IF Greater([hi |-> 0, lo |-> wake], Loaded) THEN "sleep" ELSE "slept"
    /\ UNCHANGED <<clock, host, first, latch, sget, wake, hist>>

-----------------------------------------------------------------------------
Kernel == \/ Sget \/ BaseFirst \/ BaseTime \/ TestFirst \/ TimeOut \/ NotYet
          \/ HeaderByte \/ HeaderEnd \/ DataByte \/ DataEnd \/ WriteByte
          \/ Sleep \/ SleepFirst \/ SleepTest \/ Return

Next == Tick \/ Send \/ HangUp \/ Kernel

\* The timer goes on, the processor runs the kernel between its interrupts, and
\* the host's file has an end.
Spec == Init /\ [][Next]_vars /\ WF_vars(Tick) /\ WF_vars(Kernel) /\ WF_vars(HangUp)

-----------------------------------------------------------------------------
TypeOK ==
    /\ timer_counter \in Time /\ base_time \in Time /\ since \in Time
    /\ sent \in Nat /\ over \in BOOLEAN /\ uart \in Seq(Nat)
    /\ pc \in Waiting \cup {"shell", "timedout", "smashed", "sleep", "sleep2", "slept"}
    /\ first \in {"hi", "lo"} /\ latch \in Word /\ wake \in Word
    /\ in_message \in BOOLEAN /\ bytes_read \in 0 .. 255 /\ c \in Nat
    /\ file \in Seq(Nat) /\ begin \in Int /\ calls \in Nat

\* sget stores what the host sent behind the size, every byte once and in order,
\* however the bytes and the timer interleave with its polling.
DataInOrder == \A k \in 1 .. Len(file) : file[k] = begin + Header + k

\* sget gives up only when more than time_out_duration has passed since the last
\* byte it took (or since it began, before the first): also when the timer
\* interrupts its loads, unless the high half changed meanwhile.
TimeOutNotEarly ==
    pc = "timedout" /\ since.hi = timer_counter.hi =>
        timer_counter.lo > since.lo + Duration

\* sleep lasts ticks_to_wait as long as the time it waits for fits into 32 bits.
SleepNotEarly ==
    pc = "slept" /\ since.hi = 0 /\ since.lo + SleepTicks < Half =>
        timer_counter.hi > 0 \/ timer_counter.lo >= since.lo + SleepTicks

\* Every wait ends once the host is silent, except where the code has lost it: the
\* size overran its buffer, or the file's block is full.
WaitEnds ==
    pc # "shell" ~> pc \in {"shell", "smashed"} \/ (pc = "write" /\ Len(file) = Room)

-----------------------------------------------------------------------------
(* The inductive invariant behind DataInOrder, TimeOutNotEarly and SleepNotEarly. *)

SameHigh == since.hi = timer_counter.hi

\* A half loaded since `since` is not older than it; the low one may be stale.
LatchOK == IF first = "hi" THEN latch = since.hi ELSE latch \in since.lo .. timer_counter.lo

\* While the high half stays the same, base_time lies between since and now.
ClockInvariant ==
    /\ ~ Greater(since, timer_counter)
    /\ SameHigh /\ pc = "base2" => LatchOK
    /\ SameHigh /\ pc \in {"test", "test2", "header", "data", "write", "timedout"} =>
          base_time.hi = since.hi /\ base_time.lo >= since.lo
    /\ SameHigh /\ pc = "test2" =>
          IF first = "hi" THEN latch = since.hi ELSE latch <= timer_counter.lo

\* The sum of sleep, and the high half, as long as neither has wrapped.
SleepInvariant ==
    /\ pc \in {"sleep", "sleep2", "slept"} /\ since.lo + SleepTicks < Half =>
          wake = since.lo + SleepTicks
    /\ pc = "sleep2" /\ timer_counter.hi = 0 =>
          IF first = "hi" THEN latch = 0 ELSE latch <= timer_counter.lo

\* Bytes the receiver has given to the kernel.
Taken == sent - Len(uart)

\* Which of the bytes the kernel is at.
StreamInvariant ==
    /\ Len(uart) <= sent /\ \A k \in 1 .. Len(uart) : uart[k] = Taken + k
    /\ pc \in {"base", "base2", "test", "test2", "header"} /\ ~ in_message =>
          file = <<>> /\ bytes_read <= Header /\ Taken = begin + bytes_read
    /\ pc \in {"test", "test2", "data"} /\ in_message => Taken = begin + Header + Len(file)
    /\ pc \in {"base", "base2", "write"} /\ in_message =>
          Taken = begin + Header + Len(file) + 1 /\ c = Taken
    /\ pc = "header" => ~ in_message
    /\ pc \in {"data", "write"} => in_message

TransferInvariant ==
    /\ ClockInvariant /\ SleepInvariant /\ StreamInvariant
    /\ DataInOrder /\ TimeOutNotEarly /\ SleepNotEarly
=============================================================================
