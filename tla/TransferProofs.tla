--------------------------- MODULE TransferProofs ---------------------------
(***************************************************************************)
(* Proofs about sget and sleep, for every width of the counter's halves,   *)
(* every duration and every length of header, file and receiver.           *)
(***************************************************************************)
EXTENDS Transfer, TLAPS

-----------------------------------------------------------------------------
(* Type correctness *)

\* The counter goes on to the next value of its two halves.
LEMMA LaterType ==
    ASSUME NEW t \in Time, t # [hi |-> Half - 1, lo |-> Half - 1]
    PROVE  /\ Later(t, 1) \in Time
           /\ Later(t, 1).hi = t.hi => Later(t, 1).lo = t.lo + 1
           /\ Later(t, 1).hi >= t.hi
           /\ Later(t, 1).hi = 0 => t.hi = 0
<1>1. t.hi \in Word /\ t.lo \in Word /\ t = [hi |-> t.hi, lo |-> t.lo]
  BY DEF Time
<1>2. CASE t.lo + 1 < Half
  <2>1. Later(t, 1) = [hi |-> t.hi, lo |-> t.lo + 1]
    BY <1>1, <1>2 DEF Later
  <2> QED
    BY <2>1, <1>1, <1>2, TransferAssumption DEF Time, Word
<1>3. CASE ~ (t.lo + 1 < Half)
  <2>1. Later(t, 1) = [hi |-> t.hi + 1, lo |-> t.lo + 1 - Half]
    BY <1>1, <1>3 DEF Later
  <2>2. t.lo = Half - 1
    BY <1>1, <1>3, TransferAssumption DEF Word
  <2>3. t.hi # Half - 1
    BY <1>1, <2>2
  <2> QED
    BY <2>1, <2>2, <2>3, <1>1, TransferAssumption DEF Time, Word
<1> QED
  BY <1>2, <1>3

\* A load of both halves gives a time, whatever came between them.
LEMMA LoadedType ==
    ASSUME TypeOK
    PROVE  /\ Loaded \in Time
           /\ Loaded.hi = IF first = "hi" THEN latch ELSE timer_counter.hi
           /\ Loaded.lo = IF first = "hi" THEN timer_counter.lo ELSE latch
  BY DEF TypeOK, Loaded, Time

\* bytes_read stays within eight bits.
LEMMA ByteStep ==
    ASSUME NEW b \in 0 .. 255, NEW d,
           d = 0 \/ d = b \/ (b < Header /\ d = b + 1)
    PROVE  d \in 0 .. 255
  BY TransferAssumption

LEMMA TypeInit == Init => TypeOK
<1> SUFFICES ASSUME Init PROVE TypeOK
  OBVIOUS
<1>1. over \in BOOLEAN /\ in_message \in BOOLEAN
  BY Zenon DEF Init
<1> QED
  BY <1>1, TransferAssumption DEF Init, TypeOK, Time, Word, Waiting

LEMMA TypeStep ==
    ASSUME TypeOK, [Next]_vars
    PROVE  TypeOK'
<1> USE DEF TypeOK, vars, clock, host, sget, hist, Waiting
<1>1. CASE Tick
  BY <1>1, LaterType DEF Tick
<1>2. CASE Send
  BY <1>2 DEF Send
<1>3. CASE HangUp
  BY <1>3 DEF HangUp
<1>4. CASE Sget
  <2>1. in_message' \in BOOLEAN
    BY <1>4, Zenon DEF Sget
  <2>2. begin' \in Int /\ file' \in Seq(Nat)
    BY <1>4 DEF Sget
  <2> QED
    BY <1>4, <2>1, <2>2 DEF Sget
<1>5. CASE BaseFirst
  BY <1>5 DEF BaseFirst, LoadFirst, Time
<1>6. CASE BaseTime
  BY <1>6, LoadedType DEF BaseTime
<1>7. CASE TestFirst
  BY <1>7 DEF TestFirst, LoadFirst, Time
<1>8. CASE TimeOut
  BY <1>8 DEF TimeOut
<1>9. CASE NotYet
  BY <1>9 DEF NotYet
<1>10. CASE HeaderByte
  <2>1. in_message' \in BOOLEAN
    BY <1>10 DEF HeaderByte
  <2>2. uart' \in Seq(Nat)
    BY <1>10 DEF HeaderByte
  <2>3. \/ bytes_read < Header /\ bytes_read' = bytes_read + 1
        \/ bytes_read' = bytes_read
    BY <1>10, Zenon DEF HeaderByte
  <2>4. bytes_read' \in 0 .. 255
    BY ByteStep, <2>3, TransferAssumption
  <2>5. pc' \in {"header", "smashed"}
    BY <1>10 DEF HeaderByte
  <2> QED
    BY <1>10, <2>1, <2>2, <2>4, <2>5 DEF HeaderByte
<1>11. CASE HeaderEnd
  <2>1. in_message' \in BOOLEAN
    BY <1>11, Zenon DEF HeaderEnd
  <2>2. bytes_read' = 0 \/ bytes_read' = bytes_read
    BY <1>11, Zenon DEF HeaderEnd
  <2>3. bytes_read' \in 0 .. 255
    BY ByteStep, <2>2
  <2>4. pc' \in {"data", "test"}
    BY <1>11, Zenon DEF HeaderEnd
  <2> QED
    BY <1>11, <2>1, <2>3, <2>4 DEF HeaderEnd
<1>12. CASE DataByte
  BY <1>12 DEF DataByte
<1>13. CASE DataEnd
  BY <1>13 DEF DataEnd
<1>14. CASE WriteByte
  BY <1>14, TransferAssumption DEF WriteByte
<1>15. CASE Sleep
  BY <1>15, TransferAssumption DEF Sleep, Wake, Time, Word
<1>16. CASE SleepFirst
  BY <1>16 DEF SleepFirst, LoadFirst, Time
<1>17. CASE SleepTest
  BY <1>17 DEF SleepTest
<1>18. CASE Return
  BY <1>18 DEF Return
<1>19. CASE UNCHANGED vars
  BY <1>19
<1> QED
  BY <1>1, <1>2, <1>3, <1>4, <1>5, <1>6, <1>7, <1>8, <1>9, <1>10, <1>11, <1>12, <1>13,
     <1>14, <1>15, <1>16, <1>17, <1>18, <1>19 DEF Next, Kernel

\* The variables of sget and sleep keep their types: the counter its two words,
\* bytes_read its eight bits.
THEOREM TransferTypes == Spec => []TypeOK
<1>1. TypeOK /\ [Next]_vars => TypeOK'
  BY TypeStep
<1> QED
  BY <1>1, TypeInit, PTL DEF Spec

-----------------------------------------------------------------------------
(* Time *)

LEMMA TimeWords ==
    ASSUME TypeOK
    PROVE  \A t \in {timer_counter, base_time, since} : t.hi \in Word /\ t.lo \in Word
  BY DEF TypeOK, Time

\* A sum of the two halves carries into the high one.
LEMMA LaterFields ==
    ASSUME NEW t \in Time, NEW d \in Nat
    PROVE  /\ t.lo + d < Half => Later(t, d).hi = t.hi /\ Later(t, d).lo = t.lo + d
           /\ ~ (t.lo + d < Half) =>
                 Later(t, d).hi = t.hi + 1 /\ Later(t, d).lo = t.lo + d - Half
  BY DEF Later, Time

\* What a tick does to times that are not in its future.
LEMMA TickForward ==
    ASSUME TypeOK, Tick, NEW t \in Time, ~ Greater(t, timer_counter)
    PROVE  /\ ~ Greater(t, timer_counter')
           /\ t.hi = timer_counter'.hi => t.hi = timer_counter.hi
           /\ timer_counter'.hi = 0 => timer_counter.hi = 0
           /\ timer_counter'.hi = timer_counter.hi => timer_counter'.lo > timer_counter.lo
           /\ timer_counter'.hi >= timer_counter.hi
<1> DEFINE u == Later(timer_counter, 1)
<1>1. timer_counter \in Time /\ timer_counter' = u
  BY DEF TypeOK, Tick
<1>2. /\ u \in Time /\ u.hi >= timer_counter.hi
      /\ u.hi = timer_counter.hi => u.lo = timer_counter.lo + 1
  BY LaterType DEF TypeOK, Tick
<1>3. \A v \in Time : v.hi \in Nat /\ v.lo \in Nat
  BY TransferAssumption DEF Time, Word
<1> HIDE DEF u
<1> QED
  BY <1>1, <1>2, <1>3 DEF Greater


\* A load keeps what is known of it while the timer goes on.
LEMMA ClockStep ==
    ASSUME TypeOK, TypeOK', ClockInvariant, TimeOutNotEarly, [Next]_vars
    PROVE  ClockInvariant' /\ TimeOutNotEarly'
<1> USE DEF ClockInvariant, TimeOutNotEarly, SameHigh, LatchOK, Greater, Word,
           vars, clock, host, sget, hist
<1>1. CASE Tick
  <2>1. since \in Time
    BY DEF TypeOK
  <2>2. /\ timer_counter.hi \in Nat /\ timer_counter.lo \in Nat
        /\ timer_counter'.hi \in Nat /\ timer_counter'.lo \in Nat
        /\ since.hi \in Nat /\ since.lo \in Nat /\ latch \in Nat
    BY TransferAssumption DEF TypeOK, Time
  <2>3. UNCHANGED <<since, base_time, pc, first, latch>>
    BY <1>1 DEF Tick
  <2>4. /\ ~ Greater(since, timer_counter')
        /\ SameHigh' => SameHigh /\ timer_counter'.lo > timer_counter.lo
    BY <1>1, <2>1, <2>3, TickForward
  <2> QED
    BY <2>3, <2>4, <2>2, TransferAssumption
<1>2. CASE Send
  BY <1>2, TimeWords, TransferAssumption DEF Send
<1>3. CASE HangUp
  BY <1>3, TimeWords, TransferAssumption DEF HangUp
<1>4. CASE Sget
  BY <1>4, TimeWords, TransferAssumption DEF Sget
<1>5. CASE BaseFirst
  BY <1>5, TimeWords, TransferAssumption DEF BaseFirst, LoadFirst
<1>6. CASE BaseTime
  <2>1. UNCHANGED <<timer_counter, since, first, latch>> /\ pc = "base2"
        /\ pc' \in {"write", "test"}
    BY <1>6, Zenon DEF BaseTime
  <2>2. base_time' = Loaded
    BY <1>6 DEF BaseTime
  <2>3. SameHigh => base_time'.hi = since.hi /\ base_time'.lo >= since.lo
    BY <2>1, <2>2, LoadedType, TimeWords, TransferAssumption DEF TypeOK
  <2> QED
    BY <2>1, <2>3
<1>7. CASE TestFirst
  BY <1>7, TimeWords, TransferAssumption DEF TestFirst, LoadFirst
<1>8. CASE TimeOut
  <2>1. UNCHANGED <<timer_counter, since, first, latch, base_time>> /\ pc = "test2"
        /\ pc' = "timedout" /\ Expired
    BY <1>8 DEF TimeOut
  <2>2. SameHigh => timer_counter.lo > since.lo + Duration
    <3> SUFFICES ASSUME SameHigh PROVE timer_counter.lo > since.lo + Duration
      OBVIOUS
    <3>1. Loaded.hi = since.hi /\ Loaded.lo <= timer_counter.lo /\ Loaded.lo \in Word
      BY <2>1, LoadedType, TimeWords, TransferAssumption DEF TypeOK, Time
    <3>2. base_time \in Time /\ Duration \in Nat
      BY TransferAssumption DEF TypeOK
    <3>3. \/ /\ Later(base_time, Duration).hi = since.hi
             /\ Later(base_time, Duration).lo >= since.lo + Duration
          \/ Later(base_time, Duration).hi = since.hi + 1
      BY <2>1, <3>2, LaterFields, TimeWords, TransferAssumption
    <3>4. Greater(Loaded, Later(base_time, Duration))
      BY <2>1 DEF Expired
    <3>5. Later(base_time, Duration).lo \in Int
      BY <3>2, LaterFields, TimeWords, TransferAssumption
    <3> QED
      BY <3>1, <3>3, <3>4, <3>5, TimeWords, TransferAssumption
  <2> QED
    BY <2>1, <2>2
<1>9. CASE NotYet
  BY <1>9, TimeWords, TransferAssumption DEF NotYet
<1>10. CASE HeaderByte
  BY <1>10, TimeWords, TransferAssumption DEF HeaderByte
<1>11. CASE HeaderEnd
  BY <1>11, TimeWords, TransferAssumption DEF HeaderEnd
<1>12. CASE DataByte
  BY <1>12, TimeWords, TransferAssumption DEF DataByte
<1>13. CASE DataEnd
  BY <1>13, TimeWords, TransferAssumption DEF DataEnd
<1>14. CASE WriteByte
  BY <1>14, TimeWords, TransferAssumption DEF WriteByte
<1>15. CASE Sleep
  BY <1>15, TimeWords, TransferAssumption DEF Sleep
<1>16. CASE SleepFirst
  BY <1>16, TimeWords, TransferAssumption DEF SleepFirst, LoadFirst
<1>17. CASE SleepTest
  BY <1>17, TimeWords, TransferAssumption DEF SleepTest
<1>18. CASE Return
  BY <1>18, TimeWords, TransferAssumption DEF Return
<1>19. CASE UNCHANGED vars
  BY <1>19
<1> QED
  BY <1>1, <1>2, <1>3, <1>4, <1>5, <1>6, <1>7, <1>8, <1>9, <1>10, <1>11, <1>12, <1>13,
     <1>14, <1>15, <1>16, <1>17, <1>18, <1>19 DEF Next, Kernel

LEMMA ModSmall ==
    ASSUME NEW a \in Nat, NEW b \in Nat, a < b
    PROVE  a % b = a
  OBVIOUS

\* The loop of sleep sees no time that has not come.
LEMMA SleepStep ==
    ASSUME TypeOK, TypeOK', ClockInvariant, SleepInvariant, SleepNotEarly, [Next]_vars
    PROVE  SleepInvariant' /\ SleepNotEarly'
<1> USE DEF SleepInvariant, SleepNotEarly, Word, vars, clock, host, sget, hist
<1>1. CASE Tick
  <2>1. since \in Time /\ ~ Greater(since, timer_counter)
    BY DEF TypeOK, ClockInvariant
  <2>2. UNCHANGED <<since, pc, first, latch, wake>>
    BY <1>1 DEF Tick
  <2>3. /\ timer_counter.hi \in Nat /\ timer_counter.lo \in Nat
        /\ timer_counter'.hi \in Nat /\ timer_counter'.lo \in Nat
        /\ since.lo \in Nat /\ latch \in Nat
    BY TransferAssumption DEF TypeOK, Time
  <2>4. timer_counter'.hi = 0 => timer_counter.hi = 0 /\ timer_counter'.lo > timer_counter.lo
    BY <1>1, <2>1, <2>3, TickForward
  <2> QED
    BY <2>2, <2>3, <2>4, TransferAssumption
<1>2. CASE Send
  BY <1>2, TimeWords, TransferAssumption DEF Send
<1>3. CASE HangUp
  BY <1>3, TimeWords, TransferAssumption DEF HangUp
<1>4. CASE Sget
  BY <1>4, TimeWords, TransferAssumption DEF Sget
<1>5. CASE BaseFirst
  BY <1>5, TimeWords, TransferAssumption DEF BaseFirst, LoadFirst
<1>6. CASE BaseTime
  BY <1>6, TimeWords, TransferAssumption DEF BaseTime
<1>7. CASE TestFirst
  BY <1>7, TimeWords, TransferAssumption DEF TestFirst, LoadFirst
<1>8. CASE TimeOut
  BY <1>8, TimeWords, TransferAssumption DEF TimeOut
<1>9. CASE NotYet
  BY <1>9, TimeWords, TransferAssumption DEF NotYet
<1>10. CASE HeaderByte
  BY <1>10, TimeWords, TransferAssumption DEF HeaderByte
<1>11. CASE HeaderEnd
  BY <1>11, TimeWords, TransferAssumption DEF HeaderEnd
<1>12. CASE DataByte
  BY <1>12, TimeWords, TransferAssumption DEF DataByte
<1>13. CASE DataEnd
  BY <1>13, TimeWords, TransferAssumption DEF DataEnd
<1>14. CASE WriteByte
  BY <1>14, TimeWords, TransferAssumption DEF WriteByte
<1>15. CASE Sleep
  <2>1. /\ pc' = "sleep" /\ wake' = (timer_counter.lo + SleepTicks) % Half
        /\ since' = timer_counter
    BY <1>15 DEF Sleep, Wake
  <2>2. timer_counter.lo \in Nat /\ SleepTicks \in Nat /\ Half \in Nat
    BY TimeWords, TransferAssumption
  <2>3. timer_counter.lo + SleepTicks < Half => wake' = timer_counter.lo + SleepTicks
    BY <2>1, <2>2, ModSmall
  <2> QED
    BY <2>1, <2>3
<1>16. CASE SleepFirst
  BY <1>16, TimeWords, TransferAssumption DEF SleepFirst, LoadFirst
<1>17. CASE SleepTest
  <2>1. UNCHANGED <<timer_counter, since, first, latch, wake>> /\ pc = "sleep2"
    BY <1>17 DEF SleepTest
  <2>2. pc' = "sleep" \/ (pc' = "slept" /\ ~ Greater([hi |-> 0, lo |-> wake], Loaded))
    BY <1>17 DEF SleepTest
  <2>3. timer_counter.lo \in Int /\ latch \in Int /\ first \in {"hi", "lo"}
    BY TransferAssumption DEF TypeOK, Time
  <2>4. timer_counter.hi = 0 => Loaded.hi = 0 /\ Loaded.lo <= timer_counter.lo
    BY <2>3, <2>1, LoadedType
  <2>5. /\ timer_counter.hi \in Nat /\ timer_counter.lo \in Nat /\ Loaded.lo \in Nat
        /\ wake \in Nat
    BY LoadedType, TransferAssumption DEF TypeOK, Time
  <2> QED
    BY <2>1, <2>2, <2>4, <2>5, TransferAssumption DEF Greater
<1>18. CASE Return
  BY <1>18, TimeWords, TransferAssumption DEF Return
<1>19. CASE UNCHANGED vars
  BY <1>19
<1> QED
  BY <1>1, <1>2, <1>3, <1>4, <1>5, <1>6, <1>7, <1>8, <1>9, <1>10, <1>11, <1>12, <1>13,
     <1>14, <1>15, <1>16, <1>17, <1>18, <1>19 DEF Next, Kernel

-----------------------------------------------------------------------------
(* The bytes *)

\* The host adds the next byte; the kernel takes the oldest.
LEMMA QueueSend ==
    ASSUME NEW q \in Seq(Nat), NEW n \in Nat, Len(q) <= n,
           \A k \in 1 .. Len(q) : q[k] = n - Len(q) + k
    PROVE  LET r == Append(q, n + 1)
           IN  Len(r) = Len(q) + 1 /\ \A k \in 1 .. Len(r) : r[k] = n + 1 - Len(r) + k
  OBVIOUS

LEMMA QueueTake ==
    ASSUME NEW q \in Seq(Nat), NEW n \in Nat, q # <<>>,
           \A k \in 1 .. Len(q) : q[k] = n - Len(q) + k
    PROVE  /\ Len(Tail(q)) = Len(q) - 1 /\ Head(q) = n - Len(q) + 1
           /\ \A k \in 1 .. Len(Tail(q)) : Tail(q)[k] = n - Len(Tail(q)) + k
  OBVIOUS

\* The file gets the byte that follows its last one.
LEMMA FileAppend ==
    ASSUME NEW f \in Seq(Nat), NEW b \in Int, NEW v \in Nat, v = b + Len(f) + 1,
           \A k \in 1 .. Len(f) : f[k] = b + k
    PROVE  LET g == Append(f, v)
           IN  Len(g) = Len(f) + 1 /\ \A k \in 1 .. Len(g) : g[k] = b + k
  OBVIOUS

\* Every byte is stored at the place it has in the stream.
LEMMA StreamStep ==
    ASSUME TypeOK, TypeOK', StreamInvariant, DataInOrder, [Next]_vars
    PROVE  StreamInvariant' /\ DataInOrder'
<1> USE DEF TypeOK, StreamInvariant, DataInOrder, Taken, vars, clock, host, sget, hist
<1>1. CASE Tick
  BY <1>1, TransferAssumption DEF Tick
<1>2. CASE Send
  <2>1. sent' = sent + 1 /\ uart' = Append(uart, sent + 1)
        /\ UNCHANGED <<pc, in_message, bytes_read, file, c, begin>>
    BY <1>2 DEF Send
  <2>2. Len(uart') = Len(uart) + 1 /\ \A k \in 1 .. Len(uart') : uart'[k] = sent' - Len(uart') + k
    BY <2>1, QueueSend
  <2>3. Taken' = Taken
    BY <2>1, <2>2
  <2> HIDE DEF Taken
  <2> QED
    BY <2>1, <2>2, <2>3 DEF Taken
<1>3. CASE HangUp
  BY <1>3, TransferAssumption DEF HangUp
<1>4. CASE Sget
  BY <1>4, TransferAssumption DEF Sget
<1>5. CASE BaseFirst
  BY <1>5, TransferAssumption DEF BaseFirst, LoadFirst
<1>6. CASE BaseTime
  BY <1>6, TransferAssumption DEF BaseTime
<1>7. CASE TestFirst
  BY <1>7, TransferAssumption DEF TestFirst, LoadFirst
<1>8. CASE TimeOut
  BY <1>8, TransferAssumption DEF TimeOut
<1>9. CASE NotYet
  BY <1>9, TransferAssumption DEF NotYet
<1>10. CASE HeaderByte
  <2>1. /\ uart' = Tail(uart) /\ uart # <<>> /\ pc = "header"
        /\ UNCHANGED <<sent, in_message, file, c, begin>>
        /\ \/ bytes_read < Header /\ bytes_read' = bytes_read + 1 /\ pc' = "header"
           \/ pc' = "smashed"
    BY <1>10 DEF HeaderByte
  <2>2. /\ Len(uart') = Len(uart) - 1
        /\ \A k \in 1 .. Len(uart') : uart'[k] = sent' - Len(uart') + k
    BY <2>1, QueueTake
  <2>3. sent' = sent /\ Len(uart) \in Nat /\ Len(uart) <= sent /\ sent \in Nat
    BY <2>1
  <2>4. sent' - Len(uart') = sent - Len(uart) + 1 /\ Len(uart') <= sent'
    BY <2>2, <2>3
  <2>5. ~ in_message /\ file = <<>> /\ bytes_read <= Header /\ Taken = begin + bytes_read
    BY <2>1
  <2>6. ~ in_message' /\ file' = <<>> /\ Len(file') = 0
    BY <2>1, <2>5
  <2>7. CASE bytes_read < Header /\ bytes_read' = bytes_read + 1 /\ pc' = "header"
    <3>1. bytes_read' <= Header /\ sent' - Len(uart') = begin' + bytes_read'
      BY <2>1, <2>4, <2>5, <2>7, <2>3, TransferAssumption
    <3> QED
      BY <2>2, <2>4, <2>6, <2>7, <3>1
  <2>8. CASE pc' = "smashed"
    BY <2>2, <2>4, <2>6, <2>8
  <2> QED
    BY <2>1, <2>7, <2>8
<1>11. CASE HeaderEnd
  <2>1. /\ pc = "header" /\ UNCHANGED <<sent, uart, file, c, begin>>
        /\ \/ bytes_read = Header /\ in_message' /\ pc' = "data"
           \/ UNCHANGED <<in_message, bytes_read>> /\ pc' = "test"
    BY <1>11 DEF HeaderEnd, SizeRead
  <2>2. ~ in_message /\ file = <<>> /\ Len(file) = 0
    BY <2>1
  <2>3. CASE bytes_read = Header /\ in_message' /\ pc' = "data"
    <3>1. Taken = begin + Header
      BY <2>1, <2>2, <2>3
    <3> QED
      BY <2>1, <2>2, <2>3, <3>1, TransferAssumption
  <2>4. CASE UNCHANGED <<in_message, bytes_read>> /\ pc' = "test"
    BY <2>1, <2>2, <2>4
  <2> QED
    BY <2>1, <2>3, <2>4
<1>12. CASE DataByte
  <2>1. /\ uart' = Tail(uart) /\ uart # <<>> /\ c' = Head(uart)
        /\ pc = "data" /\ pc' = "base"
        /\ UNCHANGED <<sent, in_message, bytes_read, file, begin>>
    BY <1>12 DEF DataByte
  <2>2. /\ Len(uart') = Len(uart) - 1 /\ c' = Taken + 1
        /\ \A k \in 1 .. Len(uart') : uart'[k] = sent' - Len(uart') + k
    BY <2>1, QueueTake
  <2> QED
    BY <2>1, <2>2, TransferAssumption
<1>13. CASE DataEnd
  BY <1>13, TransferAssumption DEF DataEnd
<1>14. CASE WriteByte
  <2>1. /\ file' = Append(file, c) /\ pc = "write" /\ pc' = "data"
        /\ UNCHANGED <<sent, uart, in_message, c, begin>>
    BY <1>14 DEF WriteByte
  <2>2. c = begin + Header + Len(file) + 1 /\ Taken = c
    BY <2>1
  <2>3. Len(file') = Len(file) + 1 /\ \A k \in 1 .. Len(file') : file'[k] = begin + Header + k
    BY <2>1, <2>2, FileAppend, TransferAssumption
  <2> QED
    BY <2>1, <2>2, <2>3, TransferAssumption
<1>15. CASE Sleep
  BY <1>15, TransferAssumption DEF Sleep
<1>16. CASE SleepFirst
  BY <1>16, TransferAssumption DEF SleepFirst, LoadFirst
<1>17. CASE SleepTest
  BY <1>17, TransferAssumption DEF SleepTest
<1>18. CASE Return
  BY <1>18, TransferAssumption DEF Return
<1>19. CASE UNCHANGED vars
  BY <1>19
<1> QED
  BY <1>1, <1>2, <1>3, <1>4, <1>5, <1>6, <1>7, <1>8, <1>9, <1>10, <1>11, <1>12, <1>13,
     <1>14, <1>15, <1>16, <1>17, <1>18, <1>19 DEF Next, Kernel

-----------------------------------------------------------------------------
(* The theorems *)

LEMMA TransferInit == Init => TransferInvariant
<1> SUFFICES ASSUME Init PROVE TransferInvariant
  OBVIOUS
<1>1. ClockInvariant /\ SleepInvariant /\ TimeOutNotEarly /\ SleepNotEarly
  BY TransferAssumption
     DEF Init, ClockInvariant, SleepInvariant, TimeOutNotEarly, SleepNotEarly, Greater
<1>2. StreamInvariant /\ DataInOrder
  BY DEF Init, StreamInvariant, DataInOrder, Taken
<1> QED
  BY <1>1, <1>2 DEF TransferInvariant

LEMMA TransferStep ==
    ASSUME TypeOK, TransferInvariant, [Next]_vars
    PROVE  TypeOK' /\ TransferInvariant'
  BY TypeStep, ClockStep, SleepStep, StreamStep DEF TransferInvariant

LEMMA TransferAlways == Spec => [](TypeOK /\ TransferInvariant)
<1>1. Init => TypeOK /\ TransferInvariant
  BY TypeInit, TransferInit
<1>2. TypeOK /\ TransferInvariant /\ [Next]_vars => (TypeOK /\ TransferInvariant)'
  BY TransferStep
<1> QED
  BY <1>1, <1>2, PTL DEF Spec

\* Whatever the sizes, sget stores the bytes behind the size field once each and in
\* the order sent: exec_sget's polling loses and repeats none.
THEOREM SgetKeepsOrder == Spec => []DataInOrder
<1>1. TransferInvariant => DataInOrder
  BY DEF TransferInvariant
<1> QED
  BY <1>1, TransferAlways, PTL

\* Whatever the width of the counter, sget does not give up before
\* time_out_duration has passed, torn loads of timer_counter included.
THEOREM SgetWaitsLongEnough == Spec => []TimeOutNotEarly
<1>1. TransferInvariant => TimeOutNotEarly
  BY DEF TransferInvariant
<1> QED
  BY <1>1, TransferAlways, PTL

\* Whatever the width of the counter, sleep does not return early while its sum
\* fits into the low half.
THEOREM SleepLastsLongEnough == Spec => []SleepNotEarly
<1>1. TransferInvariant => SleepNotEarly
  BY DEF TransferInvariant
<1> QED
  BY <1>1, TransferAlways, PTL
=============================================================================
