---------------------------- MODULE BoundedFifo ----------------------------
(***************************************************************************)
(* What a ring buffer of file_handlers.h promises the two sides that share *)
(* it: characters come out once each and in the order they went in, and a  *)
(* character is refused only while Limit of them wait to be read.          *)
(***************************************************************************)
EXTENDS Naturals, Sequences

CONSTANTS Chars, Limit

VARIABLES queue,    \* the characters that wait
          got,      \* every character read so far
          lost      \* how many were refused

vars == <<queue, got, lost>>

Init == queue = <<>> /\ got = <<>> /\ lost = 0

Put(c) == Len(queue) < Limit /\ queue' = Append(queue, c) /\ UNCHANGED <<got, lost>>

Refuse == Len(queue) = Limit /\ lost' = lost + 1 /\ UNCHANGED <<queue, got>>

Get == /\ queue # <<>>
       /\ got' = Append(got, Head(queue))
       /\ queue' = Tail(queue)
       /\ UNCHANGED lost

Next == (\E c \in Chars : Put(c)) \/ Refuse \/ Get

Spec == Init /\ [][Next]_vars
=============================================================================
