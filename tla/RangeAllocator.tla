--------------------------- MODULE RangeAllocator ---------------------------
(***************************************************************************)
(* Abstract specification of an allocator of ranges of units 0..Size-1:    *)
(* a request is answered with the first range of free units that is long   *)
(* enough and starts on a multiple of the request's grain, and refused     *)
(* exactly when there is none; a release gives back one live range.        *)
(***************************************************************************)
EXTENDS Ranges

CONSTANTS Size,       \* number of units
          Requests    \* the <<count, grain>> pairs that are asked for

VARIABLES live,       \* the ranges handed out and not yet given back
          asked,      \* the last request
          reply       \* the answer to it

vars == <<live, asked, reply>>

Init == live = {} /\ asked = <<0, 1>> /\ reply = NoRange

Grant(count, grain) ==
    LET s == FirstFit(Occupied(live), Size, count, grain)
    IN  /\ s # None
        /\ asked' = <<count, grain>>
        /\ reply' = [start |-> s, length |-> count]
        /\ live' = live \cup {reply'}

Refuse(count, grain) ==
    /\ FirstFit(Occupied(live), Size, count, grain) = None
    /\ asked' = <<count, grain>>
    /\ reply' = NoRange
    /\ UNCHANGED live

Release == \E r \in live : live' = live \ {r} /\ UNCHANGED <<asked, reply>>

Next == \/ \E q \in Requests : Grant(q[1], q[2]) \/ Refuse(q[1], q[2])
        \/ Release

Spec == Init /\ [][Next]_vars
=============================================================================
