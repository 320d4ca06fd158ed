---------------------------- MODULE BlockDevice ----------------------------
(***************************************************************************)
(* What the disk driver of ata.c promises the file system: a read gives    *)
(* what was written last, a write has reached the medium when it returns,  *)
(* and a power loss during a write leaves every sector of it old or new    *)
(* and all others alone.                                                   *)
(***************************************************************************)
EXTENDS Integers

CONSTANTS NSectors, Values, Requests, Blank

VARIABLES store,    \* what the medium holds
          op,       \* the transfer under way
          result    \* what the last transfer left in the caller's buffer

vars == <<store, op, result>>

Sectors == 0 .. (NSectors - 1)
NoOp    == [kind |-> "none", lba |-> 0, count |-> 0, data |-> <<>>]
Nothing == [k \in {} |-> Blank]

\* The sectors of a request, and what they hold.
Extent(o)      == o.lba .. (o.lba + o.count - 1)
Contents(m, o) == [k \in 0 .. (o.count - 1) |-> m[o.lba + k]]

Init == store = [s \in Sectors |-> Blank] /\ op = NoOp /\ result = Nothing

Begin(o) == op = NoOp /\ op' = o /\ result' = Nothing /\ UNCHANGED store

BeginAny ==
    \E r \in Requests :
        \/ \E kind \in {"read", "identify"} :
              Begin([kind |-> kind, lba |-> r.lba, count |-> r.count, data |-> <<>>])
        \/ \E data \in [0 .. (r.count - 1) -> Values] :
              Begin([kind |-> "write", lba |-> r.lba, count |-> r.count, data |-> data])

FinishRead ==
    /\ op.kind = "read" /\ op' = NoOp
    /\ result' = Contents(store, op)
    /\ UNCHANGED store

FinishIdentify == op.kind = "identify" /\ op' = NoOp /\ UNCHANGED <<store, result>>

FinishWrite ==
    /\ op.kind = "write" /\ op' = NoOp
    /\ store' = [s \in Sectors |-> IF s \in Extent(op) THEN op.data[s - op.lba] ELSE store[s]]
    /\ UNCHANGED result

PowerLoss ==
    /\ op' = NoOp /\ result' = Nothing
    /\ store' \in [Sectors -> Values]
    /\ \A s \in Sectors :
          \/ store'[s] = store[s]
          \/ op.kind = "write" /\ s \in Extent(op) /\ store'[s] = op.data[s - op.lba]

Next == BeginAny \/ FinishRead \/ FinishIdentify \/ FinishWrite \/ PowerLoss

Spec == Init /\ [][Next]_vars
=============================================================================
