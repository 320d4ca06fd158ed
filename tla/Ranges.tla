------------------------------- MODULE Ranges -------------------------------
(***************************************************************************)
(* What the bitmap allocator of util.c promises, on sets of unit numbers   *)
(* instead of words and masks.  A range is a record [start, length], the   *)
(* BitRange of util.h.  Bitmap shows that alloc_bitrange computes FirstFit *)
(* and the modules of its callers (FileSystem, Heap) use these operators.  *)
(***************************************************************************)
EXTENDS Integers, FiniteSetsExt

None == -1

Span(r) == r.start .. (r.start + r.length - 1)

Occupied(L) == UNION {Span(r) : r \in L}

Disjoint(L) == \A r, s \in L : r # s => Span(r) \cap Span(s) = {}

NoRange == [start |-> 0, length |-> 0]     \* what a refused request returns

\* The starts at which count free units follow one another inside 0..size-1.
Fits(taken, size, count, grain) ==
    {s \in 0 .. (size - count) :
        /\ s % grain = 0
        /\ s .. (s + count - 1) \cap taken = {}}

FirstFit(taken, size, count, grain) ==
    IF Fits(taken, size, count, grain) = {}
    THEN None
    ELSE Min(Fits(taken, size, count, grain))

\* One unit, no alignment: how the inode, block and descriptor maps are used.
FirstFree(taken, size) ==
    IF (0 .. (size - 1)) \ taken = {} THEN None ELSE Min((0 .. (size - 1)) \ taken)
=============================================================================
