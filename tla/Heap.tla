-------------------------------- MODULE Heap --------------------------------
(***************************************************************************)
(* The allocators of alloc.c: a bitmap (module Bitmap) and a table of      *)
(* entries that remembers the range behind every pointer.  The kernel heap *)
(* (kmalloc, kfree, krealloc) counts bytes with grain 4; the page          *)
(* allocator (allocate_page, free_page) is the same code with one page per *)
(* request, grain 1 and an entry for the kernel's own pages.               *)
(*                                                                         *)
(* A pointer is the number of its first unit.  kfree and krealloc look for *)
(* the FIRST entry with that pointer and ignore utilized: entries that are *)
(* not in use keep the pointer they had.                                   *)
(***************************************************************************)
EXTENDS Ranges

CONSTANTS Units,          \* bits that alloc_bitrange scans
          MaxAllocations, \* MAX_ALLOCATIONS, length of the table
          Sizes,          \* lengths that callers ask for
          Grain,          \* 4 for the heap (word_align), 1 for pages
          Reserved,       \* units that belong to the kernel from the start
          NullBase        \* base_ptr of an entry that was never used

ASSUME HeapAssumption ==
    /\ Units \in Nat /\ MaxAllocations \in Nat
    /\ Sizes \subseteq Nat \ {0} /\ Grain \in Nat \ {0}
    /\ Reserved \in 0 .. Units /\ NullBase \in Int
    /\ Reserved > 0 => MaxAllocations > 0

VARIABLES pc,        \* "run", "move" inside krealloc, or "panic"
          bits,      \* the 1 bits of the bitmap
          entries,   \* the table
          held,      \* what the callers hold: the ranges returned and not freed
          moving     \* inside krealloc: the range that moves

vars == <<pc, bits, entries, held, moving>>

Entries   == 0 .. (MaxAllocations - 1)
BitRange  == [start : Nat, length : Nat]
KernelRange == [start |-> 0, length |-> Reserved]
NullEntry == [base |-> NullBase, range |-> NoRange, utilized |-> FALSE]
NewEntry(r) == [base |-> r.start, range |-> r, utilized |-> TRUE]

\* initialize_allocator
Init ==
    /\ pc = "run" /\ bits = 0 .. (Reserved - 1) /\ held = {} /\ moving = NoRange
    /\ entries = [e \in Entries |-> IF e = 0 /\ Reserved > 0 THEN NewEntry(KernelRange)
                                    ELSE NullEntry]

Panic == pc' = "panic" /\ UNCHANGED <<bits, entries, held, moving>>

FreeEntries == {e \in Entries : ~entries[e].utilized}

\* Bugs the properties must notice: a run starts at the 1 bit instead of behind it;
\* the table is filled from its end.
TakeEarly(size, next) ==
    LET s == FirstFit(bits, Units, size, Grain)
        r == [start |-> IF s > 0 THEN s - 1 ELSE 0, length |-> size]
    IN  IF s = None \/ FreeEntries = {} THEN Panic
        ELSE /\ bits' = bits \cup Span(r)
             /\ entries' = [entries EXCEPT ![Min(FreeEntries)] = NewEntry(r)]
             /\ held' = held \cup {r}
             /\ pc' = next
TakeLast(size, next) ==
    LET s == FirstFit(bits, Units, size, Grain)
        r == [start |-> s, length |-> size]
        e == CHOOSE e \in FreeEntries : \A f \in FreeEntries : f <= e
    IN  IF s = None \/ FreeEntries = {} THEN Panic
        ELSE /\ bits' = bits \cup Span(r)
             /\ entries' = [entries EXCEPT ![e] = NewEntry(r)]
             /\ held' = held \cup {r}
             /\ pc' = next

\* The common part of kmalloc, allocate_page and krealloc; next is where the
\* caller goes on.
Take(size, next) ==
    LET s == FirstFit(bits, Units, size, Grain)
        r == [start |-> s, length |-> size]
    IN  IF s = None THEN Panic
        ELSE /\ bits' = bits \cup Span(r)
             /\ IF FreeEntries = {}
                THEN pc' = "panic" /\ UNCHANGED <<entries, held>>
                ELSE /\ entries' = [entries EXCEPT ![Min(FreeEntries)] = NewEntry(r)]
                     /\ held' = held \cup {r}
                     /\ pc' = next

\* The entries that the search of kfree, free_page and krealloc can stop at.
WithBase(ptr) == {e \in Entries : entries[e].base = ptr}

\* A bug the properties must notice: utilized is not reset.
GiveKeepsEntry(ptr) ==
    IF WithBase(ptr) = {} THEN Panic
    ELSE /\ bits' = bits \ Span(entries[Min(WithBase(ptr))].range)
         /\ held' = held \ {r \in held : r.start = ptr}
         /\ moving' = NoRange
         /\ pc' = "run"
         /\ UNCHANGED entries

Give(ptr) ==
    IF WithBase(ptr) = {} THEN Panic
    ELSE LET e == Min(WithBase(ptr))
         IN  /\ entries' = [entries EXCEPT ![e].utilized = FALSE]
             /\ bits' = bits \ Span(entries[e].range)
             /\ held' = held \ {r \in held : r.start = ptr}
             /\ moving' = NoRange
             /\ pc' = "run"

\* kmalloc, kcalloc and allocate_page
Kmalloc(size) == pc = "run" /\ Take(size, "run") /\ UNCHANGED moving

\* kfree and free_page
Kfree(ptr) == pc = "run" /\ Give(ptr)

\* krealloc takes the new block before it gives the old one back.
KreallocTake(r, size) ==
    /\ pc = "run"
    /\ Take(size, "move")
    /\ moving' = IF pc' = "move" THEN r ELSE moving

KreallocMove == pc = "move" /\ Give(moving.start)

Next ==
    \/ \E size \in Sizes : Kmalloc(size)
    \/ \E r \in held : Kfree(r.start)
    \/ \E r \in held, size \in Sizes : KreallocTake(r, size)
    \/ KreallocMove

Spec == Init /\ [][Next]_vars

-----------------------------------------------------------------------------
TypeOK ==
    /\ pc \in {"run", "move", "panic"}
    /\ bits \in SUBSET (0 .. (Units - 1))
    /\ entries \in [Entries -> [base : Int, range : BitRange, utilized : BOOLEAN]]
    /\ held \in SUBSET BitRange
    /\ moving \in BitRange

LiveEntries == {e \in Entries : entries[e].utilized}
KernelHeld  == IF Reserved > 0 THEN {KernelRange} ELSE {}

\* Nothing is handed out twice.
BlocksDisjoint == Disjoint(held \cup KernelHeld)

\* The bitmap and the table stand for exactly what is held: neither bytes nor
\* entries are lost or freed under their holder.
NothingLost ==
    pc # "panic" => /\ bits = Occupied(held \cup KernelHeld)
                    /\ {entries[e].range : e \in LiveEntries} = held \cup KernelHeld

\* The search by pointer ends at the entry of the block: no entry left behind
\* by an earlier block with the same address lies in front of it.
FreesOwnBlock ==
    pc # "panic" => \A r \in held :
        /\ WithBase(r.start) # {}
        /\ entries[Min(WithBase(r.start))] = NewEntry(r)

\* The inductive invariant behind these.  An entry in use has no entry with its
\* pointer in front of it, in use or not: it was put into the first entry that
\* was free, so those in front held other blocks at that time.
NoStaleTwin ==
    \A e \in LiveEntries : \A f \in Entries : f < e => entries[f].base # entries[e].base

EntryIsBlock ==
    \A e \in LiveEntries : /\ entries[e] = NewEntry(entries[e].range)
                           /\ entries[e].range.length > 0

EntriesApart ==
    \A e, f \in LiveEntries : e # f => Span(entries[e].range) \cap Span(entries[f].range) = {}

HeapInvariant ==
    /\ BlocksDisjoint
    /\ pc # "panic" => /\ NothingLost /\ NoStaleTwin /\ EntryIsBlock /\ EntriesApart
                       /\ KernelHeld \cap held = {}
    /\ pc = "move" => moving \in held
=============================================================================
