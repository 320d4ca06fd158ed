----------------------------- MODULE HeapProofs -----------------------------
(***************************************************************************)
(* Proofs about Heap, for tables and heaps of any size, and about Strings, *)
(* for any heap, lines and number of commands: whose every block is, and   *)
(* that the words which run are those of the line as it was typed.         *)
(***************************************************************************)
EXTENDS Strings, FiniteSetTheorems, WellFoundedInduction, TLAPS

\* A set of numbers has a least element, and Min is it.
LEMMA MinInSet ==
    ASSUME NEW S \in SUBSET Nat, S # {}
    PROVE  Min(S) \in S /\ \A y \in S : Min(S) <= y
<1>1. PICK m \in S : \A y \in S : ~(<<y, m>> \in OpToRel(<, Nat))
  BY NatLessThanWellFounded, WFMin, Zenon
<1>2. \A y \in S : ~(y < m)
  BY <1>1, Zenon DEF OpToRel
<1>3. \A y \in S : m <= y
  BY <1>2
<1>4. QED
  BY <1>3 DEF Min

\* A range that FirstFit finds is free and inside the bitmap.
LEMMA FirstFitFits ==
    ASSUME NEW taken, NEW size \in Nat, NEW count \in Nat, NEW grain,
           FirstFit(taken, size, count, grain) # None
    PROVE  LET s == FirstFit(taken, size, count, grain)
           IN  /\ s \in Nat /\ s + count <= size
               /\ s .. (s + count - 1) \cap taken = {}
<1>1. Fits(taken, size, count, grain) \in SUBSET Nat
  BY DEF Fits
<1>2. Fits(taken, size, count, grain) # {}
  BY DEF FirstFit
<1>3. FirstFit(taken, size, count, grain) \in Fits(taken, size, count, grain)
  BY <1>1, <1>2, MinInSet DEF FirstFit
<1>4. QED
  BY <1>3 DEF Fits

LEMMA FreeEntry ==
    ASSUME FreeEntries # {}
    PROVE  /\ Min(FreeEntries) \in Entries /\ ~entries[Min(FreeEntries)].utilized
           /\ \A f \in Entries : f < Min(FreeEntries) => entries[f].utilized
<1>1. FreeEntries \in SUBSET Nat
  BY DEF FreeEntries, Entries
<1>2. Min(FreeEntries) \in FreeEntries /\ \A y \in FreeEntries : Min(FreeEntries) <= y
  BY <1>1, MinInSet
<1>3. \A f \in Entries : f \in FreeEntries \/ entries[f].utilized
  BY DEF FreeEntries
<1>4. \A f \in Entries : f < Min(FreeEntries) => f \notin FreeEntries
  <2>1. \A f, n \in Nat : n <= f => ~(f < n)
    OBVIOUS
  <2>2. QED
    BY <1>1, <1>2, <2>1
<1>5. Min(FreeEntries) \in Entries /\ ~entries[Min(FreeEntries)].utilized
  BY <1>2 DEF FreeEntries
<1>6. QED
  BY <1>3, <1>4, <1>5

-----------------------------------------------------------------------------
(* Types *)

Entry == [base : Int, range : BitRange, utilized : BOOLEAN]

LEMMA NewEntryType ==
    ASSUME NEW r \in BitRange
    PROVE  NewEntry(r) \in Entry
  BY DEF NewEntry, Entry, BitRange

LEMMA TypeInit == Init => TypeOK
<1>1. SUFFICES ASSUME Init PROVE TypeOK
  OBVIOUS
<1>2. NullEntry \in Entry /\ KernelRange \in BitRange /\ NoRange \in BitRange
  BY HeapAssumption DEF NullEntry, Entry, KernelRange, NoRange, BitRange
<1>3. NewEntry(KernelRange) \in Entry
  BY <1>2, NewEntryType
<1>4. entries \in [Entries -> Entry]
  BY <1>1, <1>2, <1>3 DEF Init
<1>5. bits \in SUBSET (0 .. (Units - 1))
  BY <1>1, HeapAssumption DEF Init
<1>6. QED
  BY <1>1, <1>2, <1>4, <1>5 DEF Init, TypeOK, Entry

LEMMA TakeType ==
    ASSUME TypeOK, NEW size \in Nat, NEW next \in {"run", "move"}, Take(size, next)
    PROVE  /\ pc' \in {"panic", next} /\ bits' \in SUBSET (0 .. (Units - 1))
           /\ entries' \in [Entries -> Entry] /\ held' \in SUBSET BitRange
<1> DEFINE s == FirstFit(bits, Units, size, Grain)
           r == [start |-> s, length |-> size]
<1>1. CASE s = None
  BY <1>1 DEF Take, Panic, TypeOK, Entry
<1>2. CASE s # None
  <2>1. Units \in Nat
    BY HeapAssumption
  <2>2. s \in Nat /\ s + size <= Units
    BY <1>2, <2>1, FirstFitFits
  <2>3. r \in BitRange /\ Span(r) \in SUBSET (0 .. (Units - 1))
    BY <2>1, <2>2 DEF BitRange, Span
  <2>4. NewEntry(r) \in Entry
    BY <2>3, NewEntryType
  <2>5. bits' = bits \cup Span(r)
    BY <1>2 DEF Take
  <2> HIDE DEF r
  <2>6. CASE FreeEntries = {}
    BY <1>2, <2>3, <2>5, <2>6 DEF Take, TypeOK, Entry
  <2>7. CASE FreeEntries # {}
    <3>1. /\ entries' = [entries EXCEPT ![Min(FreeEntries)] = NewEntry(r)]
          /\ held' = held \cup {r} /\ pc' = next
      BY <1>2, <2>7 DEF Take, r
    <3>2. QED
      BY <2>3, <2>4, <2>5, <2>7, <3>1, FreeEntry DEF TypeOK, Entry
  <2>8. QED
    BY <2>6, <2>7
<1>3. QED
  BY <1>1, <1>2

LEMMA GiveType ==
    ASSUME TypeOK, NEW ptr, Give(ptr)
    PROVE  TypeOK'
<1>1. CASE WithBase(ptr) = {}
  BY <1>1 DEF Give, Panic, TypeOK
<1>2. CASE WithBase(ptr) # {}
  <2>1. WithBase(ptr) \in SUBSET Nat
    BY DEF WithBase, Entries
  <2>2. Min(WithBase(ptr)) \in Entries
    BY <1>2, <2>1, MinInSet DEF WithBase
  <2>3. entries' = [entries EXCEPT ![Min(WithBase(ptr))].utilized = FALSE]
    BY <1>2 DEF Give
  <2>4. entries' \in [Entries -> Entry]
    BY <2>2, <2>3 DEF TypeOK, Entry
  <2>5. NoRange \in BitRange
    BY DEF NoRange, BitRange
  <2>6. QED
    BY <1>2, <2>4, <2>5 DEF Give, TypeOK, Entry
<1>3. QED
  BY <1>1, <1>2

-----------------------------------------------------------------------------
(* The heap invariant *)

LEMMA HeapInit == Init => HeapInvariant
<1>1. SUFFICES ASSUME Init PROVE HeapInvariant
  OBVIOUS
<1>2. CASE Reserved > 0
  <2>1. 0 \in Entries
    BY <1>2, HeapAssumption DEF Entries
  <2>2. entries = [e \in Entries |-> IF e = 0 THEN NewEntry(KernelRange) ELSE NullEntry]
    BY <1>1, <1>2 DEF Init
  <2>3. LiveEntries = {0} /\ entries[0] = NewEntry(KernelRange)
    BY <2>1, <2>2 DEF LiveEntries, NewEntry, NullEntry
  <2>4. entries[0].range = KernelRange /\ KernelRange.length > 0
    BY <1>2, <2>3 DEF NewEntry, KernelRange
  <2>5. Span(KernelRange) = 0 .. (Reserved - 1)
    BY HeapAssumption DEF Span, KernelRange
  <2>6. held \cup KernelHeld = {KernelRange} /\ KernelHeld \cap held = {}
    BY <1>1, <1>2 DEF Init, KernelHeld
  <2>7. NothingLost
    BY <1>1, <2>3, <2>4, <2>5, <2>6 DEF Init, NothingLost, Occupied
  <2>8. \A f \in Entries : ~(f < 0)
    BY DEF Entries
  <2>9. QED
    BY <1>1, <2>3, <2>4, <2>6, <2>7, <2>8
       DEF Init, HeapInvariant, BlocksDisjoint, Disjoint, NoStaleTwin, EntryIsBlock, EntriesApart
<1>3. CASE ~(Reserved > 0)
  <2>1. LiveEntries = {}
    BY <1>1, <1>3 DEF Init, LiveEntries, NullEntry
  <2>2. bits = {} /\ held = {} /\ KernelHeld = {}
    BY <1>1, <1>3, HeapAssumption DEF Init, KernelHeld
  <2>3. NothingLost
    BY <2>1, <2>2 DEF NothingLost, Occupied
  <2>4. QED
    BY <1>1, <2>1, <2>2, <2>3
       DEF Init, HeapInvariant, BlocksDisjoint, Disjoint, NoStaleTwin, EntryIsBlock, EntriesApart
<1>4. QED
  BY <1>2, <1>3

\* In use, two blocks have different pointers.
LEMMA SpanHasStart ==
    ASSUME NEW r \in BitRange, r.length > 0
    PROVE  r.start \in Span(r)
  BY DEF Span, BitRange

LEMMA TakeInv ==
    ASSUME TypeOK, HeapInvariant, pc = "run", NEW size \in Nat \ {0}, NEW next \in {"run", "move"},
           Take(size, next), pc' # "panic"
    PROVE  /\ BlocksDisjoint' /\ NothingLost' /\ NoStaleTwin' /\ EntryIsBlock' /\ EntriesApart'
           /\ (KernelHeld \cap held)' = {} /\ held \subseteq held'
<1> DEFINE s == FirstFit(bits, Units, size, Grain)
           r == [start |-> s, length |-> size]
           m == Min(FreeEntries)
<1>1. s # None /\ FreeEntries # {}
  BY DEF Take, Panic
<1>2. /\ bits' = bits \cup Span(r)
      /\ entries' = [entries EXCEPT ![m] = NewEntry(r)]
      /\ held' = held \cup {r}
  BY <1>1 DEF Take
<1>3. size \in Nat /\ size > 0 /\ Units \in Nat
  BY HeapAssumption
<1>4. s \in Nat /\ s .. (s + size - 1) \cap bits = {}
  BY <1>1, <1>3, FirstFitFits
<1>5. r \in BitRange /\ r.length > 0 /\ Span(r) \cap bits = {} /\ r.start = s
  BY <1>3, <1>4 DEF BitRange, Span
<1>6. m \in Entries /\ ~entries[m].utilized /\ \A f \in Entries : f < m => entries[f].utilized
  BY <1>1, FreeEntry
<1>7. entries \in [Entries -> Entry]
  BY DEF TypeOK, Entry
<1> HIDE DEF s, r, m
<1>8. entries'[m] = NewEntry(r) /\ \A e \in Entries : e # m => entries'[e] = entries[e]
  BY <1>2, <1>6, <1>7
<1>9. NewEntry(r).range = r /\ NewEntry(r).utilized /\ NewEntry(r).base = r.start
  BY DEF NewEntry
<1>10. LiveEntries' = LiveEntries \cup {m} /\ m \notin LiveEntries
  BY <1>6, <1>8, <1>9 DEF LiveEntries
<1>11. /\ bits = Occupied(held \cup KernelHeld)
       /\ {entries[e].range : e \in LiveEntries} = held \cup KernelHeld
       /\ NoStaleTwin /\ EntryIsBlock /\ EntriesApart /\ KernelHeld \cap held = {}
       /\ BlocksDisjoint
  BY DEF HeapInvariant, NothingLost
<1>12. \A x \in held \cup KernelHeld : Span(x) \subseteq bits
  BY <1>11 DEF Occupied
<1>13. \A x \in held \cup KernelHeld : Span(x) \cap Span(r) = {}
  BY <1>5, <1>12
<1>14. KernelHeld' = KernelHeld
  BY DEF KernelHeld, KernelRange
<1>15. r.start \in Span(r)
  BY <1>5, SpanHasStart
<1>16. BlocksDisjoint'
  <2>1. Disjoint(held \cup KernelHeld)
    BY <1>11 DEF BlocksDisjoint
  <2>2. Disjoint((held \cup KernelHeld) \cup {r})
    BY <1>13, <2>1 DEF Disjoint
  <2>3. (held \cup KernelHeld) \cup {r} = held' \cup KernelHeld'
    BY <1>2, <1>14
  <2>4. QED
    BY <2>2, <2>3 DEF BlocksDisjoint
<1>17. \A e \in LiveEntries : /\ e \in Entries /\ entries'[e] = entries[e]
                              /\ entries[e].range \in held \cup KernelHeld
  BY <1>8, <1>10, <1>11 DEF LiveEntries
<1>18. NothingLost'
  <2>1. Occupied(held' \cup KernelHeld') = Occupied(held \cup KernelHeld) \cup Span(r)
    BY <1>2, <1>14 DEF Occupied
  <2>2. {entries'[e].range : e \in LiveEntries'}
          = {entries[e].range : e \in LiveEntries} \cup {r}
    BY <1>8, <1>9, <1>10, <1>17
  <2>3. QED
    BY <1>2, <1>11, <1>14, <2>1, <2>2 DEF NothingLost
<1>19. EntryIsBlock'
  BY <1>5, <1>8, <1>9, <1>10, <1>11, <1>17 DEF EntryIsBlock
<1>20. EntriesApart'
  BY <1>8, <1>9, <1>10, <1>11, <1>13, <1>17 DEF EntriesApart
<1>21. NoStaleTwin'
  \* Entries in front of the new one are in use: their blocks are elsewhere.
  <2>1. \A e \in LiveEntries : entries[e].base # r.start
    <3>1. TAKE e \in LiveEntries
    <3>2. /\ entries[e] = NewEntry(entries[e].range) /\ entries[e].range.length > 0
          /\ entries[e].range \in BitRange
      BY <1>7, <1>11, <1>17 DEF EntryIsBlock, Entry
    <3>3. entries[e].base = entries[e].range.start
      BY <3>2 DEF NewEntry
    <3>4. entries[e].range.start \in Span(entries[e].range)
      BY <3>2, SpanHasStart
    <3>5. QED
      BY <1>13, <1>15, <1>17, <3>3, <3>4
  <2>2. ASSUME NEW e \in LiveEntries', NEW f \in Entries, f < e
        PROVE  entries'[f].base # entries'[e].base
    <3>1. CASE e = m
      <4>1. f \in LiveEntries /\ f # m
        BY <1>6, <1>10, <2>2, <3>1 DEF LiveEntries
      <4>2. QED
        BY <1>8, <1>9, <2>1, <3>1, <4>1
    <3>2. CASE e # m
      <4>1. e \in LiveEntries /\ entries'[e] = entries[e] /\ entries[f].base # entries[e].base
        BY <1>10, <1>11, <1>17, <2>2, <3>2 DEF NoStaleTwin
      <4>2. QED
        BY <1>8, <1>9, <2>1, <4>1
    <3>3. QED
      BY <3>1, <3>2
  <2>3. QED
    BY <2>2 DEF NoStaleTwin
<1>22. (KernelHeld \cap held)' = {}
  <2>1. r \notin KernelHeld
    BY <1>13, <1>15
  <2>2. QED
    BY <1>2, <1>11, <1>14, <2>1
<1>23. QED
  BY <1>2, <1>16, <1>18, <1>19, <1>20, <1>21, <1>22

\* The first entry with the pointer of a block is the block's own.
LEMMA FindsOwner ==
    ASSUME TypeOK, HeapInvariant, pc # "panic", NEW r \in held
    PROVE  /\ WithBase(r.start) # {}
           /\ Min(WithBase(r.start)) \in LiveEntries
           /\ entries[Min(WithBase(r.start))] = NewEntry(r)
<1>1. /\ {entries[e].range : e \in LiveEntries} = held \cup KernelHeld
      /\ NoStaleTwin /\ EntryIsBlock
  BY DEF HeapInvariant, NothingLost
<1>2. PICK e \in LiveEntries : entries[e].range = r
  BY <1>1
<1>3. entries[e] = NewEntry(r) /\ entries[e].base = r.start
  BY <1>1, <1>2 DEF EntryIsBlock, NewEntry
<1>4. e \in WithBase(r.start) /\ WithBase(r.start) \in SUBSET Nat /\ e \in Entries
  BY <1>3 DEF WithBase, LiveEntries, Entries
<1>5. /\ Min(WithBase(r.start)) \in WithBase(r.start)
      /\ Min(WithBase(r.start)) <= e
  BY <1>4, MinInSet
<1>6. Min(WithBase(r.start)) \in Entries /\ entries[Min(WithBase(r.start))].base = r.start
  BY <1>5 DEF WithBase
<1>7. Min(WithBase(r.start)) = e
  <2>1. ~(Min(WithBase(r.start)) < e)
    BY <1>1, <1>3, <1>6 DEF NoStaleTwin
  <2>2. QED
    BY <1>4, <1>5, <1>6, <2>1 DEF Entries
<1>8. QED
  BY <1>3, <1>4, <1>7

LEMMA GiveInv ==
    ASSUME TypeOK, HeapInvariant, pc # "panic", NEW r \in held, Give(r.start)
    PROVE  HeapInvariant'
<1> DEFINE m == Min(WithBase(r.start))
<1>1. WithBase(r.start) # {} /\ m \in LiveEntries /\ entries[m] = NewEntry(r)
  BY FindsOwner
<1>2. /\ entries' = [entries EXCEPT ![m].utilized = FALSE]
      /\ bits' = bits \ Span(entries[m].range)
      /\ held' = held \ {x \in held : x.start = r.start}
      /\ moving' = NoRange /\ pc' = "run"
  BY <1>1 DEF Give
<1> HIDE DEF m
<1>3. /\ bits = Occupied(held \cup KernelHeld)
      /\ {entries[e].range : e \in LiveEntries} = held \cup KernelHeld
      /\ NoStaleTwin /\ EntryIsBlock /\ EntriesApart /\ KernelHeld \cap held = {}
      /\ Disjoint(held \cup KernelHeld)
  BY DEF HeapInvariant, NothingLost, BlocksDisjoint
<1>4. entries[m].range = r /\ m \in Entries /\ entries \in [Entries -> Entry]
  BY <1>1 DEF NewEntry, LiveEntries, TypeOK, Entry
<1>5. \A x \in held \cup KernelHeld : x.start \in Span(x)
  <2>1. TAKE x \in held \cup KernelHeld
  <2>2. PICK e \in LiveEntries : entries[e].range = x
    BY <1>3
  <2>3. x \in BitRange /\ x.length > 0
    BY <1>3, <1>4, <2>2 DEF EntryIsBlock, LiveEntries, Entry
  <2>4. QED
    BY <2>3, SpanHasStart
<1>6. held' = held \ {r}
  <2>1. \A x \in held : x.start = r.start => x = r
    BY <1>3, <1>5 DEF Disjoint
  <2>2. QED
    BY <1>2, <2>1
<1>7. KernelHeld' = KernelHeld
  BY DEF KernelHeld, KernelRange
<1>8. held' \cup KernelHeld' = (held \cup KernelHeld) \ {r}
  BY <1>3, <1>6, <1>7
<1>9. /\ entries'[m].base = entries[m].base /\ entries'[m].utilized = FALSE
      /\ \A e \in Entries : e # m => entries'[e] = entries[e]
  BY <1>2, <1>4 DEF Entry
<1>10. LiveEntries' = LiveEntries \ {m}
  BY <1>4, <1>9 DEF LiveEntries
<1>11. \A e \in LiveEntries' : e \in LiveEntries /\ e \in Entries /\ e # m /\ entries'[e] = entries[e]
  BY <1>9, <1>10 DEF LiveEntries
<1>12. BlocksDisjoint'
  BY <1>3, <1>8 DEF BlocksDisjoint, Disjoint
<1>13. EntriesApart' /\ EntryIsBlock'
  BY <1>3, <1>11 DEF EntriesApart, EntryIsBlock
<1>14. \A f \in Entries : entries'[f].base = entries[f].base
  BY <1>9
<1>15. NoStaleTwin'
  BY <1>3, <1>11, <1>14 DEF NoStaleTwin
<1>16. NothingLost'
  <2>1. bits' = Occupied((held \cup KernelHeld) \ {r})
    <3>1. \A x \in held \cup KernelHeld : x # r => Span(x) \cap Span(r) = {}
      BY <1>3 DEF Disjoint
    <3>2. bits' = Occupied(held \cup KernelHeld) \ Span(r)
      BY <1>2, <1>3, <1>4
    <3>3. QED
      BY <3>1, <3>2 DEF Occupied
  <2>2. \A e \in LiveEntries : e # m => entries[e].range # r
    <3>1. TAKE e \in LiveEntries
    <3>2. SUFFICES ASSUME e # m, entries[e].range = r PROVE FALSE
      OBVIOUS
    <3>3. Span(r) \cap Span(r) = {}
      BY <1>1, <1>3, <1>4, <3>2 DEF EntriesApart
    <3>4. QED
      BY <1>5, <3>3
  <2>3. {entries'[e].range : e \in LiveEntries'} = (held \cup KernelHeld) \ {r}
    <3>1. {entries'[e].range : e \in LiveEntries'} = {entries[e].range : e \in LiveEntries \ {m}}
      BY <1>10, <1>11
    <3>2. {entries[e].range : e \in LiveEntries \ {m}} = {entries[e].range : e \in LiveEntries} \ {r}
      BY <1>1, <1>4, <2>2
    <3>3. QED
      BY <1>3, <3>1, <3>2
  <2>4. QED
    BY <1>8, <2>1, <2>3 DEF NothingLost
<1>17. (KernelHeld \cap held)' = {}
  BY <1>3, <1>6, <1>7
<1>18. pc' = "run"
  BY <1>2
<1>19. QED
  BY <1>12, <1>13, <1>15, <1>16, <1>17, <1>18 DEF HeapInvariant

LEMMA HeapStutters ==
    ASSUME TypeOK, HeapInvariant, UNCHANGED vars
    PROVE  TypeOK' /\ HeapInvariant'
<1>1. UNCHANGED <<pc, bits, entries, held, moving>>
  BY DEF vars
<1>2. LiveEntries' = LiveEntries /\ KernelHeld' = KernelHeld
  BY <1>1 DEF LiveEntries, KernelHeld, KernelRange
<1>3. /\ BlocksDisjoint = BlocksDisjoint' /\ NothingLost = NothingLost'
      /\ NoStaleTwin = NoStaleTwin' /\ EntryIsBlock = EntryIsBlock'
      /\ EntriesApart = EntriesApart' /\ TypeOK = TypeOK'
  BY <1>1, <1>2 DEF BlocksDisjoint, NothingLost, NoStaleTwin, EntryIsBlock, EntriesApart, TypeOK
<1>4. QED
  BY <1>1, <1>2, <1>3 DEF HeapInvariant

\* A request that is not granted leaves what is held as it is.
LEMMA TakePanics ==
    ASSUME HeapInvariant, NEW size, NEW next \in {"run", "move"}, Take(size, next), pc' = "panic"
    PROVE  HeapInvariant'
<1>1. held' = held
  BY DEF Take, Panic
<1>2. QED
  BY <1>1 DEF HeapInvariant, BlocksDisjoint, KernelHeld, KernelRange

LEMMA KmallocInv ==
    ASSUME TypeOK, HeapInvariant, NEW size \in Nat \ {0}, Kmalloc(size)
    PROVE  TypeOK' /\ HeapInvariant' /\ pc' \in {"run", "panic"}
<1>1. TypeOK' /\ pc' \in {"run", "panic"}
  BY TakeType DEF Kmalloc, TypeOK, Entry
<1>2. CASE pc' = "run"
  BY <1>1, <1>2, TakeInv DEF Kmalloc, HeapInvariant
<1>3. QED
  BY <1>1, <1>2, TakePanics DEF Kmalloc

LEMMA KreallocTakeInv ==
    ASSUME TypeOK, HeapInvariant, NEW r \in held, NEW size \in Nat \ {0}, KreallocTake(r, size)
    PROVE  TypeOK' /\ HeapInvariant' /\ pc' \in {"move", "panic"}
<1>1. r \in BitRange /\ moving \in BitRange
  BY DEF TypeOK
<1>2. moving' \in BitRange
  BY <1>1 DEF KreallocTake
<1>3. TypeOK' /\ pc' \in {"move", "panic"}
  BY <1>2, TakeType DEF KreallocTake, TypeOK, Entry
<1>4. CASE pc' = "move"
  <2>1. moving' = r
    BY <1>4 DEF KreallocTake
  <2>2. QED
    BY <1>3, <1>4, <2>1, TakeInv DEF KreallocTake, HeapInvariant
<1>5. QED
  BY <1>3, <1>4, TakePanics DEF KreallocTake

LEMMA HeapStep ==
    ASSUME TypeOK, HeapInvariant, [Next]_vars
    PROVE  TypeOK' /\ HeapInvariant'
<1>1. ASSUME NEW size \in Sizes, Kmalloc(size)
      PROVE  TypeOK' /\ HeapInvariant'
  BY <1>1, HeapAssumption, KmallocInv
<1>2. ASSUME NEW r \in held, NEW size \in Sizes, KreallocTake(r, size)
      PROVE  TypeOK' /\ HeapInvariant'
  BY <1>2, HeapAssumption, KreallocTakeInv
<1>3. ASSUME NEW r \in held, Kfree(r.start)
      PROVE  TypeOK' /\ HeapInvariant'
  BY <1>3, GiveType, GiveInv DEF Kfree
<1>4. CASE KreallocMove
  <2>1. moving \in held /\ pc # "panic" /\ Give(moving.start)
    BY <1>4 DEF KreallocMove, HeapInvariant
  <2>2. QED
    BY <2>1, GiveType, GiveInv
<1>5. CASE UNCHANGED vars
  BY <1>5, HeapStutters
<1>6. QED
  BY <1>1, <1>2, <1>3, <1>4, <1>5 DEF Next

LEMMA HeapInvariantHolds == Spec => [](TypeOK /\ HeapInvariant)
<1>1. Init => TypeOK /\ HeapInvariant
  BY TypeInit, HeapInit
<1>2. TypeOK /\ HeapInvariant /\ [Next]_vars => (TypeOK /\ HeapInvariant)'
  BY HeapStep
<1>3. QED
  BY <1>1, <1>2, PTL DEF Spec

-----------------------------------------------------------------------------
(* What a call does to the blocks that are held *)

\* Blocks that are held lie inside the heap, and no two of them meet.
LEMMA HeldFacts ==
    ASSUME TypeOK, HeapInvariant, pc # "panic"
    PROVE  /\ \A r \in held : /\ r \in BitRange /\ r.length > 0 /\ r.start \in Span(r)
                              /\ Span(r) \subseteq bits /\ Span(r) \subseteq 0 .. (Units - 1)
           /\ \A r, q \in held : r # q => r.start # q.start /\ Span(r) \cap Span(q) = {}
<1>1. /\ bits = Occupied(held \cup KernelHeld) /\ Disjoint(held \cup KernelHeld)
      /\ {entries[e].range : e \in LiveEntries} = held \cup KernelHeld /\ EntryIsBlock
  BY DEF HeapInvariant, NothingLost, BlocksDisjoint
<1>2. bits \in SUBSET (0 .. (Units - 1)) /\ held \in SUBSET BitRange
  BY DEF TypeOK
<1>3. \A r \in held : Span(r) \subseteq bits
  BY <1>1 DEF Occupied
<1>4. \A r \in held : r.length > 0
  BY <1>1 DEF EntryIsBlock
<1>5. \A r \in held : r.start \in Span(r)
  BY <1>2, <1>4, SpanHasStart
<1>6. \A r, q \in held : r # q => Span(r) \cap Span(q) = {}
  BY <1>1 DEF Disjoint
<1>7. \A r, q \in held : r # q => r.start # q.start
  BY <1>5, <1>6
<1>8. QED
  BY <1>2, <1>3, <1>4, <1>5, <1>6, <1>7

\* What a granted request adds to the blocks that are held.
LEMMA TookBlock ==
    ASSUME TypeOK, HeapInvariant, pc = "run", NEW size \in Nat \ {0},
           NEW next \in {"run", "move"}, Take(size, next), pc' # "panic"
    PROVE  \E r \in BitRange :
               /\ pc' = next /\ held' = held \cup {r} /\ r \notin held /\ r.length = size
               /\ r = (CHOOSE q \in held' : q \notin held)
               /\ Span(r) \subseteq 0 .. (Units - 1) /\ r.start \in Span(r)
               /\ \A q \in held : q.start # r.start /\ Span(q) \cap Span(r) = {}
<1> DEFINE s == FirstFit(bits, Units, size, Grain)
           r == [start |-> s, length |-> size]
<1>1. s # None /\ FreeEntries # {}
  BY DEF Take, Panic
<1>2. held' = held \cup {r} /\ pc' = next
  BY <1>1 DEF Take
<1>3. Units \in Nat
  BY HeapAssumption
<1>4. s \in Nat /\ s + size <= Units /\ s .. (s + size - 1) \cap bits = {}
  BY <1>1, <1>3, FirstFitFits
<1>5. /\ r \in BitRange /\ r.length = size /\ r.start \in Span(r)
      /\ Span(r) \cap bits = {} /\ Span(r) \subseteq 0 .. (Units - 1)
  BY <1>3, <1>4 DEF BitRange, Span
<1> HIDE DEF r, s
<1>6. \A q \in held : q.start \in Span(q) /\ Span(q) \subseteq bits
  BY HeldFacts
<1>7. \A q \in held : q.start # r.start /\ Span(q) \cap Span(r) = {}
  BY <1>5, <1>6
<1>8. r \notin held
  BY <1>7
<1>9. r = (CHOOSE q \in held' : q \notin held)
  BY <1>2, <1>8
<1>10. QED
  BY <1>2, <1>5, <1>7, <1>8, <1>9

\* A pointer that was freed already: freeing it again changes nothing.
Gone(p) ==
    /\ WithBase(p) # {}
    /\ ~ entries[Min(WithBase(p))].utilized
    /\ Span(entries[Min(WithBase(p))].range) \cap bits = {}

\* A pointer that is gone stays gone when others are freed.
LEMMA GoneStays ==
    ASSUME TypeOK, NEW m \in Entries, entries' = [entries EXCEPT ![m].utilized = FALSE],
           bits' \subseteq bits, NEW p, Gone(p)
    PROVE  Gone(p)'
<1>1. entries \in [Entries -> Entry]
  BY DEF TypeOK, Entry
<1>2. \A e \in Entries : /\ entries'[e].base = entries[e].base
                         /\ entries'[e].range = entries[e].range
                         /\ entries'[e].utilized => entries[e].utilized
  BY <1>1 DEF Entry
<1>3. WithBase(p)' = WithBase(p)
  BY <1>2 DEF WithBase
<1>4. Min(WithBase(p)) \in Entries
  <2>1. WithBase(p) \in SUBSET Nat /\ WithBase(p) # {}
    BY DEF WithBase, Entries, Gone
  <2>2. QED
    BY <2>1, MinInSet DEF WithBase
<1>5. QED
  BY <1>2, <1>3, <1>4 DEF Gone

LEMMA GaveBlock ==
    ASSUME TypeOK, HeapInvariant, pc # "panic", NEW r \in held, Give(r.start)
    PROVE  /\ held' = held \ {r} /\ pc' = "run" /\ Gone(r.start)'
           /\ \A p : Gone(p) => Gone(p)'
<1> DEFINE m == Min(WithBase(r.start))
<1>1. WithBase(r.start) # {} /\ m \in LiveEntries /\ entries[m] = NewEntry(r)
  BY FindsOwner
<1>2. /\ entries' = [entries EXCEPT ![m].utilized = FALSE]
      /\ bits' = bits \ Span(entries[m].range)
      /\ held' = held \ {x \in held : x.start = r.start}
      /\ pc' = "run"
  BY <1>1 DEF Give
<1>3. \A q \in held : q.start = r.start => q = r
  BY HeldFacts
<1>4. held' = held \ {r}
  BY <1>2, <1>3
<1>5. m \in Entries /\ entries \in [Entries -> Entry]
  BY <1>1 DEF LiveEntries, TypeOK, Entry
<1>6. Gone(r.start)'
  <2>1. \A e \in Entries : entries'[e].base = entries[e].base
    BY <1>2, <1>5 DEF Entry
  <2>2. WithBase(r.start)' = WithBase(r.start)
    BY <2>1 DEF WithBase
  <2>3. entries'[m].utilized = FALSE /\ entries'[m].range = entries[m].range
    BY <1>2, <1>5 DEF Entry
  <2>4. QED
    BY <1>1, <1>2, <2>2, <2>3 DEF Gone
<1>7. ASSUME NEW p, Gone(p) PROVE Gone(p)'
  BY <1>2, <1>5, <1>7, GoneStays
<1>8. QED
  BY <1>2, <1>4, <1>6, <1>7

\* kfree of a pointer that is gone finds the old entry and changes nothing.
LEMMA GaveGone ==
    ASSUME TypeOK, HeapInvariant, pc = "run", NEW ptr, Gone(ptr), Give(ptr)
    PROVE  /\ held' = held /\ pc' = "run" /\ TypeOK' /\ HeapInvariant'
           /\ \A r \in held : r.start # ptr
           /\ \A p : Gone(p) => Gone(p)'
<1> DEFINE m == Min(WithBase(ptr))
<1>1. m \in WithBase(ptr) /\ WithBase(ptr) # {}
  <2>1. WithBase(ptr) \in SUBSET Nat /\ WithBase(ptr) # {}
    BY DEF WithBase, Entries, Gone
  <2>2. QED
    BY <2>1, MinInSet
<1>2. m \in Entries /\ entries \in [Entries -> Entry]
  BY <1>1 DEF WithBase, TypeOK, Entry
<1>3. /\ entries' = [entries EXCEPT ![m].utilized = FALSE]
      /\ bits' = bits \ Span(entries[m].range)
      /\ held' = held \ {x \in held : x.start = ptr}
      /\ pc' = "run" /\ moving' = NoRange
  BY <1>1 DEF Give
<1>4. entries[m].utilized = FALSE /\ bits' = bits
  <2>1. entries[m].utilized \in BOOLEAN
    BY <1>2 DEF Entry
  <2>2. QED
    BY <1>3, <2>1 DEF Gone
<1>5. entries' = entries
  <2>1. entries[m] = [entries[m] EXCEPT !.utilized = FALSE]
    BY <1>2, <1>4 DEF Entry
  <2>2. QED
    BY <1>2, <1>3, <2>1
<1>6. held' = held /\ \A r \in held : r.start # ptr
  <2>1. ASSUME NEW r \in held, r.start = ptr PROVE FALSE
    <3>1. m \in LiveEntries
      BY <2>1, FindsOwner
    <3>2. QED
      BY <1>4, <3>1 DEF LiveEntries
  <2>2. QED
    BY <1>3, <2>1
<1>7. TypeOK'
  BY GiveType
<1>8. HeapInvariant'
  <2>1. pc' = pc /\ bits' = bits /\ entries' = entries /\ held' = held
    BY <1>3, <1>4, <1>5, <1>6
  <2>2. LiveEntries' = LiveEntries /\ KernelHeld' = KernelHeld
    BY <1>5 DEF LiveEntries, KernelHeld, KernelRange
  <2>3. /\ BlocksDisjoint = BlocksDisjoint' /\ NothingLost = NothingLost'
        /\ NoStaleTwin = NoStaleTwin' /\ EntryIsBlock = EntryIsBlock'
        /\ EntriesApart = EntriesApart'
    BY <2>1, <2>2 DEF BlocksDisjoint, NothingLost, NoStaleTwin, EntryIsBlock, EntriesApart
  <2>4. QED
    BY <1>3, <1>6, <2>2, <2>3 DEF HeapInvariant
<1>9. ASSUME NEW p, Gone(p) PROVE Gone(p)'
  BY <1>4, <1>5, <1>9 DEF Gone, WithBase
<1>10. QED
  BY <1>3, <1>6, <1>7, <1>8, <1>9

-----------------------------------------------------------------------------
(* The theorems about the heap *)

\* Bitmap, table and blocks keep their types: alloc_bitrange gives no block beyond
\* the bitmap, and kmalloc uses no entry beyond the table.
THEOREM HeapTypes == Spec => []TypeOK
  BY HeapInvariantHolds, PTL

\* kmalloc, krealloc and allocate_page never hand out a unit that somebody
\* holds, for any sequence of calls with valid pointers.
THEOREM HeapBlocksDisjoint == Spec => []BlocksDisjoint
<1>1. HeapInvariant => BlocksDisjoint
  BY DEF HeapInvariant
<1>2. QED
  BY <1>1, HeapInvariantHolds, PTL

\* Bitmap and table stand for exactly the blocks that are held.
THEOREM HeapLosesNothing == Spec => []NothingLost
<1>1. HeapInvariant => NothingLost
  BY DEF HeapInvariant, NothingLost
<1>2. QED
  BY <1>1, HeapInvariantHolds, PTL

\* kfree and krealloc search by pointer without looking at utilized, and still
\* free the right block.
THEOREM KfreeFreesOwnBlock == Spec => []FreesOwnBlock
<1>1. TypeOK /\ HeapInvariant => FreesOwnBlock
  BY FindsOwner DEF FreesOwnBlock
<1>2. QED
  BY <1>1, HeapInvariantHolds, PTL

-----------------------------------------------------------------------------
(* The inductive invariant of Strings: to whom the blocks belong *)

\* The strings in use that have a block, and that block.
InUse      == CASE at \in {"boot", "prompt"} -> {"line", "dir"}
                [] at \in {"split", "run"}   -> Strs
                [] OTHER                     -> {}
Live       == {x \in InUse : str[x].capacity > 0}
BlockOf(x) == [start |-> str[x].contents, length |-> str[x].capacity * Size(x)]
WordNos    == IF at \in {"split", "run"} THEN 1 .. str["list"].len ELSE {}

\* The pointers that the shell still has.
Owned == {str[x].contents : x \in Live} \cup {WordPtr(n) : n \in WordNos}
         \cup (IF pc = "move" THEN {block} ELSE {}) \cup {frees[k] : k \in DOMAIN frees}

StringsApart ==
    /\ \A x \in Live : BlockOf(x) \in held
    /\ \A x, y \in Live : x # y => str[x].contents # str[y].contents
    /\ \A x \in InUse : str[x].capacity = 0 => str[x].len = 0 \/ x = "curr"

\* Every word of the list is in a block of its own and ends in it.
EndsIn(r) == \E u \in Span(r) : mem[u] = Nul
WordsApart ==
    \A n \in WordNos :
        /\ \E r \in held : r.start = WordPtr(n) /\ EndsIn(r)
        /\ \A x \in Live : WordPtr(n) # str[x].contents
        /\ \A k \in WordNos : n # k => WordPtr(n) # WordPtr(k)

\* krealloc: the string is full, and the new block is nobody else's.
MoveApart ==
    pc = "move" =>
        /\ appends # <<>> /\ appends[1][1] \in Live
        /\ moving = BlockOf(appends[1][1])
        /\ str[appends[1][1]].len = str[appends[1][1]].capacity
        /\ [start |-> block, length |-> 2 * str[appends[1][1]].capacity * Size(appends[1][1])] \in held
        /\ \A x \in Live : block # str[x].contents
        /\ \A n \in WordNos : block # WordPtr(n)

\* A pointer that is to be freed is a block's that nobody uses, or gone.
FreesApart ==
    \A k \in DOMAIN frees :
        /\ appends = <<>> /\ at \in {"prompt", "off"}
        /\ \A x \in Live : frees[k] # str[x].contents
        /\ Gone(frees[k]) \/ \E r \in held : r.start = frees[k]

\* The line is not empty when it is split, and the zero behind it is in its block.
LineEnds ==
    LET s == str["line"]
    IN  /\ s.len > 0 => mem[s.contents] # Nul
        /\ at \in {"split", "run"} => s.len > 0
        /\ at = "split" => IF appends = << <<"line", Nul>> >> THEN i = 0
                           ELSE i < s.len /\ mem[s.contents + s.len - 1] = Nul

\* What can be appended next, and what is so when nothing is.
EndOfWord    == << <<"curr", Nul>>, <<"list", PtrOfCurr>> >>
OneChar(x)   == Len(appends) = 1 /\ appends[1][1] = x /\ appends[1][2] \in Nat \ {0}
AppendsKnown ==
    /\ at # "boot" => str["dir"].capacity > 0
    /\ \/ /\ appends = <<>> /\ str["dir"].capacity > 0
          /\ at = "split" /\ i > 0 => str["curr"].len > 0
          /\ at = "run" => str["curr"].capacity = 0 /\ str["list"].len > 0
       \/ at = "boot" /\ appends = << <<"dir", 9>> >>
       \/ at = "prompt" /\ OneChar("line")
       \/ at = "split" /\ appends = << <<"line", Nul>> >>
       \/ at = "split" /\ OneChar("curr")
       \/ at \in {"split", "run"} /\ appends = EndOfWord
       \/ /\ at \in {"split", "run"} /\ appends = Tail(EndOfWord)
          /\ str["curr"].capacity > 0 /\ str["curr"].len > 0
          /\ mem[str["curr"].contents + str["curr"].len - 1] = Nul

StringInvariant ==
    /\ HeapInvariant
    /\ pc # "panic" => /\ StringsApart /\ WordsApart /\ MoveApart /\ FreesApart
                       /\ LineEnds /\ AppendsKnown
                       /\ leaked = {r \in held : r.start \notin Owned}

-----------------------------------------------------------------------------
(* Strings: their elements and their blocks *)

StringRec == [len : Nat, capacity : Nat, contents : 0 .. (Units - 1)]

LEMMA TimesLess ==
    ASSUME NEW a \in Nat, NEW b \in Nat, NEW c \in Nat, a < b
    PROVE  a * c \in Nat /\ a * c + c <= b * c
<1>1. PICK d \in Nat : b = a + 1 + d
  <2>1. b - a - 1 \in Nat /\ b = a + 1 + (b - a - 1)
    OBVIOUS
  <2>2. QED
    BY <2>1
<1>2. (a + 1 + d) * c = a * c + c + d * c
  OBVIOUS
<1>3. d * c \in Nat /\ a * c \in Nat
  OBVIOUS
<1>4. QED
  BY <1>1, <1>2, <1>3

LEMMA SizePositive ==
    ASSUME NEW x
    PROVE  Size(x) \in Nat /\ Size(x) > 0
  BY StringsAssumption DEF Size

\* Element k of a string with capacity cap at p lies in its block.
LEMMA ElementInBlock ==
    ASSUME NEW p \in Nat, NEW cap \in Nat, NEW k \in Nat, k < cap, NEW x
    PROVE  p + k * Size(x) \in Span([start |-> p, length |-> cap * Size(x)])
<1>1. Size(x) \in Nat /\ Size(x) > 0
  BY SizePositive
<1>2. k * Size(x) \in Nat /\ k * Size(x) + Size(x) <= cap * Size(x)
  BY <1>1, TimesLess
<1>3. cap * Size(x) \in Nat
  BY <1>1
<1>4. QED
  BY <1>1, <1>2, <1>3 DEF Span

LEMMA StringTypes ==
    ASSUME StringTypeOK
    PROVE  /\ str \in [Strs -> StringRec] /\ Units \in Nat
           /\ \A x \in Strs : /\ str[x].len \in Nat /\ str[x].capacity \in Nat
                              /\ str[x].contents \in Nat /\ str[x].contents \in 0 .. (Units - 1)
  BY HeapAssumption DEF StringTypeOK, StringRec

\* What the append at the head of the queue is.
LEMMA NextAppend ==
    ASSUME StringTypeOK, AppendsKnown, appends # <<>>
    PROVE  /\ appends[1][1] \in InUse /\ InUse \subseteq Strs
           /\ \/ /\ at = "boot" /\ appends[1][1] = "dir" /\ appends[1][2] = 9
                 /\ Tail(appends) = <<>>
              \/ /\ at = "prompt" /\ appends[1][1] = "line" /\ appends[1][2] \in Nat \ {0}
                 /\ Tail(appends) = <<>> /\ str["dir"].capacity > 0
              \/ /\ at = "split" /\ appends[1][1] = "line" /\ appends[1][2] = Nul
                 /\ Tail(appends) = <<>> /\ appends = << <<"line", Nul>> >> /\ str["dir"].capacity > 0
              \/ /\ at = "split" /\ appends[1][1] = "curr" /\ appends[1][2] \in Nat \ {0}
                 /\ Tail(appends) = <<>> /\ str["dir"].capacity > 0
              \/ /\ at \in {"split", "run"} /\ appends[1][1] = "curr" /\ appends[1][2] = Nul
                 /\ Tail(appends) = << <<"list", PtrOfCurr>> >> /\ str["dir"].capacity > 0
              \/ /\ at \in {"split", "run"} /\ appends[1][1] = "list" /\ appends[1][2] = PtrOfCurr
                 /\ Tail(appends) = <<>> /\ str["dir"].capacity > 0
                 /\ str["curr"].capacity > 0 /\ str["curr"].len > 0
                 /\ mem[str["curr"].contents + str["curr"].len - 1] = Nul
<1>1. appends \in Seq(Strs \X Int)
  BY DEF StringTypeOK
<1>2. Tail(EndOfWord) = << <<"list", PtrOfCurr>> >> /\ EndOfWord[1] = <<"curr", Nul>>
  BY DEF EndOfWord
<1>3. ASSUME NEW x, OneChar(x)
      PROVE  appends[1][1] = x /\ appends[1][2] \in Nat \ {0} /\ Tail(appends) = <<>>
  BY <1>1, <1>3 DEF OneChar
<1>4. CASE at = "boot" /\ appends = << <<"dir", 9>> >>
  BY <1>4 DEF InUse, Strs
<1>5. CASE at = "prompt" /\ OneChar("line")
  BY <1>3, <1>5 DEF AppendsKnown, InUse, Strs
<1>6. CASE at = "split" /\ appends = << <<"line", Nul>> >>
  BY <1>6 DEF AppendsKnown, InUse, Strs
<1>7. CASE at = "split" /\ OneChar("curr")
  BY <1>3, <1>7 DEF AppendsKnown, InUse, Strs
<1>8. CASE at \in {"split", "run"} /\ appends = EndOfWord
  BY <1>2, <1>8 DEF AppendsKnown, InUse, Strs
<1>9. CASE /\ at \in {"split", "run"} /\ appends = Tail(EndOfWord)
           /\ str["curr"].capacity > 0 /\ str["curr"].len > 0
           /\ mem[str["curr"].contents + str["curr"].len - 1] = Nul
  <2>1. appends = << <<"list", PtrOfCurr>> >>
    BY <1>2, <1>9
  <2>2. Tail(appends) = <<>> /\ appends[1][1] = "list" /\ appends[1][2] = PtrOfCurr
    BY <2>1
  <2>3. QED
    BY <1>9, <2>2 DEF AppendsKnown, InUse, Strs
<1>10. QED
  BY <1>4, <1>5, <1>6, <1>7, <1>8, <1>9 DEF AppendsKnown

LEMMA PutFacts ==
    ASSUME StringTypeOK, NEW x \in Strs, NEW p \in 0 .. (Units - 1), NEW cap \in Nat, NEW len \in Nat,
           Put(x, p, cap, len)
    PROVE  /\ str' \in [Strs -> StringRec]
           /\ str'[x].len = len + 1 /\ str'[x].capacity = cap /\ str'[x].contents = p
           /\ \A y \in Strs \ {x} : /\ str'[y].len = str[y].len /\ str'[y].contents = str[y].contents
                                    /\ str'[y].capacity = IF x = "list" /\ y = "curr" THEN 0
                                                          ELSE str[y].capacity
<1>1. str \in [Strs -> StringRec]
  BY StringTypes
<1> DEFINE s == [len |-> len + 1, capacity |-> cap, contents |-> p]
           t == [str EXCEPT ![x] = s]
           c == IF x = "list" THEN 0 ELSE IF x = "curr" THEN cap ELSE t["curr"].capacity
<1>2. s \in StringRec /\ s.len = len + 1 /\ s.capacity = cap /\ s.contents = p
  BY DEF StringRec
<1> HIDE DEF s
<1>3. t \in [Strs -> StringRec] /\ t[x] = s /\ \A y \in Strs \ {x} : t[y] = str[y]
  BY <1>1, <1>2
<1>4. str' = [t EXCEPT !["curr"].capacity = c]
  BY DEF Put, s
<1> HIDE DEF t
<1>5. "curr" \in Strs /\ c \in Nat
  BY <1>3 DEF Strs, StringRec
<1> HIDE DEF c
<1>6. /\ str' \in [Strs -> StringRec]
      /\ \A y \in Strs : /\ str'[y].len = t[y].len /\ str'[y].contents = t[y].contents
                         /\ str'[y].capacity = IF y = "curr" THEN c ELSE t[y].capacity
  BY <1>3, <1>4, <1>5 DEF StringRec
<1>7. QED
  BY <1>2, <1>3, <1>6 DEF c
\* The pointers of words lie in the block of the list.
LEMMA ListInBlock ==
    ASSUME StringTypeOK, StringsApart, NEW n \in WordNos
    PROVE  /\ "list" \in Live /\ n \in Nat /\ n > 0 /\ n <= str["list"].len
           /\ n - 1 \in Nat /\ n - 1 < str["list"].capacity
           /\ BlockOf("list") \in held
           /\ str["list"].contents + (n - 1) * StringUnits \in Span(BlockOf("list"))
<1>1. at \in {"split", "run"} /\ n \in 1 .. str["list"].len
  BY DEF WordNos
<1>2. "list" \in Strs /\ "list" \in InUse
  BY <1>1 DEF InUse, Strs
<1>3. /\ str["list"].len \in Nat /\ str["list"].capacity \in Nat /\ str["list"].contents \in Nat
  BY <1>2, StringTypes
<1>4. "list" \in Live
  BY <1>1, <1>2, <1>3 DEF StringsApart, Live
<1>5. str["list"].len <= str["list"].capacity
  BY <1>2, <1>4 DEF StringTypeOK, Live
<1>6. n \in Nat /\ n > 0 /\ n - 1 \in Nat /\ n - 1 < str["list"].capacity /\ n <= str["list"].len
  BY <1>1, <1>3, <1>5
<1>7. str["list"].contents + (n - 1) * Size("list") \in Span(BlockOf("list"))
  BY <1>3, <1>6, ElementInBlock DEF BlockOf
<1>8. QED
  BY <1>4, <1>6, <1>7 DEF StringsApart, Size

-----------------------------------------------------------------------------
(* APPEND *)

\* An append that is done: the string x has the block p with room for cap elements,
\* len + 1 of them in use; what was in front is copied, other blocks are left alone.
Apart(r, x) == /\ ~ (str[x].capacity > 0 /\ r.start = str[x].contents)
               /\ ~ (pc = "move" /\ r.start = block)

AppendedTo(x, p, cap, len) ==
    /\ pc # "panic" /\ appends # <<>> /\ x = appends[1][1] /\ len < cap
    /\ \/ str[x].capacity > 0 /\ len = str[x].len
       \/ str[x].capacity = 0 /\ len = 0
    /\ Put(x, p, cap, len) /\ AppendDone
    /\ TypeOK' /\ HeapInvariant' /\ pc' = "run"
    /\ mem' \in [0 .. (Units - 1) -> Nat] /\ block' \in 0 .. (Units - 1)
    /\ [start |-> p, length |-> cap * Size(x)] \in held'
    /\ mem'[p + len * Size(x)] = Resolved(appends[1][2])
    /\ \A u \in Nat : u < len * Size(x) => mem'[p + u] = mem[str[x].contents + u]
    /\ \A r \in held : Apart(r, x) => /\ r \in held' /\ r.start # p
                                      /\ \A u \in Span(r) : mem'[u] = mem[u]
    /\ \A r \in held' : r.start # p => r \in held /\ Apart(r, x)

\* What an append leaves as it is: the other strings, the words and the line.
Framed(x, p, cap, len) ==
    /\ x \in InUse /\ InUse \subseteq Strs /\ InUse' = InUse
    /\ str' \in [Strs -> StringRec]
    /\ str'[x].len = len + 1 /\ str'[x].capacity = cap /\ str'[x].contents = p
    /\ \A y \in Strs \ {x} : /\ str'[y].len = str[y].len /\ str'[y].contents = str[y].contents
                             /\ str'[y].capacity = IF x = "list" /\ y = "curr" THEN 0
                                                   ELSE str[y].capacity
    /\ \A y \in Live : y # x => BlockOf(y) \in held /\ Apart(BlockOf(y), x)
    /\ \A y \in Live : y # x => str[y].contents # p /\ BlockOf(y) \in held'
    /\ \A y \in Live : y # x => \A u \in Span(BlockOf(y)) : mem'[u] = mem[u]
    /\ \A n \in WordNos, r \in held : r.start = WordPtr(n) => Apart(r, x)
    /\ x # "list" => WordNos' = WordNos /\ \A n \in WordNos : WordPtr(n)' = WordPtr(n)
    /\ x = "list" => /\ len = str["list"].len /\ WordNos = 1 .. len /\ WordNos' = 1 .. (len + 1)
                     /\ \A n \in WordNos : WordPtr(n)' = WordPtr(n)
                     /\ WordPtr(len + 1)' = str["curr"].contents
                     /\ "curr" \in Live /\ "curr" \notin Live' /\ EndsIn(BlockOf("curr"))
    /\ \A k \in Nat : k < str["line"].len =>
           mem'[str'["line"].contents + k] = mem[str["line"].contents + k]

LEMMA AppendFrame ==
    ASSUME StringTypeOK, StringInvariant, NEW x, NEW p \in 0 .. (Units - 1), NEW cap \in Nat, NEW len \in Nat,
           AppendedTo(x, p, cap, len)
    PROVE  Framed(x, p, cap, len)
<1>1. /\ pc # "panic" /\ appends # <<>> /\ x = appends[1][1] /\ len < cap
      /\ \/ str[x].capacity > 0 /\ len = str[x].len
         \/ str[x].capacity = 0 /\ len = 0
      /\ Put(x, p, cap, len) /\ AppendDone /\ pc' = "run"
      /\ [start |-> p, length |-> cap * Size(x)] \in held'
      /\ mem'[p + len * Size(x)] = Resolved(appends[1][2])
      /\ \A u \in Nat : u < len * Size(x) => mem'[p + u] = mem[str[x].contents + u]
  BY DEF AppendedTo
<1>2. \A r \in held : Apart(r, x) => r \in held' /\ r.start # p /\ \A u \in Span(r) : mem'[u] = mem[u]
  BY DEF AppendedTo
<1>4. /\ StringsApart /\ WordsApart /\ MoveApart /\ FreesApart /\ LineEnds /\ AppendsKnown
      /\ leaked = {r \in held : r.start \notin Owned}
  BY <1>1 DEF StringInvariant
<1>5. /\ appends' = Tail(appends)
      /\ UNCHANGED <<at, i, in_string, frees, commands, typed, stale, leaked>>
  BY <1>1 DEF AppendDone
<1>6. x \in InUse /\ InUse \subseteq Strs /\ x \in Strs /\ InUse' = InUse
  BY <1>1, <1>4, <1>5, NextAppend DEF InUse
<1>7. /\ str' \in [Strs -> StringRec]
      /\ str'[x].len = len + 1 /\ str'[x].capacity = cap /\ str'[x].contents = p
      /\ \A y \in Strs \ {x} : /\ str'[y].len = str[y].len /\ str'[y].contents = str[y].contents
                               /\ str'[y].capacity = IF x = "list" /\ y = "curr" THEN 0
                                                     ELSE str[y].capacity
  BY <1>1, <1>6, PutFacts
<1>8. \A y \in Strs : /\ str[y].len \in Nat /\ str[y].capacity \in Nat /\ str[y].contents \in Nat
                      /\ str[y].contents \in 0 .. (Units - 1)
  BY StringTypes
\* The blocks of the other strings and of the words are none of the append's.
<1>11. \A y \in Live : y # x => BlockOf(y) \in held /\ Apart(BlockOf(y), x)
  <2>1. TAKE y \in Live
  <2>2. SUFFICES ASSUME y # x PROVE BlockOf(y) \in held /\ Apart(BlockOf(y), x)
    OBVIOUS
  <2>3. BlockOf(y) \in held /\ BlockOf(y).start = str[y].contents
    BY <1>4 DEF StringsApart, BlockOf
  <2>4. str[x].capacity > 0 => str[y].contents # str[x].contents
    BY <1>4, <1>6, <2>2 DEF StringsApart, Live
  <2>5. pc = "move" => str[y].contents # block
    BY <1>4 DEF MoveApart
  <2>6. QED
    BY <2>3, <2>4, <2>5 DEF Apart
<1>12. \A n \in WordNos, r \in held : r.start = WordPtr(n) => Apart(r, x)
  BY <1>4, <1>6 DEF WordsApart, MoveApart, Apart, Live
<1>13. \A y \in Live : y # x => \A u \in Span(BlockOf(y)) : mem'[u] = mem[u]
  BY <1>2, <1>11
<1>14. \A y \in Live : y # x => str[y].contents # p /\ BlockOf(y) \in held'
  BY <1>2, <1>11 DEF BlockOf
\* The words, and with x = "list" one more: the block of curr.
<1>16. ASSUME x # "list"
       PROVE  WordNos' = WordNos /\ \A n \in WordNos : WordPtr(n)' = WordPtr(n)
  <2>1. "list" \in Strs
    BY DEF Strs
  <2>2. str'["list"].contents = str["list"].contents /\ str'["list"].len = str["list"].len
    BY <1>7, <1>16, <2>1
  <2>3. WordNos' = WordNos
    BY <1>5, <2>2 DEF WordNos
  <2>4. ASSUME NEW n \in WordNos PROVE WordPtr(n)' = WordPtr(n)
    <3>1. "list" \in Live /\ str["list"].contents + (n - 1) * StringUnits \in Span(BlockOf("list"))
      BY <1>4, ListInBlock
    <3>2. mem'[str["list"].contents + (n - 1) * StringUnits]
            = mem[str["list"].contents + (n - 1) * StringUnits]
      BY <1>13, <1>16, <3>1
    <3>3. QED
      BY <2>2, <3>2 DEF WordPtr
  <2>5. QED
    BY <2>3, <2>4
<1>17. ASSUME x = "list"
       PROVE  /\ len = str["list"].len /\ WordNos = 1 .. len /\ WordNos' = 1 .. (len + 1)
              /\ \A n \in WordNos : WordPtr(n)' = WordPtr(n)
              /\ WordPtr(len + 1)' = str["curr"].contents
              /\ "curr" \in Live /\ "curr" \notin Live' /\ EndsIn(BlockOf("curr"))
  <2>1. /\ at \in {"split", "run"} /\ appends[1][2] = PtrOfCurr
        /\ str["curr"].capacity > 0 /\ str["curr"].len > 0
        /\ mem[str["curr"].contents + str["curr"].len - 1] = Nul
    BY <1>1, <1>4, <1>17, NextAppend
  <2>2. len = str["list"].len
    BY <1>1, <1>4, <1>6, <1>17 DEF StringsApart
  <2>3. WordNos = 1 .. len /\ WordNos' = 1 .. (len + 1)
    BY <1>5, <1>7, <1>17, <2>1, <2>2 DEF WordNos
  <2>4. Size("list") = StringUnits /\ StringUnits \in Nat /\ StringUnits > 0
    BY StringsAssumption DEF Size
  <2>5. ASSUME NEW n \in WordNos PROVE WordPtr(n)' = WordPtr(n)
    <3>1. n \in Nat /\ n - 1 \in Nat /\ n - 1 < len
      BY <2>3
    <3>2. (n - 1) * StringUnits \in Nat /\ (n - 1) * StringUnits + StringUnits <= len * StringUnits
      BY <2>4, <3>1, TimesLess
    <3>3. (n - 1) * StringUnits < len * StringUnits
      BY <2>4, <3>2
    <3>4. mem'[p + (n - 1) * StringUnits] = mem[str["list"].contents + (n - 1) * StringUnits]
      BY <1>1, <1>17, <2>4, <3>2, <3>3
    <3>5. QED
      BY <1>7, <1>17, <3>4 DEF WordPtr
  <2>6. WordPtr(len + 1)' = str["curr"].contents
    <3>1. (len + 1) - 1 = len
      OBVIOUS
    <3>2. Resolved(appends[1][2]) = str["curr"].contents
      BY <2>1 DEF Resolved
    <3>3. QED
      BY <1>1, <1>7, <1>17, <2>4, <3>1, <3>2 DEF WordPtr
  <2>7. "curr" \in Live /\ "curr" \notin Live'
    BY <1>5, <1>7, <1>17, <2>1 DEF Live, InUse, Strs
  <2>8. EndsIn(BlockOf("curr"))
    <3>1. "curr" \in Strs /\ Size("curr") = 1
      BY DEF Strs, Size
    <3>2. str["curr"].len <= str["curr"].capacity
      BY <2>1, <3>1 DEF StringTypeOK
    <3>3. str["curr"].contents + str["curr"].len - 1 \in Span(BlockOf("curr"))
      BY <1>8, <2>1, <3>1, <3>2 DEF Span, BlockOf
    <3>4. QED
      BY <2>1, <3>3 DEF EndsIn
  <2>9. QED
    BY <2>2, <2>3, <2>5, <2>6, <2>7, <2>8
<1>18. ASSUME NEW k \in Nat, k < str["line"].len
       PROVE  mem'[str'["line"].contents + k] = mem[str["line"].contents + k]
  <2>1. "line" \in Strs /\ "line" \in InUse /\ Size("line") = 1
    BY <1>1, <1>4, NextAppend DEF Strs, InUse, Size
  <2>2. "line" \in Live /\ k < str["line"].capacity
    <3>1. str["line"].len \in Nat /\ str["line"].capacity \in Nat /\ str["line"].len > 0
      BY <1>8, <1>18, <2>1
    <3>2. str["line"].capacity > 0
      BY <1>4, <2>1, <3>1 DEF StringsApart
    <3>3. str["line"].len <= str["line"].capacity
      BY <2>1, <3>2 DEF StringTypeOK
    <3>4. QED
      BY <1>18, <2>1, <3>1, <3>2, <3>3 DEF Live
  <2>3. CASE x = "line"
    <3>1. str["line"].capacity > 0 /\ len = str["line"].len
      BY <1>1, <1>8, <2>1, <2>2, <2>3
    <3>2. k < len * Size(x)
      BY <1>18, <2>1, <2>3, <3>1
    <3>3. mem'[p + k] = mem[str["line"].contents + k]
      BY <1>1, <1>18, <2>3, <3>2
    <3>4. QED
      BY <1>7, <2>3, <3>3
  <2>4. CASE x # "line"
    <3>1. str'["line"].contents = str["line"].contents
      BY <1>7, <2>1, <2>4
    <3>2. str["line"].contents + k * Size("line") \in Span(BlockOf("line"))
      BY <1>8, <1>18, <2>1, <2>2, ElementInBlock DEF BlockOf
    <3>3. str["line"].contents + k \in Span(BlockOf("line"))
      BY <1>18, <2>1, <3>2
    <3>4. QED
      BY <1>13, <2>2, <2>4, <3>1, <3>3
  <2>5. QED
    BY <2>3, <2>4
<1>19. QED
  BY <1>6, <1>7, <1>11, <1>12, <1>13, <1>14, <1>16, <1>17, <1>18 DEF Framed

LEMMA AppendInv ==
    ASSUME StringTypeOK, StringInvariant, NEW x, NEW p \in 0 .. (Units - 1), NEW cap \in Nat, NEW len \in Nat,
           AppendedTo(x, p, cap, len)
    PROVE  StringTypeOK' /\ StringInvariant'
<1>0. Framed(x, p, cap, len)
  BY AppendFrame
<1>1. /\ pc # "panic" /\ appends # <<>> /\ x = appends[1][1] /\ len < cap
      /\ \/ str[x].capacity > 0 /\ len = str[x].len
         \/ str[x].capacity = 0 /\ len = 0
      /\ Put(x, p, cap, len) /\ AppendDone /\ pc' = "run"
      /\ [start |-> p, length |-> cap * Size(x)] \in held'
      /\ mem'[p + len * Size(x)] = Resolved(appends[1][2])
      /\ \A u \in Nat : u < len * Size(x) => mem'[p + u] = mem[str[x].contents + u]
  BY DEF AppendedTo
<1>2. \A r \in held : Apart(r, x) => r \in held' /\ r.start # p /\ \A u \in Span(r) : mem'[u] = mem[u]
  BY DEF AppendedTo
<1>3. \A r \in held' : r.start # p => r \in held /\ Apart(r, x)
  BY DEF AppendedTo
<1>4. /\ StringsApart /\ WordsApart /\ MoveApart /\ FreesApart /\ LineEnds /\ AppendsKnown
      /\ leaked = {r \in held : r.start \notin Owned}
  BY <1>1 DEF StringInvariant
<1>5. /\ appends' = Tail(appends)
      /\ UNCHANGED <<at, i, in_string, frees, commands, typed, stale, leaked>>
  BY <1>1 DEF AppendDone
<1>6. x \in InUse /\ InUse \subseteq Strs /\ x \in Strs /\ InUse' = InUse
  BY <1>0 DEF Framed
<1>7. /\ str' \in [Strs -> StringRec]
      /\ str'[x].len = len + 1 /\ str'[x].capacity = cap /\ str'[x].contents = p
      /\ \A y \in Strs \ {x} : /\ str'[y].len = str[y].len /\ str'[y].contents = str[y].contents
                               /\ str'[y].capacity = IF x = "list" /\ y = "curr" THEN 0
                                                     ELSE str[y].capacity
  BY <1>0 DEF Framed
<1>8. \A y \in Strs : /\ str[y].len \in Nat /\ str[y].capacity \in Nat /\ str[y].contents \in Nat
                      /\ str[y].contents \in 0 .. (Units - 1)
  BY StringTypes
<1>9. x \in Live' /\ \A y \in Live' : y # x => y \in Live /\ str'[y].capacity = str[y].capacity
                                              /\ str'[y].contents = str[y].contents
                                              /\ str'[y].len = str[y].len
  BY <1>1, <1>6, <1>7 DEF Live
<1>10. \A y \in Live : y # x /\ ~(x = "list" /\ y = "curr") => y \in Live'
  BY <1>6, <1>7 DEF Live
\* The blocks of the other strings and of the words are none of the append's.
<1>11. \A y \in Live : y # x => BlockOf(y) \in held /\ Apart(BlockOf(y), x)
  BY <1>0 DEF Framed
<1>12. \A n \in WordNos, r \in held : r.start = WordPtr(n) => Apart(r, x)
  BY <1>0 DEF Framed
<1>14. \A y \in Live : y # x => str[y].contents # p /\ BlockOf(y) \in held'
  BY <1>0 DEF Framed
<1>15. StringsApart'
  <2>1. ASSUME NEW y \in Live' PROVE BlockOf(y)' \in held'
    <3>1. CASE y = x
      BY <1>1, <1>7, <3>1 DEF BlockOf, Size
    <3>2. CASE y # x
      BY <1>9, <1>14, <3>2 DEF BlockOf, Size
    <3>3. QED
      BY <3>1, <3>2
  <2>2. ASSUME NEW y \in Live', NEW z \in Live', y # z PROVE str'[y].contents # str'[z].contents
    BY <1>4, <1>7, <1>9, <1>14, <2>2 DEF StringsApart
  <2>3. ASSUME NEW y \in InUse', str'[y].capacity = 0 PROVE str'[y].len = 0 \/ y = "curr"
    BY <1>1, <1>4, <1>6, <1>7, <2>3 DEF StringsApart
  <2>4. QED
    BY <2>1, <2>2, <2>3 DEF StringsApart
\* The words, and with x = "list" one more: the block of curr.
<1>16. ASSUME x # "list"
       PROVE  WordNos' = WordNos /\ \A n \in WordNos : WordPtr(n)' = WordPtr(n)
  BY <1>0, <1>16 DEF Framed
<1>17. ASSUME x = "list"
       PROVE  /\ len = str["list"].len /\ WordNos = 1 .. len /\ WordNos' = 1 .. (len + 1)
              /\ \A n \in WordNos : WordPtr(n)' = WordPtr(n)
              /\ WordPtr(len + 1)' = str["curr"].contents
              /\ "curr" \in Live /\ "curr" \notin Live' /\ EndsIn(BlockOf("curr"))
  BY <1>0, <1>17 DEF Framed
<1>18. \A r \in held : Apart(r, x) /\ EndsIn(r) => EndsIn(r)'
  BY <1>2 DEF EndsIn
<1>19. \A n \in WordNos : /\ \E r \in held' : r.start = WordPtr(n) /\ EndsIn(r)'
                          /\ \A y \in Live' : WordPtr(n) # str'[y].contents
                          /\ \A k \in WordNos : n # k => WordPtr(n) # WordPtr(k)
  <2>1. TAKE n \in WordNos
  <2>2. PICK r \in held : r.start = WordPtr(n) /\ EndsIn(r)
    BY <1>4 DEF WordsApart
  <2>3. Apart(r, x) /\ r \in held' /\ r.start # p /\ EndsIn(r)'
    BY <1>2, <1>12, <1>18, <2>2
  <2>4. \A y \in Live' : WordPtr(n) # str'[y].contents
    BY <1>4, <1>7, <1>9, <2>2, <2>3 DEF WordsApart
  <2>5. QED
    BY <1>4, <2>2, <2>3, <2>4 DEF WordsApart
<1>20. WordsApart'
  <2>1. CASE x # "list"
    BY <1>16, <1>19, <2>1 DEF WordsApart
  <2>2. CASE x = "list"
    <3>1. /\ WordNos = 1 .. len /\ WordNos' = 1 .. (len + 1)
          /\ \A n \in WordNos : WordPtr(n)' = WordPtr(n)
          /\ WordPtr(len + 1)' = str["curr"].contents
          /\ "curr" \in Live /\ "curr" \notin Live' /\ EndsIn(BlockOf("curr"))
      BY <1>17, <2>2
    <3>2. \A n \in WordNos' : n \in WordNos \/ n = len + 1
      BY <3>1
    <3>3. PICK q \in held : q = BlockOf("curr")
      BY <1>4, <3>1 DEF StringsApart
    <3>4. q \in held' /\ q.start = str["curr"].contents /\ EndsIn(q)'
      <4>1. Apart(q, x) /\ EndsIn(q)
        BY <1>11, <2>2, <3>1, <3>3
      <4>2. QED
        BY <1>2, <1>18, <3>3, <4>1 DEF BlockOf
    <3>5. \A y \in Live' : str["curr"].contents # str'[y].contents
      BY <1>4, <1>7, <1>9, <1>14, <2>2, <3>1 DEF StringsApart
    <3>6. \A n \in WordNos : WordPtr(n) # str["curr"].contents
      BY <1>4, <3>1 DEF WordsApart
    <3>7. QED
      BY <1>19, <3>1, <3>2, <3>4, <3>5, <3>6 DEF WordsApart
  <2>3. QED
    BY <2>1, <2>2
<1>21. \A k : k \notin DOMAIN frees
  BY <1>1, <1>4 DEF FreesApart
<1>22. MoveApart' /\ FreesApart'
  BY <1>1, <1>5, <1>21 DEF MoveApart, FreesApart
<1>23. LineEnds'
  <2>1. "line" \in Strs /\ "line" \in InUse /\ Size("line") = 1
    BY <1>1, <1>4, NextAppend DEF Strs, InUse, Size
  <2>3. CASE x = "line"
    <3>1. mem'[p + len] = Resolved(appends[1][2]) /\ len * 1 = len /\ len * Size(x) = len
      BY <1>1, <2>1, <2>3
    <3>2. str'["line"].len = len + 1 /\ str'["line"].contents = p
      BY <1>7, <2>3
    <3>3. at # "run" /\ appends' = <<>>
      BY <1>1, <1>4, <1>5, <2>3, NextAppend
    <3>4. mem'[p] # Nul
      <4>1. CASE len = 0
        <5>1. at = "prompt" /\ appends[1][2] \in Nat \ {0}
          BY <1>1, <1>4, <1>8, <2>1, <2>3, <4>1, NextAppend DEF LineEnds, StringsApart
        <5>2. Resolved(appends[1][2]) # Nul
          BY <5>1 DEF Resolved, PtrOfCurr, Nul
        <5>3. p + len = p
          BY <4>1
        <5>4. QED
          BY <3>1, <5>2, <5>3
      <4>2. CASE len # 0
        <5>1. len > 0 /\ 0 < len * Size(x) /\ str["line"].len > 0
          BY <1>1, <2>3, <3>1, <4>2
        <5>2. mem'[p + 0] = mem[str["line"].contents + 0]
          BY <1>1, <2>3, <5>1
        <5>3. QED
          BY <1>4, <1>8, <2>1, <5>1, <5>2 DEF LineEnds
      <4>3. QED
        BY <4>1, <4>2
    <3>5. at = "split" => i = 0 /\ mem'[p + len] = Nul
      <4>1. SUFFICES ASSUME at = "split" PROVE i = 0 /\ mem'[p + len] = Nul
        OBVIOUS
      <4>2. appends = << <<"line", Nul>> >> /\ appends[1][2] = Nul
        BY <1>1, <1>4, <2>3, <4>1, NextAppend
      <4>3. Resolved(appends[1][2]) = Nul
        BY <4>2 DEF Resolved, PtrOfCurr, Nul
      <4>4. QED
        BY <1>4, <3>1, <4>1, <4>2, <4>3 DEF LineEnds
    <3>6. p + (len + 1) - 1 = p + len /\ 0 < len + 1 /\ len + 1 > 0
      OBVIOUS
    <3>7. QED
      BY <1>5, <3>2, <3>3, <3>4, <3>5, <3>6 DEF LineEnds
  <2>4. CASE x # "line"
    <3>1. str'["line"].len = str["line"].len /\ str'["line"].contents = str["line"].contents
      BY <1>7, <2>1, <2>4
    <3>2. \A k \in Nat : k < str["line"].len =>
              mem'[str["line"].contents + k] = mem[str["line"].contents + k]
      BY <1>0, <3>1 DEF Framed
    <3>3. str["line"].len > 0 =>
            /\ mem'[str["line"].contents] = mem[str["line"].contents]
            /\ mem'[str["line"].contents + str["line"].len - 1] = mem[str["line"].contents + str["line"].len - 1]
      <4>1. SUFFICES ASSUME str["line"].len > 0
                     PROVE  /\ mem'[str["line"].contents] = mem[str["line"].contents]
                            /\ mem'[str["line"].contents + str["line"].len - 1] = mem[str["line"].contents + str["line"].len - 1]
        OBVIOUS
      <4>2. /\ mem'[str["line"].contents + 0] = mem[str["line"].contents + 0]
            /\ mem'[str["line"].contents + (str["line"].len - 1)] = mem[str["line"].contents + (str["line"].len - 1)]
        BY <1>8, <2>1, <3>2, <4>1
      <4>3. /\ str["line"].contents + 0 = str["line"].contents
            /\ str["line"].contents + (str["line"].len - 1) = str["line"].contents + str["line"].len - 1
        BY <1>8, <2>1
      <4>4. QED
        BY <4>2, <4>3
    <3>4. at = "split" => appends # << <<"line", Nul>> >> /\ appends' # << <<"line", Nul>> >>
      <4>1. appends # << <<"line", Nul>> >>
        BY <1>1, <2>4
      <4>2. at = "split" => appends' = <<>> \/ appends' = << <<"list", PtrOfCurr>> >>
        BY <1>1, <1>4, <1>5, NextAppend
      <4>3. << <<"list", PtrOfCurr>> >> # << <<"line", Nul>> >> /\ <<>> # << <<"line", Nul>> >>
        OBVIOUS
      <4>4. QED
        BY <4>1, <4>2, <4>3
    <3>5. QED
      BY <1>4, <1>5, <3>1, <3>3, <3>4 DEF LineEnds
  <2>5. QED
    BY <2>3, <2>4
<1>24. AppendsKnown'
  <2>1. /\ "dir" \in Strs /\ "curr" \in Strs /\ "list" \in Strs /\ Size("curr") = 1
        /\ str[x].capacity = 0 => len = 0
    BY <1>1, <1>8, <1>6 DEF Strs, Size
  <2>2. cap > 0 /\ len + 1 > 0 /\ p + (len + 1) - 1 = p + len /\ len * 1 = len
    BY <1>1
  <2>3. CASE at = "boot" /\ x = "dir" /\ Tail(appends) = <<>>
    BY <1>5, <1>7, <2>2, <2>3 DEF AppendsKnown
  <2>4. CASE at = "prompt" /\ x = "line" /\ Tail(appends) = <<>> /\ str["dir"].capacity > 0
    BY <1>5, <1>7, <2>1, <2>4 DEF AppendsKnown
  <2>5. CASE at = "split" /\ x = "line" /\ Tail(appends) = <<>> /\ str["dir"].capacity > 0
             /\ appends = << <<"line", Nul>> >>
    <3>1. i = 0
      BY <1>4, <2>5 DEF LineEnds
    <3>2. QED
      BY <1>5, <1>7, <2>1, <2>5, <3>1 DEF AppendsKnown
  <2>6. CASE at = "split" /\ x = "curr" /\ Tail(appends) = <<>> /\ str["dir"].capacity > 0
    BY <1>5, <1>7, <2>1, <2>2, <2>6 DEF AppendsKnown
  <2>7. CASE /\ at \in {"split", "run"} /\ x = "curr" /\ Tail(appends) = << <<"list", PtrOfCurr>> >>
             /\ str["dir"].capacity > 0 /\ appends[1][2] = Nul
    <3>1. Resolved(appends[1][2]) = Nul
      BY <2>7 DEF Resolved, PtrOfCurr, Nul
    <3>2. mem'[p + len] = Nul
      BY <1>1, <2>1, <2>2, <2>7, <3>1
    <3>3. Tail(EndOfWord) = << <<"list", PtrOfCurr>> >>
      BY DEF EndOfWord
    <3>4. str'["curr"].len = len + 1 /\ str'["curr"].contents = p /\ str'["curr"].capacity = cap
      BY <1>7, <2>7
    <3>5. mem'[str'["curr"].contents + str'["curr"].len - 1] = Nul
      BY <2>2, <3>2, <3>4
    <3>6. str'["dir"].capacity > 0
      BY <1>7, <2>1, <2>7
    <3>7. QED
      BY <1>5, <2>2, <2>7, <3>3, <3>4, <3>5, <3>6 DEF AppendsKnown
  <2>8. CASE /\ at \in {"split", "run"} /\ x = "list" /\ Tail(appends) = <<>>
             /\ str["dir"].capacity > 0 /\ str["curr"].len > 0
    BY <1>5, <1>7, <2>1, <2>2, <2>8 DEF AppendsKnown
  <2>9. QED
    BY <1>1, <1>4, <2>3, <2>4, <2>5, <2>6, <2>7, <2>8, NextAppend
\* What the shell has a pointer to changes from the old block of x to the new one.
<1>25. Owned' \subseteq Owned \cup {p}
  <2>1. \A y \in Live' : str'[y].contents \in Owned \cup {p}
    BY <1>7, <1>9 DEF Owned
  <2>2. \A n \in WordNos' : WordPtr(n)' \in Owned
    <3>1. CASE x # "list"
      BY <1>16, <3>1 DEF Owned
    <3>2. CASE x = "list"
      <4>1. \A n \in WordNos' : n \in WordNos \/ n = len + 1
        BY <1>17, <3>2
      <4>2. QED
        BY <1>17, <3>2, <4>1 DEF Owned
    <3>3. QED
      BY <3>1, <3>2
  <2>3. QED
    BY <1>1, <1>5, <1>21, <2>1, <2>2 DEF Owned
<1>26. \A r \in held : r.start \in Owned /\ Apart(r, x) => r.start \in Owned'
  <2>1. TAKE r \in held
  <2>2. SUFFICES ASSUME r.start \in Owned, Apart(r, x) PROVE r.start \in Owned'
    OBVIOUS
  <2>3. CASE \E n \in WordNos : r.start = WordPtr(n)
    <3>1. PICK n \in WordNos : r.start = WordPtr(n)
      BY <2>3
    <3>2. n \in WordNos' /\ WordPtr(n)' = WordPtr(n)
      BY <1>16, <1>17
    <3>3. QED
      BY <3>1, <3>2 DEF Owned
  <2>4. CASE \E y \in Live : r.start = str[y].contents
    <3>1. PICK y \in Live : r.start = str[y].contents
      BY <2>4
    <3>2. y # x
      BY <2>2, <3>1 DEF Apart, Live
    <3>3. CASE x = "list" /\ y = "curr"
      <4>1. WordPtr(len + 1)' = r.start /\ len + 1 \in WordNos'
        BY <1>17, <3>1, <3>3
      <4>2. QED
        BY <4>1 DEF Owned
    <3>4. CASE ~(x = "list" /\ y = "curr")
      <4>1. y \in Live' /\ str'[y].contents = r.start
        BY <1>9, <1>10, <3>1, <3>2, <3>4
      <4>2. QED
        BY <4>1 DEF Owned
    <3>5. QED
      BY <3>3, <3>4
  <2>5. QED
    BY <1>21, <2>2, <2>3, <2>4 DEF Owned, Apart
<1>27. leaked' = {r \in held' : r.start \notin Owned'}
  <2>1. ASSUME NEW r \in leaked PROVE r \in held' /\ r.start \notin Owned'
    <3>1. r \in held /\ r.start \notin Owned
      BY <1>4
    <3>2. Apart(r, x)
      BY <1>6, <3>1 DEF Apart, Owned, Live
    <3>3. QED
      BY <1>2, <1>25, <3>1, <3>2
  <2>2. ASSUME NEW r \in held', r.start \notin Owned' PROVE r \in leaked
    <3>1. p \in Owned'
      BY <1>7, <1>9 DEF Owned
    <3>2. r \in held /\ Apart(r, x)
      BY <1>3, <2>2, <3>1
    <3>3. QED
      BY <1>4, <1>26, <2>2, <3>2
  <2>3. QED
    BY <1>5, <2>1, <2>2
<1>28. StringInvariant'
  BY <1>15, <1>20, <1>22, <1>23, <1>24, <1>27 DEF StringInvariant, AppendedTo
<1>29. StringTypeOK'
  <2>1. \A y \in Strs : str'[y].capacity > 0 => str'[y].len <= str'[y].capacity
    <3>1. \A y \in Strs : str[y].capacity > 0 => str[y].len <= str[y].capacity
      BY DEF StringTypeOK
    <3>2. len + 1 <= cap
      BY <1>1
    <3>3. QED
      BY <1>7, <3>1, <3>2
  <2>2. leaked' \subseteq held'
    BY <1>27
  <2>3. Tail(appends) \in Seq(Strs \X Int)
    BY <1>1 DEF StringTypeOK
  <2>4. QED
    BY <1>5, <1>7, <2>1, <2>2, <2>3 DEF StringTypeOK, StringRec, AppendedTo
<1>30. QED
  BY <1>28, <1>29

LEMMA Doubles ==
    ASSUME NEW c \in Nat \ {0}, NEW n \in Nat \ {0}
    PROVE  /\ 2 * c \in Nat /\ c < 2 * c /\ 2 * n \in Nat \ {0} /\ 2 * c * n \in Nat \ {0}
           /\ 2 * c * n = c * n + c * n /\ c * n \in Nat \ {0}
<1>1. 2 * c * n = c * n + c * n /\ c * n \in Nat
  OBVIOUS
<1>2. 0 * n + n <= c * n
  BY TimesLess
<1>3. QED
  BY <1>1, <1>2

\* What every append knows of its string.
LEMMA AppendTarget ==
    ASSUME StringTypeOK, StringInvariant, pc # "panic", appends # <<>>
    PROVE  LET x == appends[1][1]
           IN  /\ x \in InUse /\ x \in Strs
               /\ str[x].capacity > 0 => x \in Live /\ BlockOf(x) \in held
               /\ Size(x) \in Nat /\ Size(x) > 0
               /\ str[x].len \in Nat /\ str[x].capacity \in Nat /\ str[x].contents \in Nat
               /\ Resolved(appends[1][2]) \in Nat
               /\ \A k : k \notin DOMAIN frees
<1> DEFINE x == appends[1][1]
<1>1. AppendsKnown /\ StringsApart /\ FreesApart
  BY DEF StringInvariant
<1>2. x \in InUse /\ InUse \subseteq Strs
  BY <1>1, NextAppend
<1>3. Resolved(appends[1][2]) \in Nat
  <2>1. appends[1][2] \in Nat \/ appends[1][2] = PtrOfCurr
    BY <1>1, NextAppend DEF Nul
  <2>2. "curr" \in Strs
    BY DEF Strs
  <2>3. str["curr"].contents \in Nat
    BY <2>2, StringTypes
  <2>4. QED
    BY <2>1, <2>3 DEF Resolved
<1>4. str[x].capacity > 0 => x \in Live /\ BlockOf(x) \in held
  BY <1>1, <1>2 DEF Live, StringsApart
<1>5. str[x].len \in Nat /\ str[x].capacity \in Nat /\ str[x].contents \in Nat
  BY <1>2, StringTypes
<1>6. \A k : k \notin DOMAIN frees
  BY <1>1 DEF FreesApart
<1>7. QED
  BY <1>2, <1>3, <1>4, <1>5, <1>6, SizePositive

\* An append of the next value is done.
Appended == \E p \in 0 .. (Units - 1), cap \in Nat, len \in Nat : AppendedTo(appends[1][1], p, cap, len)

LEMMA AppendedInv ==
    ASSUME StringTypeOK, StringInvariant, Appended
    PROVE  StringTypeOK' /\ StringInvariant'
  BY AppendInv DEF Appended

LEMMA FitsAppended ==
    ASSUME StringTypeOK, StringInvariant, AppendFits
    PROVE  Appended
<1> DEFINE x == appends[1][1]
           s == str[x]
           a == s.contents + s.len * Size(x)
<1>1. /\ pc = "run" /\ appends # <<>> /\ s.capacity > 0 /\ s.len < s.capacity
      /\ mem' = [mem EXCEPT ![a] = Resolved(appends[1][2])]
      /\ Put(x, s.contents, s.capacity, s.len) /\ AppendDone
      /\ UNCHANGED <<vars, block>>
  BY DEF AppendFits, Appending
<1>2. /\ x \in Strs /\ x \in Live /\ BlockOf(x) \in held /\ Size(x) \in Nat /\ Size(x) > 0
      /\ s.len \in Nat /\ s.capacity \in Nat /\ s.contents \in Nat
      /\ Resolved(appends[1][2]) \in Nat
  BY <1>1, AppendTarget
<1>3. TypeOK /\ HeapInvariant /\ TypeOK' /\ HeapInvariant'
  BY <1>1, HeapStutters DEF StringTypeOK, StringInvariant
<1>4. /\ \A r \in held : Span(r) \subseteq 0 .. (Units - 1)
      /\ \A r, q \in held : r # q => r.start # q.start /\ Span(r) \cap Span(q) = {}
  BY <1>1, <1>3, HeldFacts
<1>5. a \in Span(BlockOf(x))
  BY <1>1, <1>2, ElementInBlock DEF BlockOf
<1>6. mem \in [0 .. (Units - 1) -> Nat] /\ block \in 0 .. (Units - 1) /\ s.contents \in 0 .. (Units - 1)
  BY <1>2, StringTypes DEF StringTypeOK
<1>7. /\ mem' \in [0 .. (Units - 1) -> Nat] /\ mem'[a] = Resolved(appends[1][2])
      /\ \A u : u # a => mem'[u] = mem[u]
  BY <1>1, <1>2, <1>4, <1>5, <1>6
<1>8. \A u \in Nat : u < s.len * Size(x) => mem'[s.contents + u] = mem[s.contents + u]
  <2>1. s.len * Size(x) \in Nat
    BY <1>2
  <2>2. \A u \in Nat : u < s.len * Size(x) => s.contents + u # a
    BY <1>2, <2>1
  <2>3. QED
    BY <1>7, <2>2
<1>9. held' = held /\ pc' = "run" /\ block' = block
  BY <1>1 DEF vars
<1>10. ASSUME NEW r \in held, Apart(r, x)
       PROVE  r \in held' /\ r.start # s.contents /\ \A u \in Span(r) : mem'[u] = mem[u]
  <2>1. r.start # s.contents
    BY <1>1, <1>10 DEF Apart
  <2>2. r # BlockOf(x)
    BY <2>1 DEF BlockOf
  <2>3. a \notin Span(r)
    BY <1>2, <1>4, <1>5, <2>2
  <2>4. QED
    BY <1>7, <1>9, <2>1, <2>3
<1>11. AppendedTo(x, s.contents, s.capacity, s.len)
  BY <1>1, <1>2, <1>3, <1>6, <1>7, <1>8, <1>9, <1>10 DEF AppendedTo, Apart, BlockOf
<1>12. QED
  BY <1>2, <1>6, <1>11 DEF Appended

\* A panic inside the allocator leaves everything else as it is.
LEMMA PanicInv ==
    ASSUME StringTypeOK, StringInvariant, TypeOK', HeapInvariant',
           pc' = "panic", held' = held, UNCHANGED client
    PROVE  StringTypeOK' /\ StringInvariant'
  BY DEF StringTypeOK, StringInvariant, client

LEMMA NewAppended ==
    ASSUME StringTypeOK, StringInvariant, AppendNew
    PROVE  \/ Appended
           \/ pc' = "panic" /\ StringTypeOK' /\ StringInvariant'
<1> DEFINE x == appends[1][1]
<1>1. pc = "run" /\ appends # <<>> /\ str[x].capacity = 0 /\ Kmalloc(2 * Size(x))
  BY DEF AppendNew, Appending
<1>2. /\ x \in Strs /\ Size(x) \in Nat /\ Size(x) > 0 /\ str[x].contents \in Nat
      /\ Resolved(appends[1][2]) \in Nat
  BY <1>1, AppendTarget
<1>3. TypeOK /\ HeapInvariant /\ 2 * Size(x) \in Nat \ {0}
  <2>1. Size(x) \in Nat \ {0}
    BY <1>2
  <2>2. QED
    BY <2>1, Doubles DEF StringTypeOK, StringInvariant
<1>4. TypeOK' /\ HeapInvariant' /\ pc' \in {"run", "panic"}
  BY <1>1, <1>3, KmallocInv
<1>5. Take(2 * Size(x), "run")
  BY <1>1 DEF Kmalloc
<1>6. CASE pc' = "panic"
  <2>1. held' = held
    BY <1>5, <1>6 DEF Take, Panic
  <2>2. UNCHANGED client
    BY <1>6 DEF AppendNew
  <2>3. QED
    BY <1>4, <1>6, <2>1, <2>2, PanicInv
<1>7. CASE pc' = "run"
  <2>1. PICK r \in BitRange :
            /\ held' = held \cup {r} /\ r \notin held /\ r.length = 2 * Size(x)
            /\ r = (CHOOSE q \in held' : q \notin held)
            /\ Span(r) \subseteq 0 .. (Units - 1) /\ r.start \in Span(r)
            /\ \A q \in held : q.start # r.start /\ Span(q) \cap Span(r) = {}
    BY <1>1, <1>3, <1>5, <1>7, TookBlock
  <2>2. /\ block' = r.start
        /\ mem' = [u \in DOMAIN mem |-> IF u = r.start THEN Resolved(appends[1][2])
                                        ELSE IF u \in Span(r) THEN Nul ELSE mem[u]]
        /\ Put(x, r.start, 2, 0) /\ AppendDone
    BY <1>7, <2>1 DEF AppendNew
  <2>3. mem \in [0 .. (Units - 1) -> Nat] /\ r.start \in 0 .. (Units - 1)
    BY <2>1 DEF StringTypeOK
  <2>4. mem' \in [0 .. (Units - 1) -> Nat] /\ mem'[r.start] = Resolved(appends[1][2])
    BY <1>2, <2>2, <2>3 DEF Nul
  <2>5. 0 * Size(x) = 0 /\ r.start + 0 = r.start
    BY <1>2, <2>3
  <2>6. [start |-> r.start, length |-> 2 * Size(x)] = r
    BY <2>1 DEF BitRange
  <2>7. ASSUME NEW q \in held
        PROVE  q \in held' /\ q.start # r.start /\ \A u \in Span(q) : mem'[u] = mem[u]
    <3>1. Span(q) \subseteq 0 .. (Units - 1)
      BY <1>1, <1>3, HeldFacts
    <3>2. \A u \in Span(q) : u \in DOMAIN mem /\ u # r.start /\ u \notin Span(r)
      BY <2>1, <2>3, <3>1
    <3>3. QED
      BY <2>1, <2>2, <3>2
  <2>8. AppendedTo(x, r.start, 2, 0)
    <3>1. /\ \A u \in Nat : ~(u < 0 * Size(x))
          /\ mem'[r.start + 0 * Size(x)] = Resolved(appends[1][2])
      BY <2>4, <2>5
    <3>2. \A q \in held : Apart(q, x) => /\ q \in held' /\ q.start # r.start
                                         /\ \A u \in Span(q) : mem'[u] = mem[u]
      BY <2>7
    <3>3. /\ [start |-> r.start, length |-> 2 * Size(x)] \in held'
          /\ block' \in 0 .. (Units - 1) /\ pc # "panic" /\ 0 < 2
      BY <1>1, <2>1, <2>2, <2>3, <2>6
    <3>4. \A q \in held : Apart(q, x)
      <4>1. pc # "move" /\ ~(str[x].capacity > 0)
        BY <1>1
      <4>2. QED
        BY <4>1 DEF Apart
    <3>5. \A q \in held' : q.start # r.start => q \in held /\ Apart(q, x)
      BY <2>1, <3>4
    <3>6. QED
      BY <1>1, <1>4, <1>7, <2>2, <2>4, <3>1, <3>5, <3>2, <3>3 DEF AppendedTo
  <2>9. QED
    BY <2>3, <2>8 DEF Appended
<1>8. QED
  BY <1>4, <1>6, <1>7

LEMMA AppendGrowInv ==
    ASSUME StringTypeOK, StringInvariant, AppendGrow
    PROVE  StringTypeOK' /\ StringInvariant'
<1> DEFINE x == appends[1][1]
           s == str[x]
           size == 2 * s.capacity * Size(x)
<1>1. /\ pc = "run" /\ appends # <<>> /\ s.capacity > 0 /\ s.len = s.capacity
      /\ \E r \in held : r.start = s.contents /\ KreallocTake(r, size)
      /\ block' = IF pc' = "panic" THEN block ELSE (CHOOSE r \in held' : r \notin held).start
      /\ UNCHANGED <<at, str, mem, appends, i, in_string, frees, commands, typed, stale, leaked>>
  BY DEF AppendGrow, Appending
<1>2. /\ x \in Strs /\ x \in Live /\ BlockOf(x) \in held /\ Size(x) \in Nat /\ Size(x) > 0
      /\ s.len \in Nat /\ s.capacity \in Nat /\ s.contents \in Nat
      /\ \A k : k \notin DOMAIN frees
  BY <1>1, AppendTarget
<1>3. TypeOK /\ HeapInvariant
  BY DEF StringTypeOK, StringInvariant
<1>4. size \in Nat \ {0}
  <2>1. Size(x) \in Nat \ {0} /\ s.capacity \in Nat \ {0}
    BY <1>1, <1>2
  <2>2. QED
    BY <2>1, Doubles
<1>5. KreallocTake(BlockOf(x), size)
  <2>1. \A r \in held : r.start = s.contents => r = BlockOf(x)
    BY <1>1, <1>2, <1>3, HeldFacts DEF BlockOf
  <2>2. QED
    BY <1>1, <2>1
<1> HIDE DEF size
<1>6. TypeOK' /\ HeapInvariant' /\ pc' \in {"move", "panic"}
  BY <1>2, <1>3, <1>4, <1>5, KreallocTakeInv
<1>7. Take(size, "move")
  BY <1>5 DEF KreallocTake
<1>8. CASE pc' = "panic"
  <2>1. held' = held
    BY <1>7, <1>8 DEF Take, Panic
  <2>2. QED
    BY <1>1, <1>6, <1>8, <2>1, PanicInv DEF client
<1>9. CASE pc' = "move"
  <2>1. PICK r \in BitRange :
            /\ held' = held \cup {r} /\ r \notin held /\ r.length = size
            /\ r = (CHOOSE q \in held' : q \notin held)
            /\ Span(r) \subseteq 0 .. (Units - 1) /\ r.start \in Span(r)
            /\ \A q \in held : q.start # r.start
    BY <1>1, <1>3, <1>4, <1>7, <1>9, TookBlock
  <2>2. block' = r.start /\ block' \in 0 .. (Units - 1) /\ moving' = BlockOf(x)
    BY <1>1, <1>5, <1>9, <2>1 DEF KreallocTake
  <2>3. [start |-> block', length |-> size] = r
    BY <2>1, <2>2 DEF BitRange
  <2>4. /\ StringsApart /\ WordsApart /\ FreesApart /\ LineEnds /\ AppendsKnown
        /\ leaked = {q \in held : q.start \notin Owned}
    BY <1>1 DEF StringInvariant
  <2>5. /\ InUse' = InUse /\ Live' = Live /\ WordNos' = WordNos
        /\ \A n : WordPtr(n)' = WordPtr(n)
        /\ \A y : BlockOf(y)' = BlockOf(y)
    BY <1>1 DEF InUse, Live, WordNos, WordPtr, BlockOf, Size
  <2>6. StringsApart'
    BY <1>1, <2>1, <2>4, <2>5 DEF StringsApart
  <2>7. WordsApart'
    BY <1>1, <2>1, <2>4, <2>5 DEF WordsApart, EndsIn
  <2>8. MoveApart'
    <3>1. \A y \in Live : block' # str[y].contents
      BY <2>1, <2>2, <2>4 DEF StringsApart, BlockOf
    <3>2. \A n \in WordNos : block' # WordPtr(n)
      BY <2>1, <2>2, <2>4 DEF WordsApart
    <3>3. [start |-> block', length |-> 2 * s.capacity * Size(x)] \in held'
      BY <2>1, <2>3 DEF size
    <3>4. QED
      BY <1>1, <1>2, <2>2, <2>5, <3>1, <3>2, <3>3 DEF MoveApart, Size, BlockOf
  <2>9. FreesApart' /\ LineEnds' /\ AppendsKnown'
    BY <1>1, <1>2, <2>4 DEF FreesApart, LineEnds, AppendsKnown, OneChar
  <2>10. Owned' = Owned \cup {r.start}
    BY <1>1, <1>9, <2>2, <2>5 DEF Owned
  <2>11. leaked' = {q \in held' : q.start \notin Owned'}
    BY <1>1, <2>1, <2>4, <2>10
  <2>12. StringInvariant'
    BY <1>6, <2>6, <2>7, <2>8, <2>9, <2>11 DEF StringInvariant
  <2>13. StringTypeOK'
    BY <1>1, <1>6, <2>1, <2>2 DEF StringTypeOK
  <2>14. QED
    BY <2>12, <2>13
<1>10. QED
  BY <1>6, <1>8, <1>9

LEMMA MoveAppended ==
    ASSUME StringTypeOK, StringInvariant, AppendMove
    PROVE  Appended
<1> DEFINE x == appends[1][1]
           s == str[x]
           a == block + s.len * Size(x)
           moved == [u \in DOMAIN mem |-> IF u \in block .. (block + moving.length - 1)
                                          THEN mem[u - block + moving.start] ELSE mem[u]]
           new == [start |-> block, length |-> 2 * s.capacity * Size(x)]
<1>1. /\ pc = "move" /\ Give(moving.start) /\ UNCHANGED block
      /\ mem' = [moved EXCEPT ![a] = Resolved(appends[1][2])]
      /\ Put(x, block, 2 * s.capacity, s.len) /\ AppendDone
  BY DEF AppendMove, KreallocMove
<1>2. /\ appends # <<>> /\ x \in Live /\ moving = BlockOf(x) /\ s.len = s.capacity
      /\ new \in held /\ block # s.contents
  BY <1>1 DEF StringInvariant, MoveApart
<1>3. /\ x \in Strs /\ BlockOf(x) \in held /\ Size(x) \in Nat /\ Size(x) > 0 /\ s.capacity > 0
      /\ s.len \in Nat /\ s.capacity \in Nat /\ s.contents \in Nat
      /\ Resolved(appends[1][2]) \in Nat
  BY <1>1, <1>2, AppendTarget DEF Live
<1>4. TypeOK /\ HeapInvariant
  BY DEF StringTypeOK, StringInvariant
<1>5. held' = held \ {moving} /\ pc' = "run" /\ TypeOK' /\ HeapInvariant'
  BY <1>1, <1>2, <1>3, <1>4, GaveBlock, GiveType, GiveInv
<1>6. /\ \A r \in held : Span(r) \subseteq 0 .. (Units - 1)
      /\ \A r, q \in held : r # q => r.start # q.start /\ Span(r) \cap Span(q) = {}
  BY <1>1, <1>4, HeldFacts
<1>7. mem \in [0 .. (Units - 1) -> Nat] /\ block \in 0 .. (Units - 1) /\ Units \in Nat
  BY StringTypes DEF StringTypeOK
<1>8. /\ moving.start = s.contents /\ moving.length = s.len * Size(x) /\ s.len * Size(x) \in Nat
      /\ new.start = block /\ new.length = 2 * s.capacity * Size(x)
  BY <1>2, <1>3 DEF BlockOf
<1>9. a \in Span(new)
  <2>1. 2 * s.capacity \in Nat /\ s.len < 2 * s.capacity /\ block \in Nat
    <3>1. s.capacity \in Nat \ {0}
      BY <1>3
    <3>2. 2 * s.capacity \in Nat /\ s.capacity < 2 * s.capacity
      BY <3>1, Doubles
    <3>3. QED
      BY <1>2, <1>7, <3>2
  <2>2. QED
    BY <1>3, <2>1, ElementInBlock
<1>10. \A u \in block .. (block + moving.length - 1) :
           /\ u \in Span(new) /\ u - block + moving.start \in Span(moving)
           /\ u # a /\ u \in 0 .. (Units - 1) /\ u - block + moving.start \in 0 .. (Units - 1)
  <2>1. 2 * s.capacity * Size(x) = s.len * Size(x) + s.len * Size(x)
    <3>1. s.capacity \in Nat \ {0} /\ Size(x) \in Nat \ {0}
      BY <1>3
    <3>2. QED
      BY <1>2, <3>1, Doubles
  <2>2. ASSUME NEW u \in block .. (block + moving.length - 1)
        PROVE  u \in Span(new) /\ u - block + moving.start \in Span(moving) /\ u # a
    <3>1. \A b, c, n, w \in Nat : w \in b .. (b + n - 1) =>
              w \in b .. (b + (n + n) - 1) /\ w - b + c \in c .. (c + n - 1) /\ w # b + n
      OBVIOUS
    <3>2. u \in Nat /\ block \in Nat /\ u \in block .. (block + s.len * Size(x) - 1)
      BY <1>7, <1>8, <2>2
    <3>3. QED
      BY <1>3, <1>8, <2>1, <3>1, <3>2 DEF Span
  <2>3. Span(new) \subseteq 0 .. (Units - 1) /\ Span(moving) \subseteq 0 .. (Units - 1)
    BY <1>2, <1>3, <1>6
  <2>4. QED
    BY <2>2, <2>3
<1>11. a \in 0 .. (Units - 1)
  BY <1>2, <1>6, <1>9
<1>12. moved \in [0 .. (Units - 1) -> Nat]
  BY <1>7, <1>10
<1>13. /\ mem' \in [0 .. (Units - 1) -> Nat] /\ mem'[a] = Resolved(appends[1][2])
       /\ \A u \in 0 .. (Units - 1) : u # a => mem'[u] = moved[u]
  <2> HIDE DEF moved, a
  <2>1. QED
    BY <1>1, <1>3, <1>11, <1>12
<1>14. ASSUME NEW u \in Nat, u < s.len * Size(x)
       PROVE  mem'[block + u] = mem[s.contents + u]
  <2>1. block + u \in block .. (block + moving.length - 1)
    BY <1>7, <1>8, <1>14
  <2>2. (block + u) - block + moving.start = s.contents + u
    BY <1>3, <1>7, <1>8
  <2>3. moved[block + u] = mem[s.contents + u]
    BY <1>7, <1>10, <2>1, <2>2
  <2>4. QED
    BY <1>10, <1>13, <2>1, <2>3
<1>15. ASSUME NEW r \in held, Apart(r, x)
       PROVE  r \in held' /\ r.start # block /\ \A u \in Span(r) : mem'[u] = mem[u]
  <2>1. r.start # s.contents /\ r.start # block
    BY <1>1, <1>3, <1>15 DEF Apart
  <2>2. r # moving /\ r # new
    BY <1>8, <2>1
  <2>3. \A u \in Span(r) : u \notin Span(new) /\ u \in 0 .. (Units - 1)
    BY <1>2, <1>6, <2>2
  <2>4. \A u \in Span(r) : u # a /\ u \notin block .. (block + moving.length - 1)
    BY <1>9, <1>10, <2>3
  <2>5. \A u \in Span(r) : mem'[u] = mem[u]
    BY <1>7, <1>13, <2>3, <2>4
  <2>6. QED
    BY <1>5, <2>1, <2>2, <2>5
<1>16. ASSUME NEW r \in held', r.start # block
       PROVE  r \in held /\ Apart(r, x)
  BY <1>2, <1>3, <1>5, <1>6, <1>8, <1>16 DEF Apart
<1>17. new \in held'
  <2>1. new # moving
    BY <1>2, <1>8
  <2>2. QED
    BY <1>2, <1>5, <2>1
<1>18. 2 * s.capacity \in Nat /\ s.len < 2 * s.capacity
  BY <1>2, <1>3, SMTT(30)
<1> HIDE DEF moved
<1>19. AppendedTo(x, block, 2 * s.capacity, s.len)
  BY <1>1, <1>2, <1>3, <1>5, <1>7, <1>13, <1>14, <1>15, <1>16, <1>17, <1>18 DEF AppendedTo
<1>20. QED
  BY <1>3, <1>7, <1>18, <1>19 DEF Appended

-----------------------------------------------------------------------------
(* shell: the keys *)

LEMMA StringsInit ==
    ASSUME StringInit
    PROVE  StringTypeOK /\ StringInvariant
<1>1. TypeOK /\ HeapInvariant /\ held = {} /\ pc = "run"
  BY TypeInit, HeapInit DEF StringInit, Init
<1>2. 0 \in 0 .. (Units - 1) /\ Units \in Nat
  BY HeapAssumption, StringsAssumption
<1>3. EmptyStr \in StringRec /\ EmptyStr.capacity = 0 /\ EmptyStr.len = 0
  BY <1>2 DEF EmptyStr, StringRec
<1>4. /\ at = "boot" /\ str = [x \in Strs |-> EmptyStr] /\ mem = [u \in 0 .. (Units - 1) |-> Nul]
      /\ appends = << <<"dir", 9>> >> /\ block = 0 /\ i = 0 /\ in_string = FALSE
      /\ frees = <<>> /\ commands = 0 /\ typed = <<>> /\ stale = FALSE /\ leaked = {}
  BY DEF StringInit
<1>5. \A x \in Strs : str[x].capacity = 0 /\ str[x].len = 0
  BY <1>3, <1>4
<1>6. InUse = {"line", "dir"} /\ InUse \subseteq Strs /\ Live = {} /\ WordNos = {} /\ "line" \in Strs
  <2>1. InUse = {"line", "dir"} /\ WordNos = {} /\ InUse \subseteq Strs /\ "line" \in Strs
    BY <1>4 DEF InUse, WordNos, Strs
  <2>2. QED
    BY <1>5, <2>1 DEF Live
<1>7. StringTypeOK
  <2>1. str \in [Strs -> StringRec] /\ mem \in [0 .. (Units - 1) -> Nat]
    BY <1>3, <1>4 DEF Nul
  <2>2. appends \in Seq(Strs \X Int)
    <3>1. <<"dir", 9>> \in Strs \X Int
      BY DEF Strs
    <3>2. QED
      BY <1>4, <3>1
  <2>3. frees \in Seq(0 .. (Units - 1)) /\ typed \in Seq(Keys)
    BY <1>4
  <2>4. \A x \in Strs : str[x].capacity > 0 => str[x].len <= str[x].capacity
    BY <1>5
  <2>5. /\ i \in Nat /\ in_string \in BOOLEAN /\ commands \in Nat /\ stale \in BOOLEAN
        /\ leaked \subseteq held /\ at \in {"boot", "prompt", "split", "run", "off"}
        /\ block \in 0 .. (Units - 1)
    BY <1>1, <1>2, <1>4
  <2>6. QED
    BY <1>1, <2>1, <2>2, <2>3, <2>4, <2>5 DEF StringTypeOK, StringRec
<1>8. StringsApart /\ WordsApart /\ MoveApart
  BY <1>1, <1>5, <1>6 DEF StringsApart, WordsApart, MoveApart
<1>9. FreesApart
  BY <1>4 DEF FreesApart
<1>10. LineEnds /\ AppendsKnown
  BY <1>4, <1>5, <1>6 DEF LineEnds, AppendsKnown
<1>11. QED
  BY <1>1, <1>4, <1>7, <1>8, <1>9, <1>10 DEF StringInvariant

\* What is so between two appends and outside the frees.
LEMMA ReadyFacts ==
    ASSUME StringTypeOK, StringInvariant, NEW where, Ready(where)
    PROVE  /\ pc = "run" /\ appends = <<>> /\ frees = <<>> /\ at = where /\ DOMAIN frees = {}
           /\ StringsApart /\ WordsApart /\ LineEnds /\ AppendsKnown
           /\ str["dir"].capacity > 0
           /\ leaked = {r \in held : r.start \notin Owned}
           /\ Owned = {str[x].contents : x \in Live} \cup {WordPtr(n) : n \in WordNos}
<1>1. pc = "run" /\ appends = <<>> /\ frees = <<>> /\ at = where
  BY DEF Ready
<1>2. DOMAIN frees = {}
  BY <1>1
<1>3. Owned = {str[x].contents : x \in Live} \cup {WordPtr(n) : n \in WordNos}
  BY <1>1, <1>2 DEF Owned
<1>4. /\ StringsApart /\ WordsApart /\ LineEnds /\ AppendsKnown
      /\ leaked = {r \in held : r.start \notin Owned}
  BY <1>1 DEF StringInvariant
<1>5. str["dir"].capacity > 0
  <2>1. <<>> # << <<"dir", 9>> >> /\ <<>> # << <<"line", Nul>> >>
    OBVIOUS
  <2>2. Len(<<>>) # 1
    OBVIOUS
  <2>3. EndOfWord # <<>> /\ Tail(EndOfWord) # <<>>
    BY DEF EndOfWord
  <2>4. QED
    BY <1>1, <1>4, <2>1, <2>2, <2>3 DEF AppendsKnown, OneChar
<1>6. QED
  BY <1>1, <1>2, <1>3, <1>4, <1>5

\* At rest, what is known when nothing is to be appended.
LEMMA AtRest ==
    ASSUME AppendsKnown, appends = <<>>
    PROVE  /\ at = "split" /\ i > 0 => str["curr"].len > 0
           /\ at = "run" => str["curr"].capacity = 0 /\ str["list"].len > 0
<1>1. <<>> # << <<"dir", 9>> >> /\ <<>> # << <<"line", Nul>> >>
  OBVIOUS
<1>2. Len(<<>>) # 1
  OBVIOUS
<1>3. EndOfWord # <<>> /\ Tail(EndOfWord) # <<>>
  BY DEF EndOfWord
<1>4. QED
  BY <1>1, <1>2, <1>3 DEF AppendsKnown, OneChar

\* A step that leaves the heap and its contents alone, and the strings their blocks.
LEMMA SameBlocks ==
    ASSUME StringTypeOK, StringInvariant, NEW where, Ready(where), UNCHANGED <<vars, mem, leaked>>,
           frees' = <<>>, Live' = Live, \A x \in Live : BlockOf(x)' = BlockOf(x),
           WordNos' = WordNos, \A n \in WordNos : WordPtr(n)' = WordPtr(n),
           \A x \in InUse' : str'[x].capacity = 0 => str'[x].len = 0 \/ x = "curr",
           LineEnds', AppendsKnown'
    PROVE  StringInvariant' /\ TypeOK' /\ leaked' \subseteq held'
<1>1. /\ pc = "run" /\ StringsApart /\ WordsApart
      /\ leaked = {r \in held : r.start \notin Owned}
      /\ Owned = {str[x].contents : x \in Live} \cup {WordPtr(n) : n \in WordNos}
  BY ReadyFacts
<1>2. pc' = pc /\ held' = held /\ mem' = mem
  BY DEF vars
<1>3. TypeOK' /\ HeapInvariant'
  BY HeapStutters DEF StringTypeOK, StringInvariant
<1>4. \A x \in Live : str'[x].contents = str[x].contents
  BY DEF BlockOf
<1>5. StringsApart'
  BY <1>1, <1>2, <1>4 DEF StringsApart
<1>6. WordsApart'
  BY <1>1, <1>2, <1>4 DEF WordsApart, EndsIn
<1>7. DOMAIN frees' = {}
  OBVIOUS
<1>8. MoveApart' /\ FreesApart'
  BY <1>1, <1>2, <1>7 DEF MoveApart, FreesApart
<1>9. Owned' = Owned
  BY <1>1, <1>2, <1>4, <1>7 DEF Owned
<1>10. leaked' = {r \in held' : r.start \notin Owned'}
  BY <1>1, <1>2, <1>9
<1>11. QED
  BY <1>3, <1>5, <1>6, <1>8, <1>10 DEF StringInvariant

LEMMA BootInv ==
    ASSUME StringTypeOK, StringInvariant, Boot
    PROVE  StringTypeOK' /\ StringInvariant'
<1>1. /\ Ready("boot") /\ at' = "prompt"
      /\ UNCHANGED <<vars, str, mem, appends, block, i, in_string, frees, commands, typed, stale, leaked>>
  BY DEF Boot
<1>2. /\ pc = "run" /\ appends = <<>> /\ frees = <<>> /\ at = "boot" /\ StringsApart /\ LineEnds
      /\ str["dir"].capacity > 0
  BY <1>1, ReadyFacts
<1>3. /\ InUse' = InUse /\ WordNos' = WordNos /\ WordNos = {}
  BY <1>1, <1>2 DEF InUse, WordNos
<1>4. Live' = Live /\ \A x \in Live : BlockOf(x)' = BlockOf(x)
  BY <1>1, <1>3 DEF Live, BlockOf, Size
<1>5. \A x \in InUse' : str'[x].capacity = 0 => str'[x].len = 0 \/ x = "curr"
  BY <1>1, <1>2, <1>3 DEF StringsApart
<1>6. LineEnds' /\ AppendsKnown'
  BY <1>1, <1>2 DEF LineEnds, AppendsKnown
<1>7. StringInvariant' /\ TypeOK' /\ leaked' \subseteq held'
  BY <1>1, <1>2, <1>3, <1>4, <1>5, <1>6, SameBlocks
<1>8. QED
  BY <1>1, <1>7 DEF StringTypeOK

LEMMA KeyInv ==
    ASSUME StringTypeOK, StringInvariant, NEW k \in Keys, Key(k)
    PROVE  StringTypeOK' /\ StringInvariant'
<1>1. /\ Ready("prompt") /\ appends' = << <<"line", k>> >> /\ typed' = Append(typed, k)
      /\ UNCHANGED <<vars, at, str, mem, block, i, in_string, frees, commands, stale, leaked>>
  BY DEF Key
<1>2. /\ pc = "run" /\ frees = <<>> /\ at = "prompt" /\ StringsApart /\ LineEnds
      /\ str["dir"].capacity > 0
  BY <1>1, ReadyFacts
<1>3. InUse' = InUse /\ WordNos' = WordNos /\ WordNos = {}
  BY <1>1, <1>2 DEF InUse, WordNos
<1>4. Live' = Live /\ \A x \in Live : BlockOf(x)' = BlockOf(x)
  BY <1>1, <1>3 DEF Live, BlockOf, Size
<1>5. \A x \in InUse' : str'[x].capacity = 0 => str'[x].len = 0 \/ x = "curr"
  BY <1>1, <1>2, <1>3 DEF StringsApart
<1>6. k \in Nat \ {0}
  BY StringsAssumption
<1>7. OneChar("line")'
  BY <1>1, <1>6 DEF OneChar
<1>8. LineEnds' /\ AppendsKnown'
  BY <1>1, <1>2, <1>7 DEF LineEnds, AppendsKnown
<1>9. StringInvariant' /\ TypeOK' /\ leaked' \subseteq held'
  BY <1>1, <1>2, <1>3, <1>4, <1>5, <1>8, SameBlocks
<1>10. appends' \in Seq(Strs \X Int) /\ typed' \in Seq(Keys)
  <2>1. <<"line", k>> \in Strs \X Int
    BY <1>6 DEF Strs
  <2>2. QED
    BY <1>1, <2>1 DEF StringTypeOK
<1>11. QED
  BY <1>1, <1>9, <1>10 DEF StringTypeOK

LEMMA BackspaceInv ==
    ASSUME StringTypeOK, StringInvariant, Backspace
    PROVE  StringTypeOK' /\ StringInvariant'
<1>1. /\ Ready("prompt") /\ str["line"].len > 0
      /\ str' = [str EXCEPT !["line"].len = @ - 1]
      /\ typed' = IF typed = <<>> THEN <<>> ELSE Front(typed)
      /\ UNCHANGED <<vars, at, mem, appends, block, i, in_string, frees, commands, stale, leaked>>
  BY DEF Backspace
<1>2. /\ pc = "run" /\ appends = <<>> /\ frees = <<>> /\ at = "prompt" /\ StringsApart /\ LineEnds
      /\ AppendsKnown /\ str["dir"].capacity > 0
  BY <1>1, ReadyFacts
<1>3. InUse' = InUse /\ WordNos' = WordNos /\ WordNos = {} /\ InUse \subseteq Strs
  BY <1>1, <1>2 DEF InUse, WordNos, Strs
<1>4. str \in [Strs -> StringRec] /\ "line" \in Strs /\ "line" \in InUse /\ "dir" \in Strs
  BY <1>2, StringTypes DEF Strs, InUse
<1>5. /\ str' \in [Strs -> StringRec]
      /\ \A x \in Strs : /\ str'[x].capacity = str[x].capacity
                         /\ str'[x].contents = str[x].contents
                         /\ str'[x].len = IF x = "line" THEN str[x].len - 1 ELSE str[x].len
  BY <1>1, <1>4 DEF StringRec
<1>6. Live' = Live /\ \A x \in Live : BlockOf(x)' = BlockOf(x)
  BY <1>3, <1>5 DEF Live, BlockOf, Size
<1>7. str["line"].len \in Nat /\ str["line"].capacity # 0
  BY <1>1, <1>2, <1>4 DEF StringRec, StringsApart
<1>8. \A x \in InUse' : str'[x].capacity = 0 => str'[x].len = 0 \/ x = "curr"
  BY <1>2, <1>3, <1>5, <1>7 DEF StringsApart
<1>9. LineEnds'
  BY <1>1, <1>2, <1>4, <1>5 DEF LineEnds
<1>10. AppendsKnown'
  BY <1>1, <1>2, <1>4, <1>5 DEF AppendsKnown
<1>11. StringInvariant' /\ TypeOK' /\ leaked' \subseteq held'
  BY <1>1, <1>2, <1>3, <1>6, <1>8, <1>9, <1>10, SameBlocks
<1>12. typed' \in Seq(Keys)
  <2>1. typed \in Seq(Keys)
    BY DEF StringTypeOK
  <2>2. CASE typed = <<>>
    BY <1>1, <2>2
  <2>3. CASE typed # <<>>
    <3>1. typed' = SubSeq(typed, 1, Len(typed) - 1)
      BY <1>1, <2>3 DEF Front
    <3>2. QED
      BY <2>1, <2>3, <3>1
  <2>4. QED
    BY <2>2, <2>3
<1>13. \A x \in Strs : str'[x].capacity > 0 => str'[x].len <= str'[x].capacity
  <2>1. \A x \in Strs : str[x].capacity > 0 => str[x].len <= str[x].capacity
    BY DEF StringTypeOK
  <2>2. \A x \in Strs : str[x].len \in Nat /\ str[x].capacity \in Nat
    BY StringTypes
  <2>3. QED
    BY <1>5, <2>1, <2>2
<1>14. QED
  BY <1>1, <1>5, <1>11, <1>12, <1>13 DEF StringTypeOK, StringRec

LEMMA EnterInv ==
    ASSUME StringTypeOK, StringInvariant, Enter
    PROVE  StringTypeOK' /\ StringInvariant'
<1>1. /\ Ready("prompt") /\ str["line"].len > 0
      /\ at' = "split" /\ commands' = commands + 1 /\ appends' = << <<"line", Nul>> >>
      /\ str' = [str EXCEPT !["curr"] = EmptyStr, !["list"] = EmptyStr]
      /\ i' = 0 /\ in_string' = FALSE
      /\ UNCHANGED <<vars, mem, block, frees, typed, stale, leaked>>
  BY DEF Enter
<1>2. /\ pc = "run" /\ frees = <<>> /\ at = "prompt" /\ StringsApart /\ LineEnds
      /\ str["dir"].capacity > 0
  BY <1>1, ReadyFacts
<1>3. 0 \in 0 .. (Units - 1)
  BY HeapAssumption, StringsAssumption
<1>4. EmptyStr \in StringRec /\ EmptyStr.capacity = 0 /\ EmptyStr.len = 0
  BY <1>3 DEF EmptyStr, StringRec
<1>5. str \in [Strs -> StringRec] /\ Strs = {"line", "dir", "curr", "list"}
  BY StringTypes DEF Strs
<1>6. /\ str' \in [Strs -> StringRec] /\ str'["curr"] = EmptyStr /\ str'["list"] = EmptyStr
      /\ str'["line"] = str["line"] /\ str'["dir"] = str["dir"]
  BY <1>1, <1>4, <1>5
<1>7. InUse = {"line", "dir"} /\ InUse' = Strs /\ WordNos = {} /\ WordNos' = {}
  BY <1>1, <1>2, <1>4, <1>6 DEF InUse, WordNos
<1>8. Live' = Live /\ \A x \in Live : BlockOf(x)' = BlockOf(x)
  BY <1>4, <1>5, <1>6, <1>7 DEF Live, BlockOf, Size
<1>9. \A x \in InUse' : str'[x].capacity = 0 => str'[x].len = 0 \/ x = "curr"
  BY <1>2, <1>4, <1>5, <1>6, <1>7 DEF StringsApart
<1>10. LineEnds' /\ AppendsKnown'
  BY <1>1, <1>2, <1>6 DEF LineEnds, AppendsKnown
<1>11. StringInvariant' /\ TypeOK' /\ leaked' \subseteq held'
  BY <1>1, <1>2, <1>7, <1>8, <1>9, <1>10, SameBlocks
<1>12. appends' \in Seq(Strs \X Int)
  <2>1. <<"line", Nul>> \in Strs \X Int
    BY DEF Strs, Nul
  <2>2. QED
    BY <1>1, <2>1
<1>13. \A x \in Strs : str'[x].capacity > 0 => str'[x].len <= str'[x].capacity
  <2>1. \A x \in Strs : str[x].capacity > 0 => str[x].len <= str[x].capacity
    BY DEF StringTypeOK
  <2>2. \A x \in Strs : str'[x] = EmptyStr \/ str'[x] = str[x]
    BY <1>5, <1>6
  <2>3. ~(EmptyStr.capacity > 0)
    BY <1>4
  <2>4. QED
    BY <2>1, <2>2, <2>3
<1>14. /\ i' \in Nat /\ in_string' \in BOOLEAN /\ commands' \in Nat
       /\ at' \in {"boot", "prompt", "split", "run", "off"}
  <2>1. commands \in Nat
    BY DEF StringTypeOK
  <2>2. i' \in Nat /\ commands' \in Nat
    BY <1>1, <2>1
  <2>3. QED
    BY <1>1, <2>2
<1>15. QED
  BY <1>1, <1>6, <1>11, <1>12, <1>13, <1>14 DEF StringTypeOK, StringRec

-----------------------------------------------------------------------------
(* string_split *)

\* While the line is split, the next character is in its block.
LEMMA LineInBlock ==
    ASSUME StringTypeOK, StringInvariant, Ready("split")
    PROVE  LET s == str["line"]
           IN  /\ s.len \in Nat /\ s.len > 0 /\ s.contents \in Nat /\ i \in Nat /\ i < s.len
               /\ mem[s.contents + i] \in Nat /\ mem[s.contents] # Nul
               /\ mem[s.contents + s.len - 1] = Nul
<1> DEFINE s == str["line"]
<1>1. pc = "run" /\ appends = <<>> /\ at = "split" /\ StringsApart /\ LineEnds
  BY ReadyFacts
<1>2. "line" \in Strs /\ "line" \in InUse /\ Size("line") = 1
  BY <1>1 DEF Strs, InUse, Size
<1>3. s.len \in Nat /\ s.capacity \in Nat /\ s.contents \in Nat /\ i \in Nat
  BY <1>2, StringTypes DEF StringTypeOK
<1>4. s.len > 0 /\ i < s.len /\ mem[s.contents] # Nul /\ mem[s.contents + s.len - 1] = Nul
  <2>1. <<>> # << <<"line", Nul>> >>
    OBVIOUS
  <2>2. QED
    BY <1>1, <2>1 DEF LineEnds
<1>5. s.capacity > 0
  BY <1>1, <1>2, <1>3, <1>4 DEF StringsApart
<1>6. s.len <= s.capacity
  BY <1>2, <1>5 DEF StringTypeOK
<1>7. i < s.capacity
  BY <1>3, <1>4, <1>6
<1>8. s.contents + i * Size("line") \in Span(BlockOf("line"))
  BY <1>3, <1>7, ElementInBlock DEF BlockOf
<1>9. BlockOf("line") \in held
  BY <1>1, <1>2, <1>5 DEF StringsApart, Live
<1>10. Span(BlockOf("line")) \subseteq 0 .. (Units - 1)
  BY <1>1, <1>9, HeldFacts DEF StringTypeOK, StringInvariant
<1>11. s.contents + i \in 0 .. (Units - 1)
  BY <1>2, <1>3, <1>8, <1>10
<1>12. mem[s.contents + i] \in Nat
  BY <1>11 DEF StringTypeOK
<1>13. QED
  BY <1>3, <1>4, <1>12

LEMMA EndOfWordType == EndOfWord \in Seq(Strs \X Int)
<1>1. <<"curr", Nul>> \in Strs \X Int /\ <<"list", PtrOfCurr>> \in Strs \X Int
  BY DEF Strs, Nul, PtrOfCurr
<1>2. QED
  BY <1>1 DEF EndOfWord

LEMMA SplitCharInv ==
    ASSUME StringTypeOK, StringInvariant, SplitChar
    PROVE  StringTypeOK' /\ StringInvariant'
<1> DEFINE s == str["line"]
           c == mem[s.contents + i]
<1>1. /\ Ready("split") /\ c # Nul /\ i' = i + 1 /\ in_string' \in BOOLEAN
      /\ appends' \in {EndOfWord, << <<"curr", c>> >>}
      /\ UNCHANGED <<vars, at, str, mem, block, frees, commands, typed, stale, leaked>>
  BY DEF SplitChar, EndOfWord
<1>2. /\ pc = "run" /\ appends = <<>> /\ frees = <<>> /\ at = "split" /\ StringsApart /\ LineEnds
      /\ str["dir"].capacity > 0
  BY <1>1, ReadyFacts
<1>3. /\ s.len \in Nat /\ s.len > 0 /\ s.contents \in Nat /\ i \in Nat /\ i < s.len
      /\ c \in Nat /\ mem[s.contents] # Nul /\ mem[s.contents + s.len - 1] = Nul
  BY <1>1, LineInBlock
<1>4. i + 1 < s.len
  <2>1. CASE i = s.len - 1
    <3>1. s.contents + i = s.contents + s.len - 1
      BY <1>3, <2>1
    <3>2. QED
      BY <1>1, <1>3, <3>1
  <2>2. CASE i # s.len - 1
    BY <1>3, <2>2
  <2>3. QED
    BY <2>1, <2>2
<1> HIDE DEF c
<1>5. InUse' = InUse /\ WordNos' = WordNos /\ \A n : WordPtr(n)' = WordPtr(n)
  BY <1>1 DEF InUse, WordNos, WordPtr
<1>6. Live' = Live /\ \A x \in Live : BlockOf(x)' = BlockOf(x)
  BY <1>1, <1>5 DEF Live, BlockOf, Size
<1>7. \A x \in InUse' : str'[x].capacity = 0 => str'[x].len = 0 \/ x = "curr"
  BY <1>1, <1>2, <1>5 DEF StringsApart
<1>8. LineEnds'
  <2>1. appends' # << <<"line", Nul>> >>
    <3>1. EndOfWord # << <<"line", Nul>> >>
      BY DEF EndOfWord
    <3>2. << <<"curr", c>> >> # << <<"line", Nul>> >>
      OBVIOUS
    <3>3. QED
      BY <1>1, <3>1, <3>2
  <2>2. QED
    BY <1>1, <1>2, <1>3, <1>4, <2>1 DEF LineEnds
<1>9. AppendsKnown'
  <2>1. CASE appends' = EndOfWord
    BY <1>1, <1>2, <2>1 DEF AppendsKnown
  <2>2. CASE appends' = << <<"curr", c>> >>
    <3>1. OneChar("curr")'
      BY <1>1, <1>3, <2>2 DEF OneChar, Nul
    <3>2. QED
      BY <1>1, <1>2, <3>1 DEF AppendsKnown
  <2>3. QED
    BY <1>1, <2>1, <2>2
<1>10. StringInvariant' /\ TypeOK' /\ leaked' \subseteq held'
  BY <1>1, <1>2, <1>5, <1>6, <1>7, <1>8, <1>9, SameBlocks
<1>11. appends' \in Seq(Strs \X Int) /\ i' \in Nat
  <2>1. <<"curr", c>> \in Strs \X Int
    BY <1>3 DEF Strs
  <2>2. << <<"curr", c>> >> \in Seq(Strs \X Int)
    BY <2>1
  <2>3. appends' \in Seq(Strs \X Int)
    BY <1>1, <2>2, EndOfWordType
  <2>4. QED
    BY <1>1, <1>3, <2>3
<1>12. QED
  BY <1>1, <1>10, <1>11 DEF StringTypeOK

\* Behind the line curr is not empty, or was in the list before: a word is left.
LEMMA LastWord ==
    ASSUME StringTypeOK, StringInvariant, SplitEnd
    PROVE  appends' = EndOfWord
<1> DEFINE s == str["line"]
<1>1. /\ Ready("split") /\ mem[s.contents + i] = Nul
      /\ appends' = IF str["curr"].len > 0 THEN EndOfWord ELSE <<>>
  BY DEF SplitEnd, EndOfWord
<1>2. appends = <<>> /\ at = "split" /\ AppendsKnown
  BY <1>1, ReadyFacts
<1>3. s.contents \in Nat /\ i \in Nat /\ mem[s.contents] # Nul
  BY <1>1, LineInBlock
<1>4. i > 0
  <2>1. i = 0 => s.contents + i = s.contents
    BY <1>3
  <2>2. QED
    BY <1>1, <1>3, <2>1
<1>5. QED
  BY <1>1, <1>2, <1>4, AtRest

LEMMA SplitEndInv ==
    ASSUME StringTypeOK, StringInvariant, SplitEnd
    PROVE  StringTypeOK' /\ StringInvariant'
<1> DEFINE s == str["line"]
<1>1. /\ Ready("split") /\ at' = "run"
      /\ UNCHANGED <<vars, str, mem, block, i, in_string, frees, commands, typed, stale, leaked>>
  BY DEF SplitEnd
<1>2. /\ pc = "run" /\ appends = <<>> /\ frees = <<>> /\ at = "split" /\ StringsApart /\ LineEnds
      /\ AppendsKnown /\ str["dir"].capacity > 0
  BY <1>1, ReadyFacts
<1>3. /\ s.len > 0 /\ s.contents \in Nat /\ i \in Nat /\ mem[s.contents] # Nul
  BY <1>1, LineInBlock
<1>5. appends' = EndOfWord
  BY LastWord
<1>6. InUse' = InUse /\ WordNos' = WordNos /\ \A n : WordPtr(n)' = WordPtr(n)
  BY <1>1, <1>2 DEF InUse, WordNos, WordPtr
<1>7. Live' = Live /\ \A x \in Live : BlockOf(x)' = BlockOf(x)
  BY <1>1, <1>6 DEF Live, BlockOf, Size
<1>8. \A x \in InUse' : str'[x].capacity = 0 => str'[x].len = 0 \/ x = "curr"
  BY <1>1, <1>2, <1>6 DEF StringsApart
<1>9. LineEnds' /\ AppendsKnown'
  BY <1>1, <1>2, <1>3, <1>5 DEF LineEnds, AppendsKnown
<1>10. StringInvariant' /\ TypeOK' /\ leaked' \subseteq held'
  BY <1>1, <1>2, <1>6, <1>7, <1>8, <1>9, SameBlocks
<1>11. QED
  BY <1>1, <1>5, <1>10, EndOfWordType DEF StringTypeOK

-----------------------------------------------------------------------------
(* shell: the command and what is freed *)

\* When the command runs: curr is in the list, the other three strings have blocks,
\* and the words are as many as the list says.
LEMMA RunFacts ==
    ASSUME StringTypeOK, StringInvariant, Ready("run")
    PROVE  /\ Live = {"line", "dir", "list"} /\ WordNos = 1 .. str["list"].len
           /\ str["list"].len \in Nat /\ str["list"].len > 0 /\ str["curr"].capacity = 0
           /\ DOMAIN Words = WordNos /\ Len(Words) = str["list"].len
           /\ \A x \in Strs : str[x].contents \in 0 .. (Units - 1)
           /\ \A n \in WordNos : WordPtr(n) \in 0 .. (Units - 1)
<1>1. /\ pc = "run" /\ appends = <<>> /\ at = "run" /\ StringsApart /\ LineEnds /\ AppendsKnown
      /\ str["dir"].capacity > 0 /\ WordsApart
  BY ReadyFacts
<1>2. str["curr"].capacity = 0 /\ str["list"].len > 0
  BY <1>1, AtRest
<1>3. InUse = Strs /\ Strs = {"line", "dir", "curr", "list"}
  BY <1>1 DEF InUse, Strs
<1>4. \A x \in Strs : /\ str[x].len \in Nat /\ str[x].capacity \in Nat
                      /\ str[x].contents \in 0 .. (Units - 1)
  BY StringTypes
<1>5. str["line"].len > 0
  BY <1>1 DEF LineEnds
<1>6. str["line"].capacity > 0 /\ str["list"].capacity > 0
  BY <1>1, <1>2, <1>3, <1>4, <1>5 DEF StringsApart
<1>7. Live = {"line", "dir", "list"}
  BY <1>1, <1>2, <1>3, <1>6 DEF Live
<1>8. WordNos = 1 .. str["list"].len
  BY <1>1 DEF WordNos
<1>9. str["list"].len \in Nat
  BY <1>3, <1>4
<1>10. DOMAIN Words = WordNos /\ Len(Words) = str["list"].len
  BY <1>8, <1>9 DEF Words
<1>11. \A n \in WordNos : WordPtr(n) \in 0 .. (Units - 1)
  <2>1. TAKE n \in WordNos
  <2>2. PICK r \in held : r.start = WordPtr(n)
    BY <1>1 DEF WordsApart
  <2>3. r.start \in 0 .. (Units - 1)
    BY <1>1, HeldFacts DEF StringTypeOK, StringInvariant
  <2>4. QED
    BY <2>2, <2>3
<1>12. QED
  BY <1>2, <1>4, <1>7, <1>8, <1>9, <1>10, <1>11

LEMMA RepeatFacts ==
    ASSUME NEW S, NEW n \in Nat, NEW v \in S
    PROVE  LET s == [k \in 1 .. n |-> v]
           IN  s \in Seq(S) /\ Len(s) = n /\ \A k \in 1 .. n : s[k] = v
  OBVIOUS

LEMMA ConcatFacts ==
    ASSUME NEW S, NEW s \in Seq(S), NEW t \in Seq(S)
    PROVE  /\ s \o t \in Seq(S) /\ DOMAIN (s \o t) = 1 .. (Len(s) + Len(t))
           /\ \A k \in 1 .. Len(s) : (s \o t)[k] = s[k]
           /\ \A k \in 1 .. Len(t) : (s \o t)[Len(s) + k] = t[k]
  OBVIOUS

LEMMA FreeListFacts ==
    ASSUME StringTypeOK, StringInvariant, Ready("run")
    PROVE  /\ FreeList \in Seq(0 .. (Units - 1))
           /\ {FreeList[k] : k \in DOMAIN FreeList} = {WordPtr(1), str["list"].contents}
<1> DEFINE n == str["list"].len
           first == [k \in 1 .. n |-> WordPtr(1)]
           last == <<str["list"].contents>>
<1>1. /\ n \in Nat /\ n > 0 /\ WordPtr(1) \in 0 .. (Units - 1)
      /\ str["list"].contents \in 0 .. (Units - 1)
  <2>1. "list" \in Strs
    BY DEF Strs
  <2>2. n \in Nat /\ n > 0 /\ 1 \in WordNos
    BY RunFacts
  <2>3. QED
    BY <2>1, <2>2, RunFacts
<1>2. first \in Seq(0 .. (Units - 1)) /\ Len(first) = n /\ \A k \in 1 .. n : first[k] = WordPtr(1)
  BY <1>1, RepeatFacts
<1>3. last \in Seq(0 .. (Units - 1)) /\ Len(last) = 1 /\ last[1] = str["list"].contents
  BY <1>1
<1>4. FreeList = first \o last
  BY DEF FreeList
<1> HIDE DEF first, last, n
<1>5. /\ FreeList \in Seq(0 .. (Units - 1)) /\ DOMAIN FreeList = 1 .. (n + 1)
      /\ \A k \in 1 .. n : FreeList[k] = first[k]
      /\ \A k \in 1 .. 1 : FreeList[n + k] = last[k]
  <2>1. /\ first \o last \in Seq(0 .. (Units - 1))
        /\ DOMAIN (first \o last) = 1 .. (Len(first) + Len(last))
        /\ \A k \in 1 .. Len(first) : (first \o last)[k] = first[k]
        /\ \A k \in 1 .. Len(last) : (first \o last)[Len(first) + k] = last[k]
    <3>1. first \in Seq(0 .. (Units - 1)) /\ last \in Seq(0 .. (Units - 1))
      BY <1>2, <1>3
    <3>2. QED
      BY <3>1, ConcatFacts
  <2>2. QED
    BY <1>2, <1>3, <1>4, <2>1, Zenon
<1>6. \A k \in 1 .. n : FreeList[k] = WordPtr(1)
  BY <1>2, <1>5
<1>7. FreeList[n + 1] = str["list"].contents
  BY <1>3, <1>5
<1>8. 1 \in 1 .. n /\ n + 1 \in 1 .. (n + 1) /\ \A k \in 1 .. (n + 1) : k \in 1 .. n \/ k = n + 1
  BY <1>1
<1>9. QED
  BY <1>5, <1>6, <1>7, <1>8

\* What the command leaves of the shell's pointers, with P those that it gives up:
\* the list, and of its words those whose blocks it does not free.
LEMMA RunInv ==
    ASSUME StringTypeOK, StringInvariant, Ready("run"), UNCHANGED <<vars, mem, appends>>,
           at' \in {"prompt", "off"}, NEW P,
           leaked' = leaked \cup HeldAt(P), frees' \in Seq(0 .. (Units - 1)),
           \A x \in Strs : str'[x].contents = str[x].contents /\ str'[x].capacity = str[x].capacity,
           str'["line"].len \in {0, str["line"].len}, str'["dir"].len = str["dir"].len,
           Owned = {frees'[k] : k \in DOMAIN frees'} \cup P
                   \cup {str[x].contents : x \in Live'},
           \A k \in DOMAIN frees' : frees'[k] \notin P /\ \A x \in Live' : frees'[k] # str[x].contents,
           \A x \in Live' : str[x].contents \notin P
    PROVE  StringInvariant' /\ TypeOK' /\ leaked' \subseteq held'
<1>1. /\ pc = "run" /\ appends = <<>> /\ at = "run" /\ StringsApart /\ WordsApart /\ LineEnds
      /\ str["dir"].capacity > 0
      /\ leaked = {r \in held : r.start \notin Owned}
      /\ Owned = {str[x].contents : x \in Live} \cup {WordPtr(n) : n \in WordNos}
  BY ReadyFacts
<1>2. pc' = pc /\ held' = held /\ mem' = mem /\ appends' = <<>> /\ entries' = entries /\ bits' = bits
  BY <1>1 DEF vars
<1>3. TypeOK' /\ HeapInvariant'
  BY HeapStutters DEF StringTypeOK, StringInvariant
<1>4. Live = {"line", "dir", "list"} /\ Strs = {"line", "dir", "curr", "list"}
  BY RunFacts DEF Strs
<1>5. /\ InUse' \in {{}, {"line", "dir"}} /\ WordNos' = {} /\ Live' \subseteq Live
      /\ Live' = InUse'
  <2>1. InUse' \in {{}, {"line", "dir"}} /\ WordNos' = {}
    BY DEF InUse, WordNos
  <2>2. \A x \in InUse' : x \in Live /\ str'[x].capacity = str[x].capacity /\ str[x].capacity > 0
    BY <1>4, <2>1 DEF Live
  <2>3. InUse' \subseteq Live /\ \A x \in InUse' : str'[x].capacity > 0
    BY <2>2
  <2>4. Live' = InUse'
    BY <2>3 DEF Live
  <2>5. QED
    BY <2>1, <2>3, <2>4
<1>6. \A x \in Live' : /\ x \in Live /\ str'[x].contents = str[x].contents
                       /\ BlockOf(x)' = BlockOf(x) /\ str'[x].capacity > 0
  BY <1>4, <1>5 DEF BlockOf, Size, Live
<1>7. StringsApart'
  <2>1. \A x \in InUse' : ~(str'[x].capacity = 0)
    BY <1>5, <1>6
  <2>2. QED
    BY <1>1, <1>2, <1>6, <2>1 DEF StringsApart
<1>8. WordsApart' /\ MoveApart'
  BY <1>1, <1>2, <1>5 DEF WordsApart, MoveApart
<1>9. \A q \in Owned : \E r \in held : r.start = q
  <2>1. \A x \in Live : BlockOf(x) \in held /\ BlockOf(x).start = str[x].contents
    BY <1>1 DEF StringsApart, BlockOf
  <2>2. \A n \in WordNos : \E r \in held : r.start = WordPtr(n)
    BY <1>1 DEF WordsApart
  <2>3. QED
    BY <1>1, <2>1, <2>2
<1>10. FreesApart'
  BY <1>2, <1>6, <1>9 DEF FreesApart
<1>11. LineEnds' /\ AppendsKnown'
  <2>1. "line" \in Strs /\ "dir" \in Strs
    BY <1>4
  <2>2. LineEnds'
    BY <1>1, <1>2, <2>1 DEF LineEnds
  <2>3. AppendsKnown'
    BY <1>1, <1>2, <2>1 DEF AppendsKnown
  <2>4. QED
    BY <2>2, <2>3
<1>12. Owned' = {str[x].contents : x \in Live'} \cup {frees'[k] : k \in DOMAIN frees'}
  BY <1>1, <1>2, <1>5, <1>6 DEF Owned
<1>13. Owned = Owned' \cup P /\ Owned' \cap P = {}
  BY <1>12
<1>14. leaked' = {r \in held' : r.start \notin Owned'}
  BY <1>1, <1>2, <1>13 DEF HeldAt
<1>15. QED
  BY <1>3, <1>7, <1>8, <1>10, <1>11, <1>14 DEF StringInvariant

\* The pointers of the shell when the command runs.
LEMMA OwnedAtRun ==
    ASSUME StringTypeOK, StringInvariant, Ready("run")
    PROVE  LET line == str["line"].contents
               dir  == str["dir"].contents
               list == str["list"].contents
               rest == {WordPtr(n) : n \in 2 .. Len(Words)}
               words == {WordPtr(n) : n \in DOMAIN Words}
           IN  /\ Owned = {line, dir, list} \cup words /\ words = rest \cup {WordPtr(1)}
               /\ line # dir /\ line # list /\ dir # list
               /\ words \cap {line, dir, list} = {} /\ WordPtr(1) \notin rest
<1>1. /\ StringsApart /\ WordsApart
      /\ Owned = {str[x].contents : x \in Live} \cup {WordPtr(n) : n \in WordNos}
  BY ReadyFacts
<1>2. /\ Live = {"line", "dir", "list"} /\ WordNos = 1 .. Len(Words) /\ DOMAIN Words = WordNos
      /\ Len(Words) \in Nat /\ Len(Words) > 0
  BY RunFacts
<1>3. 1 \in WordNos /\ \A n : n \in WordNos <=> n = 1 \/ n \in 2 .. Len(Words)
  BY <1>2
<1>4. \A n \in 2 .. Len(Words) : n # 1 /\ n \in WordNos
  BY <1>2
<1>5. WordPtr(1) \notin {WordPtr(n) : n \in 2 .. Len(Words)}
  BY <1>1, <1>3, <1>4 DEF WordsApart
<1>6. {WordPtr(n) : n \in WordNos} = {WordPtr(n) : n \in 2 .. Len(Words)} \cup {WordPtr(1)}
  BY <1>3
<1>7. /\ str["line"].contents # str["dir"].contents /\ str["line"].contents # str["list"].contents
      /\ str["dir"].contents # str["list"].contents
  BY <1>1, <1>2 DEF StringsApart
<1>8. \A n \in WordNos : WordPtr(n) \notin {str["line"].contents, str["dir"].contents, str["list"].contents}
  BY <1>1, <1>2 DEF WordsApart
<1>9. {str[x].contents : x \in Live} = {str["line"].contents, str["dir"].contents, str["list"].contents}
  BY <1>2
<1>10. QED
  BY <1>1, <1>2, <1>5, <1>6, <1>7, <1>8, <1>9

LEMMA RedirectionFailsInv ==
    ASSUME StringTypeOK, StringInvariant, RedirectionFails
    PROVE  StringTypeOK' /\ StringInvariant'
<1> DEFINE P == {str["list"].contents} \cup {WordPtr(n) : n \in DOMAIN Words}
<1>1. /\ Ready("run") /\ at' = "prompt" /\ stale' = TRUE /\ typed' = <<>>
      /\ leaked' = leaked \cup HeldAt(P)
      /\ UNCHANGED <<vars, str, mem, appends, block, i, in_string, frees, commands>>
  BY DEF RedirectionFails
<1>2. frees' = <<>> /\ DOMAIN frees' = {} /\ frees' \in Seq(0 .. (Units - 1))
  <2>1. frees = <<>> /\ frees' = frees
    BY <1>1, ReadyFacts
  <2>2. QED
    BY <2>1
<1>3. Live = {"line", "dir", "list"}
  BY <1>1, RunFacts
<1>4. Live' = {"line", "dir"}
  BY <1>1, <1>3 DEF Live, InUse
<1>5. /\ Owned = P \cup {str[x].contents : x \in Live'}
      /\ \A x \in Live' : str[x].contents \notin P
  BY <1>1, <1>4, OwnedAtRun
<1> HIDE DEF P
<1>6. StringInvariant' /\ TypeOK' /\ leaked' \subseteq held'
  BY <1>1, <1>2, <1>5, RunInv
<1>7. typed' \in Seq(Keys) /\ stale' \in BOOLEAN
  BY <1>1
<1>8. QED
  BY <1>1, <1>2, <1>6, <1>7 DEF StringTypeOK

LEMMA RunStepInv ==
    ASSUME StringTypeOK, StringInvariant, Run
    PROVE  StringTypeOK' /\ StringInvariant'
<1> DEFINE P == {WordPtr(n) : n \in 2 .. Len(Words)}
<1>1. /\ Ready("run") /\ at' = "prompt" /\ frees' = FreeList /\ stale' = FALSE /\ typed' = <<>>
      /\ leaked' = leaked \cup HeldAt(P)
      /\ str' = [str EXCEPT !["line"].len = 0]
      /\ UNCHANGED <<vars, mem, appends, block, i, in_string, commands>>
  BY DEF Run
<1>2. /\ frees' \in Seq(0 .. (Units - 1))
      /\ {frees'[k] : k \in DOMAIN frees'} = {WordPtr(1), str["list"].contents}
  BY <1>1, FreeListFacts
<1>3. str \in [Strs -> StringRec] /\ Strs = {"line", "dir", "curr", "list"}
  BY StringTypes DEF Strs
<1>4. /\ str' \in [Strs -> StringRec]
      /\ \A x \in Strs : /\ str'[x].contents = str[x].contents /\ str'[x].capacity = str[x].capacity
                         /\ str'[x].len = IF x = "line" THEN 0 ELSE str[x].len
  BY <1>1, <1>3 DEF StringRec
<1>5. Live = {"line", "dir", "list"}
  BY <1>1, RunFacts
<1>6. Live' = {"line", "dir"}
  BY <1>1, <1>3, <1>4, <1>5 DEF Live, InUse
<1>7. /\ Owned = {WordPtr(1), str["list"].contents} \cup P \cup {str[x].contents : x \in Live'}
      /\ \A x \in Live' : str[x].contents \notin P \cup {WordPtr(1), str["list"].contents}
      /\ WordPtr(1) \notin P /\ str["list"].contents \notin P
  BY <1>1, <1>6, OwnedAtRun
<1> HIDE DEF P
<1>8. \A k \in DOMAIN frees' : frees'[k] \in {WordPtr(1), str["list"].contents}
  BY <1>2
<1>9. \A k \in DOMAIN frees' : frees'[k] \notin P /\ \A x \in Live' : frees'[k] # str[x].contents
  BY <1>7, <1>8
<1>10. StringInvariant' /\ TypeOK' /\ leaked' \subseteq held'
  <2>1. str'["line"].len \in {0, str["line"].len} /\ str'["dir"].len = str["dir"].len
    BY <1>3, <1>4
  <2>2. Owned = {frees'[k] : k \in DOMAIN frees'} \cup P \cup {str[x].contents : x \in Live'}
    BY <1>2, <1>7
  <2>3. \A x \in Strs : str'[x].contents = str[x].contents /\ str'[x].capacity = str[x].capacity
    BY <1>4
  <2>4. /\ UNCHANGED <<vars, mem, appends>> /\ at' \in {"prompt", "off"} /\ Ready("run")
        /\ leaked' = leaked \cup HeldAt(P) /\ frees' \in Seq(0 .. (Units - 1))
    BY <1>1, <1>2
  <2>5. \A x \in Live' : str[x].contents \notin P
    BY <1>7
  <2>6. QED
    BY <1>9, <2>1, <2>2, <2>3, <2>4, <2>5, RunInv, Zenon
<1>11. typed' \in Seq(Keys) /\ stale' \in BOOLEAN
  <2>1. <<>> \in Seq(Keys) /\ FALSE \in BOOLEAN
    OBVIOUS
  <2>2. QED
    BY <1>1, <2>1, Zenon
<1>12. \A x \in Strs : str'[x].capacity > 0 => str'[x].len <= str'[x].capacity
  <2>1. \A x \in Strs : str[x].capacity > 0 => str[x].len <= str[x].capacity
    BY DEF StringTypeOK
  <2>2. \A x \in Strs : str[x].capacity \in Nat
    BY StringTypes
  <2>3. QED
    BY <1>4, <2>1, <2>2
<1>13. QED
  BY <1>1, <1>2, <1>4, <1>10, <1>11, <1>12 DEF StringTypeOK, StringRec

LEMMA ExitInv ==
    ASSUME StringTypeOK, StringInvariant, Exit
    PROVE  StringTypeOK' /\ StringInvariant'
<1> DEFINE P == {WordPtr(n) : n \in 2 .. Len(Words)}
           two == <<str["line"].contents, str["dir"].contents>>
<1>1. /\ Ready("run") /\ at' = "off" /\ frees' = two \o FreeList
      /\ leaked' = leaked \cup HeldAt(P)
      /\ UNCHANGED <<vars, str, mem, appends, block, i, in_string, commands, typed, stale>>
  BY DEF Exit
<1>2. /\ FreeList \in Seq(0 .. (Units - 1))
      /\ {FreeList[k] : k \in DOMAIN FreeList} = {WordPtr(1), str["list"].contents}
  BY <1>1, FreeListFacts
<1>3. /\ two \in Seq(0 .. (Units - 1)) /\ Len(two) = 2
      /\ two[1] = str["line"].contents /\ two[2] = str["dir"].contents
  <2>1. str["line"].contents \in 0 .. (Units - 1) /\ str["dir"].contents \in 0 .. (Units - 1)
    BY StringTypes DEF Strs
  <2>2. QED
    BY <2>1
<1> HIDE DEF two
<1>4. /\ frees' \in Seq(0 .. (Units - 1)) /\ DOMAIN frees' = 1 .. (2 + Len(FreeList))
      /\ \A k \in 1 .. 2 : frees'[k] = two[k]
      /\ \A k \in 1 .. Len(FreeList) : frees'[2 + k] = FreeList[k]
  <2>1. /\ two \o FreeList \in Seq(0 .. (Units - 1))
        /\ DOMAIN (two \o FreeList) = 1 .. (Len(two) + Len(FreeList))
        /\ \A k \in 1 .. Len(two) : (two \o FreeList)[k] = two[k]
        /\ \A k \in 1 .. Len(FreeList) : (two \o FreeList)[Len(two) + k] = FreeList[k]
    <3>1. two \in Seq(0 .. (Units - 1)) /\ FreeList \in Seq(0 .. (Units - 1))
      BY <1>2, <1>3
    <3>2. QED
      BY <3>1, ConcatFacts
  <2>2. QED
    BY <1>1, <1>3, <2>1, Zenon
<1>5. {frees'[k] : k \in DOMAIN frees'}
        = {str["line"].contents, str["dir"].contents, WordPtr(1), str["list"].contents}
  <2>1. Len(FreeList) \in Nat /\ DOMAIN FreeList = 1 .. Len(FreeList)
    BY <1>2
  <2>2. \A k \in DOMAIN frees' : k = 1 \/ k = 2 \/ (k - 2 \in 1 .. Len(FreeList) /\ k = 2 + (k - 2))
    BY <1>4, <2>1
  <2>3. /\ 1 \in DOMAIN frees' /\ 2 \in DOMAIN frees'
        /\ \A k \in 1 .. Len(FreeList) : 2 + k \in DOMAIN frees'
    BY <1>4, <2>1
  <2>4. frees'[1] = str["line"].contents /\ frees'[2] = str["dir"].contents
    BY <1>3, <1>4
  <2>5. \A k \in DOMAIN frees' : frees'[k] \in {str["line"].contents, str["dir"].contents}
                                               \cup {FreeList[j] : j \in DOMAIN FreeList}
    BY <1>4, <2>1, <2>2, <2>4
  <2>6. \A j \in DOMAIN FreeList : \E k \in DOMAIN frees' : frees'[k] = FreeList[j]
    BY <1>4, <2>1, <2>3
  <2>7. {frees'[k] : k \in DOMAIN frees'} = {str["line"].contents, str["dir"].contents}
                                               \cup {FreeList[j] : j \in DOMAIN FreeList}
    BY <2>3, <2>4, <2>5, <2>6
  <2>8. QED
    BY <1>2, <2>7
<1>6. Live' = {}
  BY <1>1 DEF Live, InUse
<1>7. /\ Owned = {str["line"].contents, str["dir"].contents, WordPtr(1), str["list"].contents} \cup P
      /\ P \cap {str["line"].contents, str["dir"].contents, WordPtr(1), str["list"].contents} = {}
  BY <1>1, OwnedAtRun
<1> HIDE DEF P
<1>8. \A k \in DOMAIN frees' : frees'[k] \notin P
  BY <1>5, <1>7
<1>9. StringInvariant' /\ TypeOK' /\ leaked' \subseteq held'
  <2>1. Owned = {frees'[k] : k \in DOMAIN frees'} \cup P \cup {str[x].contents : x \in Live'}
    BY <1>5, <1>6, <1>7
  <2>2. /\ \A k \in DOMAIN frees' : frees'[k] \notin P /\ \A x \in Live' : frees'[k] # str[x].contents
        /\ \A x \in Live' : str[x].contents \notin P
    BY <1>6, <1>8
  <2>3. /\ UNCHANGED <<vars, mem, appends>> /\ at' \in {"prompt", "off"}
        /\ str'["line"].len \in {0, str["line"].len} /\ str'["dir"].len = str["dir"].len
        /\ \A x \in Strs : str'[x].contents = str[x].contents /\ str'[x].capacity = str[x].capacity
    BY <1>1
  <2>4. QED
    BY <1>1, <1>4, <2>1, <2>2, <2>3, RunInv, Zenon
<1>10. QED
  BY <1>1, <1>4, <1>9 DEF StringTypeOK

LEMMA FreeInv ==
    ASSUME StringTypeOK, StringInvariant, Free
    PROVE  StringTypeOK' /\ StringInvariant'
<1> PICK p : p = Head(frees)
  OBVIOUS
<1>1. /\ pc = "run" /\ frees # <<>> /\ Give(p) /\ frees' = Tail(frees)
      /\ UNCHANGED <<at, str, mem, appends, block, i, in_string, commands, typed, stale, leaked>>
  BY DEF Free, Kfree
<1>2. frees \in Seq(0 .. (Units - 1))
  BY DEF StringTypeOK
<1>3. /\ p = frees[1] /\ 1 \in DOMAIN frees /\ frees' \in Seq(0 .. (Units - 1))
      /\ \A k \in DOMAIN frees' : k + 1 \in DOMAIN frees /\ frees'[k] = frees[k + 1]
      /\ \A k \in DOMAIN frees : k = 1 \/ (k - 1 \in DOMAIN frees' /\ frees'[k - 1] = frees[k])
  BY <1>1, <1>2
<1>4. /\ StringsApart /\ FreesApart /\ LineEnds /\ AppendsKnown
      /\ leaked = {r \in held : r.start \notin Owned}
  BY <1>1 DEF StringInvariant
<1>5. TypeOK /\ HeapInvariant
  BY DEF StringTypeOK, StringInvariant
<1>6. /\ appends = <<>> /\ at \in {"prompt", "off"} /\ (\A x \in Live : p # str[x].contents)
      /\ Gone(p) \/ \E r \in held : r.start = p
  BY <1>3, <1>4 DEF FreesApart
\* Afterwards the pointer is gone, and no other block is.
<1>7. /\ TypeOK' /\ HeapInvariant' /\ pc' = "run" /\ Gone(p)' /\ (\A q : Gone(q) => Gone(q)')
      /\ held' = {r \in held : r.start # p}
  <2>1. CASE Gone(p)
    BY <1>1, <1>5, <2>1, GaveGone
  <2>2. CASE \E r \in held : r.start = p
    <3>1. PICK r \in held : r.start = p
      BY <2>2
    <3>2. /\ held' = held \ {r} /\ pc' = "run" /\ Gone(p)' /\ (\A q : Gone(q) => Gone(q)')
          /\ TypeOK' /\ HeapInvariant'
      BY <1>1, <1>5, <3>1, GaveBlock, GiveType, GiveInv
    <3>3. \A q \in held : q.start = p => q = r
      BY <1>1, <1>5, <3>1, HeldFacts
    <3>4. QED
      BY <3>1, <3>2, <3>3
  <2>3. QED
    BY <1>6, <2>1, <2>2
<1>8. /\ InUse' = InUse /\ Live' = Live /\ WordNos = {} /\ WordNos' = {}
      /\ \A x : BlockOf(x)' = BlockOf(x)
  BY <1>1, <1>6 DEF InUse, Live, WordNos, BlockOf, Size
<1>9. StringsApart'
  BY <1>1, <1>4, <1>6, <1>7, <1>8 DEF StringsApart, BlockOf
<1>10. WordsApart' /\ MoveApart'
  BY <1>7, <1>8 DEF WordsApart, MoveApart
<1>11. FreesApart'
  <2>1. ASSUME NEW k \in DOMAIN frees'
        PROVE  /\ \A x \in Live : frees'[k] # str[x].contents
               /\ Gone(frees[k])' \/ \E r \in held' : r.start = frees'[k]
    <3>1. k + 1 \in DOMAIN frees /\ frees'[k] = frees[k + 1]
      BY <1>3
    <3>2. PICK q : q = frees[k + 1]
      OBVIOUS
    <3>3. (\A x \in Live : q # str[x].contents) /\ (Gone(q) \/ \E r \in held : r.start = q)
      BY <1>4, <3>1, <3>2 DEF FreesApart
    <3>4. Gone(q)' \/ \E r \in held' : r.start = q
      BY <1>7, <3>3
    <3>5. Gone(q)' => Gone(frees[k])'
      BY <3>1, <3>2 DEF Gone, WithBase
    <3>6. QED
      BY <3>1, <3>2, <3>3, <3>4, <3>5
  <2>2. QED
    BY <1>1, <1>6, <1>8, <2>1 DEF FreesApart
<1>12. LineEnds' /\ AppendsKnown'
  BY <1>1, <1>4 DEF LineEnds, AppendsKnown, OneChar
<1>13. Owned = Owned' \cup {p}
  <2>1. {frees[k] : k \in DOMAIN frees} = {frees'[k] : k \in DOMAIN frees'} \cup {p}
    BY <1>3
  <2>2. QED
    BY <1>1, <1>7, <1>8, <2>1 DEF Owned
<1>14. leaked' = {r \in held' : r.start \notin Owned'}
  BY <1>1, <1>4, <1>7, <1>13
<1>15. StringInvariant'
  BY <1>7, <1>9, <1>10, <1>11, <1>12, <1>14 DEF StringInvariant
<1>16. QED
  BY <1>1, <1>3, <1>7, <1>14, <1>15 DEF StringTypeOK

-----------------------------------------------------------------------------
(* The invariant of the strings *)

LEMMA TooManyWordsInv ==
    ASSUME StringTypeOK, StringInvariant, TooManyWords
    PROVE  StringTypeOK' /\ StringInvariant'
<1>1. pc' = "panic" /\ UNCHANGED <<bits, entries, held, moving, client>>
  BY DEF TooManyWords
<1>2. TypeOK'
  BY <1>1 DEF StringTypeOK, TypeOK
<1>3. HeapInvariant'
  BY <1>1 DEF StringInvariant, HeapInvariant, BlocksDisjoint, KernelHeld, KernelRange
<1>4. QED
  BY <1>1, <1>2, <1>3, PanicInv

LEMMA StringsStutter ==
    ASSUME StringTypeOK, StringInvariant, UNCHANGED all
    PROVE  StringTypeOK' /\ StringInvariant'
<1>1. /\ UNCHANGED vars /\ UNCHANGED <<pc, bits, entries, held, moving>>
      /\ UNCHANGED <<at, str, mem, appends, block, i, in_string, frees, commands, typed, stale, leaked>>
  BY DEF all, vars, client
<1>2. TypeOK' /\ HeapInvariant'
  BY <1>1, HeapStutters DEF StringTypeOK, StringInvariant
<1>3. StringTypeOK'
  BY <1>1, <1>2 DEF StringTypeOK
<1>4. /\ InUse' = InUse /\ Live' = Live /\ WordNos' = WordNos /\ Owned' = Owned
      /\ (\A n : WordPtr(n)' = WordPtr(n)) /\ (\A x : BlockOf(x)' = BlockOf(x))
  BY <1>1 DEF InUse, Live, WordNos, Owned, WordPtr, BlockOf, Size
<1>5. /\ StringsApart' = StringsApart /\ WordsApart' = WordsApart /\ MoveApart' = MoveApart
  BY <1>1, <1>4 DEF StringsApart, WordsApart, MoveApart, EndsIn, Size
<1>6. FreesApart' = FreesApart
  BY <1>1, <1>4 DEF FreesApart, Gone, WithBase
<1>7. LineEnds' = LineEnds /\ AppendsKnown' = AppendsKnown
  BY <1>1 DEF LineEnds, AppendsKnown, OneChar
<1>8. QED
  BY <1>1, <1>2, <1>3, <1>4, <1>5, <1>6, <1>7 DEF StringInvariant

LEMMA StringsStep ==
    ASSUME StringTypeOK, StringInvariant, [StringNext]_all
    PROVE  StringTypeOK' /\ StringInvariant'
<1>1. CASE AppendFits \/ AppendNew \/ AppendGrow \/ AppendMove
  BY <1>1, FitsAppended, NewAppended, MoveAppended, AppendedInv, AppendGrowInv
<1>2. CASE Boot \/ (\E k \in Keys : Key(k)) \/ Backspace \/ Enter
  BY <1>2, BootInv, KeyInv, BackspaceInv, EnterInv
<1>3. CASE SplitChar \/ SplitEnd
  BY <1>3, SplitCharInv, SplitEndInv
<1>4. CASE TooManyWords \/ RedirectionFails \/ Run \/ Exit \/ Free
  BY <1>4, TooManyWordsInv, RedirectionFailsInv, RunStepInv, ExitInv, FreeInv
<1>5. QED
  BY <1>1, <1>2, <1>3, <1>4, StringsStutter DEF StringNext

LEMMA StringInvariantHolds == StringSpec => [](StringTypeOK /\ StringInvariant)
<1>1. StringInit => StringTypeOK /\ StringInvariant
  BY StringsInit
<1>2. StringTypeOK /\ StringInvariant /\ [StringNext]_all => (StringTypeOK /\ StringInvariant)'
  BY StringsStep
<1>3. QED
  BY <1>1, <1>2, PTL DEF StringSpec

\* A word that ends in its block is no longer than the block.
LEMMA WordFits ==
    ASSUME StringTypeOK, NEW r \in BitRange, EndsIn(r), Span(r) \subseteq 0 .. (Units - 1)
    PROVE  Len(TextAt(r.start)) + 1 <= r.length
<1> DEFINE p == r.start
           Zeros == {u \in p .. (Units - 1) : mem[u] = Nul}
           first == Min(Zeros)
<1>1. p \in Nat /\ r.length \in Nat /\ Units \in Nat
  BY HeapAssumption DEF BitRange
<1>2. PICK z \in Span(r) : mem[z] = Nul
  BY DEF EndsIn
<1>3. z \in Zeros /\ z <= p + r.length - 1 /\ z \in Nat
  BY <1>1, <1>2 DEF Span
<1>4. Zeros \in SUBSET Nat
  BY <1>1
<1>5. first \in Zeros /\ \A y \in Zeros : first <= y
  BY <1>3, <1>4, MinInSet
<1>6. /\ first \in p .. (Units - 1) /\ mem[first] = Nul
      /\ \A u \in p .. (first - 1) : mem[u] # Nul
  <2>1. ASSUME NEW u \in p .. (first - 1) PROVE mem[u] # Nul
    <3>1. first \in p .. (Units - 1) /\ u \in p .. (Units - 1) /\ ~(first <= u)
      BY <1>1, <1>5, <2>1
    <3>2. QED
      BY <1>5, <3>1
  <2>2. QED
    BY <1>5, <2>1
<1> DEFINE end == CHOOSE e \in p .. (Units - 1) : mem[e] = Nul /\ \A u \in p .. (e - 1) : mem[u] # Nul
<1> HIDE DEF first, Zeros
<1>7. end \in p .. (Units - 1) /\ \A u \in p .. (end - 1) : mem[u] # Nul
  BY <1>6
<1>8. TextAt(p) = [k \in 1 .. (end - p) |-> mem[p + k - 1]]
  BY DEF TextAt
<1> HIDE DEF end
<1>9. end <= z
  <2>1. SUFFICES ASSUME ~(end <= z) PROVE FALSE
    OBVIOUS
  <2>2. z \in p .. (end - 1)
    BY <1>1, <1>2, <1>3, <1>7, <2>1 DEF Span
  <2>3. QED
    BY <1>2, <1>7, <2>2
<1>10. end - p \in Nat
  BY <1>1, <1>7
<1>11. Len(TextAt(p)) = end - p
  BY <1>8, <1>10
<1>12. QED
  BY <1>1, <1>3, <1>7, <1>9, <1>11

-----------------------------------------------------------------------------
(* The inductive invariant of the text: what is typed, and the words *)

\* The line as it is in memory, its quotes and its cuts.
Ch(k)     == mem[str["line"].contents + k - 1]
OddTo(n)  == Cardinality({k \in 1 .. n : Ch(k) = Quote}) % 2 = 1
CutsTo(n) == {k \in 1 .. n : Ch(k) = Space /\ ~ OddTo(k)}

\* The characters from a to e of the line stand at p;
Holds(p, a, e) == \A k \in a .. e : mem[p + (k - a)] = Ch(k)

\* in a block, with a zero behind them;
WordIs(p, a, e) ==
    \E r \in held : /\ r.start = p /\ p + (e - a) \in Span(r)
                    /\ mem[p + (e - a)] = Nul /\ Holds(p, a, e - 1)

\* in curr, where none are when it has no block.
CurrHolds(a, e) ==
    IF str["curr"].capacity = 0 THEN e = a - 1
    ELSE str["curr"].len = e - a + 1 /\ Holds(str["curr"].contents, a, e)
CurrEnded(a, e) ==
    /\ str["curr"].capacity > 0 /\ str["curr"].len = e - a + 1
    /\ mem[str["curr"].contents + (e - a)] = Nul /\ Holds(str["curr"].contents, a, e - 1)

\* Where the words end that are known: at the cuts, and at the end of the line.
Stops == IF at = "run" THEN CutsTo(i) \cup {i + 1} ELSE CutsTo(i)
Stop  == IF at = "run" THEN i + 1 ELSE i

WordsDone(ends) ==
    \A n \in 1 .. str["list"].len : /\ Begin(ends, n) <= ends[n]
                                    /\ WordIs(WordPtr(n), Begin(ends, n), ends[n])
Ended(ends) == {ends[n] : n \in 1 .. str["list"].len}
Rest(ends)  == Begin(ends, str["list"].len + 1)

\* What is next: a character of the line, one more for the word, its zero, its place in
\* the list, the command.
AtNextChar(ends) ==
    /\ at = "split" /\ appends \in {<<>>, << <<"line", Nul>> >>}
    /\ Ended(ends) = CutsTo(i) /\ CurrHolds(Rest(ends), i)
AtChar(ends) ==
    /\ at = "split" /\ i > 0 /\ appends = << <<"curr", Ch(i)>> >>
    /\ Ended(ends) = CutsTo(i) /\ CurrHolds(Rest(ends), i - 1)
AtZero(ends) ==
    /\ appends = EndOfWord /\ Rest(ends) <= Stop
    /\ Ended(ends) \cup {Stop} = Stops /\ CurrHolds(Rest(ends), Stop - 1)
AtList(ends) ==
    /\ appends = Tail(EndOfWord) /\ Rest(ends) <= Stop
    /\ Ended(ends) \cup {Stop} = Stops /\ CurrEnded(Rest(ends), Stop)
AtCommand(ends) == at = "run" /\ appends = <<>> /\ Ended(ends) = Stops

SplitSoFar(ends) ==
    /\ WordsDone(ends)
    /\ AtNextChar(ends) \/ AtChar(ends) \/ AtZero(ends) \/ AtList(ends) \/ AtCommand(ends)

SplitProgress ==
    at \in {"split", "run"} =>
        /\ i < str["line"].len /\ \A k \in 1 .. i : Ch(k) # Nul
        /\ at = "split" => (in_string <=> OddTo(i))
        /\ at = "run" => Ch(i + 1) = Nul
        /\ \E ends \in [1 .. str["list"].len -> 1 .. (i + 1)] : SplitSoFar(ends)

\* What was typed stands on the line, except for a character that is still to be
\* appended; a zero is behind it once it is split.
TypedKept ==
    ~ stale /\ at # "off" =>
        LET n == Len(typed)
            s == str["line"]
        IN  /\ \A k \in 1 .. n : k <= s.len => Ch(k) = typed[k]
            /\ at \in {"boot", "prompt"} =>
                  \/ appends # <<>> /\ appends[1][1] = "line" /\ s.len + 1 = n /\ appends[1][2] = typed[n]
                  \/ (appends = <<>> \/ appends[1][1] # "line") /\ s.len = n
            /\ at \in {"split", "run"} =>
                  \/ appends = << <<"line", Nul>> >> /\ s.len = n
                  \/ appends # << <<"line", Nul>> >> /\ s.len = n + 1 /\ Ch(n + 1) = Nul

TextInvariant == pc # "panic" => SplitProgress /\ TypedKept

-----------------------------------------------------------------------------
\* One more character changes the parity exactly when it is a quote.
LEMMA OddNext ==
    ASSUME NEW n \in Nat
    PROVE  OddTo(n + 1) <=> ~ (OddTo(n) <=> Ch(n + 1) = Quote)
<1> DEFINE Q(m) == {k \in 1 .. m : Ch(k) = Quote}
<1>1. IsFiniteSet(Q(n)) /\ Cardinality(Q(n)) \in Nat
  <2>1. IsFiniteSet(1 .. n)
    BY FS_Interval
  <2>2. IsFiniteSet(Q(n))
    BY <2>1, FS_Subset
  <2>3. QED
    BY <2>2, FS_CardinalityType
<1>2. n + 1 \notin Q(n) /\ \A k : k \in 1 .. (n + 1) <=> k \in 1 .. n \/ k = n + 1
  OBVIOUS
<1>3. CASE Ch(n + 1) = Quote
  <2>1. Q(n + 1) = Q(n) \cup {n + 1}
    BY <1>2, <1>3
  <2>2. Cardinality(Q(n + 1)) = Cardinality(Q(n)) + 1
    BY <1>1, <1>2, <2>1, FS_AddElement
  <2>3. ((Cardinality(Q(n)) + 1) % 2 = 1) <=> ~ (Cardinality(Q(n)) % 2 = 1)
    BY <1>1
  <2>4. QED
    BY <1>3, <2>2, <2>3 DEF OddTo
<1>4. CASE Ch(n + 1) # Quote
  <2>1. Q(n + 1) = Q(n)
    BY <1>2, <1>4
  <2>2. QED
    BY <1>4, <2>1 DEF OddTo
<1>5. QED
  BY <1>3, <1>4

\* One more character is a cut exactly when it is a space outside quotes.
LEMMA CutsNext ==
    ASSUME NEW n \in Nat
    PROVE  CutsTo(n + 1) = IF Ch(n + 1) = Space /\ ~ OddTo(n + 1) THEN CutsTo(n) \cup {n + 1}
                           ELSE CutsTo(n)
<1>1. \A k : k \in 1 .. (n + 1) <=> k \in 1 .. n \/ k = n + 1
  OBVIOUS
<1>2. QED
  BY <1>1 DEF CutsTo

\* The quotes and the cuts of characters that stay.
LEMMA SameChars ==
    ASSUME NEW m \in Nat, \A k \in 1 .. m : Ch(k)' = Ch(k)
    PROVE  \A n \in 0 .. m : OddTo(n)' = OddTo(n) /\ CutsTo(n)' = CutsTo(n)
<1>1. ASSUME NEW n \in 0 .. m
      PROVE  OddTo(n)' = OddTo(n)
  <2>1. {k \in 1 .. n : Ch(k)' = Quote} = {k \in 1 .. n : Ch(k) = Quote}
    OBVIOUS
  <2>2. QED
    BY <2>1 DEF OddTo
<1>2. ASSUME NEW n \in 0 .. m
      PROVE  CutsTo(n)' = CutsTo(n)
  <2>1. \A k \in 1 .. n : Ch(k)' = Ch(k) /\ OddTo(k)' = OddTo(k)
    BY <1>1
  <2>2. QED
    BY <2>1 DEF CutsTo
<1>3. QED
  BY <1>1, <1>2

\* An append keeps the characters of the line.
LEMMA AppendChars ==
    ASSUME StringTypeOK, StringInvariant, NEW x, NEW p \in 0 .. (Units - 1), NEW cap \in Nat, NEW len \in Nat,
           AppendedTo(x, p, cap, len)
    PROVE  /\ str["line"].len \in Nat /\ \A k \in 1 .. str["line"].len : Ch(k)' = Ch(k)
           /\ str'["line"].len = IF x = "line" THEN str["line"].len + 1 ELSE str["line"].len
           /\ x = "line" => len = str["line"].len /\ Ch(len + 1)' = Resolved(appends[1][2])
<1>1. Framed(x, p, cap, len)
  BY AppendFrame
<1>2. "line" \in Strs /\ str["line"].len \in Nat /\ str["line"].contents \in Nat /\ str["line"].capacity \in Nat
  BY StringTypes DEF Strs
<1>3. /\ str'["line"].contents \in Nat
      /\ str'["line"].len = IF x = "line" THEN len + 1 ELSE str["line"].len
      /\ x = "line" => str'["line"].contents = p /\ "line" \in InUse
  <2>1. str'["line"].contents \in Nat
    <3>1. str' \in [Strs -> StringRec] /\ Units \in Nat
      BY <1>1, StringTypes DEF Framed
    <3>2. QED
      BY <1>2, <3>1 DEF StringRec
  <2>2. CASE x = "line"
    BY <1>1, <2>1, <2>2 DEF Framed
  <2>3. CASE x # "line"
    BY <1>1, <1>2, <2>1, <2>3 DEF Framed
  <2>4. QED
    BY <2>2, <2>3
<1>4. ASSUME NEW k \in 1 .. str["line"].len
      PROVE  Ch(k)' = Ch(k)
  <2>1. k - 1 \in Nat /\ k - 1 < str["line"].len
    BY <1>2
  <2>2. mem'[str'["line"].contents + (k - 1)] = mem[str["line"].contents + (k - 1)]
    BY <1>1, <2>1 DEF Framed
  <2>3. /\ str'["line"].contents + (k - 1) = str'["line"].contents + k - 1
        /\ str["line"].contents + (k - 1) = str["line"].contents + k - 1
    BY <1>2, <1>3
  <2>4. QED
    BY <2>2, <2>3 DEF Ch
<1>5. x = "line" => len = str["line"].len /\ Ch(len + 1)' = Resolved(appends[1][2])
  <2>1. SUFFICES ASSUME x = "line"
                 PROVE  len = str["line"].len /\ Ch(len + 1)' = Resolved(appends[1][2])
    OBVIOUS
  <2>2. /\ \/ str[x].capacity > 0 /\ len = str[x].len
           \/ str[x].capacity = 0 /\ len = 0
        /\ mem'[p + len * Size(x)] = Resolved(appends[1][2]) /\ pc # "panic"
    BY DEF AppendedTo
  <2>3. StringsApart
    BY <2>2 DEF StringInvariant
  <2>4. len = str["line"].len
    BY <1>3, <2>1, <2>2, <2>3 DEF StringsApart
  <2>5. Size(x) = 1 /\ len * 1 = len /\ p + len = p + (len + 1) - 1
    BY <2>1 DEF Size
  <2>6. QED
    BY <1>3, <2>1, <2>2, <2>4, <2>5 DEF Ch
<1>6. QED
  BY <1>2, <1>3, <1>4, <1>5

\* Words that are in their blocks stay there.
LEMMA WordKept ==
    ASSUME StringTypeOK, StringInvariant, NEW x, NEW p \in 0 .. (Units - 1), NEW cap \in Nat, NEW len \in Nat,
           AppendedTo(x, p, cap, len), NEW n \in WordNos, NEW a \in Nat \ {0}, NEW e \in Nat,
           a <= e, e <= str["line"].len + 1, WordIs(WordPtr(n), a, e)
    PROVE  WordIs(WordPtr(n), a, e)'
<1>1. Framed(x, p, cap, len)
  BY AppendFrame
<1>2. WordPtr(n)' = WordPtr(n)
  BY <1>1 DEF Framed
<1>3. PICK r \in held : /\ r.start = WordPtr(n) /\ WordPtr(n) + (e - a) \in Span(r)
                        /\ mem[WordPtr(n) + (e - a)] = Nul /\ Holds(WordPtr(n), a, e - 1)
  BY DEF WordIs
<1>4. Apart(r, x)
  BY <1>1, <1>3 DEF Framed
<1>5. r \in held' /\ \A u \in Span(r) : mem'[u] = mem[u]
  BY <1>4 DEF AppendedTo
<1>6. r \in BitRange
  BY DEF StringTypeOK, TypeOK
<1>7. \A k \in a .. (e - 1) : Ch(k)' = Ch(k)
  <2>1. /\ str["line"].len \in Nat /\ \A k \in 1 .. str["line"].len : Ch(k)' = Ch(k)
    BY AppendChars
  <2>2. QED
    BY <2>1
<1>8. ASSUME NEW k \in a .. (e - 1)
      PROVE  mem'[WordPtr(n) + (k - a)] = Ch(k)'
  <2>1. r.start \in Nat /\ r.length \in Nat
    BY <1>6 DEF BitRange
  <2>2. WordPtr(n) + (k - a) \in Span(r)
    BY <1>3, <2>1 DEF Span
  <2>3. QED
    BY <1>3, <1>5, <1>7, <2>2 DEF Holds
<1>9. QED
  BY <1>2, <1>3, <1>5, <1>8 DEF WordIs, Holds

\* A character more in curr.
LEMMA CurrAppended ==
    ASSUME StringTypeOK, StringInvariant, NEW p \in 0 .. (Units - 1), NEW cap \in Nat, NEW len \in Nat,
           AppendedTo("curr", p, cap, len), NEW a \in Nat \ {0}, NEW e \in Int,
           e <= str["line"].len, CurrHolds(a, e)
    PROVE  /\ str'["curr"].capacity > 0 /\ str'["curr"].len = e - a + 2
           /\ Holds(str["curr"].contents, a, e)'
           /\ mem'[str'["curr"].contents + (e - a + 1)] = Resolved(appends[1][2])
<1>1. Framed("curr", p, cap, len)
  BY AppendFrame
<1>2. "curr" \in Strs /\ str["curr"].len \in Nat /\ str["curr"].contents \in Nat /\ str["curr"].capacity \in Nat
  BY StringTypes DEF Strs
<1>3. /\ \/ str["curr"].capacity > 0 /\ len = str["curr"].len
         \/ str["curr"].capacity = 0 /\ len = 0
      /\ mem'[p + len * Size("curr")] = Resolved(appends[1][2]) /\ len < cap
      /\ \A u \in Nat : u < len * Size("curr") => mem'[p + u] = mem[str["curr"].contents + u]
  BY DEF AppendedTo
<1>4. Size("curr") = 1 /\ len * 1 = len
  BY DEF Size
<1>5. str'["curr"].len = len + 1 /\ str'["curr"].capacity = cap /\ str'["curr"].contents = p
  BY <1>1 DEF Framed
<1>6. len = e - a + 1
  BY <1>2, <1>3 DEF CurrHolds
<1>7. ASSUME NEW k \in a .. e
      PROVE  mem'[p + (k - a)] = Ch(k)'
  <2>1. k - a \in Nat /\ k - a < len
    BY <1>6
  <2>2. str["curr"].capacity > 0
    BY <1>3, <2>1
  <2>3. mem[str["curr"].contents + (k - a)] = Ch(k)
    BY <1>2, <2>2 DEF CurrHolds, Holds
  <2>4. mem'[p + (k - a)] = mem[str["curr"].contents + (k - a)]
    BY <1>3, <1>4, <2>1
  <2>5. Ch(k)' = Ch(k)
    <3>1. /\ str["line"].len \in Nat /\ \A j \in 1 .. str["line"].len : Ch(j)' = Ch(j)
      BY AppendChars
    <3>2. QED
      BY <3>1
  <2>6. QED
    BY <2>3, <2>4, <2>5
<1>8. Holds(str["curr"].contents, a, e)'
  BY <1>5, <1>7 DEF Holds
<1>9. QED
  BY <1>3, <1>4, <1>5, <1>6, <1>8

\* Its block with the zero becomes the next word of the list.
LEMMA CurrListed ==
    ASSUME StringTypeOK, StringInvariant, NEW p \in 0 .. (Units - 1), NEW cap \in Nat, NEW len \in Nat,
           AppendedTo("list", p, cap, len), NEW a \in Nat \ {0}, NEW e \in Nat,
           a <= e, e <= str["line"].len + 1, CurrEnded(a, e)
    PROVE  /\ len = str["list"].len /\ str'["list"].len = len + 1 /\ str'["curr"].capacity = 0
           /\ WordIs(WordPtr(len + 1), a, e)'
<1>1. Framed("list", p, cap, len)
  BY AppendFrame
<1>2. /\ "curr" \in Strs /\ "curr" # "list" /\ str["curr"].len \in Nat /\ str["curr"].contents \in Nat
      /\ str["curr"].capacity \in Nat /\ str["curr"].len <= str["curr"].capacity
  <2>1. "curr" \in Strs /\ str["curr"].capacity > 0
    BY DEF Strs, CurrEnded
  <2>2. QED
    BY <2>1, StringTypes DEF StringTypeOK
<1>3. /\ len = str["list"].len /\ str'["list"].len = len + 1 /\ str'["curr"].capacity = 0
      /\ WordPtr(len + 1)' = str["curr"].contents /\ "curr" \in Live
  BY <1>1, <1>2 DEF Framed
<1> DEFINE q == BlockOf("curr")
<1>4. q \in held' /\ \A u \in Span(q) : mem'[u] = mem[u]
  BY <1>1, <1>2, <1>3 DEF Framed
<1>5. /\ q.start = str["curr"].contents /\ Size("curr") = 1
      /\ q.length = str["curr"].capacity
  BY <1>2 DEF BlockOf, Size
<1>6. \A k \in a .. e : str["curr"].contents + (k - a) \in Span(q)
  BY <1>2, <1>5 DEF CurrEnded, Span
<1> HIDE DEF q
<1>7. ASSUME NEW k \in a .. (e - 1)
      PROVE  mem'[str["curr"].contents + (k - a)] = Ch(k)'
  <2>1. mem[str["curr"].contents + (k - a)] = Ch(k)
    BY DEF CurrEnded, Holds
  <2>2. Ch(k)' = Ch(k)
    <3>1. /\ str["line"].len \in Nat /\ \A j \in 1 .. str["line"].len : Ch(j)' = Ch(j)
      BY AppendChars
    <3>2. QED
      BY <3>1
  <2>3. QED
    BY <1>4, <1>6, <2>1, <2>2
<1>8. /\ str["curr"].contents + (e - a) \in Span(q)
      /\ mem'[str["curr"].contents + (e - a)] = Nul
  BY <1>4, <1>6 DEF CurrEnded
<1>9. WordIs(WordPtr(len + 1), a, e)'
  BY <1>3, <1>4, <1>5, <1>7, <1>8 DEF WordIs, Holds
<1>10. QED
  BY <1>3, <1>9

\* Where a word begins, and where it can end.
LEMMA BeginType ==
    ASSUME NEW m \in Nat, NEW j \in Nat, NEW ends \in [1 .. m -> 1 .. (j + 1)]
    PROVE  \A n \in 1 .. (m + 1) : Begin(ends, n) \in Nat \ {0}
<1>1. TAKE n \in 1 .. (m + 1)
<1>2. CASE n = 1
  BY <1>2 DEF Begin
<1>3. CASE n # 1
  <2>1. n - 1 \in 1 .. m
    BY <1>3
  <2>2. ends[n - 1] \in 1 .. (j + 1)
    BY <2>1
  <2>3. QED
    BY <1>3, <2>2 DEF Begin
<1>4. QED
  BY <1>2, <1>3

\* The facts of a line that is being split.
LEMMA SplitTypes ==
    ASSUME StringTypeOK, SplitProgress, at \in {"split", "run"}
    PROVE  /\ i \in Nat /\ str["line"].len \in Nat /\ i < str["line"].len /\ str["list"].len \in Nat
           /\ WordNos = 1 .. str["list"].len
           /\ \A k \in 1 .. i : Ch(k) # Nul
           /\ at = "split" => (in_string <=> OddTo(i))
           /\ at = "run" => Ch(i + 1) = Nul
           /\ \E ends \in [1 .. str["list"].len -> 1 .. (i + 1)] : SplitSoFar(ends)
<1>1. i \in Nat /\ str["line"].len \in Nat /\ str["list"].len \in Nat
  BY StringTypes DEF StringTypeOK, Strs
<1>2. QED
  BY <1>1 DEF SplitProgress, WordNos

\* An APPEND in string_split: a character of a word, its zero, or the word in the list.
LEMMA AppendSplit ==
    ASSUME StringTypeOK, StringInvariant, SplitProgress, NEW x, NEW p \in 0 .. (Units - 1), NEW cap \in Nat,
           NEW len \in Nat, AppendedTo(x, p, cap, len)
    PROVE  SplitProgress'
<1>1. SUFFICES ASSUME at \in {"split", "run"}
               PROVE  SplitProgress'
  <2>1. at' = at
    BY DEF AppendedTo, AppendDone
  <2>2. QED
    BY <2>1 DEF SplitProgress
<1>2. /\ pc # "panic" /\ appends # <<>> /\ x = appends[1][1] /\ appends' = Tail(appends)
      /\ at' = at /\ i' = i /\ in_string' = in_string
  BY DEF AppendedTo, AppendDone
<1>3. LineEnds /\ AppendsKnown
  BY <1>2 DEF StringInvariant
<1>4. Framed(x, p, cap, len)
  BY AppendFrame
<1> PICK j, m : j = i /\ m = str["list"].len
  OBVIOUS
<1>5. /\ j \in Nat /\ str["line"].len \in Nat /\ j < str["line"].len /\ m \in Nat
      /\ WordNos = 1 .. m /\ \A k \in 1 .. j : Ch(k) # Nul
      /\ at = "split" => (in_string <=> OddTo(j))
      /\ at = "run" => Ch(j + 1) = Nul
  BY <1>1, SplitTypes
<1>6. PICK ends \in [1 .. m -> 1 .. (j + 1)] : SplitSoFar(ends)
  BY <1>1, SplitTypes
<1>7. /\ \A k \in 1 .. (j + 1) : Ch(k)' = Ch(k)
      /\ str'["line"].len \in Nat /\ j < str'["line"].len
  BY <1>5, AppendChars
<1>8. OddTo(j)' = OddTo(j) /\ CutsTo(j)' = CutsTo(j)
  <2>1. j + 1 \in Nat /\ j \in 0 .. (j + 1)
    BY <1>5
  <2>2. \A n \in 0 .. (j + 1) : OddTo(n)' = OddTo(n) /\ CutsTo(n)' = CutsTo(n)
    BY <1>7, <2>1, SameChars
  <2>3. QED
    BY <2>1, <2>2
<1>9. /\ i' < str'["line"].len /\ (\A k \in 1 .. i' : Ch(k)' # Nul)
      /\ at' = "split" => (in_string' <=> OddTo(i)')
      /\ at' = "run" => Ch(i + 1)' = Nul
  <2>1. OddTo(i)' = OddTo(j)' /\ Ch(i + 1)' = Ch(j + 1)'
    BY <1>2 DEF OddTo, Ch
  <2>2. QED
    BY <1>2, <1>5, <1>7, <1>8, <2>1
<1> PICK stop, stops : stop = Stop /\ stops = Stops
  OBVIOUS
<1>10. Stop' = stop /\ Stops' = stops /\ CutsTo(i)' = CutsTo(i) /\ CutsTo(i) = CutsTo(j)
  <2>1. CutsTo(i)' = CutsTo(j)'
    BY <1>2 DEF CutsTo
  <2>2. QED
    BY <1>2, <1>8, <2>1 DEF Stop, Stops
<1> PICK a : a = Rest(ends)
  OBVIOUS
<1>11. a \in Nat \ {0} /\ \A n \in 1 .. m : Begin(ends, n) \in Nat \ {0} /\ ends[n] \in 1 .. (j + 1)
  <2>1. \A n \in 1 .. (m + 1) : Begin(ends, n) \in Nat \ {0}
    BY <1>5, BeginType
  <2>2. m + 1 \in 1 .. (m + 1) /\ \A n \in 1 .. m : n \in 1 .. (m + 1)
    BY <1>5
  <2>3. QED
    BY <2>1, <2>2 DEF Rest

\* The words that are in the list.
<1>12. \A n \in 1 .. m : Begin(ends, n) <= ends[n] /\ WordPtr(n)' = WordPtr(n)
                         /\ WordIs(WordPtr(n), Begin(ends, n), ends[n])'
  <2>1. TAKE n \in 1 .. m
  <2>2. PICK b, e : b = Begin(ends, n) /\ e = ends[n]
    OBVIOUS
  <2>3. b <= e /\ WordIs(WordPtr(n), b, e)
    BY <1>6, <2>2 DEF SplitSoFar, WordsDone
  <2>4. b \in Nat \ {0} /\ e \in Nat /\ e <= str["line"].len + 1 /\ n \in WordNos
    BY <1>5, <1>11, <2>2
  <2>5. WordIs(WordPtr(n), b, e)'
    BY <2>3, <2>4, WordKept
  <2>6. WordPtr(n)' = WordPtr(n)
    BY <1>4, <2>4 DEF Framed
  <2>7. QED
    BY <2>2, <2>3, <2>5, <2>6 DEF Begin
<1>13. ASSUME x # "list"
       PROVE  str'["list"].len = m /\ WordsDone(ends)' /\ Ended(ends)' = Ended(ends) /\ Rest(ends)' = a
  <2>1. str'["list"].len = m
    BY <1>4, <1>13 DEF Framed, Strs
  <2>2. QED
    BY <1>12, <2>1 DEF WordsDone, Ended, Rest, Begin
<1>14. ASSUME AtNextChar(ends)
       PROVE  SplitSoFar(ends)' /\ str'["list"].len = m
  <2>1. appends = << <<"line", Nul>> >> /\ at = "split" /\ x = "line" /\ appends' = <<>>
    <3>1. appends = << <<"line", Nul>> >> /\ at = "split"
      BY <1>2, <1>14 DEF AtNextChar
    <3>2. << <<"line", Nul>> >>[1][1] = "line" /\ Tail(<< <<"line", Nul>> >>) = <<>>
      OBVIOUS
    <3>3. QED
      BY <1>2, <3>1, <3>2
  <2>2. j = 0
    BY <1>3, <2>1 DEF LineEnds
  <2>3. str'["curr"].len = str["curr"].len /\ str'["curr"].capacity = str["curr"].capacity
    BY <1>4, <2>1 DEF Framed, Strs
  <2>4. CurrHolds(a, 0)
    BY <1>14, <2>2 DEF AtNextChar
  <2>5. CurrHolds(a, 0)'
    BY <1>11, <2>3, <2>4 DEF CurrHolds, Holds
  <2>6. AtNextChar(ends)'
    BY <1>2, <1>10, <1>13, <1>14, <2>1, <2>2, <2>5 DEF AtNextChar
  <2>7. QED
    BY <1>13, <2>1, <2>6 DEF SplitSoFar
<1>15. ASSUME AtChar(ends)
       PROVE  SplitSoFar(ends)' /\ str'["list"].len = m
  <2>1. /\ appends = << <<"curr", Ch(j)>> >> /\ at = "split" /\ x = "curr" /\ appends' = <<>> /\ j > 0
        /\ appends[1][2] = Ch(j) /\ CurrHolds(a, j - 1) /\ Ended(ends) = CutsTo(j)
    BY <1>2, <1>10, <1>15 DEF AtChar
  <2>2. appends[1][2] \in Nat
    BY <1>2, <1>3, <2>1, NextAppend DEF Nul
  <2>3. Resolved(appends[1][2]) = Ch(j)
    BY <2>1, <2>2 DEF Resolved, PtrOfCurr
  <2>4. j - 1 \in Int /\ j - 1 <= str["line"].len
    BY <1>5
  <2>5. /\ str'["curr"].capacity > 0 /\ str'["curr"].len = (j - 1) - a + 2
        /\ Holds(str["curr"].contents, a, j - 1)'
        /\ mem'[str'["curr"].contents + ((j - 1) - a + 1)] = Ch(j)
    BY <1>11, <2>1, <2>3, <2>4, CurrAppended
  <2>6. (j - 1) - a + 2 = j - a + 1 /\ (j - 1) - a + 1 = j - a
    BY <1>5, <1>11
  <2>7. Ch(j)' = Ch(j)
    BY <1>5, <1>7, <2>1
  <2>8. Holds(str["curr"].contents, a, j)'
    BY <1>5, <1>11, <2>5, <2>6, <2>7 DEF Holds
  <2>9. CurrHolds(a, j)'
    BY <2>5, <2>6, <2>8 DEF CurrHolds
  <2>10. AtNextChar(ends)'
    BY <1>2, <1>10, <1>13, <2>1, <2>9 DEF AtNextChar
  <2>11. QED
    BY <1>13, <2>1, <2>10 DEF SplitSoFar
<1>16. /\ Rest(ends) <= Stop => stop \in 1 .. (j + 1) /\ stop - 1 <= str["line"].len /\ a <= stop
       /\ stop - 1 \in Int
  BY <1>1, <1>5, <1>11 DEF Stop
<1>17. ASSUME AtZero(ends)
       PROVE  SplitSoFar(ends)' /\ str'["list"].len = m
  <2>1. /\ appends = EndOfWord /\ x = "curr" /\ appends' = Tail(EndOfWord) /\ a <= stop
        /\ appends[1][2] = Nul /\ CurrHolds(a, stop - 1) /\ Ended(ends) \cup {stop} = stops
        /\ stop \in 1 .. (j + 1) /\ stop - 1 <= str["line"].len
    BY <1>2, <1>16, <1>17 DEF AtZero, EndOfWord
  <2>2. Resolved(appends[1][2]) = Nul
    BY <2>1 DEF Resolved, PtrOfCurr, Nul
  <2>3. /\ str'["curr"].capacity > 0 /\ str'["curr"].len = (stop - 1) - a + 2
        /\ Holds(str["curr"].contents, a, stop - 1)'
        /\ mem'[str'["curr"].contents + ((stop - 1) - a + 1)] = Nul
    BY <1>11, <1>16, <2>1, <2>2, CurrAppended
  <2>4. (stop - 1) - a + 2 = stop - a + 1 /\ (stop - 1) - a + 1 = stop - a
    BY <1>11, <2>1
  <2>5. CurrEnded(a, stop)'
    BY <2>3, <2>4 DEF CurrEnded
  <2>6. AtList(ends)'
    BY <1>10, <1>13, <2>1, <2>5 DEF AtList
  <2>7. QED
    BY <1>13, <2>1, <2>6 DEF SplitSoFar
<1>18. ASSUME AtList(ends)
       PROVE  \E f \in [1 .. str'["list"].len -> 1 .. (j + 1)] : SplitSoFar(f)'
  <2>1. /\ appends = Tail(EndOfWord) /\ x = "list" /\ appends' = <<>> /\ a <= stop
        /\ CurrEnded(a, stop) /\ Ended(ends) \cup {stop} = stops /\ stop \in 1 .. (j + 1)
        /\ stop <= str["line"].len + 1 /\ stop \in Nat
    <3>1. Tail(EndOfWord) = << <<"list", PtrOfCurr>> >>
      BY DEF EndOfWord
    <3>2. appends = << <<"list", PtrOfCurr>> >>
      BY <1>18, <3>1 DEF AtList
    <3>3. x = "list" /\ appends' = <<>>
      BY <1>2, <3>2
    <3>4. QED
      BY <1>5, <1>16, <1>18, <3>3 DEF AtList
  <2>2. /\ len = m /\ str'["list"].len = m + 1 /\ str'["curr"].capacity = 0
        /\ WordIs(WordPtr(len + 1), a, stop)'
    BY <1>11, <2>1, CurrListed
  <2>3. WordIs(WordPtr(m + 1), a, stop)'
    BY <2>2
  <2> DEFINE f == [n \in 1 .. (m + 1) |-> IF n = m + 1 THEN stop ELSE ends[n]]
  <2>4. /\ f \in [1 .. (m + 1) -> 1 .. (j + 1)] /\ f[m + 1] = stop
        /\ \A n \in 1 .. m : f[n] = ends[n]
    <3>1. m + 1 \in 1 .. (m + 1) /\ \A n \in 1 .. (m + 1) : n # m + 1 => n \in 1 .. m
      BY <1>5
    <3>2. \A n \in 1 .. m : n \in 1 .. (m + 1) /\ n # m + 1
      BY <1>5
    <3>3. \A n \in 1 .. (m + 1) : (IF n = m + 1 THEN stop ELSE ends[n]) \in 1 .. (j + 1)
      BY <1>11, <2>1, <3>1
    <3>4. QED
      BY <3>1, <3>2, <3>3
  <2> HIDE DEF f
  <2>5. /\ \A n \in 1 .. m : Begin(f, n) = Begin(ends, n)
        /\ Begin(f, m + 1) = a /\ Begin(f, m + 2) = stop + 1
    <3>1. \A n \in 1 .. (m + 1) : n # 1 => n - 1 \in 1 .. m
      BY <1>5
    <3>2. \A n \in 1 .. (m + 1) : Begin(f, n) = Begin(ends, n)
      BY <2>4, <3>1 DEF Begin
    <3>3. m + 2 # 1 /\ (m + 2) - 1 = m + 1 /\ m + 1 \in 1 .. (m + 1)
      BY <1>5
    <3>4. Begin(f, m + 2) = stop + 1
      BY <2>4, <3>3 DEF Begin
    <3>5. \A n \in 1 .. m : n \in 1 .. (m + 1)
      BY <1>5
    <3>6. QED
      BY <3>2, <3>3, <3>4, <3>5 DEF Rest
  <2>6. \A n \in 1 .. (m + 1) : Begin(f, n) <= f[n] /\ WordIs(WordPtr(n), Begin(f, n), f[n])'
    <3>1. TAKE n \in 1 .. (m + 1)
    <3>2. CASE n = m + 1
      BY <2>1, <2>3, <2>4, <2>5, <3>2 DEF Begin
    <3>3. CASE n # m + 1
      <4>1. n \in 1 .. m
        BY <1>5, <3>3
      <4>2. QED
        BY <1>12, <2>4, <2>5, <4>1 DEF Begin
    <3>4. QED
      BY <3>2, <3>3
  <2>7. WordsDone(f)'
    BY <2>2, <2>6 DEF WordsDone, Begin
  <2>8. Ended(f)' = stops
    <3>1. \A n : n \in 1 .. (m + 1) <=> n \in 1 .. m \/ n = m + 1
      BY <1>5
    <3>2. {f[n] : n \in 1 .. (m + 1)} = {ends[n] : n \in 1 .. m} \cup {stop}
      BY <2>4, <3>1
    <3>3. QED
      BY <2>1, <2>2, <3>2 DEF Ended
  <2>9. Rest(f)' = stop + 1
    <3>1. str'["list"].len + 1 = m + 2
      BY <1>5, <2>2
    <3>2. QED
      BY <2>5, <3>1 DEF Rest, Begin
  <2>10. CASE at = "run"
    BY <1>2, <1>10, <2>1, <2>2, <2>4, <2>7, <2>8, <2>10 DEF SplitSoFar, AtCommand
  <2>11. CASE at = "split"
    <3>1. stop = j /\ stops = CutsTo(j)
      BY <1>10, <2>11 DEF Stop, Stops
    <3>2. CurrHolds(stop + 1, j)'
      BY <2>1, <2>2, <3>1 DEF CurrHolds
    <3>3. AtNextChar(f)'
      BY <1>2, <1>10, <2>1, <2>8, <2>9, <2>11, <3>1, <3>2 DEF AtNextChar
    <3>4. QED
      BY <2>2, <2>4, <2>7, <3>3 DEF SplitSoFar
  <2>12. QED
    BY <1>1, <2>10, <2>11
<1>19. ~ AtCommand(ends)
  BY <1>2 DEF AtCommand
<1>20. \E f \in [1 .. str'["list"].len -> 1 .. (j + 1)] : SplitSoFar(f)'
  BY <1>6, <1>14, <1>15, <1>17, <1>18, <1>19 DEF SplitSoFar
<1>21. QED
  BY <1>2, <1>9, <1>20 DEF SplitProgress

\* An APPEND keeps what was typed on the line.
LEMMA AppendTyped ==
    ASSUME StringTypeOK, StringInvariant, TypedKept, NEW x, NEW p \in 0 .. (Units - 1), NEW cap \in Nat,
           NEW len \in Nat, AppendedTo(x, p, cap, len)
    PROVE  TypedKept'
<1>1. /\ pc # "panic" /\ appends # <<>> /\ x = appends[1][1] /\ appends' = Tail(appends)
      /\ at' = at /\ typed' = typed /\ stale' = stale
  BY DEF AppendedTo, AppendDone
<1>2. SUFFICES ASSUME ~ stale /\ at # "off"
               PROVE  TypedKept'
  BY <1>1 DEF TypedKept
<1> PICK n : n = Len(typed)
  OBVIOUS
<1>3. n \in Nat /\ n' = Len(typed')
  BY <1>1 DEF StringTypeOK
<1>4. AppendsKnown
  BY <1>1 DEF StringInvariant
<1>5. /\ str["line"].len \in Nat /\ (\A k \in 1 .. str["line"].len : Ch(k)' = Ch(k))
      /\ str'["line"].len = IF x = "line" THEN str["line"].len + 1 ELSE str["line"].len
      /\ x = "line" => len = str["line"].len /\ Ch(len + 1)' = Resolved(appends[1][2])
  BY AppendChars
<1>6. /\ \A k \in 1 .. n : k <= str["line"].len => Ch(k) = typed[k]
      /\ at \in {"boot", "prompt"} =>
            \/ x = "line" /\ str["line"].len + 1 = n /\ appends[1][2] = typed[n]
            \/ x # "line" /\ str["line"].len = n
      /\ at \in {"split", "run"} =>
            \/ appends = << <<"line", Nul>> >> /\ str["line"].len = n
            \/ appends # << <<"line", Nul>> >> /\ str["line"].len = n + 1 /\ Ch(n + 1) = Nul
  BY <1>1, <1>2 DEF TypedKept
<1>7. SUFFICES /\ \A k \in 1 .. n : k <= str'["line"].len => Ch(k)' = typed[k]
               /\ at \in {"boot", "prompt"} => appends' = <<>> /\ str'["line"].len = n
               /\ at \in {"split", "run"} => /\ appends' # << <<"line", Nul>> >>
                                             /\ str'["line"].len = n + 1 /\ Ch(n + 1)' = Nul
  <2>1. Ch(Len(typed) + 1)' = Ch(n + 1)'
    BY <1>1 DEF Ch
  <2>2. QED
    BY <1>1, <2>1 DEF TypedKept
<1>8. \A k \in 1 .. n : k <= str["line"].len => Ch(k)' = typed[k]
  BY <1>3, <1>5, <1>6
<1>9. CASE at = "boot" /\ x = "dir" /\ Tail(appends) = <<>>
  BY <1>1, <1>3, <1>5, <1>6, <1>8, <1>9
<1>10. CASE at = "prompt" /\ x = "line" /\ appends[1][2] \in Nat \ {0} /\ Tail(appends) = <<>>
  <2>1. len + 1 = n /\ appends[1][2] = typed[n] /\ str'["line"].len = n
    BY <1>5, <1>6, <1>10
  <2>2. Resolved(appends[1][2]) = appends[1][2]
    BY <1>10 DEF Resolved, PtrOfCurr
  <2>3. Ch(n)' = typed[n]
    BY <1>5, <1>10, <2>1, <2>2
  <2>4. QED
    BY <1>1, <1>3, <1>5, <1>8, <1>10, <2>1, <2>3
<1>11. CASE at = "split" /\ x = "line" /\ appends = << <<"line", Nul>> >> /\ Tail(appends) = <<>>
  <2>1. appends[1][2] = Nul /\ Resolved(Nul) = Nul /\ <<>> # << <<"line", Nul>> >>
    BY <1>11 DEF Resolved, PtrOfCurr, Nul
  <2>2. len = n /\ Ch(n + 1)' = Nul /\ str'["line"].len = n + 1
    BY <1>5, <1>6, <1>11, <2>1
  <2>3. QED
    BY <1>1, <1>3, <1>5, <1>6, <1>8, <1>11, <2>1, <2>2
<1>12. CASE /\ at \in {"split", "run"} /\ x \in {"curr", "list"}
            /\ Tail(appends) \in {<<>>, << <<"list", PtrOfCurr>> >>}
  <2>1. appends # << <<"line", Nul>> >>
    BY <1>1, <1>12
  <2>2. /\ str["line"].len = n + 1 /\ Ch(n + 1) = Nul /\ str'["line"].len = n + 1 /\ Ch(n + 1)' = Ch(n + 1)
    BY <1>3, <1>5, <1>6, <1>12, <2>1
  <2>3. << <<"list", PtrOfCurr>> >> # << <<"line", Nul>> >> /\ <<>> # << <<"line", Nul>> >>
    OBVIOUS
  <2>4. QED
    BY <1>1, <1>3, <1>8, <1>12, <2>2, <2>3
<1>13. \/ at = "boot" /\ x = "dir" /\ Tail(appends) = <<>>
       \/ at = "prompt" /\ x = "line" /\ appends[1][2] \in Nat \ {0} /\ Tail(appends) = <<>>
       \/ at = "split" /\ x = "line" /\ appends = << <<"line", Nul>> >> /\ Tail(appends) = <<>>
       \/ /\ at \in {"split", "run"} /\ x \in {"curr", "list"}
          /\ Tail(appends) \in {<<>>, << <<"list", PtrOfCurr>> >>}
  BY <1>1, <1>4, NextAppend
<1>14. QED
  BY <1>9, <1>10, <1>11, <1>12, <1>13

\* An APPEND that succeeds preserves the invariant, whether its string moves or not.
LEMMA AppendedText ==
    ASSUME StringTypeOK, StringInvariant, TextInvariant, Appended
    PROVE  TextInvariant'
<1>1. PICK p \in 0 .. (Units - 1), cap \in Nat, len \in Nat : AppendedTo(appends[1][1], p, cap, len)
  BY DEF Appended
<1>2. SplitProgress /\ TypedKept
  BY <1>1 DEF AppendedTo, TextInvariant
<1>3. SplitProgress' /\ TypedKept'
  BY <1>1, <1>2, AppendSplit, AppendTyped
<1>4. QED
  BY <1>3 DEF TextInvariant

\* The block that krealloc takes changes no text.
LEMMA GrownHolds ==
    ASSUME StringTypeOK, StringInvariant, AppendGrow, pc' # "panic"
    PROVE  /\ held \subseteq held'
           /\ UNCHANGED <<at, str, mem, appends, i, in_string, typed, stale>>
<1>1. UNCHANGED <<at, str, mem, appends, i, in_string, typed, stale>>
  BY DEF AppendGrow
<1>2. PICK r \in held : KreallocTake(r, 2 * str[appends[1][1]].capacity * Size(appends[1][1]))
  BY DEF AppendGrow
<1>3. held \subseteq held'
  BY <1>2 DEF KreallocTake, Take, Panic
<1>4. QED
  BY <1>1, <1>3

\* A step that leaves the line, the words and what is appended.
LEMMA SameText ==
    ASSUME TextInvariant, pc # "panic", held \subseteq held',
           UNCHANGED <<at, str, mem, appends, i, in_string, typed, stale>>
    PROVE  TextInvariant'
<1>1. SplitProgress /\ TypedKept
  BY DEF TextInvariant
<1>2. /\ \A k : Ch(k)' = Ch(k)
      /\ \A n : WordPtr(n)' = WordPtr(n)
  BY DEF Ch, WordPtr
<1>3. \A n : OddTo(n)' = OddTo(n)
  BY <1>2 DEF OddTo
<1>4. \A n : CutsTo(n)' = CutsTo(n)
  BY <1>2, <1>3 DEF CutsTo
<1>5. /\ \A p, a, e : Holds(p, a, e) => Holds(p, a, e)'
      /\ \A a, e : CurrHolds(a, e) => CurrHolds(a, e)'
      /\ \A a, e : CurrEnded(a, e) => CurrEnded(a, e)'
  BY <1>2 DEF Holds, CurrHolds, CurrEnded
<1>6. \A p, a, e : WordIs(p, a, e) => WordIs(p, a, e)'
  <2>1. TAKE p, a, e
  <2>2. Holds(p, a, e - 1) => Holds(p, a, e - 1)'
    BY <1>5
  <2>3. QED
    BY <2>2 DEF WordIs
<1>7. Stop' = Stop /\ Stops' = Stops
  BY <1>4 DEF Stop, Stops
<1>8. \A f : /\ Ended(f)' = Ended(f) /\ Rest(f)' = Rest(f)
             /\ WordsDone(f) => WordsDone(f)'
  BY <1>2, <1>6 DEF Ended, Rest, WordsDone, Begin
<1>9. \A f : SplitSoFar(f) => SplitSoFar(f)'
  BY <1>2, <1>4, <1>5, <1>7, <1>8 DEF SplitSoFar, AtNextChar, AtChar, AtZero, AtList, AtCommand
<1>10. SplitProgress'
  BY <1>1, <1>2, <1>3, <1>9 DEF SplitProgress
<1>11. TypedKept'
  BY <1>1, <1>2 DEF TypedKept
<1>12. QED
  BY <1>10, <1>11 DEF TextInvariant

\* Nothing is typed or split at first.
LEMMA TextInit ==
    ASSUME StringInit
    PROVE  TextInvariant
<1>1. /\ at = "boot" /\ str = [x \in Strs |-> EmptyStr] /\ appends = << <<"dir", 9>> >> /\ typed = <<>>
  BY DEF StringInit
<1>2. str["line"].len = 0 /\ Len(typed) = 0 /\ appends[1][1] = "dir"
  BY <1>1 DEF Strs, EmptyStr
<1>3. QED
  BY <1>1, <1>2 DEF TextInvariant, SplitProgress, TypedKept

\* What is typed at rest.
LEMMA TypedAtRest ==
    ASSUME StringTypeOK, TextInvariant, pc = "run", appends = <<>>, ~ stale, at # "off"
    PROVE  /\ Len(typed) \in Nat /\ \A k \in 1 .. Len(typed) : Ch(k) = typed[k]
           /\ at \in {"boot", "prompt"} => str["line"].len = Len(typed)
           /\ at \in {"split", "run"} => str["line"].len = Len(typed) + 1 /\ Ch(Len(typed) + 1) = Nul
<1>1. TypedKept
  BY DEF TextInvariant
<1>2. Len(typed) \in Nat /\ at \in {"boot", "prompt", "split", "run"} /\ <<>> # << <<"line", Nul>> >>
  BY DEF StringTypeOK
<1>3. /\ at \in {"boot", "prompt"} => str["line"].len = Len(typed)
      /\ at \in {"split", "run"} => str["line"].len = Len(typed) + 1 /\ Ch(Len(typed) + 1) = Nul
  BY <1>1, <1>2 DEF TypedKept
<1>4. \A k \in 1 .. Len(typed) : k <= str["line"].len
  BY <1>2, <1>3
<1>5. QED
  BY <1>1, <1>2, <1>3, <1>4 DEF TypedKept

\* The prompt appears.
LEMMA BootText ==
    ASSUME StringTypeOK, TextInvariant, Boot
    PROVE  TextInvariant'
<1>1. /\ pc = "run" /\ appends = <<>> /\ at = "boot" /\ at' = "prompt"
      /\ UNCHANGED <<str, mem, appends, typed, stale>>
  BY DEF Boot, Ready
<1>2. \A k : Ch(k)' = Ch(k)
  BY <1>1 DEF Ch
<1>3. TypedKept'
  BY <1>1, <1>2 DEF TextInvariant, TypedKept
<1>4. QED
  BY <1>1, <1>3 DEF TextInvariant, SplitProgress

\* A key: its character is still to be appended.
LEMMA KeyText ==
    ASSUME StringTypeOK, TextInvariant, NEW c \in Keys, Key(c)
    PROVE  TextInvariant'
<1>1. /\ pc = "run" /\ appends = <<>> /\ at = "prompt" /\ appends' = << <<"line", c>> >>
      /\ typed' = Append(typed, c) /\ UNCHANGED <<at, str, mem, stale>>
  BY DEF Key, Ready
<1>2. TypedKept'
  <2>1. SUFFICES ASSUME ~ stale
                 PROVE  TypedKept'
    BY <1>1 DEF TypedKept
  <2>2. /\ Len(typed) \in Nat /\ (\A k \in 1 .. Len(typed) : Ch(k) = typed[k])
        /\ str["line"].len = Len(typed)
    BY <1>1, <2>1, TypedAtRest
  <2>3. /\ Len(typed') = Len(typed) + 1 /\ typed'[Len(typed) + 1] = c
        /\ \A k \in 1 .. Len(typed) : typed'[k] = typed[k]
    BY <1>1 DEF StringTypeOK
  <2>4. \A k \in 1 .. Len(typed') : k <= str["line"].len => Ch(k)' = typed'[k]
    BY <1>1, <2>2, <2>3 DEF Ch
  <2>5. appends' # <<>> /\ appends'[1][1] = "line" /\ appends'[1][2] = c
    BY <1>1
  <2>6. QED
    BY <1>1, <2>2, <2>3, <2>4, <2>5 DEF TypedKept
<1>3. QED
  BY <1>1, <1>2 DEF TextInvariant, SplitProgress

\* A backspace takes the last character from the line and from what was typed.
LEMMA BackspaceText ==
    ASSUME StringTypeOK, TextInvariant, Backspace
    PROVE  TextInvariant'
<1>1. /\ pc = "run" /\ appends = <<>> /\ at = "prompt" /\ str["line"].len > 0
      /\ str' = [str EXCEPT !["line"].len = @ - 1]
      /\ typed' = IF typed = <<>> THEN <<>> ELSE Front(typed)
      /\ UNCHANGED <<at, mem, appends, stale>>
  BY DEF Backspace, Ready
<1>2. str \in [Strs -> StringRec] /\ "line" \in Strs /\ str["line"].len \in Nat
  BY StringTypes DEF Strs
<1>3. str'["line"].len = str["line"].len - 1 /\ str'["line"].contents = str["line"].contents
  BY <1>1, <1>2 DEF StringRec
<1>4. TypedKept'
  <2>1. SUFFICES ASSUME ~ stale
                 PROVE  TypedKept'
    BY <1>1 DEF TypedKept
  <2>2. /\ Len(typed) \in Nat /\ (\A k \in 1 .. Len(typed) : Ch(k) = typed[k])
        /\ str["line"].len = Len(typed) /\ typed \in Seq(Keys)
    BY <1>1, <2>1, TypedAtRest DEF StringTypeOK
  <2>3. typed # <<>> /\ typed' = SubSeq(typed, 1, Len(typed) - 1)
    BY <1>1, <2>2 DEF Front
  <2>4. Len(typed') = Len(typed) - 1 /\ \A k \in 1 .. (Len(typed) - 1) : typed'[k] = typed[k]
    BY <1>1, <2>2, <2>3
  <2>5. \A k \in 1 .. Len(typed') : Ch(k)' = typed'[k]
    BY <1>1, <1>3, <2>2, <2>4 DEF Ch
  <2>6. QED
    BY <1>1, <1>3, <2>2, <2>4, <2>5 DEF TypedKept
<1>5. QED
  BY <1>1, <1>4 DEF TextInvariant, SplitProgress

\* Enter: the zero is still to be appended, no word is there yet.
LEMMA EnterText ==
    ASSUME StringTypeOK, TextInvariant, Enter
    PROVE  TextInvariant'
<1>1. /\ pc = "run" /\ appends = <<>> /\ at = "prompt" /\ str["line"].len > 0
      /\ at' = "split" /\ appends' = << <<"line", Nul>> >>
      /\ str' = [str EXCEPT !["curr"] = EmptyStr, !["list"] = EmptyStr]
      /\ i' = 0 /\ in_string' = FALSE /\ UNCHANGED <<mem, typed, stale>>
  BY DEF Enter, Ready
<1>2. /\ str'["curr"] = EmptyStr /\ str'["list"] = EmptyStr /\ str'["line"] = str["line"]
      /\ str["line"].len \in Nat
  BY <1>1, StringTypes DEF Strs
<1>3. EmptyStr.len = 0 /\ EmptyStr.capacity = 0
  BY DEF EmptyStr
<1>4. \A k : Ch(k)' = Ch(k)
  BY <1>1, <1>2 DEF Ch
<1>5. TypedKept'
  <2>1. SUFFICES ASSUME ~ stale
                 PROVE  TypedKept'
    BY <1>1 DEF TypedKept
  <2>2. /\ Len(typed) \in Nat /\ (\A k \in 1 .. Len(typed) : Ch(k) = typed[k])
        /\ str["line"].len = Len(typed)
    BY <1>1, <2>1, TypedAtRest
  <2>3. QED
    BY <1>1, <1>2, <1>4, <2>2 DEF TypedKept
<1>6. ~ OddTo(0)' /\ CutsTo(0)' = {}
  <2>1. {k \in 1 .. 0 : Ch(k)' = Quote} = {}
    OBVIOUS
  <2>2. Cardinality({}) = 0
    BY FS_EmptySet
  <2>3. QED
    BY <2>1, <2>2 DEF OddTo, CutsTo
<1> DEFINE none == [n \in 1 .. 0 |-> 1]
<1>7. AtNextChar(none)' /\ WordsDone(none)'
  <2>1. Ended(none)' = {} /\ Rest(none)' = 1
    BY <1>2, <1>3 DEF Ended, Rest, Begin
  <2>2. CurrHolds(1, 0)'
    BY <1>2, <1>3 DEF CurrHolds
  <2>3. CutsTo(i)' = {}
    BY <1>1 DEF CutsTo
  <2>4. AtNextChar(none)'
    BY <1>1, <2>1, <2>2, <2>3 DEF AtNextChar
  <2>5. WordsDone(none)'
    BY <1>2, <1>3 DEF WordsDone
  <2>6. QED
    BY <2>4, <2>5
<1>8. none \in [1 .. str'["list"].len -> 1 .. (i' + 1)]
  <2>1. str'["list"].len = 0 /\ i' = 0 /\ 1 \in 1 .. (0 + 1)
    BY <1>1, <1>2, <1>3
  <2>2. none \in [1 .. 0 -> 1 .. (0 + 1)]
    BY <2>1
  <2>3. QED
    BY <2>1, <2>2
<1> HIDE DEF none
<1>9. OddTo(i)' = OddTo(0)'
  BY <1>1 DEF OddTo
<1>10. SplitProgress'
  <2>1. SplitSoFar(none)'
    BY <1>7 DEF SplitSoFar
  <2>2. \E ends \in [1 .. str'["list"].len -> 1 .. (i' + 1)] : SplitSoFar(ends)'
    BY <1>8, <2>1
  <2>3. i' < str'["line"].len /\ \A k \in 1 .. i' : Ch(k)' # Nul
    BY <1>1, <1>2
  <2>4. QED
    BY <1>1, <1>6, <1>9, <2>2, <2>3 DEF SplitProgress
<1>11. QED
  BY <1>5, <1>10 DEF TextInvariant

\* A step of string_split changes neither the line nor the words.
LEMMA SplitFrame ==
    ASSUME UNCHANGED <<str, mem, held>>
    PROVE  /\ \A k : Ch(k)' = Ch(k)
           /\ \A n : OddTo(n)' = OddTo(n) /\ CutsTo(n)' = CutsTo(n)
           /\ \A a, e : CurrHolds(a, e)' = CurrHolds(a, e)
           /\ \A f : /\ Ended(f)' = Ended(f) /\ Rest(f)' = Rest(f)
                     /\ WordsDone(f)' = WordsDone(f)
<1>1. (\A k : Ch(k)' = Ch(k)) /\ (\A n : WordPtr(n)' = WordPtr(n))
  BY DEF Ch, WordPtr
<1>2. \A n : OddTo(n)' = OddTo(n)
  BY <1>1 DEF OddTo
<1>3. \A n : CutsTo(n)' = CutsTo(n)
  BY <1>1, <1>2 DEF CutsTo
<1>4. \A p, a, e : Holds(p, a, e)' = Holds(p, a, e)
  BY <1>1 DEF Holds
<1>5. \A a, e : CurrHolds(a, e)' = CurrHolds(a, e)
  BY <1>4 DEF CurrHolds, Holds
<1>6. \A p, a, e : WordIs(p, a, e)' = WordIs(p, a, e)
  BY <1>4 DEF WordIs, Holds
<1>7. \A f : WordsDone(f)' = WordsDone(f)
  BY <1>1, <1>6 DEF WordsDone, Begin
<1>8. \A f : Ended(f)' = Ended(f) /\ Rest(f)' = Rest(f)
  BY DEF Ended, Rest, Begin
<1>9. QED
  BY <1>1, <1>2, <1>3, <1>5, <1>7, <1>8

\* What string_split has done when it comes to the next character.
LEMMA AtNext ==
    ASSUME StringTypeOK, TextInvariant, Ready("split")
    PROVE  /\ i \in Nat /\ str["list"].len \in Nat
           /\ \E ends \in [1 .. str["list"].len -> 1 .. (i + 1)] :
                 /\ WordsDone(ends) /\ Ended(ends) = CutsTo(i)
                 /\ CurrHolds(Rest(ends), i) /\ Rest(ends) \in Nat \ {0} /\ Rest(ends) <= i + 1
<1>1. pc = "run" /\ at = "split" /\ appends = <<>>
  BY DEF Ready
<1>2. SplitProgress
  BY <1>1 DEF TextInvariant
<1>3. i \in Nat /\ str["list"].len \in Nat
  BY <1>1, <1>2, SplitTypes
<1>4. PICK ends \in [1 .. str["list"].len -> 1 .. (i + 1)] : SplitSoFar(ends)
  BY <1>1, <1>2, SplitTypes
<1>5. AtNextChar(ends) /\ WordsDone(ends)
  <2>1. EndOfWord # <<>> /\ Tail(EndOfWord) # <<>>
    BY DEF EndOfWord
  <2>2. << <<"curr", Ch(i)>> >> # <<>>
    OBVIOUS
  <2>3. QED
    BY <1>1, <1>4, <2>1, <2>2 DEF SplitSoFar, AtChar, AtZero, AtList, AtCommand
<1>6. Rest(ends) \in Nat \ {0}
  <2>1. \A n \in 1 .. (str["list"].len + 1) : Begin(ends, n) \in Nat \ {0}
    BY <1>3, BeginType
  <2>2. QED
    BY <1>3, <2>1 DEF Rest
<1>7. Rest(ends) <= i + 1
  <2>1. str["curr"].len \in Nat /\ str["curr"].capacity \in Nat
    BY StringTypes DEF Strs
  <2>2. QED
    BY <1>3, <1>5, <1>6, <2>1 DEF AtNextChar, CurrHolds
<1>8. QED
  BY <1>3, <1>4, <1>5, <1>6, <1>7 DEF AtNextChar

\* string_split looks at a character.
LEMMA SplitCharText ==
    ASSUME StringTypeOK, StringInvariant, TextInvariant, SplitChar
    PROVE  TextInvariant'
<1> PICK j, m, c : j = i /\ m = str["list"].len /\ c = Ch(j + 1)
  OBVIOUS
<1>1. /\ Ready("split") /\ pc = "run" /\ at = "split" /\ appends = <<>> /\ i' = j + 1
      /\ UNCHANGED <<at, str, mem, held, pc, typed, stale>>
  BY DEF SplitChar, Ready, vars
<1>2. j \in Nat /\ m \in Nat /\ str["line"].contents \in Nat
  BY <1>1, AtNext, LineInBlock
<1>3. mem[str["line"].contents + j] = c
  <2>1. str["line"].contents + j = str["line"].contents + (j + 1) - 1
    BY <1>2
  <2>2. QED
    BY <2>1 DEF Ch
<1>4. /\ c # Nul /\ in_string' = (in_string # (c = Quote))
      /\ appends' = IF c = Space /\ ~ (in_string # (c = Quote)) THEN EndOfWord ELSE << <<"curr", c>> >>
  BY <1>3 DEF SplitChar, EndOfWord
<1>5. /\ \A k : Ch(k)' = Ch(k)
      /\ \A n : OddTo(n)' = OddTo(n) /\ CutsTo(n)' = CutsTo(n)
      /\ \A a, e : CurrHolds(a, e)' = CurrHolds(a, e)
      /\ \A f : Ended(f)' = Ended(f) /\ Rest(f)' = Rest(f) /\ WordsDone(f)' = WordsDone(f)
  BY <1>1, SplitFrame
<1>6. appends' # << <<"line", Nul>> >>
  <2>1. EndOfWord # << <<"line", Nul>> >>
    BY DEF EndOfWord
  <2>2. << <<"curr", c>> >> # << <<"line", Nul>> >>
    OBVIOUS
  <2>3. QED
    BY <1>4, <2>1, <2>2
<1>7. i' < str'["line"].len
  <2>1. LineEnds'
    BY <1>1, SplitCharInv DEF StringInvariant
  <2>2. QED
    BY <1>1, <1>6, <2>1 DEF LineEnds
<1>8. (\A k \in 1 .. j : Ch(k) # Nul) /\ (in_string <=> OddTo(j))
  BY <1>1, SplitTypes DEF TextInvariant
<1>9. OddTo(j + 1) <=> ~ (OddTo(j) <=> c = Quote)
  BY <1>2, OddNext
<1>10. in_string' <=> OddTo(j + 1)
  <2>1. in_string \in BOOLEAN
    BY DEF StringTypeOK
  <2>2. in_string' <=> ~ (in_string <=> c = Quote)
    <3>1. CASE in_string = TRUE
      BY <1>4, <3>1
    <3>2. CASE in_string = FALSE
      BY <1>4, <3>2
    <3>3. QED
      BY <2>1, <3>1, <3>2
  <2>3. QED
    BY <1>8, <1>9, <2>2
<1>11. CutsTo(j + 1) = IF c = Space /\ ~ OddTo(j + 1) THEN CutsTo(j) \cup {j + 1} ELSE CutsTo(j)
  BY <1>2, CutsNext
<1>12. PICK ends \in [1 .. m -> 1 .. (j + 1)] :
           /\ WordsDone(ends) /\ Ended(ends) = CutsTo(j)
           /\ CurrHolds(Rest(ends), j) /\ Rest(ends) \in Nat \ {0} /\ Rest(ends) <= j + 1
  BY <1>1, AtNext
<1>13. CutsTo(i)' = CutsTo(j + 1) /\ OddTo(i)' = OddTo(j + 1) /\ Ch(i)' = c
  <2>1. CutsTo(i)' = CutsTo(j + 1)' /\ OddTo(i)' = OddTo(j + 1)' /\ Ch(i)' = Ch(j + 1)'
    BY <1>1 DEF CutsTo, OddTo, Ch
  <2>2. QED
    BY <1>5, <2>1
<1> PICK a : a = Rest(ends)
  OBVIOUS
<1>14. CurrHolds(a, j)' /\ Rest(ends)' = a /\ Ended(ends)' = CutsTo(j) /\ WordsDone(ends)'
  BY <1>5, <1>12
<1>15. SplitSoFar(ends)'
  <2>1. CASE c = Space /\ ~ OddTo(j + 1)
    <3>1. appends' = EndOfWord
      BY <1>4, <1>10, <2>1
    <3>2. Stop' = j + 1 /\ Stops' = CutsTo(j) \cup {j + 1} /\ (j + 1) - 1 = j
      BY <1>1, <1>2, <1>11, <1>13, <2>1 DEF Stop, Stops
    <3>3. AtZero(ends)'
      BY <1>12, <1>14, <3>1, <3>2 DEF AtZero
    <3>4. QED
      BY <1>14, <3>3 DEF SplitSoFar
  <2>2. CASE ~ (c = Space /\ ~ OddTo(j + 1))
    <3>1. appends' = << <<"curr", c>> >>
      BY <1>4, <1>10, <2>2
    <3>2. i' > 0 /\ i' - 1 = j
      BY <1>1, <1>2
    <3>3. AtChar(ends)'
      BY <1>1, <1>11, <1>13, <1>14, <2>2, <3>1, <3>2 DEF AtChar
    <3>4. QED
      BY <1>14, <3>3 DEF SplitSoFar
  <2>3. QED
    BY <2>1, <2>2
<1>16. \A k \in 1 .. i' : Ch(k)' # Nul
  <2>1. \A k \in 1 .. (j + 1) : k \in 1 .. j \/ k = j + 1
    BY <1>2
  <2>2. QED
    BY <1>1, <1>4, <1>5, <1>8, <2>1
<1>17. ends \in [1 .. str'["list"].len -> 1 .. (i' + 1)]
  <2>1. \A n \in 1 .. m : ends[n] \in 1 .. (j + 1 + 1)
    BY <1>2
  <2>2. ends \in [1 .. m -> 1 .. (j + 1 + 1)]
    BY <2>1
  <2>3. QED
    BY <1>1, <2>2
<1>18. SplitProgress'
  BY <1>1, <1>7, <1>10, <1>13, <1>15, <1>16, <1>17 DEF SplitProgress
<1>19. TypedKept'
  <2>1. <<>> # << <<"line", Nul>> >>
    OBVIOUS
  <2>2. QED
    BY <1>1, <1>5, <1>6, <2>1 DEF TextInvariant, TypedKept
<1>20. QED
  BY <1>18, <1>19 DEF TextInvariant

\* string_split comes to the zero.
LEMMA SplitEndText ==
    ASSUME StringTypeOK, StringInvariant, TextInvariant, SplitEnd
    PROVE  TextInvariant'
<1> PICK j, m : j = i /\ m = str["list"].len
  OBVIOUS
<1>1. /\ Ready("split") /\ pc = "run" /\ at = "split" /\ appends = <<>> /\ at' = "run"
      /\ UNCHANGED <<i, str, mem, held, pc, typed, stale>> /\ mem[str["line"].contents + i] = Nul
  BY DEF SplitEnd, Ready, vars
<1>2. appends' = EndOfWord /\ EndOfWord # << <<"line", Nul>> >>
  BY LastWord DEF EndOfWord
<1>3. j \in Nat /\ m \in Nat /\ str["line"].contents \in Nat
  BY <1>1, AtNext, LineInBlock
<1>4. /\ \A k : Ch(k)' = Ch(k)
      /\ \A n : OddTo(n)' = OddTo(n) /\ CutsTo(n)' = CutsTo(n)
      /\ \A a, e : CurrHolds(a, e)' = CurrHolds(a, e)
      /\ \A f : Ended(f)' = Ended(f) /\ Rest(f)' = Rest(f) /\ WordsDone(f)' = WordsDone(f)
  BY <1>1, SplitFrame
<1>5. PICK ends \in [1 .. m -> 1 .. (j + 1)] :
           /\ WordsDone(ends) /\ Ended(ends) = CutsTo(j)
           /\ CurrHolds(Rest(ends), j) /\ Rest(ends) \in Nat \ {0} /\ Rest(ends) <= j + 1
  BY <1>1, AtNext
<1> PICK a : a = Rest(ends)
  OBVIOUS
<1>6. CurrHolds(a, j)' /\ Rest(ends)' = a /\ Ended(ends)' = CutsTo(j) /\ WordsDone(ends)'
  BY <1>4, <1>5
<1>7. Stop' = j + 1 /\ Stops' = CutsTo(j) \cup {j + 1} /\ (j + 1) - 1 = j
  <2>1. CutsTo(i)' = CutsTo(j)'
    BY <1>1 DEF CutsTo
  <2>2. QED
    BY <1>1, <1>3, <1>4, <2>1 DEF Stop, Stops
<1>8. SplitSoFar(ends)'
  <2>1. AtZero(ends)'
    BY <1>2, <1>5, <1>6, <1>7 DEF AtZero
  <2>2. QED
    BY <1>6, <2>1 DEF SplitSoFar
<1>9. Ch(i + 1)' = Nul
  <2>1. str["line"].contents + (j + 1) - 1 = str["line"].contents + j
    BY <1>3
  <2>2. QED
    BY <1>1, <2>1 DEF Ch
<1>10. i < str["line"].len /\ (\A k \in 1 .. i : Ch(k) # Nul)
  BY <1>1, SplitTypes DEF TextInvariant
<1>11. SplitProgress'
  BY <1>1, <1>4, <1>5, <1>8, <1>9, <1>10 DEF SplitProgress
<1>12. TypedKept'
  <2>1. <<>> # << <<"line", Nul>> >>
    OBVIOUS
  <2>2. QED
    BY <1>1, <1>2, <1>4, <2>1 DEF TextInvariant, TypedKept
<1>13. QED
  BY <1>11, <1>12 DEF TextInvariant

\* The command, a redirection that fails, and exit leave nothing to be split.
LEMMA CommandText ==
    ASSUME StringTypeOK, TextInvariant, Run \/ RedirectionFails \/ Exit
    PROVE  TextInvariant'
<1>1. at' \in {"prompt", "off"}
  BY DEF Run, RedirectionFails, Exit
<1>2. TypedKept'
  <2>1. CASE Run
    <3>1. /\ appends = <<>> /\ appends' = appends /\ typed' = <<>> /\ at' = "prompt"
          /\ str' = [str EXCEPT !["line"].len = 0]
      BY <2>1 DEF Run, Ready
    <3>2. str \in [Strs -> StringRec] /\ "line" \in Strs
      BY StringTypes DEF Strs
    <3>3. str'["line"].len = 0 /\ Len(typed') = 0
      BY <3>1, <3>2 DEF StringRec
    <3>4. QED
      BY <3>1, <3>3 DEF TypedKept
  <2>2. CASE RedirectionFails
    BY <2>2 DEF RedirectionFails, TypedKept
  <2>3. CASE Exit
    BY <2>3 DEF Exit, TypedKept
  <2>4. QED
    BY <2>1, <2>2, <2>3
<1>3. QED
  BY <1>1, <1>2 DEF TextInvariant, SplitProgress

\* kfree changes no text; it only happens between commands.
LEMMA FreeText ==
    ASSUME StringTypeOK, StringInvariant, TextInvariant, Free
    PROVE  TextInvariant'
<1>1. /\ pc = "run" /\ frees # <<>>
      /\ UNCHANGED <<at, str, mem, appends, i, in_string, typed, stale>>
  BY DEF Free
<1>2. at \in {"prompt", "off"}
  <2>1. FreesApart /\ frees \in Seq(0 .. (Units - 1))
    BY <1>1 DEF StringInvariant, StringTypeOK
  <2>2. 1 \in DOMAIN frees
    BY <1>1, <2>1
  <2>3. QED
    BY <2>1, <2>2 DEF FreesApart
<1>3. \A k : Ch(k)' = Ch(k)
  BY <1>1 DEF Ch
<1>4. TypedKept'
  BY <1>1, <1>3 DEF TextInvariant, TypedKept
<1>5. QED
  BY <1>1, <1>2, <1>4 DEF TextInvariant, SplitProgress

\* Every step preserves the invariant of the text.
LEMMA TextStep ==
    ASSUME StringTypeOK, StringInvariant, TextInvariant, [StringNext]_all
    PROVE  TextInvariant'
<1>1. SUFFICES ASSUME pc' # "panic"
               PROVE  TextInvariant'
  BY DEF TextInvariant
<1>2. CASE AppendFits \/ AppendNew \/ AppendMove
  BY <1>1, <1>2, FitsAppended, NewAppended, MoveAppended, AppendedText
<1>3. CASE AppendGrow
  <2>1. pc # "panic"
    BY <1>3 DEF AppendGrow, Appending
  <2>2. QED
    BY <1>1, <1>3, <2>1, GrownHolds, SameText
<1>4. CASE Boot \/ (\E k \in Keys : Key(k)) \/ Backspace \/ Enter
  BY <1>4, BootText, KeyText, BackspaceText, EnterText
<1>5. CASE SplitChar \/ SplitEnd
  BY <1>5, SplitCharText, SplitEndText
<1>6. CASE TooManyWords
  BY <1>1, <1>6 DEF TooManyWords
<1>7. CASE RedirectionFails \/ Run \/ Exit \/ Free
  BY <1>7, CommandText, FreeText
<1>8. CASE UNCHANGED all
  <2>1. /\ pc' = pc /\ held' = held
        /\ UNCHANGED <<at, str, mem, appends, i, in_string, typed, stale>>
    BY <1>8 DEF all, vars, client
  <2>2. QED
    BY <1>1, <2>1, SameText
<1>9. QED
  BY <1>2, <1>3, <1>4, <1>5, <1>6, <1>7, <1>8 DEF StringNext

\* The invariant of the text holds, on top of that of the blocks.
LEMMA TextInvariantHolds == StringSpec => [](StringTypeOK /\ StringInvariant /\ TextInvariant)
<1>1. StringInit => StringTypeOK /\ StringInvariant /\ TextInvariant
  BY StringsInit, TextInit
<1>2. StringTypeOK /\ StringInvariant /\ TextInvariant /\ [StringNext]_all
        => (StringTypeOK /\ StringInvariant /\ TextInvariant)'
  BY StringsStep, TextStep
<1>3. QED
  BY <1>1, <1>2, PTL DEF StringSpec

-----------------------------------------------------------------------------
\* The text at p ends in front of the first zero.
LEMMA TextEnds ==
    ASSUME NEW p \in Nat, NEW e \in p .. (Units - 1), mem[e] = Nul, \A u \in p .. (e - 1) : mem[u] # Nul
    PROVE  TextAt(p) = [k \in 1 .. (e - p) |-> mem[p + k - 1]]
<1> DEFINE IsEnd(d) == mem[d] = Nul /\ \A u \in p .. (d - 1) : mem[u] # Nul
           end == CHOOSE d \in p .. (Units - 1) : IsEnd(d)
<1>1. IsEnd(e)
  OBVIOUS
<1>2. \A d \in p .. (Units - 1) : IsEnd(d) => d = e
  <2>1. TAKE d \in p .. (Units - 1)
  <2>2. SUFFICES ASSUME IsEnd(d), d # e PROVE FALSE
    OBVIOUS
  <2>3. Units \in Nat
    BY HeapAssumption
  <2>4. d \in p .. (e - 1) \/ e \in p .. (d - 1)
    BY <2>2, <2>3
  <2>5. QED
    BY <1>1, <2>2, <2>4
<1>3. end \in p .. (Units - 1) /\ IsEnd(end)
  BY <1>1
<1>4. end = e
  BY <1>2, <1>3
<1>5. QED
  BY <1>4 DEF TextAt

\* The same with the number of characters.
LEMMA TextOfLength ==
    ASSUME NEW p \in Nat, NEW n \in Nat, p + n \in p .. (Units - 1), mem[p + n] = Nul,
           \A k \in 1 .. n : mem[p + k - 1] # Nul
    PROVE  TextAt(p) = [k \in 1 .. n |-> mem[p + k - 1]]
<1>1. PICK e \in p .. (Units - 1) : e = p + n
  OBVIOUS
<1>2. Units \in Nat /\ e - p = n /\ mem[e] = Nul
  BY <1>1, HeapAssumption
<1>3. ASSUME NEW u \in p .. (e - 1) PROVE mem[u] # Nul
  <2>1. PICK k \in 1 .. n : p + k - 1 = u
    <3>1. u - p + 1 \in 1 .. n
      BY <1>1, <1>2
    <3>2. p + (u - p + 1) - 1 = u
      BY <1>1
    <3>3. QED
      BY <3>1, <3>2
  <2>2. QED
    BY <2>1
<1>4. TextAt(p) = [k \in 1 .. (e - p) |-> mem[p + k - 1]]
  BY <1>2, <1>3, TextEnds
<1>5. QED
  BY <1>2, <1>4

\* A part of a sequence, by its elements.
LEMMA SubSeqOf ==
    ASSUME NEW S, NEW n \in Nat, NEW f \in [1 .. n -> S],
           NEW b \in 1 .. (n + 1), NEW e \in b .. (n + 1)
    PROVE  SubSeq(f, b, e - 1) = [k \in 1 .. (e - b) |-> f[b + k - 1]]
<1>1. f \in Seq(S) /\ Len(f) = n
  OBVIOUS
<1>2. SubSeq(f, b, e - 1) = [k \in 1 .. (1 + (e - 1) - b) |-> f[k + b - 1]]
  BY <1>1
<1>3. QED
  BY <1>2

\* When the command runs, the words are those of the characters in front of the zero.
LEMMA WordsAreSplit ==
    ASSUME StringTypeOK, StringInvariant, TextInvariant, Ready("run"), NEW text,
           text = [k \in 1 .. i |-> Ch(k)]
    PROVE  IsSplit(Words, text)
<1>1. pc = "run" /\ at = "run" /\ appends = <<>>
  BY DEF Ready
<1>2. /\ i \in Nat /\ str["list"].len \in Nat /\ (\A k \in 1 .. i : Ch(k) # Nul)
      /\ i < str["line"].len
  BY <1>1, SplitTypes DEF TextInvariant
<1>3. PICK ends \in [1 .. str["list"].len -> 1 .. (i + 1)] : SplitSoFar(ends)
  BY <1>1, SplitTypes DEF TextInvariant
<1> DEFINE m == str["list"].len
<1>4. WordsDone(ends) /\ Ended(ends) = CutsTo(i) \cup {i + 1}
  <2>1. EndOfWord # <<>> /\ Tail(EndOfWord) # <<>>
    BY DEF EndOfWord
  <2>2. QED
    BY <1>1, <1>3, <2>1 DEF SplitSoFar, AtNextChar, AtChar, AtZero, AtList, AtCommand, Stops
<1>5. DOMAIN text = 1 .. i /\ Len(text) = i /\ \A k \in 1 .. i : text[k] = Ch(k)
  BY <1>2
<1>6. Cuts(text) = CutsTo(i)
  <2>1. ASSUME NEW n \in 1 .. i PROVE Quoted(text, n) = OddTo(n)
    <3>1. \A k \in 1 .. n : text[k] = Ch(k)
      BY <1>2, <1>5
    <3>2. {k \in 1 .. n : text[k] = Quote} = {k \in 1 .. n : Ch(k) = Quote}
      BY <3>1
    <3>3. QED
      BY <3>2 DEF Quoted, OddTo
  <2>2. QED
    BY <1>5, <2>1 DEF Cuts, CutsTo
<1>7. DOMAIN Words = 1 .. m /\ \A n \in 1 .. m : Words[n] = TextAt(WordPtr(n))
  BY DEF Words
<1>8. \A n \in 1 .. m : Begin(ends, n) \in Nat \ {0} /\ ends[n] \in 1 .. (i + 1)
  <2>1. \A n \in 1 .. (m + 1) : Begin(ends, n) \in Nat \ {0}
    BY <1>2, BeginType
  <2>2. QED
    BY <1>2, <2>1, SMTT(30)
<1>9. ASSUME NEW n \in 1 .. m
      PROVE  Begin(ends, n) <= ends[n] /\ Words[n] = SubSeq(text, Begin(ends, n), ends[n] - 1)
  <2> PICK b, e, p : b = Begin(ends, n) /\ e = ends[n] /\ p = WordPtr(n)
    OBVIOUS
  <2>1. b \in Nat \ {0} /\ e \in 1 .. (i + 1) /\ b <= e /\ WordIs(p, b, e)
    BY <1>4, <1>8 DEF WordsDone
  <2>2. PICK r \in held : r.start = p /\ p + (e - b) \in Span(r) /\ mem[p + (e - b)] = Nul
                          /\ Holds(p, b, e - 1)
    BY <2>1 DEF WordIs
  <2>3. r \in BitRange /\ Span(r) \subseteq 0 .. (Units - 1)
    BY <1>1, HeldFacts DEF StringTypeOK, StringInvariant
  <2>4. p \in Nat /\ p + (e - b) \in p .. (Units - 1)
    BY <1>2, <2>1, <2>2, <2>3 DEF BitRange, Span
  <2>5. \A k \in 1 .. (e - b) : mem[p + k - 1] = text[b + k - 1] /\ mem[p + k - 1] # Nul
    <3>1. TAKE k \in 1 .. (e - b)
    <3>2. b + k - 1 \in b .. (e - 1) /\ b + k - 1 \in 1 .. i
      BY <1>2, <2>1, SMTT(30)
    <3>3. mem[p + ((b + k - 1) - b)] = Ch(b + k - 1)
      BY <2>2, <3>2 DEF Holds
    <3>4. p + ((b + k - 1) - b) = p + k - 1
      BY <1>2, <2>1, <2>4
    <3>5. QED
      BY <1>2, <1>5, <3>2, <3>3, <3>4
  <2>6. e - b \in Nat /\ (e - 1) - b + 1 = e - b
    BY <1>2, <2>1
  <2>7. TextAt(p) = [k \in 1 .. (e - b) |-> mem[p + k - 1]]
    BY <2>2, <2>4, <2>5, <2>6, TextOfLength
  <2>8. text \in [1 .. i -> {Ch(k) : k \in 1 .. i}]
    OBVIOUS
  <2>9. SubSeq(text, b, e - 1) = [k \in 1 .. (e - b) |-> text[b + k - 1]]
    <3>1. i \in Nat /\ b \in 1 .. (i + 1) /\ e \in b .. (i + 1)
      BY <1>2, <2>1
    <3>2. QED
      BY <2>8, <3>1, SubSeqOf, SMTT(30)
  <2>10. TextAt(p) = [k \in 1 .. (e - b) |-> text[b + k - 1]]
    BY <2>5, <2>7
  <2>11. QED
    BY <1>7, <2>1, <2>9, <2>10
<1>10. ends \in [DOMAIN Words -> Cuts(text) \cup {Len(text) + 1}]
       /\ {ends[n] : n \in DOMAIN Words} = Cuts(text) \cup {Len(text) + 1}
  BY <1>4, <1>5, <1>6, <1>7 DEF Ended
<1>11. QED
  BY <1>7, <1>9, <1>10 DEF IsSplit

-----------------------------------------------------------------------------
(* The theorems about strings *)

\* Lengths, capacities and pointers of the strings keep their types; a string is
\* never longer than its capacity, and no APPEND or memcpy leaves the heap.
THEOREM StringsKeepTypes == StringSpec => []StringTypeOK
  BY StringInvariantHolds, PTL

\* The shell frees the first word as often as there are words, and the heap survives
\* it: every further kfree finds an entry that is not in use and whose bits are 0.
THEOREM StringsKeepHeap == StringSpec => [](BlocksDisjoint /\ NothingLost /\ FreesOwnBlock)
<1>1. StringTypeOK /\ StringInvariant => BlocksDisjoint /\ NothingLost /\ FreesOwnBlock
  <2>1. SUFFICES ASSUME StringTypeOK, StringInvariant PROVE BlocksDisjoint /\ NothingLost /\ FreesOwnBlock
    OBVIOUS
  <2>2. TypeOK /\ HeapInvariant
    BY <2>1 DEF StringTypeOK, StringInvariant
  <2>3. BlocksDisjoint /\ NothingLost
    BY <2>2 DEF HeapInvariant, NothingLost
  <2>4. FreesOwnBlock
    BY <2>2, FindsOwner DEF FreesOwnBlock
  <2>5. QED
    BY <2>3, <2>4
<1>2. QED
  BY <1>1, StringInvariantHolds, PTL

\* The line, the directory, the list and its words keep their blocks while they are
\* in use, in a heap of any size and with any number of words and commands.
THEOREM StringsKeepBlocks == StringSpec => []BlocksHeld
<1>1. StringTypeOK /\ StringInvariant => BlocksHeld
  <2>1. SUFFICES ASSUME StringTypeOK, StringInvariant, pc = "run", at # "off"
                 PROVE  /\ \A x \in {"line", "dir"} \cup (IF at = "split" THEN {"curr", "list"} ELSE {}) :
                              str[x].capacity > 0 => Uses(str[x].contents, str[x].capacity * Size(x))
                        /\ Ready("run") => /\ Uses(str["list"].contents, str["list"].len * StringUnits)
                                           /\ \A n \in DOMAIN Words : Uses(WordPtr(n), Len(Words[n]) + 1)
    BY DEF BlocksHeld
  <2>2. StringsApart /\ WordsApart /\ TypeOK /\ HeapInvariant
    BY <2>1 DEF StringInvariant, StringTypeOK
  <2>3. ASSUME NEW x \in Live
        PROVE  Uses(str[x].contents, str[x].capacity * Size(x))
    <3>1. x \in Strs
      BY <2>1 DEF Live, InUse, Strs
    <3>2. BlockOf(x) \in held /\ str[x].capacity * Size(x) \in Nat
      <4>1. str[x].capacity \in Nat /\ Size(x) \in Nat
        BY <2>1, <3>1, StringTypes, SizePositive
      <4>2. QED
        BY <2>2, <4>1 DEF StringsApart
    <3>3. BlockOf(x).start = str[x].contents /\ BlockOf(x).length >= str[x].capacity * Size(x)
      BY <3>2 DEF BlockOf
    <3>4. QED
      BY <3>2, <3>3 DEF Uses
  <2>4. ASSUME NEW x \in {"line", "dir"} \cup (IF at = "split" THEN {"curr", "list"} ELSE {}),
               str[x].capacity > 0
        PROVE  Uses(str[x].contents, str[x].capacity * Size(x))
    <3>1. x \in InUse
      BY <2>1, <2>4 DEF InUse, Strs, StringTypeOK
    <3>2. QED
      BY <2>3, <2>4, <3>1 DEF Live
  <2>5. ASSUME Ready("run")
        PROVE  /\ Uses(str["list"].contents, str["list"].len * StringUnits)
               /\ \A n \in DOMAIN Words : Uses(WordPtr(n), Len(Words[n]) + 1)
    <3>1. /\ "list" \in Live /\ DOMAIN Words = WordNos /\ WordNos = 1 .. str["list"].len
          /\ str["list"].len \in Nat
      BY <2>1, <2>5, RunFacts
    <3>2. Uses(str["list"].contents, str["list"].len * StringUnits)
      <4>1. /\ str["list"].capacity \in Nat /\ str["list"].len <= str["list"].capacity
            /\ BlockOf("list") \in held
        BY <2>1, <2>2, <3>1, StringTypes DEF Live, StringTypeOK, StringsApart, Strs
      <4>2. StringUnits \in Nat /\ Size("list") = StringUnits
        BY StringsAssumption DEF Size
      <4>3. str["list"].capacity * StringUnits >= str["list"].len * StringUnits
        <5>1. CASE str["list"].len = str["list"].capacity
          <6>1. str["list"].capacity * StringUnits \in Nat
            BY <4>1, <4>2
          <6>2. QED
            BY <5>1, <6>1
        <5>2. CASE str["list"].len < str["list"].capacity
          <6>1. /\ str["list"].len * StringUnits \in Nat
                /\ str["list"].len * StringUnits + StringUnits <= str["list"].capacity * StringUnits
                /\ str["list"].capacity * StringUnits \in Nat
            BY <3>1, <4>1, <4>2, <5>2, TimesLess, SMTT(30)
          <6>2. QED
            BY <4>2, <6>1
        <5>3. QED
          BY <3>1, <4>1, <5>1, <5>2
      <4>4. /\ BlockOf("list").start = str["list"].contents
            /\ BlockOf("list").length >= str["list"].len * StringUnits
        BY <4>2, <4>3 DEF BlockOf
      <4>5. QED
        BY <4>1, <4>4 DEF Uses
    <3>3. ASSUME NEW n \in DOMAIN Words PROVE Uses(WordPtr(n), Len(Words[n]) + 1)
      <4>1. PICK r \in held : r.start = WordPtr(n) /\ EndsIn(r)
        BY <2>2, <3>1 DEF WordsApart
      <4>2. r \in BitRange /\ Span(r) \subseteq 0 .. (Units - 1) /\ r.length \in Nat
        BY <2>1, <2>2, HeldFacts DEF BitRange
      <4>3. Words[n] = TextAt(WordPtr(n))
        BY <3>1 DEF Words
      <4>4. Len(TextAt(r.start)) + 1 <= r.length
        BY <2>1, <4>1, <4>2, WordFits
      <4>5. r.length >= Len(Words[n]) + 1
        BY <4>1, <4>2, <4>3, <4>4
      <4>6. QED
        BY <4>1, <4>5 DEF Uses
    <3>4. QED
      BY <3>2, <3>3
  <2>6. QED
    BY <2>4, <2>5
<1>2. QED
  BY <1>1, StringInvariantHolds, PTL

\* Between two commands the heap holds the directory, the line and the blocks that
\* were leaked: nothing else is lost, and nothing of these was freed.
THEOREM OnlyTailsAreLeaked == StringSpec => []OnlyTailsLeak
<1>1. StringTypeOK /\ StringInvariant => OnlyTailsLeak
  <2>1. SUFFICES ASSUME StringTypeOK, StringInvariant, Ready("prompt")
                 PROVE  held = leaked \cup HeldAt({str["dir"].contents})
                               \cup (IF str["line"].capacity = 0 THEN {} ELSE HeldAt({str["line"].contents}))
    BY DEF OnlyTailsLeak
  <2>2. /\ at = "prompt" /\ leaked = {r \in held : r.start \notin Owned}
        /\ Owned = {str[x].contents : x \in Live} \cup {WordPtr(n) : n \in WordNos}
        /\ str["dir"].capacity > 0
    BY <2>1, ReadyFacts
  <2>3. WordNos = {} /\ InUse = {"line", "dir"}
    BY <2>2 DEF WordNos, InUse
  <2>4. str["line"].capacity \in Nat
    BY <2>1, StringTypes DEF Strs
  <2>5. Live = {"dir"} \cup (IF str["line"].capacity = 0 THEN {} ELSE {"line"})
    BY <2>2, <2>3, <2>4 DEF Live
  <2>6. Owned = {str["dir"].contents} \cup (IF str["line"].capacity = 0 THEN {} ELSE {str["line"].contents})
    BY <2>2, <2>3, <2>5
  <2>7. QED
    BY <2>2, <2>6 DEF HeldAt
<1>2. QED
  BY <1>1, StringInvariantHolds, PTL

\* The words that string_split leaves on the heap are those of the line, cut at every
\* space outside quotes, for lines of any length and however the heap moves curr, the
\* list and the line on the way.
THEOREM StringsSplitCorrectly == StringSpec => []SplitCorrect
<1>1. StringTypeOK /\ StringInvariant /\ TextInvariant => SplitCorrect
  <2>1. SUFFICES ASSUME StringTypeOK, StringInvariant, TextInvariant, Ready("run")
                 PROVE  IsSplit(Words, TextAt(str["line"].contents))
    BY DEF SplitCorrect
  <2> DEFINE p == str["line"].contents
             text == [k \in 1 .. i |-> Ch(k)]
  <2>2. pc = "run" /\ at = "run"
    BY <2>1 DEF Ready
  <2>3. /\ i \in Nat /\ (\A k \in 1 .. i : Ch(k) # Nul) /\ Ch(i + 1) = Nul
        /\ i < str["line"].len /\ str["line"].len \in Nat
    BY <2>1, <2>2, SplitTypes DEF TextInvariant
  <2>4. /\ p \in Nat /\ str["line"].capacity \in Nat /\ "line" \in Live /\ BlockOf("line") \in held
        /\ str["line"].len <= str["line"].capacity
    <3>1. "line" \in Live /\ "line" \in Strs /\ StringsApart
      BY <2>1, <2>2, RunFacts DEF Strs, StringInvariant
    <3>2. QED
      BY <2>1, <3>1, StringTypes DEF StringsApart, StringTypeOK, Live
  <2>5. Size("line") = 1 /\ i * 1 = i /\ i < str["line"].capacity
    BY <2>3, <2>4 DEF Size
  <2>6. p + i * Size("line") \in Span(BlockOf("line"))
    BY <2>3, <2>4, <2>5, ElementInBlock DEF BlockOf
  <2>7. Span(BlockOf("line")) \subseteq 0 .. (Units - 1)
    BY <2>1, <2>2, <2>4, HeldFacts DEF StringTypeOK, StringInvariant
  <2>8. p + i \in p .. (Units - 1)
    BY <2>3, <2>4, <2>5, <2>6, <2>7
  <2>9. mem[p + i] = Nul /\ \A k \in 1 .. i : mem[p + k - 1] # Nul
    <3>1. p + (i + 1) - 1 = p + i
      BY <2>3, <2>4
    <3>2. QED
      BY <2>3, <3>1 DEF Ch
  <2>10. TextAt(p) = [k \in 1 .. i |-> mem[p + k - 1]]
    BY <2>3, <2>4, <2>8, <2>9, TextOfLength
  <2>11. TextAt(p) = text
    BY <2>10 DEF Ch
  <2>12. QED
    BY <2>1, <2>11, WordsAreSplit
<1>2. QED
  BY <1>1, TextInvariantHolds, PTL

\* The command that runs is the line as it was typed and edited, while no redirection
\* failed since the last one: no append, move or backspace loses or adds a character.
THEOREM StringsRunWhatWasTyped == StringSpec => []RunsWhatWasTyped
<1>1. StringTypeOK /\ StringInvariant /\ TextInvariant => RunsWhatWasTyped
  <2>1. SUFFICES ASSUME StringTypeOK, StringInvariant, TextInvariant, Ready("run"), ~ stale
                 PROVE  IsSplit(Words, typed)
    BY DEF RunsWhatWasTyped
  <2>2. pc = "run" /\ at = "run" /\ appends = <<>>
    BY <2>1 DEF Ready
  <2>3. /\ i \in Nat /\ (\A k \in 1 .. i : Ch(k) # Nul) /\ Ch(i + 1) = Nul
        /\ i < str["line"].len /\ str["line"].len \in Nat
    BY <2>1, <2>2, SplitTypes DEF TextInvariant
  <2>4. /\ Len(typed) \in Nat /\ (\A k \in 1 .. Len(typed) : Ch(k) = typed[k])
        /\ str["line"].len = Len(typed) + 1
    BY <2>1, <2>2, TypedAtRest
  <2>5. typed \in Seq(Keys) /\ \A k \in 1 .. Len(typed) : typed[k] # Nul
    <3>1. typed \in Seq(Keys)
      BY <2>1 DEF StringTypeOK
    <3>2. QED
      BY <2>4, <3>1, StringsAssumption DEF Nul
  <2>6. i = Len(typed)
    <3>1. SUFFICES ASSUME i < Len(typed) PROVE FALSE
      BY <2>3, <2>4
    <3>2. i + 1 \in 1 .. Len(typed)
      BY <2>3, <2>4, <3>1
    <3>3. QED
      BY <2>3, <2>4, <2>5, <3>2
  <2>7. typed = [k \in 1 .. i |-> Ch(k)]
    BY <2>4, <2>5, <2>6
  <2>8. QED
    BY <2>1, <2>7, WordsAreSplit
<1>2. QED
  BY <1>1, TextInvariantHolds, PTL
=============================================================================
