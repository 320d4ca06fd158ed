-------------------------- MODULE FileSystemProofs --------------------------
(***************************************************************************)
(* Proofs about FileSystemSafety.  For callers of any kind: types; for     *)
(* those that write no entry of the root: the blocks that stay reserved    *)
(* (ReservedInvariant).  For disciplined ones:                             *)
(* memory, descriptors and disk stay consistent (FsInvariant), and files   *)
(* do not touch one another.                                               *)
(***************************************************************************)
EXTENDS FileSystemSafety, WellFoundedInduction, TLAPS

-----------------------------------------------------------------------------
(* The operators of Ranges *)

\* A set of numbers has a least element, and Min is it.
LEMMA MinInSet ==
    ASSUME NEW S \in SUBSET Nat, S # {}
    PROVE  Min(S) \in S /\ \A y \in S : Min(S) <= y
<1>1. PICK m \in S : \A y \in S : ~(<<y, m>> \in OpToRel(<, Nat))
  BY NatLessThanWellFounded, WFMin, Zenon
<1>2. \A y \in S : ~(y < m)
  BY <1>1, Zenon DEF OpToRel
<1>3. \A y \in S : m <= y
  BY <1>2
<1>4. QED
  BY <1>3 DEF Min

\* FirstFree, the model of alloc_bitrange for one bit, returns a free number of
\* its table.
LEMMA FirstFreeIsFree ==
    ASSUME NEW taken, NEW size \in Nat, FirstFree(taken, size) # None
    PROVE  FirstFree(taken, size) \in (0 .. (size - 1)) \ taken
<1>1. (0 .. (size - 1)) \ taken \in SUBSET Nat
  OBVIOUS
<1>2. QED
  BY <1>1, MinInSet DEF FirstFree

LEMMA MinOfTwo ==
    ASSUME NEW m \in Nat, NEW n \in Nat
    PROVE  Min({m, n}) \in Nat /\ Min({m, n}) <= m /\ Min({m, n}) <= n
  BY {m, n} \in SUBSET Nat, {m, n} # {}, MinInSet

-----------------------------------------------------------------------------
(* Looking up names *)

\* search_dir returns an inode number that an entry in use with this name holds.
LEMMA SearchDirFinds ==
    ASSUME NEW T \in [Inodes -> Inode], NEW B \in [Blocks -> [Slots -> Slot]],
           NEW d \in Inodes, NEW name, SearchDir(T, B, d, name) # None
    PROVE  \E k \in Slots : /\ k < T[d].size
                            /\ B[T[d].start][k].name = name
                            /\ B[T[d].start][k].ino = SearchDir(T, B, d, name)
<1>1. Matches(T, B, d, name) \in SUBSET Nat
  BY DEF Matches, Slots
<1>2. Matches(T, B, d, name) # {}
  BY DEF SearchDir
<1>3. Min(Matches(T, B, d, name)) \in Matches(T, B, d, name)
  BY <1>1, <1>2, MinInSet
<1>4. QED
  BY <1>2, <1>3 DEF SearchDir, Matches

\* If no entry in use has the name, search_dir finds nothing, and conversely.
LEMMA SearchDirMisses ==
    ASSUME NEW T, NEW B \in [Blocks -> [Slots -> Slot]],
           T \in [Inodes -> Inode],
           NEW d \in Inodes, NEW name, SearchDir(T, B, d, name) = None
    PROVE  \A k \in Slots : k < T[d].size => B[T[d].start][k].name # name
<1>1. SUFFICES ASSUME Matches(T, B, d, name) # {} PROVE FALSE
  BY DEF Matches
<1>2. Matches(T, B, d, name) \in SUBSET Nat
  BY DEF Matches, Slots
<1>3. Min(Matches(T, B, d, name)) \in Slots
  BY <1>1, <1>2, MinInSet DEF Matches
<1>4. T[d].start \in Blocks
  BY DEF Inode
<1>5. B[T[d].start][Min(Matches(T, B, d, name))].ino \in Nat
  BY <1>3, <1>4 DEF Slot
<1>6. QED
  BY <1>1, <1>5 DEF SearchDir, None

LEMMA SearchDirType ==
    ASSUME NEW T \in [Inodes -> Inode], NEW B \in [Blocks -> [Slots -> Slot]],
           NEW d \in Inodes, NEW name
    PROVE  SearchDir(T, B, d, name) \in Nat \cup {None}
<1>1. CASE SearchDir(T, B, d, name) = None
  BY <1>1
<1>2. CASE SearchDir(T, B, d, name) # None
  <2>1. PICK k \in Slots : B[T[d].start][k].ino = SearchDir(T, B, d, name)
    BY <1>2, SearchDirFinds
  <2>2. T[d].start \in Blocks
    BY DEF Inode
  <2>3. QED
    BY <2>1, <2>2 DEF Slot
<1>3. QED
  BY <1>1, <1>2

LEMMA SeekDirectoryType ==
    ASSUME NEW T, NEW B, NEW path
    PROVE  /\ SeekDirectory(T, B, path) \in Inodes \cup {None}
           /\ SeekDirectory(T, B, path) # None => T[SeekDirectory(T, B, path)].type = "dir"
<1> DEFINE first == IF Len(path) = 0 THEN 0 ELSE SearchDir(T, B, 0, path[1])
           second == IF Len(path) < 2 \/ first \notin Inodes THEN first
                     ELSE SearchDir(T, B, first, path[2])
<1>1. SeekDirectory(T, B, path)
        = IF second \in Inodes /\ T[second].type = "dir" THEN second ELSE None
  BY DEF SeekDirectory
<1> HIDE DEF second
<1>2. QED
  BY <1>1

-----------------------------------------------------------------------------
(* Types *)

LEMMA Constants ==
    /\ 0 \in Inodes /\ 0 \in Blocks /\ DataStart \in Blocks /\ 0 .. DataStart \in SUBSET Blocks
    /\ ZeroSlot \in Slot /\ ZeroInode \in Inode /\ RootInode \in Inode
    /\ ZeroTable \in [Inodes -> Inode] /\ ZeroFd \in FdEntry
    /\ SuperBlock \in [Slots -> Slot]
<1>1. 0 \in Inodes /\ 0 \in Blocks /\ DataStart \in Blocks /\ 0 .. DataStart \in SUBSET Blocks
  BY SizesAssumption DEF Inodes, Blocks
<1>2. QED
  BY <1>1 DEF ZeroSlot, Slot, ZeroInode, RootInode, Inode, ZeroTable, ZeroFd, FdEntry, SuperBlock,
              AllNames, SlotNames

\* AddFile keeps the types when nothing overruns.
LEMMA AddFileType ==
    ASSUME TypeOK, NEW dir, NEW name \in AllNames, NEW type \in {"dir", "normal", "special"},
           ~CreateFails(dir, name), ~CreateOverruns(dir, type, FALSE), AddFile(dir, name, type)
    PROVE  /\ ibmap' \in SUBSET Inodes /\ dbmap' \in SUBSET Blocks
           /\ itab' \in [Inodes -> Inode] /\ disk' \in [Blocks -> [Slots -> Slot]]
           /\ used' \in Nat
           /\ saved' \in Metadata
<1> DEFINE d   == SeekDirectory(itab, disk, dir)
           ino == FirstFree(ibmap, NInodes)
           blk == IF type = "special" THEN 0 ELSE FirstFree(dbmap, NBlocks)
           new == [name |-> name, type |-> type, start |-> blk, size |-> 0, parent |-> d]
           T   == [itab EXCEPT ![ino] = new]
           e   == [name |-> name, ino |-> ino]
<1>1. d \in Inodes
  BY SeekDirectoryType DEF TypeOK, CreateFails
<1>2. ino \in Inodes
  BY FirstFreeIsFree, SizesAssumption DEF CreateOverruns, Inodes
<1>3. blk \in Blocks
  BY FirstFreeIsFree, SizesAssumption, Constants DEF CreateOverruns, Blocks
<1>4. new \in Inode
  BY <1>1, <1>3 DEF Inode
<1>5. T \in [Inodes -> Inode]
  BY <1>2, <1>4 DEF TypeOK
<1>6. itab' = [T EXCEPT ![d].size = @ + 1]
  BY DEF AddFile
<1>7. itab' \in [Inodes -> Inode]
  BY <1>1, <1>5, <1>6 DEF Inode
<1>8. e \in Slot
  BY <1>2 DEF Slot, SlotNames, Inodes
<1>9. T[d].start \in Blocks
  BY <1>1, <1>5 DEF Inode
<1>10. disk' = [disk EXCEPT ![T[d].start][T[d].size] = e]
  BY DEF AddFile
<1>11. disk' \in [Blocks -> [Slots -> Slot]]
  BY <1>8, <1>9, <1>10 DEF TypeOK
<1>12. ibmap' \in SUBSET Inodes /\ dbmap' \in SUBSET Blocks /\ used' \in Nat
  BY <1>2, <1>3 DEF AddFile, TypeOK
<1>13. saved' \in Metadata
  BY DEF AddFile, SavedAfterWriting, TypeOK, Metadata
<1>14. QED
  BY <1>7, <1>11, <1>12, <1>13

LEMMA CreateFiletypeType ==
    ASSUME TypeOK, NEW dir, NEW name \in AllNames, NEW type \in {"dir", "normal", "special"},
           NEW fd \in BOOLEAN, CreateFiletype(dir, name, type, fd), pc' \in PcValues,
           call' \in Calls
    PROVE  TypeOK'
<1>1. ~CreateFails(dir, name) /\ ~CreateOverruns(dir, type, FALSE) /\ AddFile(dir, name, type)
  BY DEF CreateFiletype, CreateOverruns
<1>2. FirstFree(ibmap, NInodes) \in Inodes
  BY FirstFreeIsFree, SizesAssumption DEF CreateFiletype, CreateOverruns, Inodes
<1>3. fd => FirstFree(fdmap, NFds) \in Fds
  BY FirstFreeIsFree, SizesAssumption DEF CreateFiletype, CreateOverruns, Fds
<1>4. fdmap' \in SUBSET Fds /\ fdtab' \in [Fds -> FdEntry]
  <2>1. FirstFree(ibmap, NInodes) \in Nat
    BY <1>2 DEF Inodes
  <2>2. QED
    BY <1>3, <2>1 DEF CreateFiletype, NewFd, TypeOK, FdEntry
<1>5. dirty' = TRUE /\ UNCHANGED <<sysfd, torn, kept, crashes>>
  BY DEF CreateFiletype
<1>6. /\ ibmap' \in SUBSET Inodes /\ dbmap' \in SUBSET Blocks
      /\ itab' \in [Inodes -> Inode] /\ disk' \in [Blocks -> [Slots -> Slot]]
      /\ used' \in Nat /\ saved' \in Metadata
  BY <1>1, AddFileType
<1>7. QED
  BY <1>4, <1>5, <1>6 DEF TypeOK

\* Removing an entry keeps the types; the directory it is found in is not empty.
LEMMA RemoveFileType ==
    ASSUME TypeOK, NEW d \in Inodes, NEW ino \in Inodes, NEW outside \in Slot,
           itab[d].size > 0, RemoveFile(d, ino, outside)
    PROVE  /\ ibmap' \in SUBSET Inodes /\ dbmap' \in SUBSET Blocks
           /\ itab' \in [Inodes -> Inode] /\ disk' \in [Blocks -> [Slots -> Slot]]
           /\ saved' \in Metadata
<1> DEFINE b  == itab[d].start
           at == {k \in Slots : k < itab[d].size /\ disk[b][k].ino = ino}
<1>1. b \in Blocks
  BY DEF TypeOK, Inode
<1>2. \A k : Shifted(disk[b], k, itab[d].size, outside) \in [Slots -> Slot]
  <2>1. disk[b] \in [Slots -> Slot]
    BY <1>1 DEF TypeOK
  <2>2. \A j \in Slots : j + 1 < BlockLen => j + 1 \in Slots
    BY SizesAssumption DEF Slots
  <2>3. QED
    BY <2>1, <2>2 DEF Shifted
<1>3. disk' = [disk EXCEPT ![b] = Shifted(disk[b], Min(at), itab[d].size, outside)]
  BY <1>1 DEF RemoveFile, TypeOK
<1>4. disk' \in [Blocks -> [Slots -> Slot]]
  BY <1>1, <1>2, <1>3 DEF TypeOK
<1>5. itab' = [itab EXCEPT ![d].size = itab[d].size - 1]
  BY DEF RemoveFile, TypeOK
<1>6. itab' \in [Inodes -> Inode]
  BY <1>5 DEF TypeOK, Inode
<1>7. ibmap' \in SUBSET Inodes /\ dbmap' \in SUBSET Blocks
  BY DEF RemoveFile, TypeOK
<1>8. saved' = SavedAfterWriting(b)
  BY DEF RemoveFile
<1>9. saved' \in Metadata
  BY <1>8 DEF TypeOK, SavedAfterWriting, Metadata
<1>10. QED
  BY <1>4, <1>6, <1>7, <1>9


LEMMA TypeInit == Init => TypeOK
<1>1. SUFFICES ASSUME Init PROVE TypeOK
  OBVIOUS
<1>2. disk \in [Blocks -> [Slots -> Slot]]
  BY <1>1, Constants DEF Init
<1>3. saved \in Metadata
  BY <1>1, Constants DEF Init, Metadata
<1>4. call \in Calls /\ pc \in PcValues
  BY <1>1 DEF Init, Calls, PcValues
<1>5. fdtab \in [Fds -> FdEntry] /\ sysfd \in [SystemFiles -> Fds \cup {None}]
  BY <1>1, Constants DEF Init
<1>6. QED
  BY <1>1, <1>2, <1>3, <1>4, <1>5, Constants DEF Init, TypeOK

\* GoDown, the loss of all memory.
LEMMA GoDownType ==
    ASSUME TypeOK, GoDown, crashes' \in Nat
    PROVE  TypeOK'
<1>1. /\ ibmap' = {} /\ dbmap' = {} /\ itab' = ZeroTable /\ used' = 0
      /\ fdmap' = {} /\ fdtab' = [f \in Fds |-> ZeroFd]
      /\ sysfd' = [f \in SystemFiles |-> None]
  BY DEF GoDown, ClearMemory
<1>2. pc' \in PcValues /\ torn' \in BOOLEAN /\ dirty' \in BOOLEAN
  BY DEF GoDown, PcValues, TypeOK
<1>3. UNCHANGED <<disk, saved, call, kept>>
  BY DEF GoDown
<1>4. QED
  BY <1>1, <1>2, <1>3, Constants DEF TypeOK

\* A call that would leave the tables stops the model as it is.
LEMMA OverrunType ==
    ASSUME TypeOK, Overrun
    PROVE  TypeOK'
<1>1. pc' \in PcValues
  BY DEF Overrun, PcValues
<1>2. QED
  BY <1>1 DEF Overrun, TypeOK, mem, fds, ghost

LEMMA PowerType ==
    ASSUME TypeOK, Power
    PROVE  TypeOK'
<1>1. CASE Crash
  BY <1>1, GoDownType DEF Crash, TypeOK
<1>2. CASE BootRecognized
  BY <1>2 DEF BootRecognized, TypeOK, Metadata, fds, PcValues, BootSteps
<1>3. CASE BootBlank
  BY <1>3 DEF BootBlank, TypeOK, mem, fds, PcValues, FormatSteps
<1>4. CASE FormatSuper
  BY <1>4, Constants DEF FormatSuper, TypeOK, Metadata, fds, ghost, PcValues, FormatSteps
<1>5. CASE FormatIbmap
  BY <1>5, Constants DEF FormatIbmap, TypeOK, Metadata, fds, ghost, PcValues, FormatSteps
<1>6. CASE FormatDbmap
  BY <1>6 DEF FormatDbmap, TypeOK, Metadata, mem, fds, ghost, PcValues, FormatSteps
<1>7. CASE FormatItab
  <2>1. itab' \in [Inodes -> Inode]
    BY <1>7, Constants DEF FormatItab, TypeOK
  <2>2. QED
    BY <1>7, <2>1 DEF FormatItab, TypeOK, Metadata, fds, ghost, PcValues, BootSteps
<1>8. CASE FormatRoot
  <2>1. CASE GoDown /\ UNCHANGED crashes
    BY <2>1, GoDownType DEF TypeOK
  <2>2. CASE pc' = "mk_dev" /\ UNCHANGED <<mem, fds, disk, saved, call, ghost, crashes>>
    BY <2>2 DEF TypeOK, mem, fds, ghost, PcValues, BootSteps
  <2>3. QED
    BY <1>8, <2>1, <2>2 DEF FormatRoot
<1>9. CASE CreateSystemFile
  <2> DEFINE dir  == IF pc = "mk_dev" THEN << >> ELSE <<"dev">>
             name == CASE pc = "mk_dev" -> "dev" [] pc = "mk_tty" -> "tty"
                       [] pc = "mk_ttyS" -> "ttyS"
             type == IF pc = "mk_dev" THEN "dir" ELSE "special"
  <2>1. CASE UNCHANGED <<mem, fds, disk, saved, call, ghost, crashes>>
    <3>1. pc \in {"mk_dev", "mk_tty", "mk_ttyS"}
      BY <1>9 DEF CreateSystemFile, NextMake
    <3>2. pc' \in {"panic", "overrun", "mk_tty", NextMake[pc]}
      BY <1>9 DEF CreateSystemFile, Overrun
    <3>3. pc' \in PcValues
      BY <3>1, <3>2 DEF PcValues, BootSteps, NextMake
    <3>4. QED
      BY <2>1, <3>3 DEF TypeOK, mem, fds, ghost
  <2>2. CASE CreateFiletype(dir, name, type, FALSE) /\ pc' = NextMake[pc] /\ UNCHANGED call
    <3>1. pc \in {"mk_dev", "mk_tty", "mk_ttyS"}
      BY <1>9 DEF CreateSystemFile, NextMake
    <3>2. name \in AllNames /\ type \in {"dir", "normal", "special"}
      BY <3>1 DEF AllNames, SystemFiles
    <3>3. pc' \in PcValues
      BY <2>2, <3>1 DEF PcValues, BootSteps, NextMake
    <3>4. call' \in Calls
      BY <2>2 DEF TypeOK
    <3>5. QED
      BY <2>2, <3>2, <3>3, <3>4, CreateFiletypeType
  <2>3. QED
    BY <1>9, <2>1, <2>2 DEF CreateSystemFile, Overrun
<1>10. CASE OpenSystemFile
  <2> DEFINE d    == SeekDirectory(itab, disk, <<"dev">>)
             name == IF pc = "open_tty" THEN "tty" ELSE "ttyS"
             ino  == SearchDir(itab, disk, d, name)
             fd   == FirstFree(fdmap, NFds)
  <2>1. CASE UNCHANGED <<mem, fds, disk, saved, call, ghost, crashes>>
    <3>1. pc' \in PcValues
      BY <1>10 DEF OpenSystemFile, PcValues, BootSteps, NextOpen, Overrun, LookupStrays
    <3>2. QED
      BY <2>1, <3>1 DEF TypeOK, mem, fds, ghost
  <2>2. CASE /\ d # None /\ ino # None /\ fd # None
             /\ NewFd(fd, ino) /\ sysfd' = [sysfd EXCEPT ![name] = fd] /\ pc' = NextOpen[pc]
             /\ UNCHANGED <<mem, disk, saved, call, ghost, crashes>>
    <3>1. d \in Inodes
      BY <2>2, SeekDirectoryType
    <3>2. ino \in Nat
      BY <2>2, <3>1, SearchDirType DEF TypeOK
    <3>3. fd \in Fds
      BY <2>2, FirstFreeIsFree, SizesAssumption DEF Fds
    <3>4. fdmap' \in SUBSET Fds /\ fdtab' \in [Fds -> FdEntry]
      BY <2>2, <3>2, <3>3 DEF NewFd, TypeOK, FdEntry
    <3>5. sysfd' \in [SystemFiles -> Fds \cup {None}]
      BY <2>2, <3>3 DEF TypeOK, SystemFiles
    <3>6. pc' \in PcValues
      BY <1>10, <2>2 DEF OpenSystemFile, PcValues, BootSteps, NextOpen
    <3>7. QED
      BY <2>2, <3>4, <3>5, <3>6 DEF TypeOK, mem, ghost
  <2>3. QED
    BY <1>10, <2>1, <2>2 DEF OpenSystemFile, Overrun, LookupStrays
<1>11. CASE Shutdown
  BY <1>11 DEF Shutdown, TypeOK, mem, ghost, PcValues, ShutdownSteps
<1>12. CASE SyncSuper
  BY <1>12, Constants DEF SyncSuper, TypeOK, Metadata, mem, fds, ghost, PcValues, ShutdownSteps
<1>13. CASE SyncIbmap
  BY <1>13 DEF SyncIbmap, TypeOK, Metadata, mem, fds, ghost, PcValues, ShutdownSteps
<1>14. CASE SyncDbmap
  BY <1>14 DEF SyncDbmap, TypeOK, Metadata, mem, fds, ghost, PcValues, ShutdownSteps
<1>15. CASE SyncItab
  <2>1. Entries(ibmap, itab, disk) \in SUBSET DirEntries
    <3>1. \A x \in ibmap \X Slots :
            /\ x[1] \in Inodes
            /\ itab[x[1]].start \in Blocks
      BY DEF TypeOK, Inode
    <3>2. \A b \in Blocks, k \in Slots : disk[b][k] \in Slot
      BY DEF TypeOK
    <3>3. \A i \in Inodes : itab[i].start \in Blocks
      BY DEF TypeOK, Inode
    <3>4. ASSUME NEW x \in ibmap \X Slots, disk[itab[x[1]].start][x[2]].ino \in Inodes
          PROVE  [dir   |-> x[1],
                  name  |-> disk[itab[x[1]].start][x[2]].name,
                  ino   |-> disk[itab[x[1]].start][x[2]].ino,
                  start |-> itab[disk[itab[x[1]].start][x[2]].ino].start] \in DirEntries
      <4>1. disk[itab[x[1]].start][x[2]] \in Slot
        BY <3>1, <3>2
      <4>2. QED
        BY <3>1, <3>3, <3>4, <4>1 DEF DirEntries, Slot
    <3>5. QED
      BY <3>4 DEF Entries
  <2>2. kept' \in SUBSET DirEntries
    BY <1>15, <2>1 DEF SyncItab
  <2>3. saved' \in Metadata
    BY <1>15 DEF SyncItab, TypeOK, Metadata
  <2>4. /\ ibmap' = {} /\ dbmap' = {} /\ itab' = ZeroTable /\ used' = 0
        /\ fdmap' = {} /\ fdtab' = [f \in Fds |-> ZeroFd]
        /\ sysfd' = [f \in SystemFiles |-> None]
    BY <1>15 DEF SyncItab, ClearMemory
  <2>5. pc' = "off" /\ dirty' = FALSE /\ UNCHANGED <<disk, call, torn, crashes>>
    BY <1>15 DEF SyncItab
  <2>6. QED
    BY <2>2, <2>3, <2>4, <2>5, Constants DEF TypeOK, PcValues
<1>16. QED
  BY <1>1, <1>2, <1>3, <1>4, <1>5, <1>6, <1>7, <1>8, <1>9, <1>10, <1>11, <1>12, <1>13,
     <1>14, <1>15 DEF Power

LEMMA OpenType ==
    ASSUME TypeOK, NEW dir, NEW name, Open(dir, name)
    PROVE  TypeOK'
<1> DEFINE d   == SeekDirectory(itab, disk, dir)
           ino == SearchDir(itab, disk, d, name)
           fd  == FirstFree(fdmap, NFds)
<1>1. CASE \/ d = None /\ UntracedDir("open")
           \/ Overrun
           \/ /\ call' = [op |-> "open", ret |-> None]
              /\ UNCHANGED <<pc, mem, fds, disk, saved, ghost, crashes>>
  <2>1. pc' \in PcValues /\ call' \in Calls
    BY <1>1 DEF UntracedDir, Overrun, TypeOK, PcValues, Calls, None
  <2>2. UNCHANGED <<mem, fds, disk, saved, ghost, crashes>>
    BY <1>1 DEF UntracedDir, Overrun
  <2>3. QED
    BY <2>1, <2>2 DEF TypeOK, mem, fds, ghost
<1>2. CASE /\ d # None /\ ino # None /\ fd # None
           /\ NewFd(fd, ino) /\ call' = [op |-> "open", ret |-> fd]
           /\ UNCHANGED <<pc, mem, sysfd, disk, saved, ghost, crashes>>
  <2>1. d \in Inodes
    BY <1>2, SeekDirectoryType DEF TypeOK
  <2>2. ino \in Nat
    BY <1>2, <2>1, SearchDirType DEF TypeOK
  <2>3. fd \in Fds /\ fd \in Int
    BY <1>2, FirstFreeIsFree, SizesAssumption DEF Fds
  <2>4. fdmap' \in SUBSET Fds /\ fdtab' \in [Fds -> FdEntry]
    BY <1>2, <2>2, <2>3 DEF NewFd, TypeOK, FdEntry
  <2>5. call' \in Calls
    BY <1>2, <2>3 DEF Calls
  <2>6. QED
    BY <1>2, <2>4, <2>5 DEF TypeOK, mem, ghost
<1>3. QED
  BY <1>1, <1>2 DEF Open, LookupStrays

LEMMA ReadType ==
    ASSUME TypeOK, NEW fd \in Fds, NEW count \in Counts, Read(fd, count)
    PROVE  TypeOK'
<1> DEFINE inode == itab[fdtab[fd].ino]
           pos   == fdtab[fd].rpos
           n     == IF pos < inode.size THEN Min({count, inode.size - pos}) ELSE 0
<1>0. SUFFICES ASSUME fdtab[fd].ino \in Inodes PROVE TypeOK'
  BY OverrunType DEF Read
<1>1. pos \in Nat /\ inode.size \in Nat /\ count \in Nat
  BY <1>0, SizesAssumption DEF TypeOK, FdEntry, Inode
<1>2. n \in Nat
  <2>1. pos < inode.size => inode.size - pos \in Nat
    BY <1>1
  <2>2. QED
    BY <1>1, <2>1, MinOfTwo
<1>3. CASE SpecialIO("read", count)
  <2>1. call' \in Calls
    BY <1>1, <1>3 DEF SpecialIO, Calls
  <2>2. QED
    BY <1>3, <2>1 DEF SpecialIO, TypeOK, mem, fds, ghost
<1>4. CASE /\ fdtab' = [fdtab EXCEPT ![fd].rpos = @ + n]
           /\ call' = [op |-> "read", ret |-> n]
           /\ UNCHANGED <<pc, mem, fdmap, sysfd, disk, saved, ghost, crashes>>
  <2>1. fdtab' \in [Fds -> FdEntry]
    BY <1>1, <1>2, <1>4 DEF TypeOK, FdEntry
  <2>2. call' \in Calls
    BY <1>2, <1>4 DEF Calls
  <2>3. QED
    BY <1>4, <2>1, <2>2 DEF TypeOK, mem, ghost
<1>5. QED
  BY <1>0, <1>3, <1>4 DEF Read

LEMMA WriteType ==
    ASSUME TypeOK, NEW fd \in Fds, NEW count \in Counts, NEW v \in Data, Write(fd, count, v)
    PROVE  TypeOK'
<1> DEFINE ino   == fdtab[fd].ino
           inode == itab[ino]
           pos   == fdtab[fd].wpos
           n     == IF pos < BlockLen THEN Min({count, BlockLen - pos}) ELSE 0
<1>0. SUFFICES ASSUME ino \in Inodes PROVE TypeOK'
  BY OverrunType DEF Write
<1>1. pos \in Nat /\ ino \in Inodes /\ inode \in Inode /\ count \in Nat /\ inode.start \in Blocks
  BY <1>0, SizesAssumption DEF TypeOK, FdEntry, Inode
<1>2. n \in Nat
  <2>1. pos < BlockLen => BlockLen - pos \in Nat
    BY <1>1, SizesAssumption
  <2>2. QED
    BY <1>1, <2>1, MinOfTwo
<1>3. CASE SpecialIO("write", count)
  <2>1. call' \in Calls
    BY <1>1, <1>3 DEF SpecialIO, Calls
  <2>2. QED
    BY <1>3, <2>1 DEF SpecialIO, TypeOK, mem, fds, ghost
<1>4. CASE inode.type # "special"
  <2>1. /\ fdtab' = [fdtab EXCEPT ![fd].wpos = @ + n]
        /\ itab' = [itab EXCEPT ![ino].size = @ + n]
        /\ disk' = [disk EXCEPT ![inode.start] =
                      [k \in Slots |-> IF pos <= k /\ k < pos + n THEN v ELSE @[k]]]
        /\ saved' = SavedAfterWriting(inode.start)
        /\ call' = [op |-> "write", ret |-> n]
        /\ UNCHANGED <<pc, ibmap, dbmap, used, fdmap, sysfd, ghost, crashes>>
    BY <1>0, <1>4 DEF Write
  <2>2. fdtab' \in [Fds -> FdEntry]
    <3>1. fdtab[fd] \in FdEntry /\ fdtab[fd].wpos + n \in Nat
      BY <1>1, <1>2 DEF TypeOK
    <3>2. [fdtab[fd] EXCEPT !.wpos = fdtab[fd].wpos + n] \in FdEntry
      BY <3>1 DEF FdEntry
    <3>3. fdtab' = [fdtab EXCEPT ![fd] = [fdtab[fd] EXCEPT !.wpos = fdtab[fd].wpos + n]]
      BY <2>1 DEF TypeOK
    <3>4. QED
      BY <3>2, <3>3 DEF TypeOK
  <2>3. itab' \in [Inodes -> Inode]
    <3>1. inode.size \in Nat /\ inode.size + n \in Nat
      BY <1>1, <1>2 DEF Inode
    <3>2. [inode EXCEPT !.size = inode.size + n] \in Inode
      BY <1>1, <3>1 DEF Inode
    <3>3. itab' = [itab EXCEPT ![ino] = [inode EXCEPT !.size = inode.size + n]]
      BY <1>1, <2>1 DEF TypeOK
    <3>4. QED
      BY <3>2, <3>3 DEF TypeOK
  <2>4. v \in Slot
    BY SlotsAssumption
  <2>5. disk' \in [Blocks -> [Slots -> Slot]]
    BY <1>1, <2>1, <2>4 DEF TypeOK
  <2>6. saved' \in Metadata
    BY <2>1 DEF SavedAfterWriting, TypeOK, Metadata
  <2>7. call' \in Calls
    BY <1>2, <2>1 DEF Calls
  <2>8. QED
    BY <2>1, <2>2, <2>3, <2>5, <2>6, <2>7 DEF TypeOK, ghost
<1>5. QED
  BY <1>0, <1>3, <1>4 DEF Write

LEMMA SeekType ==
    ASSUME TypeOK, NEW fd \in Fds, NEW offset \in Offsets,
           NEW param \in {"SEEK_SET", "SEEK_CUR", "SEEK_END"}, Seek(fd, offset, param)
    PROVE  TypeOK'
<1> DEFINE e     == fdtab[fd]
           end   == (itab[e.ino].size - offset) % SizeMod
           moved == CASE param = "SEEK_SET" -> [e EXCEPT !.rpos = offset % PosMod,
                                                         !.wpos = offset % PosMod]
                      [] param = "SEEK_CUR" -> [e EXCEPT !.rpos = (@ + offset) % PosMod,
                                                         !.wpos = (@ + offset) % PosMod]
                      [] param = "SEEK_END" -> [e EXCEPT !.rpos = end, !.wpos = end]
<1>0. SUFFICES ASSUME param = "SEEK_END" /\ fd \in fdmap => e.ino \in Inodes PROVE TypeOK'
  BY OverrunType DEF Seek
<1>1. e \in FdEntry /\ offset \in Int
  BY SizesAssumption DEF TypeOK
<1>2. \A z \in Int : z % SizeMod \in Nat /\ z % PosMod \in Nat
  BY SizesAssumption
<1>3. fd \in fdmap => moved \in FdEntry
  <2>1. /\ offset % PosMod \in Nat /\ (e.rpos + offset) % PosMod \in Nat
        /\ (e.wpos + offset) % PosMod \in Nat
    BY <1>1, <1>2 DEF FdEntry
  <2>2. CASE param = "SEEK_SET"
    BY <1>1, <2>1, <2>2 DEF FdEntry
  <2>3. CASE param = "SEEK_CUR"
    BY <1>1, <2>1, <2>3 DEF FdEntry
  <2>4. CASE param = "SEEK_END" /\ fd \in fdmap
    <3>1. itab[e.ino].size \in Nat
      BY <1>0, <2>4 DEF TypeOK, Inode
    <3>2. end \in Nat
      BY <1>1, <1>2, <3>1
    <3>3. QED
      BY <1>1, <2>4, <3>2 DEF FdEntry
  <2>5. QED
    BY <2>2, <2>3, <2>4
<1>4. moved \in FdEntry => Int32(moved.rpos) \in Int
  <2>1. \A r \in FdEntry : r.rpos \in Int
    BY DEF FdEntry
  <2> HIDE DEF moved
  <2>2. ASSUME moved \in FdEntry PROVE moved.rpos % SizeMod \in Int
    BY <1>2, <2>1, <2>2
  <2>3. QED
    BY <2>2, SizesAssumption DEF Int32
<1>5. CASE fd \in fdmap
  <2>1. /\ fdtab' = [fdtab EXCEPT ![fd] = moved]
        /\ call' = [op |-> "seek", ret |-> Int32(moved.rpos)]
        /\ UNCHANGED <<pc, mem, fdmap, sysfd, disk, saved, ghost, crashes>>
    BY <1>0, <1>5 DEF Seek
  <2> HIDE DEF moved
  <2>2. fdtab' \in [Fds -> FdEntry] /\ call' \in Calls
    BY <1>3, <1>4, <1>5, <2>1 DEF TypeOK, Calls
  <2>3. QED
    BY <2>1, <2>2 DEF TypeOK, mem, ghost
<1>6. CASE fd \notin fdmap
  <2>1. /\ call' = [op |-> "seek", ret |-> None]
        /\ UNCHANGED <<pc, mem, fds, disk, saved, ghost, crashes>>
    BY <1>6 DEF Seek
  <2>2. call' \in Calls
    BY <2>1 DEF Calls, None
  <2>3. QED
    BY <2>1, <2>2 DEF TypeOK, mem, fds, ghost
<1>7. QED
  BY <1>5, <1>6

LEMMA UnlinkType ==
    ASSUME TypeOK, NEW dir, NEW name, Unlink(dir, name)
    PROVE  TypeOK'
<1> DEFINE d   == SeekDirectory(itab, disk, dir)
           ino == SearchDir(itab, disk, d, name)
<1>1. CASE UNCHANGED <<mem, fds, disk, saved, ghost, crashes>>
  <2>1. pc' \in PcValues /\ call' \in Calls
    BY DEF Unlink, UntracedDir, LookupStrays, Overrun, TypeOK, PcValues, Calls, None
  <2>2. QED
    BY <1>1, <2>1 DEF TypeOK, mem, fds, ghost
<1>2. CASE /\ d # None /\ ino \in Inodes
           /\ \E outside \in IF itab[d].size = BlockLen THEN Outside ELSE {ZeroSlot} :
                 RemoveFile(d, ino, outside)
           /\ call' = [op |-> "unlink", ret |-> 0] /\ dirty' = TRUE
           /\ kept' = {e \in kept : e.ino # ino /\ e.dir # ino}
           /\ UNCHANGED <<pc, used, fds, torn, crashes>>
  <2>1. d \in Inodes
    BY <1>2, SeekDirectoryType DEF TypeOK
  <2>2. ino \in Inodes /\ ino # None
    BY <1>2 DEF Inodes, None
  <2>3. itab[d].size > 0
    <3>1. PICK k \in Slots : k < itab[d].size
      BY <2>1, <2>2, SearchDirFinds DEF TypeOK
    <3>2. itab[d].size \in Nat
      BY <2>1 DEF TypeOK, Inode
    <3>3. QED
      BY <3>1, <3>2 DEF Slots
  <2>4. PICK outside \in Slot : RemoveFile(d, ino, outside)
    BY <1>2, SlotsAssumption, Constants
  <2>5. /\ ibmap' \in SUBSET Inodes /\ dbmap' \in SUBSET Blocks
        /\ itab' \in [Inodes -> Inode] /\ disk' \in [Blocks -> [Slots -> Slot]]
        /\ saved' \in Metadata
    BY <2>1, <2>2, <2>3, <2>4, RemoveFileType
  <2>6. kept' \in SUBSET DirEntries /\ call' \in Calls
    BY <1>2 DEF TypeOK, Calls
  <2>7. QED
    BY <1>2, <2>5, <2>6 DEF TypeOK, fds
<1>3. QED
  BY <1>1, <1>2 DEF Unlink, UntracedDir, LookupStrays, Overrun

LEMMA CreateType ==
    ASSUME TypeOK, NEW dir, NEW name \in Names, NEW type \in {"dir", "normal", "special"},
           NEW fd \in BOOLEAN, Create(dir, name, type, fd)
    PROVE  TypeOK'
<1>1. name \in AllNames
  BY DEF AllNames
<1>2. CASE \/ Overrun
           \/ /\ call' = [op |-> "create", ret |-> None]
              /\ UNCHANGED <<pc, mem, fds, disk, saved, ghost, crashes>>
  <2>1. pc' \in PcValues /\ call' \in Calls
    BY <1>2 DEF Overrun, TypeOK, PcValues, Calls, None
  <2>2. UNCHANGED <<mem, fds, disk, saved, ghost, crashes>>
    BY <1>2 DEF Overrun
  <2>3. QED
    BY <2>1, <2>2 DEF TypeOK, mem, fds, ghost
<1>3. CASE /\ CreateFiletype(dir, name, type, fd)
           /\ call' = [op |-> "create", ret |-> IF fd THEN FirstFree(fdmap, NFds) ELSE 0]
           /\ UNCHANGED pc
  <2>1. fd => FirstFree(fdmap, NFds) \in Fds
    BY <1>3, FirstFreeIsFree, SizesAssumption DEF CreateFiletype, CreateOverruns, Fds
  <2>2. (IF fd THEN FirstFree(fdmap, NFds) ELSE 0) \in Int
    <3>1. Fds \subseteq Int
      BY DEF Fds
    <3>2. CASE fd
      BY <2>1, <3>1, <3>2
    <3>3. CASE ~fd
      BY <3>3
    <3>4. QED
      BY <3>2, <3>3
  <2>3. call' \in Calls
    BY <1>3, <2>2 DEF Calls
  <2>4. pc' \in PcValues
    BY <1>3 DEF TypeOK
  <2>5. QED
    BY <1>1, <1>3, <2>3, <2>4, CreateFiletypeType
<1>4. QED
  BY <1>2, <1>3 DEF Create, LookupStrays

LEMMA TypeStep ==
    ASSUME TypeOK, [Next]_vars
    PROVE  TypeOK'
<1>1. CASE Power
  BY <1>1, PowerType
<1>2. CASE \E dir \in DirPaths, name \in Names : CreateAny(dir, name)
  BY <1>2, CreateType DEF CreateAny
<1>3. CASE \E dir \in DirPaths, name \in UnlinkNames : Open(dir, name) \/ Unlink(dir, name)
  BY <1>3, OpenType, UnlinkType
<1>4. CASE \E dir \in DirPaths : ListDir(dir)
  <2>1. PICK dir \in DirPaths : ListDir(dir)
    BY <1>4
  <2> DEFINE d == SeekDirectory(itab, disk, dir)
  <2>2. d \in Inodes \cup {None}
    BY SeekDirectoryType DEF TypeOK
  <2>3. (IF d = None THEN None ELSE itab[d].size) \in Int
    BY <2>2 DEF TypeOK, Inode, None
  <2>4. CASE Overrun
    BY <2>4, OverrunType
  <2>5. CASE ~Overrun
    <3>1. call' \in Calls
      BY <2>1, <2>3, <2>5 DEF ListDir, Calls
    <3>2. QED
      BY <2>1, <2>5, <3>1 DEF ListDir, TypeOK, mem, fds, ghost
  <2>6. QED
    BY <2>4, <2>5
<1>5. CASE \E fd \in Fds : Close(fd)
  <2>1. call' \in Calls
    BY <1>5 DEF Close, Calls
  <2>2. QED
    BY <1>5, <2>1 DEF Close, TypeOK, mem, ghost
<1>6. CASE \E fd \in Fds, count \in Counts : Read(fd, count)
  BY <1>6, ReadType
<1>7. CASE \E fd \in Fds, count \in Counts, v \in Data : Write(fd, count, v)
  BY <1>7, WriteType
<1>8. CASE \E fd \in Fds, offset \in Offsets,
              param \in {"SEEK_SET", "SEEK_CUR", "SEEK_END"} : Seek(fd, offset, param)
  BY <1>8, SeekType
<1>9. CASE UNCHANGED vars
  BY <1>9 DEF vars, mem, fds, ghost, TypeOK
<1>10. QED
  BY <1>1, <1>2, <1>3, <1>4, <1>5, <1>6, <1>7, <1>8, <1>9 DEF Next

\* Whatever calls arrive in whatever order and whatever they write, with every
\* power loss, the tables of fs.c hold values of their range: bits stay within the
\* bitmaps, the starting blocks and the parents of inodes on the disk and in the
\* inode table, and no unsigned size or position goes below 0.  The inode number
\* of a directory entry may be any number, because write lets a caller put it
\* there, and so may that of a descriptor, because open does not look at it: the
\* model stops where such a number is used.
THEOREM TypeCorrect == Spec => []TypeOK
<1>1. Init => TypeOK
  BY TypeInit
<1>2. TypeOK /\ [Next]_vars => TypeOK'
  BY TypeStep
<1>3. QED
  BY <1>1, <1>2, PTL DEF Spec

\* A disciplined call is a call.
LEMMA PoliteIsNext ==
    ASSUME TypeOK, [PoliteNext]_vars
    PROVE  [Next]_vars
<1>1. fdmap \in SUBSET Fds
  BY DEF TypeOK
<1>2. CASE Power
  BY <1>2 DEF Next
<1>3. CASE PoliteCall
  BY <1>1, <1>3 DEF PoliteCall, Next
<1>4. CASE UNCHANGED vars
  BY <1>4
<1>5. QED
  BY <1>2, <1>3, <1>4 DEF PoliteNext

-----------------------------------------------------------------------------
(* Consistent tables: lookups, AddFile and RemoveFile *)

\* What a lookup in a directory finds was linked there.
LEMMA FoundEntry ==
    ASSUME TypeOK, FsOK(ibmap, dbmap, itab, disk), NEW d \in Dirs(ibmap, itab), NEW name,
           SearchDir(itab, disk, d, name) # None
    PROVE  LET ino == SearchDir(itab, disk, d, name)
           IN  ino \in ibmap \ {0, d} /\ itab[ino].name = name /\ itab[ino].parent = d
<1>1. d \in Inodes
  BY DEF Dirs, TypeOK
<1>2. PICK k \in Slots : /\ k < itab[d].size
                         /\ disk[itab[d].start][k].name = name
                         /\ disk[itab[d].start][k].ino = SearchDir(itab, disk, d, name)
  BY <1>1, SearchDirFinds DEF TypeOK
<1>3. EntryOK(ibmap, itab, d, disk[itab[d].start][k])
  BY <1>2 DEF FsOK, EntriesOK
<1>4. QED
  BY <1>2, <1>3 DEF EntryOK

\* A path that is traced through directories ends at an allocated directory.
LEMMA TracedIsDir ==
    ASSUME TypeOK, FsOK(ibmap, dbmap, itab, disk), NEW path, Traced(path),
           SeekDirectory(itab, disk, path) # None, Len(path) \in Nat
    PROVE  SeekDirectory(itab, disk, path) \in Dirs(ibmap, itab)
<1> DEFINE first == IF Len(path) = 0 THEN 0 ELSE SearchDir(itab, disk, 0, path[1])
           second == IF Len(path) < 2 \/ first \notin Inodes THEN first
                     ELSE SearchDir(itab, disk, first, path[2])
<1>1. SeekDirectory(itab, disk, path) = second /\ second # None /\ itab[second].type = "dir"
  <2>1. SeekDirectory(itab, disk, path)
          = IF second \in Inodes /\ itab[second].type = "dir" THEN second ELSE None
    BY DEF SeekDirectory
  <2> HIDE DEF second
  <2>2. QED
    BY <2>1
<1>2. 0 \in Dirs(ibmap, itab)
  BY DEF FsOK, RootOK, Dirs
<1>3. first # None => first \in ibmap /\ first \in Inodes
  BY <1>2, FoundEntry DEF Dirs, TypeOK
<1>4. CASE Len(path) < 2
  BY <1>1, <1>3, <1>4 DEF Dirs
<1>5. CASE ~(Len(path) < 2)
  <2>1. first = SearchDir(itab, disk, 0, path[1]) /\ first # None
    BY <1>1, <1>5 DEF Inodes, None
  <2>2. itab[first].type = "dir"
    BY <1>3, <1>5, <2>1 DEF Traced
  <2>3. first \in Dirs(ibmap, itab)
    BY <1>3, <2>1, <2>2 DEF Dirs
  <2>4. second = SearchDir(itab, disk, first, path[2])
    BY <1>3, <1>5, <2>1
  <2>5. second \in ibmap
    BY <1>1, <2>3, <2>4, FoundEntry
  <2>6. QED
    BY <1>1, <2>5 DEF Dirs
<1>6. QED
  BY <1>4, <1>5

LEMMA PathLength == \A path \in DirPaths : Len(path) \in Nat
<1>1. TAKE path \in DirPaths
<1>2. PICK n \in 0 .. 2 : path \in [1 .. n -> Names \cup {"dev"}]
  BY <1>1, PathsAssumption
<1>3. path \in Seq(Names \cup {"dev"})
  BY <1>2
<1>4. QED
  BY <1>3

\* What allocate_inode and link_file_in_dir change: the free inode ino, the block
\* blk and the slot behind the last entry of directory d.
Added(d, ino, blk, name, type) ==
    LET b == itab[d].start
        n == itab[d].size
    IN  /\ ino \in Inodes /\ ino \notin ibmap /\ ino # d /\ ino # 0
        /\ type # "special" => blk \in Blocks /\ blk \notin dbmap
        /\ b \in Blocks /\ n \in Nat /\ n < BlockLen /\ n \in Slots
        /\ ibmap' = ibmap \cup {ino}
        /\ dbmap' = IF type = "special" THEN dbmap ELSE dbmap \cup {blk}
        /\ itab'[ino] = [name |-> name, type |-> type, start |-> blk, size |-> 0, parent |-> d]
        /\ itab'[d].size = n + 1
        /\ \A i \in ibmap : /\ itab'[i].name = itab[i].name /\ itab'[i].type = itab[i].type
                            /\ itab'[i].start = itab[i].start /\ itab'[i].parent = itab[i].parent
                            /\ i # d => itab'[i] = itab[i]
        /\ disk'[b][n] = [name |-> name, ino |-> ino]
        /\ \A k \in Slots : k # n => disk'[b][k] = disk[b][k]
        /\ \A c \in Blocks : c # b => disk'[c] = disk[c]
        /\ saved' = saved

\* A free inode and a free slot of the directory are filled, and nothing else.
LEMMA AddFileEffect ==
    ASSUME TypeOK, FsOK(ibmap, dbmap, itab, disk), NEW dir, NEW name \in AllNames,
           NEW type \in {"dir", "normal", "special"},
           SeekDirectory(itab, disk, dir) \in Dirs(ibmap, itab),
           ~CreateOverruns(dir, type, FALSE), AddFile(dir, name, type)
    PROVE  Added(SeekDirectory(itab, disk, dir), FirstFree(ibmap, NInodes),
                 IF type = "special" THEN 0 ELSE FirstFree(dbmap, NBlocks), name, type)
<1> DEFINE d   == SeekDirectory(itab, disk, dir)
           ino == FirstFree(ibmap, NInodes)
           blk == IF type = "special" THEN 0 ELSE FirstFree(dbmap, NBlocks)
           new == [name |-> name, type |-> type, start |-> blk, size |-> 0, parent |-> d]
           T   == [itab EXCEPT ![ino] = new]
           e   == [name |-> name, ino |-> ino]
           b   == itab[d].start
           n   == itab[d].size
<1>1. /\ d \in ibmap /\ d \in Inodes /\ itab[d].type = "dir"
      /\ itab \in [Inodes -> Inode] /\ disk \in [Blocks -> [Slots -> Slot]]
      /\ ibmap \in SUBSET Inodes /\ dbmap \in SUBSET Blocks
  BY DEF Dirs, TypeOK
<1>2. ino \in Inodes /\ ino \notin ibmap
  BY FirstFreeIsFree, SizesAssumption DEF CreateOverruns, Inodes
<1>3. ino # d /\ ino # 0
  BY <1>1, <1>2 DEF FsOK, RootOK
<1>4. type # "special" => blk \in Blocks /\ blk \notin dbmap
  BY FirstFreeIsFree, SizesAssumption DEF CreateOverruns, Blocks
<1>5. b \in Blocks /\ n \in Nat /\ n < BlockLen /\ n \in Slots
  BY <1>1, SizesAssumption DEF Inode, CreateOverruns, Slots
<1>6. itab' = [itab EXCEPT ![ino] = new, ![d] = [itab[d] EXCEPT !.size = n + 1]]
  BY <1>1, <1>2, <1>3 DEF AddFile
<1>7. /\ itab'[ino] = new
      /\ itab'[d] = [itab[d] EXCEPT !.size = n + 1]
      /\ \A i \in Inodes : i # ino /\ i # d => itab'[i] = itab[i]
  BY <1>1, <1>2, <1>3, <1>6
<1>8. /\ itab'[d].size = n + 1
      /\ \A i \in ibmap : /\ itab'[i].name = itab[i].name /\ itab'[i].type = itab[i].type
                          /\ itab'[i].start = itab[i].start /\ itab'[i].parent = itab[i].parent
                          /\ i # d => itab'[i] = itab[i]
  BY <1>1, <1>2, <1>5, <1>7 DEF Inode
<1>9. T[d] = itab[d]
  BY <1>1, <1>3
<1>10. disk' = [disk EXCEPT ![b] = [disk[b] EXCEPT ![n] = e]]
  BY <1>9, <1>1, <1>5 DEF AddFile
<1>11. /\ disk'[b][n] = e
       /\ \A k \in Slots : k # n => disk'[b][k] = disk[b][k]
       /\ \A c \in Blocks : c # b => disk'[c] = disk[c]
  BY <1>1, <1>5, <1>10
<1>12. ibmap' = ibmap \cup {ino}
       /\ dbmap' = IF type = "special" THEN dbmap ELSE dbmap \cup {blk}
  BY DEF AddFile
<1>13. saved' = saved
  <2>1. b # 0
    BY <1>1, <1>5, SizesAssumption DEF FsOK, BlocksOwned, Owners, Blocks
  <2>2. QED
    BY <1>9, <2>1 DEF AddFile, SavedAfterWriting
<1>14. QED
  BY <1>2, <1>3, <1>4, <1>5, <1>7, <1>8, <1>11, <1>12, <1>13 DEF Added

\* The new inode and block belong to nobody else, and the new entry is the last
\* of its directory: consistency is kept.
LEMMA AddFileKeeps ==
    ASSUME TypeOK, FsInv(ibmap, dbmap, itab, disk), NEW dir, NEW name \in AllNames,
           NEW type \in {"dir", "normal", "special"},
           name \in SystemFiles => type = "special",
           SeekDirectory(itab, disk, dir) \in Dirs(ibmap, itab),
           ~CreateFails(dir, name), ~CreateOverruns(dir, type, FALSE), AddFile(dir, name, type)
    PROVE  FsInv(ibmap', dbmap', itab', disk')
<1> DEFINE d   == SeekDirectory(itab, disk, dir)
           ino == FirstFree(ibmap, NInodes)
           blk == IF type = "special" THEN 0 ELSE FirstFree(dbmap, NBlocks)
           new == [name |-> name, type |-> type, start |-> blk, size |-> 0, parent |-> d]
           e   == [name |-> name, ino |-> ino]
           b   == itab[d].start
           n   == itab[d].size
<1>1. /\ d \in ibmap /\ d \in Inodes /\ itab[d].type = "dir"
      /\ itab \in [Inodes -> Inode] /\ disk \in [Blocks -> [Slots -> Slot]]
      /\ ibmap \in SUBSET Inodes /\ dbmap \in SUBSET Blocks
      /\ FsOK(ibmap, dbmap, itab, disk)
  BY DEF Dirs, TypeOK, FsInv
<1>2. Added(d, ino, blk, name, type)
  BY <1>1, AddFileEffect
<1>3. RootOK(ibmap', itab')
  BY <1>2 DEF FsInv, FsOK, RootOK, Added
<1>4. Owners(ibmap', itab')
         = Owners(ibmap, itab) \cup (IF type = "special" THEN {} ELSE {ino})
  BY <1>2 DEF Owners, Added
<1>5. \A i \in Owners(ibmap, itab) : itab[i].start \in dbmap /\ itab'[i].start = itab[i].start
  BY <1>2 DEF FsInv, FsOK, BlocksCounted, Owners, Added
<1>6. type # "special" => itab'[ino].start = blk /\ blk >= DataStart
  BY <1>2, SizesAssumption DEF FsInv, FsOK, BlocksCounted, Blocks, Added
<1>7. BlocksOwned(ibmap', itab')
  <2>1. \A i \in Owners(ibmap', itab') : itab'[i].start >= DataStart
    BY <1>4, <1>5, <1>6 DEF FsInv, FsOK, BlocksOwned
  <2>2. type # "special" => blk \notin dbmap
    BY <1>2 DEF Added
  <2>3. ASSUME NEW i \in Owners(ibmap', itab'), NEW j \in Owners(ibmap', itab'),
               itab'[i].start = itab'[j].start
        PROVE  i = j
    BY <2>2, <2>3, <1>4, <1>5, <1>6 DEF FsInv, FsOK, BlocksOwned
  <2>4. QED
    BY <2>1, <2>3 DEF BlocksOwned
<1>8. BlocksCounted(ibmap', dbmap', itab')
  <2> DEFINE O == Owners(ibmap, itab)
  <2>1. dbmap = 0 .. (DataStart - 1) \cup {itab[i].start : i \in O}
    BY DEF FsInv, FsOK, BlocksCounted
  <2>2. {itab'[i].start : i \in O} = {itab[i].start : i \in O}
    BY <1>5
  <2>3. CASE type = "special"
    BY <1>2, <1>4, <2>1, <2>2, <2>3 DEF BlocksCounted, Added
  <2>4. CASE type # "special"
    <3>1. Owners(ibmap', itab') = O \cup {ino} /\ dbmap' = dbmap \cup {blk}
      BY <1>2, <1>4, <2>4 DEF Added
    <3> HIDE DEF O
    <3>2. {itab'[i].start : i \in O \cup {ino}} = {itab'[i].start : i \in O} \cup {blk}
      BY <1>6, <2>4
    <3>3. QED
      BY <2>1, <2>2, <3>1, <3>2 DEF BlocksCounted
  <2>5. QED
    BY <2>3, <2>4
<1>9. \A i \in Dirs(ibmap', itab') :
          \/ i \in Dirs(ibmap, itab)
          \/ i = ino /\ itab'[i].size = 0
  BY <1>2 DEF Dirs, Added
<1>10. \A i \in Dirs(ibmap, itab) : i # d => /\ itab'[i] = itab[i] /\ itab[i].start # b
                                             /\ disk'[itab[i].start] = disk[itab[i].start]
  <2>1. \A i \in Dirs(ibmap, itab) : i \in ibmap /\ i # ino /\ i \in Owners(ibmap, itab)
                                     /\ itab[i].start \in Blocks
    BY <1>1, <1>2 DEF Dirs, Owners, Inode, Added
  <2>2. d \in Owners(ibmap, itab)
    BY <1>1 DEF Owners
  <2>3. QED
    BY <1>2, <2>1, <2>2 DEF FsInv, FsOK, BlocksOwned, Added
<1>11. \A k \in Slots : k < n + 1 => k < n \/ k = n
  BY <1>2 DEF Slots, Added
<1>12. EntriesOK(ibmap', itab', disk')
  <2>1. ASSUME NEW i \in Dirs(ibmap, itab), NEW k \in Slots, k < itab[i].size
        PROVE  EntryOK(ibmap', itab', i, disk[itab[i].start][k])
    <3>1. EntryOK(ibmap, itab, i, disk[itab[i].start][k])
      BY <2>1 DEF FsInv, FsOK, EntriesOK
    <3>2. QED
      BY <3>1, <1>2 DEF EntryOK, Added
  <2>2. EntryOK(ibmap', itab', d, e)
    BY <1>2 DEF EntryOK, Added
  <2>3. ASSUME NEW i \in Dirs(ibmap', itab')
        PROVE  /\ itab'[i].size <= BlockLen
               /\ \A k \in Slots : k < itab'[i].size =>
                     EntryOK(ibmap', itab', i, disk'[itab'[i].start][k])
    <3>1. CASE i = ino /\ itab'[i].size = 0
      BY <3>1, SizesAssumption DEF Slots
    <3>2. CASE i = d
      <4>1. itab'[i].size = n + 1 /\ itab'[i].start = b /\ n + 1 <= BlockLen
        BY <3>2, <1>1, <1>2, SizesAssumption DEF Added
      <4>2. disk'[b][n] = e /\ \A k \in Slots : k # n => disk'[b][k] = disk[b][k]
        BY <1>2 DEF Added
      <4>3. d \in Dirs(ibmap, itab)
        BY <1>1 DEF Dirs
      <4>4. \A k \in Slots : k < n \/ k = n => EntryOK(ibmap', itab', d, disk'[b][k])
        BY <2>1, <2>2, <4>2, <4>3
      <4>5. QED
        BY <3>2, <1>11, <4>1, <4>4
    <3>3. CASE i \in Dirs(ibmap, itab) /\ i # d
      BY <3>3, <1>10, <2>1 DEF FsInv, FsOK, EntriesOK
    <3>4. QED
      BY <1>9, <3>1, <3>2, <3>3
  <2>4. QED
    BY <2>3 DEF EntriesOK
<1>13. NamesUnique(ibmap', itab', disk')
  <2>1. \A k \in Slots : k < n => disk[b][k].name # name
    BY <1>1, SearchDirMisses DEF CreateFails, TypeOK
  <2>2. ASSUME NEW i \in Dirs(ibmap', itab'), NEW j \in Slots, NEW k \in Slots,
               j < itab'[i].size, k < itab'[i].size,
               disk'[itab'[i].start][j].name = disk'[itab'[i].start][k].name
        PROVE  j = k
    <3>1. CASE i = ino /\ itab'[i].size = 0
      BY <3>1, <2>2 DEF Slots
    <3>2. CASE i = d
      <4>1. d \in Dirs(ibmap, itab) /\ itab'[i].start = b
        BY <1>1, <1>2, <3>2 DEF Dirs, Added
      <4>2. (j < n \/ j = n) /\ (k < n \/ k = n)
        BY <2>2, <3>2, <1>2, <1>11 DEF Added
      <4>3. \A l, m \in Slots : l < n /\ m < n /\ disk[b][l].name = disk[b][m].name => l = m
        BY <4>1 DEF FsInv, FsOK, NamesUnique
      <4>4. \A l \in Slots : l < n => disk'[b][l].name = disk[b][l].name /\ disk[b][l].name # name
        BY <1>2, <2>1 DEF Slots, Added
      <4>5. disk'[b][n].name = name
        BY <1>2 DEF Added
      <4>6. QED
        BY <2>2, <4>1, <4>2, <4>3, <4>4, <4>5
    <3>3. CASE i \in Dirs(ibmap, itab) /\ i # d
      BY <3>3, <2>2, <1>10 DEF FsInv, FsOK, NamesUnique
    <3>4. QED
      BY <1>9, <3>1, <3>2, <3>3
  <2>3. QED
    BY <2>2 DEF NamesUnique
<1>14. SystemTyped(ibmap', itab')
  BY <1>2 DEF FsInv, SystemTyped, Added
<1>15. QED
  BY <1>3, <1>7, <1>8, <1>12, <1>13, <1>14 DEF FsInv, FsOK

\* What unlink_file_in_dir changes: the entry of inode ino in slot m of directory
\* d goes, and every later entry moves one place forward.
Removed(d, ino, m) ==
    LET b == itab[d].start
        n == itab[d].size
    IN  /\ b \in Blocks /\ n \in Nat /\ n <= BlockLen
        /\ m \in Slots /\ m < n /\ disk[b][m].ino = ino
        /\ ibmap' = ibmap \ {ino} /\ dbmap' = dbmap \ {itab[ino].start}
        /\ itab'[d].size = n - 1
        /\ \A i \in ibmap : /\ itab'[i].name = itab[i].name /\ itab'[i].type = itab[i].type
                            /\ itab'[i].start = itab[i].start /\ itab'[i].parent = itab[i].parent
                            /\ i # d => itab'[i] = itab[i]
        /\ \A j \in Slots : j < n - 1 =>
              \/ j < m /\ disk'[b][j] = disk[b][j]
              \/ m <= j /\ j + 1 \in Slots /\ j + 1 < n /\ disk'[b][j] = disk[b][j + 1]
        /\ \A c \in Blocks : c # b => disk'[c] = disk[c]
        /\ saved' = saved

LEMMA RemoveFileEffect ==
    ASSUME TypeOK, FsOK(ibmap, dbmap, itab, disk), NEW d \in Dirs(ibmap, itab), NEW name,
           NEW ino, ino = SearchDir(itab, disk, d, name), ino # None,
           NEW outside, RemoveFile(d, ino, outside)
    PROVE  \E m : Removed(d, ino, m)
<1> DEFINE b  == itab[d].start
           n  == itab[d].size
           at == {k \in Slots : k < n /\ disk[b][k].ino = ino}
           m  == Min(at)
<1>1. /\ d \in ibmap /\ d \in Inodes /\ itab[d].type = "dir"
      /\ itab \in [Inodes -> Inode] /\ disk \in [Blocks -> [Slots -> Slot]]
      /\ ibmap \in SUBSET Inodes
  BY DEF Dirs, TypeOK
<1>2. b \in Blocks /\ n \in Nat /\ n <= BlockLen
  BY <1>1 DEF Inode, FsOK, EntriesOK
<1>3. m \in Slots /\ m < n /\ disk[b][m].ino = ino
  <2>1. at \in SUBSET Nat
    BY DEF Slots
  <2>2. at # {}
    BY <1>1, SearchDirFinds DEF TypeOK
  <2>3. m \in at
    BY <2>1, <2>2, MinInSet
  <2>4. QED
    BY <2>3
<1>4. itab' = [itab EXCEPT ![d] = [itab[d] EXCEPT !.size = n - 1]]
  BY <1>1 DEF RemoveFile
<1>5. /\ itab'[d].size = n - 1
      /\ \A i \in ibmap : /\ itab'[i].name = itab[i].name /\ itab'[i].type = itab[i].type
                          /\ itab'[i].start = itab[i].start /\ itab'[i].parent = itab[i].parent
                          /\ i # d => itab'[i] = itab[i]
  BY <1>1, <1>2, <1>4 DEF Inode
<1>6. disk' = [disk EXCEPT ![b] = Shifted(disk[b], m, n, outside)]
  BY <1>1, <1>2 DEF RemoveFile
<1>7. ibmap' = ibmap \ {ino} /\ dbmap' = dbmap \ {itab[ino].start}
  BY DEF RemoveFile
<1> HIDE DEF m
<1>8. /\ disk'[b] = Shifted(disk[b], m, n, outside)
      /\ \A c \in Blocks : c # b => disk'[c] = disk[c]
  BY <1>1, <1>2, <1>6
<1>9. \A j \in Slots : j < n - 1 =>
         \/ j < m /\ disk'[b][j] = disk[b][j]
         \/ m <= j /\ j + 1 \in Slots /\ j + 1 < n /\ disk'[b][j] = disk[b][j + 1]
  <2>1. TAKE j \in Slots
  <2>2. HAVE j < n - 1
  <2>3. j \in Nat /\ m \in Nat /\ BlockLen \in Nat
    BY <1>3, SizesAssumption DEF Slots
  <2>4. j + 1 < n /\ j + 1 \in Slots /\ j + 1 < BlockLen /\ j < n
    BY <1>2, <2>2, <2>3 DEF Slots
  <2>5. QED
    BY <1>8, <2>3, <2>4 DEF Shifted
<1>10. saved' = saved
  <2>1. b # 0
    BY <1>1, <1>2, SizesAssumption DEF FsOK, BlocksOwned, Owners, Blocks
  <2>2. QED
    BY <2>1 DEF RemoveFile, SavedAfterWriting
<1>11. Removed(d, ino, m)
  BY <1>2, <1>3, <1>5, <1>7, <1>8, <1>9, <1>10 DEF Removed
<1>12. QED
  BY <1>11

\* Nothing else named the inode that is freed: consistency is kept.
LEMMA RemoveFileKeeps ==
    ASSUME TypeOK, FsInv(ibmap, dbmap, itab, disk), NEW d \in Dirs(ibmap, itab), NEW name,
           NEW ino, ino = SearchDir(itab, disk, d, name), ino # None,
           itab[ino].type # "special", NEW outside, RemoveFile(d, ino, outside)
    PROVE  FsInv(ibmap', dbmap', itab', disk')
<1> DEFINE b  == itab[d].start
           n  == itab[d].size
<1>1. /\ d \in ibmap /\ d \in Inodes /\ itab[d].type = "dir"
      /\ itab \in [Inodes -> Inode] /\ disk \in [Blocks -> [Slots -> Slot]]
      /\ ibmap \in SUBSET Inodes /\ dbmap \in SUBSET Blocks
      /\ FsOK(ibmap, dbmap, itab, disk)
  BY DEF Dirs, TypeOK, FsInv
<1>2. /\ ino \in ibmap /\ ino # 0 /\ ino # d
      /\ itab[ino].name = name /\ itab[ino].parent = d
  BY <1>1, FoundEntry
<1>3. PICK m : Removed(d, ino, m)
  BY <1>1, RemoveFileEffect
<1>4. b \in Blocks /\ n \in Nat /\ n <= BlockLen
      /\ m \in Slots /\ m < n /\ disk[b][m].ino = ino
  BY <1>3 DEF Removed
<1>5. /\ itab'[d].size = n - 1
      /\ \A i \in ibmap : /\ itab'[i].name = itab[i].name /\ itab'[i].type = itab[i].type
                          /\ itab'[i].start = itab[i].start /\ itab'[i].parent = itab[i].parent
                          /\ i # d => itab'[i] = itab[i]
  BY <1>3 DEF Removed
<1>6. \A c \in Blocks : c # b => disk'[c] = disk[c]
  BY <1>3 DEF Removed
<1>7. \A j \in Slots : j < n - 1 =>
         \/ j < m /\ disk'[b][j] = disk[b][j]
         \/ m <= j /\ j + 1 \in Slots /\ j + 1 < n /\ disk'[b][j] = disk[b][j + 1]
  BY <1>3 DEF Removed
<1>8. ibmap' = ibmap \ {ino} /\ dbmap' = dbmap \ {itab[ino].start}
  BY <1>3 DEF Removed
<1>9. RootOK(ibmap', itab')
  BY <1>2, <1>5, <1>8 DEF FsInv, FsOK, RootOK
<1>10. Owners(ibmap', itab') = Owners(ibmap, itab) \ {ino} /\ ino \in Owners(ibmap, itab)
  BY <1>2, <1>5, <1>8 DEF Owners
<1>11. \A i \in Owners(ibmap, itab) : itab'[i].start = itab[i].start
  BY <1>5 DEF Owners
<1>12. BlocksOwned(ibmap', itab')
  BY <1>10, <1>11 DEF FsInv, FsOK, BlocksOwned
<1>13. BlocksCounted(ibmap', dbmap', itab')
  <2> DEFINE O == Owners(ibmap, itab)
             s == itab[ino].start
  <2>1. dbmap = 0 .. (DataStart - 1) \cup {itab[i].start : i \in O}
    BY DEF FsInv, FsOK, BlocksCounted
  <2>2. Owners(ibmap', itab') = O \ {ino} /\ dbmap' = dbmap \ {s}
    BY <1>8, <1>10
  <2>3. s >= DataStart /\ s \in Nat
    BY <1>1, <1>2, <1>10 DEF FsInv, FsOK, BlocksOwned, Inode, Blocks
  <2>4. \A i \in O : itab[i].start = s => i = ino
    BY <1>10 DEF FsInv, FsOK, BlocksOwned
  <2>5. ino \in O /\ \A i \in O : itab'[i].start = itab[i].start
    BY <1>10, <1>11
  <2> HIDE DEF O
  <2>6. {itab[i].start : i \in O} \ {s} = {itab'[i].start : i \in O \ {ino}}
    BY <2>4, <2>5
  <2>7. (0 .. (DataStart - 1)) \ {s} = 0 .. (DataStart - 1)
    BY <2>3, SizesAssumption
  <2>8. QED
    BY <2>1, <2>2, <2>6, <2>7 DEF BlocksCounted
<1>14. \A i \in Dirs(ibmap', itab') : i \in Dirs(ibmap, itab) /\ i # ino
  BY <1>5, <1>8 DEF Dirs
<1>15. \A i \in Dirs(ibmap, itab) : i # d => /\ itab'[i] = itab[i]
                                             /\ disk'[itab[i].start] = disk[itab[i].start]
  <2>1. \A i \in Dirs(ibmap, itab) : i \in ibmap /\ i \in Owners(ibmap, itab)
                                     /\ itab[i].start \in Blocks
    BY <1>1 DEF Dirs, Owners, Inode
  <2>2. d \in Owners(ibmap, itab)
    BY <1>1 DEF Owners
  <2>3. QED
    BY <1>5, <1>6, <2>1, <2>2 DEF FsInv, FsOK, BlocksOwned
<1>16. \A i \in Dirs(ibmap, itab) : \A k \in Slots : k < itab[i].size =>
          EntryOK(ibmap, itab, i, disk[itab[i].start][k])
  BY DEF FsInv, FsOK, EntriesOK
\* The only entry that leads to the freed inode is the one that is dropped.
<1>17. \A i \in Dirs(ibmap, itab) : \A k \in Slots :
          k < itab[i].size /\ disk[itab[i].start][k].ino = ino => i = d /\ k = m
  <2>1. TAKE i \in Dirs(ibmap, itab)
  <2>2. TAKE k \in Slots
  <2>3. HAVE k < itab[i].size /\ disk[itab[i].start][k].ino = ino
  <2>4. i = d /\ disk[b][k].name = name
    BY <1>2, <1>16, <2>3 DEF EntryOK
  <2>5. disk[b][m].name = name
    BY <1>2, <1>4, <1>16 DEF EntryOK
  <2>6. QED
    BY <1>4, <2>3, <2>4, <2>5 DEF FsInv, FsOK, NamesUnique
<1>18. \A i \in Dirs(ibmap, itab) : \A k \in Slots :
          k < itab[i].size /\ ~(i = d /\ k = m) =>
             EntryOK(ibmap', itab', i, disk[itab[i].start][k])
  BY <1>5, <1>8, <1>16, <1>17 DEF EntryOK
<1>19. EntriesOK(ibmap', itab', disk')
  <2>1. ASSUME NEW i \in Dirs(ibmap', itab')
        PROVE  /\ itab'[i].size <= BlockLen
               /\ \A k \in Slots : k < itab'[i].size =>
                     EntryOK(ibmap', itab', i, disk'[itab'[i].start][k])
    <3>1. i \in Dirs(ibmap, itab)
      BY <1>14
    <3>2. CASE i = d
      <4>1. itab'[i].size = n - 1 /\ itab'[i].start = b
        BY <1>1, <1>5, <3>2
      <4>2. n - 1 <= BlockLen
        BY <1>4, SizesAssumption
      <4>3. ASSUME NEW k \in Slots, k < n - 1
            PROVE  EntryOK(ibmap', itab', i, disk'[b][k])
        <5>1. CASE k < m /\ disk'[b][k] = disk[b][k]
          <6>1. k < n /\ k # m
            BY <4>3, <5>1, <1>4 DEF Slots
          <6>2. QED
            BY <5>1, <6>1, <1>18, <3>1, <3>2
        <5>2. CASE m <= k /\ k + 1 \in Slots /\ k + 1 < n /\ disk'[b][k] = disk[b][k + 1]
          <6>1. k + 1 # m
            BY <5>2, <1>4 DEF Slots
          <6>2. QED
            BY <5>2, <6>1, <1>18, <3>1, <3>2
        <5>3. QED
          BY <4>3, <1>7, <5>1, <5>2
      <4>4. QED
        BY <4>1, <4>2, <4>3
    <3>3. CASE i # d
      BY <3>1, <3>3, <1>15, <1>18 DEF FsInv, FsOK, EntriesOK
    <3>4. QED
      BY <3>2, <3>3
  <2>2. QED
    BY <2>1 DEF EntriesOK
<1>20. NamesUnique(ibmap', itab', disk')
  <2>1. ASSUME NEW i \in Dirs(ibmap', itab'), NEW j \in Slots, NEW k \in Slots,
               j < itab'[i].size, k < itab'[i].size,
               disk'[itab'[i].start][j].name = disk'[itab'[i].start][k].name
        PROVE  j = k
    <3>1. i \in Dirs(ibmap, itab)
      BY <1>14
    <3>2. \A u, v \in Slots : /\ u < itab[i].size /\ v < itab[i].size
                              /\ disk[itab[i].start][u].name = disk[itab[i].start][v].name
                              => u = v
      BY <3>1 DEF FsInv, FsOK, NamesUnique
    <3>3. CASE i = d
      <4>1. j < n - 1 /\ k < n - 1 /\ disk'[b][j].name = disk'[b][k].name
        BY <1>1, <1>5, <2>1, <3>3
      <4>2. j < n /\ k < n /\ j \in Nat /\ k \in Nat /\ m \in Nat
        BY <1>4, <4>1 DEF Slots
      <4>3. \A u, v \in Slots : u < n /\ v < n /\ disk[b][u].name = disk[b][v].name => u = v
        BY <3>2, <3>3
      <4>4. \/ j < m /\ disk'[b][j] = disk[b][j]
            \/ m <= j /\ j + 1 \in Slots /\ j + 1 < n /\ disk'[b][j] = disk[b][j + 1]
        BY <1>7, <4>1
      <4>5. \/ k < m /\ disk'[b][k] = disk[b][k]
            \/ m <= k /\ k + 1 \in Slots /\ k + 1 < n /\ disk'[b][k] = disk[b][k + 1]
        BY <1>7, <4>1
      <4> HIDE DEF b, n
      <4>6. QED
        BY <4>1, <4>2, <4>3, <4>4, <4>5
    <3>4. CASE i # d
      BY <3>1, <3>2, <3>4, <2>1, <1>15
    <3>5. QED
      BY <3>3, <3>4
  <2>2. QED
    BY <2>1 DEF NamesUnique
<1>21. SystemTyped(ibmap', itab')
  BY <1>5, <1>8 DEF FsInv, SystemTyped
<1>22. QED
  BY <1>9, <1>12, <1>13, <1>19, <1>20, <1>21 DEF FsInv, FsOK

-----------------------------------------------------------------------------
(* The blocks of the bitmaps: ReservedInvariant *)

LEMMA SavedFields ==
    ASSUME TypeOK, NEW b, saved' = SavedAfterWriting(b)
    PROVE  /\ saved'.ibmap = saved.ibmap /\ saved'.dbmap = saved.dbmap
           /\ saved'.itab = saved.itab /\ saved'.behind = saved.behind
  BY DEF TypeOK, Metadata, SavedAfterWriting

\* What the steps have to show: the running kernel's part, and the disk's.
LEMMA ReservedUp ==
    ASSUME ReservedInvariant, pc' \notin {"sync_dbmap", "sync_itab"},
           RootUnnamed(disk'), StartsOutside(itab'), Reserved(ibmap', dbmap'),
           saved'.ibmap = saved.ibmap, saved'.dbmap = saved.dbmap, saved'.itab = saved.itab,
           saved'.behind = saved.behind
    PROVE  ReservedInvariant'
  BY DEF ReservedInvariant, Syncing

LEMMA ReservedQuiet ==
    ASSUME ReservedInvariant, UNCHANGED <<mem, disk, saved>>,
           pc' = pc \/ (pc = "up" /\ pc' = "sync_super") \/ pc' \in {"panic", "overrun"}
    PROVE  ReservedInvariant'
  BY DEF ReservedInvariant, Syncing, BitmapsMade, mem, ShutdownSteps

LEMMA ReservedCreates ==
    ASSUME TypeOK, ReservedInvariant, Reserved(ibmap, dbmap),
           pc' \notin {"sync_dbmap", "sync_itab"},
           NEW dir, NEW name \in AllNames, NEW type \in {"dir", "normal", "special"}, NEW fd,
           CreateFiletype(dir, name, type, fd)
    PROVE  ReservedInvariant'
<1> DEFINE d   == SeekDirectory(itab, disk, dir)
           ino == FirstFree(ibmap, NInodes)
           blk == IF type = "special" THEN 0 ELSE FirstFree(dbmap, NBlocks)
           new == [name |-> name, type |-> type, start |-> blk, size |-> 0, parent |-> d]
           T   == [itab EXCEPT ![ino] = new]
           e   == [name |-> name, ino |-> ino]
<1>1. ~CreateFails(dir, name) /\ ~CreateOverruns(dir, type, FALSE) /\ AddFile(dir, name, type)
  BY DEF CreateFiletype, CreateOverruns
<1>2. d \in Inodes
  BY <1>1, SeekDirectoryType DEF TypeOK, CreateFails
<1>3. ino \in Inodes \ ibmap
  BY <1>1, FirstFreeIsFree, SizesAssumption DEF CreateOverruns, Inodes
<1>4. ino # 0
  BY <1>3 DEF Reserved
<1>5. type # "special" => blk \in Blocks \ dbmap
  BY <1>1, FirstFreeIsFree, SizesAssumption DEF CreateOverruns, Blocks
<1>6. blk \notin 1 .. DataStart
  BY <1>5 DEF Reserved
<1>7. itab' = [T EXCEPT ![d].size = @ + 1]
  BY <1>1 DEF AddFile
<1>8. \A i \in Inodes : itab'[i].start = IF i = ino THEN blk ELSE itab[i].start
  BY <1>2, <1>3, <1>7 DEF TypeOK, Inode
<1>9. StartsOutside(itab')
  BY <1>6, <1>8 DEF StartsOutside, ReservedInvariant
<1>10. LeadsNotToRoot(e)
  BY <1>4 DEF LeadsNotToRoot
<1>11. disk' = [disk EXCEPT ![T[d].start][T[d].size] = e]
  BY <1>1 DEF AddFile
<1>12. \A b \in Blocks, k \in Slots : disk'[b][k] = disk[b][k] \/ disk'[b][k] = e
  <2> DEFINE tb == T[d].start
             tk == T[d].size
  <2>1. disk' = [disk EXCEPT ![tb][tk] = e]
    BY <1>11
  <2> HIDE DEF tb, tk, e
  <2>2. QED
    BY <2>1 DEF TypeOK
<1>13. RootUnnamed(disk')
  <2> HIDE DEF e
  <2>1. QED
    BY <1>10, <1>12 DEF RootUnnamed, ReservedInvariant
<1>14. Reserved(ibmap', dbmap')
  BY <1>1 DEF AddFile, Reserved
<1>15. /\ saved'.ibmap = saved.ibmap /\ saved'.dbmap = saved.dbmap
       /\ saved'.itab = saved.itab /\ saved'.behind = saved.behind
  BY <1>1, SavedFields DEF AddFile
<1>16. QED
  BY <1>9, <1>13, <1>14, <1>15, ReservedUp

LEMMA ReservedWrites ==
    ASSUME DataHarmless, TypeOK, ReservedInvariant, NEW fd \in Fds, NEW count \in Counts, NEW v \in Data,
           Write(fd, count, v)
    PROVE  ReservedInvariant'
<1> DEFINE ino == fdtab[fd].ino
           pos == fdtab[fd].wpos
           n   == IF pos < BlockLen THEN Min({count, BlockLen - pos}) ELSE 0
           b   == itab[ino].start
<1>1. pc = "up"
  BY DEF Write
<1>2. CASE SpecialIO("write", count)
  BY <1>1, <1>2, ReservedQuiet DEF SpecialIO
<1>3. CASE ino \in Inodes /\ itab[ino].type # "special"
  <2>1. /\ itab' = [itab EXCEPT ![ino].size = @ + n]
        /\ disk' = [disk EXCEPT ![b] = [k \in Slots |-> IF pos <= k /\ k < pos + n
                                                        THEN v ELSE @[k]]]
        /\ saved' = SavedAfterWriting(b)
        /\ UNCHANGED <<pc, ibmap, dbmap>>
    BY <1>3 DEF Write, SpecialIO
  <2>2. ino \in Inodes
    BY <1>3
  <2>3. b \in Blocks
    BY <2>2 DEF TypeOK, Inode
  <2>4. \A i \in Inodes : itab'[i].start = itab[i].start
    BY <2>1, <2>2 DEF TypeOK, Inode
  <2>5. LeadsNotToRoot(v)
    BY DEF DataHarmless
  <2>6. \A c \in Blocks, k \in Slots : disk'[c][k] = disk[c][k] \/ disk'[c][k] = v
    BY <2>1, <2>3 DEF TypeOK
  <2>7. RootUnnamed(disk')
    BY <2>5, <2>6 DEF RootUnnamed, ReservedInvariant
  <2>8. StartsOutside(itab')
    BY <2>4 DEF StartsOutside, ReservedInvariant
  <2>9. Reserved(ibmap', dbmap')
    BY <1>1, <2>1 DEF ReservedInvariant, BitmapsMade
  <2>10. QED
    BY <1>1, <2>1, <2>7, <2>8, <2>9, SavedFields, ReservedUp
<1>4. CASE Overrun
  BY <1>4, ReservedQuiet DEF Overrun
<1>5. QED
  BY <1>2, <1>3, <1>4 DEF Write

LEMMA ReservedUnlinks ==
    ASSUME OutsideHarmless, TypeOK, ReservedInvariant, NEW dir, NEW name \in UnlinkNames,
           Unlink(dir, name)
    PROVE  ReservedInvariant'
<1> DEFINE d   == SeekDirectory(itab, disk, dir)
           ino == SearchDir(itab, disk, d, name)
           b   == itab[d].start
           at  == {k \in Slots : k < itab[d].size /\ disk[b][k].ino = ino}
<1>1. pc = "up"
  BY DEF Unlink
<1>2. CASE UNCHANGED <<mem, disk, saved>> /\ pc' \in {"up", "panic", "overrun"}
  BY <1>1, <1>2, ReservedQuiet
<1>3. CASE /\ d # None /\ ino \in Inodes /\ UNCHANGED pc
           /\ \E outside \in IF itab[d].size = BlockLen THEN Outside ELSE {ZeroSlot} :
                 RemoveFile(d, ino, outside)
  <2>1. PICK outside \in IF itab[d].size = BlockLen THEN Outside ELSE {ZeroSlot} :
               RemoveFile(d, ino, outside)
    BY <1>3
  <2>2. pc' = "up" /\ ino # None
    BY <1>1, <1>3 DEF Inodes, None
  <2>3. d \in Inodes
    BY <1>3, SeekDirectoryType DEF TypeOK
  <2>4. b \in Blocks
    BY <2>3 DEF TypeOK, Inode
  <2>5. PICK k \in Slots : disk[b][k].name = name /\ disk[b][k].ino = ino
    BY <2>2, <2>3, SearchDirFinds DEF TypeOK
  <2>6. ino \in Inodes \ {0}
    <3>1. disk[b][k] \in Slot /\ LeadsNotToRoot(disk[b][k])
      BY <2>4 DEF ReservedInvariant, RootUnnamed, TypeOK
    <3>2. QED
      BY <1>3, <2>5, <3>1 DEF LeadsNotToRoot
  <2>7. LeadsNotToRoot(outside)
    <3>1. LeadsNotToRoot(ZeroSlot)
      BY NamesAssumption DEF LeadsNotToRoot, ZeroSlot, UnlinkNames, SystemFiles
    <3>2. outside \in Outside \/ outside = ZeroSlot
      BY <2>1
    <3>3. QED
      BY <3>1, <3>2 DEF OutsideHarmless
  <2>8. /\ disk' = [disk EXCEPT ![b] = Shifted(disk[b], Min(at), itab[d].size, outside)]
        /\ itab' = [itab EXCEPT ![d].size = itab[d].size - 1]
        /\ saved' = SavedAfterWriting(b)
        /\ dbmap' = dbmap \ {itab[ino].start} /\ ibmap' = ibmap \ {ino}
    BY <2>1, <2>3, <2>4 DEF RemoveFile, TypeOK
  <2>9. \A j : \A i \in Slots : \/ Shifted(disk[b], j, itab[d].size, outside)[i] = outside
                                \/ \E l \in Slots : Shifted(disk[b], j, itab[d].size, outside)[i]
                                                    = disk[b][l]
    <3>1. \A i \in Slots : i + 1 < BlockLen => i + 1 \in Slots
      BY SizesAssumption DEF Slots
    <3>2. QED
      BY <3>1 DEF Shifted
  <2>10. \A i \in Slots : LeadsNotToRoot(Shifted(disk[b], Min(at), itab[d].size, outside)[i])
    BY <2>4, <2>7, <2>9 DEF ReservedInvariant, RootUnnamed
  <2>11. RootUnnamed(disk')
    <3> DEFINE moved == Shifted(disk[b], Min(at), itab[d].size, outside)
    <3>1. \A c \in Blocks : disk'[c] = IF c = b THEN moved ELSE disk[c]
      BY <2>4, <2>8 DEF TypeOK
    <3>2. \A i \in Slots : LeadsNotToRoot(moved[i])
      BY <2>10
    <3> HIDE DEF moved
    <3>3. QED
      BY <3>1, <3>2 DEF ReservedInvariant, RootUnnamed
  <2>12. StartsOutside(itab')
    <3>1. \A i \in Inodes : itab'[i].start = itab[i].start
      BY <2>3, <2>8 DEF TypeOK, Inode
    <3>2. QED
      BY <3>1 DEF StartsOutside, ReservedInvariant
  <2>13. Reserved(ibmap, dbmap) /\ itab[ino].start \notin 1 .. DataStart
    BY <1>1, <2>6 DEF ReservedInvariant, BitmapsMade, StartsOutside
  <2>14. Reserved(ibmap', dbmap')
    BY <2>6, <2>8, <2>13 DEF Reserved
  <2>15. QED
    BY <2>2, <2>8, <2>11, <2>12, <2>14, SavedFields, ReservedUp
<1>4. QED
  BY <1>1, <1>2, <1>3 DEF Unlink, UntracedDir, LookupStrays, Overrun

LEMMA ZeroOutside == StartsOutside(ZeroTable) /\ ZeroTable[0].size = 0
<1>1. \A i \in Inodes : ZeroTable[i] = ZeroInode
  BY DEF ZeroTable
<1>2. ZeroInode.start = 0 /\ ZeroInode.size = 0
  BY DEF ZeroInode
<1>3. 0 \notin 1 .. DataStart
  BY SizesAssumption
<1>4. QED
  BY <1>1, <1>2, <1>3, Constants DEF StartsOutside

LEMMA ReservedOff ==
    ASSUME ReservedInvariant, pc' = "off", itab' = ZeroTable, UNCHANGED <<disk, saved>>
    PROVE  ReservedInvariant'
  BY ZeroOutside DEF ReservedInvariant, Syncing, BitmapsMade, ShutdownSteps

LEMMA ReservedFormats ==
    ASSUME TypeOK, ReservedInvariant,
           \/ BootRecognized \/ BootBlank \/ FormatSuper \/ FormatIbmap \/ FormatDbmap
           \/ FormatItab \/ FormatRoot
    PROVE  ReservedInvariant'
<1>1. RootUnnamed([disk EXCEPT ![0] = SuperBlock])
  <2>1. \A k \in Slots : LeadsNotToRoot(SuperBlock[k])
    BY NamesAssumption DEF LeadsNotToRoot, SuperBlock, UnlinkNames, SystemFiles
  <2>2. QED
    BY <2>1 DEF RootUnnamed, ReservedInvariant, TypeOK
<1>2. CASE BootRecognized
  <2>1. /\ pc' = "open_tty" /\ itab' = saved.itab /\ ibmap' = saved.ibmap
        /\ dbmap' \in {saved.dbmap, saved.behind} /\ UNCHANGED <<disk, saved>>
    BY <1>2 DEF BootRecognized
  <2>2. saved.itab[0].size > 0 => Reserved(saved.ibmap, dbmap')
    BY <2>1 DEF ReservedInvariant
  <2>3. QED
    BY <2>1, <2>2 DEF ReservedInvariant, Syncing, BitmapsMade, ShutdownSteps
<1>3. CASE BootBlank
  BY <1>3 DEF BootBlank, ReservedInvariant, Syncing, BitmapsMade, ShutdownSteps, mem
<1>4. CASE FormatSuper
  <2>1. /\ pc' = "fmt_ibmap" /\ disk' = [disk EXCEPT ![0] = SuperBlock]
        /\ saved'.ibmap = saved.ibmap /\ saved'.dbmap = saved.dbmap /\ saved'.itab = saved.itab
        /\ saved'.behind = saved.behind
        /\ UNCHANGED itab
    BY <1>4 DEF FormatSuper, TypeOK, Metadata
  <2>2. QED
    BY <1>1, <2>1 DEF ReservedInvariant, Syncing, BitmapsMade, ShutdownSteps
<1>5. CASE FormatIbmap
  <2>1. /\ pc' = "fmt_dbmap" /\ 0 \in ibmap' /\ dbmap' = 0 .. DataStart
        /\ saved'.ibmap = ibmap' /\ saved'.dbmap = saved.dbmap /\ saved'.itab = saved.itab
        /\ saved'.behind = saved.behind
        /\ UNCHANGED <<itab, disk>>
    BY <1>5 DEF FormatIbmap, TypeOK, Metadata
  <2>2. Reserved(ibmap', dbmap')
    BY <2>1, SizesAssumption DEF Reserved
  <2>3. QED
    BY <2>1, <2>2 DEF ReservedInvariant, Syncing, Reserved
<1>6. CASE FormatDbmap
  <2>1. /\ pc = "fmt_dbmap" /\ pc' = "fmt_itab"
        /\ saved'.ibmap = saved.ibmap /\ saved'.dbmap = dbmap /\ saved'.itab = saved.itab
        /\ saved'.behind = saved.behind
        /\ UNCHANGED <<ibmap, dbmap, itab, disk>>
    BY <1>6 DEF FormatDbmap, TypeOK, Metadata, mem
  <2>2. QED
    BY <2>1 DEF ReservedInvariant, Syncing, BitmapsMade, Reserved
<1>7. CASE FormatItab
  <2>1. /\ pc = "fmt_itab" /\ pc' = "fmt_root" /\ itab' = [itab EXCEPT ![0] = RootInode]
        /\ saved'.ibmap = saved.ibmap /\ saved'.dbmap = saved.dbmap /\ saved'.itab = itab'
        /\ UNCHANGED <<ibmap, dbmap, disk>>
    BY <1>7 DEF FormatItab, TypeOK, Metadata
  <2>2. StartsOutside(itab')
    BY <2>1 DEF StartsOutside, ReservedInvariant, TypeOK
  <2>3. itab'[0].size = 0
    BY <2>1, Constants DEF TypeOK, RootInode, ZeroInode
  <2>4. QED
    BY <2>1, <2>2, <2>3 DEF ReservedInvariant, Syncing, BitmapsMade
<1>8. CASE FormatRoot
  <2>1. CASE GoDown
    BY <2>1, ReservedOff DEF GoDown, ClearMemory
  <2>2. CASE pc' = "mk_dev" /\ UNCHANGED <<mem, disk, saved>>
    BY <1>8, <2>2 DEF FormatRoot, ReservedInvariant, Syncing, BitmapsMade, mem
  <2>3. QED
    BY <1>8, <2>1, <2>2 DEF FormatRoot
<1>9. QED
  BY <1>2, <1>3, <1>4, <1>5, <1>6, <1>7, <1>8

LEMMA ReservedSystemFiles ==
    ASSUME TypeOK, ReservedInvariant, CreateSystemFile \/ OpenSystemFile
    PROVE  ReservedInvariant'
<1>1. CASE CreateSystemFile
  <2> DEFINE dir  == IF pc = "mk_dev" THEN << >> ELSE <<"dev">>
             name == CASE pc = "mk_dev" -> "dev" [] pc = "mk_tty" -> "tty"
                       [] pc = "mk_ttyS" -> "ttyS"
             type == IF pc = "mk_dev" THEN "dir" ELSE "special"
  <2>1. pc \in {"mk_dev", "mk_tty", "mk_ttyS"}
    BY <1>1 DEF CreateSystemFile, NextMake
  <2>2. Reserved(ibmap, dbmap)
    BY <2>1 DEF ReservedInvariant, BitmapsMade
  <2>3. \/ pc' \in {"mk_tty", "panic", "overrun"} /\ UNCHANGED <<mem, disk, saved>>
        \/ CreateFiletype(dir, name, type, FALSE) /\ pc' = NextMake[pc]
    BY <1>1 DEF CreateSystemFile, Overrun
  <2>4. CASE pc' \in {"mk_tty", "panic", "overrun"} /\ UNCHANGED <<mem, disk, saved>>
    BY <2>2, <2>4 DEF ReservedInvariant, Syncing, mem
  <2>5. CASE CreateFiletype(dir, name, type, FALSE) /\ pc' = NextMake[pc]
    <3>1. pc' \in {"mk_tty", "mk_ttyS", "open_tty"}
      BY <2>1, <2>5 DEF NextMake
    <3>2. name \in AllNames /\ type \in {"dir", "special"}
      BY <2>1 DEF AllNames, SystemFiles
    <3> HIDE DEF dir, name, type
    <3>3. QED
      BY <2>2, <2>5, <3>1, <3>2, ReservedCreates
  <2>6. QED
    BY <2>3, <2>4, <2>5
<1>2. CASE OpenSystemFile
  <2> DEFINE d == SeekDirectory(itab, disk, <<"dev">>)
  <2>1. pc \in {"open_tty", "open_ttyS"} /\ UNCHANGED <<mem, disk, saved>>
    BY <1>2 DEF OpenSystemFile, NextOpen, Overrun, LookupStrays
  <2>2. CASE pc' \in {"panic", "overrun"}
    BY <2>1, <2>2, ReservedQuiet
  <2>3. CASE d # None /\ pc' \in {"open_ttyS", "up"}
    <3>1. SearchDir(itab, disk, 0, "dev") # None
      BY <2>3 DEF SeekDirectory, Inodes, None
    <3>2. /\ 0 \in Inodes /\ itab \in [Inodes -> Inode]
          /\ disk \in [Blocks -> [Slots -> Slot]]
      BY Constants DEF TypeOK
    <3>3. PICK k \in Slots : k < itab[0].size
      BY <3>1, <3>2, SearchDirFinds
    <3>4. itab[0].size > 0
      BY <3>2, <3>3 DEF Inode, Slots
    <3>5. QED
      BY <2>1, <2>3, <3>4 DEF ReservedInvariant, Syncing, BitmapsMade, mem
  <2>4. QED
    BY <1>2, <2>1, <2>2, <2>3 DEF OpenSystemFile, NextOpen, Overrun, LookupStrays
<1>3. QED
  BY <1>1, <1>2

LEMMA ReservedShutdown ==
    ASSUME TypeOK, ReservedInvariant, Shutdown \/ SyncSuper \/ SyncIbmap \/ SyncDbmap \/ SyncItab
    PROVE  ReservedInvariant'
<1>1. CASE Shutdown
  BY <1>1, ReservedQuiet DEF Shutdown
<1>2. ASSUME SyncSuper \/ SyncIbmap \/ SyncDbmap \/ SyncItab
      PROVE  Reserved(ibmap, dbmap)
  BY <1>2 DEF SyncSuper, SyncIbmap, SyncDbmap, SyncItab, ReservedInvariant, BitmapsMade,
              ShutdownSteps
<1>3. CASE SyncSuper
  <2>1. \A k \in Slots : LeadsNotToRoot(SuperBlock[k])
    BY NamesAssumption DEF LeadsNotToRoot, SuperBlock, UnlinkNames, SystemFiles
  <2>2. RootUnnamed(disk')
    BY <1>3, <2>1 DEF SyncSuper, RootUnnamed, ReservedInvariant, TypeOK
  <2>3. /\ pc' = "sync_ibmap" /\ UNCHANGED <<ibmap, dbmap, itab>>
        /\ saved'.ibmap = saved.ibmap /\ saved'.dbmap = saved.dbmap /\ saved'.itab = saved.itab
        /\ saved'.behind = saved.behind
    BY <1>3 DEF SyncSuper, TypeOK, Metadata, mem
  <2>4. QED
    BY <1>2, <1>3, <2>2, <2>3 DEF ReservedInvariant, Syncing
<1>4. CASE SyncIbmap
  <2>1. /\ pc' = "sync_dbmap" /\ UNCHANGED <<ibmap, dbmap, itab, disk>>
        /\ saved'.ibmap = ibmap /\ saved'.dbmap = saved.dbmap /\ saved'.itab = saved.itab
        /\ saved'.behind = saved.behind
    BY <1>4 DEF SyncIbmap, TypeOK, Metadata, mem
  <2>2. QED
    BY <1>2, <1>4, <2>1 DEF ReservedInvariant, Syncing, Reserved
<1>5. CASE SyncDbmap
  <2>1. /\ pc = "sync_dbmap" /\ pc' = "sync_itab" /\ UNCHANGED <<ibmap, dbmap, itab, disk>>
        /\ saved'.ibmap = saved.ibmap /\ saved'.dbmap = dbmap /\ saved'.itab = saved.itab
        /\ saved'.behind = saved.behind
    BY <1>5 DEF SyncDbmap, TypeOK, Metadata, mem
  <2>2. QED
    BY <1>2, <1>5, <2>1 DEF ReservedInvariant, Syncing, Reserved
<1>6. CASE SyncItab
  <2>1. /\ pc = "sync_itab" /\ pc' = "off" /\ itab' = ZeroTable /\ UNCHANGED disk
        /\ saved'.ibmap = saved.ibmap /\ saved'.dbmap = saved.dbmap /\ saved'.itab = itab
        /\ saved'.behind = dbmap
    BY <1>6 DEF SyncItab, ClearMemory, TypeOK, Metadata
  <2>2. saved.ibmap = ibmap /\ saved.dbmap = dbmap
    BY <2>1 DEF ReservedInvariant, Syncing
  <2>3. QED
    BY <1>2, <1>6, <2>1, <2>2, ZeroOutside
       DEF ReservedInvariant, Syncing, BitmapsMade, ShutdownSteps
<1>7. QED
  BY <1>1, <1>3, <1>4, <1>5, <1>6

LEMMA ReservedStep ==
    ASSUME OutsideHarmless, DataHarmless, TypeOK, ReservedInvariant, [Next]_vars
    PROVE  ReservedInvariant'
<1>1. CASE Power
  <2>1. CASE Crash
    BY <2>1, ReservedOff DEF Crash, GoDown, ClearMemory
  <2>2. QED
    BY <1>1, <2>1, ReservedFormats, ReservedSystemFiles, ReservedShutdown DEF Power
<1>2. ASSUME NEW dir \in DirPaths, NEW name \in Names, NEW type \in {"dir", "normal"}, NEW fd,
             Create(dir, name, type, fd)
      PROVE  ReservedInvariant'
  <2>1. pc = "up" /\ Reserved(ibmap, dbmap) /\ name \in AllNames
    BY <1>2 DEF Create, ReservedInvariant, BitmapsMade, AllNames
  <2>2. CASE CreateFiletype(dir, name, type, fd) /\ UNCHANGED pc
    BY <1>2, <2>1, <2>2, ReservedCreates
  <2>3. CASE UNCHANGED <<mem, disk, saved>> /\ pc' \in {"up", "overrun"}
    BY <2>1, <2>3, ReservedQuiet
  <2>4. QED
    BY <1>2, <2>1, <2>2, <2>3 DEF Create, Overrun, LookupStrays
<1>3. CASE \E dir \in DirPaths, name \in Names : CreateAny(dir, name)
  BY <1>2, <1>3 DEF CreateAny
<1>4. CASE \E dir \in DirPaths, name \in UnlinkNames : Unlink(dir, name)
  BY <1>4, ReservedUnlinks
<1>5. CASE \E fd \in Fds, count \in Counts, v \in Data : Write(fd, count, v)
  BY <1>5, ReservedWrites
<1>6. CASE /\ UNCHANGED <<mem, disk, saved>>
           /\ pc' = pc \/ pc' \in {"panic", "overrun"}
  BY <1>6, ReservedQuiet
<1>7. CASE \E dir \in DirPaths, name \in UnlinkNames : Open(dir, name)
  BY <1>6, <1>7 DEF Open, UntracedDir, Overrun, LookupStrays
<1>8. CASE UNCHANGED vars
  BY <1>6, <1>8 DEF vars
<1>9. CASE \E dir \in DirPaths : ListDir(dir)
  BY <1>6, <1>9 DEF ListDir, Overrun
<1>10. CASE \E fd \in Fds, count \in Counts : Read(fd, count)
  BY <1>6, <1>10 DEF Read, SpecialIO, Overrun
<1>11. CASE \E fd \in Fds, offset \in Offsets,
               param \in {"SEEK_SET", "SEEK_CUR", "SEEK_END"} : Seek(fd, offset, param)
  BY <1>6, <1>11 DEF Seek, Overrun
<1>12. CASE \E fd \in Fds : Close(fd)
  BY <1>6, <1>12 DEF Close
<1>13. QED
  BY <1>1, <1>3, <1>4, <1>5, <1>7, <1>8, <1>9, <1>10, <1>11, <1>12 DEF Next

LEMMA ReservedInit == Init => ReservedInvariant
<1>1. SUFFICES ASSUME Init PROVE ReservedInvariant
  OBVIOUS
<1>2. StartsOutside(ZeroTable) /\ ZeroTable[0].size = 0
  BY ZeroOutside
<1>3. LeadsNotToRoot(ZeroSlot)
  BY NamesAssumption DEF LeadsNotToRoot, ZeroSlot, UnlinkNames, SystemFiles
<1>4. /\ pc = "off" /\ itab = ZeroTable /\ saved.itab = ZeroTable
      /\ disk = [b \in Blocks |-> [k \in Slots |-> ZeroSlot]]
  BY <1>1 DEF Init
<1>5. QED
  BY <1>2, <1>3, <1>4 DEF ReservedInvariant, RootUnnamed, Syncing, BitmapsMade, ShutdownSteps

\* "permanently allocates all blocks used for metadata, and the first" (fs.c:58):
\* with whatever descriptors and paths calls are made, directories written as
\* files included, and however often the power fails, the blocks of the bitmaps, of
\* the inode table and of the root directory are never given to a file, as long as
\* neither the bytes that callers write nor those behind a full directory block
\* spell an entry of the root.  Without that it is not so: unlink follows an entry
\* that was written into a directory, and gives the block of its inode back.
THEOREM BitmapBlocksStayReserved ==
    OutsideHarmless /\ DataHarmless /\ Spec => []BitmapBlocksReserved
<1>1. Init => TypeOK /\ ReservedInvariant
  BY TypeInit, ReservedInit
<1>2. OutsideHarmless /\ DataHarmless /\ TypeOK /\ ReservedInvariant /\ [Next]_vars
        => TypeOK' /\ ReservedInvariant'
  BY TypeStep, ReservedStep
<1>3. ReservedInvariant => BitmapBlocksReserved
  BY DEF ReservedInvariant, BitmapsMade, Reserved, BitmapBlocksReserved
<1>4. ASSUME OutsideHarmless, DataHarmless PROVE Spec => []BitmapBlocksReserved
  BY <1>1, <1>2, <1>3, <1>4, PTL DEF Spec
<1>5. QED
  BY <1>4

-----------------------------------------------------------------------------
(* FsInvariant is inductive *)

\* Consistency does not look at sizes of files nor at blocks that no directory
\* owns.
LEMMA SameTablesKeep ==
    ASSUME NEW I \in SUBSET Inodes, NEW D, NEW T, NEW U, NEW B, NEW C,
           FsInv(I, D, T, B), SameTables(I, T, U),
           \A i \in Dirs(I, T) : C[T[i].start] = B[T[i].start]
    PROVE  FsInv(I, D, U, C)
<1>1. Dirs(I, U) = Dirs(I, T) /\ Owners(I, U) = Owners(I, T)
  BY DEF SameTables, Dirs, Owners
<1>2. \A i \in Owners(I, T) : U[i].start = T[i].start
  BY DEF SameTables, Owners
<1>3. \A i \in Dirs(I, T) : U[i].start = T[i].start /\ U[i].size = T[i].size
  BY DEF SameTables, Dirs
<1>4. RootOK(I, U) /\ BlocksOwned(I, U) /\ SystemTyped(I, U)
  BY <1>1, <1>2 DEF FsInv, FsOK, RootOK, BlocksOwned, SystemTyped, SameTables
<1>5. BlocksCounted(I, D, U)
  <2>1. {U[i].start : i \in Owners(I, T)} = {T[i].start : i \in Owners(I, T)}
    BY <1>2
  <2>2. QED
    BY <1>1, <2>1 DEF FsInv, FsOK, BlocksCounted
<1>6. \A d, e : EntryOK(I, T, d, e) => EntryOK(I, U, d, e)
  BY DEF EntryOK, SameTables
<1>7. EntriesOK(I, U, C)
  BY <1>1, <1>3, <1>6 DEF FsInv, FsOK, EntriesOK
<1>8. NamesUnique(I, U, C)
  BY <1>1, <1>3 DEF FsInv, FsOK, NamesUnique
<1>9. QED
  BY <1>4, <1>5, <1>7, <1>8 DEF FsInv, FsOK

\* What the invariant says while the kernel runs on an untorn disk.
LEMMA RunningInv ==
    ASSUME FsInvariant, pc \in Running, ~torn
    PROVE  /\ FsInv(ibmap, dbmap, itab, disk) /\ FsOK(ibmap, dbmap, itab, disk)
           /\ OpenFilesOK
           /\ ~dirty => SavedAgrees
  BY DEF FsInvariant, FsInv

\* No directory's block is the super block.
LEMMA DirBlocks ==
    ASSUME TypeOK, FsOK(ibmap, dbmap, itab, disk), NEW i \in Dirs(ibmap, itab)
    PROVE  itab[i].start \in Blocks \ {0} /\ i \in Owners(ibmap, itab) /\ i \in Inodes
<1>1. i \in Owners(ibmap, itab) /\ i \in Inodes
  BY DEF Dirs, Owners, TypeOK
<1>2. itab[i].start \in Blocks /\ itab[i].start >= DataStart
  BY <1>1 DEF FsOK, BlocksOwned, TypeOK, Inode
<1>3. QED
  BY <1>1, <1>2, SizesAssumption DEF Blocks

\* A power loss, or the fault in formatting.
LEMMA GoDownInv ==
    ASSUME TypeOK, FsInvariant, GoDown, pc \notin {"off", "overrun"}
    PROVE  FsInvariant'
<1>1. pc' = "off" /\ ibmap' = {} /\ fdmap' = {} /\ saved' = saved /\ disk' = disk
      /\ torn' = (torn \/ dirty)
  BY DEF GoDown, ClearMemory
<1>2. Formatting' /\ Syncing'
  BY <1>1 DEF Formatting, Syncing, FormatSteps
<1>3. pc' \notin Running
  BY <1>1 DEF Running, Mounted, BootSteps, ShutdownSteps
<1>4. ASSUME ~torn, ~dirty
      PROVE  FsInv(saved.ibmap, saved.dbmap, saved.itab, disk) /\ saved.behind = saved.dbmap
  <2>1. pc \in Running
    BY <1>4 DEF TypeOK, PcValues, Running, Mounted, FsInvariant, Formatting
  <2>2. FsInv(ibmap, dbmap, itab, disk) /\ SavedAgrees
    BY <1>4, <2>1, RunningInv
  <2>3. ibmap \in SUBSET Inodes
    BY DEF TypeOK
  <2>4. FsInv(ibmap, dbmap, saved.itab, disk)
    BY <2>2, <2>3, SameTablesKeep DEF SavedAgrees
  <2>5. QED
    BY <2>2, <2>4 DEF SavedAgrees
<1>5. QED
  BY <1>1, <1>2, <1>3, <1>4 DEF FsInvariant

\* Steps of the running kernel keep the invariant when the new tables are
\* consistent, whatever else they do.
LEMMA RunningStep ==
    ASSUME pc' \in Running, pc' \notin {"sync_dbmap", "sync_itab"},
           ~torn' => /\ FsInv(ibmap', dbmap', itab', disk')
                     /\ OpenFilesOK'
                     /\ ~dirty' => SavedAgrees'
    PROVE  FsInvariant'
<1>1. pc' \notin {"off"} \cup FormatSteps
  BY DEF Running, Mounted, BootSteps, ShutdownSteps, FormatSteps
<1>2. Formatting' /\ Syncing'
  BY <1>1 DEF Formatting, Syncing, FormatSteps
<1>3. QED
  BY <1>1, <1>2 DEF FsInvariant

\* Steps that leave tables and disk alone.
LEMMA QuietStep ==
    ASSUME FsInvariant, pc \in Running, pc' \in Running, pc' \notin {"sync_dbmap", "sync_itab"},
           UNCHANGED <<mem, disk, saved, dirty, torn>>,
           ~torn => OpenFilesOK'
    PROVE  FsInvariant'
<1>1. SavedAgrees => SavedAgrees'
  BY DEF SavedAgrees, SameTables, mem
<1>2. ~torn => FsInv(ibmap, dbmap, itab, disk) /\ (~dirty => SavedAgrees)
  BY RunningInv
<1>3. QED
  BY <1>1, <1>2, RunningStep DEF mem

LEMMA OpenSame ==
    ASSUME OpenFilesOK, UNCHANGED <<fdtab, ibmap, itab>>, fdmap' \in SUBSET fdmap
    PROVE  OpenFilesOK'
  BY DEF OpenFilesOK

LEMMA NewFdOpen ==
    ASSUME TypeOK, OpenFilesOK, NEW fd \in Fds, NEW ino, NewFd(fd, ino),
           UNCHANGED <<ibmap, itab>>, ino \in ibmap, itab[ino].type # "dir"
    PROVE  OpenFilesOK'
<1>1. fdtab'[fd].ino = ino /\ \A f \in Fds : f # fd => fdtab'[f] = fdtab[f]
  BY DEF NewFd, TypeOK
<1>2. fdmap' = fdmap \cup {fd} /\ fdmap \in SUBSET Fds
  BY DEF NewFd, TypeOK
<1>3. QED
  BY <1>1, <1>2 DEF OpenFilesOK

\* create_filetype as a whole.
LEMMA CreateFiletypeInv ==
    ASSUME TypeOK, FsInvariant, pc \in Running, ~torn, pc' \in BootSteps \cup {"up"},
           NEW dir, NEW name \in AllNames, NEW type \in {"dir", "normal", "special"},
           NEW allocate_fd \in BOOLEAN, name \in SystemFiles => type = "special",
           allocate_fd => type # "dir", Len(dir) \in Nat, Traced(dir),
           CreateFiletype(dir, name, type, allocate_fd)
    PROVE  FsInvariant'
<1> DEFINE ino == FirstFree(ibmap, NInodes)
           d   == SeekDirectory(itab, disk, dir)
<1>1. /\ FsInv(ibmap, dbmap, itab, disk) /\ FsOK(ibmap, dbmap, itab, disk)
      /\ OpenFilesOK
  BY RunningInv
<1>2. ~CreateFails(dir, name) /\ ~CreateOverruns(dir, type, FALSE) /\ AddFile(dir, name, type)
  BY DEF CreateFiletype, CreateOverruns
<1>3. d \in Dirs(ibmap, itab)
  BY <1>1, <1>2, TracedIsDir DEF CreateFails
<1>4. FsInv(ibmap', dbmap', itab', disk')
  BY <1>1, <1>2, <1>3, AddFileKeeps
<1>5. ino \in Inodes /\ ino \notin ibmap
  BY <1>2, FirstFreeIsFree, SizesAssumption DEF CreateOverruns, Inodes
<1>6. ibmap' = ibmap \cup {ino} /\ itab'[ino].type = type
      /\ \A i \in ibmap : itab'[i].type = itab[i].type
  <2>1. Added(d, ino, IF type = "special" THEN 0 ELSE FirstFree(dbmap, NBlocks), name, type)
    BY <1>1, <1>2, <1>3, AddFileEffect
  <2>2. QED
    BY <2>1 DEF Added
<1>7. OpenFilesOK'
  <2>1. CASE allocate_fd
    <3> DEFINE fd == FirstFree(fdmap, NFds)
    <3>1. NewFd(fd, ino)
      BY <2>1 DEF CreateFiletype
    <3>2. fd \in Fds
      BY <2>1, FirstFreeIsFree, SizesAssumption DEF CreateFiletype, CreateOverruns, Fds
    <3>3. fdtab'[fd].ino = ino /\ \A f \in Fds : f # fd => fdtab'[f] = fdtab[f]
      BY <3>1, <3>2 DEF NewFd, TypeOK
    <3>4. fdmap' = fdmap \cup {fd} /\ fdmap \in SUBSET Fds
      BY <3>1 DEF NewFd, TypeOK
    <3>5. type # "dir"
      BY <2>1
    <3>6. QED
      BY <1>1, <1>6, <3>3, <3>4, <3>5 DEF OpenFilesOK
  <2>2. CASE ~allocate_fd
    <3>1. UNCHANGED <<fdmap, fdtab>>
      BY <2>2 DEF CreateFiletype
    <3>2. QED
      BY <1>1, <1>6, <3>1 DEF OpenFilesOK
  <2>3. QED
    BY <2>1, <2>2
<1>8. dirty' = TRUE
  BY DEF CreateFiletype
<1>9. pc' \in Running /\ pc' \notin {"sync_dbmap", "sync_itab"}
  BY DEF Running, Mounted, BootSteps
<1>10. QED
  BY <1>4, <1>7, <1>8, <1>9, RunningStep

LEMMA OverrunInv == ASSUME Overrun PROVE FsInvariant'
<1>1. pc' = "overrun"
  BY DEF Overrun
<1>2. QED
  BY <1>1 DEF FsInvariant, Formatting, Syncing, Running, Mounted, BootSteps, ShutdownSteps,
              FormatSteps

\* initalize_file_system on a blank disk, up to the root directory.
LEMMA FormatInv ==
    ASSUME TypeOK, FsInvariant,
           BootBlank \/ FormatSuper \/ FormatIbmap \/ FormatDbmap \/ FormatItab \/ FormatRoot
    PROVE  FsInvariant'
<1>1. CASE BootBlank \/ FormatSuper \/ FormatIbmap \/ FormatDbmap
  <2>1. pc' \in FormatSteps
    BY <1>1 DEF BootBlank, FormatSuper, FormatIbmap, FormatDbmap, FormatSteps
  <2>2. Formatting
    BY DEF FsInvariant
  <2>3. Formatting'
    BY <1>1, <2>2 DEF BootBlank, FormatSuper, FormatIbmap, FormatDbmap, FormatSteps, Formatting,
                      mem, fds, ghost
  <2>4. pc' \notin Running /\ pc' # "off" /\ Syncing'
    BY <2>1 DEF Running, Mounted, BootSteps, ShutdownSteps, FormatSteps, Syncing
  <2>5. QED
    BY <2>3, <2>4 DEF FsInvariant
<1>2. CASE FormatItab
  <2>1. ibmap' = {0} /\ dbmap' = 0 .. DataStart /\ fdmap' = {} /\ dirty' = dirty /\ dirty
    BY <1>2 DEF FormatItab, FsInvariant, Formatting, FormatSteps, fds, ghost
  <2>2. itab'[0] = RootInode
    BY <1>2, Constants DEF FormatItab, TypeOK
  <2>3. Owners(ibmap', itab') = {0} /\ Dirs(ibmap', itab') = {0}
    BY <2>1, <2>2 DEF Owners, Dirs, RootInode, ZeroInode
  <2>4. itab'[0].start = DataStart /\ itab'[0].size = 0 /\ itab'[0].type = "dir"
        /\ itab'[0].name = ""
    BY <2>2 DEF RootInode, ZeroInode
  <2>5. BlocksCounted(ibmap', dbmap', itab')
    <3>1. {itab'[i].start : i \in {0}} = {DataStart}
      BY <2>4
    <3>2. 0 .. DataStart = 0 .. (DataStart - 1) \cup {DataStart}
      BY SizesAssumption
    <3>3. QED
      BY <2>1, <2>3, <3>1, <3>2 DEF BlocksCounted
  <2>6. EntriesOK(ibmap', itab', disk') /\ NamesUnique(ibmap', itab', disk')
    <3>1. \A i \in Dirs(ibmap', itab') : itab'[i].size = 0
      BY <2>3, <2>4
    <3>2. 0 <= BlockLen /\ \A k \in Slots : ~(k < 0)
      BY SizesAssumption DEF Slots
    <3>3. EntriesOK(ibmap', itab', disk')
      BY <3>1, <3>2 DEF EntriesOK
    <3>4. QED
      BY <3>1, <3>2, <3>3 DEF NamesUnique
  <2>7. RootOK(ibmap', itab') /\ BlocksOwned(ibmap', itab') /\ SystemTyped(ibmap', itab')
    <3>1. RootOK(ibmap', itab')
      BY <2>1, <2>4 DEF RootOK
    <3>2. DataStart >= DataStart
      BY SizesAssumption
    <3>3. BlocksOwned(ibmap', itab')
      BY <2>3, <2>4, <3>2 DEF BlocksOwned
    <3>4. SystemTyped(ibmap', itab')
      BY <2>1, <2>4 DEF SystemTyped, SystemFiles
    <3>5. QED
      BY <3>1, <3>3, <3>4
  <2>8. OpenFilesOK'
    BY <2>1 DEF OpenFilesOK
  <2>9. pc' = "fmt_root"
    BY <1>2 DEF FormatItab
  <2>10. QED
    BY <2>1, <2>5, <2>6, <2>7, <2>8, <2>9, RunningStep
       DEF FsInv, FsOK, Running, Mounted, BootSteps
<1>3. CASE FormatRoot
  <2>1. pc = "fmt_root"
    BY <1>3 DEF FormatRoot
  <2>2. pc \in Running
    BY <2>1 DEF Running, Mounted, BootSteps
  <2>3. CASE GoDown
    BY <2>1, <2>3, GoDownInv
  <2>4. CASE pc' = "mk_dev" /\ UNCHANGED <<mem, fds, disk, saved, call, ghost, crashes>>
    <3>1. pc' \in Running /\ pc' \notin {"sync_dbmap", "sync_itab"}
      BY <2>4 DEF Running, Mounted, BootSteps
    <3>2. ~torn => OpenFilesOK'
      BY <2>2, <2>4, RunningInv, OpenSame DEF mem, fds
    <3>3. QED
      BY <2>2, <2>4, <3>1, <3>2, QuietStep DEF ghost
  <2>5. QED
    BY <1>3, <2>3, <2>4 DEF FormatRoot
<1>4. QED
  BY <1>1, <1>2, <1>3

LEMMA CreateSystemFileInv ==
    ASSUME TypeOK, FsInvariant, CreateSystemFile
    PROVE  FsInvariant'
<1> DEFINE dir  == IF pc = "mk_dev" THEN << >> ELSE <<"dev">>
           name == CASE pc = "mk_dev" -> "dev" [] pc = "mk_tty" -> "tty"
                     [] pc = "mk_ttyS" -> "ttyS"
           type == IF pc = "mk_dev" THEN "dir" ELSE "special"
<1>1. pc \in {"mk_dev", "mk_tty", "mk_ttyS"}
  BY DEF CreateSystemFile, NextMake
<1>2. pc \in Running
  BY <1>1 DEF Running, Mounted, BootSteps
<1>3. CASE /\ pc' \in {"mk_tty", "panic"}
           /\ UNCHANGED <<mem, fds, disk, saved, call, ghost, crashes>>
  <2>1. pc' \in Running /\ pc' \notin {"sync_dbmap", "sync_itab"}
    BY <1>3 DEF Running, Mounted, BootSteps
  <2>2. ~torn => OpenFilesOK'
    BY <1>2, <1>3, RunningInv, OpenSame DEF mem, fds
  <2>3. QED
    BY <1>2, <1>3, <2>1, <2>2, QuietStep DEF ghost
<1>4. CASE CreateFiletype(dir, name, type, FALSE) /\ pc' = NextMake[pc]
  <2>1. pc' \in BootSteps
    BY <1>1, <1>4 DEF NextMake, BootSteps
  <2>2. /\ name \in AllNames /\ type \in {"dir", "normal", "special"}
        /\ name \in SystemFiles => type = "special"
    BY <1>1 DEF AllNames, SystemFiles
  <2>3. Len(dir) \in Nat /\ Traced(dir)
    BY DEF Traced
  <2>4. CASE ~torn
    <3>1. pc' \in BootSteps \cup {"up"}
      BY <2>1
    <3> HIDE DEF dir, name, type
    <3>2. QED
      BY <1>2, <1>4, <2>2, <2>3, <2>4, <3>1, CreateFiletypeInv
  <2>5. CASE torn
    <3>1. torn'
      BY <1>4, <2>5 DEF CreateFiletype
    <3>2. pc' \in Running /\ pc' \notin {"sync_dbmap", "sync_itab"}
      BY <2>1 DEF Running, Mounted, BootSteps
    <3>3. QED
      BY <3>1, <3>2, RunningStep
  <2>6. QED
    BY <2>4, <2>5
<1>5. QED
  BY <1>3, <1>4, OverrunInv DEF CreateSystemFile

LEMMA OpenSystemFileInv ==
    ASSUME TypeOK, FsInvariant, OpenSystemFile
    PROVE  FsInvariant'
<1> DEFINE d    == SeekDirectory(itab, disk, <<"dev">>)
           name == IF pc = "open_tty" THEN "tty" ELSE "ttyS"
           ino  == SearchDir(itab, disk, d, name)
           fd   == FirstFree(fdmap, NFds)
<1>1. pc \in {"open_tty", "open_ttyS"}
  BY DEF OpenSystemFile, NextOpen
<1>2. pc \in Running
  BY <1>1 DEF Running, Mounted, BootSteps
<1>3. CASE /\ pc' = "panic"
           /\ UNCHANGED <<mem, fds, disk, saved, call, ghost, crashes>>
  <2>1. pc' \in Running /\ pc' \notin {"sync_dbmap", "sync_itab"}
    BY <1>3 DEF Running
  <2>2. ~torn => OpenFilesOK'
    BY <1>2, <1>3, RunningInv, OpenSame DEF mem, fds
  <2>3. QED
    BY <1>2, <1>3, <2>1, <2>2, QuietStep DEF ghost
<1>4. CASE /\ d # None /\ ino # None /\ fd # None
           /\ NewFd(fd, ino) /\ pc' = NextOpen[pc]
           /\ UNCHANGED <<mem, disk, saved, call, ghost, crashes>>
  <2>1. pc' \in Running /\ pc' \notin {"sync_dbmap", "sync_itab"}
    BY <1>1, <1>4 DEF Running, Mounted, BootSteps, NextOpen
  <2>2. fd \in Fds
    BY <1>4, FirstFreeIsFree, SizesAssumption DEF Fds
  <2>3. ASSUME ~torn PROVE OpenFilesOK'
    <3>1. FsInv(ibmap, dbmap, itab, disk) /\ FsOK(ibmap, dbmap, itab, disk) /\ OpenFilesOK
      BY <1>2, <2>3, RunningInv
    <3>2. Len(<<"dev">>) \in Nat /\ Traced(<<"dev">>)
      BY DEF Traced
    <3>3. d \in Dirs(ibmap, itab)
      BY <1>4, <3>1, <3>2, TracedIsDir
    <3>4. ino \in ibmap /\ itab[ino].name = name
      BY <1>4, <3>1, <3>3, FoundEntry
    <3>5. itab[ino].type # "dir"
      BY <3>1, <3>4 DEF FsInv, SystemTyped, SystemFiles
    <3>6. NewFd(fd, ino) /\ UNCHANGED <<ibmap, itab>>
      BY <1>4 DEF mem
    <3> HIDE DEF ino, fd
    <3>7. QED
      BY <2>2, <3>1, <3>4, <3>5, <3>6, NewFdOpen
  <2>4. QED
    BY <1>2, <1>4, <2>1, <2>3, QuietStep DEF ghost
<1>5. QED
  BY <1>3, <1>4, OverrunInv DEF OpenSystemFile, LookupStrays

\* shutdown closes the system files and writes one table after the other.
LEMMA ShutdownInv ==
    ASSUME TypeOK, FsInvariant, Shutdown \/ SyncSuper \/ SyncIbmap \/ SyncDbmap
    PROVE  FsInvariant'
<1>1. pc \in Running /\ pc' \in Running /\ pc' # "off" /\ pc' \notin {"off"} \cup FormatSteps
  BY DEF Shutdown, SyncSuper, SyncIbmap, SyncDbmap, Running, Mounted, ShutdownSteps, FormatSteps
<1>2. UNCHANGED <<ibmap, dbmap, itab, fdtab, dirty, torn>> /\ fdmap' \in SUBSET fdmap
  BY DEF Shutdown, SyncSuper, SyncIbmap, SyncDbmap, mem, fds, ghost
<1>3. ibmap \in SUBSET Inodes /\ disk \in [Blocks -> [Slots -> Slot]]
  BY DEF TypeOK
<1>4. /\ saved' = saved
         \/ saved' = [saved EXCEPT !.magic = TRUE, !.used = used]
         \/ saved' = [saved EXCEPT !.ibmap = ibmap]
         \/ saved' = [saved EXCEPT !.dbmap = dbmap]
      /\ disk' = disk \/ disk' = [disk EXCEPT ![0] = SuperBlock]
  BY DEF Shutdown, SyncSuper, SyncIbmap, SyncDbmap
<1>5. ASSUME ~torn
      PROVE  FsInv(ibmap, dbmap, itab, disk') /\ OpenFilesOK' /\ (~dirty => SavedAgrees')
  <2>1. /\ FsInv(ibmap, dbmap, itab, disk) /\ FsOK(ibmap, dbmap, itab, disk) /\ OpenFilesOK
        /\ ~dirty => SavedAgrees
    BY <1>1, <1>5, RunningInv
  <2>2. \A i \in Dirs(ibmap, itab) : disk'[itab[i].start] = disk[itab[i].start]
    BY <1>3, <1>4, <2>1, DirBlocks
  <2>3. SameTables(ibmap, itab, itab)
    BY DEF SameTables
  <2>4. FsInv(ibmap, dbmap, itab, disk')
    BY <1>3, <2>1, <2>2, <2>3, SameTablesKeep
  <2>5. OpenFilesOK'
    BY <1>2, <2>1, OpenSame
  <2>6. ASSUME ~dirty PROVE SavedAgrees'
    <3>1. SavedAgrees
      BY <2>1, <2>6
    <3>2. /\ saved'.ibmap = ibmap /\ saved'.dbmap = dbmap /\ saved'.itab = saved.itab
          /\ saved'.behind = dbmap
      BY <1>4, <3>1 DEF SavedAgrees, TypeOK, Metadata
    <3>3. QED
      BY <1>2, <3>1, <3>2 DEF SavedAgrees
  <2>7. QED
    BY <2>4, <2>5, <2>6
<1>6. Formatting'
  BY <1>1 DEF Formatting, FormatSteps
<1>7. Syncing'
  <2>1. Syncing /\ saved \in Metadata
    BY DEF FsInvariant, TypeOK
  <2>2. CASE Shutdown
    BY <2>2 DEF Shutdown, Syncing
  <2>3. CASE SyncSuper
    BY <2>3 DEF SyncSuper, Syncing
  <2>4. CASE SyncIbmap
    BY <1>2, <2>1, <2>4 DEF SyncIbmap, Syncing, Metadata
  <2>5. CASE SyncDbmap
    BY <1>2, <2>1, <2>5 DEF SyncDbmap, Syncing, Metadata
  <2>6. QED
    BY <2>2, <2>3, <2>4, <2>5
<1>8. QED
  BY <1>1, <1>2, <1>5, <1>6, <1>7 DEF FsInvariant

LEMMA PowerInv ==
    ASSUME TypeOK, FsInvariant, Power
    PROVE  FsInvariant'
<1>1. CASE Crash
  BY <1>1, GoDownInv DEF Crash
<1>2. CASE BootRecognized
  <2>1. pc' = "open_tty" /\ fdmap = {} /\ UNCHANGED <<fdmap, fdtab, disk, saved, torn>>
    BY <1>2 DEF BootRecognized, FsInvariant, Formatting, fds
  <2>2. /\ ibmap' = saved.ibmap /\ itab' = saved.itab
        /\ dbmap' \in {saved.dbmap, saved.behind}
        /\ ~torn => /\ FsInv(saved.ibmap, saved.dbmap, saved.itab, disk)
                    /\ saved.behind = saved.dbmap /\ dbmap' = saved.dbmap
    BY <1>2 DEF BootRecognized, FsInvariant
  <2>3. ~torn => FsInv(ibmap', dbmap', itab', disk')
    BY <2>1, <2>2
  <2>4. OpenFilesOK'
    BY <2>1 DEF OpenFilesOK
  <2>5. ~torn => SavedAgrees'
    BY <2>1, <2>2 DEF SavedAgrees, SameTables
  <2>6. pc' \in Running /\ pc' \notin {"sync_dbmap", "sync_itab"}
    BY <2>1 DEF Running, Mounted, BootSteps
  <2>7. QED
    BY <2>1, <2>3, <2>4, <2>5, <2>6, RunningStep
<1>3. CASE SyncItab
  <2>1. /\ saved' = [saved EXCEPT !.itab = itab, !.behind = dbmap] /\ UNCHANGED <<disk, torn>>
        /\ pc' = "off" /\ ibmap' = {} /\ fdmap' = {}
    BY <1>3 DEF SyncItab, ClearMemory
  <2>2. /\ saved'.itab = itab /\ saved'.ibmap = ibmap /\ saved'.dbmap = dbmap
        /\ saved'.behind = dbmap
    BY <1>3, <2>1 DEF SyncItab, FsInvariant, Syncing, TypeOK, Metadata
  <2>3. pc \in Running
    BY <1>3 DEF SyncItab, Running, Mounted, ShutdownSteps
  <2>4. ~torn => FsInv(saved'.ibmap, saved'.dbmap, saved'.itab, disk')
    BY <2>1, <2>2, <2>3, RunningInv
  <2>5. Formatting' /\ Syncing' /\ pc' \notin Running
    BY <2>1 DEF Formatting, Syncing, FormatSteps, Running, Mounted, BootSteps, ShutdownSteps
  <2>6. QED
    BY <2>1, <2>2, <2>4, <2>5 DEF FsInvariant
<1>4. QED
  BY <1>1, <1>2, <1>3, FormatInv, CreateSystemFileInv, OpenSystemFileInv, ShutdownInv DEF Power

\* The inode and the block that a write through an open descriptor changes.
LEMMA WriteTarget ==
    ASSUME TypeOK, FsOK(ibmap, dbmap, itab, disk), OpenFilesOK, NEW fd \in fdmap,
           itab[fdtab[fd].ino].type # "special"
    PROVE  LET i == fdtab[fd].ino
           IN  /\ fd \in Fds /\ i \in ibmap /\ i \in Inodes
               /\ i \in Owners(ibmap, itab) /\ i \notin Dirs(ibmap, itab)
               /\ itab[i].start \in Blocks
<1>1. fd \in Fds /\ fdtab[fd].ino \in ibmap /\ fdtab[fd].ino \in Inodes
  BY DEF TypeOK, OpenFilesOK
<1>2. QED
  BY <1>1 DEF TypeOK, OpenFilesOK, Owners, Dirs, Inode

\* A write leaves the directories alone: it changes the block and the size of a
\* file that is not one.
LEMMA WriteKeepsDirs ==
    ASSUME TypeOK, FsOK(ibmap, dbmap, itab, disk), OpenFilesOK, NEW fd \in fdmap, NEW count,
           NEW v, Write(fd, count, v), itab[fdtab[fd].ino].type # "special"
    PROVE  /\ SameTables(ibmap, itab, itab')
           /\ \A i \in Dirs(ibmap, itab) : disk'[itab[i].start] = disk[itab[i].start]
           /\ saved'.ibmap = saved.ibmap /\ saved'.dbmap = saved.dbmap
           /\ saved'.itab = saved.itab /\ saved'.behind = saved.behind
           /\ UNCHANGED <<pc, ibmap, dbmap, fdmap, dirty, torn, kept>>
           /\ \A f \in Fds : fdtab'[f].ino = fdtab[f].ino
<1> DEFINE ino   == fdtab[fd].ino
           inode == itab[ino]
           pos   == fdtab[fd].wpos
           n     == IF pos < BlockLen THEN Min({count, BlockLen - pos}) ELSE 0
<1>2. /\ fd \in Fds /\ ino \in ibmap /\ ino \in Inodes
      /\ ino \in Owners(ibmap, itab) /\ ino \notin Dirs(ibmap, itab)
      /\ inode.start \in Blocks
  BY WriteTarget
<1>1. /\ fdtab' = [fdtab EXCEPT ![fd].wpos = @ + n]
      /\ itab' = [itab EXCEPT ![ino].size = @ + n]
      /\ disk' = [disk EXCEPT ![inode.start] =
                    [k \in Slots |-> IF pos <= k /\ k < pos + n THEN v ELSE @[k]]]
      /\ saved' = SavedAfterWriting(inode.start)
      /\ UNCHANGED <<pc, ibmap, dbmap, fdmap, dirty, torn, kept>>
  BY <1>2 DEF Write, ghost
<1> HIDE DEF n
<1>3. SameTables(ibmap, itab, itab')
  <2>1. \A i \in Inodes : i # ino => itab'[i] = itab[i]
    BY <1>1, <1>2 DEF TypeOK
  <2>2. /\ itab'[ino].name = itab[ino].name /\ itab'[ino].type = itab[ino].type
        /\ itab'[ino].start = itab[ino].start /\ itab'[ino].parent = itab[ino].parent
    BY <1>1, <1>2 DEF TypeOK, Inode
  <2>3. itab[ino].type # "dir" /\ ibmap \in SUBSET Inodes
    BY <1>2 DEF Dirs, TypeOK
  <2>4. QED
    BY <2>1, <2>2, <2>3 DEF SameTables
<1>4. \A i \in Dirs(ibmap, itab) : disk'[itab[i].start] = disk[itab[i].start]
  <2>1. \A i \in Dirs(ibmap, itab) : itab[i].start # inode.start /\ itab[i].start \in Blocks
    BY <1>2, DirBlocks DEF FsOK, BlocksOwned
  <2>2. \A c \in Blocks : c # inode.start => disk'[c] = disk[c]
    BY <1>1, <1>2 DEF TypeOK
  <2>3. QED
    BY <2>1, <2>2
<1>5. /\ saved'.ibmap = saved.ibmap /\ saved'.dbmap = saved.dbmap
      /\ saved'.itab = saved.itab /\ saved'.behind = saved.behind
  BY <1>1 DEF SavedAfterWriting, TypeOK, Metadata
<1>6. \A f \in Fds : fdtab'[f].ino = fdtab[f].ino
  BY <1>1, <1>2 DEF TypeOK, FdEntry
<1>7. QED
  BY <1>1, <1>3, <1>4, <1>5, <1>6

LEMMA WriteInv ==
    ASSUME TypeOK, FsInvariant, ~torn, NEW fd \in fdmap, NEW count, NEW v, Write(fd, count, v)
    PROVE  FsInvariant'
<1>0. SUFFICES ASSUME ~Overrun PROVE FsInvariant'
  BY OverrunInv DEF Write
<1>1. pc = "up" /\ pc' = "up"
  BY <1>0 DEF Write, SpecialIO
<1>2. pc \in Running /\ pc' \in Running /\ pc' \notin {"sync_dbmap", "sync_itab"}
  BY <1>1 DEF Running, Mounted
<1>3. /\ FsInv(ibmap, dbmap, itab, disk) /\ FsOK(ibmap, dbmap, itab, disk) /\ OpenFilesOK
      /\ ~dirty => SavedAgrees
  BY <1>2, RunningInv
<1>4. CASE SpecialIO("write", count)
  <2>1. OpenFilesOK'
    BY <1>3, <1>4, OpenSame DEF SpecialIO, mem, fds
  <2>2. QED
    BY <1>2, <1>4, <2>1, QuietStep DEF SpecialIO, ghost
<1>5. CASE itab[fdtab[fd].ino].type # "special"
  <2>1. /\ SameTables(ibmap, itab, itab')
        /\ \A i \in Dirs(ibmap, itab) : disk'[itab[i].start] = disk[itab[i].start]
        /\ saved'.ibmap = saved.ibmap /\ saved'.dbmap = saved.dbmap
        /\ saved'.itab = saved.itab /\ saved'.behind = saved.behind
        /\ UNCHANGED <<ibmap, dbmap, fdmap, dirty, torn>>
        /\ \A f \in Fds : fdtab'[f].ino = fdtab[f].ino
    BY <1>3, <1>5, WriteKeepsDirs
  <2>2. FsInv(ibmap', dbmap', itab', disk')
    <3>1. ibmap \in SUBSET Inodes
      BY DEF TypeOK
    <3>2. FsInv(ibmap, dbmap, itab', disk')
      BY <1>3, <2>1, <3>1, SameTablesKeep
    <3>3. QED
      BY <2>1, <3>2
  <2>3. OpenFilesOK'
    <3>1. \A i \in ibmap : itab'[i].type = itab[i].type
      BY <2>1 DEF SameTables
    <3>2. fdmap \in SUBSET Fds
      BY DEF TypeOK
    <3>3. QED
      BY <1>3, <2>1, <3>1, <3>2 DEF OpenFilesOK
  <2>4. SavedAgrees => SavedAgrees'
    <3>1. SameTables(ibmap, itab, saved.itab) => SameTables(ibmap, itab', saved.itab)
      BY <2>1 DEF SameTables
    <3>2. QED
      BY <2>1, <3>1 DEF SavedAgrees
  <2>5. QED
    BY <1>2, <1>3, <2>1, <2>2, <2>3, <2>4, RunningStep
<1>6. QED
  BY <1>0, <1>4, <1>5 DEF Write

LEMMA UnlinkInv ==
    ASSUME TypeOK, FsInvariant, ~torn, NEW dir, NEW name, Len(dir) \in Nat,
           Found(dir), MayUnlink(dir, name), Unlink(dir, name)
    PROVE  FsInvariant'
<1> DEFINE d   == SeekDirectory(itab, disk, dir)
           ino == SearchDir(itab, disk, d, name)
<1>1. pc = "up" /\ d # None
  BY DEF Unlink, Found
<1>2. pc \in Running
  BY <1>1 DEF Running, Mounted
<1>3. FsInv(ibmap, dbmap, itab, disk) /\ FsOK(ibmap, dbmap, itab, disk) /\ OpenFilesOK
  BY <1>2, RunningInv
<1>4. d \in Dirs(ibmap, itab)
  BY <1>1, <1>3, TracedIsDir DEF Found
<1>5. CASE UNCHANGED <<pc, mem, fds, disk, saved, ghost, crashes>>
  <2>1. OpenFilesOK'
    BY <1>3, <1>5, OpenSame DEF mem, fds
  <2>2. pc' \in Running /\ pc' \notin {"sync_dbmap", "sync_itab"}
    BY <1>1, <1>5 DEF Running, Mounted
  <2>3. QED
    BY <1>2, <1>5, <2>1, <2>2, QuietStep DEF ghost
<1>6. CASE /\ ino \in Inodes
           /\ \E outside \in IF itab[d].size = BlockLen THEN Outside ELSE {ZeroSlot} :
                 RemoveFile(d, ino, outside)
           /\ dirty' = TRUE /\ UNCHANGED <<pc, fds, torn>>
  <2>1. PICK outside : RemoveFile(d, ino, outside)
    BY <1>6
  <2>2. itab[ino].type # "special" /\ ino \notin OpenInodes
    BY <1>6 DEF MayUnlink, Target
  <2>3. d \in Inodes
    BY <1>4 DEF Dirs, TypeOK
  <2>4. ino # None
    BY <1>6 DEF Inodes, None
  <2>5. FsInv(ibmap', dbmap', itab', disk')
    BY <1>3, <1>4, <2>1, <2>2, <2>4, RemoveFileKeeps
  <2>6. \A i \in Inodes : itab'[i].type = itab[i].type
    <3>1. itab' = [itab EXCEPT ![d].size = @ - 1]
      BY <2>1 DEF RemoveFile
    <3>2. QED
      BY <2>3, <3>1 DEF TypeOK, Inode
  <2>7. ibmap' = ibmap \ {ino} /\ UNCHANGED <<fdmap, fdtab>>
    BY <1>6, <2>1 DEF RemoveFile, fds
  <2>8. OpenFilesOK'
    BY <1>3, <2>2, <2>6, <2>7 DEF OpenFilesOK, OpenInodes, TypeOK
  <2>9. pc' \in Running /\ pc' \notin {"sync_dbmap", "sync_itab"}
    BY <1>1, <1>6 DEF Running, Mounted
  <2>10. QED
    BY <1>6, <2>5, <2>8, <2>9, RunningStep
<1>7. QED
  BY <1>1, <1>5, <1>6, OverrunInv DEF Unlink, LookupStrays

LEMMA CallInv ==
    ASSUME TypeOK, FsInvariant, ~torn, PoliteCall
    PROVE  FsInvariant'
<1>1. pc = "up"
  BY DEF PoliteCall, CreateAny, Create, Open, Unlink, ListDir, Close, Read, Write, Seek
<1>0. SUFFICES ASSUME ~Overrun PROVE FsInvariant'
  BY <1>1, OverrunInv
<1>2. pc \in Running
  BY <1>1 DEF Running, Mounted
<1>3. FsOK(ibmap, dbmap, itab, disk) /\ OpenFilesOK
  BY <1>2, RunningInv
<1>4. ASSUME NEW dir \in DirPaths, NEW name \in Names, NEW type \in {"dir", "normal"},
             NEW fd \in BOOLEAN, fd => type = "normal", Traced(dir), Create(dir, name, type, fd)
      PROVE  FsInvariant'
  <2>1. CASE UNCHANGED <<pc, mem, fds, disk, saved, ghost, crashes>>
    <3>1. OpenFilesOK'
      BY <1>3, <2>1, OpenSame DEF mem, fds
    <3>2. pc' \in Running /\ pc' \notin {"sync_dbmap", "sync_itab"}
      BY <1>1, <2>1 DEF Running, Mounted
    <3>3. QED
      BY <1>2, <2>1, <3>1, <3>2, QuietStep DEF ghost
  <2>2. CASE CreateFiletype(dir, name, type, fd) /\ UNCHANGED pc
    <3>1. name \in AllNames /\ name \notin SystemFiles
      BY NamesAssumption DEF AllNames, SystemFiles
    <3>2. Len(dir) \in Nat
      BY PathLength
    <3>3. pc' \in BootSteps \cup {"up"}
      BY <1>1, <2>2
    <3>4. QED
      BY <1>2, <1>4, <2>2, <3>1, <3>2, <3>3, CreateFiletypeInv
  <2>3. QED
    BY <1>0, <1>4, <2>1, <2>2 DEF Create, LookupStrays
<1>5. ASSUME NEW dir \in DirPaths, NEW name \in UnlinkNames, Found(dir), MayOpen(dir, name),
             Open(dir, name)
      PROVE  FsInvariant'
  <2> DEFINE d   == SeekDirectory(itab, disk, dir)
             ino == SearchDir(itab, disk, d, name)
             fd  == FirstFree(fdmap, NFds)
  <2>1. d # None
    BY <1>5 DEF Found
  <2>2. CASE UNCHANGED <<pc, mem, fds, disk, saved, ghost, crashes>>
    <3>1. OpenFilesOK'
      BY <1>3, <2>2, OpenSame DEF mem, fds
    <3>2. pc' \in Running /\ pc' \notin {"sync_dbmap", "sync_itab"}
      BY <1>1, <2>2 DEF Running, Mounted
    <3>3. QED
      BY <1>2, <2>2, <3>1, <3>2, QuietStep DEF ghost
  <2>3. CASE /\ ino # None /\ fd # None
             /\ NewFd(fd, ino) /\ UNCHANGED <<pc, mem, disk, saved, ghost>>
    <3>1. d \in Dirs(ibmap, itab)
      BY <1>3, <1>5, <2>1, TracedIsDir, PathLength DEF Found
    <3>2. ino \in ibmap /\ ino \in Inodes
      BY <1>3, <2>3, <3>1, FoundEntry DEF TypeOK
    <3>3. itab[ino].type # "dir"
      BY <1>5, <3>2 DEF MayOpen, Target
    <3>4. fd \in Fds
      BY <2>3, FirstFreeIsFree, SizesAssumption DEF Fds
    <3>5. NewFd(fd, ino) /\ UNCHANGED <<ibmap, itab>>
      BY <2>3 DEF mem
    <3>6. OpenFilesOK'
      <4> HIDE DEF ino, fd
      <4>1. QED
        BY <1>3, <3>2, <3>3, <3>4, <3>5, NewFdOpen
    <3>7. pc' \in Running /\ pc' \notin {"sync_dbmap", "sync_itab"}
      BY <1>1, <2>3 DEF Running, Mounted
    <3>8. QED
      BY <1>2, <2>3, <3>6, <3>7, QuietStep DEF ghost
  <2>4. QED
    BY <1>0, <1>5, <2>1, <2>2, <2>3 DEF Open, LookupStrays
<1>6. ASSUME UNCHANGED <<pc, mem, disk, saved, ghost>>, fdmap' \in SUBSET fdmap,
             \A f \in fdmap : fdtab'[f].ino = fdtab[f].ino
      PROVE  FsInvariant'
  <2>1. OpenFilesOK'
    BY <1>3, <1>6 DEF OpenFilesOK, mem
  <2>2. pc' \in Running /\ pc' \notin {"sync_dbmap", "sync_itab"}
    BY <1>1, <1>6 DEF Running, Mounted
  <2>3. QED
    BY <1>2, <1>6, <2>1, <2>2, QuietStep DEF ghost
<1>7. ASSUME NEW dir \in DirPaths, ListDir(dir)
      PROVE  FsInvariant'
  BY <1>0, <1>6, <1>7 DEF ListDir, fds
<1>8. ASSUME NEW fd \in Fds, Close(fd)
      PROVE  FsInvariant'
  BY <1>6, <1>8 DEF Close
<1>9. ASSUME NEW fd \in fdmap, NEW count \in Counts, Read(fd, count)
      PROVE  FsInvariant'
  <2>1. UNCHANGED <<pc, mem, disk, saved, ghost>> /\ fdmap' = fdmap
    BY <1>0, <1>9 DEF Read, SpecialIO, fds
  <2>2. fd \in Fds /\ fdmap \in SUBSET Fds
    BY DEF TypeOK
  <2>3. \A f \in Fds : fdtab'[f].ino = fdtab[f].ino
    BY <1>0, <1>9, <2>2 DEF Read, SpecialIO, fds, TypeOK, FdEntry
  <2>4. QED
    BY <1>6, <2>1, <2>2, <2>3
<1>10. ASSUME NEW fd \in Fds, NEW offset \in Offsets,
              NEW param \in {"SEEK_SET", "SEEK_CUR", "SEEK_END"}, Seek(fd, offset, param)
       PROVE  FsInvariant'
  <2>1. UNCHANGED <<pc, mem, disk, saved, ghost>> /\ fdmap' = fdmap
    BY <1>0, <1>10 DEF Seek, fds
  <2>2. fdtab[fd] \in FdEntry /\ fdtab \in [Fds -> FdEntry] /\ fdmap \in SUBSET Fds
    BY DEF TypeOK
  <2>3. PICK p, q : fdtab' = fdtab \/ fdtab' = [fdtab EXCEPT ![fd] =
                                                  [fdtab[fd] EXCEPT !.rpos = p, !.wpos = q]]
    <3>1. CASE fd \notin fdmap
      BY <1>10, <3>1 DEF Seek, fds
    <3>2. CASE fd \in fdmap /\ param = "SEEK_SET"
      BY <1>0, <1>10, <3>2 DEF Seek
    <3>3. CASE fd \in fdmap /\ param = "SEEK_CUR"
      BY <1>0, <1>10, <3>3 DEF Seek
    <3>4. CASE fd \in fdmap /\ param = "SEEK_END"
      BY <1>0, <1>10, <3>4 DEF Seek
    <3>5. QED
      BY <3>1, <3>2, <3>3, <3>4
  <2>4. \A f \in Fds : fdtab'[f].ino = fdtab[f].ino
    <3>1. [fdtab[fd] EXCEPT !.rpos = p, !.wpos = q].ino = fdtab[fd].ino
      BY <2>2 DEF FdEntry
    <3>2. SUFFICES ASSUME NEW f \in Fds,
                          fdtab' = [fdtab EXCEPT ![fd] =
                                      [fdtab[fd] EXCEPT !.rpos = p, !.wpos = q]]
                   PROVE  fdtab'[f].ino = fdtab[f].ino
      BY <2>3
    <3>3. CASE f = fd
      BY <2>2, <3>1, <3>2, <3>3
    <3>4. CASE f # fd
      BY <2>2, <3>2, <3>4
    <3>5. QED
      BY <3>3, <3>4
  <2>5. QED
    BY <1>6, <2>1, <2>2, <2>4
<1>11. CASE \E dir \in DirPaths, name \in Names : Traced(dir) /\ CreateAny(dir, name)
  BY <1>4, <1>11 DEF CreateAny
<1>12. CASE \E dir \in DirPaths, name \in UnlinkNames :
               Found(dir) /\ MayUnlink(dir, name) /\ Unlink(dir, name)
  BY <1>12, UnlinkInv, PathLength
<1>13. QED
  BY <1>5, <1>7, <1>8, <1>9, <1>10, <1>11, <1>12, WriteInv DEF PoliteCall

LEMMA FsInit == Init => FsInvariant
<1>1. SUFFICES ASSUME Init PROVE FsInvariant
  OBVIOUS
<1>2. pc = "off" /\ ibmap = {} /\ fdmap = {} /\ saved.magic = FALSE
  BY <1>1 DEF Init
<1>3. QED
  BY <1>2 DEF FsInvariant, Formatting, Syncing, FormatSteps, Running, Mounted, BootSteps,
              ShutdownSteps

LEMMA FsStep ==
    ASSUME TypeOK, FsInvariant, [PoliteNext]_vars
    PROVE  FsInvariant'
<1>1. CASE UNCHANGED vars
  <2>1. UNCHANGED <<pc, ibmap, dbmap, itab, fdmap, fdtab, disk, saved, dirty, torn>>
    BY <1>1 DEF vars, mem, fds, ghost
  <2>2. QED
    BY <2>1 DEF FsInvariant, Formatting, Syncing, OpenFilesOK, SavedAgrees
<1>2. QED
  BY <1>1, PowerInv, CallInv DEF PoliteNext

LEMMA PoliteInvariant == PoliteSpec => [](TypeOK /\ FsInvariant)
<1>1. Init => TypeOK /\ FsInvariant
  BY TypeInit, FsInit
<1>2. TypeOK /\ FsInvariant /\ [PoliteNext]_vars => (TypeOK /\ FsInvariant)'
  BY PoliteIsNext, TypeStep, FsStep
<1>3. QED
  BY <1>1, <1>2, PTL DEF PoliteSpec

-----------------------------------------------------------------------------
(* The theorems *)

\* For disks, tables and blocks of any size, and any number of boots, calls,
\* shutdowns and power losses: bitmaps, inode table and directories agree as
\* long as the disk was never torn.
THEOREM MemoryStaysConsistent == PoliteSpec => []MemoryConsistent
<1>1. FsInvariant => MemoryConsistent
  BY DEF FsInvariant, MemoryConsistent, FsInv, Running
<1>2. QED
  BY <1>1, PoliteInvariant, PTL

\* An open descriptor never stands for a directory or a freed inode.
THEOREM FdsStayConsistent == PoliteSpec => []FdsConsistent
<1>1. FsInvariant => FdsConsistent
  BY DEF FsInvariant, FdsConsistent, OpenFilesOK, Running
<1>2. QED
  BY <1>1, PoliteInvariant, PTL

\* A complete shutdown, and a power loss before names changed, leave a
\* consistent disk behind.
THEOREM DiskStaysConsistent == PoliteSpec => []DiskConsistent
<1>1. FsInvariant => DiskConsistent
  BY DEF FsInvariant, DiskConsistent, FsInv
<1>2. QED
  BY <1>1, PoliteInvariant, PTL

LEMMA IsolationStep ==
    ASSUME TypeOK, FsInvariant, [PoliteNext]_vars, pc = "up", ~torn,
           NEW i \in ibmap, itab[i].type = "normal"
    PROVE  ChangesOnlyByWrite(i)
<1>1. pc \in Running
  BY DEF Running, Mounted
<1>2. FsOK(ibmap, dbmap, itab, disk) /\ OpenFilesOK
  BY <1>1, RunningInv
<1>3. i \in Inodes /\ i \in Owners(ibmap, itab) /\ i \notin Dirs(ibmap, itab)
      /\ itab[i].start \in Blocks
  BY DEF TypeOK, Owners, Dirs, Inode
<1>4. \A d \in Dirs(ibmap, itab) : itab[d].start # itab[i].start
  BY <1>2, <1>3, DirBlocks DEF FsOK, BlocksOwned
<1>5. CASE disk' = disk
  BY <1>5 DEF ChangesOnlyByWrite
\* Adding and removing names changes the block of a directory.
<1>6. ASSUME NEW dir \in DirPaths, NEW name, NEW type, NEW fd, Traced(dir),
             CreateFiletype(dir, name, type, fd)
      PROVE  ChangesOnlyByWrite(i)
  <2> DEFINE d   == SeekDirectory(itab, disk, dir)
             ino == FirstFree(ibmap, NInodes)
  <2>1. ~CreateFails(dir, name) /\ ~CreateOverruns(dir, type, fd) /\ AddFile(dir, name, type)
    BY <1>6 DEF CreateFiletype
  <2>2. d \in Dirs(ibmap, itab)
    BY <1>2, <1>6, <2>1, TracedIsDir, PathLength DEF CreateFails
  <2>3. ino \notin ibmap
    BY <2>1, FirstFreeIsFree, SizesAssumption DEF CreateOverruns
  <2>4. d # ino /\ d \in Inodes
    BY <2>2, <2>3 DEF Dirs, TypeOK
  <2>5. PICK x, k, e : disk' = [disk EXCEPT ![[itab EXCEPT ![ino] = x][d].start][k] = e]
    BY <2>1 DEF AddFile
  <2>6. [itab EXCEPT ![ino] = x][d].start = itab[d].start
    BY <2>4 DEF TypeOK
  <2>7. disk'[itab[i].start] = disk[itab[i].start]
    BY <1>3, <1>4, <2>2, <2>5, <2>6 DEF TypeOK
  <2>8. QED
    BY <2>7 DEF ChangesOnlyByWrite
<1>7. ASSUME NEW dir \in DirPaths, NEW name, NEW ino, NEW outside, Found(dir),
             RemoveFile(SeekDirectory(itab, disk, dir), ino, outside)
      PROVE  ChangesOnlyByWrite(i)
  <2> DEFINE d == SeekDirectory(itab, disk, dir)
  <2>1. d \in Dirs(ibmap, itab)
    BY <1>2, <1>7, TracedIsDir, PathLength DEF Found
  <2>2. PICK blk : disk' = [disk EXCEPT ![itab[d].start] = blk]
    BY <1>7 DEF RemoveFile
  <2>3. disk'[itab[i].start] = disk[itab[i].start]
    BY <1>3, <1>4, <2>1, <2>2 DEF TypeOK
  <2>4. QED
    BY <2>3 DEF ChangesOnlyByWrite
<1>8. ASSUME NEW fd \in fdmap, NEW count \in Counts, NEW v, Write(fd, count, v), disk' # disk
      PROVE  ChangesOnlyByWrite(i)
  <2> DEFINE ino == fdtab[fd].ino
             pos == fdtab[fd].wpos
             n   == IF pos < BlockLen THEN Min({count, BlockLen - pos}) ELSE 0
             s   == itab[ino].start
             new == [k \in Slots |-> IF pos <= k /\ k < pos + n
                                     THEN v ELSE disk[s][k]]
  <2>1. ino \in Inodes /\ itab[ino].type # "special"
    BY <1>8 DEF Write, SpecialIO, Overrun
  <2>2. /\ fd \in Fds /\ ino \in Owners(ibmap, itab) /\ s \in Blocks
    BY <1>2, <2>1, WriteTarget
  <2>3. /\ fdtab' = [fdtab EXCEPT ![fd].wpos = @ + n]
        /\ disk' = [disk EXCEPT ![s] = new]
    BY <1>8, <2>1, <2>2 DEF Write, TypeOK
  <2>4. SUFFICES ASSUME disk'[itab[i].start] # disk[itab[i].start]
                 PROVE  ino = i /\ fdtab'[fd].wpos > fdtab[fd].wpos
    BY DEF ChangesOnlyByWrite
  <2>5. itab[i].start = s
    BY <1>3, <2>2, <2>3, <2>4 DEF TypeOK
  <2>6. ino = i
    BY <1>2, <1>3, <2>2, <2>5 DEF FsOK, BlocksOwned
  <2>7. pos \in Nat /\ count \in Nat
    BY <2>2, SizesAssumption DEF TypeOK, FdEntry
  <2>8. n \in Nat
    <3>1. pos < BlockLen => BlockLen - pos \in Nat
      BY <2>7, SizesAssumption
    <3>2. QED
      BY <2>7, <3>1, MinOfTwo
  <2>9. n # 0
    <3>1. SUFFICES ASSUME n = 0 PROVE FALSE
      OBVIOUS
    <3>2. disk[s] \in [Slots -> Slot] /\ Slots \subseteq Nat
      BY <2>2 DEF TypeOK, Slots
    <3>3. \A k, p \in Nat : ~(p <= k /\ k < p + 0)
      OBVIOUS
    <3>4. \A k \in Slots : ~(pos <= k /\ k < pos + n)
      <4> HIDE DEF n, pos
      <4>1. QED
        BY <2>7, <3>1, <3>2, <3>3
    <3>5. new = disk[s]
      BY <3>2, <3>4
    <3>6. disk'[s] = new
      BY <2>2, <2>3 DEF TypeOK
    <3>7. QED
      BY <2>4, <2>5, <3>5, <3>6
  <2>10. fdtab'[fd].wpos = pos + n
    <3> HIDE DEF n
    <3>1. QED
      BY <2>2, <2>3 DEF TypeOK, FdEntry
  <2>11. QED
    BY <2>6, <2>7, <2>8, <2>9, <2>10
<1>9. CASE Power
  <2>1. disk' = disk
    BY <1>9 DEF Power, Crash, GoDown, BootRecognized, BootBlank, FormatSuper, FormatIbmap,
                FormatDbmap, FormatItab, FormatRoot, CreateSystemFile, OpenSystemFile, Shutdown,
                SyncSuper, SyncIbmap, SyncDbmap, SyncItab, NextMake, NextOpen,
                LookupStrays, Overrun
  <2>2. QED
    BY <1>5, <2>1
<1>10. CASE UNCHANGED vars
  BY <1>5, <1>10 DEF vars
<1>11. CASE PoliteCall
  <2>1. CASE \E dir \in DirPaths, name \in Names : Traced(dir) /\ CreateAny(dir, name)
    BY <1>5, <1>6, <2>1 DEF CreateAny, Create, LookupStrays, Overrun
  <2>2. CASE \E dir \in DirPaths, name \in UnlinkNames :
                Found(dir) /\ MayUnlink(dir, name) /\ Unlink(dir, name)
    BY <1>5, <1>7, <2>2 DEF Unlink, UntracedDir, LookupStrays, Overrun
  <2>3. CASE \E fd \in fdmap, count \in Counts, v \in Data : Write(fd, count, v)
    BY <1>5, <1>8, <2>3
  <2>4. ASSUME NEW dir, NEW name, Open(dir, name)
        PROVE  disk' = disk
    BY <2>4 DEF Open, UntracedDir, LookupStrays, Overrun
  <2>5. ASSUME NEW dir, ListDir(dir)
        PROVE  disk' = disk
    BY <2>5 DEF ListDir, Overrun
  <2>6. ASSUME NEW fd, Close(fd)
        PROVE  disk' = disk
    BY <2>6 DEF Close
  <2>7. ASSUME NEW fd, NEW count, Read(fd, count)
        PROVE  disk' = disk
    BY <2>7 DEF Read, SpecialIO, Overrun
  <2>8. ASSUME NEW fd, NEW offset, NEW param, Seek(fd, offset, param)
        PROVE  disk' = disk
    BY <2>8 DEF Seek, Overrun
  <2>9. QED
    BY <1>5, <1>11, <2>1, <2>2, <2>3, <2>4, <2>5, <2>6, <2>7, <2>8 DEF PoliteCall
<1>12. QED
  BY <1>9, <1>10, <1>11 DEF PoliteNext

\* Whatever else is created, written or removed, the contents of a file change
\* only through a descriptor that is open on it.
THEOREM FilesStayIsolated == PoliteSpec => FilesIsolated
<1>1. TypeOK /\ FsInvariant /\ [PoliteNext]_vars =>
        [pc = "up" /\ ~torn =>
            \A i \in ibmap : itab[i].type = "normal" => ChangesOnlyByWrite(i)]_vars
  BY IsolationStep
<1>2. QED
  BY <1>1, PoliteInvariant, PTL DEF PoliteSpec, FilesIsolated
=============================================================================
