---------------------------- MODULE SystemProofs ----------------------------
(***************************************************************************)
(* The system as a whole.  For disciplined callers the disk mounts again   *)
(* (MountInvariant), and a power loss costs nothing that a shutdown has    *)
(* saved (CrashInvariant).  The shell never leaks a descriptor, whatever   *)
(* is typed, and is a disciplined caller while its commands are Allowed.   *)
(***************************************************************************)
EXTENDS Shell, FileSystemProofs

-----------------------------------------------------------------------------
(* Where entries stand *)

\* An entry inside its directory is what a lookup finds, also with another table
\* that has the directory's block and reaches at least as far.
LEMMA EntryIsFound ==
    ASSUME NEW I, NEW D, NEW T, NEW U \in [Inodes -> Inode],
           NEW B \in [Blocks -> [Slots -> Slot]], FsOK(I, D, T, B),
           NEW d \in Dirs(I, T), NEW k \in Slots, NEW name, NEW i,
           EntryAt(T, B, d, k, name, i), T[d].size \in Nat, U[d].size \in Nat,
           U[d].start = T[d].start, k < U[d].size
    PROVE  SearchDir(U, B, d, name) = i
<1> DEFINE M == Matches(U, B, d, name)
           m == Min(M)
           b == T[d].start
<1>1. M \in SUBSET Nat /\ k \in M
  BY DEF Matches, Slots, EntryAt
<1>2. m \in M /\ m <= k
  BY <1>1, MinInSet
<1>3. m \in Slots /\ B[b][m].name = name
  BY <1>2 DEF Matches
<1>4. k < T[d].size /\ B[b][k].name = name /\ B[b][k].ino = i
  BY DEF EntryAt
<1>5. m < T[d].size
  <2>1. m \in Nat /\ k \in Nat
    BY <1>3 DEF Slots
  <2> HIDE DEF m
  <2>2. QED
    BY <1>2, <1>4, <2>1
<1>6. m = k
  BY <1>3, <1>4, <1>5 DEF FsOK, NamesUnique
<1>7. QED
  BY <1>1, <1>4, <1>6 DEF SearchDir

\* What a lookup finds stands somewhere in the directory.
LEMMA FoundStands ==
    ASSUME NEW T \in [Inodes -> Inode], NEW B \in [Blocks -> [Slots -> Slot]],
           NEW d \in Inodes, NEW name, NEW i, i = SearchDir(T, B, d, name), i # None
    PROVE  \E k \in Slots : EntryAt(T, B, d, k, name, i)
  BY SearchDirFinds DEF EntryAt

\* Entries stay where they are when a file is created,
LEMMA AddFileMoves ==
    ASSUME TypeOK, FsOK(ibmap, dbmap, itab, disk), NEW dir, NEW name \in AllNames,
           NEW type \in {"dir", "normal", "special"},
           SeekDirectory(itab, disk, dir) \in Dirs(ibmap, itab),
           ~CreateOverruns(dir, type, FALSE), AddFile(dir, name, type),
           NEW c \in Dirs(ibmap, itab), NEW k \in Slots, NEW x, NEW i,
           EntryAt(itab, disk, c, k, x, i)
    PROVE  EntryAt(itab', disk', c, k, x, i)
<1> DEFINE d == SeekDirectory(itab, disk, dir)
           b == itab[d].start
           n == itab[d].size
<1>1. PICK ino, blk : Added(d, ino, blk, name, type)
  BY AddFileEffect
<1>2. c \in ibmap /\ d \in ibmap /\ k \in Nat
  BY DEF Dirs, Slots
<1>3. CASE c = d
  BY <1>1, <1>2, <1>3 DEF EntryAt, Added
<1>4. CASE c # d
  <2>1. itab[c].start \in Blocks /\ itab[c].start # b
    BY <1>4, DirBlocks DEF FsOK, BlocksOwned
  <2>2. QED
    BY <1>1, <1>2, <1>4, <2>1 DEF EntryAt, Added
<1>5. QED
  BY <1>3, <1>4

\* and move forward, if at all, when another one is unlinked.
LEMMA RemoveFileMoves ==
    ASSUME TypeOK, FsOK(ibmap, dbmap, itab, disk), NEW d \in Dirs(ibmap, itab), NEW name,
           NEW ino, ino = SearchDir(itab, disk, d, name), ino # None,
           NEW outside, RemoveFile(d, ino, outside),
           NEW c \in Dirs(ibmap, itab), NEW k \in Slots, NEW x, NEW i, i # ino,
           EntryAt(itab, disk, c, k, x, i)
    PROVE  \E j \in Slots : j <= k /\ EntryAt(itab', disk', c, j, x, i)
<1> DEFINE b == itab[d].start
           n == itab[d].size
<1>1. PICK m : Removed(d, ino, m)
  BY RemoveFileEffect
<1>2. c \in ibmap /\ d \in ibmap /\ k \in Nat /\ m \in Nat /\ BlockLen \in Nat
  BY <1>1, SizesAssumption DEF Dirs, Slots, Removed
<1>3. CASE c = d
  <2>1. k < n /\ disk[b][k].name = x /\ disk[b][k].ino = i /\ k # m
    BY <1>1, <1>3 DEF EntryAt, Removed
  <2>2. CASE k < m
    <3>1. k < n - 1 /\ ~(m <= k) /\ k <= k
      BY <1>1, <1>2, <2>2 DEF Removed
    <3>2. disk'[b][k] = disk[b][k] /\ itab'[c].start = b /\ itab'[c].size = n - 1
      BY <1>1, <1>2, <1>3, <3>1 DEF Removed
    <3>3. QED
      BY <2>1, <3>1, <3>2 DEF EntryAt
  <2>3. CASE m < k
    <3>1. /\ k - 1 \in Slots /\ k - 1 < n - 1 /\ ~(k - 1 < m) /\ k - 1 <= k
          /\ (k - 1) + 1 = k
      BY <1>1, <1>2, <2>1, <2>3 DEF Slots, Removed
    <3>2. disk'[b][k - 1] = disk[b][k] /\ itab'[c].start = b /\ itab'[c].size = n - 1
      BY <1>1, <1>2, <1>3, <3>1 DEF Removed
    <3>3. QED
      BY <2>1, <3>1, <3>2 DEF EntryAt
  <2>4. QED
    BY <1>2, <2>1, <2>2, <2>3
<1>4. CASE c # d
  <2>1. itab[c].start \in Blocks /\ itab[c].start # b
    BY <1>4, DirBlocks DEF FsOK, BlocksOwned
  <2>2. EntryAt(itab', disk', c, k, x, i)
    BY <1>1, <1>2, <1>4, <2>1 DEF EntryAt, Removed
  <2>3. k <= k
    BY <1>2
  <2>4. QED
    BY <2>2, <2>3
<1>5. QED
  BY <1>3, <1>4

-----------------------------------------------------------------------------
(* The kinds of steps of a kernel that runs on an untorn disk *)

\* No name changes; on the disk at most the bitmaps of memory are written.
KeepsDirs ==
    /\ pc' \in Running /\ UNCHANGED <<ibmap, dbmap, dirty, torn, kept>>
    /\ SameTables(ibmap, itab, itab')
    /\ \A i \in Dirs(ibmap, itab) : disk'[itab[i].start] = disk[itab[i].start]
    /\ saved'.ibmap \in {saved.ibmap, ibmap} /\ saved'.dbmap \in {saved.dbmap, dbmap}
    /\ saved'.itab = saved.itab /\ saved'.behind = saved.behind

Creates(dir, name, type) ==
    /\ pc' \in Running /\ dirty' = TRUE /\ UNCHANGED <<torn, kept>>
    /\ name \in AllNames /\ type \in {"dir", "normal", "special"}
    /\ SeekDirectory(itab, disk, dir) \in Dirs(ibmap, itab)
    /\ ~CreateFails(dir, name) /\ ~CreateOverruns(dir, type, FALSE)
    /\ AddFile(dir, name, type)

Unlinks(d, name, ino) ==
    /\ pc' = pc /\ dirty' = TRUE /\ torn' = torn
    /\ kept' = {e \in kept : e.ino # ino /\ e.dir # ino}
    /\ d \in Dirs(ibmap, itab) /\ ino = SearchDir(itab, disk, d, name) /\ ino # None
    /\ itab[ino].type # "special" /\ itab[ino].name # "dev"
    /\ \E outside : RemoveFile(d, ino, outside)

Overruns == pc' = "overrun" /\ UNCHANGED <<disk, saved, torn, kept>>

LEMMA QuietKeepsDirs ==
    ASSUME pc' \in Running, UNCHANGED <<mem, disk, saved, ghost>>
    PROVE  KeepsDirs
  BY DEF KeepsDirs, SameTables, mem, ghost

LEMMA CreateKinds ==
    ASSUME TypeOK, FsOK(ibmap, dbmap, itab, disk), pc' \in Running, NEW dir, Traced(dir),
           Len(dir) \in Nat, NEW name \in AllNames, NEW type \in {"dir", "normal", "special"},
           NEW allocate_fd, CreateFiletype(dir, name, type, allocate_fd)
    PROVE  Creates(dir, name, type)
<1>1. /\ ~CreateFails(dir, name) /\ ~CreateOverruns(dir, type, FALSE)
      /\ AddFile(dir, name, type) /\ dirty' = TRUE /\ UNCHANGED <<torn, kept>>
  BY DEF CreateFiletype, CreateOverruns
<1>2. SeekDirectory(itab, disk, dir) \in Dirs(ibmap, itab)
  BY <1>1, TracedIsDir DEF CreateFails
<1>3. QED
  BY <1>1, <1>2 DEF Creates

LEMMA CallKinds ==
    ASSUME TypeOK, FsInvariant, ~torn, PoliteCall
    PROVE  /\ pc = "up"
           /\ \/ Overruns
              \/ pc' = "up" /\ KeepsDirs
              \/ pc' = "up" /\ \E dir, name, type : Creates(dir, name, type)
              \/ \E d, name, ino : Unlinks(d, name, ino)
<1>1. pc = "up"
  BY DEF PoliteCall, CreateAny, Create, Open, Unlink, ListDir, Close, Read, Write, Seek
<1>2. "up" \in Running
  BY DEF Running, Mounted
<1>3. FsOK(ibmap, dbmap, itab, disk) /\ OpenFilesOK
  BY <1>1, <1>2, RunningInv
<1>4. ASSUME UNCHANGED <<pc, mem, disk, saved, ghost>>
      PROVE  pc' = "up" /\ KeepsDirs
  BY <1>1, <1>2, <1>4, QuietKeepsDirs
<1>5. ASSUME Overrun PROVE Overruns
  BY <1>5 DEF Overrun, Overruns, ghost
<1>6. ASSUME NEW dir \in DirPaths, NEW name \in Names, NEW type \in {"dir", "normal"}, NEW f,
             Traced(dir), Create(dir, name, type, f)
      PROVE  Overruns \/ (pc' = "up" /\ (KeepsDirs \/ Creates(dir, name, type)))
  <2>1. CASE CreateFiletype(dir, name, type, f) /\ UNCHANGED pc
    <3>1. name \in AllNames /\ pc' = "up"
      BY <1>1, <2>1 DEF AllNames
    <3>2. QED
      BY <1>2, <1>3, <1>6, <2>1, <3>1, CreateKinds, PathLength
  <2>2. CASE UNCHANGED <<pc, mem, fds, disk, saved, ghost, crashes>>
    BY <1>4, <2>2
  <2>3. CASE Overrun
    BY <1>5, <2>3
  <2>4. QED
    BY <1>6, <2>1, <2>2, <2>3 DEF Create, LookupStrays
<1>7. ASSUME NEW dir \in DirPaths, NEW name \in UnlinkNames, Found(dir), MayUnlink(dir, name),
             Unlink(dir, name)
      PROVE  Overruns \/ (pc' = "up" /\ KeepsDirs) \/ \E d, ino : Unlinks(d, name, ino)
  <2> DEFINE d   == SeekDirectory(itab, disk, dir)
             ino == SearchDir(itab, disk, d, name)
  <2>1. d # None /\ d \in Dirs(ibmap, itab)
    BY <1>3, <1>7, TracedIsDir, PathLength DEF Found
  <2> SUFFICES ASSUME ~Overrun
               PROVE  (pc' = "up" /\ KeepsDirs) \/ Unlinks(d, name, ino)
    BY <1>5
  <2>2. CASE ino = None
    <3>1. None \notin Inodes
      BY SizesAssumption DEF Inodes, None
    <3>2. UNCHANGED <<pc, mem, disk, saved, ghost>>
      BY <1>7, <2>1, <2>2, <3>1 DEF Unlink, LookupStrays
    <3>3. QED
      BY <1>4, <3>2
  <2>3. CASE ino # None
    <3>1. /\ ino \in Inodes /\ \E outside : RemoveFile(d, ino, outside)
          /\ dirty' = TRUE /\ UNCHANGED <<pc, torn>>
          /\ kept' = {e \in kept : e.ino # ino /\ e.dir # ino}
      BY <1>7, <2>1, <2>3 DEF Unlink, LookupStrays
    <3>2. itab[ino].type # "special" /\ itab[ino].name # "dev"
      BY <1>7, <3>1 DEF MayUnlink, Target
    <3>3. QED
      BY <2>1, <2>3, <3>1, <3>2 DEF Unlinks
  <2>4. QED
    BY <2>2, <2>3
<1>8. ASSUME NEW f \in fdmap, NEW count \in Counts, NEW v \in Data, Write(f, count, v)
      PROVE  pc' = "up" /\ KeepsDirs
  <2>1. fdtab[f].ino \in Inodes
    BY <1>3 DEF OpenFilesOK, TypeOK
  <2>2. CASE SpecialIO("write", count)
    BY <1>4, <2>2 DEF SpecialIO
  <2>3. CASE itab[fdtab[f].ino].type # "special"
    <3>1. /\ SameTables(ibmap, itab, itab')
          /\ \A i \in Dirs(ibmap, itab) : disk'[itab[i].start] = disk[itab[i].start]
          /\ saved'.ibmap = saved.ibmap /\ saved'.dbmap = saved.dbmap
          /\ saved'.itab = saved.itab /\ saved'.behind = saved.behind
          /\ UNCHANGED <<pc, ibmap, dbmap, dirty, torn, kept>>
      BY <1>3, <1>8, <2>3, WriteKeepsDirs
    <3>2. QED
      BY <1>1, <1>2, <3>1 DEF KeepsDirs
  <2>4. QED
    BY <1>8, <2>1, <2>2, <2>3 DEF Write
<1>9. CASE \E dir \in DirPaths, name \in Names : Traced(dir) /\ CreateAny(dir, name)
  BY <1>1, <1>6, <1>9 DEF CreateAny
<1>10. CASE \E dir \in DirPaths, name \in UnlinkNames :
                Found(dir) /\ MayOpen(dir, name) /\ Open(dir, name)
  BY <1>1, <1>4, <1>5, <1>10 DEF Open, Found, LookupStrays
<1>11. ASSUME NEW dir, ListDir(dir)
       PROVE  Overruns \/ (pc' = "up" /\ KeepsDirs)
  BY <1>4, <1>5, <1>11 DEF ListDir
<1>12. ASSUME NEW f, Close(f)
       PROVE  pc' = "up" /\ KeepsDirs
  BY <1>4, <1>12 DEF Close
<1>13. ASSUME NEW f, NEW count, Read(f, count)
       PROVE  Overruns \/ (pc' = "up" /\ KeepsDirs)
  BY <1>4, <1>5, <1>13 DEF Read, SpecialIO
<1>14. ASSUME NEW f, NEW offset, NEW param, Seek(f, offset, param)
       PROVE  Overruns \/ (pc' = "up" /\ KeepsDirs)
  BY <1>4, <1>5, <1>14 DEF Seek
<1>15. QED
  BY <1>1, <1>7, <1>8, <1>9, <1>10, <1>11, <1>12, <1>13, <1>14 DEF PoliteCall

\* The steps of shutdown before the last leave memory as it is.
LEMMA ShutdownKinds ==
    ASSUME TypeOK, FsInvariant, ~torn, Shutdown \/ SyncSuper \/ SyncIbmap \/ SyncDbmap
    PROVE  KeepsDirs
<1>1. pc \in Running /\ pc' \in Running
  BY DEF Shutdown, SyncSuper, SyncIbmap, SyncDbmap, Running, Mounted, ShutdownSteps
<1>2. FsOK(ibmap, dbmap, itab, disk)
  BY <1>1, RunningInv
<1>3. UNCHANGED <<ibmap, dbmap, itab, dirty, torn, kept>>
  BY DEF Shutdown, SyncSuper, SyncIbmap, SyncDbmap, mem, ghost
<1>4. disk' = disk \/ disk' = [disk EXCEPT ![0] = SuperBlock]
  BY DEF Shutdown, SyncSuper, SyncIbmap, SyncDbmap
<1>5. \A i \in Dirs(ibmap, itab) : disk'[itab[i].start] = disk[itab[i].start]
  BY <1>2, <1>4, DirBlocks DEF TypeOK
<1>6. /\ saved'.ibmap \in {saved.ibmap, ibmap} /\ saved'.dbmap \in {saved.dbmap, dbmap}
      /\ saved'.itab = saved.itab /\ saved'.behind = saved.behind
  BY DEF Shutdown, SyncSuper, SyncIbmap, SyncDbmap, TypeOK, Metadata
<1>7. QED
  BY <1>1, <1>3, <1>5, <1>6 DEF KeepsDirs, SameTables

-----------------------------------------------------------------------------
(* MountInvariant is inductive *)

\* What stands in a directory is an inode of that name.
LEMMA LinkedInode ==
    ASSUME NEW I, NEW D, NEW T, NEW B, FsOK(I, D, T, B), NEW d \in Dirs(I, T), NEW name, NEW i,
           Linked(T, B, d, name, i)
    PROVE  i \in I \ {0, d} /\ T[i].name = name /\ T[i].parent = d
<1>1. PICK k \in Slots : EntryAt(T, B, d, k, name, i)
  BY DEF Linked
<1>2. EntryOK(I, T, d, B[T[d].start][k])
  BY <1>1 DEF FsOK, EntriesOK, EntryAt
<1>3. QED
  BY <1>1, <1>2 DEF EntryAt, EntryOK

\* seek_directory and search_dir find what is linked.
LEMMA LinkedFound ==
    ASSUME TypeOK, FsOK(ibmap, dbmap, itab, disk), NEW d \in Dirs(ibmap, itab), NEW name, NEW i,
           Linked(itab, disk, d, name, i)
    PROVE  SearchDir(itab, disk, d, name) = i /\ i # None
<1>1. PICK k \in Slots : EntryAt(itab, disk, d, k, name, i)
  BY DEF Linked
<1>2. d \in Inodes /\ itab \in [Inodes -> Inode] /\ disk \in [Blocks -> [Slots -> Slot]]
  BY DEF Dirs, TypeOK
<1>3. itab[d].size \in Nat /\ k < itab[d].size
  BY <1>1, <1>2 DEF Inode, EntryAt
<1>4. SearchDir(itab, disk, d, name) = i
  BY <1>1, <1>2, <1>3, EntryIsFound
<1>5. i \in ibmap
  BY LinkedInode
<1>6. QED
  BY <1>4, <1>5, SizesAssumption DEF TypeOK, Inodes, None

LEMMA RootIsDir ==
    ASSUME NEW I, NEW D, NEW T, NEW B, FsOK(I, D, T, B)
    PROVE  0 \in Dirs(I, T)
  BY DEF FsOK, RootOK, Dirs

LEMMA DevFound ==
    ASSUME TypeOK, FsOK(ibmap, dbmap, itab, disk), NEW d \in Dirs(ibmap, itab),
           Linked(itab, disk, 0, "dev", d)
    PROVE  SeekDirectory(itab, disk, <<"dev">>) = d /\ d # None
<1>1. SearchDir(itab, disk, 0, "dev") = d /\ d # None
  BY LinkedFound, RootIsDir
<1>2. itab[d].type = "dir"
  BY DEF Dirs
<1>3. QED
  BY <1>1, <1>2 DEF SeekDirectory, Dirs, TypeOK

\* Only names and directories matter.
LEMMA MadeSame ==
    ASSUME NEW I, NEW T, NEW U, NEW B, NEW C, NEW todo, SystemFilesMade(I, T, B, todo),
           0 \in Dirs(I, T), SameTables(I, T, U),
           \A i \in Dirs(I, T) : C[T[i].start] = B[T[i].start]
    PROVE  SystemFilesMade(I, U, C, todo)
<1>1. Dirs(I, U) = Dirs(I, T) /\ \A i \in I : U[i].name = T[i].name
  BY DEF SameTables, Dirs
<1>2. \A d \in Dirs(I, T) : \A name, i : Linked(T, B, d, name, i) => Linked(U, C, d, name, i)
  BY DEF Linked, EntryAt, SameTables, Dirs
<1>3. QED
  BY <1>1, <1>2 DEF SystemFilesMade

LEMMA AddFileLinks ==
    ASSUME TypeOK, FsOK(ibmap, dbmap, itab, disk), NEW dir, NEW name, NEW type,
           Creates(dir, name, type)
    PROVE  /\ \A c \in Dirs(ibmap, itab) : \A x, i :
                 Linked(itab, disk, c, x, i) => Linked(itab', disk', c, x, i)
           /\ \E ino \in ibmap' :
                 /\ ino \notin ibmap /\ ibmap' = ibmap \cup {ino}
                 /\ Linked(itab', disk', SeekDirectory(itab, disk, dir), name, ino)
                 /\ itab'[ino].name = name /\ itab'[ino].type = type
           /\ \A i \in ibmap : itab'[i].name = itab[i].name /\ itab'[i].type = itab[i].type
<1> DEFINE d == SeekDirectory(itab, disk, dir)
<1>1. /\ name \in AllNames /\ type \in {"dir", "normal", "special"} /\ d \in Dirs(ibmap, itab)
      /\ ~CreateOverruns(dir, type, FALSE) /\ AddFile(dir, name, type)
  BY DEF Creates
<1>2. \A c \in Dirs(ibmap, itab) : \A x, i :
          Linked(itab, disk, c, x, i) => Linked(itab', disk', c, x, i)
  BY <1>1, AddFileMoves DEF Linked
<1>3. PICK ino, blk : Added(d, ino, blk, name, type)
  BY <1>1, AddFileEffect
<1>4. d \in ibmap /\ itab'[d].start = itab[d].start
  BY <1>1, <1>3 DEF Dirs, Added
<1>5. EntryAt(itab', disk', d, itab[d].size, name, ino) /\ itab[d].size \in Slots
  BY <1>3, <1>4 DEF EntryAt, Added
<1>6. Linked(itab', disk', d, name, ino)
  BY <1>5 DEF Linked
<1>7. /\ ino \in ibmap' /\ ino \notin ibmap /\ ibmap' = ibmap \cup {ino}
      /\ itab'[ino].name = name /\ itab'[ino].type = type
      /\ \A i \in ibmap : itab'[i].name = itab[i].name /\ itab'[i].type = itab[i].type
  BY <1>3 DEF Added
<1>8. QED
  BY <1>2, <1>6, <1>7

LEMMA MadeAfterCreate ==
    ASSUME TypeOK, FsOK(ibmap, dbmap, itab, disk), NEW dir, NEW name, NEW type,
           Creates(dir, name, type), NEW todo, name \notin todo,
           SystemFilesMade(ibmap, itab, disk, todo)
    PROVE  SystemFilesMade(ibmap', itab', disk', todo)
<1>1. 0 \in Dirs(ibmap, itab)
  BY RootIsDir
<1>2. /\ \A c \in Dirs(ibmap, itab) : \A x, i :
            Linked(itab, disk, c, x, i) => Linked(itab', disk', c, x, i)
      /\ \E ino \in ibmap' : ibmap' = ibmap \cup {ino} /\ itab'[ino].name = name
      /\ \A i \in ibmap : itab'[i].name = itab[i].name /\ itab'[i].type = itab[i].type
  BY AddFileLinks
<1>3. Dirs(ibmap, itab) \subseteq Dirs(ibmap', itab')
  BY <1>2 DEF Dirs
<1>4. \A i \in ibmap' : itab'[i].name \notin todo
  BY <1>2 DEF SystemFilesMade
<1>5. QED
  BY <1>1, <1>2, <1>3, <1>4 DEF SystemFilesMade

LEMMA MadeInDev ==
    ASSUME TypeOK, FsOK(ibmap, dbmap, itab, disk), NEW f \in SystemFiles,
           Creates(<<"dev">>, f, "special"), NEW todo, "dev" \notin todo,
           SystemFilesMade(ibmap, itab, disk, todo)
    PROVE  SystemFilesMade(ibmap', itab', disk', todo \ {f})
<1>1. PICK d \in Dirs(ibmap, itab) :
          /\ Linked(itab, disk, 0, "dev", d)
          /\ \A g \in SystemFiles \ todo : \E i \in ibmap : Linked(itab, disk, d, g, i)
  BY DEF SystemFilesMade
<1>2. SeekDirectory(itab, disk, <<"dev">>) = d /\ 0 \in Dirs(ibmap, itab)
  BY <1>1, DevFound, RootIsDir
<1>3. \A c \in Dirs(ibmap, itab) : \A x, i :
          Linked(itab, disk, c, x, i) => Linked(itab', disk', c, x, i)
  BY AddFileLinks
<1>4. PICK ino \in ibmap' : /\ ibmap' = ibmap \cup {ino} /\ itab'[ino].name = f
                            /\ Linked(itab', disk', d, f, ino)
  BY <1>2, AddFileLinks
<1>5. \A i \in ibmap : itab'[i].name = itab[i].name /\ itab'[i].type = itab[i].type
  BY AddFileLinks
<1>6. d \in Dirs(ibmap', itab')
  BY <1>4, <1>5 DEF Dirs
<1>7. \A i \in ibmap' : itab'[i].name \notin todo \ {f}
  BY <1>4, <1>5 DEF SystemFilesMade
<1>8. \A g \in SystemFiles \ (todo \ {f}) : \E i \in ibmap' : Linked(itab', disk', d, g, i)
  BY <1>1, <1>3, <1>4
<1>9. Linked(itab', disk', 0, "dev", d)
  BY <1>1, <1>2, <1>3
<1>10. QED
  BY <1>6, <1>7, <1>8, <1>9 DEF SystemFilesMade

\* A disciplined caller unlinks neither /dev nor a system file.
LEMMA MadeAfterUnlink ==
    ASSUME TypeOK, FsInv(ibmap, dbmap, itab, disk), NEW d, NEW name, NEW ino,
           Unlinks(d, name, ino), SystemFilesMade(ibmap, itab, disk, {})
    PROVE  SystemFilesMade(ibmap', itab', disk', {})
<1>1. FsOK(ibmap, dbmap, itab, disk) /\ SystemTyped(ibmap, itab)
  BY DEF FsInv
<1>2. /\ d \in Dirs(ibmap, itab) /\ ino = SearchDir(itab, disk, d, name) /\ ino # None
      /\ itab[ino].type # "special" /\ itab[ino].name # "dev"
  BY DEF Unlinks
<1>3. PICK outside : RemoveFile(d, ino, outside)
  BY DEF Unlinks
<1>4. PICK m : Removed(d, ino, m)
  BY <1>1, <1>2, <1>3, RemoveFileEffect
<1>5. ASSUME NEW c \in Dirs(ibmap, itab), NEW x, NEW i, i # ino, Linked(itab, disk, c, x, i)
      PROVE  Linked(itab', disk', c, x, i)
  <2>1. PICK k \in Slots : EntryAt(itab, disk, c, k, x, i)
    BY <1>5 DEF Linked
  <2>2. QED
    BY <1>1, <1>2, <1>3, <1>5, <2>1, RemoveFileMoves DEF Linked
<1>6. PICK dv \in Dirs(ibmap, itab) :
          /\ Linked(itab, disk, 0, "dev", dv)
          /\ \A g \in SystemFiles : \E i \in ibmap : Linked(itab, disk, dv, g, i)
  BY DEF SystemFilesMade
<1>7. 0 \in Dirs(ibmap, itab)
  BY <1>1, RootIsDir
<1>8. dv # ino
  BY <1>1, <1>2, <1>6, <1>7, LinkedInode
<1>9. dv \in Dirs(ibmap', itab') /\ Linked(itab', disk', 0, "dev", dv)
  BY <1>4, <1>5, <1>6, <1>7, <1>8 DEF Removed, Dirs
<1>10. ASSUME NEW g \in SystemFiles PROVE \E i \in ibmap' : Linked(itab', disk', dv, g, i)
  <2>1. PICK i \in ibmap : Linked(itab, disk, dv, g, i)
    BY <1>6
  <2>2. itab[i].name = g
    BY <1>1, <2>1, LinkedInode
  <2>3. i # ino
    BY <1>1, <1>2, <2>1, <2>2 DEF SystemTyped
  <2>4. QED
    BY <1>4, <1>5, <2>1, <2>3 DEF Removed
<1>11. QED
  BY <1>9, <1>10 DEF SystemFilesMade

LEMMA MountRunning ==
    ASSUME pc' \in Running, Unmade(pc') # {} => dirty',
           ~torn' => pc' # "panic" /\ SystemFilesMade(ibmap', itab', disk', Unmade(pc'))
    PROVE  MountInvariant'
<1>1. pc' # "off"
  BY DEF Running, Mounted, BootSteps, ShutdownSteps
<1>2. QED
  BY <1>1 DEF MountInvariant

LEMMA UnmadeValues ==
    /\ Unmade("fmt_root") = {"dev"} \cup SystemFiles
    /\ Unmade("mk_dev") = {"dev"} \cup SystemFiles
    /\ Unmade("mk_tty") = SystemFiles /\ Unmade("mk_ttyS") = {"ttyS"}
    /\ \A step \in {"off", "open_tty", "open_ttyS", "up", "panic", "overrun"}
                     \cup FormatSteps \cup ShutdownSteps : Unmade(step) = {}
<1>1. Unmade("fmt_root") = {"dev"} \cup SystemFiles /\ Unmade("mk_dev") = {"dev"} \cup SystemFiles
  BY DEF Unmade
<1>2. Unmade("mk_tty") = SystemFiles
  BY DEF Unmade
<1>3. Unmade("mk_ttyS") = {"ttyS"}
  BY DEF Unmade
<1>4. \A step \in {"off", "open_tty", "open_ttyS", "up", "panic", "overrun"}
                     \cup FormatSteps \cup ShutdownSteps : Unmade(step) = {}
  BY DEF Unmade, FormatSteps, ShutdownSteps
<1>5. QED
  BY <1>1, <1>2, <1>3, <1>4

\* Steps to a place where neither memory nor the disk is looked at.
LEMMA MountElsewhere ==
    ASSUME pc' \in FormatSteps \cup {"overrun"}
    PROVE  MountInvariant'
<1>1. Unmade(pc') = {}
  BY UnmadeValues
<1>2. QED
  BY <1>1 DEF MountInvariant, Running, Mounted, BootSteps, ShutdownSteps, FormatSteps

LEMMA MountKeepsDirs ==
    ASSUME TypeOK, FsInvariant, MountInvariant, pc \in Running, KeepsDirs, ~torn,
           Unmade(pc') = Unmade(pc), pc' # "panic"
    PROVE  MountInvariant'
<1>1. FsOK(ibmap, dbmap, itab, disk)
  BY RunningInv
<1>2. SystemFilesMade(ibmap, itab, disk, Unmade(pc)) /\ (Unmade(pc) # {} => dirty)
  BY DEF MountInvariant
<1>3. /\ pc' \in Running /\ UNCHANGED <<ibmap, dirty>> /\ SameTables(ibmap, itab, itab')
      /\ \A i \in Dirs(ibmap, itab) : disk'[itab[i].start] = disk[itab[i].start]
  BY DEF KeepsDirs
<1>4. SystemFilesMade(ibmap, itab', disk', Unmade(pc))
  BY <1>1, <1>2, <1>3, MadeSame, RootIsDir
<1>5. QED
  BY <1>2, <1>3, <1>4, MountRunning

LEMMA MountGoDown ==
    ASSUME TypeOK, FsInvariant, MountInvariant, GoDown, pc \notin {"off", "overrun"}
    PROVE  MountInvariant'
<1>1. /\ pc' = "off" /\ saved' = saved /\ disk' = disk /\ torn' = (torn \/ dirty)
  BY DEF GoDown
<1>2. ASSUME ~torn, ~dirty
      PROVE  SystemFilesMade(saved.ibmap, saved.itab, disk, {})
  <2>1. pc \in Running
    BY <1>2 DEF TypeOK, PcValues, Running, Mounted, FsInvariant, Formatting
  <2>2. FsOK(ibmap, dbmap, itab, disk) /\ SavedAgrees
    BY <1>2, <2>1, RunningInv
  <2>3. SystemFilesMade(ibmap, itab, disk, {})
    BY <1>2, <2>1 DEF MountInvariant
  <2>4. SystemFilesMade(ibmap, saved.itab, disk, {})
    BY <2>2, <2>3, MadeSame, RootIsDir DEF SavedAgrees
  <2>5. QED
    BY <2>2, <2>4 DEF SavedAgrees
<1>3. Unmade(pc') = {} /\ pc' \notin Running
  BY <1>1, UnmadeValues DEF Running, Mounted, BootSteps, ShutdownSteps
<1>4. QED
  BY <1>1, <1>2, <1>3 DEF MountInvariant

LEMMA MountCall ==
    ASSUME TypeOK, FsInvariant, MountInvariant, ~torn, PoliteCall
    PROVE  MountInvariant'
<1>1. /\ pc = "up"
      /\ \/ Overruns
         \/ pc' = "up" /\ KeepsDirs
         \/ pc' = "up" /\ \E dir, name, type : Creates(dir, name, type)
         \/ \E d, name, ino : Unlinks(d, name, ino)
  BY CallKinds
<1>2. pc \in Running /\ Unmade("up") = {}
  BY <1>1, UnmadeValues DEF Running, Mounted
<1>3. FsInv(ibmap, dbmap, itab, disk) /\ FsOK(ibmap, dbmap, itab, disk)
  BY <1>2, RunningInv
<1>4. SystemFilesMade(ibmap, itab, disk, {})
  BY <1>1, <1>2 DEF MountInvariant
<1>5. CASE Overruns
  BY <1>5, MountElsewhere DEF Overruns
<1>6. CASE pc' = "up" /\ KeepsDirs
  BY <1>1, <1>2, <1>6, MountKeepsDirs
<1>7. ASSUME pc' = "up", SystemFilesMade(ibmap', itab', disk', {})
      PROVE  MountInvariant'
  BY <1>1, <1>2, <1>7, MountRunning
<1>8. CASE pc' = "up" /\ \E dir, name, type : Creates(dir, name, type)
  BY <1>3, <1>4, <1>7, <1>8, MadeAfterCreate
<1>9. CASE \E d, name, ino : Unlinks(d, name, ino)
  <2>1. pc' = "up"
    BY <1>1, <1>9 DEF Unlinks
  <2>2. QED
    BY <1>3, <1>4, <1>7, <1>9, <2>1, MadeAfterUnlink
<1>10. QED
  BY <1>1, <1>5, <1>6, <1>8, <1>9

\* create_system_files makes each name for the first time.
LEMMA MountCreates ==
    ASSUME TypeOK, FsInvariant, MountInvariant, CreateSystemFile
    PROVE  MountInvariant'
<1> DEFINE dir  == IF pc = "mk_dev" THEN << >> ELSE <<"dev">>
           name == CASE pc = "mk_dev" -> "dev" [] pc = "mk_tty" -> "tty"
                     [] pc = "mk_ttyS" -> "ttyS"
           type == IF pc = "mk_dev" THEN "dir" ELSE "special"
           d    == SeekDirectory(itab, disk, dir)
<1>1. pc \in {"mk_dev", "mk_tty", "mk_ttyS"}
  BY DEF CreateSystemFile, NextMake
<1>2. pc \in Running /\ Unmade(pc) # {} /\ dirty
  BY <1>1, UnmadeValues DEF Running, Mounted, BootSteps, MountInvariant, SystemFiles
<1>3. CASE CreateFails(dir, name) /\ torn
  <2>1. pc' \in {"mk_tty", "panic"} /\ torn' = torn /\ dirty' = dirty
    BY <1>3 DEF CreateSystemFile, ghost
  <2>2. pc' \in Running
    BY <2>1 DEF Running, Mounted, BootSteps
  <2>3. QED
    BY <1>2, <1>3, <2>1, <2>2, MountRunning
<1>4. ASSUME ~torn
      PROVE  ~CreateFails(dir, name) /\ d \in Dirs(ibmap, itab) /\ Traced(dir) /\ Len(dir) \in Nat
  <2>1. FsOK(ibmap, dbmap, itab, disk) /\ 0 \in Dirs(ibmap, itab)
    BY <1>2, <1>4, RunningInv, RootIsDir
  <2>2. SystemFilesMade(ibmap, itab, disk, Unmade(pc))
    BY <1>2, <1>4 DEF MountInvariant
  <2>3. Traced(dir) /\ Len(dir) \in Nat
    BY DEF Traced
  <2>4. d # None
    <3>1. CASE pc = "mk_dev"
      <4>1. d = 0
        BY <2>1, <3>1 DEF SeekDirectory, Dirs, TypeOK, None
      <4>2. QED
        BY <4>1 DEF None
    <3>2. CASE pc # "mk_dev"
      <4>1. "dev" \notin Unmade(pc)
        BY <1>1, <3>2, UnmadeValues DEF SystemFiles
      <4>2. PICK dv \in Dirs(ibmap, itab) : Linked(itab, disk, 0, "dev", dv)
        BY <2>2, <4>1 DEF SystemFilesMade
      <4>3. QED
        BY <2>1, <3>2, <4>2, DevFound
    <3>3. QED
      BY <3>1, <3>2
  <2>5. d \in Dirs(ibmap, itab)
    BY <2>1, <2>3, <2>4, TracedIsDir
  <2>6. name \in Unmade(pc)
    BY <1>1, UnmadeValues DEF SystemFiles
  <2> HIDE DEF name, dir, d
  <2>7. SearchDir(itab, disk, d, name) = None
    BY <2>1, <2>2, <2>5, <2>6, FoundEntry DEF SystemFilesMade
  <2>8. QED
    BY <2>3, <2>4, <2>5, <2>7 DEF CreateFails, d
<1>5. CASE Overrun
  BY <1>5, MountElsewhere DEF Overrun
<1>6. CASE ~CreateFails(dir, name) /\ CreateFiletype(dir, name, type, FALSE) /\ pc' = NextMake[pc]
  <2>1. pc' \in Running /\ pc' # "panic" /\ dirty' = TRUE /\ torn' = torn
    BY <1>1, <1>6 DEF NextMake, Running, Mounted, BootSteps, CreateFiletype
  <2>2. ASSUME ~torn PROVE SystemFilesMade(ibmap', itab', disk', Unmade(pc'))
    <3>1. FsOK(ibmap, dbmap, itab, disk) /\ 0 \in Dirs(ibmap, itab)
      BY <1>2, <2>2, RunningInv, RootIsDir
    <3>2. SystemFilesMade(ibmap, itab, disk, Unmade(pc))
      BY <1>2, <2>2 DEF MountInvariant
    <3>3. name \in AllNames /\ type \in {"dir", "normal", "special"}
      BY <1>1 DEF AllNames, SystemFiles
    <3>4. Creates(dir, name, type)
      <4>1. Traced(dir) /\ Len(dir) \in Nat
        BY <1>4, <2>2
      <4> HIDE DEF dir, name, type
      <4>2. QED
        BY <1>6, <2>1, <3>1, <3>3, <4>1, CreateKinds
    <3>5. CASE pc = "mk_dev"
      <4>1. Creates(<< >>, "dev", "dir") /\ pc' = "mk_tty"
        BY <1>6, <3>4, <3>5 DEF NextMake
      <4>2. SeekDirectory(itab, disk, << >>) = 0
        BY <3>1 DEF SeekDirectory, Dirs, TypeOK, None
      <4>3. PICK ino \in ibmap' : /\ ibmap' = ibmap \cup {ino}
                                  /\ Linked(itab', disk', 0, "dev", ino)
                                  /\ itab'[ino].name = "dev" /\ itab'[ino].type = "dir"
        BY <3>1, <4>1, <4>2, AddFileLinks
      <4>4. \A i \in ibmap : itab'[i].name = itab[i].name
        BY <3>1, <4>1, AddFileLinks
      <4>5. \A i \in ibmap' : itab'[i].name \notin SystemFiles
        BY <3>2, <3>5, <4>3, <4>4, UnmadeValues DEF SystemFilesMade, SystemFiles
      <4>6. ino \in Dirs(ibmap', itab')
        BY <4>3 DEF Dirs
      <4>7. SystemFilesMade(ibmap', itab', disk', SystemFiles)
        BY <4>3, <4>5, <4>6 DEF SystemFilesMade
      <4>8. QED
        BY <4>1, <4>7, UnmadeValues
    <3>6. CASE pc = "mk_tty"
      <4>1. Creates(<<"dev">>, "tty", "special") /\ pc' = "mk_ttyS"
        BY <1>6, <3>4, <3>6 DEF NextMake
      <4>2. /\ SystemFilesMade(ibmap, itab, disk, SystemFiles) /\ "dev" \notin SystemFiles
            /\ "tty" \in SystemFiles /\ SystemFiles \ {"tty"} = Unmade(pc')
        BY <3>2, <3>6, <4>1, UnmadeValues DEF SystemFiles
      <4>3. SystemFilesMade(ibmap', itab', disk', SystemFiles \ {"tty"})
        BY <3>1, <4>1, <4>2, MadeInDev
      <4>4. QED
        BY <4>2, <4>3
    <3>7. CASE pc = "mk_ttyS"
      <4>1. Creates(<<"dev">>, "ttyS", "special") /\ pc' = "open_tty"
        BY <1>6, <3>4, <3>7 DEF NextMake
      <4>2. /\ SystemFilesMade(ibmap, itab, disk, {"ttyS"}) /\ "dev" \notin {"ttyS"}
            /\ "ttyS" \in SystemFiles /\ {"ttyS"} \ {"ttyS"} = Unmade(pc')
        BY <3>2, <3>7, <4>1, UnmadeValues DEF SystemFiles
      <4>3. SystemFilesMade(ibmap', itab', disk', {"ttyS"} \ {"ttyS"})
        BY <3>1, <4>1, <4>2, MadeInDev
      <4>4. QED
        BY <4>2, <4>3
    <3>8. QED
      BY <1>1, <3>5, <3>6, <3>7
  <2>3. QED
    BY <2>1, <2>2, MountRunning
<1>7. QED
  BY <1>3, <1>4, <1>5, <1>6 DEF CreateSystemFile

\* open_system_files finds them.
LEMMA MountOpens ==
    ASSUME TypeOK, FsInvariant, MountInvariant, OpenSystemFile
    PROVE  MountInvariant'
<1> DEFINE d    == SeekDirectory(itab, disk, <<"dev">>)
           name == IF pc = "open_tty" THEN "tty" ELSE "ttyS"
           ino  == SearchDir(itab, disk, d, name)
<1>1. pc \in {"open_tty", "open_ttyS"}
  BY DEF OpenSystemFile, NextOpen
<1>2. pc \in Running /\ Unmade(pc) = {}
  BY <1>1, UnmadeValues DEF Running, Mounted, BootSteps
<1>3. ASSUME ~torn PROVE d # None /\ ino # None
  <2>1. FsOK(ibmap, dbmap, itab, disk)
    BY <1>2, <1>3, RunningInv
  <2>2. SystemFilesMade(ibmap, itab, disk, {})
    BY <1>2, <1>3 DEF MountInvariant
  <2>3. PICK dv \in Dirs(ibmap, itab) :
            /\ Linked(itab, disk, 0, "dev", dv)
            /\ \A g \in SystemFiles : \E i \in ibmap : Linked(itab, disk, dv, g, i)
    BY <2>2 DEF SystemFilesMade
  <2>4. d = dv /\ d # None
    BY <2>1, <2>3, DevFound
  <2>5. name \in SystemFiles
    BY DEF SystemFiles
  <2> HIDE DEF name, d
  <2>6. ino # None
    BY <2>1, <2>3, <2>4, <2>5, LinkedFound
  <2>7. QED
    BY <2>4, <2>6
<1>4. CASE Overrun
  BY <1>4, MountElsewhere DEF Overrun
<1>5. CASE (d = None \/ ino = None) /\ pc' = "panic" /\ torn' = torn
  <2>1. pc' \in Running /\ Unmade(pc') = {}
    BY <1>5, UnmadeValues DEF Running
  <2>2. QED
    BY <1>3, <1>5, <2>1, MountRunning
<1>6. CASE pc' = NextOpen[pc] /\ UNCHANGED <<mem, disk, saved, call, ghost, crashes>>
  <2>1. pc' \in Running /\ pc' # "panic" /\ Unmade(pc') = {}
    BY <1>1, <1>6, UnmadeValues DEF Running, Mounted, BootSteps, NextOpen
  <2>2. UNCHANGED <<ibmap, itab, disk, torn>>
    BY <1>6 DEF mem, ghost
  <2>3. ~torn => SystemFilesMade(ibmap, itab, disk, {})
    BY <1>2 DEF MountInvariant
  <2>4. QED
    BY <2>1, <2>2, <2>3, MountRunning
<1>7. QED
  BY <1>4, <1>5, <1>6 DEF OpenSystemFile, LookupStrays, ghost

LEMMA MountPower ==
    ASSUME TypeOK, FsInvariant, MountInvariant, Power
    PROVE  MountInvariant'
<1>1. CASE Crash
  BY <1>1, MountGoDown DEF Crash
<1>2. CASE BootRecognized
  <2>1. /\ pc' = "open_tty" /\ UNCHANGED <<disk, torn>>
        /\ ibmap' = saved.ibmap /\ itab' = saved.itab
    BY <1>2 DEF BootRecognized
  <2>2. ~torn => SystemFilesMade(saved.ibmap, saved.itab, disk, {})
    BY <1>2 DEF BootRecognized, MountInvariant
  <2>3. Unmade(pc') = {} /\ pc' \in Running
    BY <2>1, UnmadeValues DEF Running, Mounted, BootSteps
  <2>4. QED
    BY <2>1, <2>2, <2>3, MountRunning
<1>3. CASE BootBlank \/ FormatSuper \/ FormatIbmap \/ FormatDbmap
  BY <1>3, MountElsewhere
     DEF BootBlank, FormatSuper, FormatIbmap, FormatDbmap, FormatSteps
<1>4. CASE FormatItab
  <2>1. pc' = "fmt_root" /\ ibmap' = {0} /\ dirty'
    BY <1>4 DEF FormatItab, FsInvariant, Formatting, FormatSteps, ghost
  <2>2. itab'[0].name = ""
    BY <1>4, Constants DEF FormatItab, TypeOK, RootInode, ZeroInode
  <2>3. SystemFilesMade(ibmap', itab', disk', Unmade(pc'))
    BY <2>1, <2>2, UnmadeValues DEF SystemFilesMade, SystemFiles
  <2>4. QED
    BY <2>1, <2>3, MountRunning DEF Running, Mounted, BootSteps
<1>5. CASE FormatRoot
  <2>1. pc = "fmt_root"
    BY <1>5 DEF FormatRoot
  <2>2. CASE GoDown
    BY <2>1, <2>2, MountGoDown
  <2>3. CASE pc' = "mk_dev" /\ UNCHANGED <<mem, fds, disk, saved, call, ghost, crashes>>
    <3>1. pc \in Running /\ pc' \in Running /\ Unmade(pc') = Unmade(pc)
      BY <2>1, <2>3, UnmadeValues DEF Running, Mounted, BootSteps
    <3>2. UNCHANGED <<ibmap, itab, disk, torn, dirty>>
      BY <2>3 DEF mem, ghost
    <3>3. QED
      BY <2>3, <3>1, <3>2, MountRunning DEF MountInvariant
  <2>4. QED
    BY <1>5, <2>2, <2>3 DEF FormatRoot
<1>6. CASE Shutdown \/ SyncSuper \/ SyncIbmap \/ SyncDbmap
  <2>1. pc \in {"up"} \cup ShutdownSteps /\ pc' \in ShutdownSteps /\ torn' = torn
    BY <1>6 DEF Shutdown, SyncSuper, SyncIbmap, SyncDbmap, ShutdownSteps, ghost
  <2>2. pc \in Running /\ pc' \in Running /\ Unmade(pc) = {} /\ Unmade(pc') = {} /\ pc' # "panic"
    BY <2>1, UnmadeValues DEF Running, Mounted, ShutdownSteps
  <2>3. CASE torn
    BY <2>1, <2>2, <2>3, MountRunning
  <2>4. CASE ~torn
    BY <1>6, <2>2, <2>4, ShutdownKinds, MountKeepsDirs
  <2>5. QED
    BY <2>3, <2>4
<1>7. CASE SyncItab
  <2>1. pc = "sync_itab" /\ pc' = "off" /\ UNCHANGED <<disk, torn>>
    BY <1>7 DEF SyncItab
  <2>2. saved'.itab = itab /\ saved'.ibmap = ibmap
    BY <1>7 DEF SyncItab, FsInvariant, Syncing, TypeOK, Metadata
  <2>3. pc \in Running /\ Unmade(pc) = {} /\ Unmade(pc') = {} /\ pc' \notin Running
    BY <2>1, UnmadeValues DEF Running, Mounted, BootSteps, ShutdownSteps
  <2>4. ~torn => SystemFilesMade(ibmap, itab, disk, {})
    BY <2>3 DEF MountInvariant
  <2>5. QED
    BY <2>1, <2>2, <2>3, <2>4 DEF MountInvariant
<1>8. QED
  BY <1>1, <1>2, <1>3, <1>4, <1>5, <1>6, <1>7, MountCreates, MountOpens DEF Power

LEMMA MountStep ==
    ASSUME TypeOK, FsInvariant, MountInvariant, [PoliteNext]_vars
    PROVE  MountInvariant'
<1>1. CASE UNCHANGED vars
  <2>1. UNCHANGED <<pc, ibmap, itab, disk, saved, dirty, torn>>
    BY <1>1 DEF vars, mem, ghost
  <2>2. QED
    BY <2>1 DEF MountInvariant
<1>2. QED
  BY <1>1, MountPower, MountCall DEF PoliteNext

LEMMA MountInit == Init => MountInvariant
<1>1. SUFFICES ASSUME Init PROVE MountInvariant
  OBVIOUS
<1>2. pc = "off" /\ saved.magic = FALSE
  BY <1>1 DEF Init
<1>3. Unmade(pc) = {} /\ pc \notin Running
  BY <1>2, UnmadeValues DEF Running, Mounted, BootSteps, ShutdownSteps
<1>4. QED
  BY <1>2, <1>3 DEF MountInvariant

\* With disciplined callers a disk that was never torn mounts, on the first boot
\* and after any number of shutdowns and power losses: create_system_files and
\* open_system_files never reach their panics.
THEOREM DiskAlwaysMounts == PoliteSpec => []MountNeverPanics
<1>1. Init => MountInvariant
  BY MountInit
<1>2. TypeOK /\ FsInvariant /\ MountInvariant /\ [PoliteNext]_vars => MountInvariant'
  BY MountStep
<1>3. MountInvariant => MountNeverPanics
  BY DEF MountInvariant, MountNeverPanics, Running
<1>4. QED
  BY <1>1, <1>2, <1>3, PoliteInvariant, PTL DEF PoliteSpec

-----------------------------------------------------------------------------
(* CrashInvariant is inductive *)

LEMMA KeptReached ==
    TypeOK /\ FsInvariant /\ pc \in Running /\ ~torn /\ (\A e \in kept : KeptEntry(e))
        => CrashKeepsUntouched
<1>1. SUFFICES ASSUME TypeOK, FsInvariant, pc \in Running, ~torn,
                      NEW e \in kept, KeptEntry(e)
               PROVE  OnDisk(e)
  BY DEF CrashKeepsUntouched
<1> DEFINE T == itab
           U == saved.itab
<1>2. /\ FsOK(ibmap, dbmap, T, disk) /\ U \in [Inodes -> Inode] /\ T \in [Inodes -> Inode]
      /\ disk \in [Blocks -> [Slots -> Slot]]
  BY <1>1, RunningInv DEF TypeOK, Metadata
<1>3. PICK k \in Slots : EntryAt(T, disk, e.dir, k, e.name, e.ino) /\ k < U[e.dir].size
  BY <1>1 DEF KeptEntry
<1>4. e.dir \in Dirs(ibmap, T) /\ e.dir \in Inodes
  BY <1>1 DEF KeptEntry, Dirs, TypeOK
<1>5. U[e.dir].start = T[e.dir].start /\ T[e.dir].size \in Nat /\ U[e.dir].size \in Nat
  BY <1>1, <1>2, <1>4 DEF KeptEntry, Inode
<1>6. SearchDir(U, disk, e.dir, e.name) = e.ino
  <2> HIDE DEF T, U
  <2>1. QED
    BY <1>2, <1>3, <1>4, <1>5, EntryIsFound
<1>7. QED
  BY <1>1, <1>6 DEF KeptEntry, OnDisk

LEMMA CrashRunning ==
    ASSUME TypeOK', FsInvariant', pc' \in Running, ~torn', Unmade(pc') = {},
           \A e \in kept' : KeptEntry(e)'
    PROVE  CrashInvariant'
<1>1. (TypeOK /\ FsInvariant /\ pc \in Running /\ ~torn /\ (\A e \in kept : KeptEntry(e))
          => CrashKeepsUntouched)'
  BY KeptReached, PTL
<1>2. CrashKeepsUntouched'
  BY <1>1
<1>3. pc' \notin FormatSteps
  BY DEF Running, Mounted, BootSteps, ShutdownSteps, FormatSteps
<1>4. QED
  BY <1>2, <1>3 DEF CrashInvariant

LEMMA CrashEmpty == ASSUME kept' = {} PROVE CrashInvariant'
  BY DEF CrashInvariant, CrashKeepsUntouched

\* The block of a file is in the data bitmap.
LEMMA OwnedCounted ==
    ASSUME FsOK(ibmap, dbmap, itab, disk), NEW i \in ibmap, itab[i].type # "special"
    PROVE  itab[i].start \in dbmap
  BY DEF FsOK, BlocksCounted, Owners

LEMMA KeptKeepsDirs ==
    ASSUME TypeOK, FsOK(ibmap, dbmap, itab, disk), KeepsDirs, NEW e, KeptEntry(e)
    PROVE  KeptEntry(e)'
<1>1. /\ UNCHANGED <<ibmap, dbmap>> /\ SameTables(ibmap, itab, itab')
      /\ \A i \in Dirs(ibmap, itab) : disk'[itab[i].start] = disk[itab[i].start]
      /\ saved'.ibmap \in {saved.ibmap, ibmap} /\ saved'.dbmap \in {saved.dbmap, dbmap}
      /\ saved'.itab = saved.itab /\ saved'.behind = saved.behind
  BY DEF KeepsDirs
<1>2. /\ {e.dir, e.ino} \subseteq ibmap' \cap saved'.ibmap
      /\ e.dir \in Dirs(ibmap, itab)
  BY <1>1 DEF KeptEntry, Dirs
<1>3. \A i \in {e.dir, e.ino} : /\ itab'[i].start = itab[i].start /\ itab'[i].type = itab[i].type
                                /\ saved'.itab[i].start = itab'[i].start
                                /\ saved'.itab[i].type = itab'[i].type
  BY <1>1 DEF KeptEntry, SameTables
<1>4. itab'[e.ino].type # "special" => e.start \in saved'.dbmap \cap saved'.behind
  <2>1. itab[e.ino].type # "special" => e.start \in dbmap /\ e.start \in saved.dbmap \cap saved.behind
    BY OwnedCounted DEF KeptEntry
  <2>2. QED
    BY <1>1, <1>3, <2>1
<1>5. PICK k \in Slots : EntryAt(itab, disk, e.dir, k, e.name, e.ino)
                         /\ k < saved.itab[e.dir].size
  BY DEF KeptEntry
<1>6. EntryAt(itab', disk', e.dir, k, e.name, e.ino)
  BY <1>1, <1>2, <1>3, <1>5 DEF EntryAt, SameTables, Dirs
<1>7. itab'[e.dir].type = "dir" /\ itab'[e.ino].start = e.start
  BY <1>3 DEF KeptEntry
<1>8. QED
  BY <1>1, <1>2, <1>3, <1>4, <1>5, <1>6, <1>7 DEF KeptEntry

LEMMA KeptCreates ==
    ASSUME TypeOK, FsOK(ibmap, dbmap, itab, disk), NEW dir, NEW name, NEW type,
           Creates(dir, name, type), NEW e, KeptEntry(e)
    PROVE  KeptEntry(e)'
<1> DEFINE d == SeekDirectory(itab, disk, dir)
<1>1. /\ name \in AllNames /\ type \in {"dir", "normal", "special"} /\ d \in Dirs(ibmap, itab)
      /\ ~CreateOverruns(dir, type, FALSE) /\ AddFile(dir, name, type)
  BY DEF Creates
<1>2. PICK ino, blk : Added(d, ino, blk, name, type)
  BY <1>1, AddFileEffect
<1>3. /\ saved' = saved /\ ibmap \subseteq ibmap'
      /\ \A i \in ibmap : itab'[i].start = itab[i].start /\ itab'[i].type = itab[i].type
  BY <1>2 DEF Added
<1>4. e.dir \in ibmap /\ e.ino \in ibmap /\ e.dir \in Dirs(ibmap, itab)
  BY DEF KeptEntry, Dirs
<1>5. PICK k \in Slots : EntryAt(itab, disk, e.dir, k, e.name, e.ino)
                         /\ k < saved.itab[e.dir].size
  BY DEF KeptEntry
<1>6. EntryAt(itab', disk', e.dir, k, e.name, e.ino)
  BY <1>1, <1>4, <1>5, AddFileMoves
<1>7. QED
  BY <1>3, <1>4, <1>5, <1>6 DEF KeptEntry

LEMMA KeptUnlinks ==
    ASSUME TypeOK, FsOK(ibmap, dbmap, itab, disk), NEW d, NEW name, NEW ino,
           Unlinks(d, name, ino), NEW e, KeptEntry(e), e.ino # ino, e.dir # ino
    PROVE  KeptEntry(e)'
<1>1. d \in Dirs(ibmap, itab) /\ ino = SearchDir(itab, disk, d, name) /\ ino # None
  BY DEF Unlinks
<1>2. PICK outside : RemoveFile(d, ino, outside)
  BY DEF Unlinks
<1>3. PICK m : Removed(d, ino, m)
  BY <1>1, <1>2, RemoveFileEffect
<1>4. /\ saved' = saved /\ ibmap' = ibmap \ {ino}
      /\ \A i \in ibmap : itab'[i].start = itab[i].start /\ itab'[i].type = itab[i].type
  BY <1>3 DEF Removed
<1>5. e.dir \in ibmap /\ e.ino \in ibmap /\ e.dir \in Dirs(ibmap, itab)
  BY DEF KeptEntry, Dirs
<1>6. PICK k \in Slots : EntryAt(itab, disk, e.dir, k, e.name, e.ino)
                         /\ k < saved.itab[e.dir].size
  BY DEF KeptEntry
<1>7. PICK j \in Slots : j <= k /\ EntryAt(itab', disk', e.dir, j, e.name, e.ino)
  BY <1>1, <1>2, <1>5, <1>6, RemoveFileMoves
<1>8. j < saved.itab[e.dir].size
  <2>1. saved.itab[e.dir].size \in Nat /\ j \in Nat /\ k \in Nat
    BY <1>5 DEF TypeOK, Metadata, Inode, Slots
  <2>2. QED
    BY <1>6, <1>7, <2>1
<1>9. QED
  BY <1>4, <1>5, <1>7, <1>8 DEF KeptEntry

LEMMA CrashCall ==
    ASSUME TypeOK, FsInvariant, CrashInvariant, ~torn, PoliteCall, TypeOK', FsInvariant'
    PROVE  CrashInvariant'
<1>1. /\ pc = "up"
      /\ \/ Overruns
         \/ pc' = "up" /\ KeepsDirs
         \/ pc' = "up" /\ \E dir, name, type : Creates(dir, name, type)
         \/ \E d, name, ino : Unlinks(d, name, ino)
  BY CallKinds
<1>2. pc \in Running /\ "up" \in Running /\ Unmade("up") = {}
  BY <1>1, UnmadeValues DEF Running, Mounted
<1>3. FsOK(ibmap, dbmap, itab, disk) /\ \A e \in kept : KeptEntry(e)
  BY <1>2, RunningInv DEF CrashInvariant
<1>4. CASE Overruns
  <2>1. pc' = "overrun" /\ UNCHANGED <<disk, saved, torn, kept>> /\ Unmade(pc') = {}
    BY <1>4, UnmadeValues DEF Overruns
  <2>2. QED
    BY <2>1 DEF CrashInvariant, CrashKeepsUntouched, OnDisk, FormatSteps, Running, Mounted,
                BootSteps, ShutdownSteps
<1>5. ASSUME pc' = "up", ~torn', \A e \in kept' : KeptEntry(e)'
      PROVE  CrashInvariant'
  BY <1>2, <1>5, CrashRunning
<1>6. CASE pc' = "up" /\ KeepsDirs
  <2>1. kept' = kept /\ ~torn'
    BY <1>6 DEF KeepsDirs
  <2>2. QED
    BY <1>3, <1>5, <1>6, <2>1, KeptKeepsDirs
<1>7. CASE pc' = "up" /\ \E dir, name, type : Creates(dir, name, type)
  <2>1. PICK dir, name, type : Creates(dir, name, type)
    BY <1>7
  <2>2. kept' = kept /\ ~torn'
    BY <2>1 DEF Creates
  <2>3. QED
    BY <1>3, <1>5, <1>7, <2>1, <2>2, KeptCreates
<1>8. CASE \E d, name, ino : Unlinks(d, name, ino)
  <2>1. PICK d, name, ino : Unlinks(d, name, ino)
    BY <1>8
  <2>2. kept' = {e \in kept : e.ino # ino /\ e.dir # ino} /\ ~torn' /\ pc' = "up"
    BY <1>1, <2>1 DEF Unlinks
  <2>3. \A e \in kept' : KeptEntry(e)'
    BY <1>3, <2>1, <2>2, KeptUnlinks
  <2>4. QED
    BY <1>5, <2>2, <2>3
<1>9. QED
  BY <1>1, <1>4, <1>6, <1>7, <1>8

\* The entries of a complete shutdown are all on the disk.
LEMMA SyncedOnDisk ==
    ASSUME TypeOK, FsInvariant, SyncItab, ~torn, NEW e \in Entries(ibmap, itab, disk)
    PROVE  OnDisk(e)'
<1>1. pc \in Running
  BY DEF SyncItab, Running, Mounted, ShutdownSteps
<1>2. /\ FsOK(ibmap, dbmap, itab, disk) /\ itab \in [Inodes -> Inode]
      /\ disk \in [Blocks -> [Slots -> Slot]] /\ ibmap \in SUBSET Inodes
  BY <1>1, RunningInv DEF TypeOK
<1>3. /\ saved'.itab = itab /\ saved'.ibmap = ibmap /\ saved'.dbmap = dbmap
      /\ saved'.behind = dbmap /\ disk' = disk
  BY DEF SyncItab, FsInvariant, Syncing, TypeOK, Metadata
<1>4. PICK d \in ibmap, k \in Slots :
          /\ itab[d].type = "dir" /\ k < itab[d].size
          /\ e = [dir   |-> d,
                  name  |-> disk[itab[d].start][k].name,
                  ino   |-> disk[itab[d].start][k].ino,
                  start |-> itab[disk[itab[d].start][k].ino].start]
  BY DEF Entries
<1>5. d \in Dirs(ibmap, itab) /\ EntryAt(itab, disk, d, k, e.name, e.ino) /\ e.dir = d
      /\ e.start = itab[e.ino].start
  BY <1>4 DEF Dirs, EntryAt
<1>6. e.ino \in ibmap
  BY <1>2, <1>5, LinkedInode DEF Linked
<1>7. itab[d].size \in Nat
  BY <1>2 DEF Inode
<1>8. SearchDir(itab, disk, d, e.name) = e.ino
  BY <1>2, <1>4, <1>5, <1>7, EntryIsFound
<1>9. itab[e.ino].type # "special" => e.start \in dbmap
  BY <1>2, <1>5, <1>6, OwnedCounted
<1>10. QED
  BY <1>3, <1>4, <1>5, <1>6, <1>8, <1>9 DEF OnDisk

LEMMA CrashPower ==
    ASSUME TypeOK, FsInvariant, CrashInvariant, Power, TypeOK', FsInvariant'
    PROVE  CrashInvariant'
<1>1. CASE GoDown
  <2>1. pc' = "off" /\ UNCHANGED <<disk, saved, kept>> /\ Unmade(pc') = {}
    BY <1>1, UnmadeValues DEF GoDown
  <2>2. QED
    BY <2>1 DEF CrashInvariant, CrashKeepsUntouched, OnDisk, FormatSteps, Running, Mounted,
                BootSteps, ShutdownSteps
<1>2. CASE BootBlank
  BY <1>2, CrashEmpty DEF BootBlank
<1>3. CASE /\ pc \in FormatSteps \/ Unmade(pc) # {} \/ (torn /\ pc # "off")
           /\ kept' = kept
  BY <1>3, CrashEmpty DEF CrashInvariant
<1>4. CASE FormatSuper \/ FormatIbmap \/ FormatDbmap \/ FormatItab
  <2>1. pc \in FormatSteps /\ kept' = kept
    BY <1>4 DEF FormatSuper, FormatIbmap, FormatDbmap, FormatItab, FormatSteps, ghost
  <2>2. QED
    BY <1>3, <2>1
<1>5. CASE CreateSystemFile
  <2>1. pc \in {"mk_dev", "mk_tty", "mk_ttyS"} /\ kept' = kept
    BY <1>5 DEF CreateSystemFile, NextMake, CreateFiletype, Overrun, ghost
  <2>2. QED
    BY <1>3, <2>1, UnmadeValues DEF SystemFiles
<1>6. CASE FormatRoot
  <2>1. CASE ~GoDown
    BY <1>3, <1>6, <2>1, UnmadeValues DEF FormatRoot, SystemFiles, ghost
  <2>2. QED
    BY <1>1, <2>1
<1>7. CASE SyncItab
  <2>1. pc' = "off" /\ Unmade(pc') = {} /\ torn' = torn
    BY <1>7, UnmadeValues DEF SyncItab
  <2>2. CASE torn
    BY <1>7, <2>2, CrashEmpty DEF SyncItab
  <2>3. CASE ~torn
    <3>1. kept' = Entries(ibmap, itab, disk)
      BY <1>7, <2>3 DEF SyncItab
    <3>2. \A e \in kept' : OnDisk(e)'
      BY <1>7, <2>3, <3>1, SyncedOnDisk
    <3>3. CrashKeepsUntouched'
      BY <3>2 DEF CrashKeepsUntouched
    <3>4. QED
      BY <2>1, <3>3 DEF CrashInvariant, FormatSteps, Running, Mounted, BootSteps, ShutdownSteps
  <2>4. QED
    BY <2>2, <2>3
<1>8. CASE BootRecognized
  <2>1. CASE torn
    BY <1>8, <2>1, CrashEmpty DEF BootRecognized
  <2>2. CASE ~torn
    <3>1. /\ pc' = "open_tty" /\ ibmap' = saved.ibmap /\ itab' = saved.itab
          /\ UNCHANGED <<disk, saved, kept, torn>>
      BY <1>8, <2>2 DEF BootRecognized
    <3>2. pc' \in Running /\ Unmade(pc') = {}
      BY <3>1, UnmadeValues DEF Running, Mounted, BootSteps
    <3>3. ASSUME NEW e \in kept PROVE KeptEntry(e)'
      <4>1. OnDisk(e)
        BY DEF CrashInvariant, CrashKeepsUntouched
      <4>2. /\ saved.itab \in [Inodes -> Inode] /\ disk \in [Blocks -> [Slots -> Slot]]
            /\ e.dir \in Inodes /\ e.ino # None
        BY <4>1, SizesAssumption DEF TypeOK, Metadata, OnDisk, Inodes, None
      <4>3. PICK k \in Slots : EntryAt(saved.itab, disk, e.dir, k, e.name, e.ino)
        BY <4>1, <4>2, FoundStands DEF OnDisk
      <4>4. k < saved.itab[e.dir].size
        BY <4>3 DEF EntryAt
      <4>5. QED
        BY <3>1, <4>1, <4>3, <4>4 DEF OnDisk, KeptEntry
    <3>4. QED
      BY <2>2, <3>1, <3>2, <3>3, CrashRunning
  <2>3. QED
    BY <2>1, <2>2
<1>9. CASE OpenSystemFile \/ Shutdown \/ SyncSuper \/ SyncIbmap \/ SyncDbmap
  <2>1. /\ pc \in {"open_tty", "open_ttyS", "up"} \cup ShutdownSteps
        /\ pc' \in {"open_ttyS", "up", "panic", "overrun"} \cup ShutdownSteps
        /\ kept' = kept /\ torn' = torn
    BY <1>9 DEF OpenSystemFile, NextOpen, LookupStrays, Overrun, Shutdown, SyncSuper,
                SyncIbmap, SyncDbmap, ShutdownSteps, ghost
  <2>2. pc \in Running /\ pc # "off" /\ Unmade(pc') = {}
    BY <2>1, UnmadeValues DEF Running, Mounted, BootSteps, ShutdownSteps
  <2>3. CASE torn
    BY <1>3, <2>1, <2>2, <2>3
  <2>4. CASE ~torn /\ pc' = "overrun"
    <3>1. UNCHANGED <<disk, saved, torn, kept>>
      BY <1>9, <2>4 DEF OpenSystemFile, NextOpen, LookupStrays, Overrun, Shutdown, SyncSuper,
                        SyncIbmap, SyncDbmap, ghost
    <3>2. QED
      BY <2>2, <2>4, <3>1 DEF CrashInvariant, CrashKeepsUntouched, OnDisk, FormatSteps, Running,
                              Mounted, BootSteps, ShutdownSteps
  <2>5. CASE ~torn /\ pc' # "overrun"
    <3>1. pc' \in Running
      BY <2>1, <2>5 DEF Running, Mounted, BootSteps, ShutdownSteps
    <3>2. KeepsDirs
      <4>1. CASE OpenSystemFile
        <5>1. UNCHANGED <<mem, disk, saved, ghost>>
          BY <2>5, <4>1 DEF OpenSystemFile, LookupStrays, Overrun
        <5>2. QED
          BY <3>1, <5>1, QuietKeepsDirs
      <4>2. QED
        BY <1>9, <2>5, <4>1, ShutdownKinds
    <3>3. FsOK(ibmap, dbmap, itab, disk) /\ \A e \in kept : KeptEntry(e)
      BY <2>2, <2>5, RunningInv DEF CrashInvariant
    <3>4. \A e \in kept' : KeptEntry(e)'
      BY <2>1, <3>2, <3>3, KeptKeepsDirs
    <3>5. QED
      BY <2>1, <2>2, <2>5, <3>1, <3>4, CrashRunning
  <2>6. QED
    BY <2>3, <2>4, <2>5
<1>10. QED
  BY <1>1, <1>2, <1>4, <1>5, <1>6, <1>7, <1>8, <1>9 DEF Power, Crash

LEMMA CrashStep ==
    ASSUME TypeOK, FsInvariant, CrashInvariant, [PoliteNext]_vars
    PROVE  CrashInvariant'
<1>1. TypeOK' /\ FsInvariant'
  BY PoliteIsNext, TypeStep, FsStep
<1>2. CASE UNCHANGED vars
  <2>1. UNCHANGED <<pc, ibmap, itab, disk, saved, torn, kept>>
    BY <1>2 DEF vars, mem, ghost
  <2>2. QED
    BY <2>1 DEF CrashInvariant, CrashKeepsUntouched, OnDisk, KeptEntry
<1>3. QED
  BY <1>1, <1>2, CrashPower, CrashCall DEF PoliteNext

LEMMA CrashInit == Init => CrashInvariant
  BY DEF Init, CrashInvariant, CrashKeepsUntouched

\* A power loss at any moment does not cost a file of the last complete shutdown
\* that disciplined callers have not unlinked since.
THEOREM CrashCostsNoFile == PoliteSpec => []CrashKeepsUntouched
<1>1. Init => CrashInvariant
  BY CrashInit
<1>2. TypeOK /\ FsInvariant /\ CrashInvariant /\ [PoliteNext]_vars => CrashInvariant'
  BY CrashStep
<1>3. CrashInvariant => CrashKeepsUntouched
  BY DEF CrashInvariant
<1>4. QED
  BY <1>1, <1>2, <1>3, PoliteInvariant, PTL DEF PoliteSpec

-----------------------------------------------------------------------------
(* Commands *)

LEMMA TargetParts ==
    ASSUME NEW t \in Targets
    PROVE  t[1] \in DirPaths /\ t[2] \in UnlinkNames /\ t # NoFile
<1>1. t \in DirPaths \X UnlinkNames
  BY ShellAssumption
<1>2. t[1] \in DirPaths /\ t[2] \in UnlinkNames
  BY <1>1
<1>3. "" \notin UnlinkNames
  BY NamesAssumption DEF UnlinkNames, SystemFiles
<1>4. NoFile[2] = ""
  BY DEF NoFile
<1>5. QED
  BY <1>2, <1>3, <1>4

LEMMA CmdParts ==
    ASSUME NEW c \in Cmds
    PROVE  /\ c.op \in FileOps => c.file[1] \in DirPaths /\ c.file[2] \in UnlinkNames
           /\ c.op \in FileOps => Opened(c)[1] \in DirPaths /\ Opened(c)[2] \in UnlinkNames
           /\ c.op # "cat" => Opened(c) = c.file
           /\ c.redirect # NoFile => /\ c.redirect[1] \in DirPaths
                                     /\ c.redirect[2] \in UnlinkNames
<1>1. c.redirect \in Redirects \cup {NoFile}
  BY DEF Cmds
<1>2. c.op \in FileOps => c.file \in Targets
  BY DEF Cmds, FileOps, OtherOps
<1>3. Redirects \subseteq Targets
  BY ShellAssumption
<1>4. QED
  BY <1>1, <1>2, <1>3, TargetParts DEF Opened

-----------------------------------------------------------------------------
(* Every step of the shell is one of the file system *)

\* What the shell holds is open.
LEMMA HeldIsOpen ==
    ASSUME TypeOK, ShellInvariant, pc = "up"
    PROVE  /\ STDOUT \in fdmap /\ STDOUT \in Fds
           /\ at \in WithFile => fd \in fdmap /\ fd \in Fds /\ fd \notin SystemFds
           /\ at \in {"exec", "ls", "end"} \cup WithFile =>
                 /\ out \in fdmap /\ out \in Fds
                 /\ out # STDOUT => out \notin SystemFds
<1>1. /\ fdmap = SystemFds \cup OwnFds /\ STDOUT \in SystemFds /\ SystemFds \cap OwnFds = {}
      /\ fdmap \subseteq Fds
  BY DEF ShellInvariant, FdsHeld, TypeOK
<1>2. at \in WithFile => OwnFds = OutFd \cup {fd}
  BY DEF OwnFds, WithFile
<1>3. at \in {"exec", "ls", "end"} => OwnFds = OutFd
  BY DEF OwnFds, WithFile
<1>4. out # STDOUT => OutFd = {out}
  BY DEF OutFd
<1>5. QED
  BY <1>1, <1>2, <1>3, <1>4

LEMMA PutsIsNext ==
    ASSUME NEW f \in Fds, Puts(f)
    PROVE  Next
  BY DEF Puts, Next

LEMMA ShellIsNext ==
    ASSUME TypeOK, ShellInvariant, ShellNext, ~ExecNoArg
    PROVE  Next \/ UNCHANGED vars
<1>1. CASE Boots
  BY <1>1 DEF Boots, Next
<1>2. CASE \E c \in Cmds : Enter(c)
  BY <1>2 DEF Enter
<1>3. ASSUME at \notin {"off", "prompt", "ready"}
      PROVE  /\ cmd.op \in FileOps => cmd.file[1] \in DirPaths /\ cmd.file[2] \in UnlinkNames
             /\ cmd.op \in FileOps => /\ Opened(cmd)[1] \in DirPaths
                                      /\ Opened(cmd)[2] \in UnlinkNames
             /\ cmd.op \in {"touch", "mkdir"} => cmd.file[2] \in Names
             /\ cmd.redirect # NoFile => /\ cmd.redirect[1] \in DirPaths
                                         /\ cmd.redirect[2] \in UnlinkNames
  BY <1>3, CmdParts DEF ShellInvariant, ShellTypeOK
<1>4. CASE Redirect
  BY <1>3, <1>4 DEF Redirect, ShellInvariant, ShellTypeOK, Next
<1>5. CASE ExecLs
  BY <1>3, <1>5 DEF ExecLs, During, FileOps, Next
<1>6. CASE ExecCat \/ ExecSget
  BY <1>3, <1>6 DEF ExecCat, ExecSget, ExecOpen, During, FileOps, Next
<1>7. CASE ExecTouch \/ ExecMkdir
  BY <1>3, <1>7 DEF ExecTouch, ExecMkdir, During, FileOps, Next, CreateAny
<1>8. CASE ExecRm
  BY <1>3, <1>8 DEF ExecRm, During, FileOps, Next
<1>9. CASE LsWrite \/ ExecEcho \/ CatWrite
  <2>1. pc = "up" /\ at \in {"exec", "ls", "end"} \cup WithFile
    BY <1>9 DEF LsWrite, ExecEcho, CatWrite, During, Puts, Write, WithFile
  <2>2. out \in Fds
    BY <2>1, HeldIsOpen
  <2>3. CatWidths \subseteq Counts
    BY ShellAssumption
  <2>4. CASE LsWrite \/ ExecEcho
    BY <2>2, <2>4, PutsIsNext DEF LsWrite, ExecEcho
  <2>5. CASE CatWrite
    BY <2>2, <2>3, <2>5 DEF CatWrite, Next
  <2>6. QED
    BY <1>9, <2>4, <2>5
<1>10. CASE CatRead \/ CatClose \/ SgetByte \/ SgetClose
  <2>1. pc = "up" /\ at \in WithFile
    BY <1>10 DEF CatRead, CatClose, SgetByte, SgetClose, During, Read, Close, Write, WithFile
  <2>2. fd \in Fds /\ 1 \in Counts
    BY <2>1, HeldIsOpen, ShellAssumption
  <2>3. QED
    BY <1>10, <2>2 DEF CatRead, CatClose, SgetByte, SgetClose, Next
<1>11. CASE ExecHelp \/ Prompt
  <2>1. pc = "up"
    BY <1>11 DEF ExecHelp, Prompt, Puts, Write
  <2>2. STDOUT \in Fds
    BY <2>1, HeldIsOpen
  <2>3. QED
    BY <1>11, <2>2, PutsIsNext DEF ExecHelp, Prompt
<1>12. CASE ExecExit
  BY <1>12 DEF ExecExit, Next, Power
<1>13. CASE End
  <2>1. pc = "up" /\ at = "end"
    BY <1>13 DEF End
  <2>2. out \in Fds
    BY <2>1, HeldIsOpen
  <2>3. QED
    BY <1>13, <2>2 DEF End, Next
<1>14. QED
  BY <1>1, <1>2, <1>4, <1>5, <1>6, <1>7, <1>8, <1>9, <1>10, <1>11, <1>12, <1>13
     DEF ShellNext, ShellStep

LEMMA ShellKeepsTypes ==
    ASSUME TypeOK, ShellInvariant, [ShellNext]_all
    PROVE  TypeOK'
<1>1. CASE UNCHANGED vars
  BY <1>1, TypeStep
<1>2. CASE ExecNoArg
  <2>1. /\ UNCHANGED <<mem, fds, disk, saved, ghost, crashes>>
        /\ pc' = pc \/ pc' = "panic" \/ pc' = "overrun"
        /\ call' = call \/ call' = [op |-> "open", ret |-> None]
    BY <1>2 DEF ExecNoArg, UntracedDir, Overrun
  <2>2. [op |-> "open", ret |-> None] \in Calls
    BY DEF Calls, None
  <2>3. QED
    BY <2>1, <2>2 DEF TypeOK, PcValues, mem, fds, ghost
<1>3. CASE Next
  BY <1>3, TypeStep
<1>4. QED
  BY <1>1, <1>2, <1>3, ShellIsNext DEF all

-----------------------------------------------------------------------------
(* ShellInvariant is inductive *)

\* The first free number of an empty table is 0.
LEMMA FirstFreeOfNone ==
    ASSUME NEW size \in Nat, FirstFree({}, size) # None
    PROVE  FirstFree({}, size) = 0
<1>1. (0 .. (size - 1)) \ {} = 0 .. (size - 1)
  OBVIOUS
<1>2. 0 .. (size - 1) # {} /\ FirstFree({}, size) = Min(0 .. (size - 1))
  BY <1>1 DEF FirstFree
<1>3. 0 \in 0 .. (size - 1) /\ 0 .. (size - 1) \in SUBSET Nat
  BY <1>2
<1>4. Min(0 .. (size - 1)) \in Nat /\ Min(0 .. (size - 1)) <= 0
  BY <1>3, MinInSet
<1>5. QED
  BY <1>2, <1>4

\* open returns a descriptor that was free, or none.
LEMMA OpenFd ==
    ASSUME NEW dir, NEW name, Open(dir, name)
    PROVE  /\ pc = "up" /\ sysfd' = sysfd /\ pc' \in {"up", "panic", "overrun"}
           /\ pc' = "up" => \/ fdmap' = fdmap /\ call'.ret = None
                            \/ /\ call'.ret \in Fds /\ call'.ret \notin fdmap
                               /\ call'.ret # None /\ fdmap' = fdmap \cup {call'.ret}
<1> DEFINE f == FirstFree(fdmap, NFds)
<1>1. pc = "up" /\ sysfd' = sysfd /\ pc' \in {"up", "panic", "overrun"}
  BY DEF Open, UntracedDir, LookupStrays, Overrun, fds
<1>2. f # None => f \in Fds /\ f \notin fdmap
  BY FirstFreeIsFree, SizesAssumption DEF Fds
<1>3. pc' = "up" => \/ fdmap' = fdmap /\ call'.ret = None
                    \/ f # None /\ call'.ret = f /\ fdmap' = fdmap \cup {f}
  BY DEF Open, UntracedDir, LookupStrays, Overrun, NewFd, fds
<1>4. QED
  BY <1>1, <1>2, <1>3

LEMMA HeldUp ==
    ASSUME pc' = "up", sysfd' = sysfd, STDOUT \in SystemFds, fdmap' = SystemFds \cup OwnFds',
           SystemFds \cap OwnFds' = {}, at' \in WithFile => fd' # out'
    PROVE  FdsHeld'
<1>1. SystemFds' = SystemFds
  BY DEF SystemFds
<1>2. QED
  BY <1>1 DEF FdsHeld, FormatSteps, BootSteps, STDOUT

LEMMA HeldStopped ==
    ASSUME pc' \in {"panic", "overrun"} \cup ShutdownSteps
    PROVE  FdsHeld'
  BY DEF FdsHeld, FormatSteps, BootSteps, ShutdownSteps

LEMMA UpHeld ==
    ASSUME ShellInvariant, pc = "up"
    PROVE  /\ fdmap = SystemFds \cup OwnFds /\ STDOUT \in SystemFds
           /\ SystemFds \cap OwnFds = {} /\ (at \in WithFile => fd # out)
  BY DEF ShellInvariant, FdsHeld

\* A step of a command that opens and closes nothing.
LEMMA CommandGoesOn ==
    ASSUME ShellInvariant, pc = "up", pc' \in {"up", "panic", "overrun"},
           UNCHANGED <<fdmap, sysfd, cmd, out, fd, polite>>, NEW next,
           at' = IF pc' = "up" THEN next ELSE at,
           \/ at \in {"exec", "ls", "end"} /\ next \in {"exec", "ls", "end"}
           \/ at \in WithFile /\ next \in WithFile
    PROVE  ShellInvariant'
<1>1. OwnFds' = OwnFds
  BY DEF OwnFds, OutFd, WithFile
<1>2. at' \in WithFile <=> at \in WithFile
  BY DEF WithFile
<1>3. FdsHeld'
  <2>1. CASE pc' = "up"
    BY <1>1, <1>2, <2>1, UpHeld, HeldUp
  <2>2. CASE pc' # "up"
    BY <2>2, HeldStopped
  <2>3. QED
    BY <2>1, <2>2
<1>4. ShellTypeOK'
  BY DEF ShellInvariant, ShellTypeOK, WithFile
<1>5. QED
  BY <1>3, <1>4 DEF ShellInvariant

LEMMA WriteKeepsFds ==
    ASSUME NEW f, NEW n, NEW v, Write(f, n, v)
    PROVE  pc = "up" /\ pc' \in {"up", "overrun"} /\ UNCHANGED <<fdmap, sysfd, torn>>
  BY DEF Write, SpecialIO, Overrun, fds, ghost

LEMMA PutsKeepsFds ==
    ASSUME NEW f, Puts(f)
    PROVE  pc = "up" /\ pc' \in {"up", "overrun"} /\ UNCHANGED <<fdmap, sysfd, torn>>
  BY WriteKeepsFds DEF Puts

\* The kernel comes up with the descriptors of its two system files.
LEMMA BootsHeld ==
    ASSUME TypeOK, FdsHeld, Power, pc' # "sync_super", at' = IF pc' = "up" THEN "prompt" ELSE "off"
    PROVE  FdsHeld'
<1>1. ASSUME fdmap' = {}, pc' \notin {"open_ttyS", "up"} PROVE FdsHeld'
  BY <1>1 DEF FdsHeld
<1>2. CASE GoDown \/ SyncItab
  BY <1>1, <1>2 DEF GoDown, SyncItab, ClearMemory
<1>3. CASE \/ BootRecognized \/ BootBlank \/ FormatSuper \/ FormatIbmap \/ FormatDbmap
           \/ FormatItab \/ (FormatRoot /\ ~GoDown)
  <2>1. pc \in {"off", "fmt_root"} \cup FormatSteps /\ fdmap' = fdmap
        /\ pc' \notin {"open_ttyS", "up"}
    BY <1>3 DEF BootRecognized, BootBlank, FormatSuper, FormatIbmap, FormatDbmap, FormatItab,
                FormatRoot, FormatSteps, fds
  <2>2. QED
    BY <1>1, <2>1 DEF FdsHeld, BootSteps
<1>4. CASE CreateSystemFile
  <2>1. pc \in {"mk_dev", "mk_tty", "mk_ttyS"} /\ fdmap' = fdmap
    BY <1>4 DEF CreateSystemFile, NextMake, CreateFiletype, Overrun, fds
  <2>2. NextMake[pc] \in {"mk_tty", "mk_ttyS", "open_tty"}
    BY <2>1 DEF NextMake
  <2>3. pc' \in {"mk_tty", "panic", "overrun", NextMake[pc]}
    BY <1>4 DEF CreateSystemFile, Overrun
  <2>4. fdmap' = {} /\ pc' \notin {"open_ttyS", "up"}
    BY <2>1, <2>2, <2>3 DEF FdsHeld, BootSteps
  <2>5. QED
    BY <1>1, <2>4
<1>5. CASE OpenSystemFile
  <2> DEFINE f == FirstFree(fdmap, NFds)
             name == IF pc = "open_tty" THEN "tty" ELSE "ttyS"
  <2>1. CASE pc' \in {"panic", "overrun"}
    BY <2>1, HeldStopped
  <2>2. CASE pc' \notin {"panic", "overrun"}
    <3>1. /\ pc \in {"open_tty", "open_ttyS"} /\ f # None /\ fdmap' = fdmap \cup {f}
          /\ sysfd' = [sysfd EXCEPT ![name] = f] /\ pc' = NextOpen[pc]
      BY <1>5, <2>2 DEF OpenSystemFile, NextOpen, LookupStrays, Overrun, NewFd
    <3>2. f \in Fds /\ f \notin fdmap
      BY <3>1, FirstFreeIsFree, SizesAssumption DEF Fds
    <3>3. CASE pc = "open_tty"
      <4>1. fdmap = {} /\ pc' = "open_ttyS" /\ sysfd'["tty"] = f
        BY <3>1, <3>3 DEF FdsHeld, BootSteps, NextOpen, TypeOK, SystemFiles
      <4>2. f = 0
        BY <3>1, <4>1, FirstFreeOfNone, SizesAssumption
      <4>3. QED
        BY <3>1, <4>1, <4>2 DEF FdsHeld, FormatSteps, BootSteps, STDOUT
    <3>4. CASE pc = "open_ttyS"
      <4>1. fdmap = {STDOUT} /\ sysfd["tty"] = STDOUT /\ pc' = "up" /\ at' = "prompt"
        BY <3>1, <3>4 DEF FdsHeld, NextOpen
      <4>2. sysfd'["tty"] = STDOUT /\ sysfd'["ttyS"] = f
        BY <3>1, <3>4, <4>1 DEF TypeOK, SystemFiles
      <4>3. SystemFds' = {STDOUT, f}
        BY <4>2 DEF SystemFds, SystemFiles
      <4>4. OwnFds' = {} /\ at' \notin WithFile
        BY <4>1 DEF OwnFds, WithFile
      <4>5. fdmap' = SystemFds' \cup OwnFds' /\ STDOUT \in SystemFds' /\ SystemFds' \cap OwnFds' = {}
        BY <3>1, <4>1, <4>3, <4>4
      <4>6. QED
        BY <4>1, <4>4, <4>5 DEF FdsHeld, FormatSteps, BootSteps
    <3>5. QED
      BY <3>1, <3>3, <3>4
  <2>3. QED
    BY <2>1, <2>2
<1>6. CASE Shutdown \/ SyncSuper \/ SyncIbmap \/ SyncDbmap
  BY <1>6, HeldStopped DEF Shutdown, SyncSuper, SyncIbmap, SyncDbmap, ShutdownSteps
<1>7. QED
  BY <1>2, <1>3, <1>4, <1>5, <1>6 DEF Power, Crash

LEMMA ShellStepInv ==
    ASSUME TypeOK, ShellInvariant, ShellNext
    PROVE  ShellInvariant'
<1>1. CASE Boots
  <2>1. at' \in {"off", "prompt"} /\ (pc' = "up" => at' # "off") /\ polite' \in BOOLEAN
    BY <1>1 DEF Boots
  <2>2. FdsHeld'
    BY <1>1, BootsHeld DEF Boots, ShellInvariant
  <2>3. QED
    BY <2>1, <2>2 DEF ShellInvariant, ShellTypeOK
<1>2. ASSUME NEW c \in Cmds, Enter(c) PROVE ShellInvariant'
  <2>1. /\ pc = "up" /\ at = "ready" /\ pc' = "up" /\ fdmap' = fdmap /\ sysfd' = sysfd
        /\ cmd' = c /\ out' = STDOUT /\ (c.op \in {"touch", "mkdir"} => c.file[2] \in Names)
        /\ at' = IF c.redirect = NoFile THEN "exec" ELSE "redirect"
        /\ polite' \in BOOLEAN
    BY <1>2 DEF Enter, vars, fds
  <2>2. OwnFds = {} /\ OwnFds' = {} /\ at' \notin WithFile
    BY <2>1 DEF OwnFds, OutFd, WithFile
  <2>3. FdsHeld'
    BY <2>1, <2>2, UpHeld, HeldUp
  <2>4. ShellTypeOK'
    BY <2>1 DEF ShellTypeOK
  <2>5. QED
    BY <2>3, <2>4 DEF ShellInvariant
<1>3. CASE Redirect
  <2> DEFINE f == call'.ret
  <2>1. /\ pc = "up" /\ sysfd' = sysfd /\ pc' \in {"up", "panic", "overrun"}
        /\ pc' = "up" => \/ fdmap' = fdmap /\ f = None
                         \/ f \in Fds /\ f \notin fdmap /\ f # None /\ fdmap' = fdmap \cup {f}
    BY <1>3, OpenFd DEF Redirect
  <2>2. at = "redirect" /\ UNCHANGED <<cmd, fd, polite>>
    BY <1>3 DEF Redirect
  <2>3. fdmap = SystemFds /\ STDOUT \in SystemFds
    BY <2>1, <2>2, UpHeld DEF OwnFds, WithFile
  <2>4. CASE pc' # "up"
    <3>1. at' = at /\ FdsHeld'
      BY <1>3, <2>1, <2>4, HeldStopped DEF Redirect
    <3>2. QED
      BY <2>2, <2>4, <3>1 DEF ShellInvariant, ShellTypeOK
  <2>5. CASE pc' = "up" /\ f = None
    <3>1. at' = "prompt" /\ fdmap' = fdmap
      BY <1>3, <2>1, <2>5 DEF Redirect
    <3>2. OwnFds' = {} /\ at' \notin WithFile
      BY <3>1 DEF OwnFds, WithFile
    <3>3. FdsHeld'
      BY <2>1, <2>3, <2>5, <3>1, <3>2, HeldUp
    <3>4. QED
      BY <2>2, <3>1, <3>3 DEF ShellInvariant, ShellTypeOK
  <2>6. CASE pc' = "up" /\ f # None
    <3>1. at' = "exec" /\ out' = f /\ f \notin fdmap /\ fdmap' = fdmap \cup {f}
      BY <1>3, <2>1, <2>6 DEF Redirect
    <3>2. OwnFds' = {f} /\ at' \notin WithFile
      BY <2>3, <3>1 DEF OwnFds, OutFd, WithFile
    <3>3. FdsHeld'
      BY <2>1, <2>3, <2>6, <3>1, <3>2, HeldUp
    <3>4. QED
      BY <2>2, <3>1, <3>3 DEF ShellInvariant, ShellTypeOK
  <2>7. QED
    BY <2>4, <2>5, <2>6
<1>4. CASE ExecLs
  <2>1. /\ pc = "up" /\ pc' \in {"up", "overrun"} /\ at = "exec"
        /\ UNCHANGED <<fdmap, sysfd, cmd, out, fd, polite>>
    BY <1>4 DEF ExecLs, During, ListDir, Overrun, Goes, fds
  <2>2. PICK next \in {"ls", "end"} : at' = IF pc' = "up" THEN next ELSE at
    BY <1>4 DEF ExecLs, Goes
  <2>3. QED
    BY <2>1, <2>2, CommandGoesOn
<1>5. CASE LsWrite \/ ExecEcho \/ ExecHelp
  <2>1. pc = "up" /\ pc' \in {"up", "overrun"} /\ UNCHANGED <<fdmap, sysfd>>
    BY <1>5, PutsKeepsFds DEF LsWrite, ExecEcho, ExecHelp
  <2>2. /\ UNCHANGED <<cmd, out, fd, polite>> /\ at \in {"exec", "ls"}
        /\ at' = IF pc' = "up" THEN "end" ELSE at
    BY <1>5, <2>1 DEF LsWrite, ExecEcho, ExecHelp, During, Goes
  <2>3. QED
    BY <2>1, <2>2, CommandGoesOn
<1>6. ASSUME NEW op, NEW next \in {"read", "sget"}, ExecOpen(op, next) PROVE ShellInvariant'
  <2> DEFINE f == call'.ret
  <2>1. /\ pc = "up" /\ sysfd' = sysfd /\ pc' \in {"up", "panic", "overrun"}
        /\ pc' = "up" => \/ fdmap' = fdmap /\ f = None
                         \/ f \in Fds /\ f \notin fdmap /\ f # None /\ fdmap' = fdmap \cup {f}
    BY <1>6, OpenFd DEF ExecOpen
  <2>2. /\ at = "exec" /\ UNCHANGED <<cmd, out, polite>>
        /\ fd' = IF pc' = "up" THEN f ELSE fd
        /\ at' = IF pc' = "up" THEN IF f = None THEN "end" ELSE next ELSE at
    BY <1>6 DEF ExecOpen, During, Goes
  <2>3. /\ OwnFds = OutFd /\ OutFd' = OutFd /\ fdmap = SystemFds \cup OutFd
        /\ STDOUT \in SystemFds /\ SystemFds \cap OutFd = {} /\ out \in fdmap
    BY <2>1, <2>2, UpHeld, HeldIsOpen DEF OwnFds, OutFd, WithFile
  <2>4. ShellTypeOK'
    BY <2>1, <2>2 DEF ShellInvariant, ShellTypeOK, WithFile
  <2>5. CASE pc' # "up"
    BY <2>1, <2>4, <2>5, HeldStopped DEF ShellInvariant
  <2>6. CASE pc' = "up" /\ f = None
    <3>1. fdmap' = fdmap /\ at' = "end"
      BY <2>1, <2>2, <2>6
    <3>2. OwnFds' = OutFd /\ at' \notin WithFile
      BY <2>3, <3>1 DEF OwnFds, WithFile
    <3>3. QED
      BY <2>1, <2>3, <2>4, <2>6, <3>1, <3>2, HeldUp DEF ShellInvariant
  <2>7. CASE pc' = "up" /\ f # None
    <3>1. fdmap' = fdmap \cup {f} /\ f \notin fdmap /\ at' = next /\ fd' = f
      BY <2>1, <2>2, <2>7
    <3>2. OwnFds' = OutFd \cup {f} /\ fd' # out'
      BY <2>2, <2>3, <3>1 DEF OwnFds, WithFile
    <3>3. fdmap' = SystemFds \cup OwnFds' /\ SystemFds \cap OwnFds' = {}
      BY <2>3, <3>1, <3>2
    <3>4. QED
      BY <2>1, <2>3, <2>4, <2>7, <3>2, <3>3, HeldUp DEF ShellInvariant
  <2>8. QED
    BY <2>5, <2>6, <2>7
<1>7. CASE CatRead
  <2>1. /\ pc = "up" /\ pc' \in {"up", "overrun"} /\ at = "read"
        /\ UNCHANGED <<fdmap, sysfd, cmd, out, fd, polite>>
    BY <1>7 DEF CatRead, During, Read, SpecialIO, Overrun, Goes, fds
  <2>2. PICK next \in {"write", "close"} : at' = IF pc' = "up" THEN next ELSE at
    BY <1>7 DEF CatRead, Goes
  <2>3. QED
    BY <2>1, <2>2, CommandGoesOn DEF WithFile
<1>8. CASE CatWrite \/ SgetByte
  <2>1. pc = "up" /\ pc' \in {"up", "overrun"} /\ UNCHANGED <<fdmap, sysfd>>
    BY <1>8, WriteKeepsFds DEF CatWrite, SgetByte
  <2>2. UNCHANGED <<cmd, out, fd, polite>> /\ at \in WithFile
    BY <1>8, <2>1 DEF CatWrite, SgetByte, During, Goes, WithFile
  <2>3. PICK next \in {"read", "sget", "stuck"} : at' = IF pc' = "up" THEN next ELSE at
    BY <1>8 DEF CatWrite, SgetByte, Goes
  <2>4. QED
    BY <2>1, <2>2, <2>3, CommandGoesOn DEF WithFile
<1>9. CASE CatClose \/ SgetClose
  <2>1. /\ pc = "up" /\ pc' = "up" /\ sysfd' = sysfd /\ fdmap' = fdmap \ {fd}
        /\ at \in WithFile /\ at' = "end" /\ UNCHANGED <<cmd, out, polite>>
    BY <1>9 DEF CatClose, SgetClose, During, Close, Goes, WithFile
  <2>2. OwnFds = OutFd \cup {fd} /\ OutFd' = OutFd /\ fd \notin OutFd
    BY <2>1, UpHeld DEF OwnFds, OutFd, WithFile
  <2>3. OwnFds' = OutFd /\ at' \notin WithFile
    BY <2>1, <2>2 DEF OwnFds, WithFile
  <2>4. fdmap' = SystemFds \cup OutFd /\ SystemFds \cap OutFd = {} /\ STDOUT \in SystemFds
    BY <2>1, <2>2, UpHeld
  <2>5. FdsHeld'
    BY <2>1, <2>3, <2>4, HeldUp
  <2>6. QED
    BY <2>1, <2>5 DEF ShellInvariant, ShellTypeOK, WithFile
<1>10. CASE ExecTouch \/ ExecMkdir \/ ExecRm
  <2>1. /\ pc = "up" /\ pc' \in {"up", "panic", "overrun"} /\ UNCHANGED <<fdmap, sysfd>>
    BY <1>10 DEF ExecTouch, ExecMkdir, ExecRm, Create, CreateFiletype, LookupStrays, Overrun,
                 Unlink, UntracedDir, fds
  <2>2. /\ UNCHANGED <<cmd, out, fd, polite>> /\ at = "exec"
        /\ at' = IF pc' = "up" THEN "end" ELSE at
    BY <1>10 DEF ExecTouch, ExecMkdir, ExecRm, During, Goes
  <2>3. QED
    BY <2>1, <2>2, CommandGoesOn
<1>11. CASE ExecNoArg
  <2>1. /\ pc = "up" /\ pc' \in {"up", "panic", "overrun"} /\ UNCHANGED <<fdmap, sysfd>>
        /\ UNCHANGED <<cmd, out, fd, polite>> /\ at = "exec"
        /\ at' = IF pc' = "up" THEN "end" ELSE at
    BY <1>11 DEF ExecNoArg, During, UntracedDir, Overrun, Goes, fds
  <2>2. QED
    BY <2>1, CommandGoesOn
<1>12. CASE ExecExit
  <2>1. pc' = "sync_super" /\ at' = "off" /\ polite' = polite
    BY <1>12 DEF ExecExit, Shutdown
  <2>2. QED
    BY <2>1, HeldStopped DEF ShellInvariant, ShellTypeOK, ShutdownSteps
<1>13. CASE End
  <2>1. /\ pc = "up" /\ at = "end" /\ at' = "prompt" /\ pc' = "up" /\ sysfd' = sysfd
        /\ fdmap' = fdmap \ OutFd /\ polite' = polite
    BY <1>13 DEF End, Close, OutFd, vars, fds
  <2>2. OwnFds = OutFd /\ OwnFds' = {} /\ at' \notin WithFile
    BY <2>1 DEF OwnFds, WithFile
  <2>3. fdmap' = SystemFds /\ STDOUT \in SystemFds
    BY <2>1, <2>2, UpHeld
  <2>4. FdsHeld'
    BY <2>1, <2>2, <2>3, HeldUp
  <2>5. QED
    BY <2>1, <2>4 DEF ShellInvariant, ShellTypeOK
<1>14. CASE Prompt
  <2>1. pc = "up" /\ pc' \in {"up", "overrun"} /\ UNCHANGED <<fdmap, sysfd>>
    BY <1>14, PutsKeepsFds DEF Prompt
  <2>2. at = "prompt" /\ at' = "ready" /\ polite' = polite
    BY <1>14 DEF Prompt
  <2>3. OwnFds = {} /\ OwnFds' = {} /\ at' \notin WithFile
    BY <2>2 DEF OwnFds, WithFile
  <2>4. FdsHeld'
    BY <2>1, <2>3, UpHeld, HeldUp, HeldStopped
  <2>5. QED
    BY <2>2, <2>4 DEF ShellInvariant, ShellTypeOK
<1>15. QED
  BY <1>1, <1>2, <1>3, <1>4, <1>5, <1>6, <1>7, <1>8, <1>9, <1>10, <1>11, <1>12, <1>13, <1>14
     DEF ShellNext, ShellStep, ExecCat, ExecSget

LEMMA ShellInvariantHolds == ShellSpec => [](TypeOK /\ ShellInvariant)
<1>1. ShellInit => TypeOK /\ ShellInvariant
  <2>1. SUFFICES ASSUME ShellInit PROVE TypeOK /\ ShellInvariant
    OBVIOUS
  <2>2. TypeOK
    BY <2>1, TypeInit DEF ShellInit
  <2>3. pc = "off" /\ fdmap = {} /\ at = "off" /\ polite = TRUE
    BY <2>1 DEF ShellInit, Init
  <2>4. QED
    BY <2>2, <2>3 DEF ShellInvariant, ShellTypeOK, FdsHeld, FormatSteps, BootSteps
<1>2. TypeOK /\ ShellInvariant /\ [ShellNext]_all => (TypeOK /\ ShellInvariant)'
  <2>1. SUFFICES ASSUME TypeOK, ShellInvariant, [ShellNext]_all PROVE ShellInvariant'
    BY ShellKeepsTypes
  <2>2. CASE UNCHANGED all
    <3>1. UNCHANGED <<pc, fdmap, sysfd, at, cmd, out, fd, polite>>
      BY <2>2 DEF all, vars, fds, shell
    <3>2. OwnFds' = OwnFds /\ SystemFds' = SystemFds
      BY <3>1 DEF OwnFds, OutFd, SystemFds
    <3>3. QED
      BY <2>1, <3>1, <3>2 DEF ShellInvariant, ShellTypeOK, FdsHeld
  <2>3. QED
    BY <2>1, <2>2, ShellStepInv
<1>3. QED
  BY <1>1, <1>2, PTL DEF ShellSpec

\* Whatever is typed, opened, refused or redirected: between two commands only
\* the terminal and the serial port are open.
THEOREM ShellLeaksNoFds == ShellSpec => []NoFdLeaks
<1>1. ShellInvariant => NoFdLeaks
  BY DEF ShellInvariant, FdsHeld, NoFdLeaks, OwnFds, WithFile
<1>2. QED
  BY <1>1, ShellInvariantHolds, PTL

\* Whatever is typed, on a torn disk too: the blocks of the bitmaps, of the inode
\* table and of the root directory stay allocated (fs.c:58), as long as neither
\* what is typed or received (DataHarmless) nor what lies behind a full block
\* (OutsideHarmless) spells an entry of the root.  Without the first it is false:
\* mkdir, sget of such an entry into the directory, and rm of it free the root.
THEOREM ShellKeepsBitmapBlocks ==
    OutsideHarmless /\ DataHarmless /\ ShellSpec => []BitmapBlocksReserved
<1>1. ShellInit => ReservedInvariant
  BY ReservedInit DEF ShellInit
<1>2. ASSUME OutsideHarmless, DataHarmless, TypeOK, ShellInvariant, ReservedInvariant,
             [ShellNext]_all
      PROVE  ReservedInvariant'
  <2>1. CASE ExecNoArg
    <3>1. /\ pc = "up" /\ pc' \in {"up", "panic", "overrun"}
          /\ UNCHANGED <<mem, disk, saved>>
      BY <2>1 DEF ExecNoArg, UntracedDir, Overrun
    <3>2. QED
      BY <1>2, <3>1, ReservedQuiet
  <2>2. CASE Next \/ UNCHANGED vars
    BY <1>2, <2>2, ReservedStep
  <2>3. QED
    BY <1>2, <2>1, <2>2, ShellIsNext DEF all
<1>3. ReservedInvariant => BitmapBlocksReserved
  BY DEF ReservedInvariant, BitmapsMade, Reserved, BitmapBlocksReserved
<1>4. ASSUME OutsideHarmless, DataHarmless PROVE ShellSpec => []BitmapBlocksReserved
  BY <1>1, <1>2, <1>3, <1>4, ShellInvariantHolds, PTL DEF ShellSpec
<1>5. QED
  BY <1>4

-----------------------------------------------------------------------------
(* PoliteSoFar is inductive *)

\* What the commands of a polite shell ask for.
LEMMA ShellCallsPolite ==
    ASSUME TypeOK, ShellInvariant, PoliteSoFar, polite, ShellNext
    PROVE  PoliteNext \/ UNCHANGED vars
<1>1. CASE Boots
  BY <1>1 DEF Boots, PoliteNext
<1>2. CASE \E c \in Cmds : Enter(c)
  BY <1>2 DEF Enter
<1>3. ASSUME at = "exec", pc = "up"
      PROVE  /\ ~torn /\ Allowed(cmd)
             /\ cmd.op \in FileOps => cmd.file[1] \in DirPaths /\ cmd.file[2] \in UnlinkNames
             /\ cmd.op \in FileOps => /\ Opened(cmd)[1] \in DirPaths
                                      /\ Opened(cmd)[2] \in UnlinkNames
             /\ cmd.op # "cat" => Opened(cmd) = cmd.file
             /\ cmd.op \in {"touch", "mkdir"} => cmd.file[2] \in Names
  BY <1>3, CmdParts DEF PoliteSoFar, ShellInvariant, ShellTypeOK
<1>4. pc = "up" => ~torn
  BY DEF PoliteSoFar
<1>5. CASE Redirect
  <2>1. pc = "up" /\ at = "redirect"
    BY <1>5 DEF Redirect, Open
  <2>2. /\ Allowed(cmd) /\ cmd.redirect # NoFile
        /\ cmd.redirect[1] \in DirPaths /\ cmd.redirect[2] \in UnlinkNames
    BY <2>1, CmdParts DEF PoliteSoFar, ShellInvariant, ShellTypeOK
  <2>3. Found(cmd.redirect[1]) /\ MayOpen(cmd.redirect[1], cmd.redirect[2])
    BY <2>2 DEF Allowed
  <2>4. PoliteCall
    BY <1>5, <2>2, <2>3 DEF Redirect, PoliteCall
  <2>5. QED
    BY <1>4, <2>1, <2>4 DEF PoliteNext
<1>6. CASE ExecLs
  <2>1. pc = "up" /\ at = "exec" /\ cmd.op = "ls" /\ ListDir(cmd.file[1])
    BY <1>6 DEF ExecLs, During, ListDir
  <2>2. Traced(cmd.file[1]) /\ cmd.file[1] \in DirPaths
    BY <1>3, <2>1 DEF Allowed, FileOps
  <2>3. PoliteCall
    BY <2>1, <2>2 DEF PoliteCall
  <2>4. QED
    BY <1>4, <2>1, <2>3 DEF PoliteNext
<1>7. CASE ExecCat \/ ExecSget
  <2>1. /\ pc = "up" /\ at = "exec" /\ cmd.op \in {"cat", "sget"}
        /\ Open(Opened(cmd)[1], Opened(cmd)[2])
    BY <1>7 DEF ExecCat, ExecSget, ExecOpen, During, Open
  <2>2. /\ Found(Opened(cmd)[1]) /\ MayOpen(Opened(cmd)[1], Opened(cmd)[2])
        /\ Opened(cmd)[1] \in DirPaths /\ Opened(cmd)[2] \in UnlinkNames
    BY <1>3, <2>1 DEF Allowed, FileOps
  <2>3. PoliteCall
    BY <2>1, <2>2 DEF PoliteCall
  <2>4. QED
    BY <1>4, <2>1, <2>3 DEF PoliteNext
<1>8. CASE ExecTouch \/ ExecMkdir
  <2>1. /\ pc = "up" /\ at = "exec" /\ cmd.op \in {"touch", "mkdir"}
        /\ CreateAny(cmd.file[1], cmd.file[2])
    BY <1>8 DEF ExecTouch, ExecMkdir, During, Create, CreateAny
  <2>2. Traced(cmd.file[1]) /\ cmd.file[1] \in DirPaths /\ cmd.file[2] \in Names
    BY <1>3, <2>1 DEF Allowed, FileOps
  <2>3. PoliteCall
    BY <2>1, <2>2 DEF PoliteCall
  <2>4. QED
    BY <1>4, <2>1, <2>3 DEF PoliteNext
<1>9. CASE ExecRm
  <2>1. pc = "up" /\ at = "exec" /\ cmd.op = "rm" /\ Unlink(cmd.file[1], cmd.file[2])
    BY <1>9 DEF ExecRm, During, Unlink
  <2>2. /\ Found(cmd.file[1]) /\ MayUnlink(cmd.file[1], cmd.file[2])
        /\ cmd.file[1] \in DirPaths /\ cmd.file[2] \in UnlinkNames
    BY <1>3, <2>1 DEF Allowed, FileOps
  <2>3. PoliteCall
    BY <2>1, <2>2 DEF PoliteCall
  <2>4. QED
    BY <1>4, <2>1, <2>3 DEF PoliteNext
<1>10. ASSUME NEW f \in fdmap, NEW n \in Counts, NEW v \in Data, Write(f, n, v)
       PROVE  PoliteNext
  <2>1. pc = "up"
    BY <1>10 DEF Write
  <2>2. PoliteCall
    BY <1>10 DEF PoliteCall
  <2>3. QED
    BY <1>4, <2>1, <2>2 DEF PoliteNext
<1>11. CASE LsWrite \/ ExecEcho \/ CatWrite
  <2>1. pc = "up" /\ at \in {"exec", "ls", "end"} \cup WithFile
    BY <1>11 DEF LsWrite, ExecEcho, CatWrite, During, Puts, Write, WithFile
  <2>2. out \in fdmap
    BY <2>1, HeldIsOpen
  <2>3. \E n \in Counts, v \in Data : Write(out, n, v)
    BY <1>11, ShellAssumption DEF LsWrite, ExecEcho, CatWrite, Puts
  <2>4. QED
    BY <1>10, <2>2, <2>3
<1>12. CASE SgetByte
  <2>1. pc = "up" /\ at \in WithFile
    BY <1>12 DEF SgetByte, During, Write, WithFile
  <2>2. fd \in fdmap /\ 1 \in Counts
    BY <2>1, HeldIsOpen, ShellAssumption
  <2>3. QED
    BY <1>10, <1>12, <2>2 DEF SgetByte
<1>13. CASE CatRead
  <2>1. pc = "up" /\ at \in WithFile
    BY <1>13 DEF CatRead, During, Read, WithFile
  <2>2. fd \in fdmap /\ 1 \in Counts
    BY <2>1, HeldIsOpen, ShellAssumption
  <2>3. PoliteCall
    BY <1>13, <2>2 DEF CatRead, PoliteCall
  <2>4. QED
    BY <1>4, <2>1, <2>3 DEF PoliteNext
<1>14. CASE CatClose \/ SgetClose
  <2>1. pc = "up" /\ at \in WithFile /\ Close(fd)
    BY <1>14 DEF CatClose, SgetClose, During, Close, WithFile
  <2>2. fd \in Fds /\ fd \notin SystemFds
    BY <2>1, HeldIsOpen
  <2>3. PoliteCall
    BY <2>1, <2>2 DEF PoliteCall
  <2>4. QED
    BY <1>4, <2>1, <2>3 DEF PoliteNext
<1>15. CASE ExecHelp \/ Prompt
  <2>1. pc = "up" /\ Puts(STDOUT)
    BY <1>15 DEF ExecHelp, Prompt, Puts, Write
  <2>2. STDOUT \in fdmap
    BY <2>1, HeldIsOpen
  <2>3. QED
    BY <1>10, <2>1, <2>2 DEF Puts
<1>16. CASE ExecNoArg
  <2>1. pc = "up" /\ at = "exec" /\ cmd.op = "noarg"
    BY <1>16 DEF ExecNoArg, During
  <2>2. QED
    BY <1>3, <2>1 DEF Allowed
<1>17. CASE ExecExit
  BY <1>17 DEF ExecExit, PoliteNext, Power
<1>18. CASE End
  <2>1. pc = "up" /\ at = "end" /\ ((Close(out) /\ out # STDOUT) \/ UNCHANGED vars)
    BY <1>18 DEF End
  <2>2. out \in Fds /\ (out # STDOUT => out \notin SystemFds)
    BY <2>1, HeldIsOpen
  <2>3. PoliteCall \/ UNCHANGED vars
    BY <2>1, <2>2 DEF PoliteCall
  <2>4. QED
    BY <1>4, <2>1, <2>3 DEF PoliteNext
<1>19. QED
  BY <1>1, <1>2, <1>5, <1>6, <1>7, <1>8, <1>9, <1>11, <1>12, <1>13, <1>14, <1>15, <1>16, <1>17,
     <1>18 DEF ShellNext, ShellStep

\* The names on a path are those that its directory and its parent record.
LEMMA PathRecorded ==
    ASSUME TypeOK, FsOK(ibmap, dbmap, itab, disk), NEW path, Found(path), Len(path) \in 0 .. 2
    PROVE  LET d == SeekDirectory(itab, disk, path)
           IN  /\ Len(path) = 0 => d = 0
               /\ Len(path) = 1 => d # 0 /\ itab[d].name = path[1] /\ itab[d].parent = 0
               /\ Len(path) = 2 => /\ d # 0 /\ itab[d].name = path[2] /\ itab[d].parent # 0
                                   /\ itab[itab[d].parent].name = path[1]
<1> DEFINE first  == IF Len(path) = 0 THEN 0 ELSE SearchDir(itab, disk, 0, path[1])
           second == IF Len(path) < 2 \/ first \notin Inodes THEN first
                     ELSE SearchDir(itab, disk, first, path[2])
<1>1. SeekDirectory(itab, disk, path) = second /\ second # None /\ second \in Inodes
  BY DEF SeekDirectory, Found
<1>2. 0 \in Dirs(ibmap, itab)
  BY DEF FsOK, RootOK, Dirs
<1>3. CASE Len(path) = 0
  BY <1>1, <1>3
<1>4. CASE Len(path) = 1
  <2>1. second = SearchDir(itab, disk, 0, path[1])
    BY <1>4
  <2> HIDE DEF second
  <2>2. second \in ibmap \ {0} /\ itab[second].name = path[1] /\ itab[second].parent = 0
    BY <1>1, <1>2, <2>1, FoundEntry
  <2>3. QED
    BY <1>1, <1>4, <2>2
<1>5. CASE Len(path) = 2
  <2>1. first = SearchDir(itab, disk, 0, path[1]) /\ first \in Inodes /\ first # None
    BY <1>1, <1>5, SizesAssumption DEF Inodes, None
  <2>2. second = SearchDir(itab, disk, first, path[2])
    BY <1>5, <2>1
  <2>3. itab[first].type = "dir"
    BY <1>5, <2>1 DEF Found, Traced
  <2> HIDE DEF first, second
  <2>4. first \in ibmap \ {0} /\ itab[first].name = path[1]
    BY <1>2, <2>1, FoundEntry
  <2>5. first \in Dirs(ibmap, itab)
    BY <2>3, <2>4 DEF Dirs
  <2>6. second \in ibmap \ {0} /\ itab[second].name = path[2] /\ itab[second].parent = first
    BY <1>1, <2>2, <2>5, FoundEntry
  <2>7. QED
    BY <1>1, <1>5, <2>4, <2>6
<1>6. QED
  BY <1>3, <1>4, <1>5

\* Two paths never lead to the same directory.
LEMMA PathsDiffer ==
    ASSUME TypeOK, FsOK(ibmap, dbmap, itab, disk), NEW p \in DirPaths, NEW q \in DirPaths,
           Found(p), Found(q), SeekDirectory(itab, disk, p) = SeekDirectory(itab, disk, q)
    PROVE  p = q
<1> DEFINE S == Names \cup {"dev"}
           d == SeekDirectory(itab, disk, p)
           e == SeekDirectory(itab, disk, q)
<1>1. PICK m \in 0 .. 2 : p \in [1 .. m -> S]
  BY PathsAssumption
<1>2. PICK n \in 0 .. 2 : q \in [1 .. n -> S]
  BY PathsAssumption
<1>3. Len(p) = m /\ Len(q) = n
  BY <1>1, <1>2
<1>4. /\ m = 0 => d = 0
      /\ m = 1 => d # 0 /\ itab[d].name = p[1] /\ itab[d].parent = 0
      /\ m = 2 => /\ d # 0 /\ itab[d].name = p[2] /\ itab[d].parent # 0
                  /\ itab[itab[d].parent].name = p[1]
  BY <1>1, <1>3, PathRecorded
<1>5. /\ n = 0 => e = 0
      /\ n = 1 => e # 0 /\ itab[e].name = q[1] /\ itab[e].parent = 0
      /\ n = 2 => /\ e # 0 /\ itab[e].name = q[2] /\ itab[e].parent # 0
                  /\ itab[itab[e].parent].name = q[1]
  BY <1>2, <1>3, PathRecorded
<1>6. d = e
  OBVIOUS
<1> HIDE DEF d, e
<1>7. m = n
  BY <1>4, <1>5, <1>6
<1>8. \A i \in 1 .. m : p[i] = q[i]
  BY <1>4, <1>5, <1>6, <1>7
<1>9. QED
  BY <1>1, <1>2, <1>7, <1>8

\* Opening the redirection does not make the other file of the command busy.
LEMMA AllowedAfterOpen ==
    ASSUME TypeOK, FsOK(ibmap, dbmap, itab, disk), NEW c \in Cmds, Allowed(c),
           c.redirect # NoFile, Open(c.redirect[1], c.redirect[2]), pc' = "up"
    PROVE  Allowed(c)'
<1> DEFINE to == c.redirect
           d  == SeekDirectory(itab, disk, to[1])
           o  == SearchDir(itab, disk, d, to[2])
           f  == FirstFree(fdmap, NFds)
<1>1. itab' = itab /\ disk' = disk
  BY DEF Open, UntracedDir, LookupStrays, Overrun, mem
<1>2. Found(to[1]) /\ d # None /\ to[1] \in DirPaths
  BY CmdParts DEF Allowed, Found
<1>3. \A i \in OpenInodes' : i \in OpenInodes \/ (i = o /\ o # None)
  <2>1. CASE UNCHANGED fds
    BY <2>1 DEF OpenInodes, fds
  <2>2. CASE o # None /\ f # None /\ NewFd(f, o)
    <3>1. f \in Fds /\ fdmap \in SUBSET Fds /\ fdtab \in [Fds -> FdEntry]
      BY <2>2, FirstFreeIsFree, SizesAssumption DEF Fds, TypeOK
    <3>2. fdmap' = fdmap \cup {f} /\ fdtab'[f].ino = o
          /\ \A g \in Fds : g # f => fdtab'[g] = fdtab[g]
      BY <2>2, <3>1 DEF NewFd
    <3> HIDE DEF f, o
    <3>3. QED
      BY <2>2, <3>1, <3>2 DEF OpenInodes
  <2>3. QED
    BY <1>2, <2>1, <2>2 DEF Open, LookupStrays, Overrun
<1>4. ASSUME c.op = "rm" PROVE MayUnlink(c.file[1], c.file[2])'
  <2> DEFINE e == SeekDirectory(itab, disk, c.file[1])
             t == SearchDir(itab, disk, e, c.file[2])
  <2>1. /\ Found(c.file[1]) /\ c.file[1] \in DirPaths /\ to # c.file
        /\ MayUnlink(c.file[1], c.file[2])
    BY <1>4, CmdParts DEF Allowed, FileOps
  <2>2. d \in Dirs(ibmap, itab) /\ e \in Dirs(ibmap, itab)
    BY <1>2, <2>1, TracedIsDir, PathLength DEF Found
  <2>3. ASSUME t # None, o # None PROVE t # o
    <3>1. SUFFICES ASSUME t = o PROVE FALSE
      OBVIOUS
    <3>2. itab[o].name = to[2] /\ itab[o].parent = d
      BY <2>2, <2>3, FoundEntry
    <3>3. itab[t].name = c.file[2] /\ itab[t].parent = e
      BY <2>2, <2>3, FoundEntry
    <3>4. to[2] = c.file[2] /\ d = e
      BY <3>1, <3>2, <3>3
    <3>5. to[1] = c.file[1]
      BY <1>2, <2>1, <3>4, PathsDiffer
    <3>6. c.file \in Targets /\ to \in Targets
      BY <1>4, ShellAssumption DEF Cmds, FileOps, OtherOps
    <3>7. to \in DirPaths \X UnlinkNames /\ c.file \in DirPaths \X UnlinkNames
      BY <3>6, ShellAssumption
    <3>8. to = c.file
      BY <3>4, <3>5, <3>7
    <3>9. QED
      BY <2>1, <3>8
  <2>4. t \in Inodes => /\ itab[t].type # "special" /\ itab[t].name # "dev"
                        /\ t \notin OpenInodes
    BY <2>1 DEF MayUnlink, Target
  <2>5. t \in Inodes => t \notin OpenInodes' /\ t # None
    BY <1>3, <2>3, <2>4, SizesAssumption DEF Inodes, None
  <2>6. QED
    BY <1>1, <2>4, <2>5 DEF MayUnlink, Target
<1>5. Opened(c)' = Opened(c) /\ (c.op # "cat" => Opened(c) = c.file)
  BY DEF Opened
<1>6. QED
  BY <1>1, <1>4, <1>5 DEF Allowed, Traced, Found, MayOpen, Target

LEMMA ShellKeepsTorn ==
    ASSUME ShellNext, ~Boots
    PROVE  torn' = torn /\ (polite' => polite)
<1>1. CASE \E c \in Cmds : Enter(c)
  BY <1>1 DEF Enter, vars, ghost
<1>2. CASE LsWrite \/ ExecEcho \/ ExecHelp \/ Prompt
  BY <1>2, PutsKeepsFds DEF LsWrite, ExecEcho, ExecHelp, Prompt, Goes
<1>3. CASE CatWrite \/ SgetByte
  BY <1>3, WriteKeepsFds DEF CatWrite, SgetByte, Goes
<1>4. CASE ExecTouch \/ ExecMkdir \/ ExecRm
  <2>1. CASE ExecTouch \/ ExecMkdir
    <3>1. ASSUME NEW dir, NEW name, NEW type, Create(dir, name, type, FALSE) PROVE torn' = torn
      <4>1. CASE CreateFiletype(dir, name, type, FALSE)
        BY <4>1 DEF CreateFiletype
      <4>2. CASE UNCHANGED ghost
        BY <4>2 DEF ghost
      <4>3. QED
        BY <3>1, <4>1, <4>2 DEF Create, LookupStrays, Overrun
    <3>2. polite' = polite /\ \/ Create(cmd.file[1], cmd.file[2], "normal", FALSE)
                              \/ Create(cmd.file[1], cmd.file[2], "dir", FALSE)
      BY <2>1 DEF ExecTouch, ExecMkdir, Goes
    <3>3. torn' = torn
      BY <3>1, <3>2
    <3>4. QED
      BY <3>2, <3>3
  <2>2. CASE ExecRm
    BY <2>2 DEF ExecRm, Unlink, UntracedDir, LookupStrays, Overrun, Goes, ghost
  <2>3. QED
    BY <1>4, <2>1, <2>2
<1>5. CASE Redirect \/ ExecCat \/ ExecSget
  BY <1>5 DEF Redirect, ExecCat, ExecSget, ExecOpen, Open, UntracedDir, LookupStrays, Overrun,
              Goes, ghost
<1>6. CASE ExecLs \/ CatRead \/ CatClose \/ SgetClose \/ ExecNoArg \/ ExecExit \/ End
  BY <1>6 DEF ExecLs, CatRead, CatClose, SgetClose, ExecNoArg, ExecExit, End, ListDir, Read,
              SpecialIO, UntracedDir, Overrun, Close, Shutdown, Goes, vars, ghost, shell
<1>7. QED
  BY <1>1, <1>2, <1>3, <1>4, <1>5, <1>6 DEF ShellNext, ShellStep

LEMMA PoliteStep ==
    ASSUME TypeOK, ShellInvariant, PoliteSoFar, [ShellNext]_all
    PROVE  /\ PoliteSoFar'
           /\ polite' => PoliteNext \/ UNCHANGED vars
<1>1. CASE UNCHANGED all
  <2>1. UNCHANGED vars /\ UNCHANGED <<at, cmd, polite>>
    BY <1>1 DEF all, shell
  <2>2. UNCHANGED <<pc, ibmap, dbmap, itab, fdmap, fdtab, disk, saved, dirty, torn>>
    BY <2>1 DEF vars, mem, fds, ghost
  <2>3. FsInvariant /\ MountInvariant /\ CrashInvariant
           => (FsInvariant /\ MountInvariant /\ CrashInvariant)'
    BY <2>1, FsStep, MountStep, CrashStep
  <2>4. Allowed(cmd) => Allowed(cmd)'
    BY <2>1, <2>2 DEF Allowed, Traced, Found, MayOpen, MayUnlink, Target, OpenInodes
  <2>5. QED
    BY <2>1, <2>2, <2>3, <2>4 DEF PoliteSoFar
<1>2. ASSUME ShellNext, polite'
      PROVE  /\ PoliteNext \/ UNCHANGED vars
             /\ (FsInvariant /\ MountInvariant /\ CrashInvariant)'
             /\ pc' = "up" => /\ ~torn'
                              /\ at' \in {"redirect", "exec"} => Allowed(cmd)'
  <2>1. polite
    BY <1>2, ShellKeepsTorn DEF Boots
  <2>2. PoliteNext \/ UNCHANGED vars
    BY <1>2, <2>1, ShellCallsPolite
  <2>3. (FsInvariant /\ MountInvariant /\ CrashInvariant)'
    BY <2>1, <2>2, FsStep, MountStep, CrashStep DEF PoliteSoFar
  <2>4. ASSUME pc' = "up" PROVE ~torn' /\ (at' \in {"redirect", "exec"} => Allowed(cmd)')
    <3>1. CASE Boots
      BY <1>2, <2>4, <3>1 DEF Boots
    <3>2. CASE ~Boots
      <4>1. pc = "up"
        BY <1>2, <3>2, <2>4
           DEF ShellNext, ShellStep, Enter, Redirect, ExecLs, LsWrite, ExecCat, CatRead, CatWrite,
               CatClose, ExecEcho, ExecTouch, ExecMkdir, ExecRm, ExecSget, SgetClose, ExecHelp,
               ExecNoArg, ExecExit, End, Prompt, SgetByte, ExecOpen, Open, ListDir, Puts, Write,
               Read, Close, Create, Unlink, Shutdown
      <4>2. ~torn'
        BY <1>2, <2>1, <3>2, <4>1, ShellKeepsTorn DEF PoliteSoFar
      <4>3. CASE \E c \in Cmds : Enter(c)
        <5>1. PICK c \in Cmds : Enter(c)
          BY <4>3
        <5>2. /\ UNCHANGED vars /\ Allowed(c) /\ cmd' = c
          BY <1>2, <5>1 DEF Enter
        <5>3. UNCHANGED <<itab, disk, fdmap, fdtab>>
          BY <5>2 DEF vars, mem, fds
        <5>4. Allowed(cmd)'
          BY <5>2, <5>3 DEF Allowed, Traced, Found, MayOpen, MayUnlink, Target, OpenInodes
        <5>5. QED
          BY <4>2, <5>4
      <4>4. CASE Redirect
        <5>1. /\ at = "redirect" /\ Open(cmd.redirect[1], cmd.redirect[2]) /\ cmd' = cmd
          BY <4>4 DEF Redirect
        <5>2. cmd \in Cmds /\ Allowed(cmd) /\ cmd.redirect # NoFile
          BY <2>1, <4>1, <5>1 DEF PoliteSoFar, ShellInvariant, ShellTypeOK
        <5>3. FsOK(ibmap, dbmap, itab, disk)
          BY <2>1, <4>1, RunningInv DEF PoliteSoFar, Running, Mounted
        <5>4. PICK c \in Cmds : c = cmd
          BY <5>2
        <5>5. Allowed(c)' /\ cmd' = c
          BY <2>4, <5>1, <5>2, <5>3, <5>4, AllowedAfterOpen
        <5>6. Allowed(cmd)'
          BY <5>5 DEF Allowed
        <5>7. QED
          BY <4>2, <5>6
      <4>5. CASE ~Redirect /\ ~(\E c \in Cmds : Enter(c))
        <5>1. at' \notin {"redirect", "exec"}
          BY <1>2, <2>4, <3>2, <4>5
             DEF ShellNext, ShellStep, ExecLs, LsWrite, ExecCat, CatRead, CatWrite, CatClose,
                 ExecEcho, ExecTouch, ExecMkdir, ExecRm, ExecSget, SgetClose, ExecHelp, ExecNoArg,
                 ExecExit, End, Prompt, SgetByte, ExecOpen, Goes
        <5>2. QED
          BY <4>2, <5>1
      <4>6. QED
        BY <4>3, <4>4, <4>5
    <3>3. QED
      BY <3>1, <3>2
  <2>5. QED
    BY <2>2, <2>3, <2>4
<1>3. QED
  BY <1>1, <1>2 DEF PoliteSoFar

LEMMA PoliteHolds == ShellSpec => [](TypeOK /\ ShellInvariant /\ PoliteSoFar)
<1>1. ShellInit => PoliteSoFar
  <2>1. SUFFICES ASSUME ShellInit PROVE PoliteSoFar
    OBVIOUS
  <2>2. FsInvariant /\ MountInvariant /\ CrashInvariant /\ pc = "off"
    BY <2>1, FsInit, MountInit, CrashInit DEF ShellInit, Init
  <2>3. QED
    BY <2>2 DEF PoliteSoFar
<1>2. TypeOK /\ ShellInvariant /\ PoliteSoFar /\ [ShellNext]_all => PoliteSoFar'
  BY PoliteStep
<1>3. QED
  BY <1>1, <1>2, ShellInvariantHolds, PTL DEF ShellSpec

\* As long as its commands leave directories, system files and their own output
\* alone, every call of the shell is one that PoliteNext allows.
THEOREM ShellStaysPolite == ShellSpec => ShellIsPolite
<1>1. TypeOK /\ ShellInvariant /\ PoliteSoFar /\ [ShellNext]_all
        => [polite' => PoliteNext \/ UNCHANGED vars]_all
  BY PoliteStep
<1>2. QED
  BY <1>1, PoliteHolds, PTL DEF ShellSpec, ShellIsPolite

\* So what is proved for disciplined callers holds of the running system, through
\* redirections, error paths, power losses and reboots.
THEOREM PoliteShellIsSafe ==
    ShellSpec => [](polite => /\ MemoryConsistent /\ FdsConsistent /\ DiskConsistent
                              /\ MountNeverPanics /\ CrashKeepsUntouched)
<1>1. FsInvariant => MemoryConsistent /\ FdsConsistent /\ DiskConsistent
  BY DEF FsInvariant, MemoryConsistent, FdsConsistent, DiskConsistent, OpenFilesOK, FsInv, Running
<1>2. MountInvariant => MountNeverPanics
  BY DEF MountInvariant, MountNeverPanics, Running
<1>3. CrashInvariant => CrashKeepsUntouched
  BY DEF CrashInvariant
<1>4. PoliteSoFar => (polite => /\ MemoryConsistent /\ FdsConsistent /\ DiskConsistent
                                /\ MountNeverPanics /\ CrashKeepsUntouched)
  BY <1>1, <1>2, <1>3 DEF PoliteSoFar
<1>5. QED
  BY <1>4, PoliteHolds, PTL
=============================================================================
