-------------------------- MODULE FileSystemSafety --------------------------
(***************************************************************************)
(* What keeps the file system of fs.c consistent.  The calls do not check  *)
(* their arguments, so this is stated for callers that keep the discipline *)
(* of PoliteNext; Shell shows how far the shell is one of them.            *)
(***************************************************************************)
EXTENDS FileSystem

Target(dir, name) == SearchDir(itab, disk, SeekDirectory(itab, disk, dir), name)

\* No file is used as a directory on the way.
Traced(path) ==
    Len(path) > 1 =>
        LET first == SearchDir(itab, disk, 0, path[1])
        IN  first \in Inodes => itab[first].type = "dir"

Found(path) == Traced(path) /\ SeekDirectory(itab, disk, path) # None

OpenInodes == {fdtab[f].ino : f \in fdmap}

\* The file is there to be opened: a directory is not.
MayOpen(dir, name) ==
    LET ino == Target(dir, name) IN ino \in Inodes => itab[ino].type # "dir"

\* Nobody has the file open, and the system does not need it.
MayUnlink(dir, name) ==
    LET ino == Target(dir, name)
    IN  ino \in Inodes => /\ itab[ino].type # "special"
                          /\ itab[ino].name # "dev"
                          /\ ino \notin OpenInodes

\* The shell reads and writes descriptor 0 for ever.
SystemFds == {sysfd[f] : f \in SystemFiles}

\* A device has no position; a closed descriptor is refused by seek itself.
HasPosition(fd) ==
    fd \in fdmap => fdtab[fd].ino \in Inodes /\ itab[fdtab[fd].ino].type # "special"

\* Calls of disciplined callers.  On a torn disk nothing is promised to them.
PoliteCall ==
    \/ \E dir \in DirPaths, name \in Names : Traced(dir) /\ CreateAny(dir, name)
    \/ \E dir \in DirPaths, name \in UnlinkNames :
          Found(dir) /\ MayOpen(dir, name) /\ Open(dir, name)
    \/ \E dir \in DirPaths, name \in UnlinkNames :
          Found(dir) /\ MayUnlink(dir, name) /\ Unlink(dir, name)
    \/ \E dir \in DirPaths : Traced(dir) /\ ListDir(dir)
    \/ \E fd \in Fds : fd \notin SystemFds /\ Close(fd)
    \/ \E fd \in fdmap, count \in Counts : Read(fd, count)
    \/ \E fd \in fdmap, count \in Counts, v \in Data : Write(fd, count, v)
    \/ \E fd \in Fds, offset \in Offsets, param \in {"SEEK_SET", "SEEK_CUR", "SEEK_END"} :
          HasPosition(fd) /\ Seek(fd, offset, param)

PoliteNext == Power \/ (~torn /\ PoliteCall)

PoliteSpec == Init /\ [][PoliteNext]_vars

-----------------------------------------------------------------------------
PcValues == {"off", "up", "panic", "overrun"} \cup FormatSteps \cup BootSteps
              \cup ShutdownSteps
Calls == [op : {"none", "create", "open", "close", "read", "write", "seek", "unlink", "ls"},
          ret : Int]
Metadata == [magic : BOOLEAN, used : Nat, ibmap : SUBSET Inodes, dbmap : SUBSET Blocks,
             itab : [Inodes -> Inode], behind : SUBSET Blocks]
DirEntries == [dir : Inodes, name : SlotNames, ino : Inodes, start : Blocks]

TypeOK ==
    /\ pc \in PcValues
    /\ ibmap \in SUBSET Inodes /\ dbmap \in SUBSET Blocks
    /\ itab \in [Inodes -> Inode] /\ used \in Nat
    /\ fdmap \in SUBSET Fds /\ fdtab \in [Fds -> FdEntry]
    /\ sysfd \in [SystemFiles -> Fds \cup {None}]
    /\ disk \in [Blocks -> [Slots -> Slot]]
    /\ saved \in Metadata
    /\ call \in Calls
    /\ dirty \in BOOLEAN /\ torn \in BOOLEAN /\ crashes \in Nat
    /\ kept \in SUBSET DirEntries

-----------------------------------------------------------------------------
(* Consistency of one set of metadata with the blocks: inode bitmap I, data
   bitmap D, inode table T, blocks B. *)

Dirs(I, T)   == {i \in I : T[i].type = "dir"}
Owners(I, T) == {i \in I : T[i].type # "special"}

RootOK(I, T) == 0 \in I /\ T[0].type = "dir" /\ T[0].start = DataStart

\* Every directory and normal file owns one block of the data region.
BlocksOwned(I, T) ==
    /\ \A i \in Owners(I, T) : T[i].start >= DataStart
    /\ \A i, j \in Owners(I, T) : T[i].start = T[j].start => i = j

\* The data bitmap holds the metadata blocks and the owned ones: none is lost.
BlocksCounted(I, D, T) ==
    D = 0 .. (DataStart - 1) \cup {T[i].start : i \in Owners(I, T)}

\* An entry names an allocated inode that records this name and this parent.
EntryOK(I, T, d, e) == /\ e.ino \in I \ {0, d}
                       /\ T[e.ino].name = e.name
                       /\ T[e.ino].parent = d

EntriesOK(I, T, B) ==
    \A d \in Dirs(I, T) :
        /\ T[d].size <= BlockLen
        /\ \A k \in Slots : k < T[d].size => EntryOK(I, T, d, B[T[d].start][k])

NamesUnique(I, T, B) ==
    \A d \in Dirs(I, T) : \A j, k \in Slots :
        /\ j < T[d].size /\ k < T[d].size
        /\ B[T[d].start][j].name = B[T[d].start][k].name
        => j = k

FsOK(I, D, T, B) ==
    /\ RootOK(I, T) /\ BlocksOwned(I, T) /\ BlocksCounted(I, D, T)
    /\ EntriesOK(I, T, B) /\ NamesUnique(I, T, B)

Mounted == BootSteps \cup {"up"} \cup ShutdownSteps

\* While the kernel runs on a disk that was never torn, bitmaps, inode table
\* and directories agree, across shutdowns and reboots.
MemoryConsistent == pc \in Mounted /\ ~torn => FsOK(ibmap, dbmap, itab, disk)

\* An open descriptor stands for an allocated file, never for a directory or
\* for an inode that was freed and may be given to another file.
FdsConsistent ==
    pc \in Mounted /\ ~torn =>
        \A f \in fdmap : fdtab[f].ino \in ibmap /\ itab[fdtab[f].ino].type # "dir"

\* After a complete shutdown, and after a power loss before names changed, what
\* is on the disk is consistent.
DiskConsistent ==
    pc = "off" /\ saved.magic /\ ~torn =>
        FsOK(saved.ibmap, saved.dbmap, saved.itab, disk)

\* A disk that was never torn mounts: open_system_files finds /dev/tty and
\* /dev/ttyS and does not panic.
MountNeverPanics == pc = "panic" => torn

\* The metadata on the disk leads to entry e, its inode and its block, and both
\* bitmaps on the disk hold them.
OnDisk(e) ==
    /\ saved.itab[e.dir].type = "dir"
    /\ SearchDir(saved.itab, disk, e.dir, e.name) = e.ino
    /\ {e.dir, e.ino} \subseteq saved.ibmap
    /\ saved.itab[e.ino].start = e.start
    /\ saved.itab[e.ino].type # "special" => e.start \in saved.dbmap \cap saved.behind

\* A power loss at any moment, between the writes of shutdown() too, does not
\* cost a file of the last complete shutdown, unless it or its directory was
\* unlinked since.
CrashKeepsUntouched == \A e \in kept : OnDisk(e)

\* The contents of a file change only in a write through a descriptor that is
\* open on this very file.
ChangesOnlyByWrite(i) ==
    disk'[itab[i].start] # disk[itab[i].start] =>
        \E f \in fdmap : fdtab[f].ino = i /\ fdtab'[f].wpos > fdtab[f].wpos

FilesIsolated ==
    [][pc = "up" /\ ~torn =>
          \A i \in ibmap : itab[i].type = "normal" => ChangesOnlyByWrite(i)]_vars

-----------------------------------------------------------------------------
(* The inductive invariant behind MemoryConsistent, FdsConsistent and
   DiskConsistent. *)

\* open_system_files opens its two names without looking at the type.
SystemTyped(I, T) == \A i \in I : T[i].name \in SystemFiles => T[i].type = "special"

FsInv(I, D, T, B) == FsOK(I, D, T, B) /\ SystemTyped(I, T)

\* A kernel that stopped in a panic still loses its memory like any other.
Running == Mounted \cup {"panic"}

OpenFilesOK == \A f \in fdmap : fdtab[f].ino \in ibmap /\ itab[fdtab[f].ino].type # "dir"

\* Two inode tables that differ in sizes of files only.
SameTables(I, T, U) ==
    \A i \in I : /\ U[i].name = T[i].name /\ U[i].type = T[i].type
                 /\ U[i].start = T[i].start /\ U[i].parent = T[i].parent
                 /\ T[i].type = "dir" => U[i].size = T[i].size

\* Before a name changes, the disk has what memory has.
SavedAgrees == /\ saved.ibmap = ibmap /\ saved.dbmap = dbmap /\ saved.behind = dbmap
               /\ SameTables(ibmap, itab, saved.itab)

\* How far initalize_file_system has come on a blank disk.
Formatting ==
    /\ pc \in {"off", "fmt_super", "fmt_ibmap"} => ibmap = {}
    /\ pc \in {"fmt_dbmap", "fmt_itab"} => ibmap = {0} /\ dbmap = 0 .. DataStart
    /\ pc \in {"off"} \cup FormatSteps => fdmap = {}
    /\ pc \in FormatSteps => dirty

\* How far shutdown has come.
Syncing ==
    /\ pc \in {"sync_dbmap", "sync_itab"} => saved.ibmap = ibmap
    /\ pc = "sync_itab" => saved.dbmap = dbmap

FsInvariant ==
    /\ Formatting /\ Syncing
    /\ pc \in Running /\ ~torn => /\ FsInv(ibmap, dbmap, itab, disk)
                                  /\ OpenFilesOK
                                  /\ ~dirty => SavedAgrees
    /\ pc = "off" /\ saved.magic /\ ~torn =>
          /\ FsInv(saved.ibmap, saved.dbmap, saved.itab, disk)
          /\ saved.behind = saved.dbmap

-----------------------------------------------------------------------------
(* The inductive invariants behind MountNeverPanics and CrashKeepsUntouched,
   both on top of FsInvariant. *)

\* Slot k of directory d, read with inode table T, is the entry of inode i.
EntryAt(T, B, d, k, name, i) ==
    k < T[d].size /\ B[T[d].start][k].name = name /\ B[T[d].start][k].ino = i

Linked(T, B, d, name, i) == \E k \in Slots : EntryAt(T, B, d, k, name, i)

\* The names that create_system_files has still to make.
Unmade(step) == CASE step \in {"fmt_root", "mk_dev"} -> {"dev"} \cup SystemFiles
                  [] step = "mk_tty"  -> SystemFiles
                  [] step = "mk_ttyS" -> {"ttyS"}
                  [] OTHER            -> {}

\* No inode has a name of todo; /dev and the other system files are linked.
SystemFilesMade(I, T, B, todo) ==
    /\ \A i \in I : T[i].name \notin todo
    /\ "dev" \notin todo =>
          \E d \in Dirs(I, T) : /\ Linked(T, B, 0, "dev", d)
                               /\ \A f \in SystemFiles \ todo : \E i \in I : Linked(T, B, d, f, i)

\* While files are made names have changed, so a crash then leaves a torn disk.
MountInvariant ==
    /\ Unmade(pc) # {} => dirty
    /\ pc \in Running /\ ~torn => /\ pc # "panic"
                                  /\ SystemFilesMade(ibmap, itab, disk, Unmade(pc))
    /\ pc = "off" /\ saved.magic /\ ~torn =>
          SystemFilesMade(saved.ibmap, saved.itab, disk, {})

\* An entry of the last shutdown: its inode and its directory are still the ones
\* that were saved, and it stands at a place that lies inside the directory both
\* for memory and for the metadata on the disk.  Entries only move forward.
KeptEntry(e) ==
    /\ {e.dir, e.ino} \subseteq ibmap \cap saved.ibmap
    /\ \A i \in {e.dir, e.ino} : /\ saved.itab[i].start = itab[i].start
                                 /\ saved.itab[i].type = itab[i].type
    /\ itab[e.dir].type = "dir" /\ itab[e.ino].start = e.start
    /\ itab[e.ino].type # "special" => e.start \in saved.dbmap \cap saved.behind
    /\ \E k \in Slots : /\ EntryAt(itab, disk, e.dir, k, e.name, e.ino)
                        /\ k < saved.itab[e.dir].size

CrashInvariant ==
    /\ CrashKeepsUntouched
    /\ pc \in FormatSteps \/ Unmade(pc) # {} \/ (torn /\ pc # "off") => kept = {}
    /\ pc \in Running /\ ~torn => \A e \in kept : KeptEntry(e)

-----------------------------------------------------------------------------
(* What holds also for callers without discipline, and a claim the code does
   not keep. *)

\* fs.c:58 "permanently allocates all blocks used for metadata, and the first":
\* so it is, but for block 0, which goes when a special file is unlinked, as long
\* as nobody writes bytes that spell an entry of the root: written into a
\* directory, unlink would follow them and give the root's block back.
BitmapBlocksReserved == pc = "up" => 1 .. DataStart \subseteq dbmap

(* The inductive invariant behind it: the entries that unlink follows lead to
   inodes other than the root's, and no other inode starts in these blocks. *)

\* What unlink may find behind a full directory block, if it is one of the names
\* that calls use, is what is left of an entry: it does not lead to the root.
LeadsNotToRoot(slot) == slot.name \in UnlinkNames => slot.ino # 0
OutsideHarmless == \A slot \in Outside : LeadsNotToRoot(slot)

\* The bytes that callers write may spell entries, of any other inode.  write does
\* not look at the type, so it is the callers that must see to this.
DataHarmless == \A slot \in Data : LeadsNotToRoot(slot)

Reserved(I, D) == 0 \in I /\ 1 .. DataStart \subseteq D

StartsOutside(T) == \A i \in Inodes \ {0} : T[i].start \notin 1 .. DataStart

RootUnnamed(B) == \A b \in Blocks, k \in Slots : LeadsNotToRoot(B[b][k])

\* From the formatting of the bitmaps on.  An inode table without entries in the
\* root, as a crash while formatting may leave it, does not come up:
\* open_system_files panics.
BitmapsMade ==
    \/ pc \in {"fmt_dbmap", "fmt_itab", "fmt_root", "mk_dev", "mk_tty", "mk_ttyS", "up"}
              \cup ShutdownSteps
    \/ pc \in {"open_tty", "open_ttyS"} /\ itab[0].size > 0

ReservedInvariant ==
    /\ Syncing /\ RootUnnamed(disk)
    /\ StartsOutside(itab) /\ StartsOutside(saved.itab)
    /\ saved.itab[0].size > 0 => /\ Reserved(saved.ibmap, saved.dbmap)
                                 /\ Reserved(saved.ibmap, saved.behind)
    /\ BitmapsMade => Reserved(ibmap, dbmap)

\* file_handlers.h:37: create_system_files "will be called on formatting of the
\* disk, or if they are not guaranteed to be there".
SystemFilesThere == pc # "panic"
=============================================================================
