----------------------------- MODULE FileSystem -----------------------------
(***************************************************************************)
(* The file system of fs.c with the system files of file_handlers.c.       *)
(*                                                                         *)
(* The kernel keeps the inode bitmap, the data bitmap, the inode table and *)
(* the super block in memory, loads them at boot and writes them back only *)
(* in shutdown(), one after the other.  Directory and file contents go to  *)
(* the disk at once.  A power loss or a fault between two disk writes      *)
(* therefore leaves old metadata beside new contents.                      *)
(*                                                                         *)
(* A block is BlockLen slots of 36 bytes, the size of a directory entry.   *)
(* What a caller writes is a slot of its choice (Data): text, or bytes that *)
(* spell an entry, with any name and any inode number, if they come to be  *)
(* read as a directory.  Sizes and positions count slots.  The bitmaps are *)
(* the sets of their 1 bits (module Bitmap).                               *)
(***************************************************************************)
EXTENDS Ranges, Sequences, FiniteSets

CONSTANTS Names,        \* names of user files and directories
          DirPaths,     \* directory paths that calls name: sequences of 0..2 names
          Texts,        \* what a slot of text reads as for a name: no call uses it
          Data,         \* the slots that callers write
          NInodes,      \* slots of global_inode_table
          NBlocks,      \* blocks of the disk
          NFds,         \* entries of global_fd_table
          DataStart,    \* first block of the data region
          BlockLen,     \* slots of a block (DIR_FILE_COUNT_MAX)
          Counts,       \* lengths of reads and writes
          Offsets,      \* offsets of seeks
          Outside,      \* slots that may lie behind a block buffer on the stack
          SizeMod,      \* 2^32, where a size wraps around
          PosMod,       \* 2^64, where a position wraps around
          MaxUsed,      \* bound: value of used_inodes
          MaxSize,      \* bound: size of a file, grown by overwriting
          MaxCrashes    \* bound: power losses

ASSUME SizesAssumption ==
    /\ NInodes \in Nat \ {0} /\ NBlocks \in Nat /\ NFds \in Nat
    /\ DataStart \in Nat \ {0} /\ BlockLen \in Nat \ {0} /\ DataStart < NBlocks
    /\ SizeMod \in Nat \ {0} /\ PosMod \in Nat \ {0}
    /\ Counts \subseteq Nat /\ Offsets \subseteq Int
ASSUME NamesAssumption ==
    {"", "dev", "tty", "ttyS", "Yorha"} \cap Names = {}
ASSUME PathsAssumption ==
    DirPaths \subseteq UNION {[1 .. n -> Names \cup {"dev"}] : n \in 0 .. 2}

VARIABLES
    pc,        \* where the kernel is: "off", a step of booting, "up", a step of shutdown
    ibmap, dbmap, itab, used,        \* global_ibmap, _dbmap, _inode_table, _super.used_inodes
    fdmap, fdtab, sysfd,             \* global_fd_table and system_files[].fd
    disk,      \* contents of the blocks
    saved,     \* the metadata on the disk: magic, used, ibmap, dbmap, itab, and behind:
               \* the data bitmap as it was written together with the inode table
    call,      \* the last call: its name and what it returned
    dirty,     \* names were added or removed since the metadata was last complete on disk
    torn,      \* the kernel once went down while dirty, and the disk was not formatted since
    kept,      \* entries of the last complete shutdown that were not unlinked since
    crashes    \* power losses so far

mem   == <<ibmap, dbmap, itab, used>>
fds   == <<fdmap, fdtab, sysfd>>
ghost == <<dirty, torn, kept>>
vars  == <<pc, mem, fds, disk, saved, call, ghost, crashes>>

Inodes == 0 .. (NInodes - 1)
Blocks == 0 .. (NBlocks - 1)
Slots  == 0 .. (BlockLen - 1)
Fds    == 0 .. (NFds - 1)
SystemFiles == {"tty", "ttyS"}

AllNames  == Names \cup {"", "dev"} \cup SystemFiles
SlotNames == AllNames \cup Texts \cup {"Yorha"}
Slot      == [name : SlotNames, ino : Nat]
FdEntry   == [ino : Nat, rpos : Nat, wpos : Nat]
Inode     == [name : AllNames, type : {"dir", "normal", "special"}, start : Blocks,
              size : Nat, parent : Inodes]
ZeroSlot  == [name |-> "", ino |-> 0]
ZeroInode == [name |-> "", type |-> "dir", start |-> 0, size |-> 0, parent |-> 0]
ZeroTable == [i \in Inodes |-> ZeroInode]
ZeroFd    == [ino |-> 0, rpos |-> 0, wpos |-> 0]
RootInode == [ZeroInode EXCEPT !.start = DataStart]
SuperBlock == [k \in Slots |-> [name |-> "Yorha", ino |-> 0]]

ASSUME SlotsAssumption == Outside \subseteq Slot /\ Data \subseteq Slot

FormatSteps   == {"fmt_super", "fmt_ibmap", "fmt_dbmap", "fmt_itab"}
BootSteps     == {"fmt_root", "mk_dev", "mk_tty", "mk_ttyS", "open_tty", "open_ttyS"}
ShutdownSteps == {"sync_super", "sync_ibmap", "sync_dbmap", "sync_itab"}

-----------------------------------------------------------------------------
(* Paths: seek_directory and search_dir *)

\* The slots that hold name in the block of inode d, read as a directory.
Matches(T, B, d, name) ==
    {k \in Slots : k < T[d].size /\ B[T[d].start][k].name = name}

SearchDir(T, B, d, name) ==
    IF Matches(T, B, d, name) = {}
    THEN None
    ELSE B[T[d].start][Min(Matches(T, B, d, name))].ino

\* Only the last component is tested for being a directory.
SeekDirectory(T, B, path) ==
    LET first  == IF Len(path) = 0 THEN 0 ELSE SearchDir(T, B, 0, path[1])
        second == IF Len(path) < 2 \/ first \notin Inodes THEN first
                  ELSE SearchDir(T, B, first, path[2])
    IN  IF second \in Inodes /\ T[second].type = "dir" THEN second ELSE None

\* The size of d says that entries follow behind the block: the search goes on
\* outside the block buffer.
LeavesBlock(T, B, d, name) ==
    T[d].size > BlockLen /\ Matches(T, B, d, name) = {}

\* An entry that a caller has written leads out of the inode table.
LeavesTable(T, B, d, name) == SearchDir(T, B, d, name) \notin Inodes \cup {None}

SeekStrays(T, B, path) ==
    \E n \in 1 .. Len(path) :
        LET d == IF n = 1 THEN 0 ELSE SearchDir(T, B, 0, path[1])
        IN  /\ d \in Inodes
            /\ LeavesBlock(T, B, d, path[n]) \/ LeavesTable(T, B, d, path[n])

-----------------------------------------------------------------------------
(* Power *)

ClearMemory ==
    /\ ibmap' = {} /\ dbmap' = {} /\ itab' = ZeroTable /\ used' = 0
    /\ fdmap' = {} /\ fdtab' = [f \in Fds |-> ZeroFd]
    /\ sysfd' = [f \in SystemFiles |-> None]

Init ==
    /\ pc = "off" /\ ibmap = {} /\ dbmap = {} /\ itab = ZeroTable /\ used = 0
    /\ fdmap = {} /\ fdtab = [f \in Fds |-> ZeroFd]
    /\ sysfd = [f \in SystemFiles |-> None]
    /\ disk = [b \in Blocks |-> [k \in Slots |-> ZeroSlot]]
    /\ saved = [magic |-> FALSE, used |-> 0, ibmap |-> {}, dbmap |-> {}, itab |-> ZeroTable,
                behind |-> {}]
    /\ call = [op |-> "none", ret |-> 0]
    /\ dirty = FALSE /\ torn = FALSE /\ kept = {} /\ crashes = 0

GoDown ==
    /\ pc' = "off"
    /\ ClearMemory
    /\ torn' = (torn \/ dirty)
    /\ dirty' = FALSE
    /\ UNCHANGED <<disk, saved, call, kept>>

Crash ==
    /\ pc \notin {"off", "overrun"} /\ crashes < MaxCrashes
    /\ GoDown
    /\ crashes' = crashes + 1

-----------------------------------------------------------------------------
(* initalize_file_system *)

\* A disk with the format indicator is mounted as it is.  The five blocks read
\* for the inode table are 32 bytes longer than it, and so are the ones written:
\* what lies behind the table comes back as it was at that write.  gcc puts the
\* data bitmap there, and its first 32 bytes are the whole of a disk of 1 MiB.
BootRecognized ==
    /\ pc = "off" /\ saved.magic
    /\ ibmap' = saved.ibmap /\ itab' = saved.itab /\ used' = saved.used
    /\ dbmap' \in {saved.dbmap, saved.behind}
    /\ pc' = "open_tty"
    /\ kept' = IF torn THEN {} ELSE kept
    /\ UNCHANGED <<fds, disk, saved, call, dirty, torn, crashes>>

BootBlank ==
    /\ pc = "off" /\ ~saved.magic
    /\ pc' = "fmt_super"
    /\ dirty' = TRUE /\ torn' = FALSE /\ kept' = {}
    /\ UNCHANGED <<mem, fds, disk, saved, call, crashes>>

FormatSuper ==
    /\ pc = "fmt_super" /\ pc' = "fmt_ibmap"
    /\ used' = 1
    /\ saved' = [saved EXCEPT !.magic = TRUE, !.used = 1]
    /\ disk' = [disk EXCEPT ![0] = SuperBlock]
    /\ UNCHANGED <<ibmap, dbmap, itab, fds, call, ghost, crashes>>

FormatIbmap ==
    /\ pc = "fmt_ibmap" /\ pc' = "fmt_dbmap"
    /\ ibmap' = ibmap \cup {0}
    /\ dbmap' = 0 .. DataStart
    /\ saved' = [saved EXCEPT !.ibmap = ibmap']
    /\ UNCHANGED <<itab, used, fds, disk, call, ghost, crashes>>

FormatDbmap ==
    /\ pc = "fmt_dbmap" /\ pc' = "fmt_itab"
    /\ saved' = [saved EXCEPT !.dbmap = dbmap]
    /\ UNCHANGED <<mem, fds, disk, call, ghost, crashes>>

FormatItab ==
    /\ pc = "fmt_itab" /\ pc' = "fmt_root"
    /\ itab' = [itab EXCEPT ![0] = RootInode]
    /\ saved' = [saved EXCEPT !.itab = itab', !.behind = dbmap]
    /\ UNCHANGED <<ibmap, dbmap, used, fds, disk, call, ghost, crashes>>

\* A bug the properties must notice: create_system_files is not called.
FormatRootNoFiles ==
    /\ pc = "fmt_root" /\ pc' = "open_tty"
    /\ UNCHANGED <<mem, fds, disk, saved, call, ghost, crashes>>

\* ata_write_blocks(data_start, NULL, 1) reads 4 KiB at address 0: boot.s has
\* unmapped it, so the access faults before there is an IDT; where it can be
\* read, what is there goes to the root block, of which no entry is in use.
FormatRoot ==
    /\ pc = "fmt_root"
    /\ \/ /\ pc' = "mk_dev"
          /\ UNCHANGED <<mem, fds, disk, saved, call, ghost, crashes>>
       \/ GoDown /\ UNCHANGED crashes

-----------------------------------------------------------------------------
(* create_filetype: allocate_inode, link_file_in_dir, allocate_file_descriptor *)

\* A write to block 0 destroys the format indicator.
SavedAfterWriting(b) == IF b = 0 THEN [saved EXCEPT !.magic = FALSE] ELSE saved

\* A bug the properties must notice: the descriptor gets the inode number of the
\* directory (dir_inode_num for file_inode_num).
NewFdOfDir(fd, ino) ==
    /\ fdmap' = fdmap \cup {fd}
    /\ fdtab' = [fdtab EXCEPT ![fd] = [ino |-> itab[ino].parent, rpos |-> 0, wpos |-> 0]]

NewFd(fd, ino) ==
    /\ fdmap' = fdmap \cup {fd}
    /\ fdtab' = [fdtab EXCEPT ![fd] = [ino |-> ino, rpos |-> 0, wpos |-> 0]]

\* Where the code would use an inode, block, directory slot or descriptor that
\* does not exist it goes outside its tables and buffers: the model stops there.
Overrun ==
    /\ pc' = "overrun"
    /\ UNCHANGED <<mem, fds, disk, saved, call, ghost, crashes>>

\* The calls that look for name in the directory dir: what they read outside a
\* buffer or the inode table may look like an entry, or, as for the other
\* alternatives of these calls, like none.
LookupStrays(dir, name) ==
    /\ \/ SeekStrays(itab, disk, dir)
       \/ /\ SeekDirectory(itab, disk, dir) # None
          /\ LeavesBlock(itab, disk, SeekDirectory(itab, disk, dir), name)
    /\ Overrun

\* allocate_inode refuses a directory that cannot be traced and a name in use.
CreateFails(dir, name) ==
    LET d == SeekDirectory(itab, disk, dir)
    IN  d # None => SearchDir(itab, disk, d, name) # None

CreateOverruns(dir, type, allocate_fd) ==
    \/ FirstFree(ibmap, NInodes) = None
    \/ type # "special" /\ FirstFree(dbmap, NBlocks) = None
    \/ itab[SeekDirectory(itab, disk, dir)].size >= BlockLen
    \/ allocate_fd /\ FirstFree(fdmap, NFds) = None

\* A bug the properties must notice: the block is not marked as taken.
AddFileUnmarked(dir, name, type) ==
    LET d    == SeekDirectory(itab, disk, dir)
        ino  == FirstFree(ibmap, NInodes)
        blk  == IF type = "special" THEN 0 ELSE FirstFree(dbmap, NBlocks)
        T    == [itab EXCEPT ![ino] = [name |-> name, type |-> type, start |-> blk,
                                       size |-> 0, parent |-> d]]
    IN  /\ ibmap' = ibmap \cup {ino} /\ dbmap' = dbmap
        /\ itab' = [T EXCEPT ![d].size = @ + 1]
        /\ disk' = [disk EXCEPT ![T[d].start][T[d].size] = [name |-> name, ino |-> ino]]
        /\ saved' = SavedAfterWriting(T[d].start)
        /\ used' = used + 1

AddFile(dir, name, type) ==
    LET d    == SeekDirectory(itab, disk, dir)
        ino  == FirstFree(ibmap, NInodes)
        blk  == IF type = "special" THEN 0 ELSE FirstFree(dbmap, NBlocks)
        T    == [itab EXCEPT ![ino] = [name |-> name, type |-> type, start |-> blk,
                                       size |-> 0, parent |-> d]]
    IN  /\ ibmap' = ibmap \cup {ino}
        /\ dbmap' = IF type = "special" THEN dbmap ELSE dbmap \cup {blk}
        /\ itab' = [T EXCEPT ![d].size = @ + 1]
        /\ disk' = [disk EXCEPT ![T[d].start][T[d].size] = [name |-> name, ino |-> ino]]
        /\ saved' = SavedAfterWriting(T[d].start)
        /\ used' = used + 1

CreateFiletype(dir, name, type, allocate_fd) ==
    /\ used < MaxUsed
    /\ ~CreateFails(dir, name)
    /\ ~CreateOverruns(dir, type, allocate_fd)
    /\ AddFile(dir, name, type)
    /\ IF allocate_fd
       THEN NewFd(FirstFree(fdmap, NFds), FirstFree(ibmap, NInodes))
       ELSE UNCHANGED <<fdmap, fdtab>>
    /\ dirty' = TRUE
    /\ UNCHANGED <<sysfd, torn, kept, crashes>>

\* create and mkdir.
Create(dir, name, type, allocate_fd) ==
    /\ pc = "up"
    /\ \/ /\ CreateFails(dir, name)
          /\ call' = [op |-> "create", ret |-> None]
          /\ UNCHANGED <<pc, mem, fds, disk, saved, ghost, crashes>>
       \/ LookupStrays(dir, name)
       \/ /\ ~CreateFails(dir, name) /\ CreateOverruns(dir, type, allocate_fd)
          /\ Overrun
       \/ /\ CreateFiletype(dir, name, type, allocate_fd)
          /\ call' = [op |-> "create",
                      ret |-> IF allocate_fd THEN FirstFree(fdmap, NFds) ELSE 0]
          /\ UNCHANGED pc

\* create_system_files: mkdir("/dev") is not checked, the other two are.
NextMake == [mk_dev |-> "mk_tty", mk_tty |-> "mk_ttyS", mk_ttyS |-> "open_tty"]
CreateSystemFile ==
    /\ pc \in DOMAIN NextMake
    /\ LET dir  == IF pc = "mk_dev" THEN << >> ELSE <<"dev">>
           name == CASE pc = "mk_dev" -> "dev" [] pc = "mk_tty" -> "tty"
                     [] pc = "mk_ttyS" -> "ttyS"
           type == IF pc = "mk_dev" THEN "dir" ELSE "special"
       IN  IF CreateFails(dir, name)
           THEN /\ pc' = IF pc = "mk_dev" THEN "mk_tty" ELSE "panic"
                /\ UNCHANGED <<mem, fds, disk, saved, call, ghost, crashes>>
           ELSE IF CreateOverruns(dir, type, FALSE) THEN Overrun
           ELSE /\ CreateFiletype(dir, name, type, FALSE)
                /\ pc' = NextMake[pc]
                /\ UNCHANGED call

-----------------------------------------------------------------------------
(* open, close, read, write, seek *)

\* open_system_files; open(-1) panics.
NextOpen == [open_tty |-> "open_ttyS", open_ttyS |-> "up"]
OpenSystemFile ==
    /\ pc \in DOMAIN NextOpen
    /\ LET d    == SeekDirectory(itab, disk, <<"dev">>)
           name == IF pc = "open_tty" THEN "tty" ELSE "ttyS"
           ino  == SearchDir(itab, disk, d, name)
           fd   == FirstFree(fdmap, NFds)
       IN  \/ LookupStrays(<<"dev">>, name)
           \/ /\ d # None => ino = None
              /\ pc' = "panic"
              /\ UNCHANGED <<mem, fds, disk, saved, call, ghost, crashes>>
           \/ d # None /\ ino # None /\ fd = None /\ Overrun
           \/ /\ d # None /\ ino # None /\ fd # None
              /\ NewFd(fd, ino)
              /\ sysfd' = [sysfd EXCEPT ![name] = fd]
              /\ pc' = NextOpen[pc]
              /\ UNCHANGED <<mem, disk, saved, call, ghost, crashes>>

\* open and unlink do not look at the result of seek_directory and search in
\* global_inode_table[-1].  What lies in front of the table decides: search_dir
\* finds nothing, its assertion fails, or it finds something and the model stops.
UntracedDir(op) ==
    \/ Overrun
    \/ /\ call' = [op |-> op, ret |-> None]
       /\ UNCHANGED <<pc, mem, fds, disk, saved, ghost, crashes>>
    \/ /\ pc' = "panic"
       /\ UNCHANGED <<mem, fds, disk, saved, call, ghost, crashes>>

Open(dir, name) ==
    LET d   == SeekDirectory(itab, disk, dir)
        ino == SearchDir(itab, disk, d, name)
        fd  == FirstFree(fdmap, NFds)
    IN  /\ pc = "up"
        /\ \/ LookupStrays(dir, name)
           \/ d = None /\ UntracedDir("open")
           \/ /\ d # None /\ ino = None
              /\ call' = [op |-> "open", ret |-> None]
              /\ UNCHANGED <<pc, mem, fds, disk, saved, ghost, crashes>>
           \/ d # None /\ ino # None /\ fd = None /\ Overrun
           \/ /\ d # None /\ ino # None /\ fd # None
              /\ NewFd(fd, ino)
              /\ call' = [op |-> "open", ret |-> fd]
              /\ UNCHANGED <<pc, mem, sysfd, disk, saved, ghost, crashes>>

Close(fd) ==
    /\ pc = "up"
    /\ fdmap' = fdmap \ {fd}
    /\ call' = [op |-> "close", ret |-> -1]
    /\ UNCHANGED <<pc, mem, fdtab, sysfd, disk, saved, ghost, crashes>>

\* Reads and writes of a special file are those of its device: the file
\* system is left alone.
SpecialIO(op, count) ==
    /\ \E n \in 0 .. count : call' = [op |-> op, ret |-> n]
    /\ UNCHANGED <<pc, mem, fds, disk, saved, ghost, crashes>>

Read(fd, count) ==
    LET ino   == fdtab[fd].ino
        inode == itab[ino]
        pos   == fdtab[fd].rpos
        n     == IF pos < inode.size THEN Min({count, inode.size - pos}) ELSE 0
    IN  /\ pc = "up"
        /\ \/ ino \notin Inodes /\ Overrun
           \/ ino \in Inodes /\ inode.type = "special" /\ SpecialIO("read", count)
           \/ /\ ino \in Inodes /\ inode.type # "special"
              /\ fdtab' = [fdtab EXCEPT ![fd].rpos = @ + n]
              /\ call' = [op |-> "read", ret |-> n]
              /\ UNCHANGED <<pc, mem, fdmap, sysfd, disk, saved, ghost, crashes>>

\* size grows with every byte written, also with one that is overwritten.  The
\* type is not looked at: a directory is written like a file.
Write(fd, count, v) ==
    LET ino   == fdtab[fd].ino
        inode == itab[ino]
        pos   == fdtab[fd].wpos
        n     == IF pos < BlockLen THEN Min({count, BlockLen - pos}) ELSE 0
    IN  /\ pc = "up"
        /\ \/ ino \notin Inodes /\ Overrun
           \/ ino \in Inodes /\ inode.type = "special" /\ SpecialIO("write", count)
           \/ /\ ino \in Inodes /\ inode.type # "special"
              /\ inode.size + n <= MaxSize
              /\ fdtab' = [fdtab EXCEPT ![fd].wpos = @ + n]
              /\ itab' = [itab EXCEPT ![ino].size = @ + n]
              /\ disk' = [disk EXCEPT ![inode.start] =
                            [k \in Slots |-> IF pos <= k /\ k < pos + n THEN v ELSE @[k]]]
              /\ saved' = SavedAfterWriting(inode.start)
              /\ call' = [op |-> "write", ret |-> n]
              /\ UNCHANGED <<pc, ibmap, dbmap, used, fdmap, sysfd, ghost, crashes>>

\* An int64_t position returned as an int32_t.
Int32(pos) == IF 2 * (pos % SizeMod) >= SizeMod THEN (pos % SizeMod) - SizeMod
              ELSE pos % SizeMod

\* A bug the properties must notice: positions are signed and go below 0.
SeekSigned(fd, offset, param) ==
    /\ pc = "up" /\ fd \in fdmap
    /\ fdtab' = [fdtab EXCEPT ![fd].rpos = @ + offset, ![fd].wpos = @ + offset]
    /\ call' = [op |-> "seek", ret |-> fdtab[fd].rpos + offset]
    /\ UNCHANGED <<pc, mem, fdmap, sysfd, disk, saved, ghost, crashes>>

Seek(fd, offset, param) ==
    LET e     == fdtab[fd]
        end   == (itab[e.ino].size - offset) % SizeMod
        moved == CASE param = "SEEK_SET" -> [e EXCEPT !.rpos = offset % PosMod,
                                                      !.wpos = offset % PosMod]
                   [] param = "SEEK_CUR" -> [e EXCEPT !.rpos = (@ + offset) % PosMod,
                                                      !.wpos = (@ + offset) % PosMod]
                   [] param = "SEEK_END" -> [e EXCEPT !.rpos = end, !.wpos = end]
    IN  /\ pc = "up"
        /\ \/ fd \in fdmap /\ param = "SEEK_END" /\ e.ino \notin Inodes /\ Overrun
           \/ /\ fd \in fdmap /\ (param = "SEEK_END" => e.ino \in Inodes)
              /\ fdtab' = [fdtab EXCEPT ![fd] = moved]
              /\ call' = [op |-> "seek", ret |-> Int32(moved.rpos)]
              /\ UNCHANGED <<pc, mem, fdmap, sysfd, disk, saved, ghost, crashes>>
           \/ /\ fd \notin fdmap
              /\ call' = [op |-> "seek", ret |-> None]
              /\ UNCHANGED <<pc, mem, fds, disk, saved, ghost, crashes>>

-----------------------------------------------------------------------------
(* unlink *)

\* A bug the properties must notice: the move starts one entry too late.
ShiftedLate(block, k, size, outside) ==
    [j \in Slots |-> IF k < j /\ j < size /\ j + 1 < BlockLen THEN block[j + 1]
                     ELSE block[j]]

\* unlink_file_in_dir: the entries behind the first one with this inode move
\* one place forward; the place behind the last entry of a full block is read
\* from outside the buffer.  (size <= BlockLen: see Unlink.)
Shifted(block, k, size, outside) ==
    [j \in Slots |-> IF k <= j /\ j < size
                     THEN IF j + 1 < BlockLen THEN block[j + 1] ELSE outside
                     ELSE block[j]]

\* A bug the properties must notice: the range given back is one block too long.
RemoveFileTwoBlocks(d, ino, outside) ==
    LET b == itab[d].start
        at == {k \in Slots : k < itab[d].size /\ disk[b][k].ino = ino}
    IN  /\ disk' = [disk EXCEPT ![b] = Shifted(@, Min(at), itab[d].size, outside)]
        /\ itab' = [itab EXCEPT ![d].size = @ - 1]
        /\ saved' = SavedAfterWriting(b)
        /\ dbmap' = dbmap \ {itab[ino].start, itab[ino].start + 1}
        /\ ibmap' = ibmap \ {ino}

RemoveFile(d, ino, outside) ==
    LET b == itab[d].start
        at == {k \in Slots : k < itab[d].size /\ disk[b][k].ino = ino}
    IN  /\ disk' = [disk EXCEPT ![b] = Shifted(@, Min(at), itab[d].size, outside)]
        /\ itab' = [itab EXCEPT ![d].size = @ - 1]
        /\ saved' = SavedAfterWriting(b)
        /\ dbmap' = dbmap \ {itab[ino].start}
        /\ ibmap' = ibmap \ {ino}

\* In a directory whose size says more than the block holds the entries that
\* move are written outside the buffer, and an entry may lead out of the table.
Unlink(dir, name) ==
    LET d   == SeekDirectory(itab, disk, dir)
        ino == SearchDir(itab, disk, d, name)
    IN  /\ pc = "up"
        /\ \/ LookupStrays(dir, name)
           \/ d = None /\ UntracedDir("unlink")
           \/ /\ d # None /\ ino = None
              /\ call' = [op |-> "unlink", ret |-> None]
              /\ UNCHANGED <<pc, mem, fds, disk, saved, ghost, crashes>>
           \/ /\ d # None /\ ino # None
              /\ itab[d].size > BlockLen \/ ino \notin Inodes
              /\ Overrun
           \/ /\ d # None /\ ino \in Inodes /\ itab[d].size <= BlockLen
              /\ \E outside \in IF itab[d].size = BlockLen THEN Outside ELSE {ZeroSlot} :
                    RemoveFile(d, ino, outside)
              /\ call' = [op |-> "unlink", ret |-> 0]
              /\ dirty' = TRUE
              /\ kept' = {e \in kept : e.ino # ino /\ e.dir # ino}
              /\ UNCHANGED <<pc, used, fds, torn, crashes>>

\* list_dir and str_list_dir only look.
ListDir(dir) ==
    LET d == SeekDirectory(itab, disk, dir)
    IN  /\ pc = "up"
        /\ \/ SeekStrays(itab, disk, dir) /\ Overrun
           \/ d # None /\ itab[d].size > BlockLen /\ Overrun
           \/ /\ d # None => itab[d].size <= BlockLen
              /\ call' = [op |-> "ls", ret |-> IF d = None THEN None ELSE itab[d].size]
              /\ UNCHANGED <<pc, mem, fds, disk, saved, ghost, crashes>>

-----------------------------------------------------------------------------
(* shutdown *)

Shutdown ==
    /\ pc = "up" /\ pc' = "sync_super"
    /\ fdmap' = fdmap \ {sysfd[f] : f \in SystemFiles}
    /\ UNCHANGED <<mem, fdtab, sysfd, disk, saved, call, ghost, crashes>>

\* A bug the properties must notice: one block too many is written, over the
\* inode bitmap.
SyncSuperTwoBlocks ==
    /\ pc = "sync_super" /\ pc' = "sync_ibmap"
    /\ saved' = [saved EXCEPT !.magic = TRUE, !.used = used, !.ibmap = {}]
    /\ disk' = [disk EXCEPT ![0] = SuperBlock]
    /\ UNCHANGED <<mem, fds, call, ghost, crashes>>

SyncSuper ==
    /\ pc = "sync_super" /\ pc' = "sync_ibmap"
    /\ saved' = [saved EXCEPT !.magic = TRUE, !.used = used]
    /\ disk' = [disk EXCEPT ![0] = SuperBlock]
    /\ UNCHANGED <<mem, fds, call, ghost, crashes>>

SyncIbmap ==
    /\ pc = "sync_ibmap" /\ pc' = "sync_dbmap"
    /\ saved' = [saved EXCEPT !.ibmap = ibmap]
    /\ UNCHANGED <<mem, fds, disk, call, ghost, crashes>>

\* A bug the properties must notice: the data bitmap is not written back.
SyncDbmapSkipped ==
    /\ pc = "sync_dbmap" /\ pc' = "sync_itab"
    /\ UNCHANGED <<mem, fds, disk, saved, call, ghost, crashes>>

SyncDbmap ==
    /\ pc = "sync_dbmap" /\ pc' = "sync_itab"
    /\ saved' = [saved EXCEPT !.dbmap = dbmap]
    /\ UNCHANGED <<mem, fds, disk, call, ghost, crashes>>

\* The entries in use of the allocated directories.  (Bytes of a caller that name
\* no inode are no entry; kept is only used on a disk that has none.)
Entries(I, T, B) ==
    {[dir   |-> x[1],
      name  |-> B[T[x[1]].start][x[2]].name,
      ino   |-> B[T[x[1]].start][x[2]].ino,
      start |-> T[B[T[x[1]].start][x[2]].ino].start] :
        x \in {y \in I \X Slots : /\ T[y[1]].type = "dir" /\ y[2] < T[y[1]].size
                                  /\ B[T[y[1]].start][y[2]].ino \in Inodes}}

SyncItab ==
    /\ pc = "sync_itab" /\ pc' = "off"
    /\ saved' = [saved EXCEPT !.itab = itab, !.behind = dbmap]
    /\ dirty' = FALSE
    /\ kept' = IF torn THEN {} ELSE Entries(ibmap, itab, disk)
    /\ ClearMemory
    /\ UNCHANGED <<disk, call, torn, crashes>>

-----------------------------------------------------------------------------
Power ==
    \/ Crash \/ BootRecognized \/ BootBlank
    \/ FormatSuper \/ FormatIbmap \/ FormatDbmap \/ FormatItab \/ FormatRoot
    \/ CreateSystemFile \/ OpenSystemFile
    \/ Shutdown \/ SyncSuper \/ SyncIbmap \/ SyncDbmap \/ SyncItab

\* create, the shell's touch and mkdir.
CreateAny(dir, name) ==
    \/ Create(dir, name, "normal", TRUE)
    \/ Create(dir, name, "normal", FALSE)
    \/ Create(dir, name, "dir", FALSE)
UnlinkNames == Names \cup {"dev"} \cup SystemFiles

Next ==
    \/ Power
    \/ \E dir \in DirPaths, name \in Names : CreateAny(dir, name)
    \/ \E dir \in DirPaths, name \in UnlinkNames : Open(dir, name) \/ Unlink(dir, name)
    \/ \E dir \in DirPaths : ListDir(dir)
    \/ \E fd \in Fds : Close(fd)
    \/ \E fd \in Fds, count \in Counts : Read(fd, count)
    \/ \E fd \in Fds, count \in Counts, v \in Data : Write(fd, count, v)
    \/ \E fd \in Fds, offset \in Offsets,
          param \in {"SEEK_SET", "SEEK_CUR", "SEEK_END"} : Seek(fd, offset, param)

Spec == Init /\ [][Next]_vars

=============================================================================
