# A TLA+ model of the YoRHa kernel

YoRHa is a small kernel for 32-bit PCs: one address space, one thread of
control (a shell), interrupts, and a file system on an ATA disk. This directory
holds TLA+ modules that model its core, TLC configurations that check them on
small instances, and proofs checked by TLAPS for every size of the tables.

Paths below are relative to the repository (`src/fs.c`, `include/fs.h`, ...).

## 1. Inventory

| Part | State | Operations | What makes it correct |
|---|---|---|---|
| Bitmap allocator, `src/util.c` | an array of 32-bit words of the caller | `alloc_bitrange`, `dealloc_bitrange`, `apply_bitrange` | the 1 bits are the live ranges; a request is refused only when nothing fits |
| Heap and pages, `src/alloc.c` | bitmap and table of entries, twice | `kmalloc`, `kcalloc`, `krealloc`, `kfree`, `allocate_page`, `free_page` | live blocks are disjoint, none is lost, a free finds its own entry |
| File system, `src/fs.c` | two bitmaps, inode table, super block, descriptors in memory; the same metadata and the blocks on disk | format and mount, create, mkdir, open, close, read, write, seek, unlink, list, shutdown | bitmaps, table and directories agree; files are isolated; a power loss costs no file that was not touched |
| System files, `src/file_handlers.c` | two descriptors | create and open `/dev/tty`, `/dev/ttyS`; device handlers | a disk that was shut down mounts |
| Keyboard input, `src/io.c`, `src/file_handlers.c` | ring buffer, shift state | `keyboard_handler` (interrupt), `tty_handler` (reader) | the ring is a queue, whatever interrupts the reader |
| Interrupts, `src/interrupts.c`, `src/boot.s`, `main` | GDT, IDT, handlers, interrupt flag, the 8259 pair | installers, stubs, `irq_handler`, `isr_handler`, system call | no nesting; EOIs end the right interrupt; devices never stop the machine; every request is served |
| Timer, `src/io.c`, `src/kernel.c` | `timer_counter`, 64 bits | `timer_handler`, `sleep`, time-out of `sget` | no wait ends early, every wait ends |
| Shell, `src/kernel.c` | command line, descriptors | `ls cat echo touch rm mkdir sget help exit`, redirection | commands come back, close what they open, and stay within what the file system can take |
| Strings, `src/alloc.c`, `include/alloc.h` | `String`, `StringList` on the heap | `APPEND`, `string_split`, `FREE` | the words are those of the line typed; no string in use is freed |
| Terminal, `src/tty.c`, `src/vga.c` | ring of output, where it is shown from, screen | write side of `tty_handler`, `render_terminal`, `kputc` | the screen shows the end of the output, whole lines, nothing stale |
| Serial port, `src/serial.c` | receiver | `serial_handler` | `sget` stores what is sent, in order |
| ATA driver, `src/ata.c` | drive registers | read, write, flush, identify | in step with the drive; a write is durable when it returns |
| Paging, `src/string.c`, tests | page tables | | not modelled, section 7 |

How the parts meet: the file system and both allocators call the bitmap
allocator; the file system takes path buffers from the heap; `read` and `write`
on special files call the handlers of `file_handlers.c`, which share the
keyboard ring with an interrupt handler; the shell calls the file system.
There are no processes. What is hard: an interrupt between any two accesses of
ordinary code (also between the two loads of one 64-bit variable), a power loss
between any two disk writes or sectors (metadata is written
back only in `shutdown`), tables without a test for being full, entries and
descriptors that outlive what they stood for, and masks at word boundaries.

## 2. Modules

| Module | Models | Notes |
|---|---|---|
| `Ranges` | what the bitmap allocator promises | first fit on sets of numbers, used by `FileSystem` and `Heap` |
| `RangeAllocator` | abstract allocator | state: live ranges, last request, its answer |
| `Bitmap` | `src/util.c` | a word is the set of its 1 bits; the scan is a recursive function of the bits visited; refines `RangeAllocator` |
| `Heap` | `src/alloc.c` | a pointer is its first unit; the page allocator is the same module with grain 1 and reserved units |
| `FileSystem` | `src/fs.c`, system files | one action per call; formatting and shutdown are one action per disk write |
| `FileSystemSafety` | | discipline of callers, properties, inductive invariants |
| `BoundedFifo` | abstract queue | |
| `KeyRing` | `keyboard_handler`, read side of `tty_handler` | handler atomic, reader one action per access; refines `BoundedFifo` |
| `Interrupts` | `src/interrupts.c`, stubs of `src/boot.s`, boot order of `main` | the 8259 pair and its spurious requests are external |
| `Strings` | `APPEND`, `string_split`, `FREE`, line editing of the shell | extends `Heap`: every allocation is one of its steps, words are read back from its memory |
| `Shell` | the command loop and commands of `src/kernel.c` | extends `FileSystemSafety`: every call is one of its actions |
| `Terminal` | `src/tty.c`, `kputc` of `src/vga.c`, write side of `tty_handler` | `kwrite` is a recursive function of the characters written by `kputc` |
| `Transfer` | `exec_sget`, `sleep`, `timer_handler`, polled serial port | one action per load of half the counter; the host is external |
| `BlockDevice` | abstract disk | a write is atomic per sector, durable on return |
| `Ata` | `src/ata.c` | one action per command, wait and sector; the drive is external; refines `BlockDevice` |
| `MC*` | | constants for TLC |
| `*Proofs` | | theorems |

`FileSystem`. A block is `BlockLen` slots of the size of a directory entry, and
a slot of a file has the same representation as an entry. What a caller writes is
a slot of its choice out of `Data`: text, or bytes that spell an entry, with any
name and any inode number. `write` does not look at the type of what it writes, so
such an entry may come to stand in a directory, and is then followed as in the code.

`pc` is `"off"`, a step of booting or of `shutdown`, `"up"`, `"panic"`, or
`"overrun"`, in which the model stops because what follows is not defined: a full
table; a search, a removal or a list in a directory whose size says more than its
block holds (`LeavesBlock`); an inode number that a caller wrote and that the table
does not have (`LeavesTable`, and a descriptor with it). What is read outside, but
decides little, is chosen: `unlink` in a directory that is exactly full moves a slot
out of `Outside` into it, and the search of `open` and `unlink` in
`global_inode_table[-1]`, when `seek_directory` found no directory, finds nothing,
fails its assertion, or finds something and the model stops (`UntracedDir`).

`saved` is the metadata on the disk. The five blocks of the inode table are 32 bytes
longer than the table (20480 and 20448 bytes, `src/fs.c:17`, `:36`), so each mount
overwrites what lies behind it with what lay there at the shutdown. Where gcc puts
the data bitmap there these 32 bytes are its bits for a disk of 1 MiB:
`saved.behind` is the bitmap as it was written with the table, and
`BootRecognized` takes it or the one read before. Layouts with something else behind
the table are not modelled.

`dirty`, `torn` and `kept` are history: whether names changed since the disk was complete,
whether the kernel ever went down in that state, and which entries the last
complete shutdown wrote and nobody unlinked.

Formatting ends with `ata_write_blocks(data_start, NULL, 1)`. Address 0 is no
longer mapped then, so the first boot may fault before there is an IDT; the
model takes both outcomes.

The calls check few of their arguments. `PoliteSpec` states the discipline under
which the file system stays consistent: no file as a directory on a path, no
directory opened, no open file and no system file unlinked, reads and writes on
open descriptors only. `Spec` has callers of every kind, writing any of `Data`. That the shell keeps
to the discipline, for commands that leave directories, system files and their
own output alone, is the property `ShellIsPolite` of `Shell`; together with the
proofs about `PoliteSpec` it is why such a session cannot damage the disk.

`Heap`. `kfree` and `krealloc` look for the first entry with the pointer and do
not look at `utilized`. Entries that are not in use keep their pointer; that
the first match is nevertheless the live one is the property `FreesOwnBlock`.
Callers free what they hold; the one caller that frees twice is in `Strings`.

`Interrupts`. One action per call of `main`, one per port write of
`irq_handler`. A request that the device withdraws while the processor answers
it arrives under the last vector of its controller.

`Strings`. A character is a number and takes a byte; a `String` in a list takes
`StringUnits`, the first of which holds its pointer. `PtrOfCurr` stands in the
list of pending `APPEND`s for a pointer that is known only after the one before
it. `free_string_list` is modelled as written: it frees the first string once
per element. `leaked` is history.

`Shell`. A command is a record of what it does, on which file and redirected to
which. Messages to the terminal in the middle of a command are left out
(descriptor 0 is special then, and such a write changes nothing); the last one and
the prompt are in `Prompt`, because `rm` may have unlinked `/dev/tty` by then.
The power may fail at any step of a command. `polite` is history: it becomes false
with the first command outside the discipline, and when a shell starts on a disk
that is torn.

`Transfer`. Which half of `timer_counter` is loaded first is the compiler's
choice, and so the model's. The receiver holds back the host when it is full, as
the emulator's does. `bytes_read == file_size` in `exec_sget` compares a number
with an address and is never true, so a transfer ends by its time-out only.

`Ata`. The drive keeps sectors in a cache that reads see, writes them to its
medium in any order, or loses power, at any step, and may report an error while
sectors of the command are left. The refinement maps the abstract store to the medium, and during a write to the medium
as it was when the write began.

## 3. Runs

All run with `tlc -config <cfg> <module>` on two cores, `fs_io` and `shell` in one
to two minutes, the others in about a minute or less. Deadlock is not checked where
the system may stop (panic, overrun, power off, a bound used up).

| Run | Bounds | States | Shows |
|---|---|---|---|
| `bitmap` | 2 words, lengths 3, 29, 37, at most 3 live ranges | 3 315 | masks and scan implement first fit, with and without alignment |
| `heap` | 24 bytes, 4 entries, lengths 3, 8, 11 | 207 000 | `BlocksDisjoint`, `NothingLost`, `FreesOwnBlock`, up to exhaustion of bytes and of entries |
| `fs_crash` | 2 names, paths up to depth 2, 7 inodes, 3 slots, 1 power loss | 165 578 | consistency in memory and on disk, mounting, `CrashKeepsUntouched` |
| `fs_io` | 2 names and 2 files at a time, 4 descriptors of which 2 are the system's, writes and reads of 2 slots, offset -1, sizes and positions modulo 4, blocks of 3 slots, sizes up to 2 | 238 019 | types, descriptors and isolation, with positions anywhere and two descriptors on one file or on two |
| `shell` | 3 commands on `/n1`, `/n1/n1`, `/dev` and `/dev/tty`, redirected to `/n1` or the terminal, bytes that spell an entry of `/dev` or of no inode, 4 metadata blocks | 155 978 | `NoFdLeaks`, `CommandEnds`, `ShellIsPolite`, `BitmapBlocksReserved` |
| `strings` | 40 bytes, 8 entries, 2 commands of up to 3 characters out of letter, space, quote, `>` | 512 000 | the words are those typed; what leaks, and that nothing else does; up to exhaustion |
| `keyring` | 4 slots, 6 characters, reads of 1 and 3 | 20 326 | refinement of the queue, `EventuallyRead` |
| `interrupts` | IRQ 0, 1, 14 raised 3 times each, page faults | 26 096 | nesting, EOIs, boot order, service, ticks |
| `terminal` | ring of 11, 16 characters, height 4 (10 becomes 2), screen of 4 by 5, `ls` of three names | 270 000 | `ShowsTail`, `ShowsHeight`, `CutsAtLine`, `ScreenIsText` |
| `transfer` | halves of 4 values, size of 2 bytes, 6 bytes sent, room for 2, 2 calls, 13 ticks | 173 000 | order of the data, time-outs and sleeps neither early nor endless |
| `ata` | 4 sectors of 2 values, transfers of 1, 2 and 4, 1 power loss, errors | 48 000 | `InStep`, refinement of `BlockDevice`, `CallReturns` |

Why the bounds suffice: the bitmap's cases depend on how a range lies to word
boundaries, and two words with a range that ends on the boundary and one that
crosses it have all of them; three heap blocks are what a stale entry needs
(the one before, the one behind, the one between); a directory of three entries
can be full with the entry removed first, in the middle or last; the rings wrap
and fill; lines of three characters split into up to three words, grow twice
(with the terminator), and the second command meets what the first one leaked;
three commands make, misuse and use a file or a directory again; four values per half of the
counter let the high half change during a wait; four sectors have a first, a
last and two in between. What is proved (section 6) holds for all sizes.

`fs_io` has room for two files because three things are left out of its states that
decide nothing: which of the two names is which (`NameSymmetry`; no property of the run
is about liveness), the last return value and the entries of closed descriptors
(`OpenView`; disciplined callers do not use them, and `open` writes all their fields),
and boots from a disk that was shut down with user files on it (`UserFilesNotSaved`;
`fs_crash` has those).

The page allocator has no run: it is `Heap` with grain 1, requests of one unit
and a first entry for the kernel, and the theorems cover these parameters.

## 4. Where the code departs from its comments

One run ends in a violation: `fs_first_boot`. `include/file_handlers.h:37` says that
system files are created if "not guaranteed to be there"; the code creates them
only when formatting, and a first boot that is cut short leaves a disk that panics
at every boot.

The models also have, without a run of their own, what these comments deny or
what one would like to hold and does not:

- `include/alloc.h:14` gives the heap 4 KiB, but the bitmap is scanned for twice
  that (`include/util.h:40` calls the capacity "the number of bits"; it is four times
  the number of words). `Heap` takes what the bitmap describes.
- `src/fs.c:58` "permanently allocates all blocks used for metadata": unlinking a
  special file frees block 0. The others, `BitmapBlocksReserved`, stay allocated only
  as long as nobody writes an entry of the root inode into a directory: after
  `mkdir /d`, an `sget` to `/d` of bytes that spell the name `a` and inode 0, and
  `rm /d/a`, the root's block is free. With such a slot in `Data` TLC finds this
  behaviour; the runs and theorems have the hypothesis `DataHarmless`.
- `include/fs.h:53` "Size of the file in bytes.": it also grows when bytes are
  overwritten, beyond the block.
- `src/fs.c:374` says that directories cannot be opened (`Open` does not look at the
  type); `include/fs.h:41` calls `used_inodes` the number of used inodes (`Unlink`
  leaves `used`); `include/fs.h:160` promises 0 from a successful `close`
  (`call.ret` is -1); `include/fs.h:72` gives a directory a maximum of entries
  (`CreateOverruns`: not enforced); `src/io.c:76` says that the keyboard handler
  blocks on a full ring (`Put` counts a loss).
- `src/tty.c:23` "no more than TERMINAL_HEIGHT lines": not while the text wraps around
  the ring, when newlines are not counted (`ShowsHeight` has the condition).
- `sget` never ends by success; on a full block it spins for ever (`WaitEnds`,
  `CommandEnds`), and more than four bytes before the first poll run past
  `file_size` (`"smashed"`).
- `free_string_list` leaks every word but the first; a redirection that fails leaks
  all, and leaves the line for the next command (`OnlyTailsLeak`,
  `RunsWhatWasTyped`).
- A command without its argument follows a null pointer, unless it is redirected:
  then it takes the `>` for its argument. A lone `cat` opens a file named `cat`
  (`ExecNoArg`).
- A redirected `cat` opens its last word (`src/kernel.c:52`), which is the file its
  output goes to, and not the file it was asked for (`Opened`).
- An error of the drive leaves the driver waiting for DRQ for ever (`CallReturns`).

## 5. Fairness

- `KeyRing!FairSpec`: weak fairness of the reader. The shell calls `read(STDIN)`
  in an endless loop. The keyboard owes nothing.
- `Interrupts!FairSpec`: weak fairness of `main` and of the handlers, which the
  processor executes; strong fairness of answering, because the processor looks
  for a request before every instruction that it begins with interrupts on, so a
  request that stands whenever it looks is taken even if system calls switch
  interrupts off again and again. That raises are bounded says that the devices
  are slower than the handlers: an unbounded timer could otherwise keep the
  lower lines waiting for ever.
- `Transfer!Spec`: weak fairness of the timer (`EveryTickCounts` is why), of the
  kernel, which runs between interrupts, and of the host falling silent, because
  its file has an end. A byte owes nothing.
- `Ata!Spec`: weak fairness of the driver, which the processor executes, and of the
  drive finishing a command. Nothing is assumed of write-back.
- `Shell!ShellSpec`: weak fairness of the steps of a command. Nobody has to type,
  and `sget` need not receive anything.
- The file system and the allocators have no liveness property of their own: every
  call returns or stops the kernel.

## 6. Proofs

`tlapm` checks them. No theorem rests on anything but the named assumptions on
constants in the modules (sizes are naturals, names differ from the system's) and
the two hypotheses, of two theorems, that are written out below. There are eight proof modules, one
per component (`HeapProofs` also has the strings, `TtyProofs` both sides of the
terminal); `FileSystemProofs` also has the consistency of the file system, and
`SystemProofs`, which extends `Shell` and it, the rest.

`BitmapProofs`, for every capacity, bitmap and request:

- `AllocFindsFirstFit`: `alloc_bitrange` returns the first fit, and nothing exactly
  when there is none. `ScanInv` says how far the scan has come before bit p: a run
  of free bits from an aligned start on, and no aligned start before it at which
  enough bits are free. `VisitKeeps` carries it over one bit; the induction over the
  bits takes the least bit before which it fails (`MinInSet`). `ScanExists` shows
  in the same way that the recursive function `Scan` is defined with exists.
- `ApplyIsExact`: the masks of `apply_bitrange` hold exactly the bits of the range
  (`CoeffIsRange`, one case per branch of the loop).
- `BitsStayLive` and the refinement `BitmapIsFirstFit`, from `BitmapInvariant`: live
  ranges lie within the bitmap and do not overlap. So what `FileSystem` and `Heap`
  take from `Ranges` is what `src/util.c` computes.

`FileSystemProofs`:

- `TypeCorrect`, `Spec => []TypeOK`, for callers of every kind: the bitmaps, the inode
  table, the blocks and the descriptors in use stay in range. The inode numbers that
  entries and descriptors hold do not: they are any number that a caller wrote.
- `BitmapBlocksStayReserved`, for callers of every kind and any power loss, from
  `ReservedInvariant`: no entry that `unlink` can look up leads to the root inode, no
  other inode starts in the reserved blocks, and bitmaps that come with a root
  directory that is not empty, in memory, on the disk or behind the inode table, have
  these blocks. A crash while formatting may leave bitmaps without them, but then the
  root is empty and `open_system_files` panics. It has two hypotheses. `DataHarmless`:
  what callers write, if it has a name that calls use, does not have inode number 0;
  any other number is allowed. `OutsideHarmless`: the same of the bytes behind the
  block buffer, which `unlink` in a full directory moves into the directory. Without
  either the theorem is false (section 4): such an entry is unlinked like any other,
  and frees the root.
- `PoliteSpec => []MemoryConsistent`, `[]FdsConsistent`, `[]DiskConsistent` and
  `FilesIsolated`, from `FsInvariant`. Consistency of memory alone is not inductive:
  a boot takes over what is on the disk, so the disk must have been consistent
  (`DiskConsistent`), which after a power loss depends on the saved metadata agreeing
  with memory until a name changes (`SavedAgrees`; sizes of files may differ), and
  after a shutdown on how far it has come (`Syncing`); a blank disk needs how far the
  format has come (`Formatting`). `SystemTyped` is needed because `open_system_files`
  does not look at types. One lemma per action.

`SystemProofs`:

- `DiskAlwaysMounts`, `PoliteSpec => []MountNeverPanics`, from `MountInvariant`:
  `/dev` and the system files are linked in memory and on the disk, but for those that
  `create_system_files` has still to make (`Unmade`), and while it makes them the disk
  counts as dirty.
- `CrashCostsNoFile`, `PoliteSpec => []CrashKeepsUntouched`, from `CrashInvariant`. The
  metadata on the disk may be older than the directory blocks beside it. What makes an
  entry of the last shutdown nevertheless reachable is `KeptEntry`: it stands at a
  place that is inside its directory for memory and for the saved table, because
  new entries go behind it and a removal only moves it forward, and its inode,
  directory and block cannot have been given to another file, because they are still
  allocated in memory.
- `ShellLeaksNoFds`, `ShellSpec => []NoFdLeaks` for any commands, from
  `ShellInvariant`: the open descriptors are those of the system and, disjoint from
  them, those of the step the command is at (`OwnFds`).
- `ShellStaysPolite`, `ShellSpec => ShellIsPolite`, from `PoliteSoFar`. A command is
  judged when it is entered, but its calls come later, after the redirection was
  opened; that the judgement still holds then (`AllowedAfterOpen`) needs that
  different paths lead to different inodes (`PathsDiffer`), so that `rm` does not
  remove the file the output goes to.
- `PoliteShellIsSafe`: hence the file system's theorems hold of shell and file system
  together, power losses in the middle of commands included.
- `ShellKeepsBitmapBlocks`: `BitmapBlocksReserved` for the shell and any commands,
  directories as targets of `sget` and redirections included, with the same two
  hypotheses.

The other components:

- `HeapProofs`: `BlocksDisjoint`, `NothingLost`, `FreesOwnBlock` from
  `HeapInvariant`. Its core is `NoStaleTwin`: an entry in use has no entry with
  its pointer in front of it. It holds because a block goes into the first entry
  that is free, so the entries in front are in use and their blocks are disjoint
  from it.
- `HeapProofs`, about `Strings`: `StringsKeepTypes`, `StringsKeepHeap`,
  `StringsKeepBlocks` and `OnlyTailsAreLeaked`, for every heap, line and number of
  commands, from `StringInvariant`. It says to whom each block belongs: every string
  in use has a block of exactly its capacity, every word of the list one in which it
  ends, no two the same, and the blocks held that the shell has no pointer to are
  those in `leaked`. Inside `krealloc` the new block belongs to nobody else
  (`MoveApart`). A pointer that is still to be freed is a block that no string uses,
  or is `Gone`: the first entry with it is not in use and its bits are 0, so that
  `free_string_list` freeing the first word again changes nothing; no block is
  allocated between these frees. `LineEnds` is needed because with an empty list
  `free_string_list` would free whatever lies at address 0: the line that is split
  has a first character, also after a redirection failed and the old line stayed.
  All appends go through one lemma, `AppendFrame`: other blocks keep their contents,
  and the block of the string keeps its elements, whether it moved or not.
- `HeapProofs`, the words: `StringsSplitCorrectly` (`SplitCorrect`) and
  `StringsRunWhatWasTyped` (`RunsWhatWasTyped`), for every heap, line and number of
  words, from `TextInvariant` on top of `StringInvariant`. `SplitProgress` says how far
  `string_split` has come: there are positions `ends`, one per word in the list, that
  are the cuts among the first `i` characters; each word is a copy of the characters
  between two of them with a zero behind, `curr` is a copy of those since the last one,
  and `in_string` is the parity of the quotes (`OddNext`). It has one case for each
  point at which an `APPEND` may be pending (`AtNextChar`, `AtChar`, `AtZero`,
  `AtList`, `AtCommand`). `TypedKept` says that the line in memory is what was typed,
  less the character that is still to be appended, plus the zero once it is split.
  The copies survive each append because the blocks are apart, which is
  `StringInvariant`; a word whose `curr.capacity` was not reset, or a pointer that
  survived `krealloc`, would break exactly this step (`WordKept`).
- `TtyProofs`, the two sides of `tty_handler`. Reading: `ReaderSafe` and the
  refinement `RingIsFifo`; `ReaderHasChar` with `TypeOK` is inductive. Writing:
  `TerminalShowsTail`, `TerminalShowsHeight` and `TerminalCutsAtLine`, for every size
  of the ring, every height and any texts that commands write, from `TermInvariant`:
  the ring holds as much of the output as it has places for (`HoldsTail`),
  `base_index` stays behind `index` and at the start of a line until the ring is used
  a second time (`FirstRound`), and `render_terminal` leaves fewer lines than it may
  show (`FewLines`). The heart is `EntryIsRecent`, about the index
  `(lines + 1) % 10` into a table kept modulo 20: however many lines `ls` adds at
  once, the entry is that of one of the last 20 newlines and not of the very last,
  which would take `base_index` up to `index` and show the whole ring, old text
  included. That every entry is filled follows from numbering the newlines being
  an injection of finite sets of one size (`NumbersOf`).
  `TerminalScreenIsText`, for every screen that the text fits on: `kwrite` and the
  editing by backspaces are functions over the positions of the text, and by induction
  over the positions (`CountsUp`) the cursor stands behind the edited text, every cell
  in front of it shows it and every other cell is blank (`Fits`). `Rendered` adds to
  `TermInvariant` that the screen is the one that `kwrite` of the text shown left.
- `InterruptsProofs`: `InterruptsDoNotNest`, `EoiEndsOwnInterrupt`,
  `DevicesNeverStop` from `IrqInvariant`, which adds `BootOrder`: what has been
  installed when interrupts are on.
- `TransferProofs`: `SgetKeepsOrder`, `SgetWaitsLongEnough` and
  `SleepLastsLongEnough` from `TransferInvariant`. `StreamInvariant` says which
  byte of the host's the kernel is at, from the numbers of the bytes still in the
  receiver; `ClockInvariant` that a half loaded earlier lies between the start of
  the wait and now as long as the high half has not changed; `SleepInvariant`
  that the sum of `sleep` has not wrapped.
- `AtaProofs`: `DriverInStep` and the refinement `AtaIsBlockDevice` from
  `AtaInvariant`: where driver and drive are in a call (`ProtocolOK`), what has
  reached cache and medium of the sectors written (`DataOK`), and what a read has
  in its buffer (`BufferOK`).

The type invariants of `Heap`, `KeyRing`, `Interrupts`, `Transfer` and `Ata` are
proved (`HeapTypes`, `RingTypes`, `InterruptTypes`, `TransferTypes`, `AtaTypes`) and
for that reason not checked by a run; the one of `Strings` is proved
(`StringsKeepTypes`) and checked too. The inductive invariants were checked by TLC
before they were proved; the one of the shell also with a power loss, for which the
run `shell` has no room.

Only model-checked: liveness (`EventuallyRead`, `EveryIrqServed`, `EveryTickCounts`,
`WaitEnds`, `CallReturns`, `CommandEnds`), which TLAPS does not do. Every invariant,
action property and refinement that a passing run checks is also a theorem.

## 7. Not modelled

- Programs started by `run`: arbitrary code in the kernel's address space.
  `exec_stat` is not reached by any command.
- Paging: `src/boot.s` sets the tables up, and `map_page` is called once, at boot,
  for the heap's page; nothing changes them later.
- `src/string.c`, `kprintf` and `fmt`: functions over bytes without state.
- Relative paths (`create` and `ls` refuse them; for `open` and `unlink` they are
  paths that lead to no directory, `UntracedDir`), empty names, paths deeper than
  two directories, and names longer than 32 characters. `unlink` copies its path
  into an array that is one byte too short; `str_list_dir` reserves 32 bytes per
  entry whatever the length of its path.
- Paths that cannot be taken: the clean-up of `create_filetype` after a failed
  descriptor (`allocate_file_descriptor` runs past its one-word bitmap first) and
  the returns behind `PANIC`.
- Block writes torn by a power loss, in `FileSystem`: a write is one step there, the
  five blocks of the inode table included. `BlockDevice` says what the driver really
  leaves: each sector old or new.
- An error that the drive reports for a flush, or behind the last sector of a write: the
  driver does not look, and returns as if the data were on the medium.
- The inode number 2^32 - 1 in bytes that a caller wrote: it reads as -1, not found.
- The index of `apply_bitrange`'s loop has 16 bits (`src/util.c:20`): from 65536 words
  on it would not end. The bitmaps of this code are far shorter, and `Bitmap` counts
  without a limit.
- Properties for what the models have but the code does not promise: a time-out or a
  sleep during which the counter carries into its high half, a sleep whose sum wraps
  (`TimeOutNotEarly`, `SleepNotEarly`), and a screen with a backspace at the start of
  a row or a line that reaches the width (`ScreenIsText`).
- `block_count` (64), which no code enforces; the model stops at `NBlocks`.
- Bytes that `read` returns from behind its buffer when `size` exceeds the block.
- `kmalloc(0)`; `krealloc` to a smaller size, whose `memmove` copies the old length.
- The serial ring: nobody reads it, and `open_system_files` calls the initializer
  of the first system file for both files (`system_files->initialization_func`), so
  `init_serial` never runs and IRQ4 is never raised.
- A scancode left in the keyboard controller before `irq_remap`: its edge is lost
  with the reset.
- Colours and the hardware cursor.
- The tests of `src/tests.c`, which `main` has commented out.

## 8. Plan

Done: all components with state of their own but paging, and a proof of every
property of theirs that is not liveness. Left:

1. `FileSystem` over `BlockDevice`, with the inode table torn between sectors.
