-------------------------------- MODULE Ata --------------------------------
(***************************************************************************)
(* The disk driver of ata.c: programmed I/O, every wait a loop on the      *)
(* status register, no interrupts and no time-out.  The drive is external: *)
(* a command makes it busy, then it asks for the transfer of one sector    *)
(* after the other.  What it was given it may keep in its cache: reads     *)
(* see it, the medium gets it later, and a power loss drops the rest.      *)
(*                                                                         *)
(* The sector number goes to the drive in four bytes, which the drive puts *)
(* together again.  sector_count is sent as one byte and counted in a      *)
(* uint8_t; the largest the file system asks for is 40.                    *)
(***************************************************************************)
EXTENDS Integers

CONSTANTS NSectors,
          Values,      \* what a sector may hold
          Blank,       \* what the disk image is made of
          Requests,    \* first sector and number of sectors of the transfers
          Failing,     \* may the drive report an error?
          MaxCrashes   \* bound: power losses

ASSUME AtaAssumption ==
    /\ NSectors \in Nat /\ Blank \in Values /\ Failing \in BOOLEAN /\ MaxCrashes \in Nat
    /\ \A r \in Requests : /\ r.lba \in Nat /\ r.count \in 1 .. 255
                           /\ r.lba + r.count <= NSectors

VARIABLES pc,        \* where the driver is
          op,        \* what it was called for
          sector,    \* its loop variable
          buffer,    \* the caller's buffer
          dev,       \* the drive: its state, its command, the sector it is at, how many are left
          view,      \* what the drive gives to a read
          medium,    \* what the medium holds
          before,    \* history: the medium when the call began
          crashes

drive == <<dev, view, medium>>
vars  == <<pc, op, sector, buffer, drive, before, crashes>>

Sectors == 0 .. (NSectors - 1)
NoOp    == [kind |-> "none", lba |-> 0, count |-> 0, data |-> <<>>]
Nothing == [k \in {} |-> Blank]
Dev     == [state : {"idle", "busy", "drq", "failed"}, at : Nat, left : Nat,
            cmd : {"none", "read", "write", "identify", "flush"}]
IdleDev == [state |-> "idle", cmd |-> "none", at |-> 0, left |-> 0]

Init ==
    /\ pc = "idle" /\ op = NoOp /\ sector = 0 /\ buffer = Nothing
    /\ dev = IdleDev
    /\ view = [s \in Sectors |-> Blank] /\ medium = view /\ before = medium
    /\ crashes = 0

Bsy == dev.state = "busy"
Drq == dev.state = "drq"

-----------------------------------------------------------------------------
(* The drive *)

\* A sector is there to be read, or can be taken; after the last one, and after
\* a flush, the drive is idle.
DevReady ==
    /\ Bsy
    /\ dev' = [dev EXCEPT !.state = IF dev.left > 0 THEN "drq" ELSE "idle"]
    /\ medium' = IF dev.cmd = "flush" THEN view ELSE medium
    /\ UNCHANGED <<pc, op, sector, buffer, view, before, crashes>>

\* The cache is written back in any order.
DevDestages ==
    /\ \E s \in Sectors : view[s] # medium[s] /\ medium' = [medium EXCEPT ![s] = view[s]]
    /\ UNCHANGED <<pc, op, sector, buffer, dev, view, before, crashes>>

\* An error while sectors are left: not busy, and no transfer is asked for.  An
\* error behind the last sector of a write, or of the flush, is left out: the
\* driver looks at neither, and returns as if the data were on the medium.
DevFails ==
    /\ Failing /\ Bsy /\ dev.cmd # "flush" /\ dev.left > 0
    /\ dev' = [dev EXCEPT !.state = "failed"]
    /\ UNCHANGED <<pc, op, sector, buffer, view, medium, before, crashes>>

\* The drive takes a command.
Commanded(cmd, lba, count) == [state |-> "busy", cmd |-> cmd, at |-> lba, left |-> count]

\* The drive after it has passed on, or taken, one sector.
Advanced ==
    [dev EXCEPT !.at = @ + 1, !.left = @ - 1,
                !.state = IF dev.left = 1 /\ dev.cmd # "write" THEN "idle" ELSE "busy"]

-----------------------------------------------------------------------------
(* The driver *)

Begin(o) ==
    /\ pc = "idle" /\ op' = o /\ before' = medium /\ buffer' = Nothing
    /\ UNCHANGED <<sector, drive, crashes>>

ReadBlocks ==
    /\ \E r \in Requests :
          Begin([kind |-> "read", lba |-> r.lba, count |-> r.count, data |-> <<>>])
    /\ pc' = "ready"

WriteBlocks ==
    /\ \E r \in Requests : \E data \in [0 .. (r.count - 1) -> Values] :
          Begin([kind |-> "write", lba |-> r.lba, count |-> r.count, data |-> data])
    /\ pc' = "ready"

\* ata_identify does not wait for the drive.
GetDiskSize ==
    /\ \E r \in Requests :
          Begin([kind |-> "identify", lba |-> r.lba, count |-> r.count, data |-> <<>>])
    /\ pc' = "command"

\* The first ata_wait_ready.
WaitReady ==
    /\ pc = "ready" /\ ~ Bsy /\ pc' = "command"
    /\ UNCHANGED <<op, sector, buffer, drive, before, crashes>>

\* The registers and the command.
Command ==
    /\ pc = "command" /\ sector' = 0
    /\ dev' = Commanded(op.kind, op.lba, IF op.kind = "identify" THEN 1 ELSE op.count)
    /\ pc' = IF op.kind = "write" THEN "drq" ELSE "busy"
    /\ UNCHANGED <<op, buffer, view, medium, before, crashes>>

\* The second ata_wait_ready, and ata_wait, after which no DRQ is waited for.
WaitBusy ==
    /\ pc = "busy" /\ ~ Bsy
    /\ pc' = IF op.kind = "identify" THEN "identify" ELSE "drq"
    /\ UNCHANGED <<op, sector, buffer, drive, before, crashes>>

WaitDrq ==
    /\ pc = "drq" /\ Drq /\ pc' = "transfer"
    /\ UNCHANGED <<op, sector, buffer, drive, before, crashes>>

\* A bug the properties must notice: the loop runs once more.
LastLate == sector = op.count

\* The loop is over with this sector.
Last == sector + 1 = op.count

\* rep_insw
ReadSector ==
    /\ pc = "transfer" /\ op.kind = "read"
    /\ buffer' = [k \in 0 .. sector |-> IF k = sector THEN view[dev.at] ELSE buffer[k]]
    /\ dev' = Advanced /\ sector' = sector + 1
    /\ IF Last THEN pc' = "idle" /\ op' = NoOp ELSE pc' = "drq" /\ UNCHANGED op
    /\ UNCHANGED <<view, medium, before, crashes>>

\* outsw, 256 times
WriteSector ==
    /\ pc = "transfer" /\ op.kind = "write"
    /\ view' = [view EXCEPT ![dev.at] = op.data[sector]]
    /\ dev' = Advanced /\ sector' = sector + 1
    /\ pc' = IF Last THEN "flush" ELSE "drq"
    /\ UNCHANGED <<op, buffer, medium, before, crashes>>

\* ata_read_buffer; a drive that reported an error gives anything.
ReadIdentity ==
    /\ pc = "identify" /\ pc' = "idle" /\ op' = NoOp
    /\ dev' = IF Drq THEN Advanced ELSE dev
    /\ UNCHANGED <<sector, buffer, view, medium, before, crashes>>

\* A bug the properties must notice: nothing is flushed.
FlushSkipped ==
    /\ pc = "flush" /\ ~ Bsy /\ pc' = "flushing" /\ dev' = IdleDev
    /\ UNCHANGED <<op, sector, buffer, view, medium, before, crashes>>

\* ata_cache_flush
Flush ==
    /\ pc = "flush" /\ ~ Bsy /\ pc' = "flushing"
    /\ dev' = Commanded("flush", 0, 0)
    /\ UNCHANGED <<op, sector, buffer, view, medium, before, crashes>>

Flushed ==
    /\ pc = "flushing" /\ ~ Bsy /\ pc' = "idle" /\ op' = NoOp
    /\ UNCHANGED <<sector, buffer, drive, before, crashes>>

-----------------------------------------------------------------------------
\* The power fails; the kernel and the drive start again.
Crash ==
    /\ crashes < MaxCrashes /\ crashes' = crashes + 1
    /\ pc' = "idle" /\ op' = NoOp /\ sector' = 0 /\ buffer' = Nothing
    /\ dev' = IdleDev /\ view' = medium
    /\ UNCHANGED <<medium, before>>

Driver == \/ WaitReady \/ Command \/ WaitBusy \/ WaitDrq \/ ReadSector \/ WriteSector
          \/ ReadIdentity \/ Flush \/ Flushed

Next == \/ ReadBlocks \/ WriteBlocks \/ GetDiskSize \/ Driver
        \/ DevReady \/ DevDestages \/ DevFails \/ Crash

\* The processor goes on with a call, and the drive with a command.
Spec == Init /\ [][Next]_vars /\ WF_vars(Driver) /\ WF_vars(DevReady)

-----------------------------------------------------------------------------
TypeOK ==
    /\ pc \in {"idle", "ready", "command", "busy", "drq", "transfer", "identify", "flush",
               "flushing"}
    /\ op.kind \in {"none", "read", "write", "identify"} /\ (op.kind = "none" <=> pc = "idle")
    /\ op.kind # "none" => op.lba \in Nat /\ op.count \in 1 .. 255 /\ op.lba + op.count <= NSectors
    /\ op.kind = "write" => op.data \in [0 .. (op.count - 1) -> Values]
    /\ sector \in Nat
    /\ dev \in Dev
    /\ view \in [Sectors -> Values] /\ medium \in [Sectors -> Values]
    /\ before \in [Sectors -> Values] /\ crashes \in Nat

\* Driver and drive agree on the transfer: the command meets a drive that waits for
\* one, the data the sector the drive asks for; and when a call returns, the
\* drive has nothing left that it would still ask for.
InStep ==
    /\ pc \in {"idle", "ready", "command"} => dev.state \in {"idle", "failed"}
    /\ pc \in {"drq", "transfer"} =>
          /\ dev.cmd = op.kind /\ dev.at = op.lba + sector /\ sector + dev.left = op.count
          /\ dev.left > 0
    /\ pc = "transfer" => Drq
    /\ pc \in {"flush", "flushing"} => dev.left = 0

\* A call of the driver does what BlockDevice says of it.
Device == INSTANCE BlockDevice
             WITH store  <- IF op.kind = "write" THEN before ELSE medium,
                  result <- IF pc = "idle" THEN buffer ELSE Nothing

ImplementsBlockDevice == Device!Spec

\* Every call returns, unless the drive reports an error: then the loop on DRQ
\* never ends.
CallReturns == pc # "idle" ~> (pc = "idle" \/ dev.state = "failed")

-----------------------------------------------------------------------------
(* The inductive invariant behind InStep and ImplementsBlockDevice. *)

Extent == op.lba .. (op.lba + op.count - 1)

\* Sectors that the drive has been given; sector is stale before the command.
Given == IF pc \in {"ready", "command"} THEN 0 ELSE sector

\* Where the driver is in a call, and the drive in a command.
ProtocolOK ==
    /\ pc = "idle" => op = NoOp
    /\ Drq => dev.left > 0
    /\ pc = "busy" =>
          /\ op.kind \in {"read", "identify"} /\ dev.cmd = op.kind
          /\ op.kind = "read" => sector = 0 /\ dev.at = op.lba /\ dev.left = op.count
          /\ op.kind = "identify" => dev.left = 1
    /\ pc \in {"drq", "transfer"} => op.kind \in {"read", "write"}
    /\ pc = "identify" =>
          op.kind = "identify" /\ dev.cmd = "identify" /\ dev.left = 1 /\ ~ Bsy
    /\ pc \in {"flush", "flushing"} => op.kind = "write" /\ sector = op.count
    /\ dev.cmd = "flush" /\ Bsy => pc = "flushing"
    /\ pc = "flushing" => dev.cmd = "flush" /\ (~ Bsy => view = medium)

\* Only a write changes anything, and only its own sectors, in order; the medium
\* follows as it likes.
DataOK ==
    /\ op.kind # "write" => view = medium
    /\ op.kind = "write" =>
          \A s \in Sectors :
              /\ view[s] = IF s \in Extent /\ s < op.lba + Given THEN op.data[s - op.lba]
                           ELSE before[s]
              /\ medium[s] \in {before[s], view[s]}

\* A read has the sectors it has passed.
BufferOK ==
    LET reading == op.kind = "read" /\ pc \in {"drq", "transfer"}
    IN  /\ reading => buffer = [k \in 0 .. (sector - 1) |-> medium[op.lba + k]]
        /\ pc # "idle" /\ ~ reading => buffer = Nothing

AtaInvariant == InStep /\ ProtocolOK /\ DataOK /\ BufferOK
=============================================================================
