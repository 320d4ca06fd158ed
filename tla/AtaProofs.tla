------------------------------ MODULE AtaProofs ------------------------------
(***************************************************************************)
(* Proofs about the disk driver, for every disk, every set of requests and *)
(* every number of power losses.                                           *)
(***************************************************************************)
EXTENDS Ata, TLAPS

-----------------------------------------------------------------------------
(* Type correctness *)

LEMMA AdvancedType ==
    ASSUME dev \in Dev, dev.left > 0
    PROVE  /\ Advanced \in Dev /\ Advanced.at = dev.at + 1 /\ Advanced.left = dev.left - 1
           /\ Advanced.cmd = dev.cmd
           /\ Advanced.state = IF dev.left = 1 /\ dev.cmd # "write" THEN "idle" ELSE "busy"
<1>1. /\ dev.state \in {"idle", "busy", "drq", "failed"} /\ dev.at \in Nat /\ dev.left \in Nat
      /\ dev.cmd \in {"none", "read", "write", "identify", "flush"}
  BY DEF Dev
<1>2. DOMAIN dev = {"state", "cmd", "at", "left"}
  BY DEF Dev
<1>3. Advanced.at = dev.at + 1
  BY <1>2 DEF Advanced
<1>4. Advanced.left = dev.left - 1
  BY <1>2 DEF Advanced
<1>5. Advanced.cmd = dev.cmd
  BY <1>2 DEF Advanced
<1>6. Advanced.state = IF dev.left = 1 /\ dev.cmd # "write" THEN "idle" ELSE "busy"
  BY <1>2 DEF Advanced
<1>7. Advanced \in Dev
  <2> DEFINE st == IF dev.left = 1 /\ dev.cmd # "write" THEN "idle" ELSE "busy"
  <2>1. st \in {"idle", "busy", "drq", "failed"}
    OBVIOUS
  <2>2. Advanced = [dev EXCEPT !.at = dev.at + 1, !.left = dev.left - 1, !.state = st]
    BY DEF Advanced
  <2>3. dev.at + 1 \in Nat /\ dev.left - 1 \in Nat
    BY <1>1
  <2> HIDE DEF st
  <2> QED
    BY <2>1, <2>2, <2>3 DEF Dev
<1> HIDE DEF Advanced
<1> QED
  BY <1>1, <1>3, <1>4, <1>5, <1>6, <1>7

\* A call under way has a request within the disk.
LEMMA OpType ==
    ASSUME TypeOK, op.kind # "none"
    PROVE  /\ op.kind \in {"read", "write", "identify"}
           /\ op.lba \in Nat /\ op.count \in Nat /\ op.count >= 1
           /\ op.lba + op.count <= NSectors
<1>1. op.kind \in {"read", "write", "identify"}
  BY DEF TypeOK
<1>2. op.lba \in Nat /\ op.lba + op.count <= NSectors
  BY DEF TypeOK
<1>3. op.count \in 1 .. 255
  BY DEF TypeOK
<1> QED
  BY <1>1, <1>2, <1>3

\* Every step of driver and drive keeps the types, if the drive asks only for
\* sectors that are left.
LEMMA TypeStep ==
    ASSUME TypeOK, AtaInvariant, [Next]_vars
    PROVE  TypeOK'
<1> USE DEF TypeOK, NoOp, vars, drive
<1>1. CASE ReadBlocks
  BY <1>1, AtaAssumption DEF ReadBlocks, Begin
<1>2. CASE WriteBlocks
  BY <1>2, AtaAssumption DEF WriteBlocks, Begin
<1>3. CASE GetDiskSize
  BY <1>3, AtaAssumption DEF GetDiskSize, Begin
<1>4. CASE WaitReady
  BY <1>4, AtaAssumption DEF WaitReady
<1>5. CASE Command
  <2>1. pc = "command"
    BY <1>5 DEF Command
  <2>2. op.kind # "none"
    BY <2>1
  <2>3. op.kind \in {"read", "write", "identify"} /\ op.lba \in Nat /\ op.count \in Nat
    BY <2>2, OpType
  <2>4. dev' \in Dev
    BY <1>5, <2>3 DEF Command, Commanded, Dev
  <2>5. pc' \in {"drq", "busy"}
    BY <1>5 DEF Command
  <2> QED
    BY <1>5, <2>3, <2>4, <2>5 DEF Command
<1>6. CASE WaitBusy
  BY <1>6, AtaAssumption DEF WaitBusy
<1>7. CASE WaitDrq
  BY <1>7, AtaAssumption DEF WaitDrq
<1>8. CASE ReadSector
  <2>1. dev.left > 0
    BY <1>8 DEF ReadSector, AtaInvariant, InStep
  <2>2. Advanced \in Dev
    BY <2>1, AdvancedType
  <2>3. \/ pc' = "idle" /\ op' = NoOp
        \/ pc' = "drq" /\ op' = op
    BY <1>8, Zenon DEF ReadSector
  <2> QED
    BY <1>8, <2>2, <2>3 DEF ReadSector
<1>9. CASE WriteSector
  <2>1. dev.left > 0
    BY <1>9 DEF WriteSector, AtaInvariant, InStep
  <2>2. Advanced \in Dev
    BY <2>1, AdvancedType
  <2>3. pc' \in {"flush", "drq"} /\ sector' = sector + 1 /\ dev' = Advanced
        /\ UNCHANGED <<op, medium, before, crashes>>
    BY <1>9 DEF WriteSector
  <2>4. op.data \in [0 .. (op.count - 1) -> Values] /\ op.count \in Nat
    BY <1>9, OpType DEF WriteSector
  <2>5. sector + dev.left = op.count /\ dev.left \in Nat
    BY <1>9 DEF WriteSector, AtaInvariant, InStep, Dev
  <2>6. op.data[sector] \in Values
    BY <2>1, <2>4, <2>5
  <2>7. view' \in [Sectors -> Values]
    BY <1>9, <2>6 DEF WriteSector
  <2>8. op.kind = "write"
    BY <1>9 DEF WriteSector
  <2> QED
    BY <2>2, <2>3, <2>7, <2>8
<1>10. CASE ReadIdentity
  <2>1. Drq => Advanced \in Dev
    BY AdvancedType DEF AtaInvariant, ProtocolOK
  <2> QED
    BY <1>10, <2>1 DEF ReadIdentity, Dev
<1>11. CASE Flush
  BY <1>11, AtaAssumption DEF Flush, Commanded, Dev
<1>12. CASE Flushed
  BY <1>12, AtaAssumption DEF Flushed
<1>13. CASE DevReady
  <2>1. dev' \in Dev
    BY <1>13 DEF DevReady, Dev
  <2>2. medium' \in [Sectors -> Values]
    BY <1>13 DEF DevReady
  <2> QED
    BY <1>13, <2>1, <2>2 DEF DevReady
<1>14. CASE DevDestages
  BY <1>14, AtaAssumption DEF DevDestages
<1>15. CASE DevFails
  BY <1>15, AtaAssumption DEF DevFails, Dev, Bsy
<1>16. CASE Crash
  BY <1>16, AtaAssumption DEF Crash, IdleDev, Dev
<1>17. CASE UNCHANGED vars
  BY <1>17
<1> QED
  BY <1>1, <1>2, <1>3, <1>4, <1>5, <1>6, <1>7, <1>8,
     <1>9, <1>10, <1>11, <1>12, <1>13, <1>14, <1>15, <1>16, <1>17
     DEF Next, Driver

-----------------------------------------------------------------------------
(* Driver and drive *)

\* Driver and drive stay in step.
LEMMA ProtocolStep ==
    ASSUME TypeOK, InStep, ProtocolOK, [Next]_vars
    PROVE  InStep' /\ ProtocolOK'
<1> USE DEF InStep, ProtocolOK, NoOp, Bsy, Drq, vars, drive
<1>1. CASE ReadBlocks
  BY <1>1, AtaAssumption, TypeOK DEF ReadBlocks, Begin
<1>2. CASE WriteBlocks
  BY <1>2, AtaAssumption, TypeOK DEF WriteBlocks, Begin
<1>3. CASE GetDiskSize
  BY <1>3, AtaAssumption, TypeOK DEF GetDiskSize, Begin
<1>4. CASE WaitReady
  BY <1>4, AtaAssumption, TypeOK DEF WaitReady
<1>5. CASE Command
  <2>1. op.kind # "none" /\ pc = "command"
    BY <1>5 DEF Command, TypeOK
  <2>2. op.kind \in {"read", "write", "identify"} /\ op.count \in Nat /\ op.count >= 1
        /\ op.lba \in Nat
    BY <2>1, OpType
  <2>3. /\ sector' = 0 /\ op' = op
        /\ dev'.state = "busy" /\ dev'.cmd = op.kind /\ dev'.at = op.lba
        /\ dev'.left = IF op.kind = "identify" THEN 1 ELSE op.count
        /\ pc' = IF op.kind = "write" THEN "drq" ELSE "busy"
    BY <1>5 DEF Command, Commanded
  <2> QED
    BY <2>1, <2>2, <2>3
<1>6. CASE WaitBusy
  <2>1. pc = "busy" /\ op.kind # "none" /\ dev.state # "busy"
        /\ UNCHANGED <<op, sector, dev, view, medium>>
        /\ pc' = IF op.kind = "identify" THEN "identify" ELSE "drq"
    BY <1>6 DEF WaitBusy
  <2>2. op.count \in Nat /\ op.count >= 1 /\ op.lba \in Nat
    BY <2>1, OpType
  <2> QED
    BY <2>1, <2>2
<1>7. CASE WaitDrq
  BY <1>7, AtaAssumption, TypeOK DEF WaitDrq
<1>8. CASE ReadSector
  <2>1. op.kind = "read" /\ pc = "transfer" /\ dev' = Advanced /\ sector' = sector + 1
    BY <1>8 DEF ReadSector
  <2>2. op.count \in Nat /\ op.lba \in Nat /\ sector \in Nat
    BY <2>1, OpType DEF TypeOK
  <2>3. /\ dev.cmd = op.kind /\ dev.at = op.lba + sector /\ sector + dev.left = op.count
        /\ dev.left > 0 /\ dev \in Dev /\ dev.left \in Nat
    BY <2>1 DEF TypeOK, Dev
  <2>4. /\ dev'.at = dev.at + 1 /\ dev'.left = dev.left - 1 /\ dev'.cmd = "read"
        /\ dev'.state = IF dev.left = 1 THEN "idle" ELSE "busy"
    BY <2>1, <2>3, AdvancedType
  <2>5. CASE sector + 1 = op.count
    <3>1. pc' = "idle" /\ op' = NoOp
      BY <1>8, <2>5 DEF ReadSector, Last
    <3> QED
      BY <2>2, <2>3, <2>4, <2>5, <3>1
  <2>6. CASE sector + 1 # op.count
    <3>1. pc' = "drq" /\ op' = op
      BY <1>8, <2>6 DEF ReadSector, Last
    <3> QED
      BY <2>1, <2>2, <2>3, <2>4, <2>6, <3>1
  <2> QED
    BY <2>5, <2>6
<1>9. CASE WriteSector
  <2>1. /\ op.kind = "write" /\ pc = "transfer" /\ dev' = Advanced /\ sector' = sector + 1
        /\ op' = op
    BY <1>9 DEF WriteSector
  <2>2. op.count \in Nat /\ op.lba \in Nat /\ sector \in Nat
    BY <2>1, OpType DEF TypeOK
  <2>3. /\ dev.cmd = op.kind /\ dev.at = op.lba + sector /\ sector + dev.left = op.count
        /\ dev.left > 0 /\ dev \in Dev /\ dev.left \in Nat
    BY <2>1 DEF TypeOK, Dev
  <2>4. /\ dev'.at = dev.at + 1 /\ dev'.left = dev.left - 1 /\ dev'.cmd = "write"
        /\ dev'.state = "busy"
    BY <2>1, <2>3, AdvancedType
  <2>5. pc' = IF sector + 1 = op.count THEN "flush" ELSE "drq"
    BY <1>9 DEF WriteSector, Last
  <2> QED
    BY <2>1, <2>2, <2>3, <2>4, <2>5
<1>10. CASE ReadIdentity
  <2>1. pc' = "idle" /\ op' = NoOp /\ pc = "identify" /\ dev \in Dev
    BY <1>10 DEF ReadIdentity, TypeOK
  <2>2. Drq => dev.left > 0
    OBVIOUS
  <2>3. dev'.state \in {"idle", "failed"}
    <3>1. CASE Drq
      BY <1>10, <2>1, <2>2, <3>1, AdvancedType DEF ReadIdentity
    <3>2. CASE ~ Drq
      BY <1>10, <2>1, <3>2 DEF ReadIdentity, Dev
    <3> QED
      BY <3>1, <3>2
  <2> QED
    BY <2>1, <2>3
<1>11. CASE Flush
  BY <1>11, AtaAssumption, TypeOK DEF Flush, Commanded, Dev
<1>12. CASE Flushed
  <2>1. dev.state \in {"idle", "busy", "drq", "failed"}
    BY DEF TypeOK, Dev
  <2> QED
    BY <1>12, <2>1 DEF Flushed
<1>13. CASE DevReady
  <2>1. dev \in Dev /\ dev.state = "busy" /\ UNCHANGED <<pc, op, sector, view>>
    BY <1>13 DEF DevReady, TypeOK
  <2>2. /\ dev'.state = IF dev.left > 0 THEN "drq" ELSE "idle"
        /\ dev'.at = dev.at /\ dev'.left = dev.left /\ dev'.cmd = dev.cmd
    BY <1>13, <2>1 DEF DevReady, Dev
  <2>3. pc = "flushing" => dev.cmd = "flush"
    OBVIOUS
  <2>4. pc = "flushing" => medium' = view
    BY <1>13, <2>3 DEF DevReady
  <2> QED
    BY <2>1, <2>2, <2>4
<1>14. CASE DevDestages
  <2>1. UNCHANGED <<pc, op, sector, dev, view>>
    BY <1>14 DEF DevDestages
  <2>2. ~ (pc = "flushing" /\ ~ Bsy)
    BY <1>14 DEF DevDestages
  <2> QED
    BY <2>1, <2>2
<1>15. CASE DevFails
  <2>1. /\ dev \in Dev /\ dev.state = "busy" /\ dev.left > 0
        /\ UNCHANGED <<pc, op, sector, view, medium>>
    BY <1>15 DEF DevFails, TypeOK
  <2>2. /\ dev'.state = "failed"
        /\ dev'.at = dev.at /\ dev'.left = dev.left /\ dev'.cmd = dev.cmd
    BY <1>15, <2>1 DEF DevFails, Dev
  <2> QED
    BY <2>1, <2>2
<1>16. CASE Crash
  BY <1>16, AtaAssumption, TypeOK DEF Crash, IdleDev
<1>17. CASE UNCHANGED vars
  BY <1>17
<1> QED
  BY <1>1, <1>2, <1>3, <1>4, <1>5, <1>6, <1>7, <1>8,
     <1>9, <1>10, <1>11, <1>12, <1>13, <1>14, <1>15, <1>16, <1>17
     DEF Next, Driver

-----------------------------------------------------------------------------
(* What is on the disk and in the buffer *)

\* A write changes its own sectors and no others.
LEMMA DataStep ==
    ASSUME TypeOK, InStep, ProtocolOK, DataOK, [Next]_vars
    PROVE  DataOK'
<1> USE DEF DataOK, Given, Extent, vars, drive
<1>1. CASE ReadBlocks
  BY <1>1, TypeOK DEF ReadBlocks, Begin, ProtocolOK, NoOp
<1>2. CASE WriteBlocks
  <2>1. PICK r \in Requests : \E data \in [0 .. (r.count - 1) -> Values] :
           op' = [kind |-> "write", lba |-> r.lba, count |-> r.count, data |-> data]
    BY <1>2 DEF WriteBlocks, Begin
  <2>2. UNCHANGED <<view, medium>> /\ before' = medium /\ pc' = "ready" /\ pc = "idle"
    BY <1>2 DEF WriteBlocks, Begin
  <2>3. view = medium /\ view \in [Sectors -> Values]
    BY <2>2 DEF TypeOK, ProtocolOK, NoOp
  <2>4. r.lba \in Nat /\ r.count \in 1 .. 255
    BY AtaAssumption
  <2>5. op'.lba = r.lba /\ op'.count = r.count
    BY <2>1
  <2>6. op'.lba \in Nat /\ op'.count \in Nat
    BY <2>4, <2>5
  <2> QED
    BY <2>2, <2>3, <2>6
<1>3. CASE GetDiskSize
  BY <1>3, TypeOK DEF GetDiskSize, Begin, ProtocolOK, NoOp
<1>4. CASE WaitReady
  <2>1. UNCHANGED <<op, view, medium, before>> /\ Given' = Given
    BY <1>4 DEF WaitReady
  <2> QED
    BY <2>1
<1>5. CASE Command
  <2>1. UNCHANGED <<op, view, medium, before>> /\ Given = 0 /\ sector' = 0
    BY <1>5 DEF Command
  <2>2. Given' = 0
    BY <2>1
  <2> QED
    BY <2>1, <2>2
<1>6. CASE WaitBusy
  <2>1. UNCHANGED <<op, view, medium, before>> /\ Given' = Given
    BY <1>6 DEF WaitBusy
  <2> QED
    BY <2>1
<1>7. CASE WaitDrq
  <2>1. UNCHANGED <<op, view, medium, before>> /\ Given' = Given
    BY <1>7 DEF WaitDrq
  <2> QED
    BY <2>1
<1>8. CASE ReadSector
  <2>1. UNCHANGED <<view, medium>> /\ op.kind = "read" /\ op'.kind # "write"
    BY <1>8 DEF ReadSector, NoOp
  <2> QED
    BY <2>1
<1>9. CASE WriteSector
  <2>1. /\ op.kind = "write" /\ pc = "transfer" /\ UNCHANGED <<op, medium, before>>
        /\ view' = [view EXCEPT ![dev.at] = op.data[sector]] /\ sector' = sector + 1
        /\ pc' \in {"flush", "drq"}
    BY <1>9 DEF WriteSector
  <2>2. op.lba \in Nat /\ op.count \in Nat /\ op.lba + op.count <= NSectors /\ sector \in Nat
    BY <2>1, OpType DEF TypeOK
  <2>3. dev.at = op.lba + sector /\ sector < op.count
    BY <2>1, <2>2 DEF InStep, TypeOK, Dev
  <2>4. Given = sector /\ Given' = sector + 1 /\ Extent' = Extent
    BY <2>1
  <2>5. view \in [Sectors -> Values] /\ NSectors \in Nat
    BY AtaAssumption DEF TypeOK
  <2> HIDE DEF Given
  <2> SUFFICES ASSUME NEW s \in Sectors
               PROVE  /\ view'[s] = IF s \in Extent /\ s < op.lba + sector + 1
                                    THEN op.data[s - op.lba] ELSE before[s]
                      /\ medium[s] \in {before[s], view'[s]}
    BY <2>1, <2>2, <2>4
  <2>6. /\ view[s] = IF s \in Extent /\ s < op.lba + sector
                     THEN op.data[s - op.lba] ELSE before[s]
        /\ medium[s] \in {before[s], view[s]}
    BY <2>1, <2>4
  <2>7. s \in Int /\ op.lba + sector - op.lba = sector
    BY <2>2, <2>5 DEF Sectors
  <2>8. CASE s = dev.at
    BY <2>1, <2>2, <2>3, <2>5, <2>6, <2>7, <2>8 DEF Extent
  <2>9. CASE s # dev.at
    <3>1. view'[s] = view[s]
      BY <2>1, <2>5, <2>9
    <3>2. s < op.lba + sector + 1 <=> s < op.lba + sector
      BY <2>2, <2>3, <2>7, <2>9
    <3> QED
      BY <2>6, <3>1, <3>2
  <2> QED
    BY <2>8, <2>9
<1>10. CASE ReadIdentity
  BY <1>10, TypeOK DEF ReadIdentity, ProtocolOK, NoOp
<1>11. CASE Flush
  <2>1. UNCHANGED <<op, view, medium, before>> /\ Given' = Given
    BY <1>11 DEF Flush
  <2> QED
    BY <2>1
<1>12. CASE Flushed
  BY <1>12 DEF Flushed, ProtocolOK, NoOp
<1>13. CASE DevReady
  <2>1. UNCHANGED <<op, pc, sector, view, before>>
    BY <1>13 DEF DevReady
  <2>2. medium' = medium \/ (medium' = view /\ op.kind = "write")
    BY <1>13 DEF DevReady, ProtocolOK
  <2> QED
    BY <2>1, <2>2
<1>14. CASE DevDestages
  <2>1. UNCHANGED <<op, pc, sector, view, before>>
    BY <1>14 DEF DevDestages
  <2>2. PICK t \in Sectors : view[t] # medium[t] /\ medium' = [medium EXCEPT ![t] = view[t]]
    BY <1>14 DEF DevDestages
  <2>3. op.kind = "write" /\ medium \in [Sectors -> Values]
    BY <2>2 DEF TypeOK
  <2>4. \A s \in Sectors : medium'[s] \in {medium[s], view[s]}
    BY <2>2, <2>3
  <2>5. Given' = Given /\ Extent' = Extent
    BY <2>1
  <2> HIDE DEF Given, Extent
  <2> QED
    BY <2>1, <2>3, <2>4, <2>5
<1>15. CASE DevFails
  BY <1>15, TypeOK DEF DevFails, Dev, Bsy
<1>16. CASE Crash
  BY <1>16, TypeOK DEF Crash, NoOp
<1>17. CASE UNCHANGED vars
  BY <1>17
<1> QED
  BY <1>1, <1>2, <1>3, <1>4, <1>5, <1>6, <1>7, <1>8,
     <1>9, <1>10, <1>11, <1>12, <1>13, <1>14, <1>15, <1>16, <1>17
     DEF Next, Driver

\* A read has in its buffer what the medium holds.
LEMMA BufferStep ==
    ASSUME TypeOK, InStep, ProtocolOK, DataOK, BufferOK, [Next]_vars
    PROVE  BufferOK'
<1> USE DEF BufferOK, vars, drive
<1>1. CASE ReadBlocks
  BY <1>1, TypeOK DEF ReadBlocks, Begin, ProtocolOK, NoOp
<1>2. CASE WriteBlocks
  BY <1>2, TypeOK DEF WriteBlocks, Begin
<1>3. CASE GetDiskSize
  BY <1>3, TypeOK DEF GetDiskSize, Begin, ProtocolOK, NoOp
<1>4. CASE WaitReady
  BY <1>4, TypeOK DEF WaitReady
<1>5. CASE Command
  <2>1. UNCHANGED <<op, buffer, medium>> /\ sector' = 0 /\ pc = "command"
        /\ pc' \in {"drq", "busy"} /\ buffer = Nothing
    BY <1>5 DEF Command
  <2>2. [k \in 0 .. (0 - 1) |-> medium[op.lba + k]] = Nothing
    BY DEF Nothing
  <2> QED
    BY <2>1, <2>2
<1>6. CASE WaitBusy
  <2>1. /\ UNCHANGED <<op, sector, buffer, medium>> /\ pc = "busy" /\ pc' # "idle"
        /\ buffer = Nothing
    BY <1>6 DEF WaitBusy
  <2>2. op.kind = "read" => sector = 0
    BY <2>1 DEF ProtocolOK
  <2>3. [k \in 0 .. (0 - 1) |-> medium[op.lba + k]] = Nothing
    BY DEF Nothing
  <2> QED
    BY <2>1, <2>2, <2>3
<1>7. CASE WaitDrq
  BY <1>7, TypeOK DEF WaitDrq
<1>8. CASE ReadSector
  <2>1. /\ op.kind = "read" /\ pc = "transfer" /\ UNCHANGED <<medium, view>>
        /\ buffer' = [k \in 0 .. sector |-> IF k = sector THEN view[dev.at] ELSE buffer[k]]
        /\ sector' = sector + 1
        /\ (pc' = "idle" /\ op' = NoOp) \/ (pc' = "drq" /\ op' = op)
    BY <1>8 DEF ReadSector
  <2>2. sector \in Nat /\ view = medium /\ dev.at = op.lba + sector
    BY <2>1 DEF TypeOK, DataOK, InStep
  <2>3. buffer = [k \in 0 .. (sector - 1) |-> medium[op.lba + k]]
    BY <2>1
  <2>4. buffer' = [k \in 0 .. (sector' - 1) |-> medium[op.lba + k]]
    BY <2>1, <2>2, <2>3
  <2> QED
    BY <2>1, <2>4
<1>9. CASE WriteSector
  BY <1>9 DEF WriteSector
<1>10. CASE ReadIdentity
  BY <1>10, TypeOK DEF ReadIdentity, ProtocolOK, NoOp
<1>11. CASE Flush
  BY <1>11, TypeOK DEF Flush, Commanded, Dev
<1>12. CASE Flushed
  BY <1>12, TypeOK DEF Flushed
<1>13. CASE DevReady
  <2>1. UNCHANGED <<op, pc, sector, buffer>>
    BY <1>13 DEF DevReady
  <2>2. op.kind = "read" => medium' = medium
    BY <1>13 DEF DevReady, ProtocolOK
  <2> QED
    BY <2>1, <2>2
<1>14. CASE DevDestages
  <2>1. UNCHANGED <<op, pc, sector, buffer>> /\ op.kind = "write"
    BY <1>14 DEF DevDestages, DataOK
  <2> QED
    BY <2>1
<1>15. CASE DevFails
  BY <1>15, TypeOK DEF DevFails, Dev, Bsy
<1>16. CASE Crash
  BY <1>16, TypeOK DEF Crash, NoOp
<1>17. CASE UNCHANGED vars
  BY <1>17
<1> QED
  BY <1>1, <1>2, <1>3, <1>4, <1>5, <1>6, <1>7, <1>8,
     <1>9, <1>10, <1>11, <1>12, <1>13, <1>14, <1>15, <1>16, <1>17
     DEF Next, Driver

LEMMA AtaInit == Init => TypeOK /\ AtaInvariant
<1> SUFFICES ASSUME Init PROVE TypeOK /\ AtaInvariant
  OBVIOUS
<1>1. TypeOK
  BY AtaAssumption DEF Init, TypeOK, NoOp, IdleDev, Dev
<1>2. InStep /\ ProtocolOK /\ DataOK /\ BufferOK
  BY DEF Init, InStep, ProtocolOK, DataOK, BufferOK, NoOp, IdleDev, Bsy, Drq
<1> QED
  BY <1>1, <1>2 DEF AtaInvariant

LEMMA AtaStep ==
    ASSUME TypeOK, AtaInvariant, [Next]_vars
    PROVE  TypeOK' /\ AtaInvariant'
  BY TypeStep, ProtocolStep, DataStep, BufferStep DEF AtaInvariant

LEMMA AtaAlways == Spec => [](TypeOK /\ AtaInvariant)
<1>1. TypeOK /\ AtaInvariant /\ [Next]_vars => (TypeOK /\ AtaInvariant)'
  BY AtaStep
<1> QED
  BY <1>1, AtaInit, PTL DEF Spec

\* Driver and drive keep the types of their state, the number of sectors still to
\* be transferred among them: ata.c never takes more than it asked for.
THEOREM AtaTypes == Spec => []TypeOK
  BY AtaAlways, PTL

\* On every disk, the driver's commands and transfers of ata.c meet a drive that
\* waits for just these, also after errors and power losses.
THEOREM DriverInStep == Spec => []InStep
<1>1. AtaInvariant => InStep
  BY DEF AtaInvariant
<1> QED
  BY <1>1, AtaAlways, PTL

-----------------------------------------------------------------------------
(* The driver implements a block device *)

LEMMA CallBegins ==
    ASSUME TypeOK, AtaInvariant, ReadBlocks \/ WriteBlocks \/ GetDiskSize
    PROVE  Device!Next
<1>1. /\ pc = "idle" /\ op = NoOp /\ pc' # "idle" /\ medium' = medium /\ before' = medium
  BY DEF ReadBlocks, WriteBlocks, GetDiskSize, Begin, drive, AtaInvariant, ProtocolOK
<1>2. PICK r \in Requests :
         \/ op' = [kind |-> "read", lba |-> r.lba, count |-> r.count, data |-> <<>>]
         \/ op' = [kind |-> "identify", lba |-> r.lba, count |-> r.count, data |-> <<>>]
         \/ \E data \in [0 .. (r.count - 1) -> Values] :
               op' = [kind |-> "write", lba |-> r.lba, count |-> r.count, data |-> data]
  BY DEF ReadBlocks, WriteBlocks, GetDiskSize, Begin
<1>3. (IF op.kind = "write" THEN before ELSE medium)' =
         IF op.kind = "write" THEN before ELSE medium
  BY <1>1 DEF NoOp
<1>4. (IF pc = "idle" THEN buffer ELSE Nothing)' = Nothing
  BY <1>1 DEF Nothing
<1> QED
  BY <1>1, <1>2, <1>3, <1>4
     DEF Device!Next, Device!BeginAny, Device!Begin, Device!NoOp, Device!Nothing, NoOp, Nothing

LEMMA ReadEnds ==
    ASSUME TypeOK, AtaInvariant, ReadSector, Last
    PROVE  Device!FinishRead
<1>1. /\ pc = "transfer" /\ op.kind = "read" /\ pc' = "idle" /\ op' = NoOp
      /\ buffer' = [k \in 0 .. sector |-> IF k = sector THEN view[dev.at] ELSE buffer[k]]
      /\ UNCHANGED <<view, medium>>
  BY DEF ReadSector
<1>2. /\ buffer = [k \in 0 .. (sector - 1) |-> medium[op.lba + k]] /\ view = medium
      /\ dev.at = op.lba + sector /\ sector \in Nat /\ sector + 1 = op.count
  BY <1>1 DEF AtaInvariant, BufferOK, DataOK, InStep, TypeOK, Last
<1>3. buffer' = [k \in 0 .. (op.count - 1) |-> medium[op.lba + k]]
  BY <1>1, <1>2
<1> QED
  BY <1>1, <1>3 DEF Device!FinishRead, Device!Contents, Device!NoOp, NoOp

LEMMA WriteEnds ==
    ASSUME TypeOK, AtaInvariant, Flushed
    PROVE  Device!FinishWrite
<1>1. /\ pc = "flushing" /\ pc' = "idle" /\ op' = NoOp /\ ~ Bsy
      /\ UNCHANGED <<medium, buffer>>
  BY DEF Flushed, drive
<1>2. op.kind = "write" /\ view = medium /\ sector = op.count /\ buffer = Nothing
  BY <1>1 DEF AtaInvariant, ProtocolOK, BufferOK
<1>3. op.lba \in Nat /\ op.count \in Nat /\ NSectors \in Nat
  BY <1>2, OpType, AtaAssumption
<1>4. \A s \in Sectors : medium[s] = IF s \in Extent THEN op.data[s - op.lba] ELSE before[s]
  BY <1>1, <1>2, <1>3 DEF AtaInvariant, DataOK, Given, Extent, Sectors
<1>5. medium = [s \in Sectors |-> IF s \in Extent THEN op.data[s - op.lba] ELSE before[s]]
  BY <1>4 DEF TypeOK
<1> QED
  BY <1>1, <1>2, <1>5
     DEF Device!FinishWrite, Device!Extent, Device!Sectors, Device!NoOp, Extent, Sectors, NoOp

LEMMA PowerFails ==
    ASSUME TypeOK, AtaInvariant, Crash
    PROVE  Device!PowerLoss
<1>1. pc' = "idle" /\ op' = NoOp /\ buffer' = Nothing /\ medium' = medium
  BY DEF Crash
<1>2. medium \in [Sectors -> Values]
  BY DEF TypeOK
<1>3. (IF op.kind = "write" THEN before ELSE medium)' = medium
  BY <1>1 DEF NoOp
<1>4. (IF pc = "idle" THEN buffer ELSE Nothing)' = Nothing
  BY <1>1 DEF Nothing
<1>5. ASSUME NEW s \in Sectors
      PROVE  \/ medium[s] = (IF op.kind = "write" THEN before ELSE medium)[s]
             \/ op.kind = "write" /\ s \in Extent /\ medium[s] = op.data[s - op.lba]
  BY DEF AtaInvariant, DataOK
<1> QED
  BY <1>1, <1>2, <1>3, <1>4, <1>5
     DEF Device!PowerLoss, Device!Extent, Device!Sectors, Device!NoOp, Device!Nothing,
         Extent, Sectors, NoOp, Nothing

\* A step within a call, of the driver or of the drive, is not seen from outside.
LEMMA Unseen ==
    ASSUME op' = op, (pc # "idle" /\ pc' # "idle") \/ UNCHANGED <<pc, buffer>>,
           IF op.kind = "write" THEN before' = before ELSE medium' = medium
    PROVE  UNCHANGED Device!vars
  BY DEF Device!vars

LEMMA DeviceStep ==
    ASSUME TypeOK, AtaInvariant, [Next]_vars
    PROVE  [Device!Next]_Device!vars
<1>1. CASE ReadBlocks \/ WriteBlocks \/ GetDiskSize
  BY <1>1, CallBegins
<1>2. CASE WaitReady \/ Command \/ WaitBusy \/ WaitDrq \/ Flush \/ WriteSector
  BY <1>2, Unseen
     DEF WaitReady, Command, WaitBusy, WaitDrq, Flush, WriteSector, drive
<1>3. CASE ReadSector
  <2>1. CASE Last
    BY <1>3, <2>1, ReadEnds DEF Device!Next
  <2>2. CASE ~ Last
    BY <1>3, <2>2, Unseen DEF ReadSector
  <2> QED
    BY <2>1, <2>2
<1>4. CASE ReadIdentity
  <2>1. /\ op.kind = "identify" /\ op' = NoOp /\ medium' = medium /\ pc # "idle"
        /\ buffer' = Nothing
    BY <1>4 DEF ReadIdentity, AtaInvariant, ProtocolOK, BufferOK
  <2> QED
    BY <2>1 DEF Device!Next, Device!FinishIdentify, Device!NoOp, NoOp
<1>5. CASE Flushed
  BY <1>5, WriteEnds DEF Device!Next
<1>6. CASE DevReady \/ DevDestages \/ DevFails
  <2>1. UNCHANGED <<op, pc, buffer, before>>
    BY <1>6 DEF DevReady, DevDestages, DevFails
  <2>2. op.kind # "write" => medium' = medium
    BY <1>6 DEF DevReady, DevDestages, DevFails, AtaInvariant, ProtocolOK, DataOK
  <2> QED
    BY <2>1, <2>2, Unseen
<1>7. CASE Crash
  BY <1>7, PowerFails DEF Device!Next
<1>8. CASE UNCHANGED vars
  BY <1>8, Unseen DEF vars, drive
<1> QED
  BY <1>1, <1>2, <1>3, <1>4, <1>5, <1>6, <1>7, <1>8 DEF Next, Driver

\* On every disk the driver of ata.c is a block device: reads give what was written
\* last, a write that has returned is on the medium, and a power loss leaves old or
\* new sectors of the interrupted write and nothing else.
THEOREM AtaIsBlockDevice == Spec => ImplementsBlockDevice
<1>1. Init => Device!Init
  BY DEF Init, Device!Init, Device!Sectors, Device!NoOp, Device!Nothing, Sectors, NoOp, Nothing
<1>2. TypeOK /\ AtaInvariant /\ [Next]_vars => [Device!Next]_Device!vars
  BY DeviceStep
<1> QED
  BY <1>1, <1>2, AtaAlways, PTL DEF Spec, ImplementsBlockDevice, Device!Spec
=============================================================================
