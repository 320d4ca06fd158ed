----------------------------- MODULE Interrupts -----------------------------
(***************************************************************************)
(* Interrupts: the tables that interrupts.c sets up, main's order of       *)
(* setting them up, the entry stubs of boot.s, irq_handler with its two    *)
(* end-of-interrupt commands, and the pair of 8259 controllers they talk   *)
(* to (external, in the edge-triggered, fully nested mode irq_remap asks   *)
(* for).                                                                   *)
(*                                                                         *)
(* What the keyboard's handler does to its ring is module KeyRing.         *)
(***************************************************************************)
EXTENDS Integers, Sequences, FiniteSets

CONSTANTS Irqs,         \* lines that devices raise
          Withdrawable, \* lines that fall again when the kernel polls the device
                        \* (IRQ14: reading ATA_REG_STATUS in ata.c)
          Exceptions,   \* processor exceptions that may happen
          MaxRaises     \* bound: how often a line is raised

Lines == 0 .. 15
Cascade == 2            \* the master's input that the slave drives

ASSUME IrqAssumption ==
    /\ Irqs \subseteq Lines \ {Cascade} /\ Withdrawable \subseteq Irqs
    /\ Exceptions \subseteq 0 .. 31 /\ MaxRaises \in Nat

VARIABLES step,         \* the next call of main, by number
          mode,         \* "run"; "halted" by an exception; "reset" by an interrupt
                        \* without a gate; "off" after shutdown
          iflag,        \* the processor's interrupt flag
          gdt, idt,     \* the segments are loaded; the vectors that have a gate
          remapped,     \* irq_remap has run
          irr, in1, in2,\* requests; lines in service at the master and the slave
          irq_routines, \* handler of every line
          stack,        \* interrupted contexts, innermost last
          timer_counter,
          raised        \* history: how often each line was raised

boot    == <<step, gdt, idt, remapped, irq_routines>>
pic     == <<irr, in1, in2>>
vars    == <<boot, mode, iflag, pic, stack, timer_counter, raised>>

Handlers == {"none", "timer", "keyboard", "serial"}
Syscall80 == 80
Top == stack[Len(stack)]
Running == mode = "run"

Init ==
    /\ step = 1 /\ mode = "run" /\ iflag = FALSE
    /\ gdt = FALSE /\ idt = {} /\ remapped = FALSE
    /\ irr = {} /\ in1 = {} /\ in2 = {}
    /\ irq_routines = [l \in Lines |-> "none"]
    /\ stack = <<>> /\ timer_counter = 0 /\ raised = [l \in Irqs |-> 0]

-----------------------------------------------------------------------------
(* main, one action per call; Booted is the shell *)

Booted == 9

Call(n) == Running /\ stack = <<>> /\ step = n /\ step' = n + 1

GdtInstall == /\ Call(1)
              /\ gdt' = TRUE
              /\ UNCHANGED <<idt, remapped, irq_routines, mode, iflag, pic, stack, timer_counter, raised>>

SetGates(vectors) ==
    /\ idt' = idt \cup vectors
    /\ UNCHANGED <<gdt, irq_routines, mode, iflag, stack, timer_counter, raised>>

\* memset clears the table.
IdtInstall == Call(2) /\ SetGates({}) /\ UNCHANGED <<remapped, pic>>

IsrsInstall == Call(3) /\ SetGates(0 .. 31) /\ UNCHANGED <<remapped, pic>>

\* A bug the properties must notice: the controllers keep the BIOS's vectors,
\* which are those of exceptions.
IrqInstallNoRemap ==
    /\ Call(4)
    /\ SetGates((32 .. 47) \cup {Syscall80})
    /\ UNCHANGED <<remapped, pic>>

\* irq_remap resets both controllers: requests that were latched are gone.
IrqInstall ==
    /\ Call(4)
    /\ SetGates((32 .. 47) \cup {Syscall80})
    /\ remapped' = TRUE
    /\ irr' = {} /\ in1' = {} /\ in2' = {}

InstallHandler(n, irq, handler) ==
    /\ Call(n)
    /\ irq_routines' = [irq_routines EXCEPT ![irq] = handler]
    /\ UNCHANGED <<gdt, idt, remapped, mode, iflag, pic, stack, timer_counter, raised>>

\* A bug the properties must notice: the timer's handler on the line of the
\* real-time clock.
TimerOnRtc == InstallHandler(5, 8, "timer")

TimerInstall    == InstallHandler(5, 0, "timer")
KeyboardInstall == InstallHandler(6, 1, "keyboard")
SerialInstall   == InstallHandler(7, 4, "serial")

EnableInterrupts ==
    /\ Call(8)
    /\ iflag' = TRUE
    /\ UNCHANGED <<gdt, idt, remapped, irq_routines, mode, pic, stack, timer_counter, raised>>

\* The shell returns: shutdown, then cli and hlt behind main.
Exit ==
    /\ Running /\ stack = <<>> /\ step = Booted
    /\ mode' = "off" /\ iflag' = FALSE
    /\ UNCHANGED <<boot, pic, stack, timer_counter, raised>>

Main == \/ GdtInstall \/ IdtInstall \/ IsrsInstall \/ IrqInstall \/ TimerInstall
        \/ KeyboardInstall \/ SerialInstall \/ EnableInterrupts

-----------------------------------------------------------------------------
(* The controllers *)

Raise(l) ==
    /\ raised[l] < MaxRaises
    /\ raised' = [raised EXCEPT ![l] = @ + 1]
    /\ irr' = irr \cup {l}
    /\ UNCHANGED <<boot, mode, iflag, in1, in2, stack, timer_counter>>

Withdraw(l) ==
    /\ l \in irr
    /\ irr' = irr \ {l}
    /\ UNCHANGED <<boot, mode, iflag, in1, in2, stack, timer_counter, raised>>

\* A line in service holds back itself and those of lower priority, which are
\* those with a higher number; the slave's lines also count as line 2.
Deliverable(l) == IF l < 8 THEN \A s \in in1 : l < s
                  ELSE (\A s \in in2 : l < s) /\ (\A s \in in1 : Cascade < s)

Priority(l) == IF l < Cascade THEN l ELSE IF l >= 8 THEN l - 6 ELSE l + 7

Next1 == {l \in irr : Deliverable(l) /\ \A k \in irr : Deliverable(k) => Priority(l) <= Priority(k)}

Vector(l) == IF remapped THEN 32 + l ELSE IF l < 8 THEN 8 + l ELSE 112 + (l - 8)

\* A non-specific EOI ends the line in service with the highest priority.
Eoi(s) == s \ {l \in s : \A k \in s : l <= k}

-----------------------------------------------------------------------------
(* The processor and the stubs *)

\* A bug the properties must notice: the gate leaves the interrupt flag alone
\* and the stub has no cli.
EnterOpen(vector, real) ==
    IF ~gdt \/ vector \notin idt
    THEN mode' = "reset" /\ UNCHANGED <<iflag, stack>>
    ELSE IF vector < 32
    THEN mode' = "halted" /\ iflag' = FALSE /\ UNCHANGED stack
    ELSE /\ stack' = Append(stack, [vector |-> vector, flag |-> iflag, phase |-> "handler", real |-> real])
         /\ UNCHANGED <<mode, iflag>>

\* Through the gate: the flags are saved and interrupts are off (an interrupt
\* gate, and cli in every stub).  isr_handler never leaves an exception.
Enter(vector, real) ==
    IF ~gdt \/ vector \notin idt
    THEN mode' = "reset" /\ UNCHANGED <<iflag, stack>>
    ELSE IF vector < 32
    THEN mode' = "halted" /\ iflag' = FALSE /\ UNCHANGED stack
    ELSE /\ stack' = Append(stack, [vector |-> vector, flag |-> iflag, phase |-> "handler", real |-> real])
         /\ iflag' = FALSE /\ UNCHANGED mode

Accept(l) ==
    /\ Running /\ iflag
    /\ Enter(Vector(l), TRUE)
    /\ irr' = irr \ {l}
    /\ in1' = in1 \cup {IF l < 8 THEN l ELSE Cascade}
    /\ in2' = IF l < 8 THEN in2 ELSE in2 \cup {l}
    /\ UNCHANGED <<boot, timer_counter, raised>>

\* The request falls while the processor answers it: the controller that had it
\* gives its last vector and puts no line of its own into service.
AcceptSpurious(l) ==
    /\ Running /\ iflag
    /\ Enter(Vector(IF l < 8 THEN 7 ELSE 15), FALSE)
    /\ irr' = irr \ {l}
    /\ in1' = IF l < 8 THEN in1 ELSE in1 \cup {Cascade}
    /\ UNCHANGED <<boot, in2, timer_counter, raised>>

\* int $80, and an exception at any point of the kernel's code
Syscall ==
    /\ Running /\ stack = <<>> /\ step = Booted
    /\ Enter(Syscall80, FALSE)
    /\ UNCHANGED <<boot, pic, timer_counter, raised>>

Exception(n) ==
    /\ Running
    /\ Enter(n, FALSE)
    /\ UNCHANGED <<boot, pic, timer_counter, raised>>

-----------------------------------------------------------------------------
(* irq_handler, syscall_handler and the way back *)

At(phase) == Running /\ stack # <<>> /\ Top.phase = phase

GoTo(phase) == stack' = [stack EXCEPT ![Len(stack)].phase = phase]

IsIrq == Top.vector # Syscall80

RunHandler ==
    /\ At("handler")
    /\ timer_counter' = IF IsIrq /\ irq_routines[Top.vector - 32] = "timer"
                        THEN timer_counter + 1 ELSE timer_counter
    /\ GoTo(IF IsIrq THEN "slave" ELSE "return")
    /\ UNCHANGED <<boot, mode, iflag, pic, raised>>

\* A bug the properties must notice: IRQ8 to 15 are acknowledged at the master
\* only.
EoiSlaveSkipped ==
    /\ At("slave")
    /\ GoTo("master")
    /\ UNCHANGED <<boot, mode, iflag, irr, in1, in2, timer_counter, raised>>

EoiSlave ==
    /\ At("slave")
    /\ in2' = IF Top.vector >= 40 THEN Eoi(in2) ELSE in2
    /\ GoTo("master")
    /\ UNCHANGED <<boot, mode, iflag, irr, in1, timer_counter, raised>>

EoiMaster ==
    /\ At("master")
    /\ in1' = Eoi(in1)
    /\ GoTo("return")
    /\ UNCHANGED <<boot, mode, iflag, irr, in2, timer_counter, raised>>

\* A bug the properties must notice: the flags are not restored.
IretKeepsOff ==
    /\ At("return")
    /\ stack' = SubSeq(stack, 1, Len(stack) - 1)
    /\ UNCHANGED <<boot, mode, iflag, pic, timer_counter, raised>>

Iret ==
    /\ At("return")
    /\ iflag' = Top.flag
    /\ stack' = SubSeq(stack, 1, Len(stack) - 1)
    /\ UNCHANGED <<boot, mode, pic, timer_counter, raised>>

-----------------------------------------------------------------------------
Answer == \E l \in Next1 : Accept(l)

Handle == RunHandler \/ EoiSlave \/ EoiMaster \/ Iret

Next ==
    \/ Main \/ Exit \/ Answer \/ Handle
    \/ \E l \in Irqs : Raise(l)
    \/ \E l \in Withdrawable : Withdraw(l)
    \/ \E l \in Next1 \cap Withdrawable : AcceptSpurious(l)
    \/ Syscall
    \/ \E n \in Exceptions : Exception(n)

Spec == Init /\ [][Next]_vars

\* The processor executes main and the handlers, and it looks for a request
\* before every instruction that it begins with interrupts on: a request that
\* stands whenever it looks is answered.  Devices, exceptions, system calls and
\* the end of the shell owe nothing.
FairSpec == Spec /\ WF_vars(Main) /\ WF_vars(Handle) /\ SF_vars(Answer)

-----------------------------------------------------------------------------
Frame == [vector : (32 .. 47) \cup {Syscall80}, flag : BOOLEAN,
          phase : {"handler", "slave", "master", "return"}, real : BOOLEAN]

TypeOK ==
    /\ step \in 1 .. Booted /\ mode \in {"run", "halted", "reset", "off"}
    /\ iflag \in BOOLEAN /\ gdt \in BOOLEAN /\ remapped \in BOOLEAN
    /\ idt \in SUBSET ((0 .. 47) \cup {Syscall80})
    /\ irr \in SUBSET Irqs /\ in1 \in SUBSET (0 .. 7) /\ in2 \in SUBSET (8 .. 15)
    /\ irq_routines \in [Lines -> Handlers]
    /\ stack \in Seq(Frame)
    /\ timer_counter \in Nat /\ raised \in [Irqs -> Nat]

\* interrupts.c:211: "All ISRs disable interrupts while they are being serviced
\* as a 'locking' mechanism": no interrupt is taken inside another one, which
\* is what lets handlers and the kernel share data.
OneAtATime == stack = <<>> \/ (Len(stack) = 1 /\ (Running => ~iflag))

\* The two EOIs end the interrupt that was handled and no other, a request that
\* fell away included: the controllers never keep a line in service that no
\* handler will end, and never lose one that is being handled.
InServiceMatches ==
    IF stack = <<>> \/ ~IsIrq THEN Running => in1 = {} /\ in2 = {}
    ELSE LET l == Top.vector - 32
         IN  Running => /\ in1 = IF Top.phase = "return" THEN {}
                                 ELSE IF l >= 8 THEN {Cascade}
                                 ELSE IF Top.real THEN {l} ELSE {}
                        /\ in2 = IF l >= 8 /\ Top.real /\ Top.phase \in {"handler", "slave"}
                                 THEN {l} ELSE {}

\* No request of a device stops the machine: main sets up every table before it
\* enables interrupts, and no request arrives under an exception's number.
IrqNeverStops ==
    [][mode' \in {"halted", "reset"} /\ Running => irr' = irr]_vars

\* Every request is answered and its handler returns.
EveryIrqServed ==
    \A l \in Irqs : (step = Booted /\ l \in irr) ~> ((l \notin irr /\ stack = <<>>) \/ ~Running)

\* A tick reaches timer_counter, which sleep and the time-out of sget wait for.
EveryTickCounts ==
    \A n \in 0 .. MaxRaises :
        (step = Booted /\ 0 \in irr /\ timer_counter = n) ~> (timer_counter > n \/ ~Running)

\* The inductive invariant behind these adds the order of main's calls: what is
\* set up when interrupts are on, or will be after the return to a context that
\* had them on.
BootOrder ==
    /\ iflag => step = Booted
    /\ stack # <<>> => step = Booted
    /\ step > 1 => gdt
    /\ step > 3 => 0 .. 31 \subseteq idt
    /\ step > 4 => remapped /\ 32 .. 47 \subseteq idt

IrqInvariant == TypeOK /\ OneAtATime /\ InServiceMatches /\ BootOrder
=============================================================================
