-------------------------- MODULE InterruptsProofs --------------------------
(***************************************************************************)
(* For every set of lines that devices raise or take back, and every       *)
(* exception: interrupts do not nest, every EOI ends the interrupt that    *)
(* was handled, and no device stops the machine.                           *)
(*                                                                         *)
(* The three hold each other up.  Because the controllers have nothing in  *)
(* service when an interrupt is taken, the non-specific EOI can only hit   *)
(* the line that was taken; because interrupts are off until iret, nothing *)
(* is taken in between; and what makes the gates and vectors right is the  *)
(* order of main's calls (BootOrder).                                      *)
(***************************************************************************)
EXTENDS Interrupts, TLAPS

\* A stack that is not empty is its one frame.
LEMMA OneFrame ==
    ASSUME stack \in Seq(Frame), OneAtATime, stack # <<>>
    PROVE  /\ Len(stack) = 1 /\ Top = stack[1] /\ Top \in Frame
           /\ Running => ~iflag
  BY DEF OneAtATime, Top

\* A handler's step replaces that frame by one that differs in its phase.
LEMMA NewPhase ==
    ASSUME stack \in Seq(Frame), Len(stack) = 1,
           NEW p \in {"handler", "slave", "master", "return"}, GoTo(p)
    PROVE  /\ stack' \in Seq(Frame) /\ Len(stack') = 1 /\ stack' # <<>>
           /\ Top' \in Frame
           /\ Top'.phase = p /\ Top'.vector = Top.vector /\ Top'.real = Top.real
<1> DEFINE f == stack[1]
           g == [f EXCEPT !.phase = p]
<1>1. f \in Frame
  OBVIOUS
<1>2. stack' = [stack EXCEPT ![1] = g]
  BY DEF GoTo
<1> HIDE DEF f
<1>3. g \in Frame
  BY <1>1 DEF Frame
<1>4. g.phase = p /\ g.vector = f.vector /\ g.real = f.real
  BY <1>1 DEF Frame
<1> HIDE DEF g
<1>5. stack' \in Seq(Frame) /\ Len(stack') = 1 /\ stack'[1] = g
  BY <1>2, <1>3
<1>6. stack' # <<>>
  BY <1>5
<1>7. Top' = g
  BY <1>5 DEF Top
<1>8. Top = f
  BY DEF Top, f
<1>9. Top'.phase = p /\ Top'.vector = Top.vector /\ Top'.real = Top.real
  BY <1>4, <1>7, <1>8
<1> QED BY <1>3, <1>5, <1>6, <1>7, <1>9

\* Taking an interrupt through a gate.
LEMMA EnterPushes ==
    ASSUME stack = <<>>, NEW v \in Int, NEW real \in BOOLEAN, iflag \in BOOLEAN,
           Enter(v, real), mode' = "run",
           idt \in SUBSET ((0 .. 47) \cup {Syscall80}), mode \in {"run", "halted", "reset", "off"}
    PROVE  /\ v \in (32 .. 47) \cup {Syscall80} /\ gdt /\ ~iflag'
           /\ stack' \in Seq(Frame) /\ Len(stack') = 1 /\ stack' # <<>>
           /\ Top'.vector = v /\ Top'.phase = "handler" /\ Top'.real = real
<1> DEFINE f == [vector |-> v, flag |-> iflag, phase |-> "handler", real |-> real]
<1>1. /\ gdt /\ v \in idt /\ v >= 32
      /\ stack' = Append(stack, f) /\ iflag' = FALSE
  BY DEF Enter
<1>2. v \in (32 .. 47) \cup {Syscall80}
  BY <1>1 DEF Syscall80
<1>3. f \in Frame /\ f.vector = v /\ f.phase = "handler" /\ f.real = real
  BY <1>2 DEF Frame
<1> HIDE DEF f
<1>4. stack' = <<f>> /\ stack' \in Seq(Frame) /\ Len(stack') = 1 /\ stack'[1] = f
  BY <1>1, <1>3
<1>5. Top' = f
  BY <1>4 DEF Top
<1> QED BY <1>1, <1>2, <1>3, <1>4, <1>5

\* Otherwise the machine stops with the stack it had.
LEMMA EnterStops ==
    ASSUME NEW v, NEW real, Enter(v, real), mode' # "run", mode = "run"
    PROVE  /\ mode' \in {"halted", "reset"} /\ stack' = stack
           /\ iflag' = iflag \/ iflag' = FALSE
  BY DEF Enter

-----------------------------------------------------------------------------
LEMMA InitInv == Init => IrqInvariant
<1> SUFFICES ASSUME Init PROVE IrqInvariant
  OBVIOUS
<1>1. TypeOK
  <2>1. step \in 1 .. Booted /\ stack \in Seq(Frame) /\ raised \in [Irqs -> Nat]
    BY DEF Init, Booted
  <2>2. irq_routines \in [Lines -> Handlers]
    BY DEF Init, Handlers
  <2> QED BY <2>1, <2>2 DEF Init, TypeOK
<1>2. OneAtATime /\ InServiceMatches /\ BootOrder
  BY DEF Init, OneAtATime, InServiceMatches, BootOrder
<1> QED BY <1>1, <1>2 DEF IrqInvariant

\* main's calls run with nothing in service.
LEMMA MainInv ==
    ASSUME IrqInvariant, Main
    PROVE  IrqInvariant'
<1>1. /\ Running /\ stack = <<>> /\ step \in 1 .. 8 /\ step' = step + 1
      /\ UNCHANGED <<mode, stack, timer_counter, raised>>
  BY DEF Main, GdtInstall, IdtInstall, IsrsInstall, IrqInstall, TimerInstall,
         KeyboardInstall, SerialInstall, InstallHandler, EnableInterrupts, SetGates, Call
<1>2. in1' = {} /\ in2' = {}
  <2>1. in1 = {} /\ in2 = {}
    BY <1>1 DEF IrqInvariant, InServiceMatches
  <2> QED BY <2>1 DEF Main, GdtInstall, IdtInstall, IsrsInstall, IrqInstall, TimerInstall,
         KeyboardInstall, SerialInstall, InstallHandler, EnableInterrupts, SetGates, pic
<1>3. irr' \in SUBSET Irqs
  BY DEF Main, GdtInstall, IdtInstall, IsrsInstall, IrqInstall, TimerInstall, KeyboardInstall,
         SerialInstall, InstallHandler, EnableInterrupts, SetGates, pic, IrqInvariant, TypeOK
<1>4. irq_routines' \in [Lines -> Handlers]
  <2>1. CASE \E n \in {5, 6, 7}, l \in Lines, h \in Handlers : InstallHandler(n, l, h)
    BY <2>1 DEF InstallHandler, IrqInvariant, TypeOK
  <2>2. CASE UNCHANGED irq_routines
    BY <2>2 DEF IrqInvariant, TypeOK
  <2> QED BY <2>1, <2>2 DEF Main, GdtInstall, IdtInstall, IsrsInstall, IrqInstall, TimerInstall,
         KeyboardInstall, SerialInstall, EnableInterrupts, SetGates, Handlers, Lines
<1>5. iflag = FALSE
  BY <1>1 DEF IrqInvariant, BootOrder, TypeOK, Booted
<1>6. idt' \in SUBSET ((0 .. 47) \cup {Syscall80})
  <2>1. idt \in SUBSET ((0 .. 47) \cup {Syscall80})
    BY DEF IrqInvariant, TypeOK
  <2>2. idt' \subseteq idt \cup (0 .. 31) \cup (32 .. 47) \cup {Syscall80}
    BY DEF Main, GdtInstall, IdtInstall, IsrsInstall, IrqInstall, TimerInstall, KeyboardInstall,
           SerialInstall, InstallHandler, EnableInterrupts, SetGates
  <2> QED BY <2>1, <2>2
<1>10. iflag' \in BOOLEAN /\ gdt' \in BOOLEAN /\ remapped' \in BOOLEAN
  BY ZenonT(30) DEF Main, GdtInstall, IdtInstall, IsrsInstall, IrqInstall, TimerInstall, KeyboardInstall,
         SerialInstall, InstallHandler, EnableInterrupts, SetGates, IrqInvariant, TypeOK
<1>7. BootOrder'
  <2>1. CASE GdtInstall
    BY <1>1, <1>5, <2>1 DEF GdtInstall, Call, BootOrder, IrqInvariant, Booted
  <2>2. CASE IdtInstall
    BY <1>1, <1>5, <2>2 DEF IdtInstall, SetGates, Call, BootOrder, IrqInvariant, Booted
  <2>3. CASE IsrsInstall
    BY <1>1, <1>5, <2>3 DEF IsrsInstall, SetGates, Call, BootOrder, IrqInvariant, Booted
  <2>4. CASE IrqInstall
    BY <1>1, <1>5, <2>4 DEF IrqInstall, SetGates, Call, BootOrder, IrqInvariant, Booted
  <2>5. CASE TimerInstall \/ KeyboardInstall \/ SerialInstall
    <3>1. UNCHANGED <<gdt, idt, remapped, iflag, stack>> /\ step \in 5 .. 7 /\ step' = step + 1
      BY <2>5 DEF TimerInstall, KeyboardInstall, SerialInstall, InstallHandler, Call
    <3> QED BY <1>1, <1>5, <3>1 DEF BootOrder, IrqInvariant
  <2>6. CASE EnableInterrupts
    BY <1>1, <2>6 DEF EnableInterrupts, Call, BootOrder, IrqInvariant, Booted
  <2> QED BY <2>1, <2>2, <2>3, <2>4, <2>5, <2>6 DEF Main
<1>8. TypeOK'
  BY <1>1, <1>2, <1>3, <1>4, <1>6, <1>10 DEF IrqInvariant, TypeOK, Booted
<1>9. OneAtATime' /\ InServiceMatches'
  BY <1>1, <1>2 DEF OneAtATime, InServiceMatches
<1> QED BY <1>7, <1>8, <1>9 DEF IrqInvariant

\* Devices and the end of the shell.
LEMMA OutsideInv ==
    ASSUME IrqInvariant,
           \/ \E l \in Irqs : Raise(l)
           \/ \E l \in Withdrawable : Withdraw(l)
           \/ Exit
           \/ UNCHANGED vars
    PROVE  IrqInvariant'
<1>1. /\ UNCHANGED <<boot, stack, in1, in2, timer_counter>>
      /\ (UNCHANGED <<mode, iflag>>) \/ (mode' = "off" /\ iflag' = FALSE)
  BY DEF Raise, Withdraw, Exit, vars, pic
<1>2. irr' \in SUBSET Irqs /\ raised' \in [Irqs -> Nat]
  <2>1. CASE \E l \in Irqs : Raise(l)
    BY <2>1 DEF Raise, IrqInvariant, TypeOK
  <2>2. CASE UNCHANGED raised /\ irr' \subseteq irr
    BY <2>2 DEF IrqInvariant, TypeOK
  <2> QED BY <2>1, <2>2 DEF Withdraw, Exit, vars, pic
<1>3. TypeOK'
  BY <1>1, <1>2 DEF IrqInvariant, TypeOK, boot
<1>4. OneAtATime' /\ BootOrder'
  BY <1>1 DEF IrqInvariant, OneAtATime, BootOrder, boot, Running
<1>5. InServiceMatches'
  <2>1. Top' = Top /\ (Running' => Running)
    BY <1>1 DEF Top, Running
  <2> QED BY <1>1, <2>1 DEF IrqInvariant, InServiceMatches, IsIrq
<1> QED BY <1>3, <1>4, <1>5 DEF IrqInvariant

\* When a request is answered, main is through and nothing is in service.
LEMMA AtRest ==
    ASSUME IrqInvariant, Running, iflag
    PROVE  /\ stack = <<>> /\ in1 = {} /\ in2 = {} /\ step = Booted
           /\ gdt /\ remapped /\ 0 .. 47 \subseteq idt
<1>1. stack = <<>>
  BY DEF IrqInvariant, OneAtATime
<1>2. in1 = {} /\ in2 = {}
  BY <1>1 DEF IrqInvariant, InServiceMatches
<1>3. step = 9
  BY DEF IrqInvariant, BootOrder, Booted
<1>4. gdt /\ remapped /\ 0 .. 31 \subseteq idt /\ 32 .. 47 \subseteq idt
  BY <1>3 DEF IrqInvariant, BootOrder
<1>5. 0 .. 47 \subseteq idt
  BY <1>4
<1> QED BY <1>1, <1>2, <1>3, <1>4, <1>5 DEF Booted

\* A request always gets through its gate.
LEMMA RequestEnters ==
    ASSUME IrqInvariant, Running, iflag, NEW l \in Lines, NEW real \in BOOLEAN,
           Enter(Vector(l), real)
    PROVE  /\ mode' = "run" /\ ~iflag' /\ Vector(l) = 32 + l
           /\ stack' \in Seq(Frame) /\ Len(stack') = 1 /\ stack' # <<>>
           /\ Top'.vector = 32 + l /\ Top'.phase = "handler" /\ Top'.real = real
<1>1. gdt /\ remapped /\ 0 .. 47 \subseteq idt /\ stack = <<>>
  BY AtRest
<1>2. Vector(l) = 32 + l /\ Vector(l) \in 32 .. 47
  BY <1>1 DEF Vector, Lines
<1>3. mode' = "run"
  <2>1. Vector(l) \in idt /\ ~(Vector(l) < 32)
    <3>1. 0 .. 47 \subseteq idt
      BY <1>1
    <3> QED BY <1>2, <3>1
  <2>2. UNCHANGED mode
    BY <1>1, <2>1 DEF Enter
  <2> QED BY <2>2 DEF Running
<1>4. /\ ~iflag' /\ stack' \in Seq(Frame) /\ Len(stack') = 1 /\ stack' # <<>>
      /\ Top'.vector = Vector(l) /\ Top'.phase = "handler" /\ Top'.real = real
  <2>1. /\ iflag \in BOOLEAN /\ idt \in SUBSET ((0 .. 47) \cup {Syscall80})
        /\ mode \in {"run", "halted", "reset", "off"} /\ Vector(l) \in Int
    BY <1>2 DEF IrqInvariant, TypeOK
  <2> QED BY <1>1, <1>3, <2>1, EnterPushes
<1> QED BY <1>2, <1>3, <1>4

LEMMA AnswerInv ==
    ASSUME IrqInvariant, NEW l \in irr,
           Accept(l) \/ AcceptSpurious(l)
    PROVE  IrqInvariant' /\ mode' = "run"
<1>1. /\ Running /\ iflag /\ l \in Lines /\ l # Cascade
      /\ irr' = irr \ {l} /\ UNCHANGED <<boot, timer_counter, raised>>
  BY IrqAssumption DEF Accept, AcceptSpurious, IrqInvariant, TypeOK
<1>2. /\ stack = <<>> /\ in1 = {} /\ in2 = {} /\ step = Booted
  BY <1>1, AtRest
<1>3. CASE Accept(l)
  <2>1. Enter(Vector(l), TRUE)
    BY <1>3 DEF Accept
  <2>2. /\ mode' = "run" /\ ~iflag'
        /\ stack' \in Seq(Frame) /\ Len(stack') = 1 /\ stack' # <<>>
        /\ Top'.vector = 32 + l /\ Top'.phase = "handler" /\ Top'.real = TRUE
    BY <1>1, <2>1, RequestEnters
  <2>3. /\ in1' = {IF l < 8 THEN l ELSE Cascade}
        /\ in2' = IF l < 8 THEN {} ELSE {l}
    BY <1>2, <1>3 DEF Accept
  <2>4. TypeOK'
    <3>1. in1' \in SUBSET (0 .. 7) /\ in2' \in SUBSET (8 .. 15)
      BY <1>1, <2>3 DEF Lines, Cascade
    <3>2. iflag' \in BOOLEAN
      BY <2>1 DEF Enter, IrqInvariant, TypeOK
    <3> QED BY <1>1, <2>2, <3>1, <3>2 DEF IrqInvariant, TypeOK, boot
  <2>5. InServiceMatches'
    <3>1. IsIrq' /\ (Top'.vector - 32) = l
      BY <1>1, <2>2 DEF IsIrq, Lines, Syscall80
    <3>2. l < 8 <=> ~(l >= 8)
      BY <1>1 DEF Lines
    <3> QED BY <2>2, <2>3, <3>1, <3>2 DEF InServiceMatches
  <2>6. OneAtATime' /\ BootOrder'
    BY <1>1, <1>2, <2>2 DEF OneAtATime, BootOrder, IrqInvariant, boot, Running
  <2> QED BY <2>2, <2>4, <2>5, <2>6 DEF IrqInvariant
<1>4. CASE AcceptSpurious(l)
  <2> DEFINE last == IF l < 8 THEN 7 ELSE 15
  <2>1. Enter(Vector(last), FALSE) /\ last \in Lines
    <3>1. Enter(Vector(last), FALSE)
      BY <1>4, Zenon DEF AcceptSpurious
    <3>2. last \in Lines
      BY DEF Lines
    <3> QED BY <3>1, <3>2
  <2> HIDE DEF last
  <2>2. /\ mode' = "run" /\ ~iflag'
        /\ stack' \in Seq(Frame) /\ Len(stack') = 1 /\ stack' # <<>>
        /\ Top'.vector = 32 + last /\ Top'.phase = "handler" /\ Top'.real = FALSE
    BY <1>1, <2>1, RequestEnters
  <2>3. in1' = (IF l < 8 THEN {} ELSE {Cascade}) /\ in2' = {}
    BY <1>2, <1>4 DEF AcceptSpurious
  <2>4. TypeOK'
    <3>1. in1' \in SUBSET (0 .. 7) /\ in2' \in SUBSET (8 .. 15)
      BY <2>3 DEF Cascade
    <3>2. iflag' \in BOOLEAN
      BY <2>1 DEF Enter, IrqInvariant, TypeOK
    <3> QED BY <1>1, <2>2, <3>1, <3>2 DEF IrqInvariant, TypeOK, boot
  <2>5. InServiceMatches'
    <3>1. IsIrq' /\ (Top'.vector - 32) = last
      BY <2>1, <2>2 DEF IsIrq, Lines, Syscall80
    <3>2. l < 8 <=> ~(last >= 8)
      BY <1>1 DEF Lines, last
    <3> QED BY <2>2, <2>3, <3>1, <3>2 DEF InServiceMatches
  <2>6. OneAtATime' /\ BootOrder'
    BY <1>1, <1>2, <2>2 DEF OneAtATime, BootOrder, IrqInvariant, boot, Running
  <2> QED BY <2>2, <2>4, <2>5, <2>6 DEF IrqInvariant
<1> QED BY <1>3, <1>4

LEMMA TrapInv ==
    ASSUME IrqInvariant,
           Syscall \/ \E n \in Exceptions : Exception(n)
    PROVE  IrqInvariant' /\ irr' = irr
<1>1. Running /\ UNCHANGED <<boot, pic, timer_counter, raised>>
  BY DEF Syscall, Exception
<1>2. PICK v \in Int :
        Enter(v, FALSE) /\ (v < 32 \/ (v = Syscall80 /\ stack = <<>> /\ step = Booted))
  <2>1. CASE Syscall
    <3>1. Syscall80 \in Int
      BY DEF Syscall80
    <3> QED BY <2>1, <3>1 DEF Syscall
  <2>2. CASE \E n \in Exceptions : Exception(n)
    <3>1. \A n \in Exceptions : n \in Int /\ n < 32
      BY IrqAssumption
    <3> QED BY <2>2, <3>1 DEF Exception
  <2> QED BY <2>1, <2>2
<1>3. CASE mode' # "run"
  <2>1. /\ mode' \in {"halted", "reset"} /\ stack' = stack
        /\ iflag' = iflag \/ iflag' = FALSE
    BY <1>1, <1>2, <1>3, EnterStops DEF Running
  <2>2. TypeOK'
    BY <1>1, <2>1 DEF IrqInvariant, TypeOK, boot, pic
  <2>3. OneAtATime' /\ InServiceMatches'
    BY <1>3, <2>1 DEF IrqInvariant, OneAtATime, InServiceMatches, Running
  <2>4. BootOrder'
    BY <1>1, <2>1 DEF IrqInvariant, BootOrder, boot
  <2> QED BY <1>1, <2>2, <2>3, <2>4 DEF IrqInvariant, pic
<1>4. CASE mode' = "run"
  <2>1. ~(v < 32)
    BY <1>2, <1>4 DEF Enter
  <2>2. v = Syscall80 /\ stack = <<>> /\ step = Booted
    BY <1>2, <2>1
  <2>3. /\ ~iflag'
        /\ stack' \in Seq(Frame) /\ Len(stack') = 1 /\ stack' # <<>>
        /\ Top'.vector = v
    <3>1. /\ iflag \in BOOLEAN /\ idt \in SUBSET ((0 .. 47) \cup {Syscall80})
          /\ mode \in {"run", "halted", "reset", "off"} /\ FALSE \in BOOLEAN
      BY DEF IrqInvariant, TypeOK
    <3> QED BY <1>2, <1>4, <2>2, <3>1, EnterPushes
  <2>4. in1 = {} /\ in2 = {}
    BY <1>1, <2>2 DEF IrqInvariant, InServiceMatches
  <2>5. iflag' \in BOOLEAN
    BY <1>2 DEF Enter, IrqInvariant, TypeOK
  <2>6. TypeOK'
    BY <1>1, <1>4, <2>3, <2>5 DEF IrqInvariant, TypeOK, boot, pic
  <2>7. OneAtATime' /\ InServiceMatches'
    BY <1>1, <2>2, <2>3, <2>4 DEF OneAtATime, InServiceMatches, IsIrq, pic
  <2>8. BootOrder'
    BY <1>1, <2>2, <2>3 DEF IrqInvariant, BootOrder, boot
  <2> QED BY <1>1, <2>6, <2>7, <2>8 DEF IrqInvariant, pic
<1> QED BY <1>3, <1>4

\* The handler, its EOIs and the return.
LEMMA HandleInv ==
    ASSUME IrqInvariant, Handle
    PROVE  IrqInvariant' /\ mode' = "run"
<1>1. Running /\ stack # <<>> /\ UNCHANGED <<boot, mode, irr, raised>>
  BY DEF Handle, RunHandler, EoiSlave, EoiMaster, Iret, At, pic
<1>2. /\ Len(stack) = 1 /\ Top \in Frame /\ ~iflag /\ step = Booted
      /\ stack \in Seq(Frame)
  BY <1>1, OneFrame DEF IrqInvariant, TypeOK, BootOrder
<1>3. mode' = "run" /\ Running'
  BY <1>1 DEF Running
<1>4. in1' \in SUBSET (0 .. 7) /\ in2' \in SUBSET (8 .. 15)
  BY DEF Handle, RunHandler, EoiSlave, EoiMaster, Iret, Eoi, pic, IrqInvariant, TypeOK
<1>5. timer_counter' \in Nat
  <2>1. timer_counter \in Nat
    BY DEF IrqInvariant, TypeOK
  <2>2. timer_counter' = timer_counter \/ timer_counter' = timer_counter + 1
    BY DEF Handle, RunHandler, EoiSlave, EoiMaster, Iret
  <2> QED BY <2>1, <2>2
<1>6. ASSUME stack' \in Seq(Frame), iflag' \in BOOLEAN
      PROVE  TypeOK'
  BY <1>1, <1>4, <1>5, <1>6 DEF IrqInvariant, TypeOK, boot
<1>7. ASSUME NEW p \in {"handler", "slave", "master", "return"}, GoTo(p), UNCHANGED iflag
      PROVE  /\ TypeOK' /\ OneAtATime' /\ BootOrder'
             /\ stack' # <<>> /\ Top'.phase = p
             /\ Top'.vector = Top.vector /\ Top'.real = Top.real
  <2>1. /\ stack' \in Seq(Frame) /\ Len(stack') = 1 /\ stack' # <<>>
        /\ Top'.phase = p /\ Top'.vector = Top.vector /\ Top'.real = Top.real
    BY <1>2, <1>7, NewPhase
  <2>2. TypeOK'
    BY <1>6, <1>7, <2>1 DEF IrqInvariant, TypeOK
  <2>3. OneAtATime' /\ BootOrder'
    BY <1>1, <1>2, <1>7, <2>1 DEF OneAtATime, BootOrder, IrqInvariant, boot
  <2> QED BY <2>1, <2>2, <2>3
<1> DEFINE l == Top.vector - 32
<1>8. ASSUME IsIrq
      PROVE  /\ l \in Lines
             /\ in1 = IF Top.phase = "return" THEN {}
                      ELSE IF l >= 8 THEN {Cascade} ELSE IF Top.real THEN {l} ELSE {}
             /\ in2 = IF l >= 8 /\ Top.real /\ Top.phase \in {"handler", "slave"}
                      THEN {l} ELSE {}
  <2>1. l \in Lines
    BY <1>2, <1>8 DEF IsIrq, Frame, Lines
  <2> HIDE DEF l
  <2> QED BY <1>1, <1>8, <2>1 DEF IrqInvariant, InServiceMatches, l
<1>9. ~IsIrq => in1 = {} /\ in2 = {}
  BY <1>1 DEF IrqInvariant, InServiceMatches
<1>10. Eoi({}) = {} /\ (\A x \in Int : Eoi({x}) = {})
  BY DEF Eoi
<1>11. CASE RunHandler
  <2>1. /\ Top.phase = "handler" /\ GoTo(IF IsIrq THEN "slave" ELSE "return")
        /\ UNCHANGED <<iflag, in1, in2>>
    BY <1>11 DEF RunHandler, At, pic
  <2>2. CASE IsIrq
    <3>1. /\ TypeOK' /\ OneAtATime' /\ BootOrder' /\ stack' # <<>> /\ Top'.phase = "slave"
          /\ Top'.vector = Top.vector /\ Top'.real = Top.real
      BY <2>1, <2>2, <1>7
    <3>2. InServiceMatches'
      BY <1>8, <2>1, <2>2, <3>1 DEF InServiceMatches, IsIrq
    <3> QED BY <1>3, <3>1, <3>2 DEF IrqInvariant
  <2>3. CASE ~IsIrq
    <3>1. /\ TypeOK' /\ OneAtATime' /\ BootOrder' /\ stack' # <<>>
          /\ Top'.vector = Top.vector
      BY <2>1, <2>3, <1>7
    <3>2. InServiceMatches'
      BY <1>9, <2>1, <2>3, <3>1 DEF InServiceMatches, IsIrq
    <3> QED BY <1>3, <3>1, <3>2 DEF IrqInvariant
  <2> QED BY <2>2, <2>3
<1>12. CASE EoiSlave
  <2>1. /\ Top.phase = "slave" /\ GoTo("master") /\ UNCHANGED <<iflag, in1>>
        /\ in2' = IF Top.vector >= 40 THEN Eoi(in2) ELSE in2
    BY <1>12 DEF EoiSlave, At
  <2>2. /\ TypeOK' /\ OneAtATime' /\ BootOrder' /\ stack' # <<>> /\ Top'.phase = "master"
        /\ Top'.vector = Top.vector /\ Top'.real = Top.real
    BY <2>1, <1>7
  <2>3. InServiceMatches'
    <3>1. CASE IsIrq
      <4>1. in2' = {}
        <5>1. CASE l >= 8
          <6>1. Top.vector >= 40 /\ l \in Int
            BY <5>1, <1>8, <3>1, <1>2 DEF Lines, Frame, Syscall80
          <6>2. in2 = {} \/ in2 = {l}
            BY <1>8, <3>1
          <6> QED BY <2>1, <6>1, <6>2, <1>10
        <5>2. CASE ~(l >= 8)
          BY <5>2, <2>1, <1>8, <1>10, <3>1
        <5> QED BY <5>1, <5>2
      <4> QED BY <1>8, <2>1, <2>2, <3>1, <4>1 DEF InServiceMatches, IsIrq
    <3>2. CASE ~IsIrq
      BY <1>9, <1>10, <2>1, <2>2, <3>2 DEF InServiceMatches, IsIrq
    <3> QED BY <3>1, <3>2
  <2> QED BY <1>3, <2>2, <2>3 DEF IrqInvariant
<1>13. CASE EoiMaster
  <2>1. /\ Top.phase = "master" /\ GoTo("return") /\ UNCHANGED <<iflag, in2>>
        /\ in1' = Eoi(in1)
    BY <1>13 DEF EoiMaster, At
  <2>2. /\ TypeOK' /\ OneAtATime' /\ BootOrder' /\ stack' # <<>> /\ Top'.phase = "return"
        /\ Top'.vector = Top.vector /\ Top'.real = Top.real
    BY <2>1, <1>7
  <2>3. InServiceMatches'
    <3>1. CASE IsIrq
      <4>1. in1' = {}
        <5>1. l \in Int /\ Cascade \in Int
          BY <1>8, <3>1 DEF Lines, Cascade
        <5>2. in1 = {} \/ in1 = {l} \/ in1 = {Cascade}
          BY <1>8, <3>1
        <5> HIDE DEF l
        <5> QED BY <2>1, <5>1, <5>2, <1>10
      <4> QED BY <1>8, <2>1, <2>2, <3>1, <4>1 DEF InServiceMatches, IsIrq
    <3>2. CASE ~IsIrq
      BY <1>9, <1>10, <2>1, <2>2, <3>2 DEF InServiceMatches, IsIrq
    <3> QED BY <3>1, <3>2
  <2> QED BY <1>3, <2>2, <2>3 DEF IrqInvariant
<1>14. CASE Iret
  <2>1. /\ Top.phase = "return" /\ iflag' = Top.flag /\ UNCHANGED <<in1, in2>>
        /\ stack' = SubSeq(stack, 1, Len(stack) - 1)
    BY <1>14 DEF Iret, At, pic
  <2>2. stack' = <<>>
    BY <1>2, <2>1
  <2>3. iflag' \in BOOLEAN
    BY <1>2, <2>1 DEF Frame
  <2>4. TypeOK'
    <3>1. stack' \in Seq(Frame)
      BY <2>2
    <3> QED BY <1>6, <2>3, <3>1
  <2>5. in1' = {} /\ in2' = {}
    BY <1>8, <1>9, <2>1
  <2>6. OneAtATime' /\ InServiceMatches'
    BY <2>2, <2>5 DEF OneAtATime, InServiceMatches
  <2>7. BootOrder'
    BY <1>1, <1>2, <2>2 DEF BootOrder, IrqInvariant, boot
  <2> QED BY <1>3, <2>4, <2>6, <2>7 DEF IrqInvariant
<1> QED BY <1>11, <1>12, <1>13, <1>14 DEF Handle

-----------------------------------------------------------------------------
LEMMA IrqStep ==
    ASSUME IrqInvariant, [Next]_vars
    PROVE  IrqInvariant'
<1>1. CASE Main
  BY <1>1, MainInv
<1>2. CASE Answer \/ (\E l \in Next1 \cap Withdrawable : AcceptSpurious(l))
  <2>1. \A l \in Next1 : l \in irr
    BY DEF Next1
  <2> QED BY <1>2, <2>1, AnswerInv DEF Answer
<1>3. CASE Handle
  BY <1>3, HandleInv
<1>4. CASE Syscall \/ \E n \in Exceptions : Exception(n)
  BY <1>4, TrapInv
<1>5. CASE \/ \E l \in Irqs : Raise(l)
           \/ \E l \in Withdrawable : Withdraw(l)
           \/ Exit
           \/ UNCHANGED vars
  BY <1>5, OutsideInv
<1> QED BY <1>1, <1>2, <1>3, <1>4, <1>5 DEF Next

LEMMA IrqAlways == Spec => []IrqInvariant
  BY InitInv, IrqStep, PTL DEF Spec

\* Controllers, gates and stack keep their types.
THEOREM InterruptTypes == Spec => []TypeOK
<1>1. IrqInvariant => TypeOK
  BY DEF IrqInvariant
<1> QED BY <1>1, IrqAlways, PTL

\* No interrupt is taken inside another one.
THEOREM InterruptsDoNotNest == Spec => []OneAtATime
<1>1. IrqInvariant => OneAtATime
  BY DEF IrqInvariant
<1> QED BY <1>1, IrqAlways, PTL

\* irq_handler's two EOIs end the interrupt that was handled and no other,
\* whether the request stood or fell away while it was answered.
THEOREM EoiEndsOwnInterrupt == Spec => []InServiceMatches
<1>1. IrqInvariant => InServiceMatches
  BY DEF IrqInvariant
<1> QED BY <1>1, IrqAlways, PTL

\* A device's request never stops the machine: every table it needs is set up
\* before main enables interrupts.
THEOREM DevicesNeverStop == Spec => IrqNeverStops
<1> DEFINE Kept == mode' \in {"halted", "reset"} /\ Running => irr' = irr
<1>1. IrqInvariant /\ [Next]_vars => [Kept]_vars
  <2> SUFFICES ASSUME IrqInvariant, Next, mode' \in {"halted", "reset"}, Running
               PROVE  irr' = irr
    OBVIOUS
  <2>1. CASE Main
    BY <2>1 DEF Main, GdtInstall, IdtInstall, IsrsInstall, IrqInstall, TimerInstall,
         KeyboardInstall, SerialInstall, InstallHandler, EnableInterrupts, SetGates, Running
  <2>2. CASE Answer \/ (\E l \in Next1 \cap Withdrawable : AcceptSpurious(l))
    <3>1. \A l \in Next1 : l \in irr
      BY DEF Next1
    <3>2. mode' = "run"
      BY <2>2, <3>1, AnswerInv DEF Answer
    <3> QED BY <3>2
  <2>3. CASE Handle
    <3>1. mode' = "run"
      BY <2>3, HandleInv
    <3> QED BY <3>1
  <2>4. CASE Syscall \/ \E n \in Exceptions : Exception(n)
    BY <2>4, TrapInv
  <2>5. CASE \/ \E l \in Irqs : Raise(l)
             \/ \E l \in Withdrawable : Withdraw(l)
             \/ Exit
    BY <2>5 DEF Raise, Withdraw, Exit, Running
  <2> QED BY <2>1, <2>2, <2>3, <2>4, <2>5 DEF Next
<1> QED BY <1>1, IrqAlways, PTL DEF Spec, IrqNeverStops
=============================================================================
