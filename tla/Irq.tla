--------------------------------- MODULE Irq ---------------------------------
(***************************************************************************)
(* Hardware interrupts from the device's line to the acknowledgement: the  *)
(* two 8259 controllers as pic.c programs them, the gates of idt.c, the    *)
(* common handler of interrupt_handlers.s and interrupt.c, and the loop of *)
(* keyboard_handler that empties the 8042.  The main program is any code   *)
(* that runs with interrupts on or, between cli and sti, off, and that may *)
(* come to an instruction that faults; non-maskable interrupts arrive at   *)
(* any time.  A frame holds the words of one interrupt on the stack, the   *)
(* top first, as the CPU, the stubs and the common handler push them.      *)
(*                                                                         *)
(* Line 1 is high exactly while the 8042 holds a byte.  Lines 8 to 15 are  *)
(* on the second controller, which hangs on line 2 of the first.           *)
(***************************************************************************)
EXTENDS Integers, Sequences, FiniteSets

CONSTANTS Device,      \* the lines, other than the keyboard's, in use
          BiosMask,    \* the lines the BIOS left masked
          EarlyKey,    \* a byte may wait in the 8042 before pic_remap
          Exception,   \* the exceptions the main program may run into
          MaxDepth     \* bounds how deep interrupt handlers can nest

Kbd == 1
Cascade == 2
Line == Device \cup {Kbd}
Slave == 8 .. 15

ASSUME IrqAssumption == /\ Device \subseteq (0..15) \ {Kbd, Cascade}
                        /\ BiosMask \subseteq Device
                        /\ EarlyKey \in BOOLEAN
                        /\ Exception \subseteq {0} \cup 5..8 \cup 10..14 \cup {16, 17, 19}
                        /\ MaxDepth \in Nat \ {0}

VARIABLES high,    \* the lines that are high
          req,     \* IRR: the lines whose edge has been latched
          srv,     \* ISR: the lines in service, Cascade among them
          mask,    \* IMR
          ifl,     \* the CPU's interrupt flag
          stack,   \* the interrupted handlers' frames, innermost last
          at       \* how far the main program is

vars == <<high, req, srv, mask, ifl, stack, at>>
pics == <<high, req, srv, mask>>

\* struct stack_state, struct cpu_state and the parameters of
\* interrupt_handler, in the order of their addresses.
StackState == <<"eip", "cs", "eflags">>
CpuState == <<"edi", "esi", "ebp", "esp", "ebx", "edx", "ecx", "eax">>
Parameters == CpuState \o <<"interrupt", "error_code">> \o StackState

Frame == [vector : 0..255, stage : {"stub", "drain", "ack", "iret"},
          words : Seq({Parameters[n] : n \in 1..Len(Parameters)}),
          ifl : BOOLEAN]
Top == stack[Len(stack)]
InHandler(stage) == stack # <<>> /\ Top.stage = stage
GoOn(stage) == stack' = [stack EXCEPT ![Len(stack)].stage = stage]

Nmi == 2

\* What pushad leaves on top of the stack.
Pushad == <<"edi", "esi", "ebp", "esp", "ebx", "edx", "ecx", "eax">>

\* What the CPU pushes: these exceptions come with an error code.
Delivered(v) ==
  (IF v \in {8, 17} \cup 10..14 THEN <<"error_code">> ELSE <<>>)
    \o <<"eip", "cs", "eflags">>

\* Fault: the double fault's stub is made by the other macro.
StubWrong(v) ==
  <<"interrupt">> \o (IF v \in 10..14 \cup {17} THEN <<>> ELSE <<"error_code">>)

\* What the stub of a vector adds: error_code_interrupt_handler pushes the
\* number, no_error_code_interrupt_handler a 0 before it.
Stub(v) ==
  <<"interrupt">> \o (IF v \in {8, 17} \cup 10..14 THEN <<>> ELSE <<"error_code">>)

\* popad, and the number and the error code (add esp, 8).
Unwound(words) == SubSeq(words, Len(Pushad) + 3, Len(words))

\* PIC1_START_INTERRUPT and PIC2_START_INTERRUPT are consecutive.
Vector(i) == 32 + i

\* The fully nested order: line 2 stands for the whole second controller.
Rank(i) == IF i \in Slave THEN 20 + i ELSE IF i < 2 THEN i ELSE 40 + i

\* Fault: ICW3 names another line for the second controller.
ParentWrong(i) == IF i \in Slave THEN Cascade + 1 ELSE i

\* ICW3: the second controller hangs on line 2.
Parent(i) == IF i \in Slave THEN Cascade ELSE i

Highest(S) == {i \in S : \A j \in S : Rank(i) <= Rank(j)}

-----------------------------------------------------------------------------
Init == /\ high = {}
        /\ req = {}
        /\ srv = {}
        /\ mask = BiosMask
        /\ ifl = FALSE
        /\ stack = <<>>
        /\ at = "remap"

\* ICW1 resets the edge detectors and clears the masks.
Icw1 == /\ at = "remap"
        /\ at' = "masks"
        /\ req' = {}
        /\ srv' = {}
        /\ mask' = {}
        /\ UNCHANGED <<high, ifl, stack>>

\* pic_remap ends by restoring the masks it read first.
RestoreMasks == /\ at = "masks"
                /\ at' = "sti"
                /\ mask' = BiosMask
                /\ UNCHANGED <<high, req, srv, ifl, stack>>

\* kmain enables interrupts after idt_initialize.
Sti == /\ at = "sti"
       /\ at' = "run"
       /\ ifl' = TRUE
       /\ UNCHANGED <<pics, stack>>

\* The main program's critical sections.
MainCli == /\ at = "run"
           /\ stack = <<>>
           /\ ifl
           /\ ifl' = FALSE
           /\ UNCHANGED <<pics, stack, at>>

MainSti == /\ at = "run"
           /\ stack = <<>>
           /\ ~ifl
           /\ ifl' = TRUE
           /\ UNCHANGED <<pics, stack, at>>

-----------------------------------------------------------------------------
(* The devices and the controllers.                                         *)
\* Places at which the IDT is loaded and interrupts have been enabled; stuck
\* and hung are at an instruction that faults, with interrupts on and off.
Running == {"run", "stuck", "hung"}

\* Only a rising edge is latched.
Raise(i) == /\ i \notin high
            /\ high' = high \cup {i}
            /\ req' = req \cup {i}
            /\ UNCHANGED <<srv, mask, ifl, stack, at>>

\* Some controllers forget an edge whose line falls, others keep it.
Lower(i) == /\ high' = high \ {i}
            /\ req' \in {req, req \ {i}}

\* A scan code arrives in an empty output buffer.
KeyByte == /\ EarlyKey \/ at # "remap"
           /\ Raise(Kbd)

\* A device interrupts again only when its last interrupt is over.
DeviceRaise(i) == /\ \A n \in 1..Len(stack) : stack[n].vector # Vector(i)
                  /\ Raise(i)

DeviceLower(i) == /\ i \in high
                  /\ Lower(i)
                  /\ UNCHANGED <<srv, mask, ifl, stack, at>>

\* Nothing of at least i's rank is in service where i would be served.
Free(i) == /\ \A j \in srv \cap Slave : i \in Slave => j > i
           /\ \A j \in srv \ Slave : Rank(j) > Rank(Parent(i)) /\ j # Parent(i)

Asking == {i \in req \ mask : Free(i)}

\* Fault: a trap gate (type_attr 0x8F) leaves interrupts on.
TrapGate(v) == ifl

\* Entries 0 to 47 of the IDT are interrupt gates (type_attr 0x8E).
GateFlag(v) == v \notin 0..47 /\ ifl

Deliver(v) == /\ Len(stack) < MaxDepth
              /\ stack' = Append(stack, [vector |-> v, stage |-> "stub",
                                         words |-> Delivered(v), ifl |-> ifl])
              /\ ifl' = GateFlag(v)

\* A maskable interrupt.
Interrupt(v) == ifl /\ Deliver(v)

\* The CPU acknowledges the most urgent request.
Inta(i) == /\ i \in Highest(Asking)
           /\ Interrupt(Vector(i))
           /\ req' = req \ {i}
           /\ srv' = srv \cup {i, Parent(i)}
           /\ UNCHANGED <<high, mask, at>>

\* The request went away before the acknowledgement: the controller answers
\* with its last line and puts nothing in service.
Spurious == /\ at \in Running
            /\ \/ Interrupt(Vector(7)) /\ UNCHANGED srv
               \/ Interrupt(Vector(15)) /\ srv' = srv \cup {Cascade}
            /\ UNCHANGED <<high, req, mask, at>>

\* The flag does not stop it, and until its iret there is no other.
NonMaskable == /\ at \in Running
               /\ \A n \in 1..Len(stack) : stack[n].vector # Nmi
               /\ Deliver(Nmi)
               /\ UNCHANGED <<pics, at>>

\* An instruction of the main program faults.  Nothing repairs the cause, so
\* the program goes no further, within a critical section or outside one.
MainFault(v) == /\ at \in Running
                /\ stack = <<>>
                /\ Deliver(v)
                /\ at' = IF ifl THEN "stuck" ELSE "hung"
                /\ UNCHANGED pics

-----------------------------------------------------------------------------
(* interrupt_handler, from the common stub to iret.                         *)
\* Fault: KEYBOARD_INTERRUPT is the number of the line.
CaseOfLine(v) == IF v = Kbd THEN "drain" ELSE "ack"

\* The switch of interrupt_handler: KEYBOARD_INTERRUPT is 33.
CaseOf(v) == IF v = Vector(Kbd) THEN "drain" ELSE "ack"

\* The stub, pushad, the call and the switch.
Dispatch == /\ InHandler("stub")
            /\ stack' = [stack EXCEPT
                 ![Len(stack)].stage = CaseOf(Top.vector),
                 ![Len(stack)].words = Pushad \o Stub(Top.vector) \o @]
            /\ UNCHANGED <<pics, ifl, at>>

\* keyboard_handler reads while the 8042 holds a byte.
ReadByte == /\ InHandler("drain")
            /\ Kbd \in high
            /\ Lower(Kbd)
            /\ UNCHANGED <<srv, mask, ifl, stack, at>>

Drained == /\ InHandler("drain")
           /\ Kbd \notin high
           /\ GoOn("ack")
           /\ UNCHANGED <<pics, ifl, at>>

\* A non-specific EOI ends the most urgent interrupt of a controller.
Eoi(S) == S \ Highest(S)

\* Fault: only the first controller is told.
AckMaster(v) == (srv \cap Slave) \cup Eoi(srv \ Slave)

\* What pic_acknowledge leaves in service.
Ack(v) == IF v \notin 32..47 THEN srv
          ELSE (IF v >= Vector(8) THEN Eoi(srv \cap Slave) ELSE srv \cap Slave)
                 \cup Eoi(srv \ Slave)

\* pic_acknowledge, and the way back to iret.
Acknowledge == /\ InHandler("ack")
               /\ srv' = Ack(Top.vector)
               /\ stack' = [stack EXCEPT ![Len(stack)].stage = "iret",
                                          ![Len(stack)].words = Unwound(@)]
               /\ UNCHANGED <<high, req, mask, ifl, at>>

Iret == /\ InHandler("iret")
        /\ ifl' = Top.ifl
        /\ stack' = SubSeq(stack, 1, Len(stack) - 1)
        /\ UNCHANGED <<pics, at>>

-----------------------------------------------------------------------------
Boot == Icw1 \/ RestoreMasks \/ Sti
Handler == Dispatch \/ ReadByte \/ Drained \/ Acknowledge \/ Iret

Next == \/ Boot
        \/ MainCli
        \/ MainSti
        \/ KeyByte
        \/ \E i \in Device : DeviceRaise(i) \/ DeviceLower(i)
        \/ \E i \in Line : Inta(i)
        \/ Spurious
        \/ NonMaskable
        \/ \E v \in Exception : MainFault(v)
        \/ Handler

\* Handlers are straight-line code, and no critical section lasts for ever.
\* The CPU takes a request at the first instruction at which the flag is set
\* and none is more urgent, so it cannot be passed over for ever.  The
\* keyboard sends bytes slower than the handler reads them.
\* Non-maskable interrupts come far apart: what they interrupt goes on.
Fairness == /\ WF_vars(Boot)
            /\ WF_vars(Handler)
            /\ SF_vars(stack # <<>> /\ Top.vector # Nmi /\ Handler)
            /\ SF_vars(MainSti)
            /\ \A i \in Line : SF_vars(Inta(i))
            /\ SF_vars(Drained)

Spec == Init /\ [][Next]_vars /\ Fairness

-----------------------------------------------------------------------------
(* Every variable keeps its type.                                           *)
TypeOK == /\ high \subseteq Line
          /\ req \subseteq Line
          /\ srv \subseteq Line \cup {Cascade}
          /\ mask \subseteq Line
          /\ ifl \in BOOLEAN
          /\ stack \in Seq(Frame) /\ Len(stack) <= MaxDepth
          /\ at \in {"remap", "masks", "sti"} \cup Running

(* A handler is never interrupted but by a non-maskable interrupt: every    *)
(* gate clears the flag (0x8E in idt.c:122-171), those of the exceptions    *)
(* too, and only iret gives it back.                                        *)
NoNesting == \A n \in 2..Len(stack) : stack[n].vector = Nmi

(* When no device's handler runs nothing is in service, so no line is shut  *)
(* out: each interrupt, a spurious one too, is acknowledged at each         *)
(* controller that is waiting for it, once, and an exception at none        *)
(* (pic.c:71-84, interrupt.c:48).                                           *)
NothingInService ==
  (\A n \in 1..Len(stack) : stack[n].vector < Vector(0)) => srv = {}

(* interrupt_handler finds every parameter where its declaration has it,    *)
(* and iret finds what the CPU pushed on top of the stack, whichever macro  *)
(* made the stub and whether or not the vector comes with an error code     *)
(* (interrupt_handlers.s:26-84, interrupt.h:13-39).                         *)
FrameBalanced ==
  \A n \in 1..Len(stack) :
    /\ stack[n].stage \in {"drain", "ack"} => stack[n].words = Parameters
    /\ stack[n].stage = "iret" => stack[n].words = StackState

(* Handling an interrupt never ends the service of another one.             *)
OwnServiceOnly ==
  [][\A i \in srv \ srv' : stack # <<>> =>
       i \in {Top.vector - 32, Parent(Top.vector - 32)}]_vars

(* The keyboard never goes dead: a byte in the 8042 is always read in the   *)
(* end, as the line must fall before another edge can be seen               *)
(* (keyboard.c:67-70); kmain.c:65-66 says interrupts of the hardware are    *)
(* received from sti on.  An instruction that faults again and again        *)
(* (interrupt.c:42-44) does not change that, unless interrupts were off.    *)
KeyboardAlive ==
  (at \in Running /\ Kbd \in high) ~> (Kbd \notin high \/ at = "hung")
=============================================================================
