------------------------------ MODULE IrqProofs ------------------------------
(***************************************************************************)
(* For every set of devices, mask the BIOS left and bound on nesting: only *)
(* a non-maskable interrupt interrupts a handler, each interrupt's service *)
(* is over when its handler is and ends no other one, and the stack is     *)
(* unwound to what the CPU pushed on every way through the handler.        *)
(***************************************************************************)
EXTENDS Irq, SequenceTheorems, TLAPS

-----------------------------------------------------------------------------
(* The inductive invariant.                                                 *)

\* What a frame holds at each stage of its handler.
Good(f) == /\ f.vector \in 0..47
           /\ f.stage = "stub" => f.words = Delivered(f.vector)
           /\ f.stage \in {"drain", "ack"} => f.words = Parameters
           /\ f.stage = "iret" => f.words = StackState

FrameInv == \A n \in 1..Len(stack) : Good(stack[n])

\* Handlers run with interrupts off, and so return to one another.
NestInv == /\ stack # <<>> => ~ifl
           /\ Len(stack) <= 2
           /\ Len(stack) = 2 => stack[2].vector = Nmi /\ ~stack[2].ifl

\* Before sti nothing interrupts.
BootInv == at \notin Running => stack = <<>> /\ ~ifl

\* What a vector's delivery puts in service: for those of the spurious
\* lines there are two possibilities.
InService(v) == IF v < 32 THEN {{}}
                ELSE {{v - 32, Parent(v - 32)}}
                       \cup (IF v = 39 THEN {{}} ELSE {})
                       \cup (IF v = 47 THEN {{Cascade}} ELSE {})

\* Only the outermost interrupt can be one of a device.
ServiceInv == IF stack = <<>> THEN srv = {}
              ELSE IF stack[1].stage = "iret" THEN srv = {}
              ELSE srv \in InService(stack[1].vector)

IInv == TypeOK /\ FrameInv /\ NestInv /\ BootInv /\ ServiceInv

-----------------------------------------------------------------------------
(* The words of a frame.                                                    *)

Name == {"edi", "esi", "ebp", "esp", "ebx", "edx", "ecx", "eax",
         "interrupt", "error_code", "eip", "cs", "eflags"}

\* What the handler has pushed when it calls interrupt_handler.
Saved == Pushad \o <<"interrupt", "error_code">>

(* Dropping a prefix of a sequence leaves the rest.                         *)
LEMMA DropPrefix ==
  ASSUME NEW S, NEW p \in Seq(S), NEW s \in Seq(S)
  PROVE  SubSeq(p \o s, Len(p) + 1, Len(p \o s)) = s
<1> DEFINE q == p \o s
           m == Len(p) + 1
           n == Len(p) + Len(s)
<1>1. /\ q \in Seq(S)
      /\ Len(q) = n
      /\ \A i \in 1 .. n : q[i] = IF i <= Len(p) THEN p[i] ELSE s[i - Len(p)]
  BY ConcatProperties
<1>2. Len(p) \in Nat /\ Len(s) \in Nat
  OBVIOUS
<1>3. m \in Int /\ n \in Int
  BY <1>2
<1>4. \A i \in m..n : q[i] \in S
  BY <1>1, <1>2, ElementOfSeq
<1> DEFINE rest == SubSeq(q, m, n)
<1> HIDE DEF q
<1>5. /\ rest \in Seq(S)
      /\ Len(rest) = IF m <= n THEN n - m + 1 ELSE 0
      /\ \A i \in 1 .. n - m + 1 : rest[i] = q[m + i - 1]
  <2> HIDE DEF m, n
  <2>1. QED
    BY <1>3, <1>4, SubSeqProperties
<1> HIDE DEF rest
<1>6. Len(rest) = Len(s)
  BY <1>2, <1>5
<1>7. \A i \in 1..Len(s) : rest[i] = s[i]
  <2>1. TAKE i \in 1..Len(s)
  <2>2. m + i - 1 = Len(p) + i /\ i \in 1 .. n - m + 1 /\ Len(p) + i \in 1..n
    BY <1>2
  <2>3. rest[i] = q[Len(p) + i]
    BY <1>5, <2>2
  <2>4. ~(Len(p) + i <= Len(p)) /\ Len(p) + i - Len(p) = i
    BY <1>2
  <2>5. q[Len(p) + i] = s[i]
    <3> HIDE DEF m, n
    <3>1. Len(p) + i \in 1..n
      BY <2>2
    <3>2. q[Len(p) + i] = IF Len(p) + i <= Len(p) THEN p[Len(p) + i]
                          ELSE s[Len(p) + i - Len(p)]
      BY <1>1, <3>1
    <3>3. QED
      BY <2>4, <3>2
  <2>6. QED
    BY <2>3, <2>5
<1>8. rest = s
  BY <1>5, <1>6, <1>7, SeqEqual
<1>9. QED
  BY <1>1, <1>8 DEF q, rest

LEMMA PushadIs ==
  /\ Pushad \in Seq(Name) /\ Len(Pushad) = 8
  /\ Pushad[1] = "edi" /\ Pushad[2] = "esi" /\ Pushad[3] = "ebp"
  /\ Pushad[4] = "esp" /\ Pushad[5] = "ebx" /\ Pushad[6] = "edx"
  /\ Pushad[7] = "ecx" /\ Pushad[8] = "eax"
  BY DEF Pushad, Name

LEMMA SavedIs ==
  /\ Saved \in Seq(Name) /\ Len(Saved) = 10
  /\ \A i \in 1..8 : Saved[i] = Pushad[i]
  /\ Saved[9] = "interrupt" /\ Saved[10] = "error_code"
<1> DEFINE two == <<"interrupt", "error_code">>
<1>1. /\ two \in Seq(Name) /\ Len(two) = 2
      /\ two[1] = "interrupt" /\ two[2] = "error_code"
  BY DEF Name
<1> HIDE DEF two
<1>2. /\ Pushad \o two \in Seq(Name)
      /\ Len(Pushad \o two) = Len(Pushad) + Len(two)
      /\ \A i \in 1 .. Len(Pushad) + Len(two) : (Pushad \o two)[i] =
           IF i <= Len(Pushad) THEN Pushad[i] ELSE two[i - Len(Pushad)]
  BY <1>1, PushadIs, ConcatProperties
<1>3. QED
  BY <1>1, <1>2, PushadIs DEF Saved, two

LEMMA StackStateIs ==
  /\ StackState \in Seq(Name) /\ Len(StackState) = 3
  /\ StackState[1] = "eip" /\ StackState[2] = "cs" /\ StackState[3] = "eflags"
  BY DEF StackState, Name

LEMMA ParametersAre ==
  /\ Parameters = Saved \o StackState
  /\ Parameters \in Seq(Name) /\ Len(Parameters) = 13
  /\ \A i \in 1..10 : Parameters[i] = Saved[i]
  /\ \A i \in 1..3 : Parameters[10 + i] = StackState[i]
<1>1. Parameters = Saved \o StackState
  BY DEF Parameters, CpuState, Saved, Pushad, StackState
<1> DEFINE whole == Saved \o StackState
<1>2. /\ whole \in Seq(Name)
      /\ Len(whole) = Len(Saved) + Len(StackState)
      /\ \A i \in 1 .. Len(Saved) + Len(StackState) : whole[i] =
           IF i <= Len(Saved) THEN Saved[i] ELSE StackState[i - Len(Saved)]
  BY SavedIs, StackStateIs, ConcatProperties
<1> HIDE DEF whole
<1>3. whole = Parameters
  BY <1>1 DEF whole
<1>4. Len(Saved) = 10 /\ Len(StackState) = 3
  BY SavedIs, StackStateIs
<1>5. \A i \in 1..10 : whole[i] = Saved[i]
  BY <1>2, <1>4
<1>6. \A i \in 1..3 : whole[10 + i] = StackState[i]
  <2>1. TAKE i \in 1..3
  <2>2. 10 + i \in 1 .. Len(Saved) + Len(StackState) /\ ~(10 + i <= Len(Saved))
    BY <1>4
  <2>3. 10 + i - Len(Saved) = i
    BY <1>4
  <2>4. QED
    BY <1>2, <2>2, <2>3
<1>7. Parameters \in Seq(Name) /\ Len(Parameters) = 13
  BY <1>2, <1>3, <1>4
<1>8. /\ \A i \in 1..10 : Parameters[i] = Saved[i]
      /\ \A i \in 1..3 : Parameters[10 + i] = StackState[i]
  BY <1>3, <1>5, <1>6
<1>9. QED
  BY <1>1, <1>7, <1>8

(* popad and the addition to esp leave what the CPU pushed.                 *)
LEMMA UnwoundIs == Unwound(Parameters) = StackState
<1>1. Len(Pushad) + 3 = Len(Saved) + 1
  BY SavedIs, PushadIs
<1>2. QED
  BY <1>1, DropPrefix, ParametersAre, SavedIs, StackStateIs DEF Unwound

(* The stub makes up for the error code that some vectors come without.     *)
LEMMA StubIs ==
  ASSUME NEW v \in 0..255
  PROVE  Pushad \o Stub(v) \o Delivered(v) = Parameters
<1>1. CASE v \in {8, 17} \cup 10..14
  BY <1>1 DEF Pushad, Stub, Delivered, Parameters, CpuState, StackState
<1>2. CASE v \notin {8, 17} \cup 10..14
  BY <1>2 DEF Pushad, Stub, Delivered, Parameters, CpuState, StackState
<1>3. QED
  BY <1>1, <1>2

Words == Seq({Parameters[n] : n \in 1..Len(Parameters)})

(* Every frame's words are words of a whole frame.                          *)
LEMMA WordsAre ==
  /\ Parameters \in Words /\ StackState \in Words
  /\ \A v \in 0..255 : Delivered(v) \in Words
<1> DEFINE R == {Parameters[n] : n \in 1..Len(Parameters)}
<1>1. \A x \in Name : \E n \in 1..13 : Parameters[n] = x
  <2>1. /\ Parameters[1] = "edi" /\ Parameters[2] = "esi"
        /\ Parameters[3] = "ebp" /\ Parameters[4] = "esp"
        /\ Parameters[5] = "ebx" /\ Parameters[6] = "edx"
        /\ Parameters[7] = "ecx" /\ Parameters[8] = "eax"
    <3>1. \A i \in 1..8 : Parameters[i] = Pushad[i]
      <4>1. TAKE i \in 1..8
      <4>2. i \in 1..10
        OBVIOUS
      <4>3. QED
        BY <4>2, ParametersAre, SavedIs
    <3>2. QED
      BY <3>1, PushadIs
  <2>2. /\ Parameters[9] = "interrupt" /\ Parameters[10] = "error_code"
        /\ Parameters[11] = "eip" /\ Parameters[12] = "cs"
        /\ Parameters[13] = "eflags"
    <3>1. Parameters[9] = Saved[9] /\ Parameters[10] = Saved[10]
      <4>1. 9 \in 1..10 /\ 10 \in 1..10
        OBVIOUS
      <4>2. QED
        BY <4>1, ParametersAre, Zenon
    <3>2. \A i \in 1..3 : Parameters[10 + i] = StackState[i]
      BY ParametersAre
    <3>3. QED
      BY <3>1, <3>2, SavedIs, StackStateIs
  <2>3. QED
    BY <2>1, <2>2 DEF Name
<1>2. Name \subseteq R
  BY <1>1, ParametersAre
<1>3. \A s \in Seq(Name) : s \in Words
  <2>1. TAKE s \in Seq(Name)
  <2>2. s \in [1..Len(s) -> Name] /\ Len(s) \in Nat
    BY LenProperties
  <2> HIDE DEF R
  <2>3. s \in [1..Len(s) -> R]
    BY <1>2, <2>2
  <2>4. s \in Seq(R)
    BY <2>2, <2>3, SeqDef
  <2>5. QED
    BY <2>4 DEF Words, R
<1>4. \A v \in 0..255 : Delivered(v) \in Seq(Name)
  BY DEF Delivered, Name
<1>5. QED
  BY <1>3, <1>4, ParametersAre, StackStateIs

-----------------------------------------------------------------------------
(* The stack of frames.                                                     *)

(* A frame that is pushed is a good one, over frames that stay.             *)
LEMMA Pushed ==
  ASSUME TypeOK, FrameInv, NEW v \in 0..47, Deliver(v)
  PROVE  /\ stack' \in Seq(Frame) /\ stack' # <<>>
         /\ Len(stack') = Len(stack) + 1 /\ Len(stack') <= MaxDepth
         /\ FrameInv'
         /\ ifl' = FALSE
         /\ \A n \in 1..Len(stack) : stack'[n] = stack[n]
         /\ stack'[Len(stack')].vector = v
         /\ stack'[Len(stack')].stage = "stub"
         /\ stack'[Len(stack')].ifl = ifl
<1> DEFINE f == [vector |-> v, stage |-> "stub", words |-> Delivered(v),
                 ifl |-> ifl]
<1>1. f \in Frame
  <2>1. Delivered(v) \in Words
    BY WordsAre
  <2>2. QED
    BY <2>1 DEF Frame, TypeOK, Words
<1>2. Good(f)
  BY DEF Good
<1>3. stack' = Append(stack, f) /\ ifl' = FALSE /\ Len(stack) < MaxDepth
  BY DEF Deliver, GateFlag
<1>4. f.vector = v /\ f.stage = "stub" /\ f.ifl = ifl
  OBVIOUS
<1> HIDE DEF f
<1>5. stack \in Seq(Frame) /\ Len(stack) \in Nat
  BY DEF TypeOK
<1>6. /\ stack' \in Seq(Frame) /\ stack' # <<>>
      /\ Len(stack') = Len(stack) + 1
      /\ \A n \in 1..Len(stack) : stack'[n] = stack[n]
      /\ stack'[Len(stack) + 1] = f
  BY <1>1, <1>3, <1>5, AppendProperties
<1>7. FrameInv'
  BY <1>2, <1>5, <1>6 DEF FrameInv
<1>8. QED
  BY <1>3, <1>4, <1>5, <1>6, <1>7, IrqAssumption

(* A handler that goes on changes its own frame only.                       *)
LEMMA Replaced ==
  ASSUME TypeOK, FrameInv, stack # <<>>, NEW f \in Frame, Good(f),
         stack' = [stack EXCEPT ![Len(stack)] = f]
  PROVE  /\ stack' \in Seq(Frame) /\ stack' # <<>>
         /\ Len(stack') = Len(stack)
         /\ FrameInv'
         /\ \A n \in 1..Len(stack) :
              stack'[n] = IF n = Len(stack) THEN f ELSE stack[n]
<1>1. stack \in Seq(Frame) /\ Len(stack) \in Nat \ {0}
  BY EmptySeq DEF TypeOK
<1>2. Len(stack) \in 1..Len(stack)
  BY <1>1
<1>3. /\ stack' \in Seq(Frame)
      /\ Len(stack') = Len(stack)
      /\ \A n \in 1..Len(stack) :
           stack'[n] = IF n = Len(stack) THEN f ELSE stack[n]
  BY <1>1, <1>2, ExceptSeq
<1>4. stack' # <<>>
  BY <1>1, <1>3, EmptySeq
<1>5. FrameInv'
  BY <1>3 DEF FrameInv
<1>6. QED
  BY <1>3, <1>4, <1>5

(* The innermost frame of a running handler.                                *)
LEMMA TopIs ==
  ASSUME TypeOK, FrameInv, stack # <<>>
  PROVE  /\ Len(stack) \in Nat \ {0}
         /\ Top \in Frame /\ Good(Top)
         /\ stack[1] \in Frame
<1>1. stack \in Seq(Frame) /\ Len(stack) \in Nat \ {0}
  BY EmptySeq DEF TypeOK
<1>2. Len(stack) \in 1..Len(stack) /\ 1 \in 1..Len(stack)
  BY <1>1
<1>3. QED
  BY <1>1, <1>2, ElementOfSeq DEF Top, FrameInv

(* iret takes the innermost frame off.                                      *)
LEMMA Popped ==
  ASSUME TypeOK, FrameInv, stack # <<>>,
         stack' = SubSeq(stack, 1, Len(stack) - 1)
  PROVE  /\ stack' \in Seq(Frame)
         /\ Len(stack') = Len(stack) - 1
         /\ FrameInv'
         /\ \A n \in 1 .. Len(stack) - 1 : stack'[n] = stack[n]
         /\ Len(stack) = 1 => stack' = <<>>
<1>1. stack \in Seq(Frame) /\ Len(stack) \in Nat \ {0}
  BY EmptySeq DEF TypeOK
<1> DEFINE m == Len(stack) - 1
<1>2. m \in Nat /\ m < Len(stack)
  BY <1>1
<1>3. \A i \in 1..m : stack[i] \in Frame
  BY <1>1, <1>2, ElementOfSeq
<1> DEFINE rest == SubSeq(stack, 1, m)
<1> HIDE DEF m
<1>4. /\ rest \in Seq(Frame)
      /\ Len(rest) = IF 1 <= m THEN m - 1 + 1 ELSE 0
      /\ \A i \in 1 .. m - 1 + 1 : rest[i] = stack[1 + i - 1]
  BY <1>2, <1>3, SubSeqProperties
<1>5. stack' = rest
  BY DEF m
<1> HIDE DEF rest
<1>6. /\ stack' \in Seq(Frame)
      /\ Len(stack') = m
      /\ \A n \in 1..m : stack'[n] = stack[n]
  BY <1>2, <1>4, <1>5
<1>7. FrameInv'
  BY <1>1, <1>6 DEF FrameInv, m
<1>8. Len(stack) = 1 => stack' = <<>>
  BY <1>1, SubSeqEmpty
<1>9. QED
  BY <1>6, <1>7, <1>8 DEF m

-----------------------------------------------------------------------------
(* The controllers.                                                         *)

LEMMA LineIs ==
  /\ Line \subseteq 0..15 /\ Cascade \notin Line
  /\ \A i \in Line : Parent(i) \in Line \cup {Cascade}
  BY IrqAssumption DEF Line, Kbd, Cascade, Parent

(* The only interrupt in service is the most urgent.                        *)
LEMMA EoiOne ==
  ASSUME NEW i \in 0..15
  PROVE  Eoi({i}) = {} /\ Eoi({}) = {}
<1>1. Rank(i) <= Rank(i)
  BY DEF Rank, Slave
<1>2. QED
  BY <1>1 DEF Eoi, Highest

(* pic_acknowledge ends what the delivery of the vector began.              *)
LEMMA AckEnds ==
  ASSUME NEW v \in 0..47, srv \in InService(v)
  PROVE  Ack(v) = {} /\ \A i \in srv : i \in {v - 32, Parent(v - 32)}
<1>1. CASE v < 32
  BY <1>1 DEF InService, Ack
<1>2. CASE v \in 32..39
  <2>1. v - 32 \in 0..15 \ Slave /\ Parent(v - 32) = v - 32
    BY <1>2 DEF Parent, Slave
  <2>2. srv \in {{v - 32}, {}}
    BY <1>2, <2>1 DEF InService
  <2>3. srv \cap Slave = {} /\ srv \ Slave = srv
    BY <2>1, <2>2
  <2>4. Ack(v) = Eoi(srv)
    BY <1>2, <2>3 DEF Ack, Vector
  <2>5. QED
    BY <2>1, <2>2, <2>4, EoiOne
<1>3. CASE v \in 40..47
  <2>1. /\ v - 32 \in Slave /\ Parent(v - 32) = Cascade
        /\ Cascade \in 0..15 \ Slave
    BY <1>3 DEF Parent, Slave, Cascade
  <2>2. srv \in {{v - 32, Cascade}, {Cascade}}
    BY <1>3, <2>1 DEF InService
  <2>3. srv \cap Slave \in {{v - 32}, {}} /\ srv \ Slave = {Cascade}
    BY <2>1, <2>2
  <2>4. Ack(v) = Eoi(srv \cap Slave) \cup Eoi(srv \ Slave)
    BY <1>3 DEF Ack, Vector
  <2>5. v - 32 \in 0..15
    BY <1>3
  <2>6. Eoi(srv \cap Slave) = {} /\ Eoi(srv \ Slave) = {}
    BY <2>1, <2>3, <2>5, EoiOne
  <2>7. QED
    BY <2>1, <2>2, <2>4, <2>6
<1>4. QED
  BY <1>1, <1>2, <1>3

-----------------------------------------------------------------------------
(* The invariant, step by step.                                             *)

(* Interrupts are on only while no handler runs.                            *)
LEMMA OnlyMain ==
  ASSUME IInv, ifl
  PROVE  stack = <<>> /\ Len(stack) = 0 /\ srv = {} /\ at \in Running
<1>1. stack = <<>>
  BY DEF IInv, NestInv
<1>2. QED
  BY <1>1 DEF IInv, ServiceInv, BootInv

(* A handler, and at most one more over it.                                 *)
LEMMA Depth ==
  ASSUME IInv, stack # <<>>
  PROVE  Len(stack) = 1 \/ Len(stack) = 2
<1>1. Len(stack) \in Nat \ {0}
  BY TopIs DEF IInv
<1>2. Len(stack) <= 2
  BY DEF IInv, NestInv
<1>3. \A n \in Nat \ {0} : n <= 2 => n = 1 \/ n = 2
  OBVIOUS
<1>4. QED
  BY <1>1, <1>2, <1>3, Zenon

(* An interrupt, a fault or a non-maskable interrupt is delivered.          *)
LEMMA DeliverStep ==
  ASSUME IInv, NEW v \in 0..47, Deliver(v),
         stack = <<>> \/ (v = Nmi /\ Len(stack) < 2)
  PROVE  /\ stack' \in Seq(Frame) /\ Len(stack') <= MaxDepth
         /\ ifl' \in BOOLEAN /\ stack' # <<>>
         /\ FrameInv' /\ NestInv'
         /\ stack = <<>> => stack'[1].vector = v /\ stack'[1].stage = "stub"
         /\ stack # <<>> => stack'[1] = stack[1]
<1>1. /\ stack' \in Seq(Frame) /\ stack' # <<>>
      /\ Len(stack') = Len(stack) + 1 /\ Len(stack') <= MaxDepth
      /\ FrameInv' /\ ifl' = FALSE
      /\ \A n \in 1..Len(stack) : stack'[n] = stack[n]
      /\ stack'[Len(stack')].vector = v
      /\ stack'[Len(stack')].stage = "stub"
      /\ stack'[Len(stack')].ifl = ifl
  BY Pushed DEF IInv
<1>2. CASE stack = <<>>
  <2>1. Len(stack) = 0 /\ Len(stack') = 1
    BY <1>1, <1>2
  <2>2. NestInv'
    BY <1>1, <2>1 DEF NestInv
  <2>3. stack'[1].vector = v /\ stack'[1].stage = "stub"
    BY <1>1, <2>1
  <2>4. QED
    BY <1>1, <1>2, <2>2, <2>3
<1>3. CASE stack # <<>>
  <2>1. Len(stack) = 1 /\ v = Nmi
    BY <1>3, Depth
  <2>2. Len(stack') = 2
    BY <1>1, <2>1
  <2>3. ~ifl
    BY <1>3 DEF IInv, NestInv
  <2>4. stack'[1] = stack[1]
    BY <1>1, <2>1
  <2>5. NestInv'
    BY <1>1, <2>1, <2>2, <2>3 DEF NestInv
  <2>6. QED
    BY <1>1, <1>3, <2>4, <2>5
<1>4. QED
  BY <1>2, <1>3

(* A handler goes on.                                                       *)
LEMMA HandlerStep ==
  ASSUME IInv, stack # <<>>, NEW f \in Frame, Good(f), f.vector = Top.vector,
         f.ifl = Top.ifl, ifl' = ifl, stack' = [stack EXCEPT ![Len(stack)] = f]
  PROVE  /\ stack' \in Seq(Frame) /\ Len(stack') <= MaxDepth
         /\ stack' # <<>>
         /\ FrameInv' /\ NestInv'
         /\ stack'[1] = IF Len(stack) = 1 THEN f ELSE stack[1]
<1>1. /\ stack' \in Seq(Frame) /\ stack' # <<>>
      /\ Len(stack') = Len(stack)
      /\ FrameInv'
      /\ \A n \in 1..Len(stack) :
           stack'[n] = IF n = Len(stack) THEN f ELSE stack[n]
  BY Replaced DEF IInv
<1>2. Len(stack) = 1 \/ Len(stack) = 2
  BY Depth
<1>3. stack'[1] = IF Len(stack) = 1 THEN f ELSE stack[1]
  BY <1>1, <1>2
<1>4. Len(stack) = 2 => stack'[2] = f /\ f.vector = Nmi /\ ~f.ifl
  BY <1>1, <1>2 DEF Top, IInv, NestInv
<1>5. NestInv'
  BY <1>1, <1>2, <1>4 DEF NestInv, IInv
<1>6. QED
  BY <1>1, <1>3, <1>5 DEF IInv, TypeOK

(* The end of a handler.                                                    *)
LEMMA IretStep ==
  ASSUME IInv, Iret
  PROVE  IInv'
<1>1. /\ stack # <<>> /\ Top.stage = "iret" /\ ifl' = Top.ifl
      /\ stack' = SubSeq(stack, 1, Len(stack) - 1)
      /\ high' = high /\ req' = req /\ srv' = srv /\ mask' = mask /\ at' = at
  BY DEF Iret, InHandler, pics
<1>2. /\ stack' \in Seq(Frame) /\ Len(stack') = Len(stack) - 1
      /\ FrameInv'
      /\ \A n \in 1 .. Len(stack) - 1 : stack'[n] = stack[n]
      /\ Len(stack) = 1 => stack' = <<>>
  BY <1>1, Popped DEF IInv
<1>3. Len(stack) \in Nat \ {0} /\ Top \in Frame /\ MaxDepth \in Nat
  BY <1>1, TopIs, IrqAssumption DEF IInv
<1>4. at \in Running
  BY <1>1 DEF IInv, BootInv
<1>5. TypeOK'
  <2>1. ifl' \in BOOLEAN
    BY <1>1, <1>3 DEF Frame
  <2>2. \A n \in Nat \ {0} : n <= MaxDepth => n - 1 <= MaxDepth
    BY <1>3
  <2>3. Len(stack') <= MaxDepth
    BY <1>2, <1>3, <2>2 DEF IInv, TypeOK
  <2>4. QED
    BY <1>1, <1>2, <2>1, <2>3 DEF IInv, TypeOK
<1>6. BootInv'
  BY <1>1, <1>4 DEF BootInv
<1>7. CASE Len(stack) = 1
  <2>1. stack' = <<>> /\ Top = stack[1]
    BY <1>2, <1>7 DEF Top
  <2>2. srv = {}
    BY <1>1, <2>1 DEF IInv, ServiceInv
  <2>3. ServiceInv'
    BY <1>1, <2>1, <2>2 DEF ServiceInv
  <2>4. Len(stack') = 0
    BY <1>2, <1>7
  <2>5. NestInv'
    BY <2>1, <2>4 DEF NestInv
  <2>6. QED
    BY <1>2, <1>5, <1>6, <2>3, <2>5 DEF IInv
<1>8. CASE Len(stack) = 2
  <2>1. Len(stack') = 1 /\ stack'[1] = stack[1]
    BY <1>2, <1>8
  <2>2. stack' # <<>>
    BY <2>1
  <2>3. ~ifl'
    BY <1>1, <1>8 DEF Top, IInv, NestInv
  <2>4. NestInv'
    BY <2>1, <2>3 DEF NestInv
  <2>5. ServiceInv'
    BY <1>1, <2>1, <2>2 DEF IInv, ServiceInv
  <2>6. QED
    BY <1>2, <1>5, <1>6, <2>4, <2>5 DEF IInv
<1>9. QED
  BY <1>1, <1>7, <1>8, Depth

(* What interrupt_handler makes of a frame.                                 *)
LEMMA HandlerFrames ==
  ASSUME IInv, Dispatch \/ Drained \/ Acknowledge
  PROVE  \E f \in Frame :
           /\ stack # <<>>
           /\ Good(f) /\ f.vector = Top.vector /\ f.ifl = Top.ifl
           /\ stack' = [stack EXCEPT ![Len(stack)] = f]
           /\ Dispatch \/ Drained => Top.stage # "iret" /\ f.stage # "iret"
           /\ Acknowledge => Top.stage # "iret" /\ f.stage = "iret"
<1>1. stack # <<>>
  BY DEF Dispatch, Drained, Acknowledge, InHandler
<1>2. Top \in Frame /\ Good(Top) /\ Len(stack) \in Nat \ {0}
  BY <1>1, TopIs DEF IInv
<1>3. Top.vector \in 0..47 /\ Top.vector \in 0..255
  BY <1>2 DEF Good
<1>4. stack \in Seq(Frame)
  BY DEF IInv, TypeOK
<1>5. CASE Dispatch
  <2> DEFINE f == [Top EXCEPT !.stage = CaseOf(Top.vector),
                              !.words = Pushad \o Stub(Top.vector) \o @]
  <2>1. Top.stage = "stub" /\ Top.words = Delivered(Top.vector)
    BY <1>2, <1>5 DEF Dispatch, InHandler, Good
  <2>2. stack' = [stack EXCEPT ![Len(stack)] = f]
    BY <1>2, <1>4, <1>5 DEF Dispatch, Top
  <2>3. f = [Top EXCEPT !.stage = CaseOf(Top.vector), !.words = Parameters]
    BY <1>2, <1>3, <2>1, StubIs DEF Frame
  <2>4. f \in Frame /\ Good(f) /\ f.vector = Top.vector /\ f.ifl = Top.ifl
        /\ f.stage # "iret"
    BY <1>2, <1>3, <2>3, WordsAre DEF Frame, Words, CaseOf, Good
  <2>5. ~Acknowledge
    BY <2>1 DEF Acknowledge, InHandler
  <2>6. QED
    BY <1>1, <2>1, <2>2, <2>4, <2>5
<1>6. CASE Drained
  <2> DEFINE f == [Top EXCEPT !.stage = "ack"]
  <2>1. Top.stage = "drain" /\ Top.words = Parameters
    BY <1>2, <1>6 DEF Drained, InHandler, Good
  <2>2. stack' = [stack EXCEPT ![Len(stack)] = f]
    BY <1>2, <1>4, <1>6 DEF Drained, GoOn, Top
  <2>3. f \in Frame /\ Good(f) /\ f.vector = Top.vector /\ f.ifl = Top.ifl
        /\ f.stage # "iret"
    BY <1>2, <2>1 DEF Frame, Good
  <2>4. ~Acknowledge
    BY <2>1 DEF Acknowledge, InHandler
  <2>5. QED
    BY <1>1, <2>1, <2>2, <2>3, <2>4
<1>7. CASE Acknowledge
  <2> DEFINE f == [Top EXCEPT !.stage = "iret", !.words = Unwound(@)]
  <2>1. Top.stage = "ack" /\ Top.words = Parameters
    BY <1>2, <1>7 DEF Acknowledge, InHandler, Good
  <2>2. stack' = [stack EXCEPT ![Len(stack)] = f]
    BY <1>2, <1>4, <1>7 DEF Acknowledge, Top
  <2>3. f = [Top EXCEPT !.stage = "iret", !.words = StackState]
    BY <1>2, <2>1, UnwoundIs DEF Frame
  <2>4. f \in Frame /\ Good(f) /\ f.vector = Top.vector /\ f.ifl = Top.ifl
        /\ f.stage = "iret"
    BY <1>2, <2>3, WordsAre DEF Frame, Words, Good
  <2>5. ~Dispatch /\ ~Drained
    BY <2>1 DEF Dispatch, Drained, InHandler
  <2>6. QED
    BY <1>1, <2>1, <2>2, <2>4, <2>5
<1>8. QED
  BY <1>5, <1>6, <1>7

(* Dispatch, the end of the loop, and the acknowledgement.                  *)
LEMMA StageStep ==
  ASSUME IInv, Dispatch \/ Drained \/ Acknowledge
  PROVE  IInv'
<1>1. PICK f \in Frame :
        /\ stack # <<>> /\ Good(f) /\ f.vector = Top.vector /\ f.ifl = Top.ifl
        /\ stack' = [stack EXCEPT ![Len(stack)] = f]
        /\ Dispatch \/ Drained => Top.stage # "iret" /\ f.stage # "iret"
        /\ Acknowledge => Top.stage # "iret" /\ f.stage = "iret"
  BY HandlerFrames
<1>2. /\ ifl' = ifl /\ at' = at
      /\ high' = high /\ req' = req /\ mask' = mask
  BY DEF Dispatch, Drained, Acknowledge, pics
<1>3. /\ stack' \in Seq(Frame) /\ Len(stack') <= MaxDepth
      /\ stack' # <<>>
      /\ FrameInv' /\ NestInv'
      /\ stack'[1] = IF Len(stack) = 1 THEN f ELSE stack[1]
  BY <1>1, <1>2, HandlerStep
<1>4. BootInv'
  BY <1>1, <1>2 DEF IInv, BootInv
<1>5. CASE Dispatch \/ Drained
  <2>1. srv' = srv
    BY <1>5 DEF Dispatch, Drained, pics
  <2>2. ASSUME Len(stack) = 1 PROVE ServiceInv'
    <3>1. Top = stack[1] /\ stack'[1] = f
      BY <1>3, <2>2 DEF Top
    <3>2. srv \in InService(f.vector)
      BY <1>1, <1>5, <3>1 DEF IInv, ServiceInv
    <3>3. QED
      BY <1>1, <1>3, <1>5, <2>1, <3>1, <3>2 DEF ServiceInv
  <2>3. ASSUME Len(stack) = 2 PROVE ServiceInv'
    <3>1. stack'[1] = stack[1]
      BY <1>3, <2>3
    <3>2. QED
      BY <1>1, <1>3, <2>1, <3>1 DEF IInv, ServiceInv
  <2>4. ServiceInv'
    BY <1>1, <2>2, <2>3, Depth
  <2>5. TypeOK'
    BY <1>2, <1>3, <2>1 DEF IInv, TypeOK
  <2>6. QED
    BY <1>3, <1>4, <2>4, <2>5 DEF IInv
<1>6. CASE Acknowledge
  <2>1. srv' = Ack(Top.vector) /\ Top.vector \in 0..47
    BY <1>1, <1>6 DEF Acknowledge, Good
  <2>2. ASSUME Len(stack) = 1 PROVE ServiceInv'
    <3>1. Top = stack[1] /\ stack'[1] = f
      BY <1>3, <2>2 DEF Top
    <3>2. srv \in InService(Top.vector)
      BY <1>1, <1>6, <3>1 DEF IInv, ServiceInv
    <3>3. srv' = {}
      BY <2>1, <3>2, AckEnds
    <3>4. QED
      BY <1>1, <1>3, <1>6, <3>1, <3>3 DEF ServiceInv
  <2>3. ASSUME Len(stack) = 2 PROVE ServiceInv'
    <3>1. stack'[1] = stack[1] /\ Top.vector = Nmi
      BY <1>3, <2>3 DEF Top, IInv, NestInv
    <3>2. srv' = srv
      BY <2>1, <3>1 DEF Ack, Nmi
    <3>3. QED
      BY <1>1, <1>3, <3>1, <3>2 DEF IInv, ServiceInv
  <2>4. ServiceInv'
    BY <1>1, <2>2, <2>3, Depth
  <2>5. srv' = {} \/ srv' = srv
    <3>1. Len(stack) = 1 => srv' = {}
      BY <1>1, <1>6, <2>1, AckEnds DEF Top, IInv, ServiceInv
    <3>2. Len(stack) = 2 => srv' = srv
      BY <2>1 DEF Top, IInv, NestInv, Ack, Nmi
    <3>3. QED
      BY <1>1, <3>1, <3>2, Depth
  <2>6. TypeOK'
    BY <1>2, <1>3, <2>5 DEF IInv, TypeOK
  <2>7. QED
    BY <1>3, <1>4, <2>4, <2>6 DEF IInv
<1>7. QED
  BY <1>5, <1>6

(* The steps that deliver an interrupt.                                     *)
LEMMA InterruptStep ==
  ASSUME IInv, NEW v \in 0..47, Deliver(v),
         stack = <<>> \/ (v = Nmi /\ Len(stack) < 2),
         high' = high, mask' = mask, req' \subseteq req,
         at \in Running, at' \in Running,
         srv' \subseteq Line \cup {Cascade},
         IF stack = <<>> THEN srv' \in InService(v) ELSE srv' = srv
  PROVE  IInv'
<1>1. /\ stack' \in Seq(Frame) /\ Len(stack') <= MaxDepth
      /\ ifl' \in BOOLEAN /\ stack' # <<>>
      /\ FrameInv' /\ NestInv'
      /\ stack = <<>> => stack'[1].vector = v /\ stack'[1].stage = "stub"
      /\ stack # <<>> => stack'[1] = stack[1]
  BY DeliverStep
<1>2. TypeOK'
  BY <1>1 DEF IInv, TypeOK
<1>3. BootInv'
  BY DEF BootInv
<1>4. CASE stack = <<>>
  BY <1>1, <1>2, <1>3, <1>4 DEF IInv, ServiceInv
<1>5. CASE stack # <<>>
  <2>1. ServiceInv'
    BY <1>1, <1>5 DEF IInv, ServiceInv
  <2>2. QED
    BY <1>1, <1>2, <1>3, <2>1 DEF IInv
<1>6. QED
  BY <1>4, <1>5

(* A step that leaves the CPU and what is in service alone.                 *)
LEMMA QuietStep ==
  ASSUME IInv, UNCHANGED <<srv, mask, ifl, stack, at>>,
         high' \subseteq Line, req' \subseteq Line
  PROVE  IInv'
<1>1. TypeOK'
  BY DEF IInv, TypeOK
<1>2. FrameInv' /\ NestInv' /\ BootInv' /\ ServiceInv'
  BY DEF IInv, FrameInv, NestInv, BootInv, ServiceInv
<1>3. QED
  BY <1>1, <1>2 DEF IInv

(* A step of the main program that no handler interrupts.                   *)
LEMMA MainStep ==
  ASSUME IInv, stack = <<>>, stack' = <<>>, high' = high,
         req' \subseteq Line, mask' \subseteq Line, srv' = {},
         ifl' \in BOOLEAN, at' \in {"remap", "masks", "sti"} \cup Running,
         at' \notin Running => ~ifl'
  PROVE  IInv'
<1>1. Len(stack') = 0 /\ stack' \in Seq(Frame)
  BY EmptySeq
<1>2. TypeOK'
  BY <1>1, IrqAssumption DEF IInv, TypeOK
<1>3. FrameInv'
  BY <1>1 DEF FrameInv
<1>4. NestInv' /\ BootInv' /\ ServiceInv'
  BY <1>1 DEF NestInv, BootInv, ServiceInv
<1>5. QED
  BY <1>2, <1>3, <1>4 DEF IInv

LEMMA InvInit == Init => IInv
<1> SUFFICES ASSUME Init
             PROVE  IInv
  OBVIOUS
<1>1. stack = <<>> /\ Len(stack) = 0 /\ stack \in Seq(Frame)
  BY EmptySeq DEF Init
<1>2. TypeOK
  <2>1. MaxDepth \in Nat /\ BiosMask \subseteq Line
    BY IrqAssumption DEF Line
  <2>2. Len(stack) <= MaxDepth
    BY <1>1, <2>1
  <2>3. QED
    BY <1>1, <2>1, <2>2 DEF Init, TypeOK
<1>3. FrameInv
  BY <1>1 DEF FrameInv
<1>4. NestInv /\ BootInv /\ ServiceInv
  BY <1>1 DEF Init, NestInv, BootInv, ServiceInv
<1>5. QED
  BY <1>2, <1>3, <1>4 DEF IInv

LEMMA InvStep == IInv /\ [Next]_vars => IInv'
<1> SUFFICES ASSUME IInv, [Next]_vars
             PROVE  IInv'
  OBVIOUS
<1>0. /\ high \subseteq Line /\ req \subseteq Line /\ mask \subseteq Line
      /\ srv \subseteq Line \cup {Cascade} /\ ifl \in BOOLEAN
      /\ BiosMask \subseteq Line
  BY IrqAssumption DEF IInv, TypeOK, Line
<1>1. CASE Boot
  <2>1. at \notin Running
    BY <1>1 DEF Boot, Icw1, RestoreMasks, Sti, Running
  <2>2. stack = <<>> /\ srv = {} /\ ~ifl
    BY <2>1 DEF IInv, BootInv, ServiceInv
  <2>3. /\ stack' = stack /\ high' = high
        /\ req' \in {req, {}} /\ mask' \in {mask, {}, BiosMask} /\ srv' = {}
        /\ \/ ifl' = ifl /\ at' \in {"masks", "sti"}
           \/ ifl' = TRUE /\ at' = "run"
    BY <1>1, <2>2 DEF Boot, Icw1, RestoreMasks, Sti, pics
  <2>4. /\ at' \in {"remap", "masks", "sti"} \cup Running
        /\ at' \notin Running => ~ifl'
    BY <2>2, <2>3 DEF Running
  <2>5. QED
    BY <1>0, <2>2, <2>3, <2>4, MainStep
<1>2. CASE MainCli \/ MainSti
  <2>1. /\ stack = <<>> /\ stack' = stack /\ ifl' \in BOOLEAN
        /\ at = "run" /\ at' = at
        /\ high' = high /\ req' = req /\ srv' = srv /\ mask' = mask
    BY <1>2 DEF MainCli, MainSti, pics
  <2>2. srv = {} /\ at' \in Running
    BY <2>1 DEF IInv, ServiceInv, Running
  <2>3. QED
    BY <1>0, <2>1, <2>2, MainStep
<1>3. CASE KeyByte \/ \E i \in Device : DeviceRaise(i) \/ DeviceLower(i)
  <2>1. \A i \in Device \cup {Kbd} : i \in Line
    BY DEF Line
  <2>2. /\ UNCHANGED <<srv, mask, ifl, stack, at>>
        /\ high' \subseteq Line /\ req' \subseteq Line
    BY <1>0, <1>3, <2>1 DEF KeyByte, DeviceRaise, DeviceLower, Raise, Lower
  <2>3. QED
    BY <2>2, QuietStep
<1>4. ASSUME NEW i \in Line, Inta(i)
      PROVE  IInv'
  <2>1. /\ ifl /\ Deliver(Vector(i))
        /\ req' = req \ {i} /\ srv' = srv \cup {i, Parent(i)}
        /\ high' = high /\ mask' = mask /\ at' = at
    BY <1>4 DEF Inta, Interrupt
  <2>2. stack = <<>> /\ srv = {} /\ at \in Running
    BY <2>1, OnlyMain
  <2>3. Vector(i) \in 0..47 /\ ~(Vector(i) < 32) /\ Vector(i) - 32 = i
    BY LineIs DEF Vector
  <2>4. srv' \in InService(Vector(i))
    BY <2>1, <2>2, <2>3 DEF InService
  <2>5. srv' \subseteq Line \cup {Cascade}
    BY <2>1, <2>2, LineIs
  <2>6. QED
    BY <2>1, <2>2, <2>3, <2>4, <2>5, InterruptStep
<1>5. CASE Spurious
  <2>1. PICK v \in {Vector(7), Vector(15)} :
          /\ ifl /\ Deliver(v)
          /\ v = Vector(7) => srv' = srv
          /\ v = Vector(15) => srv' = srv \cup {Cascade}
          /\ high' = high /\ req' = req /\ mask' = mask /\ at' = at
    <3>1. Vector(7) = 39 /\ Vector(15) = 47
      BY DEF Vector
    <3>2. QED
      BY <1>5, <3>1 DEF Spurious, Interrupt
  <2>2. stack = <<>> /\ srv = {} /\ at \in Running
    BY <2>1, OnlyMain
  <2>3. v \in {39, 47} /\ v \in 0..47
    BY DEF Vector
  <2>4. srv' \in InService(v) /\ srv' \subseteq Line \cup {Cascade}
    BY <2>1, <2>2, <2>3 DEF InService, Vector
  <2>5. QED
    BY <2>1, <2>2, <2>3, <2>4, InterruptStep
<1>6. CASE NonMaskable
  <2>1. /\ Deliver(Nmi) /\ at \in Running /\ at' = at
        /\ high' = high /\ req' = req /\ srv' = srv /\ mask' = mask
        /\ \A n \in 1..Len(stack) : stack[n].vector # Nmi
    BY <1>6 DEF NonMaskable, pics
  <2>2. stack = <<>> \/ Len(stack) < 2
    <3>1. Len(stack) # 2
      BY <2>1 DEF IInv, NestInv
    <3>2. QED
      BY <3>1, Depth
  <2>3. Nmi \in 0..47 /\ {} \in InService(Nmi)
    BY DEF Nmi, InService
  <2>4. stack = <<>> => srv' \in InService(Nmi)
    BY <2>1, <2>3 DEF IInv, ServiceInv
  <2>5. QED
    BY <1>0, <2>1, <2>2, <2>3, <2>4, InterruptStep
<1>7. ASSUME NEW v \in Exception, MainFault(v)
      PROVE  IInv'
  <2>1. /\ Deliver(v) /\ at \in Running /\ at' \in {"stuck", "hung"}
        /\ stack = <<>>
        /\ high' = high /\ req' = req /\ srv' = srv /\ mask' = mask
    BY <1>7 DEF MainFault, pics
  <2>2. v \in 0..19
    BY IrqAssumption
  <2>3. v \in 0..47 /\ {} \in InService(v) /\ at' \in Running
    BY <2>1, <2>2 DEF InService, Running
  <2>4. srv' \in InService(v)
    BY <2>1, <2>3 DEF IInv, ServiceInv
  <2>5. QED
    BY <1>0, <2>1, <2>3, <2>4, InterruptStep
<1>8. CASE Dispatch \/ Drained \/ Acknowledge
  BY <1>8, StageStep
<1>9. CASE ReadByte
  <2>1. /\ UNCHANGED <<srv, mask, ifl, stack, at>>
        /\ high' \subseteq Line /\ req' \subseteq Line
    BY <1>0, <1>9 DEF ReadByte, Lower
  <2>2. QED
    BY <2>1, QuietStep
<1>10. CASE Iret
  BY <1>10, IretStep
<1>11. CASE UNCHANGED vars
  <2>1. /\ UNCHANGED <<srv, mask, ifl, stack, at>>
        /\ high' \subseteq Line /\ req' \subseteq Line
    BY <1>0, <1>11 DEF vars
  <2>2. QED
    BY <2>1, QuietStep
<1>12. QED
  BY <1>1, <1>2, <1>3, <1>4, <1>5, <1>6, <1>7, <1>8, <1>9, <1>10, <1>11
     DEF Next, Handler

LEMMA InvAlways == Spec => []IInv
<1>1. Init => IInv
  BY InvInit
<1>2. IInv /\ [Next]_vars => IInv'
  BY InvStep
<1>3. QED
  BY <1>1, <1>2, PTL DEF Spec

-----------------------------------------------------------------------------
(* What follows from it.                                                    *)

(* Every register, the flag, the stack and the program's place keep their   *)
(* type, for every set of devices.                                          *)
THEOREM TypeCorrect == Spec => []TypeOK
<1>1. IInv => TypeOK
  BY DEF IInv
<1>2. QED
  BY <1>1, InvAlways, PTL

(* No handler is interrupted but by a non-maskable interrupt: one gate in   *)
(* idt.c that left the flag alone would be enough to break it.              *)
THEOREM NeverNested == Spec => []NoNesting
<1>1. IInv => NoNesting
  <2>1. SUFFICES ASSUME IInv, NEW n \in 2..Len(stack)
                 PROVE  stack[n].vector = Nmi
    BY DEF NoNesting
  <2>2. Len(stack) \in Nat /\ Len(stack) <= 2
    BY <2>1 DEF IInv, NestInv, TypeOK
  <2>3. \A m \in Nat : m <= 2 => \A k \in 2..m : k = 2 /\ m = 2
    OBVIOUS
  <2>4. n = 2 /\ Len(stack) = 2
    BY <2>1, <2>2, <2>3
  <2>5. QED
    BY <2>1, <2>4 DEF IInv, NestInv
<1>2. QED
  BY <1>1, InvAlways, PTL

(* When no device's handler runs nothing is in service: pic_acknowledge     *)
(* tells each controller that waits for it, once, whichever line interrupts *)
(* and whether or not the interrupt is spurious.                            *)
THEOREM ServiceOver == Spec => []NothingInService
<1>1. IInv => NothingInService
  <2>1. SUFFICES ASSUME IInv, stack # <<>>,
                        \A n \in 1..Len(stack) : stack[n].vector < Vector(0)
                 PROVE  srv = {}
    BY DEF NothingInService, IInv, ServiceInv
  <2>2. 1 \in 1..Len(stack)
    BY <2>1, Depth
  <2>3. stack[1].vector < 32
    BY <2>1, <2>2 DEF Vector
  <2>4. QED
    BY <2>1, <2>3 DEF IInv, ServiceInv, InService
<1>2. QED
  BY <1>1, InvAlways, PTL

(* Every way through the handler leaves what the CPU pushed on top of the   *)
(* stack, and interrupt_handler finds its parameters on the way.            *)
THEOREM Balanced == Spec => []FrameBalanced
<1>1. IInv => FrameBalanced
  BY DEF IInv, FrameInv, Good, FrameBalanced
<1>2. QED
  BY <1>1, InvAlways, PTL

(* Handling an interrupt never ends the service of another one, for every   *)
(* set of lines on the two controllers.                                     *)
THEOREM OnlyOwn == Spec => OwnServiceOnly
<1> DEFINE Own == \A i \in srv \ srv' : stack # <<>> =>
                    i \in {Top.vector - 32, Parent(Top.vector - 32)}
<1>1. IInv /\ [Next]_vars => [Own]_vars
  <2> SUFFICES ASSUME IInv, Next, stack # <<>>, NEW i \in srv \ srv'
               PROVE  i \in {Top.vector - 32, Parent(Top.vector - 32)}
    OBVIOUS
  <2>1. at \in Running
    BY DEF IInv, BootInv
  <2>2. Acknowledge
    BY <2>1 DEF Next, Boot, Icw1, RestoreMasks, Sti, MainCli, MainSti, KeyByte,
       DeviceRaise, DeviceLower, Raise, Inta, Spurious, NonMaskable, MainFault,
       Handler, Dispatch, ReadByte, Drained, Iret, pics, Running
  <2>3. srv' = Ack(Top.vector) /\ Top.stage = "ack"
    BY <2>2 DEF Acknowledge, InHandler
  <2>4. Top.vector \in 0..47
    BY TopIs DEF IInv, Good
  <2>5. CASE Len(stack) = 1
    <3>1. srv \in InService(Top.vector)
      BY <2>3, <2>5 DEF Top, IInv, ServiceInv
    <3>2. QED
      BY <2>4, <3>1, AckEnds
  <2>6. CASE Len(stack) = 2
    <3>1. srv' = srv
      BY <2>3, <2>6 DEF Top, IInv, NestInv, Ack, Nmi
    <3>2. QED
      BY <3>1
  <2>7. QED
    BY <2>5, <2>6, Depth
<1>2. QED
  BY <1>1, InvAlways, PTL DEF Spec, OwnServiceOnly
=============================================================================
