----------------------------- MODULE ChatProofs -----------------------------
(***************************************************************************)
(* For every alphabet, set of commands, line length and queue capacity:    *)
(* no line or queue outgrows its bound, both ends of the chat have seen    *)
(* the same messages whenever interrupts are on, and the polling loops     *)
(* implement the chat room.                                                *)
(***************************************************************************)
EXTENDS Chat, SequenceTheorems, TLAPS

\* Interrupts are off in kbd_pop and in chat_submit's critical section.
FlagInv == ifl <=> at \notin {"pop", "console", "print", "sti"}

\* The serial port is behind by the message that is being sent, and by no
\* other.
LogInv == /\ at = "print" => con = Log(ser, Message)
          /\ at # "print" => con = ser

\* What is known of the line that is being served.
LineInv == /\ at = "init" => \A u \in User : line[u] = <<>>
           /\ at = "demo" => line[user] = Transferir
           /\ at = "submit" => line[user] \notin Commands
           /\ at = "console" => line[user] \notin Commands \cup {<<>>}

IInv == TypeOK /\ FlagInv /\ LogInv /\ LineInv

Messages == [from : User, text : Seq(Text)]

-----------------------------------------------------------------------------
(* Facts about sequences.                                                   *)

LEMMA AppendIs ==
  ASSUME NEW S, NEW s \in Seq(S), NEW e \in S
  PROVE  Append(s, e) \in Seq(S) /\ Len(Append(s, e)) = Len(s) + 1
  BY AppendProperties

LEMMA TailIs ==
  ASSUME NEW S, NEW s \in Seq(S), s # <<>>
  PROVE  /\ Head(s) \in S /\ Tail(s) \in Seq(S)
         /\ Len(s) \in Nat \ {0} /\ Len(Tail(s)) = Len(s) - 1
  BY HeadTailProperties, EmptySeq

LEMMA FrontIs ==
  ASSUME NEW S, NEW s \in Seq(S), s # <<>>
  PROVE  /\ SubSeq(s, 1, Len(s) - 1) \in Seq(S)
         /\ Len(SubSeq(s, 1, Len(s) - 1)) = Len(s) - 1
<1>1. Len(s) \in Nat \ {0}
  BY EmptySeq
<1> DEFINE n == Len(s) - 1
<1>2. n \in Nat /\ n < Len(s)
  BY <1>1
<1>3. \A i \in 1..n : s[i] \in S
  <2>1. TAKE i \in 1..n
  <2>2. i \in 1..Len(s)
    BY <1>1
  <2>3. QED
    BY <2>2, ElementOfSeq
<1> HIDE DEF n
<1>4. /\ SubSeq(s, 1, n) \in Seq(S)
      /\ Len(SubSeq(s, 1, n)) = IF 1 <= n THEN n - 1 + 1 ELSE 0
  BY <1>2, <1>3, SubSeqProperties
<1>5. Len(SubSeq(s, 1, n)) = n
  BY <1>2, <1>4
<1>6. QED
  BY <1>4, <1>5 DEF n

\* A log stays a log of at most Keep messages.
LEMMA LogIs ==
  ASSUME NEW l \in Seq(Messages), Len(l) <= Keep, NEW m \in Messages
  PROVE  Log(l, m) \in Seq(Messages) /\ Len(Log(l, m)) <= Keep
<1> DEFINE all == Append(l, m)
<1>1. /\ all \in Seq(Messages) /\ Len(all) = Len(l) + 1
      /\ Len(l) \in Nat /\ Keep \in Nat
  BY AppendIs, ChatAssumption
<1>2. all # <<>>
  BY AppendProperties
<1> HIDE DEF all
<1>3. Tail(all) \in Seq(Messages) /\ Len(Tail(all)) = Len(all) - 1
  BY <1>1, <1>2, TailIs
<1>4. Log(l, m) = IF Len(all) <= Keep THEN all ELSE Tail(all)
  BY DEF Log, all
<1>5. QED
  BY <1>1, <1>3, <1>4

-----------------------------------------------------------------------------
(* What a character does to the line.                                       *)
LEMMA ProcessCharIs ==
  ASSUME TypeOK, NEW ch \in Char, ProcessChar(ch), UNCHANGED user
  PROVE  /\ line' \in [User -> Seq(Text)]
         /\ \A u \in User : Len(line'[u]) <= LineMax
         /\ at' \in {"eol", "command", "loop", "echo"}
<1>1. /\ line \in [User -> Seq(Text)] /\ user \in User
      /\ line[user] \in Seq(Text) /\ Len(line[user]) \in Nat
      /\ \A u \in User : Len(line[u]) <= LineMax
      /\ LineMax \in Nat
  BY ChatAssumption DEF TypeOK
<1>2. CASE UNCHANGED line /\ at' \in {"eol", "command", "loop", "echo"}
  BY <1>1, <1>2
<1>3. CASE line' = [line EXCEPT ![user] = SubSeq(@, 1, Len(@) - 1)]
           /\ line[user] # <<>> /\ at' = "loop"
  <2>1. /\ SubSeq(line[user], 1, Len(line[user]) - 1) \in Seq(Text)
        /\ Len(SubSeq(line[user], 1, Len(line[user]) - 1)) = Len(line[user]) - 1
    BY <1>1, <1>3, FrontIs
  <2>2. QED
    BY <1>1, <1>3, <2>1
<1>4. CASE line' = [line EXCEPT ![user] = Append(@, ch)] /\ ch \in Text
           /\ Len(line[user]) < LineMax /\ at' \in {"loop", "echo"}
  <2>1. /\ Append(line[user], ch) \in Seq(Text)
        /\ Len(Append(line[user], ch)) = Len(line[user]) + 1
    BY <1>1, <1>4, AppendIs
  <2>2. QED
    BY <1>1, <1>4, <2>1
<1>5. ASSUME ch = Backspace, at' = "loop",
             line' = [line EXCEPT ![user] = IF @ = <<>> THEN @
                                            ELSE SubSeq(@, 1, Len(@) - 1)]
      PROVE  \/ UNCHANGED line /\ at' \in {"eol", "command", "loop", "echo"}
             \/ /\ line' = [line EXCEPT ![user] = SubSeq(@, 1, Len(@) - 1)]
                /\ line[user] # <<>> /\ at' = "loop"
  BY <1>1, <1>5
<1>6. QED
  BY <1>2, <1>3, <1>4, <1>5 DEF ProcessChar

-----------------------------------------------------------------------------
LEMMA InvInit == Init => IInv
<1> SUFFICES ASSUME Init
             PROVE  IInv
  OBVIOUS
<1>1. <<>> \in Seq(Char) /\ <<>> \in Seq(Text) /\ <<>> \in Seq(Messages)
  OBVIOUS
<1>2. Len(<<>>) = 0
  OBVIOUS
<1>3. LineMax \in Nat /\ QueueMax \in Nat /\ RxMax \in Nat /\ Keep \in Nat
  BY ChatAssumption
<1>4. TypeOK
  BY <1>1, <1>2, <1>3 DEF Init, TypeOK, User, Place, Messages
<1>5. QED
  BY <1>4 DEF Init, IInv, FlagInv, LogInv, LineInv

\* A step that changes the flag and the place only, or one line besides.
LEMMA InvStep == IInv /\ [Next]_vars => IInv'
<1> SUFFICES ASSUME IInv, [Next]_vars
             PROVE  IInv'
  OBVIOUS
<1> USE DEF IInv
<1>0. /\ line \in [User -> Seq(Text)] /\ user \in User
      /\ line[user] \in Seq(Text) /\ Message \in Messages
      /\ con \in Seq(Messages) /\ ser \in Seq(Messages)
      /\ Len(con) <= Keep /\ Len(ser) <= Keep
      /\ LineMax \in Nat /\ QueueMax \in Nat /\ RxMax \in Nat
      /\ <<>> \in Seq(Text) /\ Len(<<>>) = 0
      /\ "vga" \in User /\ "serial" \in User
  BY ChatAssumption DEF TypeOK, Message, Messages, User
<1>1. CASE ChatInit
  <2>1. <<>> \in Seq(Char) /\ Len(<<>>) <= QueueMax /\ Len(<<>>) <= LineMax
    BY <1>0
  <2>2. TypeOK'
    BY <1>0, <1>1, <2>1 DEF ChatInit, TypeOK, Place, devices, logs
  <2>3. QED
    BY <1>1, <2>2 DEF ChatInit, FlagInv, LogInv, LineInv, logs
<1>2. ASSUME NEW ch \in Char, KeyPress(ch)
      PROVE  IInv'
  BY <1>2 DEF KeyPress, TypeOK, FlagInv, LogInv, LineInv, logs, Message
<1>3. CASE KeyIrq
  <2>1. key \in Char /\ queue \in Seq(Char) /\ Len(queue) <= QueueMax
    BY <1>3 DEF KeyIrq, TypeOK
  <2>2. Append(queue, key) \in Seq(Char) /\ Len(Append(queue, key)) = Len(queue) + 1
        /\ Len(queue) \in Nat
    BY <2>1, AppendIs
  <2>3. queue' \in Seq(Char) /\ Len(queue') <= QueueMax
    BY <1>0, <1>3, <2>1, <2>2 DEF KeyIrq
  <2>4. QED
    BY <1>3, <2>3 DEF KeyIrq, TypeOK, FlagInv, LogInv, LineInv, logs, Message
<1>4. ASSUME NEW ch \in Char, SerArrive(ch)
      PROVE  IInv'
  <2>1. Append(rx, ch) \in Seq(Char) /\ Len(Append(rx, ch)) = Len(rx) + 1
        /\ Len(rx) \in Nat
    BY AppendIs DEF TypeOK
  <2>2. rx' \in Seq(Char) /\ Len(rx') <= RxMax
    BY <1>0, <1>4, <2>1 DEF SerArrive
  <2>3. QED
    BY <1>4, <2>2 DEF SerArrive, TypeOK, FlagInv, LogInv, LineInv, logs, Message
<1>5. CASE UartDrain
  BY <1>5 DEF UartDrain, TypeOK, FlagInv, LogInv, LineInv, logs, Message
<1>6. CASE PopEnter
  BY <1>6 DEF PopEnter, TypeOK, Place, FlagInv, LogInv, LineInv, devices, logs
<1>7. CASE PopEmpty
  BY <1>0, <1>7 DEF PopEmpty, TypeOK, Place, FlagInv, LogInv, LineInv, devices, logs
<1>8. CASE PopTake
  <2>1. /\ Head(queue) \in Char /\ Tail(queue) \in Seq(Char)
        /\ Len(queue) \in Nat /\ Len(Tail(queue)) = Len(queue) - 1
    BY <1>8, TailIs DEF PopTake, TypeOK
  <2>2. /\ line' \in [User -> Seq(Text)]
        /\ \A u \in User : Len(line'[u]) <= LineMax
        /\ at' \in {"eol", "command", "loop", "echo"}
    BY <1>8, <2>1, ProcessCharIs DEF PopTake
  <2>3. Len(queue') <= QueueMax /\ queue' \in Seq(Char)
    BY <1>0, <1>8, <2>1 DEF PopTake, TypeOK
  <2>4. TypeOK'
    BY <1>8, <2>2, <2>3 DEF PopTake, TypeOK, Place, devices, logs
  <2>5. QED
    BY <1>8, <2>2, <2>4 DEF PopTake, FlagInv, LogInv, LineInv, logs
<1>9. CASE RxTake
  <2>1. /\ Head(rx) \in Char /\ Tail(rx) \in Seq(Char)
        /\ Len(rx) \in Nat /\ Len(Tail(rx)) = Len(rx) - 1
    BY <1>9, TailIs DEF RxTake, TypeOK
  <2>2. /\ line' \in [User -> Seq(Text)]
        /\ \A u \in User : Len(line'[u]) <= LineMax
        /\ at' \in {"eol", "command", "loop", "echo"}
    BY <1>9, <2>1, ProcessCharIs DEF RxTake
  <2>3. Len(rx') <= RxMax /\ rx' \in Seq(Char)
    BY <1>0, <1>9, <2>1 DEF RxTake, TypeOK
  <2>4. TypeOK'
    BY <1>9, <2>2, <2>3 DEF RxTake, TypeOK, Place, logs
  <2>5. QED
    BY <1>9, <2>2, <2>4 DEF RxTake, FlagInv, LogInv, LineInv, logs
<1>10. CASE RxEmpty
  BY <1>0, <1>10 DEF RxEmpty, TypeOK, FlagInv, LogInv, LineInv, devices, logs
<1>11. CASE Echo
  BY <1>11 DEF Echo, Send, TypeOK, Place, FlagInv, LogInv, LineInv, logs
<1>12. CASE TryCommand
  <2>1. /\ at' \in {"hung", "demo", "clear", "submit"}
        /\ at' = "demo" => line[user] = Transferir
        /\ at' = "submit" => line[user] \notin Commands
    BY <1>12 DEF TryCommand, Commands
  <2>2. TypeOK'
    BY <1>12, <2>1 DEF TryCommand, TypeOK, Place, devices, logs
  <2>3. QED
    BY <1>12, <2>1, <2>2 DEF TryCommand, FlagInv, LogInv, LineInv, logs
<1>13. CASE Demo
  BY <1>13 DEF Demo, Send, TypeOK, Place, FlagInv, LogInv, LineInv, logs
<1>14. CASE Submit
  <2>1. CASE line[user] = <<>>
    BY <1>14, <2>1 DEF Submit, TypeOK, Place, FlagInv, LogInv, LineInv, devices, logs
  <2>2. CASE line[user] # <<>>
    BY <1>14, <2>2 DEF Submit, TypeOK, Place, FlagInv, LogInv, LineInv, devices, logs
  <2>3. QED
    BY <2>1, <2>2
<1>15. CASE ConsoleWrite
  <2>1. con' = Log(ser, Message) /\ Message' = Message /\ ser' = ser
    BY <1>15 DEF ConsoleWrite, LogInv, Message
  <2>2. con' \in Seq(Messages) /\ Len(con') <= Keep
    BY <1>0, <2>1, LogIs
  <2>3. TypeOK'
    BY <1>15, <2>2 DEF ConsoleWrite, TypeOK, Place, devices, Messages
  <2>4. LogInv'
    BY <1>15, <2>1 DEF ConsoleWrite, LogInv, Log
  <2>5. QED
    BY <1>15, <2>3, <2>4 DEF ConsoleWrite, FlagInv, LineInv
<1>16. CASE SerialPrint
  <2>1. con' = con /\ ser' = Log(ser, Message) /\ con = Log(ser, Message)
    BY <1>16 DEF SerialPrint, Send, LogInv
  <2>2. ser' \in Seq(Messages) /\ Len(ser') <= Keep
    BY <1>0, <2>1
  <2>3. TypeOK'
    BY <1>16, <2>2 DEF SerialPrint, Send, TypeOK, Place, Messages
  <2>4. QED
    BY <1>16, <2>1, <2>3 DEF SerialPrint, Send, FlagInv, LogInv, LineInv
<1>17. CASE SubmitLeave
  BY <1>17 DEF SubmitLeave, TypeOK, Place, FlagInv, LogInv, LineInv, devices, logs
<1>18. CASE ClearLine
  <2>1. /\ line' \in [User -> Seq(Text)]
        /\ \A u \in User : Len(line'[u]) <= LineMax
    BY <1>0, <1>18 DEF ClearLine, TypeOK
  <2>2. QED
    BY <1>18, <2>1 DEF ClearLine, TypeOK, Place, FlagInv, LogInv, LineInv, devices, logs
<1>19. CASE UNCHANGED vars
  BY <1>19 DEF vars, TypeOK, FlagInv, LogInv, LineInv, Message
<1>20. QED
  BY <1>1, <1>2, <1>3, <1>4, <1>5, <1>6, <1>7, <1>8, <1>9, <1>10, <1>11, <1>12,
     <1>13, <1>14, <1>15, <1>16, <1>17, <1>18, <1>19 DEF Next, Main, SerArrives

LEMMA InvAlways == Spec => []IInv
<1>1. Init => IInv
  BY InvInit
<1>2. IInv /\ [Next]_vars => IInv'
  BY InvStep
<1>3. QED
  BY <1>1, <1>2, PTL DEF Spec

(* Lines and queues never outgrow their bounds, whatever arrives when.      *)
THEOREM TypeCorrect == Spec => []TypeOK
<1>1. IInv => TypeOK
  BY DEF IInv
<1>2. QED
  BY <1>1, InvAlways, PTL

(* Whenever interrupts are on, the console and the serial port have shown   *)
(* the same messages in the same order.                                     *)
THEOREM BothEnds == Spec => []SameTranscript
<1>1. IInv => SameTranscript
  BY DEF IInv, FlagInv, LogInv, SameTranscript
<1>2. QED
  BY <1>1, InvAlways, PTL

-----------------------------------------------------------------------------
(* The chat implements ChatRoom.                                            *)

Draft == [u \in User |-> IF u = user /\ at \in {"print", "sti", "clear"}
                         THEN <<>> ELSE line[u]]

RoomSame == Draft' = Draft /\ con' = con /\ (at' = "hung" <=> at = "hung")

(* A step that shows no more of anybody's line than before is a stutter.    *)
LEMMA Stutter ==
  ASSUME RoomSame
  PROVE  UNCHANGED ChatRoomView!vars
  BY DEF RoomSame, Draft, ChatRoomView!vars

(* Each of these is a step of the room, whoever takes it.                   *)
LEMMA RoomStep ==
  ASSUME NEW u \in User,
         \/ \E ch \in Text : ChatRoomView!Type(u, ch)
         \/ ChatRoomView!Erase(u)
         \/ ChatRoomView!Post(u)
         \/ ChatRoomView!Obey(u)
         \/ ChatRoomView!Hang(u)
  PROVE  ChatRoomView!Next
  BY DEF ChatRoomView!Next

(* A character the main loop takes is one the user types or erases, or      *)
(* nothing to the room.                                                     *)
LEMMA CharStep ==
  ASSUME TypeOK, at \in {"pop", "loop"}, NEW ch \in Char, ProcessChar(ch),
         user' = user, con' = con
  PROVE  ChatRoomView!Next \/ UNCHANGED ChatRoomView!vars
<1>0. PICK u \in User : u = user
  BY DEF TypeOK
<1>1. /\ line \in [User -> Seq(Text)] /\ user \in User
      /\ line[user] \in Seq(Text) /\ Len(line[user]) \in Nat
      /\ Draft = line /\ at # "hung"
  BY DEF TypeOK, Draft
<1>2. /\ at' \notin {"print", "sti", "clear", "hung"}
      /\ line' \in [User -> Seq(Text)]
      /\ Draft' = line'
  BY ProcessCharIs DEF Draft, ProcessChar
<1>3. CASE line' = line
  <2>1. RoomSame
    BY <1>1, <1>2, <1>3 DEF RoomSame
  <2>2. QED
    BY <2>1, Stutter
<1>4. CASE line' # line
  <2>1. CASE line' = [line EXCEPT ![user] = Append(@, ch)] /\ ch \in Text
             /\ Len(line[user]) < LineMax
    <3>1. ChatRoomView!Type(u, ch)
      BY <1>0, <1>1, <1>2, <2>1 DEF ChatRoomView!Type, Draft
    <3>2. QED
      BY <2>1, <3>1, RoomStep
  <2>2. CASE line' = [line EXCEPT ![user] = IF @ = <<>> THEN @
                                            ELSE SubSeq(@, 1, Len(@) - 1)]
    <3>1. line[user] # <<>>
      BY <1>1, <1>4, <2>2
    <3>2. line' = [line EXCEPT ![user] = SubSeq(@, 1, Len(@) - 1)]
      BY <2>2, <3>1
    <3>3. ChatRoomView!Erase(u)
      BY <1>0, <1>1, <1>2, <3>1, <3>2 DEF ChatRoomView!Erase, Draft
    <3>4. QED
      BY <3>3, RoomStep
  <2>3. QED
    BY <1>4, <2>1, <2>2 DEF ProcessChar
<1>5. QED
  BY <1>3, <1>4

LEMMA Simulation ==
  ASSUME IInv, [Next]_vars
  PROVE  [ChatRoomView!Next]_(ChatRoomView!vars)
<1> USE DEF IInv
<1> DEFINE Goal == ChatRoomView!Next \/ UNCHANGED ChatRoomView!vars
<1> SUFFICES Goal
  OBVIOUS
<1>u. PICK u \in User : u = user
  BY DEF TypeOK
<1>0. /\ line \in [User -> Seq(Text)] /\ user \in User
      /\ line[user] \in Seq(Text) /\ "vga" \in User /\ "serial" \in User
  BY DEF TypeOK, User
<1>1. CASE ChatInit
  <2>1. RoomSame
    BY <1>0, <1>1 DEF ChatInit, RoomSame, Draft, LineInv, logs
  <2>2. QED
    BY <2>1, Stutter
<1>2. ASSUME NEW ch \in Char, KeyPress(ch)
      PROVE  Goal
  <2>1. RoomSame
    BY <1>2 DEF KeyPress, RoomSame, Draft, logs
  <2>2. QED
    BY <2>1, Stutter
<1>3. CASE KeyIrq
  <2>1. RoomSame
    BY <1>3 DEF KeyIrq, RoomSame, Draft, logs
  <2>2. QED
    BY <2>1, Stutter
<1>4. ASSUME NEW ch \in Char, SerArrive(ch)
      PROVE  Goal
  <2>1. RoomSame
    BY <1>4 DEF SerArrive, RoomSame, Draft, logs
  <2>2. QED
    BY <2>1, Stutter
<1>5. CASE UartDrain
  <2>1. RoomSame
    BY <1>5 DEF UartDrain, RoomSame, Draft, logs
  <2>2. QED
    BY <2>1, Stutter
<1>6. CASE PopEnter
  <2>1. RoomSame
    BY <1>6 DEF PopEnter, RoomSame, Draft, logs
  <2>2. QED
    BY <2>1, Stutter
<1>7. CASE PopEmpty
  <2>1. RoomSame
    BY <1>7 DEF PopEmpty, RoomSame, Draft, logs
  <2>2. QED
    BY <2>1, Stutter
<1>8. CASE PopTake
  <2>1. Head(queue) \in Char
    BY <1>8, TailIs DEF PopTake, TypeOK
  <2>2. QED
    BY <1>8, <2>1, CharStep DEF PopTake, logs
<1>9. CASE RxTake
  <2>1. Head(rx) \in Char
    BY <1>9, TailIs DEF RxTake, TypeOK
  <2>2. QED
    BY <1>9, <2>1, CharStep DEF RxTake, logs
<1>10. CASE RxEmpty
  <2>1. RoomSame
    BY <1>10 DEF RxEmpty, RoomSame, Draft, logs
  <2>2. QED
    BY <2>1, Stutter
<1>11. CASE Echo
  <2>1. RoomSame
    BY <1>11 DEF Echo, Send, RoomSame, Draft, logs
  <2>2. QED
    BY <2>1, Stutter
<1>12. CASE TryCommand
  <2>1. at = "command" /\ Draft = line /\ line' = line /\ user' = user /\ con' = con
    BY <1>0, <1>12 DEF TryCommand, Draft, logs
  <2>2. CASE line[user] = Deadlock
    <3>1. at' = "hung" /\ Draft' = line
      BY <1>0, <1>12, <2>1, <2>2, ChatAssumption DEF TryCommand, Draft
    <3>2. ChatRoomView!Hang(u)
      BY <1>u, <2>1, <2>2, <3>1 DEF ChatRoomView!Hang, Draft
    <3>3. QED
      BY <3>2, RoomStep
  <2>3. CASE line[user] = Help
    <3>1. at' = "clear" /\ Draft' = [line EXCEPT ![user] = <<>>]
      BY <1>0, <1>12, <2>1, <2>3, ChatAssumption DEF TryCommand, Draft
    <3>2. line[user] \in Commands \ {Deadlock}
      BY <2>3, ChatAssumption DEF Commands
    <3>3. ChatRoomView!Obey(u)
      BY <1>u, <2>1, <3>1, <3>2 DEF ChatRoomView!Obey, Draft
    <3>4. QED
      BY <3>3, RoomStep
  <2>4. CASE line[user] \notin {Deadlock, Help}
    <3>1. at' \in {"demo", "submit"}
      BY <1>12, <2>4, ChatAssumption DEF TryCommand
    <3>2. RoomSame
      BY <1>0, <2>1, <3>1 DEF RoomSame, Draft
    <3>3. QED
      BY <3>2, Stutter
  <2>5. QED
    BY <2>2, <2>3, <2>4
<1>13. CASE Demo
  <2>1. /\ at = "demo" /\ at' = "clear" /\ line[user] = Transferir
        /\ line' = line /\ user' = user /\ con' = con
    BY <1>13 DEF Demo, Send, LineInv, logs
  <2>2. Draft = line /\ Draft' = [line EXCEPT ![user] = <<>>]
    BY <1>0, <2>1 DEF Draft
  <2>3. line[user] \in Commands \ {Deadlock}
    BY <2>1, ChatAssumption DEF Commands
  <2>4. ChatRoomView!Obey(u)
    BY <1>u, <2>1, <2>2, <2>3 DEF ChatRoomView!Obey, Draft
  <2>5. QED
    BY <2>4, RoomStep
<1>14. CASE Submit
  <2>1. RoomSame
    BY <1>0, <1>14 DEF Submit, RoomSame, Draft, logs
  <2>2. QED
    BY <2>1, Stutter
<1>15. CASE ConsoleWrite
  <2>1. /\ at = "console" /\ at' = "print" /\ line' = line /\ user' = user
        /\ line[user] \notin Commands \cup {<<>>}
        /\ con' = Log(con, [from |-> user, text |-> line[user]])
    BY <1>15 DEF ConsoleWrite, Message, LineInv
  <2>2. Draft = line /\ Draft' = [line EXCEPT ![user] = <<>>]
    BY <1>0, <2>1 DEF Draft
  <2>3. ChatRoomView!Post(u)
    BY <1>u, <2>1, <2>2 DEF ChatRoomView!Post, ChatRoomView!Log, Log, Draft
  <2>4. QED
    BY <2>3, RoomStep
<1>16. CASE SerialPrint
  <2>1. RoomSame
    BY <1>16 DEF SerialPrint, Send, RoomSame, Draft
  <2>2. QED
    BY <2>1, Stutter
<1>17. CASE SubmitLeave
  <2>1. RoomSame
    BY <1>17 DEF SubmitLeave, RoomSame, Draft, logs
  <2>2. QED
    BY <2>1, Stutter
<1>18. CASE ClearLine
  <2>1. RoomSame
    BY <1>0, <1>18 DEF ClearLine, RoomSame, Draft, logs
  <2>2. QED
    BY <2>1, Stutter
<1>19. CASE UNCHANGED vars
  <2>1. RoomSame
    BY <1>19 DEF vars, RoomSame, Draft
  <2>2. QED
    BY <2>1, Stutter
<1>20. QED
  BY <1>1, <1>2, <1>3, <1>4, <1>5, <1>6, <1>7, <1>8, <1>9, <1>10, <1>11, <1>12,
     <1>13, <1>14, <1>15, <1>16, <1>17, <1>18, <1>19 DEF Next, Main, SerArrives

(* Whatever is typed at either end, and whenever the devices interrupt or   *)
(* are busy, the two users get the chat room ChatRoom describes.            *)
THEOREM Refinement == Spec => ImplementsRoom
<1>1. Init => ChatRoomView!Init
  BY DEF Init, ChatRoomView!Init
<1>2. IInv /\ [Next]_vars => [ChatRoomView!Next]_(ChatRoomView!vars)
  BY Simulation
<1>3. QED
  BY <1>1, <1>2, InvAlways, PTL DEF Spec, ImplementsRoom, ChatRoomView!Spec
=============================================================================
