-------------------------------- MODULE Chat --------------------------------
(***************************************************************************)
(* The chat as a whole: chat_poll's two loops over the keyboard queue and  *)
(* the serial receiver, the two line editors, commands, and chat_submit    *)
(* with interrupts off, against the devices: a keyboard that interrupts, a *)
(* UART that receives at any moment and needs time to transmit.            *)
(*                                                                         *)
(* The keyboard queue is the one BoundedFifo promises (the ring is in      *)
(* Keyboard), the lines are those LineSpec promises (the arrays are in     *)
(* LineEdit) and a demonstration is one step (its own are in               *)
(* DeadlockDemo).  A string sent to the UART is one transmission.  Control *)
(* characters the editors ignore are left out, and so is what is displayed *)
(* besides the messages.                                                   *)
(***************************************************************************)
EXTENDS Naturals, Sequences

CONSTANTS Text,        \* the characters a line can hold
          Enter, Backspace, NoChar,
          Deadlock, Transferir, Help,   \* the three commands
          LineMax,     \* LINE_MAX
          QueueMax,    \* KBD_RING_SZ - 1
          RxMax,       \* the UART's receive FIFO
          Keep         \* how many of the last messages the logs hold

Commands == {Deadlock, Transferir, Help}

ASSUME ChatAssumption == /\ {Enter, Backspace} \cap Text = {}
                         /\ Enter # Backspace
                         /\ NoChar \notin Text \cup {Enter, Backspace}
                         /\ Commands \subseteq Seq(Text) \ {<<>>}
                         /\ Deadlock \notin {Transferir, Help}
                         /\ Transferir # Help
                         /\ LineMax \in Nat \ {0}
                         /\ QueueMax \in Nat \ {0}
                         /\ RxMax \in Nat \ {0}
                         /\ Keep \in Nat \ {0}

VARIABLES key,     \* the key the controller holds, or NoChar
          queue,   \* the keyboard queue
          rx,      \* the bytes received on the serial port and not read
          thr,     \* the UART can take something to transmit
          ifl,     \* the CPU's interrupt flag
          at,      \* where the main loop is
          user,    \* whose loop it is in: the keyboard's or the serial port's
          line,    \* user to the line being typed
          con,     \* the last messages shown on the console
          ser      \* the last messages sent on the serial port

devices == <<key, rx, thr>>
logs == <<con, ser>>
vars == <<key, queue, rx, thr, ifl, at, user, line, con, ser>>

User == {"vga", "serial"}
Char == Text \cup {Enter, Backspace}
Place == {"init", "loop", "pop", "echo", "eol", "command", "demo", "submit",
          "console", "print", "sti", "clear", "hung"}

Log(l, m) == LET all == Append(l, m)
             IN  IF Len(all) <= Keep THEN all ELSE Tail(all)

-----------------------------------------------------------------------------
\* chat_init is about to run; kmain has enabled interrupts long before.
Init == /\ key = NoChar
        /\ queue = <<>>
        /\ rx = <<>>
        /\ thr = TRUE
        /\ ifl = TRUE
        /\ at = "init"
        /\ user = "vga"
        /\ line = [u \in User |-> <<>>]
        /\ con = <<>>
        /\ ser = <<>>

\* What was typed before the chat was ready is discarded.
ChatInit == /\ at = "init"
            /\ at' = "loop"
            /\ queue' = <<>>
            /\ line' = [u \in User |-> <<>>]
            /\ UNCHANGED <<devices, ifl, user, logs>>

-----------------------------------------------------------------------------
(* The devices.                                                             *)
KeyPress(ch) == /\ key = NoChar
                /\ key' = ch
                /\ UNCHANGED <<queue, rx, thr, ifl, at, user, line, logs>>

\* keyboard_handler through chat_kbd_enqueue: a full queue drops the key.
KeyIrq == /\ ifl
          /\ key # NoChar
          /\ key' = NoChar
          /\ queue' = IF Len(queue) < QueueMax THEN Append(queue, key) ELSE queue
          /\ UNCHANGED <<rx, thr, ifl, at, user, line, logs>>

\* A byte that arrives while the receive FIFO is full is lost.
SerArrive(ch) == /\ Len(rx) < RxMax
                 /\ rx' = Append(rx, ch)
                 /\ UNCHANGED <<key, queue, thr, ifl, at, user, line, logs>>

UartDrain == /\ ~thr
             /\ thr' = TRUE
             /\ UNCHANGED <<key, queue, rx, ifl, at, user, line, logs>>

-----------------------------------------------------------------------------
(* chat_poll.                                                               *)
\* Fault: a full line takes one more character.
ProcessCharFull(ch) ==
  \/ /\ ch = Enter
     /\ at' = IF user = "serial" THEN "eol" ELSE "command"
     /\ UNCHANGED line
  \/ /\ ch = Backspace
     /\ at' = "loop"
     /\ line' = [line EXCEPT ![user] = IF @ = <<>> THEN @
                                       ELSE SubSeq(@, 1, Len(@) - 1)]
  \/ /\ ch \in Text
     /\ Len(line[user]) <= LineMax
     /\ at' = IF user = "serial" THEN "echo" ELSE "loop"
     /\ line' = [line EXCEPT ![user] = Append(@, ch)]
  \/ /\ ch \in Text
     /\ Len(line[user]) > LineMax
     /\ at' = "loop"
     /\ UNCHANGED line

\* kbd_process_char and ser_process_char, up to Enter.
ProcessChar(ch) ==
  \/ /\ ch = Enter
     /\ at' = IF user = "serial" THEN "eol" ELSE "command"
     /\ UNCHANGED line
  \/ /\ ch = Backspace
     /\ at' = "loop"
     /\ line' = [line EXCEPT ![user] = IF @ = <<>> THEN @
                                       ELSE SubSeq(@, 1, Len(@) - 1)]
  \/ /\ ch \in Text
     /\ Len(line[user]) < LineMax
     /\ at' = IF user = "serial" THEN "echo" ELSE "loop"
     /\ line' = [line EXCEPT ![user] = Append(@, ch)]
  \/ /\ ch \in Text
     /\ Len(line[user]) = LineMax
     /\ at' = "loop"
     /\ UNCHANGED line

PopEnter == /\ at = "loop"
            /\ user = "vga"
            /\ at' = "pop"
            /\ ifl' = FALSE
            /\ UNCHANGED <<devices, queue, user, line, logs>>

\* Fault: the early return leaves interrupts off.
PopEmptyNoSti == /\ at = "pop"
                 /\ queue = <<>>
                 /\ at' = "loop"
                 /\ user' = "serial"
                 /\ UNCHANGED <<devices, queue, ifl, line, logs>>

PopEmpty == /\ at = "pop"
            /\ queue = <<>>
            /\ at' = "loop"
            /\ user' = "serial"
            /\ ifl' = TRUE
            /\ UNCHANGED <<devices, queue, line, logs>>

PopTake == /\ at = "pop"
           /\ queue # <<>>
           /\ ProcessChar(Head(queue))
           /\ queue' = Tail(queue)
           /\ ifl' = TRUE
           /\ UNCHANGED <<devices, user, logs>>

RxTake == /\ at = "loop"
          /\ user = "serial"
          /\ rx # <<>>
          /\ ProcessChar(Head(rx))
          /\ rx' = Tail(rx)
          /\ UNCHANGED <<key, queue, thr, ifl, user, logs>>

\* Fault: chat_poll waits for a serial byte.
RxWait == /\ at = "loop"
          /\ user = "serial"
          /\ rx = <<>>
          /\ UNCHANGED vars

\* chat_poll returns and kmain calls it again.
RxEmpty == /\ at = "loop"
           /\ user = "serial"
           /\ rx = <<>>
           /\ user' = "vga"
           /\ UNCHANGED <<devices, queue, ifl, at, line, logs>>

Send(from, to) == /\ at = from
                  /\ at' = to
                  /\ thr
                  /\ thr' = FALSE
                  /\ UNCHANGED <<key, queue, rx, user>>

\* The serial user's characters and Enter are sent back.
Echo == /\ Send("echo", "loop") \/ Send("eol", "command")
        /\ UNCHANGED <<ifl, line, logs>>

\* chat_try_command; what /deadlock prints before it hangs is left out.
TryCommand ==
  /\ at = "command"
  /\ at' = CASE line[user] = Deadlock   -> "hung"
             [] line[user] = Transferir -> "demo"
             [] line[user] = Help       -> "clear"
             [] OTHER                   -> "submit"
  /\ UNCHANGED <<devices, queue, ifl, user, line, logs>>

Demo == /\ Send("demo", "clear")
        /\ UNCHANGED <<ifl, line, logs>>

-----------------------------------------------------------------------------
(* chat_submit, and the end of the line after it.                           *)
\* Fault: the keyboard's line is submitted whoever pressed Enter.
MessageOfVga == [from |-> user, text |-> line["vga"]]

Message == [from |-> user, text |-> line[user]]

Submit == /\ at = "submit"
          /\ IF line[user] = <<>>
             THEN at' = "clear" /\ UNCHANGED ifl
             ELSE at' = "console" /\ ifl' = FALSE
          /\ UNCHANGED <<devices, queue, user, line, logs>>

ConsoleWrite == /\ at = "console"
                /\ at' = "print"
                /\ con' = Log(con, Message)
                /\ UNCHANGED <<devices, queue, ifl, user, line, ser>>

\* Fault: a busy transmitter is not waited for.
SerialGivesUp == /\ at = "print"
                 /\ at' = "sti"
                 /\ ser' = IF thr THEN Log(ser, Message) ELSE ser
                 /\ thr' = FALSE
                 /\ UNCHANGED <<key, queue, rx, ifl, user, line, con>>

SerialPrint == /\ Send("print", "sti")
               /\ ser' = Log(ser, Message)
               /\ UNCHANGED <<ifl, line, con>>

SubmitLeave == /\ at = "sti"
               /\ at' = "clear"
               /\ ifl' = TRUE
               /\ UNCHANGED <<devices, queue, user, line, logs>>

ClearLine == /\ at = "clear"
             /\ at' = "loop"
             /\ line' = [line EXCEPT ![user] = <<>>]
             /\ UNCHANGED <<devices, queue, ifl, user, logs>>

-----------------------------------------------------------------------------
Main == \/ ChatInit
        \/ PopEnter
        \/ PopEmpty
        \/ PopTake
        \/ RxTake
        \/ RxEmpty
        \/ Echo
        \/ TryCommand
        \/ Demo
        \/ Submit
        \/ ConsoleWrite
        \/ SerialPrint
        \/ SubmitLeave
        \/ ClearLine

SerArrives == \E ch \in Char : SerArrive(ch)

Next == \/ Main
        \/ \E ch \in Char : KeyPress(ch)
        \/ KeyIrq
        \/ SerArrives
        \/ UartDrain

\* The main loop is the only thread; a UART without flow control drains; a
\* pending interrupt is taken at the first instruction with the flag set, so
\* it cannot be passed over for ever by a loop that keeps setting it.
Fairness == WF_vars(Main) /\ WF_vars(UartDrain) /\ SF_vars(KeyIrq)

Spec == Init /\ [][Next]_vars /\ Fairness

-----------------------------------------------------------------------------
(* Every variable keeps its type; no line grows beyond LINE_MAX and neither *)
(* queue beyond its capacity.                                               *)
TypeOK == /\ key \in Char \cup {NoChar}
          /\ queue \in Seq(Char) /\ Len(queue) <= QueueMax
          /\ rx \in Seq(Char) /\ Len(rx) <= RxMax
          /\ thr \in BOOLEAN
          /\ ifl \in BOOLEAN
          /\ at \in Place
          /\ user \in User
          /\ line \in [User -> Seq(Text)]
          /\ \A u \in User : Len(line[u]) <= LineMax
          /\ con \in Seq([from : User, text : Seq(Text)]) /\ Len(con) <= Keep
          /\ ser \in Seq([from : User, text : Seq(Text)]) /\ Len(ser) <= Keep

(* Whenever interrupts are on, both ends of the chat have seen the same     *)
(* messages in the same order: the guarantee in chat_submit's comment       *)
(* (chat.c:41-44).                                                          *)
SameTranscript == ifl => con = ser

(* The polling loops implement the chat room: each user's characters build  *)
(* that user's line and no other, a line is posted once and whole under its *)
(* own author's name, commands are never posted, and after /deadlock        *)
(* nothing more is (chat.c:73-90, 130-219).                                 *)
ChatRoomView ==
  INSTANCE ChatRoom
    WITH draft <- [u \in User |->
                     IF u = user /\ at \in {"print", "sti", "clear"} THEN <<>>
                     ELSE line[u]],
         room <- con,
         hung <- at = "hung"

ImplementsRoom == ChatRoomView!Spec

(* A pressed key always reaches the interrupt handler: every cli of         *)
(* chat_poll is followed by its sti, on each way out, and waiting for the   *)
(* UART with interrupts off ends; even /deadlock leaves interrupts on       *)
(* (chat.c:54-57, 118-126, deadlock.c:153).                                 *)
KeyReachesHandler == key # NoChar ~> key = NoChar

EnterQueued == \E i \in 1..Len(queue) : queue[i] = Enter

(* If the serial line falls silent, an Enter in the keyboard queue is       *)
(* served, unless /deadlock came first: chat_poll drains the serial port    *)
(* until it is empty and only then looks at the keyboard (chat.c:212-218).  *)
KeyboardServed ==
  <>[][~SerArrives]_vars =>
    ((at # "init" /\ EnterQueued) ~>
       (at = "hung" \/ (at = "command" /\ user = "vga")))

IsLast(l, m) == l # <<>> /\ l[Len(l)] = m

(* What chat_submit accepts arrives: each message submitted becomes the     *)
(* last one on the console and on the serial port at once, and interrupts   *)
(* are on again (chat.c:54-57).                                             *)
Delivered ==
  \A u \in User, t \in UNION {[1..n -> Text] : n \in 1..LineMax} \ Commands :
    LET m == [from |-> u, text |-> t] IN
    (at = "submit" /\ Message = m) ~> (ifl /\ IsLast(con, m) /\ IsLast(ser, m))
=============================================================================
