------------------------------ MODULE Keyboard ------------------------------
(***************************************************************************)
(* The keyboard driver and its ring buffer (keyboard.c, chat.c:6-11 and    *)
(* 92-128).  Two actors share the ring: the IRQ 1 handler, which runs only *)
(* while the interrupt flag is set and enqueues at the tail, and the main  *)
(* loop, which dequeues at the head with interrupts off.  kmain sets the   *)
(* flag before chat_init resets the two indices, so the handler also runs  *)
(* before and between those two stores.                                    *)
(***************************************************************************)
EXTENDS Naturals, Sequences

CONSTANTS ScanCode,   \* the bytes port 0x60 delivers
          Char,       \* the characters the driver can enqueue
          Backspace,  \* '\b', which the translation table does not hold
          Keymap,     \* scancode_to_ascii: 0..127 to a character or NoChar
          RingSize,   \* KBD_RING_SZ
          NoCode,     \* the controller's output buffer is empty
          NoChar      \* the byte 0: an unmapped key, a slot never written

\* kbd_head and kbd_tail are unsigned char, so a ring has at most 256 slots.
ASSUME KeyboardAssumption ==
  /\ ScanCode \subseteq 0..255
  /\ NoCode \notin ScanCode
  /\ NoChar \notin Char
  /\ Backspace \in Char
  /\ Keymap \in [0..127 -> Char \cup {NoChar}]
  /\ RingSize \in 1..256

VARIABLES obf,    \* the 8042 output buffer: a scan code or NoCode
          ring,   \* kbd_ring
          head,   \* kbd_head, written by the main loop only
          tail,   \* kbd_tail, written by the handler and by chat_init
          ifl,    \* the CPU's interrupt flag
          pc,     \* where the main thread is
          c       \* chat_poll's local: the last character popped

vars == <<obf, ring, head, tail, ifl, pc, c>>

Slot == 0 .. RingSize - 1
Booting == {"cli", "sti", "init"}
PC == Booting \cup {"poll", "crit", "took"}

Byte(n) == n % 256

\* The number of characters between head and tail, and the characters.
Count == IF head <= tail THEN tail - head ELSE tail + RingSize - head
Contents == [i \in 1..Count |-> ring[(head + i - 1) % RingSize]]

-----------------------------------------------------------------------------
\* static storage is zeroed; interrupts stay off until kmain's sti.
Init == /\ obf = NoCode
        /\ ring = [s \in Slot |-> NoChar]
        /\ head = 0
        /\ tail = 0
        /\ ifl = FALSE
        /\ pc = "cli"
        /\ c = NoChar

\* Break codes and unmapped keys translate to nothing.
Translate(code) ==
  IF code >= 128 THEN NoChar
  ELSE IF code = 14 THEN Backspace ELSE Keymap[code]

\* Fault: the ring is never seen full.
EnqueueNoFullTest(ch) ==
  /\ ring' = [ring EXCEPT ![tail] = ch]
  /\ tail' = Byte((tail + 1) % RingSize)

\* Fault: the character goes into the slot after the tail.
EnqueueAfterTail(ch) ==
  LET next == (tail + 1) % RingSize IN
  \/ next = head /\ UNCHANGED <<ring, tail>>
  \/ next # head /\ ring' = [ring EXCEPT ![next] = ch] /\ tail' = Byte(next)

\* chat_kbd_enqueue
Enqueue(ch) ==
  LET next == (tail + 1) % RingSize IN
  \/ next = head /\ UNCHANGED <<ring, tail>>
  \/ next # head /\ ring' = [ring EXCEPT ![tail] = ch] /\ tail' = Byte(next)

\* The keyboard controller latches a byte when its buffer is free.
KeyEvent(code) == /\ obf = NoCode
                  /\ obf' = code
                  /\ UNCHANGED <<ring, head, tail, ifl, pc, c>>

\* One turn of keyboard_handler's loop, reached through the IRQ 1 gate.
KeyboardIrq == /\ ifl
               /\ obf # NoCode
               /\ obf' = NoCode
               /\ IF Translate(obf) = NoChar
                  THEN UNCHANGED <<ring, tail>>
                  ELSE Enqueue(Translate(obf))
               /\ UNCHANGED <<head, ifl, pc, c>>

\* kmain's sti, long before chat_init.
Sti == /\ pc = "cli"
       /\ pc' = "sti"
       /\ ifl' = TRUE
       /\ UNCHANGED <<obf, ring, head, tail, c>>

\* chat_init resets the indices one store at a time, interrupts on.
InitHead == /\ pc = "sti"
            /\ pc' = "init"
            /\ head' = 0
            /\ UNCHANGED <<obf, ring, tail, ifl, c>>

InitTail == /\ pc = "init"
            /\ pc' = "poll"
            /\ tail' = 0
            /\ UNCHANGED <<obf, ring, head, ifl, c>>

\* kbd_pop: cli, then either branch, each with its own sti.
PopEnter == /\ pc = "poll"
            /\ pc' = "crit"
            /\ ifl' = FALSE
            /\ UNCHANGED <<obf, ring, head, tail, c>>

PopEmpty == /\ pc = "crit"
            /\ head = tail
            /\ pc' = "poll"
            /\ ifl' = TRUE
            /\ UNCHANGED <<obf, ring, head, tail, c>>

\* Fault: the head is advanced without the wrap-around.
PopTakeNoWrap == /\ pc = "crit"
                 /\ head # tail
                 /\ pc' = "took"
                 /\ c' = ring[head]
                 /\ head' = Byte(head + 1)
                 /\ UNCHANGED <<obf, ring, tail, ifl>>

PopTake == /\ pc = "crit"
           /\ head # tail
           /\ pc' = "took"
           /\ c' = ring[head]
           /\ head' = Byte((head + 1) % RingSize)
           /\ UNCHANGED <<obf, ring, tail, ifl>>

PopLeave == /\ pc = "took"
            /\ pc' = "poll"
            /\ ifl' = TRUE
            /\ UNCHANGED <<obf, ring, head, tail, c>>

Next == \/ \E code \in ScanCode : KeyEvent(code)
        \/ KeyboardIrq
        \/ Sti
        \/ InitHead
        \/ InitTail
        \/ PopEnter
        \/ PopEmpty
        \/ PopTake
        \/ PopLeave

Spec == Init /\ [][Next]_vars

-----------------------------------------------------------------------------
(* Every variable keeps its type; in particular both indices of the ring    *)
(* (chat.c:10-11) stay inside it after every increment and reset.           *)
TypeOK == /\ obf \in ScanCode \cup {NoCode}
          /\ ring \in [Slot -> Char \cup {NoChar}]
          /\ head \in Slot
          /\ tail \in Slot
          /\ ifl \in BOOLEAN
          /\ pc \in PC
          /\ c \in Char \cup {NoChar}

(* Every slot between head and tail holds a character the handler put there *)
(* (chat.c:110): kbd_pop never returns a byte nobody typed, whatever the    *)
(* handler did before, during and after chat_init.                          *)
LiveSlotsTyped == \A i \in 1..Count : ring[(head + i - 1) % RingSize] \in Char

\* Until chat_init has reset the tail nobody has popped anything.
BootHead == pc \in Booting => head = 0

\* The main thread runs kbd_pop's body with interrupts off (chat.c:118-126).
CritMasked == pc \in {"cli", "crit", "took"} <=> ~ifl

IInv == TypeOK /\ LiveSlotsTyped /\ BootHead /\ CritMasked

(* The ring implements a bounded first-in first-out queue of RingSize - 1   *)
(* characters: what the handler accepts is popped once, in order; a key is  *)
(* dropped only when the queue is full; and keys typed between kmain's sti  *)
(* and the end of chat_init are all discarded by the reset of kbd_tail.     *)
Fifo == INSTANCE BoundedFifo
          WITH Elem <- Char, NoElem <- NoChar, Capacity <- RingSize - 1,
               input <- IF obf = NoCode THEN NoChar ELSE Translate(obf),
               queue <- Contents, taken <- c, open <- pc \notin Booting

ImplementsFifo == Fifo!Spec
=============================================================================
