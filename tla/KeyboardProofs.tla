--------------------------- MODULE KeyboardProofs ---------------------------
(***************************************************************************)
(* For every ring of 1 to 256 slots, every key map and every set of scan   *)
(* codes: Keyboard is type correct, its live slots hold typed characters,  *)
(* and it implements BoundedFifo.                                          *)
(***************************************************************************)
EXTENDS Keyboard, SequenceTheorems, TLAPS

-----------------------------------------------------------------------------
(* Arithmetic of the ring.                                                  *)

(* A number less than twice the modulus wraps by one subtraction.           *)
LEMMA ModOnce ==
  ASSUME NEW n \in Nat \ {0}, NEW k \in Nat, k < 2 * n
  PROVE  k % n = IF k < n THEN k ELSE k - n
  OBVIOUS

(* The ring has a first slot and at most 256 of them.                       *)
LEMMA RingSizeType ==
  /\ RingSize \in Nat \ {0}
  /\ RingSize <= 256
  /\ 0 \in Slot
  /\ Slot \subseteq Nat
  BY KeyboardAssumption DEF Slot

(* An index at most one turn ahead wraps by subtracting the ring's size.    *)
LEMMA Wrap ==
  ASSUME NEW k \in Nat, k < 2 * RingSize
  PROVE  /\ k % RingSize = IF k < RingSize THEN k ELSE k - RingSize
         /\ k % RingSize \in Slot
<1>1. k % RingSize = IF k < RingSize THEN k ELSE k - RingSize
  BY RingSizeType, ModOnce
<1>2. QED
  BY <1>1, RingSizeType DEF Slot

(* The cast to unsigned char changes no index of the ring.                  *)
LEMMA ByteOfSlot ==
  ASSUME NEW s \in Slot
  PROVE  Byte(s) = s
  BY RingSizeType DEF Slot, Byte

(* The successor of a slot is a slot.                                       *)
LEMMA Successor ==
  ASSUME NEW s \in Slot
  PROVE  /\ (s + 1) % RingSize = IF s = RingSize - 1 THEN 0 ELSE s + 1
         /\ Byte((s + 1) % RingSize) = (s + 1) % RingSize
         /\ (s + 1) % RingSize \in Slot
<1> DEFINE next == s + 1
<1>1. s \in Nat /\ s <= RingSize - 1
  BY RingSizeType DEF Slot
<1>2. next \in Nat /\ next < 2 * RingSize
  BY <1>1, RingSizeType
<1> HIDE DEF next
<1>3. /\ next % RingSize = IF next < RingSize THEN next ELSE next - RingSize
      /\ next % RingSize \in Slot
  BY <1>2, Wrap
<1>4. Byte(next % RingSize) = next % RingSize
  BY <1>3, ByteOfSlot
<1>5. QED
  BY <1>1, <1>3, <1>4, RingSizeType DEF next

(* Translation yields a character or nothing.                               *)
LEMMA TranslateType ==
  ASSUME NEW code \in ScanCode
  PROVE  Translate(code) \in Char \cup {NoChar}
  BY KeyboardAssumption DEF Translate

-----------------------------------------------------------------------------
(* Every reachable state is well typed: no sequence of keys, interrupts,    *)
(* resets and pops takes an index out of the ring.                          *)
THEOREM TypeCorrect == Spec => []TypeOK
<1>1. Init => TypeOK
  BY RingSizeType DEF Init, TypeOK, PC, Booting
<1>2. TypeOK /\ [Next]_vars => TypeOK'
  <2> SUFFICES ASSUME TypeOK, [Next]_vars
               PROVE  TypeOK'
    OBVIOUS
  <2>1. ASSUME NEW code \in ScanCode, KeyEvent(code)
        PROVE  TypeOK'
    BY <2>1 DEF KeyEvent, TypeOK
  <2>2. CASE KeyboardIrq
    <3>1. CASE Translate(obf) = NoChar
      BY <2>2, <3>1 DEF KeyboardIrq, TypeOK
    <3>2. CASE Translate(obf) # NoChar
      <4>1. Translate(obf) \in Char
        BY <2>2, <3>2, TranslateType DEF KeyboardIrq, TypeOK
      <4>2. tail' \in Slot
        BY <2>2, <3>2, Successor DEF KeyboardIrq, Enqueue, TypeOK
      <4>3. ring' \in [Slot -> Char \cup {NoChar}]
        BY <2>2, <3>2, <4>1 DEF KeyboardIrq, Enqueue, TypeOK
      <4>4. QED
        BY <2>2, <4>2, <4>3 DEF KeyboardIrq, TypeOK
    <3>3. QED
      BY <3>1, <3>2
  <2>3. CASE Sti
    BY <2>3 DEF Sti, TypeOK, PC, Booting
  <2>4. CASE InitHead
    BY <2>4, RingSizeType DEF InitHead, TypeOK, PC, Booting
  <2>5. CASE InitTail
    BY <2>5, RingSizeType DEF InitTail, TypeOK, PC
  <2>6. CASE PopEnter
    BY <2>6 DEF PopEnter, TypeOK, PC
  <2>7. CASE PopEmpty
    BY <2>7 DEF PopEmpty, TypeOK, PC
  <2>8. CASE PopTake
    BY <2>8, Successor DEF PopTake, TypeOK, PC
  <2>9. CASE PopLeave
    BY <2>9 DEF PopLeave, TypeOK, PC
  <2>10. CASE UNCHANGED vars
    BY <2>10 DEF vars, TypeOK
  <2>11. QED
    BY <2>1, <2>2, <2>3, <2>4, <2>5, <2>6, <2>7, <2>8, <2>9, <2>10 DEF Next
<1>3. QED
  BY <1>1, <1>2, PTL DEF Spec

-----------------------------------------------------------------------------
(* The ring as a sequence.                                                  *)

Byte0 == Char \cup {NoChar}

(* The slot of the i-th queued character.                                   *)
At(h, i) == (h + i - 1) % RingSize

LEMMA AtSlot ==
  ASSUME NEW h \in Slot, NEW i \in 1..RingSize
  PROVE  /\ At(h, i) = IF h + i - 1 < RingSize THEN h + i - 1
                                              ELSE h + i - 1 - RingSize
         /\ At(h, i) \in Slot
<1>1. h + i - 1 \in Nat /\ h + i - 1 < 2 * RingSize
  BY RingSizeType DEF Slot
<1>2. PICK k \in Nat : k = h + i - 1
  BY <1>1
<1>3. At(h, i) = k % RingSize
  BY <1>2 DEF At
<1>4. /\ k % RingSize = IF k < RingSize THEN k ELSE k - RingSize
      /\ k % RingSize \in Slot
  BY <1>1, <1>2, Wrap
<1>5. PICK w \in Slot : w = k % RingSize
  BY <1>4
<1>6. w = IF h + i - 1 < RingSize THEN h + i - 1 ELSE h + i - 1 - RingSize
  BY <1>2, <1>4, <1>5, RingSizeType DEF Slot
<1>7. QED
  BY <1>3, <1>5, <1>6

(* The count never reaches the ring's size, and the tail is where the next  *)
(* character goes.                                                          *)
LEMMA CountType ==
  ASSUME TypeOK
  PROVE  /\ Count \in 0 .. RingSize - 1
         /\ At(head, Count + 1) = tail
<1>1. /\ head \in Nat /\ head < RingSize
      /\ tail \in Nat /\ tail < RingSize
  BY RingSizeType DEF TypeOK, Slot
<1>2. Count \in 0 .. RingSize - 1
  BY <1>1, RingSizeType DEF Count
<1>3. Count + 1 \in 1..RingSize /\ head \in Slot
  BY <1>2, RingSizeType DEF TypeOK
<1>4. QED
  BY <1>1, <1>2, <1>3, AtSlot, RingSizeType DEF Count

(* The ring read as a sequence of bytes.                                    *)
IsContents == /\ Contents \in Seq(Byte0)
              /\ Len(Contents) = Count
              /\ \A i \in 1..Count : Contents[i] = ring[At(head, i)]

LEMMA ContentsSeq == TypeOK => IsContents
<1> SUFFICES ASSUME TypeOK
             PROVE  IsContents
  OBVIOUS
<1>1. Count \in 0 .. RingSize - 1
  BY CountType
<1>2. \A i \in 1..Count : ring[At(head, i)] \in Byte0
  <2>1. TAKE i \in 1..Count
  <2>2. i \in 1..RingSize /\ head \in Slot
    BY <1>1, RingSizeType DEF TypeOK
  <2>3. QED
    BY <2>2, AtSlot DEF TypeOK, Byte0
<1>3. Contents = [i \in 1..Count |-> ring[At(head, i)]]
  BY DEF Contents, At
<1>4. Contents \in [1..Count -> Byte0]
  BY <1>2, <1>3
<1>5. QED
  BY <1>1, <1>3, <1>4, RingSizeType, SeqDef DEF IsContents

LEMMA ContentsSeqNext == TypeOK' => IsContents'
  BY ContentsSeq, PTL

(* Live slots are typed exactly when the ring is a sequence of characters.  *)
LEMMA LiveSlotsSeq ==
  ASSUME TypeOK
  PROVE  LiveSlotsTyped <=> Contents \in Seq(Char)
<1>1. LiveSlotsTyped <=> \A i \in 1..Count : Contents[i] \in Char
  BY ContentsSeq DEF LiveSlotsTyped, IsContents, At
<1>2. ASSUME \A i \in 1..Count : Contents[i] \in Char
      PROVE  Contents \in Seq(Char)
  BY <1>2, ContentsSeq, CountType, RingSizeType, SeqDef DEF Contents, IsContents
<1>3. ASSUME Contents \in Seq(Char)
      PROVE  \A i \in 1..Count : Contents[i] \in Char
  BY <1>3, ContentsSeq, ElementOfSeq DEF IsContents
<1>4. QED
  BY <1>1, <1>2, <1>3

-----------------------------------------------------------------------------
(* What the two operations do to the sequence.                              *)

(* chat_kbd_enqueue appends to the queue, or leaves it alone when it holds  *)
(* RingSize - 1 characters.                                                 *)
LEMMA EnqueueEffect ==
  ASSUME TypeOK, TypeOK', NEW ch \in Char, Enqueue(ch), head' = head
  PROVE  \/ /\ Count = RingSize - 1
            /\ UNCHANGED <<ring, tail>>
         \/ /\ Count < RingSize - 1
            /\ Contents' = Append(Contents, ch)
<1> DEFINE next == (tail + 1) % RingSize
<1>1. /\ head \in Nat /\ head < RingSize
      /\ tail \in Slot /\ tail \in Nat /\ tail < RingSize
  BY RingSizeType DEF TypeOK, Slot
<1>2. /\ next = IF tail = RingSize - 1 THEN 0 ELSE tail + 1
      /\ Byte(next) = next
  BY <1>1, Successor
<1>3. next = head <=> Count = RingSize - 1
  BY <1>1, <1>2, RingSizeType DEF Count
<1>4. CASE next = head
  BY <1>3, <1>4 DEF Enqueue
<1>5. CASE next # head
  <2>1. ring' = [ring EXCEPT ![tail] = ch] /\ tail' = next
    BY <1>2, <1>5 DEF Enqueue
  <2> HIDE DEF next
  <2>2. Count < RingSize - 1 /\ Count' = Count + 1
    BY <1>1, <1>2, <1>3, <1>5, <2>1, RingSizeType DEF Count
  <2>3. /\ Contents \in Seq(Byte0) /\ Len(Contents) = Count
        /\ \A i \in 1..Count : Contents[i] = ring[At(head, i)]
    BY ContentsSeq DEF IsContents
  <2>4. /\ Contents' \in Seq(Byte0) /\ Len(Contents') = Count'
        /\ \A i \in 1..Count' : Contents'[i] = ring'[At(head, i)]
    BY ContentsSeqNext DEF IsContents
  <2>5. ASSUME NEW i \in 1..Count
        PROVE  Contents'[i] = Contents[i]
    <3>1. i \in 1..RingSize /\ i \in 1..Count' /\ head \in Slot
      BY <2>2, CountType, RingSizeType DEF TypeOK
    <3>2. /\ At(head, i) = IF head + i - 1 < RingSize THEN head + i - 1
                                                     ELSE head + i - 1 - RingSize
          /\ At(head, i) \in Slot
      BY <3>1, AtSlot
    <3>3. At(head, i) # tail
      BY <1>1, <2>2, <3>1, <3>2, RingSizeType DEF Count
    <3>4. ring'[At(head, i)] = ring[At(head, i)]
      BY <2>1, <3>2, <3>3 DEF TypeOK
    <3>5. QED
      BY <2>3, <2>4, <3>1, <3>4
  <2>6. Contents'[Count + 1] = ch
    <3>1. At(head, Count + 1) = tail
      BY CountType
    <3>2. Count + 1 \in 1..Count'
      BY <2>2, CountType, RingSizeType
    <3>3. ring'[tail] = ch
      BY <1>1, <2>1 DEF TypeOK
    <3>4. QED
      BY <2>4, <3>1, <3>2, <3>3
  <2>7. Contents' = Append(Contents, ch)
    <3>1. ch \in Byte0
      BY DEF Byte0
    <3>2. /\ Append(Contents, ch) \in Seq(Byte0)
          /\ Len(Append(Contents, ch)) = Count + 1
          /\ \A i \in 1..Count : Append(Contents, ch)[i] = Contents[i]
          /\ Append(Contents, ch)[Count + 1] = ch
      BY <2>3, <3>1, AppendProperties
    <3>3. \A i \in 1..Count + 1 : Contents'[i] = Append(Contents, ch)[i]
      BY <2>5, <2>6, <3>2, CountType, RingSizeType
    <3>4. QED
      BY <2>2, <2>4, <3>2, <3>3, SeqEqual
  <2>8. QED
    BY <2>2, <2>7
<1>6. QED
  BY <1>4, <1>5

(* kbd_pop takes the oldest character.                                      *)
LEMMA PopEffect ==
  ASSUME TypeOK, TypeOK', PopTake
  PROVE  /\ Contents # <<>>
         /\ c' = Head(Contents)
         /\ Contents' = Tail(Contents)
<1> DEFINE next == (head + 1) % RingSize
<1>1. /\ head \in Slot /\ head \in Nat /\ head < RingSize
      /\ tail \in Nat /\ tail < RingSize
  BY RingSizeType DEF TypeOK, Slot
<1>2. /\ next = IF head = RingSize - 1 THEN 0 ELSE head + 1
      /\ Byte(next) = next
      /\ next \in Slot
  BY <1>1, Successor
<1>3. /\ head # tail /\ c' = ring[head] /\ head' = next
      /\ ring' = ring /\ tail' = tail
  BY <1>2 DEF PopTake
<1> HIDE DEF next
<1>4. /\ Contents \in Seq(Byte0) /\ Len(Contents) = Count
      /\ \A i \in 1..Count : Contents[i] = ring[At(head, i)]
  BY ContentsSeq DEF IsContents
<1>5. /\ Contents' \in Seq(Byte0) /\ Len(Contents') = Count'
      /\ \A i \in 1..Count' : Contents'[i] = ring[At(next, i)]
  BY <1>3, ContentsSeqNext DEF IsContents
<1>6. Count \in 1 .. RingSize - 1 /\ Count' = Count - 1
  BY <1>1, <1>2, <1>3, RingSizeType DEF Count
<1>7. Contents # <<>>
  BY <1>4, <1>6, EmptySeq
<1>8. At(head, 1) = head
  BY <1>1, AtSlot, RingSizeType
<1>9. c' = Head(Contents)
  <2>1. Contents[1] = ring[head]
    BY <1>4, <1>6, <1>8
  <2>2. Head(Contents) = Contents[1]
    BY <1>4, <1>7
  <2>3. QED
    BY <1>3, <2>1, <2>2
<1>10. Contents' = Tail(Contents)
  <2>1. /\ Tail(Contents) \in Seq(Byte0)
        /\ Len(Tail(Contents)) = Count - 1
        /\ \A i \in 1..Count - 1 : Tail(Contents)[i] = Contents[i + 1]
    BY <1>4, <1>7, HeadTailProperties
  <2>2. ASSUME NEW i \in 1..Count - 1
        PROVE  Contents'[i] = Tail(Contents)[i]
    <3>1. i \in 1..RingSize /\ i + 1 \in 1..RingSize /\ i + 1 \in 1..Count
      BY <1>6, RingSizeType
    <3>2. At(next, i) = At(head, i + 1)
      BY <1>1, <1>2, <3>1, AtSlot, RingSizeType
    <3>3. Contents'[i] = ring[At(next, i)]
      BY <1>5, <1>6
    <3>4. Contents[i + 1] = ring[At(head, i + 1)]
      BY <1>4, <3>1
    <3>5. QED
      BY <2>1, <3>2, <3>3, <3>4
  <2>3. QED
    BY <1>5, <1>6, <2>1, <2>2, SeqEqual
<1>11. QED
  BY <1>7, <1>9, <1>10

-----------------------------------------------------------------------------
(* The inductive invariant and the two results it gives.                    *)

LEMMA LiveSlotsSeqNext ==
  TypeOK' => (LiveSlotsTyped' <=> (Contents \in Seq(Char))')
<1>1. TypeOK => (LiveSlotsTyped <=> Contents \in Seq(Char))
  BY LiveSlotsSeq
<1>2. QED
  BY <1>1, PTL

(* An unchanged ring has unchanged contents.                                *)
LEMMA SameRing ==
  ASSUME UNCHANGED <<ring, head, tail>>
  PROVE  /\ Contents' = Contents
         /\ LiveSlotsTyped' = LiveSlotsTyped
  BY DEF Contents, Count, LiveSlotsTyped

LEMMA InvInit == Init => IInv
<1> SUFFICES ASSUME Init
             PROVE  IInv
  OBVIOUS
<1>1. TypeOK
  BY RingSizeType DEF Init, TypeOK, PC, Booting
<1>2. LiveSlotsTyped
  BY DEF Init, LiveSlotsTyped, Count
<1>3. QED
  BY <1>1, <1>2 DEF Init, IInv, BootHead, CritMasked

LEMMA InvStep == IInv /\ TypeOK' /\ [Next]_vars => IInv'
<1> SUFFICES ASSUME IInv, TypeOK', [Next]_vars
             PROVE  IInv'
  OBVIOUS
<1> USE DEF IInv
<1>1. ASSUME NEW code \in ScanCode, KeyEvent(code)
      PROVE  IInv'
  BY <1>1, SameRing DEF KeyEvent, BootHead, CritMasked
<1>2. CASE KeyboardIrq
  <2>1. BootHead' /\ CritMasked'
    BY <1>2 DEF KeyboardIrq, BootHead, CritMasked
  <2>2. LiveSlotsTyped'
    <3>1. CASE Translate(obf) = NoChar
      BY <1>2, <3>1, SameRing DEF KeyboardIrq
    <3>2. CASE Translate(obf) # NoChar
      <4> DEFINE ch == Translate(obf)
      <4>1. ch \in Char /\ Enqueue(ch) /\ head' = head
        BY <1>2, <3>2, TranslateType DEF KeyboardIrq, TypeOK
      <4> HIDE DEF ch
      <4>2. \/ UNCHANGED <<ring, tail>>
            \/ Contents' = Append(Contents, ch)
        BY <4>1, EnqueueEffect
      <4>3. CASE UNCHANGED <<ring, tail>>
        BY <4>1, <4>3, SameRing
      <4>4. CASE Contents' = Append(Contents, ch)
        <5>1. Contents \in Seq(Char)
          BY LiveSlotsSeq
        <5>2. Append(Contents, ch) \in Seq(Char)
          BY <4>1, <5>1
        <5>3. QED
          BY <4>4, <5>2, LiveSlotsSeqNext
      <4>5. QED
        BY <4>2, <4>3, <4>4
    <3>3. QED
      BY <3>1, <3>2
  <2>3. QED
    BY <2>1, <2>2
<1>3. CASE Sti
  BY <1>3, SameRing DEF Sti, BootHead, CritMasked, Booting
<1>4. CASE InitHead
  BY <1>4, SameRing DEF InitHead, BootHead, CritMasked, Booting
<1>5. CASE InitTail
  <2>1. LiveSlotsTyped'
    BY <1>5 DEF InitTail, BootHead, Booting, LiveSlotsTyped, Count
  <2>2. QED
    BY <1>5, <2>1 DEF InitTail, BootHead, CritMasked, Booting
<1>6. CASE PopEnter
  BY <1>6, SameRing DEF PopEnter, BootHead, CritMasked, Booting
<1>7. CASE PopEmpty
  BY <1>7, SameRing DEF PopEmpty, BootHead, CritMasked, Booting
<1>8. CASE PopTake
  <2>1. Contents \in Seq(Char) /\ Contents # <<>> /\ Contents' = Tail(Contents)
    BY <1>8, LiveSlotsSeq, PopEffect
  <2>2. Contents' \in Seq(Char)
    BY <2>1
  <2>3. LiveSlotsTyped'
    BY <2>2, LiveSlotsSeqNext
  <2>4. QED
    BY <1>8, <2>3 DEF PopTake, BootHead, CritMasked, Booting
<1>9. CASE PopLeave
  BY <1>9, SameRing DEF PopLeave, BootHead, CritMasked, Booting
<1>10. CASE UNCHANGED vars
  BY <1>10, SameRing DEF vars, BootHead, CritMasked
<1>11. QED
  BY <1>1, <1>2, <1>3, <1>4, <1>5, <1>6, <1>7, <1>8, <1>9, <1>10 DEF Next

LEMMA InvAlways == Spec => []IInv
<1>1. Init => IInv
  BY InvInit
<1>2. IInv /\ TypeOK' /\ [Next]_vars => IInv'
  BY InvStep
<1>3. Spec => []TypeOK
  BY TypeCorrect
<1>4. QED
  BY <1>1, <1>2, <1>3, PTL DEF Spec

(* kbd_pop only ever returns characters the handler enqueued: no reset and  *)
(* no interleaving of the handler exposes a slot nobody wrote.              *)
THEOREM LiveSlots == Spec => []LiveSlotsTyped
<1>1. IInv => LiveSlotsTyped
  BY DEF IInv
<1>2. QED
  BY <1>1, InvAlways, PTL

-----------------------------------------------------------------------------
(* The step simulation: each step of the driver is a step of the queue or   *)
(* leaves it alone.                                                         *)
LEMMA Simulation ==
  ASSUME IInv, TypeOK', [Next]_vars
  PROVE  [Fifo!Next]_(Fifo!vars)
<1> USE DEF IInv
<1> DEFINE Same == UNCHANGED Fifo!vars
<1>1. ASSUME NEW code \in ScanCode, KeyEvent(code)
      PROVE  Fifo!Next \/ Same
  <2>1. /\ obf = NoCode /\ obf' = code /\ code # NoCode
        /\ pc' = pc /\ c' = c /\ Contents' = Contents
    BY <1>1, SameRing, KeyboardAssumption DEF KeyEvent
  <2>2. CASE Translate(code) = NoChar
    BY <2>1, <2>2 DEF Fifo!vars
  <2>3. CASE Translate(code) # NoChar
    <3>1. Translate(code) \in Char
      BY <2>3, TranslateType
    <3>2. Fifo!Offer(Translate(code))
      BY <2>1 DEF Fifo!Offer
    <3>3. QED
      BY <3>1, <3>2 DEF Fifo!Next
  <2>4. QED
    BY <2>2, <2>3
<1>2. CASE KeyboardIrq
  <2>1. /\ obf # NoCode /\ obf' = NoCode
        /\ pc' = pc /\ c' = c /\ head' = head
    BY <1>2 DEF KeyboardIrq
  <2>2. CASE Translate(obf) = NoChar
    <3>1. Contents' = Contents
      BY <1>2, <2>2, SameRing DEF KeyboardIrq
    <3>2. QED
      BY <2>1, <2>2, <3>1 DEF Fifo!vars
  <2>3. CASE Translate(obf) # NoChar
    <3> DEFINE ch == Translate(obf)
    <3>1. ch \in Char /\ Enqueue(ch)
      BY <1>2, <2>3, TranslateType DEF KeyboardIrq, TypeOK
    <3>2. /\ Contents \in Seq(Char) /\ Len(Contents) = Count
          /\ Count \in Nat
      BY LiveSlotsSeq, ContentsSeq, CountType, RingSizeType DEF IsContents
    <3>3. \/ Count = RingSize - 1 /\ UNCHANGED <<ring, tail>>
          \/ Count < RingSize - 1 /\ Contents' = Append(Contents, ch)
      <4> HIDE DEF ch
      <4>1. QED
        BY <2>1, <3>1, EnqueueEffect
    <3>4. CASE Count = RingSize - 1 /\ UNCHANGED <<ring, tail>>
      <4>1. Contents' = Contents
        BY <2>1, <3>4, SameRing
      <4>2. Fifo!Lose
        BY <2>1, <2>3, <3>2, <3>4, <4>1 DEF Fifo!Lose
      <4>3. QED
        BY <4>2 DEF Fifo!Next
    <3>5. CASE Count < RingSize - 1 /\ Contents' = Append(Contents, ch)
      <4>1. Fifo!Put
        BY <2>1, <2>3, <3>2, <3>5 DEF Fifo!Put
      <4>2. QED
        BY <4>1 DEF Fifo!Next
    <3>6. QED
      BY <3>3, <3>4, <3>5
  <2>4. QED
    BY <2>2, <2>3
<1>3. CASE Sti
  BY <1>3, SameRing DEF Sti, Booting, Fifo!vars
<1>4. CASE InitHead
  BY <1>4, SameRing DEF InitHead, Booting, BootHead, Fifo!vars
<1>5. CASE InitTail
  <2>1. Contents' = <<>>
    <3>1. head' = 0 /\ tail' = 0
      BY <1>5 DEF InitTail, BootHead, Booting
    <3>2. Count' = 0
      BY <3>1 DEF Count
    <3>3. Contents' \in Seq(Byte0) /\ Len(Contents') = Count'
      BY ContentsSeqNext DEF IsContents
    <3>4. QED
      BY <3>2, <3>3, EmptySeq
  <2>2. Fifo!Open
    BY <1>5, <2>1 DEF InitTail, Booting, Fifo!Open
  <2>3. QED
    BY <2>2 DEF Fifo!Next
<1>6. CASE PopEnter
  BY <1>6, SameRing DEF PopEnter, Booting, Fifo!vars
<1>7. CASE PopEmpty
  BY <1>7, SameRing DEF PopEmpty, Booting, Fifo!vars
<1>8. CASE PopTake
  <2>1. /\ Contents # <<>> /\ c' = Head(Contents)
        /\ Contents' = Tail(Contents)
    BY <1>8, PopEffect
  <2>2. Fifo!Take
    BY <1>8, <2>1 DEF PopTake, Booting, Fifo!Take
  <2>3. QED
    BY <2>2 DEF Fifo!Next
<1>9. CASE PopLeave
  BY <1>9, SameRing DEF PopLeave, Booting, Fifo!vars
<1>10. CASE UNCHANGED vars
  BY <1>10, SameRing DEF vars, Fifo!vars
<1>11. QED
  BY <1>1, <1>2, <1>3, <1>4, <1>5, <1>6, <1>7, <1>8, <1>9, <1>10
     DEF Next

(* The driver and its ring are a bounded first-in first-out queue: accepted *)
(* characters are popped once and in order, a key is dropped only when      *)
(* RingSize - 1 characters wait, and chat_init discards the earlier ones.   *)
THEOREM Refinement == Spec => ImplementsFifo
<1>1. Init => Fifo!Init
  <2> SUFFICES ASSUME Init
               PROVE  Fifo!Init
    OBVIOUS
  <2>1. TypeOK /\ Count = 0
    BY InvInit DEF IInv, Init, Count
  <2>2. Contents = <<>>
    BY <2>1, ContentsSeq, EmptySeq DEF IsContents
  <2>3. QED
    BY <2>2 DEF Init, Booting, Fifo!Init
<1>2. IInv /\ TypeOK' /\ [Next]_vars => [Fifo!Next]_(Fifo!vars)
  BY Simulation
<1>3. QED
  BY <1>1, <1>2, InvAlways, TypeCorrect, PTL DEF Spec, ImplementsFifo, Fifo!Spec
=============================================================================
