--------------------------- MODULE StartupProofs ---------------------------
(***************************************************************************)
(* For every address of the handlers, every structure GRUB may hand over,  *)
(* every state of the selectors and of the UART it may leave, and every    *)
(* size of the transmit FIFO: no step of the start-up uses an address      *)
(* that is not mapped, C code runs without a page at 0, interrupts are on  *)
(* only when each one leads to its handler, and the terminal reads what    *)
(* serial_print was given.                                                 *)
(***************************************************************************)
EXTENDS Startup, SequenceTheorems, TLAPS

-----------------------------------------------------------------------------
(* Descriptors.                                                             *)

(* A byte as a number, without listing all of them.                         *)
LEMMA ByteIs == \A n : n \in Byte <=> n \in Int /\ 0 <= n /\ n < 256
  BY DEF Byte

(* An entry is its eight bytes, a word its four.                            *)
LEMMA EntryIs ==
  ASSUME NEW a \in Byte, NEW b \in Byte, NEW c \in Byte, NEW d \in Byte,
         NEW e \in Byte, NEW f \in Byte, NEW g \in Byte, NEW h \in Byte
  PROVE  <<a, b, c, d, e, f, g, h>> \in Entry
  BY DEF Entry

(* A word is its four bytes.                                                *)
LEMMA WordIs ==
  ASSUME NEW w \in Word
  PROVE  /\ w = <<w[1], w[2], w[3], w[4]>>
         /\ w[1] \in Byte /\ w[2] \in Byte /\ w[3] \in Byte /\ w[4] \in Byte
  BY DEF Word

(* The low half of a number put together from two halves.                   *)
LEMMA LowHalf ==
  ASSUME NEW low \in Int, 0 <= low, low < 16, NEW high \in Int, 0 <= high
  PROVE  (low + 16 * high) % 16 = low
<1>1. PICK n \in Int : n = low + 16 * high /\ 0 <= n
  OBVIOUS
<1>2. PICK q \in Int, r \in Int : /\ r = n % 16
                                 /\ n = 16 * q + r /\ 0 <= r /\ r < 16
  OBVIOUS
<1>3. 16 * q + r = low + 16 * high
  BY <1>1, <1>2
<1>4. ~(q < high) /\ ~(high < q)
  BY <1>2, <1>3
<1>5. QED
  BY <1>1, <1>2, <1>3, <1>4

(* Half of one byte below half of another.                                  *)
LEMMA NibblesIs ==
  ASSUME NEW l \in Byte, NEW g \in Byte
  PROVE  /\ (l % 16) + 16 * (g \div 16) \in Byte
         /\ ((l % 16) + 16 * (g \div 16)) % 16 = l % 16
         /\ ((l % 16) + 16 * (g \div 16)) >= 128 <=> g >= 128
         /\ (((l % 16) + 16 * (g \div 16)) \div 64) % 2 = (g \div 64) % 2
<1>1. /\ l \in Int /\ 0 <= l /\ l < 256
      /\ g \in Int /\ 0 <= g /\ g < 256
  BY ByteIs
<1>2. PICK low \in Int : low = l % 16 /\ 0 <= low /\ low < 16
  BY <1>1
<1>3. PICK high \in Int : high = g \div 16 /\ 0 <= high /\ high < 16
  BY <1>1
<1>4. low + 16 * high \in Int /\ 0 <= low + 16 * high /\ low + 16 * high < 256
  BY <1>2, <1>3
<1>5. (low + 16 * high) % 16 = low
  BY <1>2, <1>3, LowHalf
<1>6. (low + 16 * high) >= 128 <=> g >= 128
  BY <1>1, <1>2, <1>3
<1>7. (low + 16 * high) \div 64 = g \div 64
  BY <1>1, <1>2, <1>3
<1>8. QED
  BY <1>2, <1>3, <1>4, <1>5, <1>6, <1>7, ByteIs

(* The CPU reads from an entry of gdt_set_entry the base, the low 20 bits   *)
(* of the limit and the flags that were given.                              *)
LEMMA GdtEntryIs ==
  ASSUME NEW base \in Word, NEW limit \in Word,
         NEW access \in Byte, NEW granularity \in Byte
  PROVE  /\ GdtEntry(base, limit, access, granularity) \in Entry
         /\ Segment(GdtEntry(base, limit, access, granularity)) =
              [base |-> base,
               limit |-> <<limit[1], limit[2], limit[3] % 16>>,
               pages |-> granularity >= 128,
               wide |-> (granularity \div 64) % 2 = 1,
               present |-> access >= 128,
               ring |-> (access \div 32) % 4,
               type |-> access % 32]
<1> DEFINE n == (limit[3] % 16) + 16 * (granularity \div 16)
<1>1. /\ n \in Byte /\ n % 16 = limit[3] % 16 /\ (n >= 128 <=> granularity >= 128)
      /\ (n \div 64) % 2 = (granularity \div 64) % 2
  BY WordIs, NibblesIs
<1>2. GdtEntry(base, limit, access, granularity) =
        <<limit[1], limit[2], base[1], base[2], base[3], access, n, base[4]>>
  BY DEF GdtEntry
<1> HIDE DEF n
<1>3. GdtEntry(base, limit, access, granularity) \in Entry
  <2>1. /\ limit[1] \in Byte /\ limit[2] \in Byte
        /\ base[1] \in Byte /\ base[2] \in Byte /\ base[3] \in Byte /\ base[4] \in Byte
    BY WordIs
  <2>2. <<limit[1], limit[2], base[1], base[2], base[3], access, n, base[4]>> \in Entry
    BY <1>1, <2>1, EntryIs
  <2>3. QED
    BY <1>2, <2>2
<1>4. base = <<base[1], base[2], base[3], base[4]>>
  BY WordIs
<1>5. Segment(<<limit[1], limit[2], base[1], base[2], base[3], access, n, base[4]>>) =
        [base |-> <<base[1], base[2], base[3], base[4]>>,
         limit |-> <<limit[1], limit[2], n % 16>>,
         pages |-> n >= 128,
         wide |-> (n \div 64) % 2 = 1,
         present |-> access >= 128,
         ring |-> (access \div 32) % 4,
         type |-> access % 32]
  BY DEF Segment
<1>6. (n >= 128) = (granularity >= 128)
  BY <1>1
<1>7. QED
  BY <1>1, <1>2, <1>3, <1>4, <1>5, <1>6

(* The CPU reads from an entry of idt_set_entry the handler's address, the  *)
(* selector and the type that were given.                                   *)
LEMMA IdtEntryIs ==
  ASSUME NEW handler \in Word, NEW type_attr \in Byte,
         NEW selector \in Nat, selector < 65536
  PROVE  /\ IdtEntry(handler, selector, type_attr) \in Entry
         /\ Gate(IdtEntry(handler, selector, type_attr)) =
              [offset |-> handler, selector |-> selector,
               present |-> type_attr >= 128, type |-> type_attr % 32]
<1>1. PICK low \in Byte, high \in Byte :
              low = selector % 256 /\ high = selector \div 256
  <2>1. selector % 256 \in Byte
    BY ByteIs
  <2>2. selector \div 256 \in Byte
    BY ByteIs
  <2>3. QED
    BY <2>1, <2>2
<1>2. low + 256 * high = selector
  BY <1>1
<1>3. PICK zero \in Byte : zero = 0
  BY ByteIs
<1>4. IdtEntry(handler, selector, type_attr) =
        <<handler[1], handler[2], low, high, zero, type_attr, handler[3], handler[4]>>
  BY <1>1, <1>3 DEF IdtEntry
<1>5. IdtEntry(handler, selector, type_attr) \in Entry
  <2>1. PICK a \in Byte, b \in Byte, g \in Byte, h \in Byte :
               a = handler[1] /\ b = handler[2] /\ g = handler[3] /\ h = handler[4]
    BY WordIs
  <2>2. <<a, b, low, high, zero, type_attr, g, h>> \in Entry
    BY <1>1, <1>3, <2>1 DEF Entry
  <2>3. QED
    BY <1>4, <2>1, <2>2
<1>6. handler = <<handler[1], handler[2], handler[3], handler[4]>>
  BY WordIs
<1>7. Gate(<<handler[1], handler[2], low, high, zero, type_attr, handler[3], handler[4]>>) =
        [offset |-> <<handler[1], handler[2], handler[3], handler[4]>>,
         selector |-> low + 256 * high,
         present |-> type_attr >= 128, type |-> type_attr % 32]
  BY DEF Gate
<1>8. QED
  BY <1>2, <1>4, <1>5, <1>6, <1>7

-----------------------------------------------------------------------------
(* The UART.                                                                *)

\* A UART: registers of a byte each, and no more bytes than it has room for.
Chip == {u \in [reg : [Register -> Byte], queue : Seq(Byte)] : Len(u.queue) <= TxSize}

(* The UART's type, before and after a step.                                *)
LEMMA UartTypeIs ==
  /\ UartTypeOK <=> /\ uart \in Chip /\ wire \in Seq(0..Noise)
                    /\ text \in Seq(Byte) /\ said \in Seq(Byte)
  /\ UartTypeOK' <=> /\ uart' \in Chip /\ wire' \in Seq(0..Noise)
                     /\ text' \in Seq(Byte) /\ said' \in Seq(Byte)
  BY Zenon DEF UartTypeOK, Chip, Byte

(* The FIFO has room for a byte.                                            *)
LEMMA TxSizeIs == TxSize \in Nat /\ 1 <= TxSize
<1>1. TxSize \in Nat \ {0}
  BY Zenon, UartAssumption
<1>2. QED
  BY <1>1

(* The BIOS leaves registers of a byte each, DLAB clear and FIFO off.       *)
LEMMA UartLeftIs ==
  ASSUME NEW r \in UartLeft
  PROVE  r \in [Register -> Byte] /\ r["line_ctrl"] < 128 /\ r["fifo_ctrl"] = 0
  BY Zenon, UartAssumption DEF Byte

(* Registers and a queue that fits make a UART.                             *)
LEMMA ChipIs ==
  ASSUME NEW r \in [Register -> Byte], NEW q \in Seq(Byte), Len(q) <= TxSize
  PROVE  [reg |-> r, queue |-> q] \in Chip
  BY DEF Chip

(* A UART is its registers and its queue.                                   *)
LEMMA ChipParts ==
  ASSUME NEW u \in Chip
  PROVE  \E r \in [Register -> Byte], q \in Seq(Byte) :
           u = [reg |-> r, queue |-> q] /\ Len(q) <= TxSize
<1>1. u = [reg |-> u.reg, queue |-> u.queue]
  BY Zenon DEF Chip
<1>2. u.reg \in [Register -> Byte] /\ u.queue \in Seq(Byte) /\ Len(u.queue) <= TxSize
  BY DEF Chip
<1>3. QED
  BY Zenon, <1>1, <1>2

(* A write to a port that leads to a register changes that one only.        *)
LEMMA OutRegister ==
  ASSUME NEW u \in Chip, NEW port, NEW b \in Byte, Decoded(u, port) \in Register
  PROVE  /\ Out(u, port, b) \in Chip
         /\ Out(u, port, b).reg[Decoded(u, port)] = b
         /\ \A r \in Register \ {Decoded(u, port)} : Out(u, port, b).reg[r] = u.reg[r]
         /\ u.queue = <<>> => Out(u, port, b).queue = <<>>
<1>1. PICK regs \in [Register -> Byte], queue \in Seq(Byte) :
             u = [reg |-> regs, queue |-> queue] /\ Len(queue) <= TxSize
  BY ChipParts
<1>2. PICK t \in Register : t = Decoded(u, port)
  OBVIOUS
<1>3. t # "data"
  BY <1>2 DEF Register, Port
<1>4. PICK q \in Seq(Byte) : /\ q = IF t = "fifo_ctrl" THEN <<>> ELSE queue
                            /\ Len(q) <= TxSize
  <2>1. CASE t = "fifo_ctrl"
    <3>1. <<>> \in Seq(Byte) /\ Len(<<>>) <= TxSize
      BY TxSizeIs
    <3>2. QED
      BY <2>1, <3>1
  <2>2. CASE t # "fifo_ctrl"
    BY <1>1, <2>2
  <2>3. QED
    BY <2>1, <2>2
<1>5. Out(u, port, b) = [reg |-> [regs EXCEPT ![t] = b], queue |-> q]
  BY <1>1, <1>2, <1>3, <1>4 DEF Out
<1>6. [regs EXCEPT ![t] = b] \in [Register -> Byte]
  BY <1>1, <1>2
<1>7. [reg |-> [regs EXCEPT ![t] = b], queue |-> q] \in Chip
  BY <1>4, <1>6, ChipIs
<1>8. /\ [regs EXCEPT ![t] = b][t] = b
      /\ \A r \in Register \ {t} : [regs EXCEPT ![t] = b][r] = regs[r]
  BY <1>1, <1>2
<1>9. queue = <<>> => q = <<>>
  BY <1>4
<1>10. QED
  BY <1>1, <1>2, <1>5, <1>7, <1>8, <1>9

(* A write to the data port, DLAB clear, adds a byte when there is room.    *)
LEMMA OutData ==
  ASSUME NEW u \in Chip, NEW b \in Byte, u.reg["line_ctrl"] < 128
  PROVE  /\ Out(u, "data", b) \in Chip
         /\ Out(u, "data", b).reg = u.reg
         /\ u.queue = <<>> => Out(u, "data", b).queue = <<b>>
<1>1. PICK regs \in [Register -> Byte], queue \in Seq(Byte) :
             u = [reg |-> regs, queue |-> queue] /\ Len(queue) <= TxSize
  BY ChipParts
<1>2. PICK room \in Nat : /\ room = IF regs["fifo_ctrl"] % 2 = 1 THEN TxSize ELSE 1
                         /\ 1 <= room /\ room <= TxSize
  BY TxSizeIs
<1>3. PICK q \in Seq(Byte) :
             /\ q = IF Len(queue) < room THEN Append(queue, b) ELSE queue
             /\ Len(q) <= TxSize
             /\ queue = <<>> => q = <<b>>
  <2>1. CASE Len(queue) < room
    <3>1. Append(queue, b) \in Seq(Byte) /\ Len(Append(queue, b)) = Len(queue) + 1
      BY <1>1, AppendProperties
    <3>2. queue = <<>> => Append(queue, b) = <<b>>
      OBVIOUS
    <3>3. Len(queue) \in Nat /\ Len(queue) + 1 <= TxSize
      BY <1>1, <1>2, <2>1, TxSizeIs
    <3>4. QED
      BY <2>1, <3>1, <3>2, <3>3
  <2>2. CASE ~(Len(queue) < room)
    BY <1>1, <1>2, <2>2
  <2>3. QED
    BY <2>1, <2>2
<1>4. Out(u, "data", b) = [reg |-> regs, queue |-> q]
  BY <1>1, <1>2, <1>3 DEF Out, Decoded
<1>5. [reg |-> regs, queue |-> q] \in Chip
  BY <1>1, <1>3, ChipIs
<1>6. QED
  BY <1>1, <1>3, <1>4, <1>5

(* A write sends a byte, sets a register or, by DLAB, the divisor.          *)
LEMMA DecodedIs ==
  ASSUME NEW u \in Chip, NEW port \in Port
  PROVE  /\ u.reg["line_ctrl"] \in Int
         /\ u.reg["line_ctrl"] < 128 => Decoded(u, port) = port
         /\ ~(u.reg["line_ctrl"] < 128) => Decoded(u, port) \in Register
  <1>1. u.reg["line_ctrl"] \in Byte
    BY DEF Chip, Register, Port
  <1>2. QED
    BY <1>1, ByteIs DEF Decoded, Register, Port

(* Any write leaves a UART in one of its states.                            *)
LEMMA OutIs ==
  ASSUME NEW u \in Chip, NEW port \in Port, NEW b \in Byte
  PROVE  Out(u, port, b) \in Chip
<1>1. CASE Decoded(u, port) \in Register
  BY <1>1, OutRegister
<1>2. CASE Decoded(u, port) \notin Register
  <2>1. u.reg["line_ctrl"] < 128 /\ Decoded(u, port) = port
    BY <1>2, DecodedIs
  <2>2. port = "data"
    BY <1>2, <2>1 DEF Register
  <2>3. QED
    BY <2>1, <2>2, OutData
<1>3. QED
  BY <1>1, <1>2

(* The ports, the registers, and what serial_initialize writes.             *)
LEMMA PortIs ==
  /\ {"data", "int_en", "line_ctrl", "fifo_ctrl", "modem_ctrl"} = Port
  /\ {"int_en", "line_ctrl", "fifo_ctrl", "modem_ctrl", "div_low", "div_high"} = Register
  /\ 0 \in Byte /\ 1 \in Byte /\ 3 \in Byte /\ 128 \in Byte /\ 199 \in Byte
  BY ByteIs DEF Register, Port

(* serial_initialize leaves a UART in one of its states.                    *)
LEMMA InitializeTypes ==
  ASSUME NEW u \in Chip
  PROVE  Framed(Divided(Out(u, "int_en", 0))) \in Chip
<1>1. \A v \in Chip : Divided(v) \in Chip
  <2> TAKE v \in Chip
  <2>1. Out(v, "line_ctrl", 128) \in Chip
    BY PortIs, OutIs
  <2>2. Out(Out(v, "line_ctrl", 128), "data", 1) \in Chip
    BY <2>1, PortIs, OutIs
  <2>3. Out(Out(Out(v, "line_ctrl", 128), "data", 1), "int_en", 0) \in Chip
    BY <2>2, PortIs, OutIs
  <2>4. QED
    BY Zenon, <2>3 DEF Divided
<1>2. \A v \in Chip : Framed(v) \in Chip
  <2> TAKE v \in Chip
  <2>1. Out(v, "line_ctrl", 3) \in Chip
    BY PortIs, OutIs
  <2>2. Out(Out(v, "line_ctrl", 3), "fifo_ctrl", 199) \in Chip
    BY <2>1, PortIs, OutIs
  <2>3. Out(Out(Out(v, "line_ctrl", 3), "fifo_ctrl", 199), "modem_ctrl", 3) \in Chip
    BY <2>2, PortIs, OutIs
  <2>4. QED
    BY Zenon, <2>3 DEF Framed
<1>3. Out(u, "int_en", 0) \in Chip
  BY PortIs, OutIs
<1>4. QED
  BY <1>1, <1>2, <1>3

\* The settings serial_initialize is there for.
Programmed(u) == /\ u.reg["int_en"] = 0 /\ u.reg["div_low"] = 1
                 /\ u.reg["div_high"] = 0 /\ u.reg["line_ctrl"] = 3
                 /\ u.reg["fifo_ctrl"] = 199

(* The writes arrive where they are meant to, DLAB clear at first.          *)
LEMMA InitializeSets ==
  ASSUME NEW u \in Chip, u.reg["line_ctrl"] < 128, u.queue = <<>>
  PROVE  /\ Programmed(Framed(Divided(Out(u, "int_en", 0))))
         /\ Framed(Divided(Out(u, "int_en", 0))).queue = <<>>
<1>3. \A v \in Chip : \A port \in Port \ {"data"} : v.reg["line_ctrl"] < 128 =>
        Decoded(v, port) = port /\ Decoded(v, port) \in Register
  BY PortIs DEF Decoded
<1> DEFINE u1 == Out(u, "int_en", 0)
           u2 == Out(u1, "line_ctrl", 128)
           u3 == Out(u2, "data", 1)
           u4 == Out(u3, "int_en", 0)
           u5 == Out(u4, "line_ctrl", 3)
           u6 == Out(u5, "fifo_ctrl", 199)
           u7 == Out(u6, "modem_ctrl", 3)
<1>4. Framed(Divided(Out(u, "int_en", 0))) = u7
  BY Zenon DEF Framed, Divided
<1> HIDE DEF u1, u2, u3, u4, u5, u6, u7
<1>5. /\ u1 \in Chip /\ u1.reg["line_ctrl"] < 128 /\ u1.queue = <<>>
      /\ u1.reg["int_en"] = 0
  BY PortIs, <1>3, OutRegister DEF u1
<1>6. /\ u2 \in Chip /\ u2.reg["line_ctrl"] = 128 /\ u2.queue = <<>>
      /\ u2.reg["int_en"] = 0
  BY PortIs, <1>3, <1>5, OutRegister DEF u2
<1>7. Decoded(u2, "data") = "div_low"
  BY <1>6 DEF Decoded
<1>8. /\ u3 \in Chip /\ u3.reg["line_ctrl"] = 128 /\ u3.queue = <<>>
      /\ u3.reg["int_en"] = 0 /\ u3.reg["div_low"] = 1
  BY PortIs, <1>6, <1>7, OutRegister DEF u3
<1>9. Decoded(u3, "int_en") = "div_high"
  BY <1>8 DEF Decoded
<1>10. /\ u4 \in Chip /\ u4.reg["line_ctrl"] = 128 /\ u4.queue = <<>>
       /\ u4.reg["int_en"] = 0 /\ u4.reg["div_low"] = 1 /\ u4.reg["div_high"] = 0
  BY PortIs, <1>8, <1>9, OutRegister DEF u4
<1>11. Decoded(u4, "line_ctrl") = "line_ctrl"
  BY <1>10 DEF Decoded
<1>12. /\ u5 \in Chip /\ u5.reg["line_ctrl"] = 3 /\ u5.queue = <<>>
       /\ u5.reg["int_en"] = 0 /\ u5.reg["div_low"] = 1 /\ u5.reg["div_high"] = 0
  BY PortIs, <1>10, <1>11, OutRegister DEF u5
<1>13. /\ u6 \in Chip /\ u6.reg["line_ctrl"] = 3 /\ u6.queue = <<>>
       /\ u6.reg["int_en"] = 0 /\ u6.reg["div_low"] = 1 /\ u6.reg["div_high"] = 0
       /\ u6.reg["fifo_ctrl"] = 199
  BY PortIs, <1>3, <1>12, OutRegister DEF u6
<1>14. /\ u7.reg["line_ctrl"] = 3 /\ u7.queue = <<>>
       /\ u7.reg["int_en"] = 0 /\ u7.reg["div_low"] = 1 /\ u7.reg["div_high"] = 0
       /\ u7.reg["fifo_ctrl"] = 199
  BY PortIs, <1>3, <1>13, OutRegister DEF u7
<1>15. QED
  BY <1>4, <1>14 DEF Programmed

-----------------------------------------------------------------------------
(* The invariant.                                                           *)

\* The places up to a step of the start-up, the step's own included.
Low == {"entry", "map_low", "map_high", "cr3", "pse", "pg", "jump"}
ToUart == Loader \cup {"uart"}
ToGdt == ToUart \cup {"p_up", "p_title", "gdt"}
ToLgdt == ToGdt \cup {"lgdt"}
ToSegments == ToLgdt \cup {"segments"}
ToJump == ToSegments \cup {"far_jump"}
ToRemap == ToJump \cup {"p_gdt", "remap"}
ToIdt == ToRemap \cup {"p_pic", "idt"}
ToLidt == ToIdt \cup {"lidt"}
ToSti == ToLidt \cup {"p_idt", "p_screen", "sti"}

\* What the CPU translates, at each instruction of the loader.
PagingInv ==
  /\ cpu.eip = IF pc \in Low THEN "low" ELSE "high"
  /\ cpu.cr3 \/ pc \in {"entry", "map_low", "map_high", "cr3"}
  /\ cpu.pse \/ pc \in {"entry", "map_low", "map_high", "cr3", "pse"}
  /\ cpu.pg <=> pc \notin Low \ {"jump"}
  /\ pd = (IF pc \in {"entry", "map_low"} \/ pc \notin Low \cup {"unmap"}
           THEN {} ELSE {"low"}) \cup
          (IF pc \in {"entry", "map_low", "map_high"} THEN {} ELSE {"high"})
  /\ "low" \in tlb => pc \in {"jump", "unmap", "invlpg"}

\* Where the address of the Multiboot structure is, and the stack.
CallInv == /\ pc = "entry" => cpu.ebx = "info"
           /\ pc \in Loader \ {"entry"} => cpu.ecx = "info"
           /\ pc \notin Loader \ {"call"} => cpu.esp = "high"
           /\ pc \notin Loader => cpu.arg = "info_high"

GdtFilled == Flat(gdt[1], CodeType) /\ Flat(gdt[2], DataType)

Vector == 0..47
IdtFilled == \A v \in Vector :
  Gate(idt[v]) = [offset |-> Handler[v], selector |-> 8, present |-> TRUE, type |-> 14]

\* What a step has set stays as it was set.
TableInv == /\ pc \notin ToGdt => GdtFilled
            /\ pc \notin ToLgdt => cpu.gdtr = 23
            /\ pc \notin ToSegments => cpu.ds = 16
            /\ pc \notin ToJump => cpu.cs = 8
            /\ pc \notin ToRemap => icw2 = <<32, 40>>
            /\ pc \notin ToIdt => IdtFilled
            /\ pc \notin ToLidt => cpu.idtr = 2047
            /\ cpu.ifl => pc \notin ToSti

Quiet == uart.queue = <<>> /\ wire = <<>> /\ text = <<>> /\ said = <<>>
\* Before serial_initialize the line is silent; after it the UART is set.
SerialInv == IF pc \in ToUart THEN uart.reg \in UartLeft /\ Quiet ELSE Programmed(uart)

StartupInv == PagingInv /\ CallInv /\ TableInv /\ SerialInv

(* Where each call of serial_print leads.                                   *)
LEMMA AfterDomain ==
  DOMAIN After = {"p_up", "p_title", "p_gdt", "p_pic", "p_idt", "p_screen", "p_sti",
                  "p_pmm", "p_ok", "p_fail", "p_module", "p_jump", "p_count",
                  "p_none", "p_chat"}
  BY DEF After

(* Every string kmain sends is made of bytes.                               *)
LEMMA AfterText == \A p \in DOMAIN After : After[p].text \in Seq(Byte)
<1> DEFINE Texts == {<<80, 10>>, <<75, 10>>, <<71, 10>>, <<73, 10>>, <<77, 10>>,
                     <<84, 32>>, <<83, 10>>, <<70, 10>>, <<65, 10>>, <<78, 10>>}
<1>1. ASSUME NEW t \in Texts PROVE t \in Seq(Byte)
  <2>1. t[1] \in Int /\ 0 <= t[1] /\ t[1] < 256 /\ t[2] \in Int /\ 0 <= t[2] /\ t[2] < 256
    OBVIOUS
  <2>2. t = <<t[1], t[2]>>
    OBVIOUS
  <2>3. <<t[1], t[2]>> \in Seq(Byte)
    BY <2>1, ByteIs
  <2>4. QED
    BY Zenon, <2>2, <2>3
<1>2. ASSUME NEW p \in DOMAIN After PROVE After[p].text \in Texts
  BY AfterDomain DEF After
<1> HIDE DEF Texts
<1>3. QED
  BY Zenon, <1>1, <1>2

(* The call that follows.                                                   *)
LEMMA AfterTo ==
  ASSUME NEW p \in DOMAIN After
  PROVE  After[p].to =
           CASE p = "p_up" -> "p_title" [] p = "p_title" -> "gdt"
             [] p = "p_gdt" -> "remap" [] p = "p_pic" -> "idt"
             [] p = "p_idt" -> "p_screen" [] p = "p_screen" -> "sti"
             [] p = "p_sti" -> "p_pmm" [] p = "p_pmm" -> "alloc"
             [] p \in {"p_ok", "p_fail"} -> "mods" [] p = "p_module" -> "count"
             [] p = "p_jump" -> "cli" [] p \in {"p_count", "p_none"} -> "p_chat"
             [] p = "p_chat" -> "poll"
  BY AfterDomain DEF After

-----------------------------------------------------------------------------
(* Types.                                                                   *)

Place == Loader \cup Kmain \cup Module
TablesTypeOK == /\ gdt \in [0..2 -> Entry]
                /\ DOMAIN idt = 0..255 /\ \A v \in 0..255 : idt[v] \in Entry
                /\ icw2 \in [1..2 -> Byte]
MemTypeOK == pd \subseteq Page /\ tlb \subseteq Page /\ mbi \in MultiBoot

(* The type invariant by its parts, before and after a step.                *)
LEMMA TypeIs ==
  /\ TypeOK <=> pc \in Place /\ cpu \in Cpu /\ MemTypeOK /\ TablesTypeOK /\ UartTypeOK
  /\ TypeOK' <=> (pc \in Place /\ cpu \in Cpu /\ MemTypeOK /\ TablesTypeOK /\ UartTypeOK)'
  BY Zenon DEF TypeOK, Place, MemTypeOK, TablesTypeOK

(* The vectors the BIOS and pic_remap give the controllers are bytes.       *)
LEMMA BytePairs == <<8, 112>> \in [1..2 -> Byte] /\ <<32, 40>> \in [1..2 -> Byte]
<1>1. ASSUME NEW a \in Byte, NEW b \in Byte PROVE <<a, b>> \in [1..2 -> Byte]
  OBVIOUS
<1>2. 8 \in Byte /\ 112 \in Byte /\ 32 \in Byte /\ 40 \in Byte
  BY ByteIs
<1>3. QED
  BY Zenon, <1>1, <1>2

(* What a step does not touch keeps its type.                               *)
LEMMA SameTypes ==
  /\ UNCHANGED mem /\ MemTypeOK => MemTypeOK'
  /\ UNCHANGED tables /\ TablesTypeOK => TablesTypeOK'
  /\ UNCHANGED uvars /\ UartTypeOK => UartTypeOK'
<1>1. UNCHANGED mem /\ MemTypeOK => MemTypeOK'
  BY Zenon DEF mem, MemTypeOK
<1>2. UNCHANGED tables /\ TablesTypeOK => TablesTypeOK'
  BY Zenon DEF tables, TablesTypeOK
<1>3. UNCHANGED uvars /\ UartTypeOK => UartTypeOK'
  BY Zenon DEF uvars, UartTypeOK
<1>4. QED
  BY Zenon, <1>1, <1>2, <1>3

(* The instructions and calls there are.                                    *)
LEMMA PlaceIs ==
  /\ Loader \subseteq Place /\ DOMAIN After \subseteq Place
  /\ {"uart", "gdt", "lgdt", "segments", "far_jump", "remap", "idt", "lidt", "sti",
      "alloc", "mods", "count", "cli", "poll", "program", "spin"} \subseteq Place
  BY DEF Place, Kmain, Module

(* The segment but for its type.                                            *)
LEMMA TypeCleared ==
  ASSUME NEW base, NEW limit, NEW t \in Int,
         NEW r, r = [base |-> base, limit |-> limit, pages |-> TRUE, wide |-> TRUE,
                     present |-> TRUE, ring |-> 0, type |-> t]
  PROVE  [r EXCEPT !.type = 0] =
           [base |-> base, limit |-> limit, pages |-> TRUE, wide |-> TRUE,
            present |-> TRUE, ring |-> 0, type |-> 0]
<1>1. r \in [base : {base}, limit : {limit}, pages : {TRUE}, wide : {TRUE},
             present : {TRUE}, ring : {0}, type : Int]
  OBVIOUS
<1>2. PICK s : s = [r EXCEPT !.type = 0]
  OBVIOUS
<1>3. s \in [base : {base}, limit : {limit}, pages : {TRUE}, wide : {TRUE},
             present : {TRUE}, ring : {0}, type : {0}]
  BY <1>1, <1>2
<1>4. s = [base |-> base, limit |-> limit, pages |-> TRUE, wide |-> TRUE,
           present |-> TRUE, ring |-> 0, type |-> 0]
  BY <1>3
<1>5. QED
  BY Zenon, <1>2, <1>4

(* gdt_initialize leaves a flat code and a flat data segment.                *)
LEMMA FlatGdt ==
  LET flat(access) == GdtEntry(Zero, <<255, 255, 255, 255>>, access, 207)
  IN  /\ GdtEntry(Zero, Zero, 0, 0) \in Entry
      /\ flat(154) \in Entry /\ Flat(flat(154), CodeType)
      /\ flat(146) \in Entry /\ Flat(flat(146), DataType)
<1>1. 0 \in Byte /\ 154 \in Byte /\ 146 \in Byte /\ 207 \in Byte /\ 255 \in Byte
  BY ByteIs
<1>2. Zero \in Word
  BY <1>1 DEF Zero, Word
<1>3. PICK top \in Word : top = <<255, 255, 255, 255>>
  <2>1. <<255, 255, 255, 255>> \in Word
    BY <1>1 DEF Word
  <2>2. QED
    BY Zenon, <2>1
<1>4. GdtEntry(Zero, Zero, 0, 0) \in Entry
  BY <1>1, <1>2, GdtEntryIs
<1>5. ASSUME NEW access \in {154, 146}
      PROVE  /\ GdtEntry(Zero, top, access, 207) \in Entry
             /\ Segment(GdtEntry(Zero, top, access, 207)) =
                  [base |-> Zero, limit |-> <<255, 255, 15>>, pages |-> TRUE,
                   wide |-> TRUE, present |-> TRUE, ring |-> 0, type |-> access % 32]
  <2>1. access \in Byte
    BY <1>1
  <2>2. /\ GdtEntry(Zero, top, access, 207) \in Entry
        /\ Segment(GdtEntry(Zero, top, access, 207)) =
             [base |-> Zero, limit |-> <<top[1], top[2], top[3] % 16>>,
              pages |-> 207 >= 128, wide |-> (207 \div 64) % 2 = 1,
              present |-> access >= 128, ring |-> (access \div 32) % 4,
              type |-> access % 32]
    BY <1>1, <1>2, <2>1, GdtEntryIs
  <2>3. /\ top[1] = 255 /\ top[2] = 255 /\ top[3] % 16 = 15
        /\ (207 >= 128) = TRUE /\ ((207 \div 64) % 2 = 1) = TRUE
    BY <1>3
  <2>4. (access >= 128) = TRUE /\ (access \div 32) % 4 = 0
    OBVIOUS
  <2>5. QED
    BY <2>2, <2>3, <2>4
<1>6. ASSUME NEW access \in {154, 146}, NEW types, access % 32 \in types
      PROVE  Flat(GdtEntry(Zero, top, access, 207), types)
  <2>1. PICK e : e = GdtEntry(Zero, top, access, 207)
    OBVIOUS
  <2>2. PICK t \in Int : t = access % 32
    OBVIOUS
  <2>3. Segment(e) = [base |-> Zero, limit |-> <<255, 255, 15>>, pages |-> TRUE,
                      wide |-> TRUE, present |-> TRUE, ring |-> 0, type |-> t]
    BY <1>5, <2>1, <2>2
  <2>4. [Segment(e) EXCEPT !.type = 0] =
          [base |-> Zero, limit |-> <<255, 255, 15>>, pages |-> TRUE,
           wide |-> TRUE, present |-> TRUE, ring |-> 0, type |-> 0]
    BY <2>3, TypeCleared
  <2>5. Segment(e).type \in types
    BY <1>6, <2>2, <2>3
  <2>6. QED
    BY <2>1, <2>4, <2>5 DEF Flat
<1>7. 154 % 32 \in CodeType /\ 146 % 32 \in DataType
  BY DEF CodeType, DataType
<1>8. QED
  BY <1>3, <1>4, <1>5, <1>6, <1>7

(* A handler's address is a word.                                           *)
LEMMA HandlerIs == \A v \in 0..47 : Handler[v] \in Word
  BY Zenon, StartupAssumption

(* idt_initialize leaves every vector from 0 to 47 a gate.                  *)
LEMMA FilledIdt ==
  ASSUME FillIdt
  PROVE  DOMAIN idt' = 0..255 /\ (\A v \in 0..255 : idt'[v] \in Entry) /\ IdtFilled'
<1>1. idt' = [v \in 0..255 |-> IF v \in 0..47 THEN IdtEntry(Handler[v], 8, 142)
                               ELSE IdtEntry(Zero, 0, 0)]
  BY Zenon DEF FillIdt
<1>2. 142 \in Byte /\ 0 \in Byte /\ Zero \in Word
  <2>1. 142 \in Byte /\ 0 \in Byte
    BY ByteIs
  <2>2. QED
    BY <2>1 DEF Zero, Word
<1>3. IdtEntry(Zero, 0, 0) \in Entry
  BY <1>2, IdtEntryIs
<1>4. ASSUME NEW v \in 0..47
      PROVE  /\ IdtEntry(Handler[v], 8, 142) \in Entry
             /\ Gate(IdtEntry(Handler[v], 8, 142)) =
                  [offset |-> Handler[v], selector |-> 8, present |-> TRUE, type |-> 14]
  <2>1. PICK h \in Word : h = Handler[v]
    BY Zenon, HandlerIs
  <2>2. /\ IdtEntry(h, 8, 142) \in Entry
        /\ Gate(IdtEntry(h, 8, 142)) =
             [offset |-> h, selector |-> 8, present |-> 142 >= 128, type |-> 142 % 32]
    BY <1>2, IdtEntryIs
  <2>3. (142 >= 128) = TRUE /\ 142 % 32 = 14
    OBVIOUS
  <2>4. QED
    BY <2>1, <2>2, <2>3
<1>5. DOMAIN idt' = 0..255
  BY Zenon, <1>1
<1>6. \A v \in 0..255 : idt'[v] \in Entry
  BY Zenon, <1>1, <1>3, <1>4
<1>7. \A v \in 0..47 : v \in 0..255
  OBVIOUS
<1>8. IdtFilled'
  <2>1. ASSUME NEW v \in 0..47 PROVE idt'[v] = IdtEntry(Handler[v], 8, 142)
    BY Zenon, <1>1, <1>7
  <2>2. ASSUME NEW v \in 0..47
        PROVE  Gate(idt'[v]) = [offset |-> Handler[v], selector |-> 8,
                                present |-> TRUE, type |-> 14]
    BY Zenon, <1>4, <2>1
  <2>3. QED
    BY Zenon, <2>2 DEF IdtFilled, Vector
<1>9. QED
  BY <1>5, <1>6, <1>8

(* serial_initialize keeps the UART's type.                                 *)
LEMMA InitializeUart == ASSUME UartTypeOK, SerialInitialize PROVE UartTypeOK'
<1>1. uart' \in Chip
  BY UartTypeIs, InitializeTypes DEF SerialInitialize
<1>2. QED
  BY Zenon, <1>1, UartTypeIs DEF SerialInitialize

(* serial_print keeps the types.                                            *)
LEMMA PrintTypes ==
  ASSUME UartTypeOK, NEW s \in Seq(Byte), SerialPrint(s)
  PROVE  UartTypeOK'
<1>1. text' = s /\ said' = said \o s /\ uart' = uart /\ wire' = wire
  BY Zenon DEF SerialPrint
<1>2. said \o s \in Seq(Byte)
  BY UartTypeIs, ConcatProperties
<1>3. QED
  BY Zenon, <1>1, <1>2, UartTypeIs

(* An instruction that loads a register keeps the types.                    *)
LEMMA LoadTypes ==
  ASSUME TypeOK, NEW from, NEW to \in Place, NEW c \in Cpu, Load(from, to, c)
  PROVE  TypeOK'
<1>1. pc' = to /\ cpu' = c /\ UNCHANGED mem /\ UNCHANGED tables /\ UNCHANGED uvars
  BY Zenon DEF Load, Go
<1>2. QED
  BY Zenon, <1>1, TypeIs, SameTypes

(* One that changes the directory or the TLB keeps them too.                *)
LEMMA MapTypes ==
  ASSUME TypeOK, NEW from, NEW to \in Place, NEW d \in SUBSET Page, NEW t \in SUBSET Page,
         Map(from, to, d, t)
  PROVE  TypeOK'
<1>1. /\ pc' = to /\ cpu' = cpu /\ pd' = d /\ tlb' = t /\ mbi' = mbi
      /\ UNCHANGED tables /\ UNCHANGED uvars
  BY Zenon DEF Map, Go
<1>2. MemTypeOK'
  BY <1>1, TypeIs DEF MemTypeOK
<1>3. QED
  BY Zenon, <1>1, <1>2, TypeIs, SameTypes

(* What the registers can hold.                                             *)
LEMMA ValueIs ==
  {"none", "info", "info_high", "control", "code", "0xDEADBEEF"} = Value
  BY DEF Value

(* The registers keep their types whatever is loaded.                       *)
LEMMA CpuIs ==
  ASSUME NEW c \in Cpu
  PROVE  /\ c.ebx \in Value /\ c.ecx \in Value
         /\ [c EXCEPT !.cr3 = TRUE] \in Cpu /\ [c EXCEPT !.esp = "high"] \in Cpu
         /\ \A n \in Nat : /\ [c EXCEPT !.gdtr = n] \in Cpu /\ [c EXCEPT !.idtr = n] \in Cpu
                           /\ [c EXCEPT !.cs = n] \in Cpu /\ [c EXCEPT !.ds = n] \in Cpu
         /\ \A b \in BOOLEAN : [c EXCEPT !.ifl = b] \in Cpu
<1>1. c.ebx \in Value /\ c.ecx \in Value
  BY DEF Cpu
<1>2. [c EXCEPT !.cr3 = TRUE] \in Cpu /\ [c EXCEPT !.esp = "high"] \in Cpu
  BY DEF Cpu
<1>3. \A n \in Nat : [c EXCEPT !.gdtr = n] \in Cpu
  BY DEF Cpu
<1>4. \A n \in Nat : [c EXCEPT !.idtr = n] \in Cpu
  BY DEF Cpu
<1>5. \A n \in Nat : [c EXCEPT !.cs = n] \in Cpu
  BY DEF Cpu
<1>6. \A n \in Nat : [c EXCEPT !.ds = n] \in Cpu
  BY DEF Cpu
<1>7. \A b \in BOOLEAN : [c EXCEPT !.ifl = b] \in Cpu
  BY DEF Cpu
<1>8. QED
  BY <1>1, <1>2, <1>3, <1>4, <1>5, <1>6, <1>7

(* The same for a register that takes a value.                              *)
LEMMA CpuValue ==
  ASSUME NEW c \in Cpu, NEW v \in Value
  PROVE  /\ [c EXCEPT !.eax = v] \in Cpu /\ [c EXCEPT !.ecx = v] \in Cpu
         /\ [c EXCEPT !.pse = TRUE, !.ebx = v] \in Cpu
         /\ [c EXCEPT !.pg = TRUE, !.ebx = v] \in Cpu
         /\ [c EXCEPT !.eip = "high", !.ebx = v] \in Cpu
         /\ [c EXCEPT !.ecx = v, !.arg = v] \in Cpu
<1>1. [c EXCEPT !.eax = v] \in Cpu /\ [c EXCEPT !.ecx = v] \in Cpu
  BY DEF Cpu
<1>2. [c EXCEPT !.pse = TRUE, !.ebx = v] \in Cpu
  BY DEF Cpu
<1>3. [c EXCEPT !.pg = TRUE, !.ebx = v] \in Cpu
  BY DEF Cpu
<1>4. [c EXCEPT !.eip = "high", !.ebx = v] \in Cpu
  BY DEF Cpu, Page
<1>5. [c EXCEPT !.ecx = v, !.arg = v] \in Cpu
  BY DEF Cpu
<1>6. QED
  BY <1>1, <1>2, <1>3, <1>4, <1>5

(* The loader keeps the types.                                              *)
LEMMA BootTypes == ASSUME TypeOK, Boot PROVE TypeOK'
<1>1. cpu \in Cpu /\ pd \in SUBSET Page /\ tlb \in SUBSET Page
  BY Zenon, TypeIs DEF MemTypeOK
<1>2. cpu.ebx \in Value /\ cpu.ecx \in Value
  BY <1>1, CpuIs
<1>3. CASE SaveInfo
  <2>1. [cpu EXCEPT !.ecx = cpu.ebx] \in Cpu
    BY Zenon, <1>1, <1>2, CpuValue
  <2>2. "map_low" \in Place
    BY PlaceIs DEF Loader
  <2>3. QED
    BY <1>3, <2>1, <2>2, LoadTypes DEF SaveInfo
<1>4. CASE MapLow
  <2>1. pd \cup {"low"} \in SUBSET Page /\ "map_high" \in Place
    BY <1>1, PlaceIs DEF Page, Loader
  <2>2. QED
    BY <1>1, <1>4, <2>1, MapTypes DEF MapLow
<1>5. CASE MapHigh
  <2>1. pd \cup {"high"} \in SUBSET Page /\ "cr3" \in Place
    BY <1>1, PlaceIs DEF Page, Loader
  <2>2. QED
    BY <1>1, <1>5, <2>1, MapTypes DEF MapHigh
<1>6. CASE LoadCr3
  <2>1. [cpu EXCEPT !.cr3 = TRUE] \in Cpu /\ "pse" \in Place
    BY Zenon, <1>1, CpuIs, PlaceIs DEF Loader
  <2>2. QED
    BY <1>6, <2>1, LoadTypes DEF LoadCr3
<1>7. CASE SetPse
  <2>1. [cpu EXCEPT !.pse = TRUE, !.ebx = "control"] \in Cpu /\ "pg" \in Place
    BY Zenon, <1>1, CpuValue, ValueIs, PlaceIs DEF Loader
  <2>2. QED
    BY <1>7, <2>1, LoadTypes DEF SetPse
<1>8. CASE SetPg
  <2>1. [cpu EXCEPT !.pg = TRUE, !.ebx = "control"] \in Cpu /\ "jump" \in Place
    BY Zenon, <1>1, CpuValue, ValueIs, PlaceIs DEF Loader
  <2>2. QED
    BY Zenon, <1>8, <2>1, LoadTypes DEF SetPg
<1>9. CASE Jump
  <2>1. [cpu EXCEPT !.eip = "high", !.ebx = "code"] \in Cpu /\ "unmap" \in Place
    BY Zenon, <1>1, CpuValue, ValueIs, PlaceIs DEF Loader
  <2>2. QED
    BY Zenon, <1>9, <2>1, LoadTypes DEF Jump
<1>10. CASE Unmap
  <2>1. pd \ {"low"} \in SUBSET Page /\ "invlpg" \in Place
    BY <1>1, PlaceIs DEF Loader
  <2>2. QED
    BY <1>1, <1>10, <2>1, MapTypes DEF Unmap
<1>11. CASE Invlpg
  <2>1. tlb \ {"low"} \in SUBSET Page /\ "stack" \in Place
    BY <1>1, PlaceIs DEF Loader
  <2>2. QED
    BY <1>1, <1>11, <2>1, MapTypes DEF Invlpg
<1>12. CASE SetStack
  <2>1. [cpu EXCEPT !.esp = "high"] \in Cpu /\ "call" \in Place
    BY Zenon, <1>1, CpuIs, PlaceIs DEF Loader
  <2>2. QED
    BY <1>12, <2>1, LoadTypes DEF SetStack
<1>13. CASE CallKmain
  <2> DEFINE moved == IF cpu.ecx = "info" THEN "info_high" ELSE "none"
  <2>1. moved \in Value
    BY ValueIs
  <2>2. [cpu EXCEPT !.ecx = moved, !.arg = moved] \in Cpu /\ "uart" \in Place
    BY Zenon, <1>1, <2>1, CpuValue, PlaceIs
  <2>3. Load("call", "uart", [cpu EXCEPT !.ecx = moved, !.arg = moved])
    BY <1>13 DEF CallKmain
  <2>4. QED
    BY <2>2, <2>3, LoadTypes
<1>14. QED
  BY Zenon, <1>3, <1>4, <1>5, <1>6, <1>7, <1>8, <1>9, <1>10, <1>11, <1>12, <1>13 DEF Boot

(* kmain keeps the types.                                                   *)
LEMMA StartTypes == ASSUME TypeOK, Start PROVE TypeOK'
<1>1. /\ cpu \in Cpu /\ pc \in Place /\ MemTypeOK /\ TablesTypeOK /\ UartTypeOK
      /\ gdt \in [0..2 -> Entry]
  BY Zenon, TypeIs DEF TablesTypeOK
<1>2. 8 \in Nat /\ 16 \in Nat /\ 8 * 3 - 1 \in Nat /\ 8 * 256 - 1 \in Nat
  OBVIOUS
<1>3. CASE StartSerial
  <2>1. pc' = "p_up" /\ UNCHANGED mem /\ UNCHANGED tables /\ cpu' = cpu /\ SerialInitialize
    BY Zenon, <1>3 DEF StartSerial, Call, Go
  <2>2. UartTypeOK'
    BY <1>1, <2>1, InitializeUart
  <2>3. "p_up" \in Place
    BY PlaceIs, AfterDomain
  <2>4. QED
    BY Zenon, <1>1, <2>1, <2>2, <2>3, TypeIs, SameTypes
<1>4. CASE FillGdt
  <2>1. /\ pc' = "lgdt" /\ UNCHANGED mem /\ idt' = idt /\ icw2' = icw2 /\ cpu' = cpu
        /\ UNCHANGED uvars
    BY Zenon, <1>4 DEF FillGdt, Call, Go
  <2>2. gdt' \in [0..2 -> Entry]
    BY <1>4, FlatGdt DEF FillGdt
  <2>3. TablesTypeOK'
    BY Zenon, <1>1, <2>1, <2>2 DEF TablesTypeOK
  <2>4. "lgdt" \in Place
    BY PlaceIs
  <2>5. QED
    BY Zenon, <1>1, <2>1, <2>3, <2>4, TypeIs, SameTypes
<1>5. CASE Lgdt
  <2>1. [cpu EXCEPT !.gdtr = 8 * 3 - 1] \in Cpu /\ "segments" \in Place
    BY Zenon, <1>1, <1>2, CpuIs, PlaceIs
  <2>2. QED
    BY <1>5, <2>1, LoadTypes DEF Lgdt
<1>6. CASE DataSegments
  <2>1. [cpu EXCEPT !.ds = 16] \in Cpu /\ "far_jump" \in Place
    BY Zenon, <1>1, <1>2, CpuIs, PlaceIs
  <2>2. QED
    BY <1>6, <2>1, LoadTypes DEF DataSegments
<1>7. CASE FarJump
  <2>1. [cpu EXCEPT !.cs = 8] \in Cpu /\ "p_gdt" \in Place
    BY Zenon, <1>1, <1>2, CpuIs, PlaceIs, AfterDomain
  <2>2. QED
    BY <1>7, <2>1, LoadTypes DEF FarJump
<1>8. CASE FillIdt
  <2>1. /\ pc' = "lidt" /\ UNCHANGED mem /\ gdt' = gdt /\ icw2' = icw2 /\ cpu' = cpu
        /\ UNCHANGED uvars
    BY Zenon, <1>8 DEF FillIdt, Call, Go
  <2>2. DOMAIN idt' = 0..255 /\ \A v \in 0..255 : idt'[v] \in Entry
    BY <1>8, FilledIdt
  <2>3. TablesTypeOK'
    BY Zenon, <1>1, <2>1, <2>2 DEF TablesTypeOK
  <2>4. "lidt" \in Place
    BY PlaceIs
  <2>5. QED
    BY Zenon, <1>1, <2>1, <2>3, <2>4, TypeIs, SameTypes
<1>9. CASE Lidt
  <2>1. [cpu EXCEPT !.idtr = 8 * 256 - 1] \in Cpu /\ "p_idt" \in Place
    BY Zenon, <1>1, <1>2, CpuIs, PlaceIs, AfterDomain
  <2>2. QED
    BY <1>9, <2>1, LoadTypes DEF Lidt
<1>10. CASE Announce
  <2>1. pc \in DOMAIN After /\ pc' = After[pc].to /\ UNCHANGED mem /\ UNCHANGED tables
        /\ cpu' = cpu /\ SerialPrint(After[pc].text)
    BY Zenon, <1>10 DEF Announce
  <2>2. UartTypeOK'
    BY <1>1, <2>1, AfterText, PrintTypes
  <2>3. pc' \in Place
    BY <2>1, AfterTo, AfterDomain, PlaceIs
  <2>4. QED
    BY Zenon, <1>1, <2>1, <2>2, <2>3, TypeIs, SameTypes
<1>11. CASE Sti
  <2>1. [cpu EXCEPT !.ifl = TRUE] \in Cpu /\ "p_sti" \in Place
    BY Zenon, <1>1, <1>2, CpuIs, PlaceIs, AfterDomain
  <2>2. QED
    BY <1>11, <2>1, LoadTypes DEF Sti, Flag
<1>12. CASE Alloc
  <2>1. pc' \in Place
    BY <1>12, PlaceIs, AfterDomain DEF Alloc, Call, Go
  <2>2. cpu' = cpu /\ UNCHANGED mem /\ UNCHANGED tables /\ UNCHANGED uvars
    BY Zenon, <1>12 DEF Alloc
  <2>3. QED
    BY Zenon, <1>1, <2>1, <2>2, TypeIs, SameTypes
<1>13. CASE Branch
  <2>1. pc' \in Place
    BY <1>13, PlaceIs, AfterDomain DEF Branch, Call, Go
  <2>2. cpu' = cpu /\ UNCHANGED mem /\ UNCHANGED tables /\ UNCHANGED uvars
    BY Zenon, <1>13 DEF Branch
  <2>3. QED
    BY Zenon, <1>1, <2>1, <2>2, TypeIs, SameTypes
<1>14. CASE Cli
  <2>1. [cpu EXCEPT !.ifl = FALSE] \in Cpu /\ "program" \in Place
    BY Zenon, <1>1, <1>2, CpuIs, PlaceIs
  <2>2. QED
    BY <1>14, <2>1, LoadTypes DEF Cli, Flag
<1>15. CASE Program
  <2>1. [cpu EXCEPT !.eax = "0xDEADBEEF"] \in Cpu /\ "spin" \in Place
    BY Zenon, <1>1, CpuValue, ValueIs, PlaceIs
  <2>2. QED
    BY <1>15, <2>1, LoadTypes DEF Program
<1>16. CASE PicRemap
  <2>1. /\ pc' = "p_pic" /\ UNCHANGED mem /\ gdt' = gdt /\ idt' = idt /\ cpu' = cpu
        /\ icw2' = <<32, 40>> /\ UNCHANGED uvars
    BY Zenon, <1>16 DEF PicRemap, Call, Go
  <2>2. TablesTypeOK'
    BY Zenon, <1>1, <2>1, BytePairs DEF TablesTypeOK
  <2>3. "p_pic" \in Place
    BY PlaceIs, AfterDomain
  <2>4. QED
    BY Zenon, <1>1, <2>1, <2>2, <2>3, TypeIs, SameTypes
<1>17. QED
  BY Zenon, <1>3, <1>4, <1>5, <1>6, <1>7, <1>8, <1>9, <1>10, <1>11, <1>12, <1>13,
     <1>14, <1>15, <1>16 DEF Start

(* Sending keeps the types.                                                 *)
LEMMA SendTypes ==
  ASSUME UartTypeOK, WriteChar \/ Transmit
  PROVE  UartTypeOK'
<1>1. /\ uart \in Chip /\ wire \in Seq(0..Noise)
      /\ text \in Seq(Byte) /\ said \in Seq(Byte)
  BY UartTypeIs
<1>2. CASE WriteChar
  <2>1. /\ text # <<>> /\ uart' = Out(uart, "data", Head(text)) /\ text' = Tail(text)
        /\ wire' = wire /\ said' = said
    BY Zenon, <1>2 DEF WriteChar
  <2>2. Head(text) \in Byte /\ Tail(text) \in Seq(Byte)
    BY <1>1, <2>1, HeadTailProperties
  <2>3. uart' \in Chip
    BY <1>1, <2>1, <2>2, OutIs, PortIs
  <2>4. QED
    BY Zenon, <1>1, <2>1, <2>2, <2>3, UartTypeIs
<1>3. CASE Transmit
  <2>1. PICK regs \in [Register -> Byte], queue \in Seq(Byte) :
               uart = [reg |-> regs, queue |-> queue] /\ Len(queue) <= TxSize
    BY <1>1, ChipParts
  <2>2. /\ uart.queue # <<>> /\ uart' = [uart EXCEPT !.queue = Tail(@)]
        /\ \E b \in {Head(uart.queue), Noise} : wire' = Append(wire, b)
        /\ text' = text /\ said' = said
    BY Zenon, <1>3 DEF Transmit
  <2>3. queue # <<>> /\ uart' = [reg |-> regs, queue |-> Tail(queue)]
    BY <2>1, <2>2
  <2>4. /\ Head(queue) \in Byte /\ Tail(queue) \in Seq(Byte)
        /\ Len(Tail(queue)) = Len(queue) - 1 /\ Len(queue) \in Nat
    BY <2>1, <2>3, HeadTailProperties
  <2>5. TxSize \in Nat /\ Len(Tail(queue)) <= TxSize
    BY <2>1, <2>4, TxSizeIs
  <2>6. uart' \in Chip
    BY <2>3, <2>4, <2>5, ChipIs
  <2>7. wire' \in Seq(0..Noise)
    <3>1. PICK b \in {Head(queue), Noise} : wire' = Append(wire, b)
      BY <2>1, <2>2
    <3>2. b \in 0..Noise
      <4>1. PICK h \in Byte : h = Head(queue)
        BY <2>4
      <4>2. h \in Int /\ 0 <= h /\ h < 256
        BY ByteIs
      <4>3. h \in 0..256 /\ 256 \in 0..256
        BY <4>2
      <4>4. QED
        BY <3>1, <4>1, <4>3 DEF Noise
    <3>3. Append(wire, b) \in Seq(0..Noise)
      BY <1>1, <3>2, AppendProperties
    <3>4. QED
      BY <3>1, <3>3
  <2>8. QED
    BY Zenon, <1>1, <2>2, <2>6, <2>7, UartTypeIs
<1>4. QED
  BY <1>2, <1>3

(* An entry that nobody has filled is eight bytes.                          *)
LEMMA ZeroEntry == Zero \o Zero \in Entry
<1>1. 0 \in Byte
  BY ByteIs
<1>2. Zero \in Seq(Byte) /\ Len(Zero) = 4
  BY <1>1 DEF Zero
<1>3. Zero \o Zero \in Seq(Byte) /\ Len(Zero \o Zero) = 8
  <2>1. Zero \o Zero \in Seq(Byte)
    BY Zenon, <1>2, ConcatProperties
  <2>2. Len(Zero \o Zero) = Len(Zero) + Len(Zero)
    BY Zenon, <1>2, ConcatProperties
  <2>3. QED
    BY <1>2, <2>1, <2>2
<1>4. Zero \o Zero \in [1..Len(Zero \o Zero) -> Byte]
  BY Zenon, <1>3, LenProperties
<1>5. QED
  BY <1>3, <1>4 DEF Entry

(* The start has the types.                                                 *)
LEMMA InitTypes == Init => TypeOK
<1> SUFFICES ASSUME Init PROVE TypeOK
  OBVIOUS
<1>1. pc \in Place
  BY Zenon, PlaceIs DEF Init, Loader
<1>2. cpu \in Cpu
  <2>1. OldCode \subseteq Nat /\ OldData \subseteq Nat
    BY Zenon, StartupAssumption
  <2>2. cpu \in [eax : {"none"}, ebx : {"info"}, ecx : {"none"}, arg : {"none"},
                 eip : {"low"}, esp : {"none"}, cr3 : {FALSE}, pse : {FALSE},
                 pg : {FALSE}, gdtr : {-1}, idtr : {-1}, cs : OldCode, ds : OldData,
                 ifl : {FALSE}]
    BY Zenon DEF Init
  <2>3. PICK code \in Nat, data \in Nat :
               cpu = [eax |-> "none", ebx |-> "info", ecx |-> "none", arg |-> "none",
                      eip |-> "low", esp |-> "none", cr3 |-> FALSE, pse |-> FALSE,
                      pg |-> FALSE, gdtr |-> -1, idtr |-> -1, cs |-> code, ds |-> data,
                      ifl |-> FALSE]
    BY Zenon, <2>1, <2>2
  <2>4. QED
    BY <2>3, ValueIs DEF Cpu, Page
<1>3. MemTypeOK
  BY Zenon DEF Init, MemTypeOK
<1>4. TablesTypeOK
  <2>1. /\ gdt = [n \in 0..2 |-> Zero \o Zero]
        /\ idt = [v \in 0..255 |-> Zero \o Zero]
        /\ icw2 = <<8, 112>>
    BY Zenon DEF Init
  <2>2. QED
    BY Zenon, <2>1, ZeroEntry, BytePairs DEF TablesTypeOK
<1>5. UartTypeOK
  <2>1. /\ uart \in [reg : UartLeft, queue : {<<>>}]
        /\ wire = <<>> /\ text = <<>> /\ said = <<>>
    BY Zenon DEF Init, UartInit
  <2>2. PICK r \in UartLeft : uart = [reg |-> r, queue |-> <<>>]
    BY <2>1
  <2>3. <<>> \in Seq(Byte) /\ <<>> \in Seq(0..Noise) /\ Len(<<>>) <= TxSize
    BY TxSizeIs
  <2>4. uart \in Chip
    BY <2>2, <2>3, UartLeftIs, ChipIs
  <2>5. QED
    BY Zenon, <2>1, <2>3, <2>4, UartTypeIs
<1>6. QED
  BY <1>1, <1>2, <1>3, <1>4, <1>5, TypeIs

(* Every step keeps the types.                                              *)
LEMMA NextTypes == TypeOK /\ [Next]_vars => TypeOK'
<1> SUFFICES ASSUME TypeOK, [Next]_vars PROVE TypeOK'
  OBVIOUS
<1>1. pc \in Place /\ cpu \in Cpu /\ MemTypeOK /\ TablesTypeOK /\ UartTypeOK
  BY Zenon, TypeIs
<1>2. CASE Send
  <2>1. /\ pc' = pc /\ cpu' = cpu /\ UNCHANGED mem /\ UNCHANGED tables
        /\ WriteChar \/ Transmit
    BY Zenon, <1>2 DEF Send
  <2>2. QED
    BY Zenon, <1>1, <2>1, SendTypes, SameTypes, TypeIs
<1>3. CASE TlbFill
  <2>1. PICK p \in pd : tlb' = tlb \cup {p}
    BY Zenon, <1>3 DEF TlbFill
  <2>2. /\ pc' = pc /\ cpu' = cpu /\ pd' = pd /\ mbi' = mbi
        /\ UNCHANGED tables /\ UNCHANGED uvars
    BY Zenon, <1>3 DEF TlbFill
  <2>3. MemTypeOK'
    BY <1>1, <2>1, <2>2 DEF MemTypeOK
  <2>4. QED
    BY Zenon, <1>1, <2>2, <2>3, SameTypes, TypeIs
<1>4. CASE UNCHANGED vars
  <2>1. pc' = pc /\ cpu' = cpu /\ UNCHANGED mem /\ UNCHANGED tables /\ UNCHANGED uvars
    BY Zenon, <1>4 DEF vars
  <2>2. QED
    BY Zenon, <1>1, <2>1, SameTypes, TypeIs
<1>5. QED
  BY Zenon, <1>2, <1>3, <1>4, BootTypes, StartTypes DEF Next, Loop

(* Every variable of the start-up keeps its type.                           *)
THEOREM TypeCorrect == Spec => []TypeOK
<1>1. QED
  BY InitTypes, NextTypes, PTL DEF Spec

-----------------------------------------------------------------------------
(* Paging and the call of kmain.                                            *)

BootInv == PagingInv /\ CallInv

(* At the start nothing is mapped and ebx holds GRUB's address.             *)
LEMMA InitBoot == Init => BootInv
<1> SUFFICES ASSUME Init PROVE BootInv
  OBVIOUS
<1>1. /\ pc = "entry" /\ pd = {} /\ tlb = {}
      /\ cpu.ebx = "info" /\ cpu.eip = "low" /\ cpu.pg = FALSE
  BY Zenon DEF Init
<1>2. PagingInv
  BY <1>1 DEF PagingInv, Low
<1>3. CallInv
  BY <1>1 DEF CallInv, Loader
<1>4. QED
  BY Zenon, <1>2, <1>3 DEF BootInv

(* What the loader does to the registers the invariant speaks of.           *)
LEMMA LoadedIs ==
  ASSUME NEW c \in Cpu
  PROVE  /\ \A v \in Value : LET d == [c EXCEPT !.ecx = v] IN
              /\ d.eip = c.eip /\ d.cr3 = c.cr3 /\ d.pse = c.pse /\ d.pg = c.pg
              /\ d.ecx = v /\ d.esp = c.esp /\ d.arg = c.arg
         /\ LET d == [c EXCEPT !.cr3 = TRUE] IN
              /\ d.eip = c.eip /\ d.cr3 /\ d.pse = c.pse /\ d.pg = c.pg
              /\ d.ecx = c.ecx /\ d.esp = c.esp /\ d.arg = c.arg
         /\ LET d == [c EXCEPT !.pse = TRUE, !.ebx = "control"] IN
              /\ d.eip = c.eip /\ d.cr3 = c.cr3 /\ d.pse /\ d.pg = c.pg
              /\ d.ecx = c.ecx /\ d.esp = c.esp /\ d.arg = c.arg
         /\ LET d == [c EXCEPT !.pg = TRUE, !.ebx = "control"] IN
              /\ d.eip = c.eip /\ d.cr3 = c.cr3 /\ d.pse = c.pse /\ d.pg
              /\ d.ecx = c.ecx /\ d.esp = c.esp /\ d.arg = c.arg
         /\ LET d == [c EXCEPT !.eip = "high", !.ebx = "code"] IN
              /\ d.eip = "high" /\ d.cr3 = c.cr3 /\ d.pse = c.pse /\ d.pg = c.pg
              /\ d.ecx = c.ecx /\ d.esp = c.esp /\ d.arg = c.arg
         /\ LET d == [c EXCEPT !.esp = "high"] IN
              /\ d.eip = c.eip /\ d.cr3 = c.cr3 /\ d.pse = c.pse /\ d.pg = c.pg
              /\ d.ecx = c.ecx /\ d.esp = "high" /\ d.arg = c.arg
         /\ \A v \in Value : LET d == [c EXCEPT !.ecx = v, !.arg = v] IN
              /\ d.eip = c.eip /\ d.cr3 = c.cr3 /\ d.pse = c.pse /\ d.pg = c.pg
              /\ d.ecx = v /\ d.esp = c.esp /\ d.arg = v
  BY DEF Cpu

(* Each instruction of the loader leads to what the next one needs.         *)
LEMMA BootSteps ==
  ASSUME TypeOK, BootInv, Boot
  PROVE  BootInv'
<1>1. cpu \in Cpu /\ cpu.ebx \in Value
  BY TypeIs, CpuIs
<1>2. CASE SaveInfo
  <2>1. /\ pc = "entry" /\ pc' = "map_low" /\ pd' = pd /\ tlb' = tlb
        /\ cpu' = [cpu EXCEPT !.ecx = cpu.ebx]
    BY Zenon, <1>2 DEF SaveInfo, Load, Go, mem
  <2>2. /\ cpu'.eip = cpu.eip /\ cpu'.cr3 = cpu.cr3 /\ cpu'.pse = cpu.pse
        /\ cpu'.pg = cpu.pg /\ cpu'.ecx = cpu.ebx /\ cpu'.esp = cpu.esp
    BY Zenon, <1>1, <2>1, LoadedIs
  <2>3. QED
    BY <2>1, <2>2 DEF BootInv, PagingInv, CallInv, Low, Loader
<1>3. CASE MapLow
  <2>1. /\ pc = "map_low" /\ pc' = "map_high" /\ cpu' = cpu
        /\ pd' = pd \cup {"low"} /\ tlb' = tlb
    BY Zenon, <1>3 DEF MapLow, Map, Go
  <2>2. QED
    BY <2>1 DEF BootInv, PagingInv, CallInv, Low, Loader
<1>4. CASE MapHigh
  <2>1. /\ pc = "map_high" /\ pc' = "cr3" /\ cpu' = cpu
        /\ pd' = pd \cup {"high"} /\ tlb' = tlb
    BY Zenon, <1>4 DEF MapHigh, Map, Go
  <2>2. QED
    BY <2>1 DEF BootInv, PagingInv, CallInv, Low, Loader
<1>5. CASE LoadCr3
  <2>1. /\ pc = "cr3" /\ pc' = "pse" /\ pd' = pd /\ tlb' = tlb
        /\ cpu' = [cpu EXCEPT !.cr3 = TRUE]
    BY Zenon, <1>5 DEF LoadCr3, Load, Go, mem
  <2>2. /\ cpu'.eip = cpu.eip /\ cpu'.cr3 /\ cpu'.pse = cpu.pse
        /\ cpu'.pg = cpu.pg /\ cpu'.ecx = cpu.ecx /\ cpu'.esp = cpu.esp
    BY Zenon, <1>1, <2>1, LoadedIs
  <2>3. QED
    BY <2>1, <2>2 DEF BootInv, PagingInv, CallInv, Low, Loader
<1>6. CASE SetPse
  <2>1. /\ pc = "pse" /\ pc' = "pg" /\ pd' = pd /\ tlb' = tlb
        /\ cpu' = [cpu EXCEPT !.pse = TRUE, !.ebx = "control"]
    BY Zenon, <1>6 DEF SetPse, Load, Go, mem
  <2>2. /\ cpu'.eip = cpu.eip /\ cpu'.cr3 = cpu.cr3 /\ cpu'.pse
        /\ cpu'.pg = cpu.pg /\ cpu'.ecx = cpu.ecx /\ cpu'.esp = cpu.esp
    BY Zenon, <1>1, <2>1, LoadedIs
  <2>3. QED
    BY <2>1, <2>2 DEF BootInv, PagingInv, CallInv, Low, Loader
<1>7. CASE SetPg
  <2>1. /\ pc = "pg" /\ pc' = "jump" /\ pd' = pd /\ tlb' = tlb
        /\ cpu' = [cpu EXCEPT !.pg = TRUE, !.ebx = "control"]
    BY Zenon, <1>7 DEF SetPg, Load, Go, mem
  <2>2. /\ cpu'.eip = cpu.eip /\ cpu'.cr3 = cpu.cr3 /\ cpu'.pse = cpu.pse
        /\ cpu'.pg /\ cpu'.ecx = cpu.ecx /\ cpu'.esp = cpu.esp
    BY Zenon, <1>1, <2>1, LoadedIs
  <2>3. QED
    BY <2>1, <2>2 DEF BootInv, PagingInv, CallInv, Low, Loader
<1>8. CASE Jump
  <2>1. /\ pc = "jump" /\ pc' = "unmap" /\ pd' = pd /\ tlb' = tlb
        /\ cpu' = [cpu EXCEPT !.eip = "high", !.ebx = "code"]
    BY Zenon, <1>8 DEF Jump, Load, Go, mem
  <2>2. /\ cpu'.eip = "high" /\ cpu'.cr3 = cpu.cr3 /\ cpu'.pse = cpu.pse
        /\ cpu'.pg = cpu.pg /\ cpu'.ecx = cpu.ecx /\ cpu'.esp = cpu.esp
    BY Zenon, <1>1, <2>1, LoadedIs
  <2>3. QED
    BY <2>1, <2>2 DEF BootInv, PagingInv, CallInv, Low, Loader
<1>9. CASE Unmap
  <2>1. /\ pc = "unmap" /\ pc' = "invlpg" /\ cpu' = cpu
        /\ pd' = pd \ {"low"} /\ tlb' = tlb
    BY Zenon, <1>9 DEF Unmap, Map, Go
  <2>2. QED
    BY <2>1 DEF BootInv, PagingInv, CallInv, Low, Loader
<1>10. CASE Invlpg
  <2>1. /\ pc = "invlpg" /\ pc' = "stack" /\ cpu' = cpu
        /\ pd' = pd /\ tlb' = tlb \ {"low"}
    BY Zenon, <1>10 DEF Invlpg, Map, Go
  <2>2. QED
    BY <2>1 DEF BootInv, PagingInv, CallInv, Low, Loader
<1>11. CASE SetStack
  <2>1. /\ pc = "stack" /\ pc' = "call" /\ pd' = pd /\ tlb' = tlb
        /\ cpu' = [cpu EXCEPT !.esp = "high"]
    BY Zenon, <1>11 DEF SetStack, Load, Go, mem
  <2>2. /\ cpu'.eip = cpu.eip /\ cpu'.cr3 = cpu.cr3 /\ cpu'.pse = cpu.pse
        /\ cpu'.pg = cpu.pg /\ cpu'.ecx = cpu.ecx /\ cpu'.esp = "high"
    BY Zenon, <1>1, <2>1, LoadedIs
  <2>3. QED
    BY <2>1, <2>2 DEF BootInv, PagingInv, CallInv, Low, Loader
<1>12. CASE CallKmain
  <2>1. /\ pc = "call" /\ pc' = "uart" /\ pd' = pd /\ tlb' = tlb
        /\ cpu' = [cpu EXCEPT !.ecx = IF @ = "info" THEN "info_high" ELSE "none",
                              !.arg = IF cpu.ecx = "info" THEN "info_high" ELSE "none"]
    BY Zenon, <1>12 DEF CallKmain, Load, Go, mem
  <2>2. cpu.ecx = "info" /\ "info_high" \in Value
    BY <2>1, ValueIs DEF BootInv, CallInv, Loader
  <2>3. cpu' = [cpu EXCEPT !.ecx = "info_high", !.arg = "info_high"]
    BY <2>1, <2>2
  <2>4. /\ cpu'.eip = cpu.eip /\ cpu'.cr3 = cpu.cr3 /\ cpu'.pse = cpu.pse
        /\ cpu'.pg = cpu.pg /\ cpu'.esp = cpu.esp /\ cpu'.arg = "info_high"
    BY Zenon, <1>1, <2>2, <2>3, LoadedIs
  <2>5. QED
    BY <2>1, <2>4 DEF BootInv, PagingInv, CallInv, Low, Loader
<1>13. QED
  BY Zenon, <1>2, <1>3, <1>4, <1>5, <1>6, <1>7, <1>8, <1>9, <1>10, <1>11, <1>12 DEF Boot

-----------------------------------------------------------------------------
(* kmain's calls.                                                           *)

\* What kmain leaves as the loader set it, and the UART but for its call of
\* serial_initialize.
SameBoot == /\ cpu'.eip = cpu.eip /\ cpu'.cr3 = cpu.cr3 /\ cpu'.pse = cpu.pse
            /\ cpu'.pg = cpu.pg /\ cpu'.esp = cpu.esp /\ cpu'.arg = cpu.arg
Kept == /\ pc \notin Loader /\ pc' \notin ToUart /\ pd' = pd /\ tlb' = tlb /\ SameBoot
        /\ pc = "uart" \/ (pc \notin ToUart /\ uart' = uart)

(* A table that is not written to stays filled.                             *)
LEMMA SameTables ==
  /\ gdt' = gdt /\ GdtFilled => GdtFilled'
  /\ idt' = idt /\ IdtFilled => IdtFilled'
<1>1. gdt' = gdt /\ GdtFilled => GdtFilled'
  BY Zenon DEF GdtFilled
<1>2. idt' = idt /\ IdtFilled => IdtFilled'
  BY Zenon DEF IdtFilled
<1>3. QED
  BY <1>1, <1>2

(* What kmain has set up stays set up, and no call goes back.               *)
LEMMA StartSteps ==
  ASSUME TypeOK, TableInv, Start
  PROVE  Kept /\ TableInv'
<1> USE DEF Loader, ToUart, ToGdt, ToLgdt, ToSegments, ToJump, ToRemap, ToIdt,
       ToLidt, ToSti
<1>1. cpu \in Cpu
  BY Zenon, TypeIs
<1>2. CASE StartSerial
  <2>1. /\ pc = "uart" /\ pc' = "p_up" /\ cpu' = cpu /\ pd' = pd /\ tlb' = tlb
        /\ gdt' = gdt /\ idt' = idt /\ icw2' = icw2
    BY Zenon, <1>2 DEF StartSerial, Call, Go, mem, tables
  <2>2. QED
    BY <2>1 DEF Kept, SameBoot, TableInv
<1>3. CASE FillGdt
  <2>1. /\ pc = "gdt" /\ pc' = "lgdt" /\ cpu' = cpu /\ pd' = pd /\ tlb' = tlb
        /\ idt' = idt /\ icw2' = icw2 /\ uart' = uart
    BY Zenon, <1>3 DEF FillGdt, Call, Go, mem, uvars
  <2>2. GdtFilled'
    BY <1>3, FlatGdt DEF FillGdt, GdtFilled
  <2>3. QED
    BY <2>1, <2>2 DEF Kept, SameBoot, TableInv
<1>4. CASE Lgdt
  <2>1. /\ pc = "lgdt" /\ pc' = "segments" /\ pd' = pd /\ tlb' = tlb
        /\ cpu' = [cpu EXCEPT !.gdtr = 8 * 3 - 1]
        /\ gdt' = gdt /\ idt' = idt /\ icw2' = icw2 /\ uart' = uart
    BY Zenon, <1>4 DEF Lgdt, Load, Go, mem, tables, uvars
  <2>2. /\ SameBoot
        /\ cpu'.ds = cpu.ds /\ cpu'.cs = cpu.cs /\ cpu'.idtr = cpu.idtr
        /\ cpu'.ifl = cpu.ifl /\ cpu'.gdtr = 23
    BY <1>1, <2>1 DEF Cpu, SameBoot
  <2>3. QED
    BY <2>1, <2>2, SameTables DEF Kept, TableInv
<1>5. CASE DataSegments
  <2>1. /\ pc = "segments" /\ pc' = "far_jump" /\ pd' = pd /\ tlb' = tlb
        /\ cpu' = [cpu EXCEPT !.ds = 16]
        /\ gdt' = gdt /\ idt' = idt /\ icw2' = icw2 /\ uart' = uart
    BY Zenon, <1>5 DEF DataSegments, Load, Go, mem, tables, uvars
  <2>2. /\ SameBoot
        /\ cpu'.gdtr = cpu.gdtr /\ cpu'.cs = cpu.cs /\ cpu'.idtr = cpu.idtr
        /\ cpu'.ifl = cpu.ifl /\ cpu'.ds = 16
    BY <1>1, <2>1 DEF Cpu, SameBoot
  <2>3. QED
    BY <2>1, <2>2, SameTables DEF Kept, TableInv
<1>6. CASE FarJump
  <2>1. /\ pc = "far_jump" /\ pc' = "p_gdt" /\ pd' = pd /\ tlb' = tlb
        /\ cpu' = [cpu EXCEPT !.cs = 8]
        /\ gdt' = gdt /\ idt' = idt /\ icw2' = icw2 /\ uart' = uart
    BY Zenon, <1>6 DEF FarJump, Load, Go, mem, tables, uvars
  <2>2. /\ SameBoot
        /\ cpu'.gdtr = cpu.gdtr /\ cpu'.ds = cpu.ds /\ cpu'.idtr = cpu.idtr
        /\ cpu'.ifl = cpu.ifl /\ cpu'.cs = 8
    BY <1>1, <2>1 DEF Cpu, SameBoot
  <2>3. QED
    BY <2>1, <2>2, SameTables DEF Kept, TableInv
<1>7. CASE FillIdt
  <2>1. /\ pc = "idt" /\ pc' = "lidt" /\ cpu' = cpu /\ pd' = pd /\ tlb' = tlb
        /\ gdt' = gdt /\ icw2' = icw2 /\ uart' = uart
    BY Zenon, <1>7 DEF FillIdt, Call, Go, mem, uvars
  <2>2. IdtFilled'
    BY <1>7, FilledIdt
  <2>3. QED
    BY <2>1, <2>2, SameTables DEF Kept, SameBoot, TableInv
<1>8. CASE Lidt
  <2>1. /\ pc = "lidt" /\ pc' = "p_idt" /\ pd' = pd /\ tlb' = tlb
        /\ cpu' = [cpu EXCEPT !.idtr = 8 * 256 - 1]
        /\ gdt' = gdt /\ idt' = idt /\ icw2' = icw2 /\ uart' = uart
    BY Zenon, <1>8 DEF Lidt, Load, Go, mem, tables, uvars
  <2>2. /\ SameBoot
        /\ cpu'.gdtr = cpu.gdtr /\ cpu'.ds = cpu.ds /\ cpu'.cs = cpu.cs
        /\ cpu'.ifl = cpu.ifl /\ cpu'.idtr = 2047
    BY <1>1, <2>1 DEF Cpu, SameBoot
  <2>3. QED
    BY <2>1, <2>2, SameTables DEF Kept, TableInv
<1>9. CASE Announce
  <2>1. /\ pc \in DOMAIN After /\ pc' = After[pc].to /\ cpu' = cpu /\ pd' = pd /\ tlb' = tlb
        /\ gdt' = gdt /\ idt' = idt /\ icw2' = icw2 /\ uart' = uart
    BY Zenon, <1>9 DEF Announce, SerialPrint, mem, tables
  <2>2. PICK to : to = After[pc].to
    OBVIOUS
  <2>3. /\ pc \notin ToUart /\ to \notin ToUart
        /\ to \notin ToGdt => pc \notin ToGdt
        /\ to \notin ToLgdt => pc \notin ToLgdt
        /\ to \notin ToSegments => pc \notin ToSegments
        /\ to \notin ToJump => pc \notin ToJump
        /\ to \notin ToRemap => pc \notin ToRemap
        /\ to \notin ToIdt => pc \notin ToIdt
        /\ to \notin ToLidt => pc \notin ToLidt
        /\ pc \notin ToSti => to \notin ToSti
    BY <2>1, <2>2, AfterDomain, AfterTo
  <2>4. QED
    BY <2>1, <2>2, <2>3, SameTables DEF Kept, SameBoot, TableInv
<1>10. CASE Sti
  <2>1. /\ pc = "sti" /\ pc' = "p_sti" /\ pd' = pd /\ tlb' = tlb
        /\ cpu' = [cpu EXCEPT !.ifl = TRUE]
        /\ gdt' = gdt /\ idt' = idt /\ icw2' = icw2 /\ uart' = uart
    BY Zenon, <1>10 DEF Sti, Flag, Load, Go, mem, tables, uvars
  <2>2. /\ SameBoot
        /\ cpu'.gdtr = cpu.gdtr /\ cpu'.ds = cpu.ds /\ cpu'.cs = cpu.cs
        /\ cpu'.idtr = cpu.idtr /\ cpu'.ifl = TRUE
    BY <1>1, <2>1 DEF Cpu, SameBoot
  <2>3. QED
    BY <2>1, <2>2, SameTables DEF Kept, TableInv
<1>11. CASE Alloc
  <2>1. /\ pc = "alloc" /\ pc' \in {"p_ok", "p_fail"} /\ cpu' = cpu /\ pd' = pd /\ tlb' = tlb
        /\ gdt' = gdt /\ idt' = idt /\ icw2' = icw2 /\ uart' = uart
    BY <1>11 DEF Alloc, Call, Go, mem, tables, uvars
  <2>2. QED
    BY <2>1, SameTables DEF Kept, SameBoot, TableInv
<1>12. CASE Branch
  <2>1. /\ pc \in {"mods", "count"} /\ pc' \in {"p_module", "p_none", "p_jump", "p_count"}
        /\ cpu' = cpu /\ pd' = pd /\ tlb' = tlb
        /\ gdt' = gdt /\ idt' = idt /\ icw2' = icw2 /\ uart' = uart
    BY <1>12 DEF Branch, Call, Go, mem, tables, uvars
  <2>2. QED
    BY <2>1, SameTables DEF Kept, SameBoot, TableInv
<1>13. CASE Cli
  <2>1. /\ pc = "cli" /\ pc' = "program" /\ pd' = pd /\ tlb' = tlb
        /\ cpu' = [cpu EXCEPT !.ifl = FALSE]
        /\ gdt' = gdt /\ idt' = idt /\ icw2' = icw2 /\ uart' = uart
    BY Zenon, <1>13 DEF Cli, Flag, Load, Go, mem, tables, uvars
  <2>2. /\ SameBoot
        /\ cpu'.gdtr = cpu.gdtr /\ cpu'.ds = cpu.ds /\ cpu'.cs = cpu.cs
        /\ cpu'.idtr = cpu.idtr /\ cpu'.ifl = FALSE
    BY <1>1, <2>1 DEF Cpu, SameBoot
  <2>3. QED
    BY <2>1, <2>2, SameTables DEF Kept, TableInv
<1>14. CASE Program
  <2>1. /\ pc = "program" /\ pc' = "spin" /\ pd' = pd /\ tlb' = tlb
        /\ cpu' = [cpu EXCEPT !.eax = "0xDEADBEEF"]
        /\ gdt' = gdt /\ idt' = idt /\ icw2' = icw2 /\ uart' = uart
    BY Zenon, <1>14 DEF Program, Load, Go, mem, tables, uvars
  <2>2. /\ SameBoot
        /\ cpu'.gdtr = cpu.gdtr /\ cpu'.ds = cpu.ds /\ cpu'.cs = cpu.cs
        /\ cpu'.idtr = cpu.idtr /\ cpu'.ifl = cpu.ifl
    BY <1>1, <2>1 DEF Cpu, SameBoot
  <2>3. QED
    BY <2>1, <2>2, SameTables DEF Kept, TableInv
<1>15. CASE PicRemap
  <2>1. /\ pc = "remap" /\ pc' = "p_pic" /\ cpu' = cpu /\ pd' = pd /\ tlb' = tlb
        /\ gdt' = gdt /\ idt' = idt /\ icw2' = <<32, 40>> /\ uart' = uart
    BY Zenon, <1>15 DEF PicRemap, Call, Go, mem, uvars
  <2>2. QED
    BY <2>1, SameTables DEF Kept, SameBoot, TableInv
<1>16. QED
  BY Zenon, <1>2, <1>3, <1>4, <1>5, <1>6, <1>7, <1>8, <1>9, <1>10, <1>11, <1>12, <1>13,
     <1>14, <1>15 DEF Start

-----------------------------------------------------------------------------
(* The invariant holds.                                                     *)

(* The loader touches neither tables nor UART, and no interrupt flag.       *)
LEMMA BootKeeps ==
  ASSUME TypeOK, Boot
  PROVE  /\ pc \in Loader /\ pc' \in ToUart /\ cpu'.ifl = cpu.ifl
         /\ UNCHANGED uvars
<1>1. cpu \in Cpu
  BY Zenon, TypeIs
<1>2. CASE SaveInfo
  <2>1. /\ pc = "entry" /\ pc' = "map_low" /\ UNCHANGED uvars
        /\ cpu' = [cpu EXCEPT !.ecx = cpu.ebx]
    BY Zenon, <1>2 DEF SaveInfo, Load, Go
  <2>2. QED
    BY <1>1, <2>1 DEF Cpu, ToUart, Loader
<1>3. CASE LoadCr3
  <2>1. /\ pc = "cr3" /\ pc' = "pse" /\ UNCHANGED uvars
        /\ cpu' = [cpu EXCEPT !.cr3 = TRUE]
    BY Zenon, <1>3 DEF LoadCr3, Load, Go
  <2>2. QED
    BY <1>1, <2>1 DEF Cpu, ToUart, Loader
<1>4. CASE SetPse
  <2>1. /\ pc = "pse" /\ pc' = "pg" /\ UNCHANGED uvars
        /\ cpu' = [cpu EXCEPT !.pse = TRUE, !.ebx = "control"]
    BY Zenon, <1>4 DEF SetPse, Load, Go
  <2>2. QED
    BY <1>1, <2>1 DEF Cpu, ToUart, Loader
<1>5. CASE SetPg
  <2>1. /\ pc = "pg" /\ pc' = "jump" /\ UNCHANGED uvars
        /\ cpu' = [cpu EXCEPT !.pg = TRUE, !.ebx = "control"]
    BY Zenon, <1>5 DEF SetPg, Load, Go
  <2>2. QED
    BY <1>1, <2>1 DEF Cpu, ToUart, Loader
<1>6. CASE Jump
  <2>1. /\ pc = "jump" /\ pc' = "unmap" /\ UNCHANGED uvars
        /\ cpu' = [cpu EXCEPT !.eip = "high", !.ebx = "code"]
    BY Zenon, <1>6 DEF Jump, Load, Go
  <2>2. QED
    BY <1>1, <2>1 DEF Cpu, ToUart, Loader
<1>7. CASE SetStack
  <2>1. /\ pc = "stack" /\ pc' = "call" /\ UNCHANGED uvars
        /\ cpu' = [cpu EXCEPT !.esp = "high"]
    BY Zenon, <1>7 DEF SetStack, Load, Go
  <2>2. QED
    BY <1>1, <2>1 DEF Cpu, ToUart, Loader
<1>8. CASE CallKmain
  <2>1. pc = "call" /\ pc' = "uart" /\ UNCHANGED uvars
    BY Zenon, <1>8 DEF CallKmain, Load, Go
  <2>2. cpu'.ifl = cpu.ifl
    BY <1>1, <1>8 DEF CallKmain, Load, Cpu
  <2>3. QED
    BY <2>1, <2>2 DEF ToUart, Loader
<1>9. CASE MapLow \/ MapHigh \/ Unmap \/ Invlpg
  <2>1. /\ pc \in {"map_low", "map_high", "unmap", "invlpg"} /\ cpu' = cpu /\ UNCHANGED uvars
        /\ pc' \in {"map_high", "cr3", "invlpg", "stack"}
    BY <1>9 DEF MapLow, MapHigh, Unmap, Invlpg, Map, Go, uvars
  <2>2. QED
    BY <2>1 DEF ToUart, Loader
<1>10. QED
  BY Zenon, <1>2, <1>3, <1>4, <1>5, <1>6, <1>7, <1>8, <1>9 DEF Boot

(* kmain uses the serial port in two of its steps.                          *)
LEMMA StartSays ==
  ASSUME Start
  PROVE  \/ StartSerial
         \/ Announce
         \/ UNCHANGED uvars
<1>1. FillGdt \/ FillIdt \/ PicRemap => UNCHANGED uvars
  BY Zenon DEF FillGdt, FillIdt, PicRemap
<1>2. Lgdt \/ DataSegments \/ FarJump \/ Lidt \/ Program => UNCHANGED uvars
  BY Zenon DEF Lgdt, DataSegments, FarJump, Lidt, Program, Load
<1>3. Sti \/ Cli => UNCHANGED uvars
  BY Zenon DEF Sti, Cli, Flag, Load
<1>4. Alloc \/ Branch => UNCHANGED uvars
  BY Zenon DEF Alloc, Branch
<1>5. QED
  BY Zenon, <1>1, <1>2, <1>3, <1>4 DEF Start

(* From where the loader calls kmain, serial_initialize is next.            *)
LEMMA OnlySerial == ASSUME Start, pc = "uart" PROVE StartSerial
<1>1. ~FillGdt /\ ~FillIdt /\ ~PicRemap /\ ~Alloc /\ ~Branch
  BY DEF FillGdt, FillIdt, PicRemap, Alloc, Branch, Call, Go
<1>2. ~Lgdt /\ ~DataSegments /\ ~FarJump /\ ~Lidt /\ ~Program /\ ~Sti /\ ~Cli
  BY DEF Lgdt, DataSegments, FarJump, Lidt, Program, Sti, Cli, Flag, Load, Go
<1>3. ~Announce
  BY AfterDomain DEF Announce
<1>4. QED
  BY Zenon, <1>1, <1>2, <1>3 DEF Start

(* A UART that is not written to stays as it is.                            *)
LEMMA SameSerial ==
  /\ UNCHANGED uvars /\ Quiet => Quiet'
  /\ uart' = uart /\ Programmed(uart) => Programmed(uart')
  /\ UNCHANGED uvars => uart' = uart
  BY Zenon DEF uvars, Quiet, Programmed

(* Sending leaves the settings as they are, and nothing is sent before      *)
(* serial_initialize.                                                       *)
LEMMA SendSteps ==
  ASSUME UartTypeOK, Programmed(uart), WriteChar \/ Transmit
  PROVE  Programmed(uart')
<1>1. uart \in Chip /\ text \in Seq(Byte) /\ uart.reg["line_ctrl"] < 128
  BY UartTypeIs DEF Programmed
<1>2. uart'.reg = uart.reg
  <2>1. CASE WriteChar
    <3>1. text # <<>> /\ uart' = Out(uart, "data", Head(text))
      BY Zenon, <2>1 DEF WriteChar
    <3>2. Head(text) \in Byte
      BY <1>1, <3>1, HeadTailProperties
    <3>3. QED
      BY <1>1, <3>1, <3>2, OutData
  <2>2. CASE Transmit
    <3>1. uart' = [uart EXCEPT !.queue = Tail(@)]
      BY Zenon, <2>2 DEF Transmit
    <3>2. QED
      BY <1>1, <3>1 DEF Chip
  <2>3. QED
    BY <2>1, <2>2
<1>3. QED
  BY Zenon, <1>2 DEF Programmed

(* The invariant holds at the start.                                        *)
LEMMA InitInv == Init => StartupInv
<1> SUFFICES ASSUME Init PROVE StartupInv
  OBVIOUS
<1>1. pc = "entry" /\ cpu.ifl = FALSE
  BY Zenon DEF Init
<1>2. TableInv
  BY <1>1 DEF TableInv, ToUart, ToGdt, ToLgdt, ToSegments, ToJump, ToRemap, ToIdt,
       ToLidt, ToSti, Loader
<1>3. SerialInv
  <2>1. /\ uart \in [reg : UartLeft, queue : {<<>>}]
        /\ wire = <<>> /\ text = <<>> /\ said = <<>>
    BY Zenon DEF Init, UartInit
  <2>2. QED
    BY <1>1, <2>1 DEF SerialInv, Quiet, ToUart, Loader
<1>4. QED
  BY Zenon, <1>2, <1>3, InitBoot DEF StartupInv, BootInv

(* The loader keeps the invariant.                                          *)
LEMMA BootInvariant == ASSUME TypeOK, StartupInv, Boot PROVE StartupInv'
<1>1. /\ pc \in Loader /\ pc' \in ToUart /\ cpu'.ifl = cpu.ifl
      /\ UNCHANGED uvars
  BY Zenon, BootKeeps
<1>2. BootInv'
  BY Zenon, BootSteps DEF StartupInv, BootInv
<1>3. TableInv'
  <2>1. icw2' = icw2 \/ pc' \in ToRemap
    BY <1>1 DEF ToUart, ToGdt, ToLgdt, ToSegments, ToJump, ToRemap
  <2>2. QED
    BY <1>1, <2>1 DEF StartupInv, TableInv, ToUart, ToGdt, ToLgdt, ToSegments, ToJump,
                ToRemap, ToIdt, ToLidt, ToSti
<1>4. SerialInv'
  <2>1. pc \in ToUart
    BY <1>1 DEF ToUart
  <2>2. uart.reg \in UartLeft /\ Quiet
    BY Zenon, <2>1 DEF StartupInv, SerialInv
  <2>3. uart' = uart /\ Quiet'
    BY Zenon, <1>1, <2>2, SameSerial
  <2>4. QED
    BY Zenon, <1>1, <2>2, <2>3 DEF SerialInv
<1>5. QED
  BY <1>2, <1>3, <1>4 DEF StartupInv, BootInv

(* kmain keeps the invariant.                                               *)
LEMMA StartInvariant == ASSUME TypeOK, StartupInv, Start PROVE StartupInv'
<1>1. Kept /\ TableInv'
  BY Zenon, StartSteps DEF StartupInv
<1>2. pc \notin Loader /\ pc' \notin Loader /\ pc' \notin ToUart
  BY <1>1 DEF Kept, ToUart
<1>3. PagingInv' /\ CallInv'
  BY <1>1, <1>2 DEF Kept, SameBoot, StartupInv, PagingInv, CallInv, Loader, Low
<1>4. Programmed(uart')
  <2>1. CASE pc = "uart"
    <3>1. StartSerial
      BY <2>1, OnlySerial
    <3>2. uart.reg \in UartLeft /\ Quiet
      BY <2>1 DEF StartupInv, SerialInv, ToUart
    <3>3. uart \in Chip /\ uart.reg["line_ctrl"] < 128 /\ uart.queue = <<>>
      BY Zenon, <3>2, TypeIs, UartTypeIs, UartLeftIs DEF Quiet
    <3>4. uart' = Framed(Divided(Out(uart, "int_en", 0)))
      BY Zenon, <3>1 DEF StartSerial, SerialInitialize
    <3>5. QED
      BY Zenon, <3>3, <3>4, InitializeSets
  <2>2. CASE pc # "uart"
    <3>1. pc \notin ToUart /\ uart' = uart
      BY <1>1, <2>2 DEF Kept
    <3>2. QED
      BY Zenon, <3>1, SameSerial DEF StartupInv, SerialInv
  <2>3. QED
    BY <2>1, <2>2
<1>5. SerialInv'
  BY Zenon, <1>2, <1>4 DEF SerialInv
<1>6. QED
  BY <1>1, <1>3, <1>5 DEF StartupInv

(* Steps that neither the loader nor kmain takes.                           *)
LEMMA StillInvariant ==
  ASSUME TypeOK, StartupInv, pc' = pc, cpu' = cpu, pd' = pd, UNCHANGED tables,
         cpu.pg \/ tlb' = tlb, tlb' \subseteq tlb \cup pd,
         UNCHANGED uvars \/ WriteChar \/ Transmit
  PROVE  StartupInv'
<1>1. "low" \in pd => pc \in {"map_high", "cr3", "pse", "pg", "jump", "unmap"}
  BY DEF StartupInv, PagingInv, Low
<1>2. PagingInv'
  BY <1>1 DEF StartupInv, PagingInv, Low
<1>3. CallInv'
  BY Zenon DEF StartupInv, CallInv
<1>4. gdt' = gdt /\ idt' = idt /\ icw2' = icw2
  BY Zenon DEF tables
<1>5. TableInv'
  BY <1>4, SameTables DEF StartupInv, TableInv
<1>6. SerialInv'
  <2>1. CASE UNCHANGED uvars
    BY Zenon, <2>1, SameSerial DEF StartupInv, SerialInv
  <2>2. CASE WriteChar \/ Transmit
    <3>1. ~Quiet
      BY Zenon, <2>2 DEF WriteChar, Transmit, Quiet
    <3>2. pc \notin ToUart /\ Programmed(uart)
      BY Zenon, <3>1 DEF StartupInv, SerialInv
    <3>3. Programmed(uart')
      BY Zenon, <2>2, <3>2, TypeIs, SendSteps
    <3>4. QED
      BY Zenon, <3>2, <3>3 DEF SerialInv
  <2>3. QED
    BY <2>1, <2>2
<1>7. QED
  BY <1>2, <1>3, <1>5, <1>6 DEF StartupInv

(* Every step keeps the invariant.                                          *)
LEMMA NextInv == TypeOK /\ StartupInv /\ [Next]_vars => StartupInv'
<1> SUFFICES ASSUME TypeOK, StartupInv, [Next]_vars PROVE StartupInv'
  OBVIOUS
<1>1. CASE Send
  <2>1. /\ pc' = pc /\ cpu' = cpu /\ pd' = pd /\ tlb' = tlb /\ UNCHANGED tables
        /\ WriteChar \/ Transmit
    BY Zenon, <1>1 DEF Send, mem
  <2>2. QED
    BY <2>1, StillInvariant
<1>2. CASE TlbFill
  <2>1. /\ pc' = pc /\ cpu' = cpu /\ pd' = pd /\ UNCHANGED tables /\ UNCHANGED uvars
        /\ cpu.pg /\ \E p \in pd : tlb' = tlb \cup {p}
    BY Zenon, <1>2 DEF TlbFill
  <2>2. tlb' \subseteq tlb \cup pd
    BY <2>1
  <2>3. QED
    BY Zenon, <2>1, <2>2, StillInvariant
<1>3. CASE UNCHANGED vars
  <2>1. /\ pc' = pc /\ cpu' = cpu /\ pd' = pd /\ tlb' = tlb /\ UNCHANGED tables
        /\ UNCHANGED uvars
    BY Zenon, <1>3 DEF vars, mem
  <2>2. QED
    BY <2>1, StillInvariant
<1>4. QED
  BY Zenon, <1>1, <1>2, <1>3, BootInvariant, StartInvariant DEF Next, Loop

(* The invariant and the types hold in every state.                         *)
LEMMA Invariant == Spec => [](TypeOK /\ StartupInv)
<1>1. TypeOK /\ StartupInv /\ [Next]_vars => (TypeOK /\ StartupInv)'
  BY NextTypes, NextInv
<1>2. QED
  BY <1>1, InitTypes, InitInv, PTL DEF Spec

-----------------------------------------------------------------------------
(* The properties.                                                          *)

(* Every instruction of the loader and of kmain lies in a page the CPU can  *)
(* translate, in its table or in a translation it kept, and C finds its     *)
(* stack and the Multiboot structure at their upper addresses.              *)
THEOREM AlwaysReachable == Spec => []Reachable
<1>1. TypeOK /\ StartupInv => Reachable
  <2> SUFFICES ASSUME TypeOK, StartupInv PROVE Reachable
    OBVIOUS
  <2>1. Mapped(cpu.eip)
    BY DEF StartupInv, PagingInv, Low, Mapped
  <2>2. pc = "unmap" => Mapped("high")
    BY DEF StartupInv, PagingInv, Low, Mapped
  <2>3. InC => pc \notin Loader
    BY AfterDomain DEF InC, Kmain, Module, Loader
  <2>4. InC => cpu.eip = "high" /\ cpu.esp = "high" /\ cpu.arg = "info_high"
    BY <2>3 DEF StartupInv, PagingInv, CallInv, Low, Loader
  <2>5. QED
    BY <2>1, <2>2, <2>4 DEF Reachable
<1>2. QED
  BY <1>1, Invariant, PTL

(* In C a null pointer faults: the entry is gone from the directory, and    *)
(* the CPU keeps no translation from before it was.                         *)
THEOREM NullAlwaysFaults == Spec => []NullFaults
<1>1. TypeOK /\ StartupInv => NullFaults
  <2> SUFFICES ASSUME TypeOK, StartupInv, InC PROVE ~Mapped("low")
    BY DEF NullFaults
  <2>1. pc \notin Loader
    BY AfterDomain DEF InC, Kmain, Module, Loader
  <2>2. QED
    BY <2>1 DEF StartupInv, PagingInv, Low, Loader, Mapped
<1>2. QED
  BY <1>1, Invariant, PTL

(* A vector as a number.                                                    *)
LEMMA VectorIs == ASSUME NEW v \in Vector PROVE v \in Int /\ 0 <= v /\ v <= 47
  BY DEF Vector

(* When interrupts are on every vector leads through a gate and a segment   *)
(* of the loaded tables to its own handler, and the UART asks for none.     *)
THEOREM AlwaysServed == Spec => []InterruptsServed
<1>1. TypeOK /\ StartupInv => InterruptsServed
  <2> SUFFICES ASSUME TypeOK, StartupInv, cpu.ifl PROVE InterruptsServed
    BY Zenon DEF InterruptsServed
  <2>1. pc \notin ToSti
    BY DEF StartupInv, TableInv
  <2>2. /\ GdtFilled /\ cpu.gdtr = 23 /\ cpu.ds = 16 /\ cpu.cs = 8 /\ IdtFilled
        /\ cpu.idtr = 2047 /\ icw2 = <<32, 40>>
    BY <2>1 DEF StartupInv, TableInv, ToGdt, ToLgdt, ToSegments, ToJump, ToRemap, ToIdt,
       ToLidt, ToSti
  <2>3. Selects(8, CodeType) /\ Selects(16, DataType)
    <3>1. /\ 8 % 8 = 0 /\ 8 \in 8 .. cpu.gdtr - 7 /\ 8 \div 8 = 1
          /\ 16 % 8 = 0 /\ 16 \in 8 .. cpu.gdtr - 7 /\ 16 \div 8 = 2
      BY <2>2
    <3>2. Flat(gdt[8 \div 8], CodeType) /\ Flat(gdt[16 \div 8], DataType)
      BY <2>2, <3>1 DEF GdtFilled
    <3>3. QED
      BY Zenon, <3>1, <3>2 DEF Selects
  <2>4. ASSUME NEW v \in Vector
        PROVE  /\ 8 * v + 7 <= cpu.idtr
               /\ Gate(idt[v]).offset = Handler[v]
               /\ Gate(idt[v]).present /\ Gate(idt[v]).type = 14
               /\ Gate(idt[v]).selector = 8
    <3>1. 8 * v + 7 <= cpu.idtr
      BY <2>2, VectorIs
    <3>2. Gate(idt[v]) = [offset |-> Handler[v], selector |-> 8,
                          present |-> TRUE, type |-> 14]
      BY <2>2 DEF IdtFilled
    <3>3. QED
      BY <3>1, <3>2
  <2>5. uart.reg["int_en"] = 0
    BY <2>1 DEF StartupInv, SerialInv, Programmed, ToSti, ToLidt, ToIdt, ToRemap,
                ToJump, ToSegments, ToLgdt, ToGdt
  <2>6. Selects(cpu.cs, CodeType) /\ Selects(cpu.ds, DataType)
    BY <2>2, <2>3
  <2>7. ASSUME NEW v \in Vector
        PROVE  /\ 8 * v + 7 <= cpu.idtr
               /\ Gate(idt[v]).offset = Handler[v]
               /\ Gate(idt[v]).present /\ Gate(idt[v]).type = 14
               /\ Selects(Gate(idt[v]).selector, CodeType)
    BY Zenon, <2>3, <2>4
  <2>8. ASSUME NEW n \in 0..15 PROVE LineVector(n) = 32 + n
    <3>1. CASE n \in 0..7
      <4>1. n \div 8 = 0 /\ n % 8 = n
        BY <3>1
      <4>2. QED
        BY <2>2, <4>1 DEF LineVector
    <3>2. CASE n \in 8..15
      <4>1. n \div 8 = 1 /\ n % 8 = n - 8
        BY <3>2
      <4>2. QED
        BY <2>2, <4>1 DEF LineVector
    <3>3. QED
      BY <3>1, <3>2
  <2>9. QED
    BY Zenon, <2>5, <2>6, <2>7, <2>8 DEF InterruptsServed, Vector
<1>2. QED
  BY <1>1, Invariant, PTL

(* A byte that moves on, from the string to the transmitter or from there   *)
(* to the terminal, keeps its place.                                        *)
LEMMA MovesOn ==
  ASSUME NEW s \in Seq(Int), NEW t \in Seq(Int), t # <<>>
  PROVE  /\ <<Head(t)>> \o Tail(t) = t
         /\ (s \o <<Head(t)>>) \o Tail(t) = s \o t
         /\ Append(s, Head(t)) \o Tail(t) = s \o t
<1>1. Head(t) \in Int /\ Tail(t) \in Seq(Int) /\ Len(Tail(t)) = Len(t) - 1
      /\ \A i \in 1..Len(Tail(t)) : Tail(t)[i] = t[i + 1]
  BY HeadTailProperties
<1>2. <<Head(t)>> \in Seq(Int) /\ Len(<<Head(t)>>) = 1 /\ <<Head(t)>>[1] = t[1]
  BY <1>1
<1>3. <<Head(t)>> \o Tail(t) = t
  <2> DEFINE u == <<Head(t)>> \o Tail(t)
  <2>1. /\ u \in Seq(Int) /\ Len(u) = 1 + Len(Tail(t))
        /\ \A i \in 1..1 + Len(Tail(t)) :
             u[i] = IF i <= 1 THEN <<Head(t)>>[i] ELSE Tail(t)[i - 1]
    BY <1>1, <1>2, ConcatProperties
  <2>2. Len(t) \in Nat /\ Len(u) = Len(t)
    BY <1>1, <2>1
  <2>3. ASSUME NEW i \in 1..Len(u) PROVE u[i] = t[i]
    BY <1>1, <1>2, <2>1, <2>2
  <2>4. QED
    BY <2>1, <2>2, <2>3, SeqEqual
<1>4. (s \o <<Head(t)>>) \o Tail(t) = s \o t
  BY <1>1, <1>2, <1>3, ConcatAssociative
<1>5. Append(s, Head(t)) = s \o <<Head(t)>>
  BY <1>1, AppendIsConcat
<1>6. QED
  BY <1>3, <1>4, <1>5

(* What the string passes through, as sequences of numbers.                 *)
LEMMA SeqInt ==
  ASSUME UartTypeOK
  PROVE  /\ wire \in Seq(Int) /\ uart.queue \in Seq(Int) /\ text \in Seq(Int)
         /\ said \in Seq(Int)
<1>1. Byte \subseteq Int /\ 0..Noise \subseteq Int
  BY ByteIs DEF Noise
<1>2. uart.queue \in Seq(Byte)
  BY UartTypeIs DEF Chip
<1>3. QED
  BY Zenon, <1>1, <1>2, UartTypeIs, SeqMonotonic

(* A byte sent, or transmitted, stays in its place.                         *)
LEMMA SendFaithful ==
  ASSUME UartTypeOK, Programmed(uart), Faithful, WriteChar \/ Transmit
  PROVE  Faithful'
<1>1. /\ wire \in Seq(Int) /\ uart.queue \in Seq(Int) /\ text \in Seq(Int)
      /\ wire \o uart.queue \in Seq(Int)
  BY SeqInt, ConcatProperties
<1>2. CASE WriteChar
  <2>1. /\ text # <<>> /\ uart.queue = <<>> /\ uart' = Out(uart, "data", Head(text))
        /\ text' = Tail(text) /\ wire' = wire /\ said' = said
    BY Zenon, <1>2 DEF WriteChar
  <2>2. uart'.queue = <<Head(text)>>
    <3>1. uart \in Chip /\ text \in Seq(Byte) /\ uart.reg["line_ctrl"] < 128
      BY UartTypeIs DEF Programmed
    <3>2. Head(text) \in Byte
      BY <2>1, <3>1, HeadTailProperties
    <3>3. QED
      BY <2>1, <3>1, <3>2, OutData
  <2>3. wire \o <<>> = wire
    BY <1>1, ConcatEmptySeq
  <2>4. (wire \o <<Head(text)>>) \o Tail(text) = wire \o text
    BY <1>1, <2>1, MovesOn
  <2>5. QED
    BY <2>1, <2>2, <2>3, <2>4 DEF Faithful
<1>3. CASE Transmit
  <2>1. /\ uart.queue # <<>> /\ uart' = [uart EXCEPT !.queue = Tail(@)]
        /\ wire' = Append(wire, IF Tuned THEN Head(uart.queue) ELSE Noise)
        /\ text' = text /\ said' = said
    BY Zenon, <1>3 DEF Transmit
  <2>2. Tuned
    BY Zenon DEF Programmed, Tuned
  <2>3. uart'.queue = Tail(uart.queue)
    <3>1. uart \in Chip
      BY UartTypeIs
    <3>2. QED
      BY <2>1, <3>1 DEF Chip
  <2>4. Append(wire, Head(uart.queue)) \o Tail(uart.queue) = wire \o uart.queue
    BY <1>1, <2>1, MovesOn
  <2>5. QED
    BY Zenon, <2>1, <2>2, <2>3, <2>4 DEF Faithful
<1>4. QED
  BY <1>2, <1>3

(* Nothing moves unless the UART or the string does.                        *)
LEMMA SameFaithful == UNCHANGED uvars /\ Faithful => Faithful'
  BY Zenon DEF uvars, Faithful

(* A new string follows what was said before.                               *)
LEMMA PrintFaithful ==
  ASSUME UartTypeOK, Faithful, NEW s \in Seq(Int), SerialPrint(s)
  PROVE  Faithful'
<1>1. /\ text = <<>> /\ text' = s /\ said' = said \o s /\ uart' = uart /\ wire' = wire
  BY Zenon DEF SerialPrint
<1>2. wire \o uart.queue \in Seq(Int)
  BY SeqInt, ConcatProperties
<1>3. said = wire \o uart.queue
  BY <1>1, <1>2, ConcatEmptySeq DEF Faithful
<1>4. QED
  BY Zenon, <1>1, <1>3 DEF Faithful

(* Programming a silent UART says nothing.                                  *)
LEMMA SilentFaithful ==
  ASSUME Quiet, Faithful, uart'.queue = <<>>, UNCHANGED <<wire, text, said>>
  PROVE  Faithful'
  BY Zenon DEF Quiet, Faithful

(* Every step keeps the terminal's text what was said.                      *)
LEMMA NextFaithful ==
  ASSUME TypeOK, StartupInv, Faithful, [Next]_vars
  PROVE  Faithful'
<1>1. UartTypeOK
  BY Zenon, TypeIs
<1>2. CASE Boot
  BY Zenon, <1>2, BootKeeps, SameFaithful
<1>3. CASE StartSerial
  <2>1. pc = "uart"
    BY Zenon, <1>3 DEF StartSerial, Call, Go
  <2>2. uart.reg \in UartLeft /\ Quiet
    BY <2>1 DEF StartupInv, SerialInv, ToUart
  <2>3. uart \in Chip /\ uart.reg["line_ctrl"] < 128 /\ uart.queue = <<>>
    BY Zenon, <1>1, <2>2, UartTypeIs, UartLeftIs DEF Quiet
  <2>4. /\ uart' = Framed(Divided(Out(uart, "int_en", 0)))
        /\ UNCHANGED <<wire, text, said>>
    BY Zenon, <1>3 DEF StartSerial, SerialInitialize
  <2>5. uart'.queue = <<>>
    BY <2>3, <2>4, InitializeSets
  <2>6. QED
    BY Zenon, <2>2, <2>4, <2>5, SilentFaithful
<1>4. CASE Announce
  <2>1. pc \in DOMAIN After /\ SerialPrint(After[pc].text)
    BY Zenon, <1>4 DEF Announce
  <2>2. After[pc].text \in Seq(Int)
    <3>1. Byte \subseteq Int
      BY ByteIs
    <3>2. QED
      BY Zenon, <2>1, <3>1, AfterText, SeqMonotonic
  <2>3. QED
    BY Zenon, <1>1, <2>1, <2>2, PrintFaithful
<1>5. CASE Start
  BY Zenon, <1>3, <1>4, <1>5, StartSays, SameFaithful
<1>6. CASE Send
  <2>1. WriteChar \/ Transmit
    BY Zenon, <1>6 DEF Send
  <2>2. ~Quiet
    BY Zenon, <2>1 DEF WriteChar, Transmit, Quiet
  <2>3. Programmed(uart)
    BY Zenon, <2>2 DEF StartupInv, SerialInv
  <2>4. QED
    BY Zenon, <1>1, <2>1, <2>3, SendFaithful
<1>7. CASE TlbFill \/ UNCHANGED vars
  BY Zenon, <1>7, SameFaithful DEF TlbFill, vars
<1>8. QED
  BY Zenon, <1>2, <1>5, <1>6, <1>7 DEF Next, Loop

(* The terminal reads what serial_print was given, in order and without     *)
(* loss or noise, whatever the registers held and however small the FIFO.   *)
THEOREM AlwaysFaithful == Spec => []Faithful
<1>1. Init => Faithful
  <2> SUFFICES ASSUME Init PROVE Faithful
    OBVIOUS
  <2>1. /\ uart \in [reg : UartLeft, queue : {<<>>}]
        /\ wire = <<>> /\ text = <<>> /\ said = <<>>
    BY Zenon DEF Init, UartInit
  <2>2. uart.queue = <<>>
    BY <2>1
  <2>3. <<>> \o <<>> = <<>>
    BY ConcatEmptySeq, EmptySeq
  <2>4. QED
    BY Zenon, <2>1, <2>2, <2>3 DEF Faithful
<1>2. (TypeOK /\ StartupInv) /\ Faithful /\ [Next]_vars => Faithful'
  BY NextFaithful
<1>3. QED
  BY <1>1, <1>2, Invariant, PTL DEF Spec
=============================================================================
