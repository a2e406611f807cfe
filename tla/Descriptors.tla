----------------------------- MODULE Descriptors -----------------------------
(***************************************************************************)
(* An entry of the GDT or of the IDT is eight bytes in the order of the    *)
(* packed structures of gdt.h and idt.h.  gdt_set_entry and idt_set_entry  *)
(* spread their arguments over them; the CPU puts the pieces together      *)
(* again.  A 32-bit word is its four bytes, the lowest first.              *)
(***************************************************************************)
EXTENDS Integers, Sequences

Byte == 0..255
Word == [1..4 -> Byte]
Entry == [1..8 -> Byte]
Zero == <<0, 0, 0, 0>>

\* gdt_set_entry: limit_low, base_low, base_mid, access, granularity and
\* base_high.
GdtEntry(base, limit, access, granularity) ==
  <<limit[1], limit[2], base[1], base[2], base[3], access,
    (limit[3] % 16) + 16 * (granularity \div 16), base[4]>>

\* idt_set_entry: offset_low, selector, zero, type_attr and offset_high.
IdtEntry(handler, selector, type_attr) ==
  <<handler[1], handler[2], selector % 256, selector \div 256,
    0, type_attr, handler[3], handler[4]>>

-----------------------------------------------------------------------------
\* What the CPU takes from a segment descriptor: base, limit in pages or
\* bytes, operand size, presence, privilege and type.
Segment(e) == [base |-> <<e[3], e[4], e[5], e[8]>>,
               limit |-> <<e[1], e[2], e[7] % 16>>,
               pages |-> e[7] >= 128,
               wide |-> (e[7] \div 64) % 2 = 1,
               present |-> e[6] >= 128,
               ring |-> (e[6] \div 32) % 4,
               type |-> e[6] % 32]

\* A present segment of ring 0 that spans all 32-bit addresses.
Flat(e, types) ==
  /\ Segment(e).type \in types
  /\ [Segment(e) EXCEPT !.type = 0] =
       [base |-> Zero, limit |-> <<255, 255, 15>>, pages |-> TRUE,
        wide |-> TRUE, present |-> TRUE, ring |-> 0, type |-> 0]

\* Readable code and writable data; the CPU may have set the accessed bit.
CodeType == {26, 27}
DataType == {18, 19}

\* What the CPU takes from a gate; 14 is a 32-bit interrupt gate.
Gate(e) == [offset |-> <<e[1], e[2], e[7], e[8]>>,
            selector |-> e[3] + 256 * e[4],
            present |-> e[6] >= 128,
            type |-> e[6] % 32]
=============================================================================
