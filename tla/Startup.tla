------------------------------- MODULE Startup -------------------------------
(***************************************************************************)
(* From GRUB's jump to loader.s to the polling loop of the chat, or to the *)
(* module GRUB loaded: paging, the move to the upper half of the address   *)
(* space, the serial port, GDT and IDT, sti, and the branch at the end of  *)
(* kmain.  One action is one instruction of the loader, or one call of     *)
(* kmain; while serial_print has text to send, kmain waits.                *)
(*                                                                         *)
(* Addresses count by the 4 MB page they lie in: "low" from 0, "high" from *)
(* 0xC0000000.  The kernel is linked high and loaded low (link.ld).  GRUB's*)
(* structures and the module lie in the first 4 MB of memory.              *)
(***************************************************************************)
EXTENDS Descriptors, Uart

CONSTANTS Handler,    \* the addresses of interrupt_handler_0 to _47
          MultiBoot,  \* what GRUB's structure may say of modules
          OldCode,    \* the code selectors and
          OldData     \* the data selectors GRUB may leave

\* multiboot_info_t, as far as kmain reads it: bit 3 of flags, and
\* mods_count.
MultibootInfo == [mods : BOOLEAN, count : Nat]

ASSUME StartupAssumption ==
  /\ Handler \in [0..47 -> Word]
  /\ MultiBoot \subseteq MultibootInfo
  /\ OldCode \subseteq Nat /\ OldData \subseteq Nat

VARIABLES pc,     \* the next instruction, or call of kmain
          cpu,    \* the CPU's registers, see Cpu
          pd,     \* boot_page_directory's entries 0 and 768
          tlb,    \* the pages whose translation the CPU keeps
          gdt,    \* gdt_entries
          idt,    \* idt_entries
          icw2,   \* the first vector of each of the two 8259s
          mbi     \* the Multiboot structure

mem == <<pd, tlb, mbi>>
tables == <<gdt, idt, icw2>>
vars == <<pc, cpu, mem, tables, uvars>>

Page == {"low", "high"}

\* ebx and ecx by what they hold: info is the physical address of the
\* Multiboot structure, info_high its address in the upper half.
Value == {"none", "info", "info_high", "control", "code", "0xDEADBEEF"}
Cpu == [eax : Value, ebx : Value, ecx : Value, arg : Value,
        eip : Page, esp : {"none", "high"}, cr3 : BOOLEAN, pse : BOOLEAN,
        pg : BOOLEAN, gdtr : Int, idtr : Int, cs : Nat, ds : Nat, ifl : BOOLEAN]

\* kmain's calls of serial_print: what follows, and the string's first and
\* last character.
After == [
  p_up     |-> [to |-> "p_title",  text |-> <<80, 10>>],
  p_title  |-> [to |-> "gdt",      text |-> <<75, 10>>],
  p_gdt    |-> [to |-> "remap",    text |-> <<71, 10>>],
  p_pic    |-> [to |-> "idt",      text |-> <<80, 10>>],
  p_idt    |-> [to |-> "p_screen", text |-> <<73, 10>>],
  p_screen |-> [to |-> "sti",      text |-> <<77, 10>>],
  p_sti    |-> [to |-> "p_pmm",    text |-> <<73, 10>>],
  p_pmm    |-> [to |-> "alloc",    text |-> <<84, 32>>],
  p_ok     |-> [to |-> "mods",     text |-> <<83, 10>>],
  p_fail   |-> [to |-> "mods",     text |-> <<70, 10>>],
  p_module |-> [to |-> "count",    text |-> <<77, 10>>],
  p_jump   |-> [to |-> "cli",      text |-> <<83, 10>>],
  p_count  |-> [to |-> "p_chat",   text |-> <<65, 10>>],
  p_none   |-> [to |-> "p_chat",   text |-> <<78, 10>>],
  p_chat   |-> [to |-> "poll",     text |-> <<77, 10>>]]

Loader == {"entry", "map_low", "map_high", "cr3", "pse", "pg", "jump",
           "unmap", "invlpg", "stack", "call"}
Kmain == {"uart", "gdt", "lgdt", "segments", "far_jump", "remap", "idt", "lidt",
          "sti", "alloc", "mods", "count", "cli", "poll"} \cup DOMAIN After
Module == {"program", "spin"}

\* An address in page p can be used.  Without PSE the directory's entries
\* would be page tables.
Mapped(p) == IF cpu.pg THEN p \in tlb \/ (cpu.cr3 /\ cpu.pse /\ p \in pd)
             ELSE p = "low"

Init == /\ pc = "entry"
        /\ cpu \in [eax : {"none"}, ebx : {"info"}, ecx : {"none"},
                    arg : {"none"}, eip : {"low"}, esp : {"none"},
                    cr3 : {FALSE}, pse : {FALSE}, pg : {FALSE},
                    gdtr : {-1}, idtr : {-1}, cs : OldCode, ds : OldData,
                    ifl : {FALSE}]
        /\ pd = {}
        /\ tlb = {}
        /\ gdt = [n \in 0..2 |-> Zero \o Zero]
        /\ idt = [v \in 0..255 |-> Zero \o Zero]
        /\ icw2 = <<8, 112>>
        /\ mbi \in MultiBoot
        /\ UartInit

Go(from, to) == pc = from /\ pc' = to

-----------------------------------------------------------------------------
(* loader.s.                                                                *)
Load(from, to, newCpu) == /\ Go(from, to)
                          /\ cpu' = newCpu
                          /\ UNCHANGED <<mem, tables, uvars>>

Map(from, to, newPd, newTlb) == /\ Go(from, to)
                                /\ pd' = newPd
                                /\ tlb' = newTlb
                                /\ UNCHANGED <<cpu, mbi, tables, uvars>>

SaveInfo == Load("entry", "map_low", [cpu EXCEPT !.ecx = cpu.ebx])

\* The same four megabytes at 0, where the loader runs, and at 3 GB.
MapLow == Map("map_low", "map_high", pd \cup {"low"}, tlb)
MapHigh == Map("map_high", "cr3", pd \cup {"high"}, tlb)

LoadCr3 == Load("cr3", "pse", [cpu EXCEPT !.cr3 = TRUE])
SetPse == Load("pse", "pg", [cpu EXCEPT !.pse = TRUE, !.ebx = "control"])
SetPg == Load("pg", "jump", [cpu EXCEPT !.pg = TRUE, !.ebx = "control"])
Jump == Load("jump", "unmap", [cpu EXCEPT !.eip = "high", !.ebx = "code"])

Unmap == Map("unmap", "invlpg", pd \ {"low"}, tlb)

\* Fault: the CPU keeps the translation.
InvlpgNone == Map("invlpg", "stack", pd, tlb)

Invlpg == Map("invlpg", "stack", pd, tlb \ {"low"})

SetStack == Load("stack", "call", [cpu EXCEPT !.esp = "high"])

\* Fault: the argument is taken from ebx, where GRUB left it.
CallKmainEbx == Load("call", "uart", [cpu EXCEPT !.arg = cpu.ebx])

\* add ecx, push ecx, call kmain.
CallKmain ==
  Load("call", "uart",
       [cpu EXCEPT !.ecx = IF @ = "info" THEN "info_high" ELSE "none",
                   !.arg = IF cpu.ecx = "info" THEN "info_high" ELSE "none"])

\* The CPU may look a translation up, and keep it, whenever it likes.
TlbFill == /\ cpu.pg
           /\ \E p \in pd : tlb' = tlb \cup {p}
           /\ UNCHANGED <<pc, cpu, pd, mbi, tables, uvars>>

-----------------------------------------------------------------------------
(* kmain.                                                                   *)
Call(from, to) == text = <<>> /\ Go(from, to)

StartSerial == /\ Call("uart", "p_up")
               /\ SerialInitialize
               /\ UNCHANGED <<cpu, mem, tables>>

\* gdt_initialize fills the table and the operand of lgdt.
FillGdt == /\ Call("gdt", "lgdt")
           /\ gdt' = [n \in 0..2 |->
                CASE n = 0 -> GdtEntry(Zero, Zero, 0, 0)
                  [] n = 1 -> GdtEntry(Zero, <<255, 255, 255, 255>>, 154, 207)
                  [] n = 2 -> GdtEntry(Zero, <<255, 255, 255, 255>>, 146, 207)]
           /\ UNCHANGED <<cpu, mem, idt, icw2, uvars>>

Lgdt == Load("lgdt", "segments", [cpu EXCEPT !.gdtr = 8 * 3 - 1])
DataSegments == Load("segments", "far_jump", [cpu EXCEPT !.ds = 16])

\* Fault: a near jump leaves cs as GRUB set it.
NearJump == Load("far_jump", "p_gdt", cpu)

FarJump == Load("far_jump", "p_gdt", [cpu EXCEPT !.cs = 8])

\* pic_remap, which leaves the masks as they were.
PicRemap == /\ Call("remap", "p_pic")
            /\ icw2' = <<32, 40>>
            /\ UNCHANGED <<cpu, mem, gdt, idt, uvars>>

\* Fault: the loop that clears the table runs once too often.
FillIdtPast == /\ Call("idt", "lidt")
               /\ idt' = [v \in 0..256 |-> IF v \in 0..47
                                           THEN IdtEntry(Handler[v], 8, 142)
                                           ELSE IdtEntry(Zero, 0, 0)]
               /\ UNCHANGED <<cpu, mem, gdt, icw2, uvars>>

\* idt_initialize.
FillIdt == /\ Call("idt", "lidt")
           /\ idt' = [v \in 0..255 |-> IF v \in 0..47
                                       THEN IdtEntry(Handler[v], 8, 142)
                                       ELSE IdtEntry(Zero, 0, 0)]
           /\ UNCHANGED <<cpu, mem, gdt, icw2, uvars>>

Lidt == Load("lidt", "p_idt", [cpu EXCEPT !.idtr = 8 * 256 - 1])

Announce == /\ pc \in DOMAIN After
            /\ pc' = After[pc].to
            /\ SerialPrint(After[pc].text)
            /\ UNCHANGED <<cpu, mem, tables>>

Flag(from, to, on) == /\ text = <<>>
                      /\ Load(from, to, [cpu EXCEPT !.ifl = on])

Sti == Flag("sti", "p_sti", TRUE)

\* The first allocation, which may find nothing.
Alloc == /\ \E to \in {"p_ok", "p_fail"} : Call("alloc", to)
         /\ UNCHANGED <<cpu, mem, tables, uvars>>

\* What GRUB says of modules.
Branch == /\ \/ Call("mods", IF mbi.mods THEN "p_module" ELSE "p_none")
             \/ Call("count", IF mbi.count = 1 THEN "p_jump" ELSE "p_count")
          /\ UNCHANGED <<cpu, mem, tables, uvars>>

\* Fault: the module is started with interrupts on.
CliNone == Flag("cli", "program", cpu.ifl)

Cli == Flag("cli", "program", FALSE)

\* program.s.
Program == Load("program", "spin", [cpu EXCEPT !.eax = "0xDEADBEEF"])

\* The polling loop, which Chat models, and jmp $.
Loop == /\ pc \in {"poll", "spin"}
        /\ UNCHANGED vars

Boot == \/ SaveInfo \/ MapLow \/ MapHigh \/ LoadCr3 \/ SetPse \/ SetPg \/ Jump
        \/ Unmap \/ Invlpg \/ SetStack \/ CallKmain

Start == \/ StartSerial \/ FillGdt \/ Lgdt \/ DataSegments \/ FarJump
         \/ PicRemap \/ FillIdt \/ Lidt \/ Announce \/ Sti \/ Alloc \/ Branch
         \/ Cli \/ Program

Send == (WriteChar \/ Transmit) /\ UNCHANGED <<pc, cpu, mem, tables>>

Next == Boot \/ Start \/ Send \/ TlbFill \/ Loop

\* One thread, and a transmitter that no flow control stops.
Spec == Init /\ [][Next]_vars /\ WF_vars(Boot \/ Start \/ Send)

-----------------------------------------------------------------------------
(* Every variable keeps its type.                                           *)
TypeOK == /\ pc \in Loader \cup Kmain \cup Module
          /\ cpu \in Cpu
          /\ pd \subseteq Page /\ tlb \subseteq Page
          /\ gdt \in [0..2 -> Entry]
          /\ DOMAIN idt = 0..255 /\ \A v \in 0..255 : idt[v] \in Entry
          /\ icw2 \in [1..2 -> Byte]
          /\ mbi \in MultiBoot
          /\ UartTypeOK

InC == pc \in Kmain \cup Module

(* No step of the start-up touches an address without a translation: the    *)
(* code, the directory when the loader writes to it by its upper address,   *)
(* and in C the stack and the Multiboot structure, whose address survives   *)
(* the loader's use of ebx (loader.s:42-89).                                *)
Reachable == /\ Mapped(cpu.eip)
             /\ pc = "unmap" => Mapped("high")
             /\ InC => /\ cpu.eip = "high" /\ cpu.esp = "high"
                       /\ cpu.arg = "info_high"

(* In C nothing is mapped at 0 any more, not by a translation the CPU has   *)
(* kept either, so that a null pointer faults (loader.s:78-80).             *)
NullFaults == InC => ~Mapped("low")

\* The segment a selector of ring 0 names is in the table the CPU uses.
Selects(selector, types) == /\ selector % 8 = 0
                            /\ selector \in 8 .. cpu.gdtr - 7
                            /\ Flat(gdt[selector \div 8], types)

\* The vector the CPU is given for an IRQ line.
LineVector(n) == icw2[1 + (n \div 8)] + (n % 8)

(* Whenever interrupts are on, every vector from 0 to 47 leads to its own   *)
(* handler, through a present interrupt gate of a table that is loaded, in  *)
(* a flat code segment; iret can reload cs, and every data access reaches   *)
(* all addresses; the 16 lines have the vectors 32 to 47, so that none is   *)
(* taken for an exception; and the UART, which is polled, asks for no       *)
(* interrupt (gdt.c:88-105, gdt_flush.s:13-33, pic.c:43-45, idt.c:108-175,  *)
(* kmain.c:32-64).                                                          *)
InterruptsServed ==
  cpu.ifl =>
    /\ Selects(cpu.cs, CodeType) /\ Selects(cpu.ds, DataType)
    /\ \A v \in 0..47 : /\ 8 * v + 7 <= cpu.idtr
                        /\ Gate(idt[v]).offset = Handler[v]
                        /\ Gate(idt[v]).present /\ Gate(idt[v]).type = 14
                        /\ Selects(Gate(idt[v]).selector, CodeType)
    /\ \A n \in 0..15 : LineVector(n) = 32 + n
    /\ uart.reg["int_en"] = 0

(* With exactly one module the machine ends in the module, interrupts off,  *)
(* so that a debugger finds its eax; otherwise in the chat, interrupts on.  *)
(* Everything printed has then reached the terminal (kmain.c:95-141).  This *)
(* is the start-up behind a pmm_initialize that ends: whether it does is a  *)
(* property of Pmm, InitialiseEnds.                                         *)
Settles ==
  LET alone == mbi.mods /\ mbi.count = 1
  IN  <>[](/\ wire = said
           /\ IF alone THEN pc = "spin" /\ ~cpu.ifl /\ cpu.eax = "0xDEADBEEF"
              ELSE pc = "poll" /\ cpu.ifl)
=============================================================================
