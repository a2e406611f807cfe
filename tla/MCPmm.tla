------------------------------- MODULE MCPmm -------------------------------
(* A memory of sixteen pages of four bytes.  The kernel is at 24..31, as    *)
(* the linker places it: page-aligned, KERNEL_END exclusive.                *)
EXTENDS Pmm

Region(b, l, t) == [base |-> b, len |-> l, type |-> t]

\* Low memory and a hole, and above it the map's rest.
Above(rest) == <<Region(0, 16, 1), Region(16, 8, 2)>> \o rest

\* Memory up to the last page, one byte into it, and to its end.
\* From 30 the loop meets the last page at 62.
AtTheEnd ==
  {Above(<<Region(24, 36, 1), Region(60, 4, 2)>>),
   Above(<<Region(24, 37, 1), Region(61, 3, 2)>>),
   Above(<<Region(24, 40, 1)>>),
   Above(<<Region(30, 32, 1), Region(62, 2, 2)>>),
   Above(<<Region(30, 33, 1), Region(63, 1, 2)>>)}

\* Low memory, a hole, high memory and a ROM at the top; and the same with
\* the regions out of order, as the boot loader may give them.
MCMaps == AtTheEnd \cup
  {<<Region(0, 16, 1), Region(16, 8, 2), Region(24, 32, 1), Region(56, 8, 2)>>,
   <<Region(56, 8, 2), Region(24, 32, 1), Region(16, 8, 2), Region(0, 16, 1)>>}

\* No module, one right after the kernel, or two; then one that ends right
\* before the last page, and one whose mod_end is its first byte.
MCModuleLists == {<<>>,
                  <<[start |-> 32, end |-> 34]>>,
                  <<[start |-> 36, end |-> 43], [start |-> 44, end |-> 47]>>,
                  <<[start |-> 56, end |-> 59]>>,
                  <<[start |-> 56, end |-> 60]>>}

\* Low memory ends inside a page, as it does at 0x9FC00 on a PC.
MCUnalignedMaps ==
  {<<Region(0, 14, 1), Region(14, 10, 2), Region(24, 32, 1), Region(56, 8, 2)>>}

\* As much memory as the address space holds, the part that gives way to
\* devices moved above it: the last region starts at WordSize.
MCHighMaps ==
  {<<Region(0, 16, 1), Region(16, 8, 2), Region(24, 16, 1), Region(40, 24, 2),
     Region(64, 32, 1)>>}
=============================================================================
