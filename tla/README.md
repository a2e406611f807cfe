# MiniOS kernel: a TLA+ verification project

`src/` is a small 32-bit x86 kernel in C and assembly. It boots from GRUB, sets
up segmentation, the interrupt controllers and a physical page bitmap, and then
runs a chat between two users: one at the PC keyboard and VGA screen, one at a
terminal on the serial port. This directory holds TLA+ models of its parts, TLC
configurations that check them on small instances, and proofs that TLAPS checks
for all values of the constants.

Paths below are relative to `src/src/` unless they say otherwise.

## 1. Inventory of the system

There is one thread, `kmain`, and interrupt handlers that run on its stack.
Nothing is persisted and nothing restarts. What is hard here is the interplay of
the thread, the handlers and the devices, array boundaries, and the fact that
two users share one screen and one loop.

| Component | State | Operations | Talks to |
|---|---|---|---|
| Keyboard driver and ring (`keyboard.c`, `chat.c:94-128`) | 8042 buffer, `kbd_ring`, `kbd_head`, `kbd_tail` | `keyboard_handler`, `chat_kbd_enqueue`, `kbd_pop`, reset in `chat_init` | IRQ 1 writes, main loop reads, shared memory guarded by `cli`/`sti` |
| Line editors (`chat.c:19-90, 130-206`) | `kbd_line`, `kbd_len`, `ser_line`, `ser_len` | store, erase, Enter, `str_equal`, `append_formatted` | read by commands and `chat_submit` through a `char *` |
| Chat (`chat.c`, `kmain.c:136-141`) | interrupt flag, both lines, the two outputs | `chat_poll`, `chat_try_command`, `chat_submit` | pops the ring, polls the UART, writes console and UART |
| Console (`framebuffer.c`) | video memory, `current_position`, the two cursor registers | write, new line, scroll, backspace, clear | called by everything that prints |
| Serial driver (`serial.c`) | UART registers, two of them behind DLAB, and its FIFO | programming, print (busy wait), poll, read | chat, `kmain`, demonstrations |
| Deadlock demonstrations (`deadlock.c`) | two lock words, two names, a local array | `spin_lock`, `spin_unlock`, `str_copy`, safe and unsafe demonstration | called by commands |
| Physical memory manager (`memory.c`) | `pmm_bitmap` | initialise from the Multiboot map, allocate, free | `kmain` |
| Interrupt path (`pic.c`, `idt.c`, `interrupt.c`, `interrupt_handlers.s`) | both 8259s, IDT, the CPU's flag and stack | remap, gates, dispatch, acknowledge, `iret` | devices; calls `keyboard_handler` |
| Loader and paging (`loader.s`) | page directory, CR0, CR3, CR4, translation cache | identity and upper-half mapping, jump, unmapping, call of `kmain` | hands `kmain` the Multiboot structure's address |
| Segmentation (`gdt.c`, `gdt_flush.s`) | GDT, GDTR, segment registers | fill, load, reload the segments | CPU; the gates name its code segment |
| Start-up (`kmain.c`) | none of its own | calls everything in order, then the chat or the module | all |
| External program (`program.s`) | `eax` | loops for ever | called with interrupts off |
| Port I/O (`io.s`) | none | `inb`, `outb` | one instruction each |

What makes each part correct, and what makes that hard:

- **Ring.** Every accepted key is popped once and in order, a key is lost only
  when the ring is full. The handler runs between any two instructions of the
  main loop that are not between `cli` and `sti`, including between the two
  stores by which `chat_init` resets the indices.
- **Lines.** What Enter hands over is exactly what was typed and not erased. The
  array keeps old characters, and its readers only know the NUL.
- **Chat.** Each line is posted once under its author's name, both ends see the
  same messages, and the loops, the busy wait for the UART and the critical
  sections never leave a key or a message behind.
- **Console.** The linear position stays on the screen through wrapping and
  scrolling. Two users write to it without knowing of each other.
- **Demonstrations.** The swap is whole, every lock taken is released, the
  unsafe one never returns and the safe one always does.
- **Serial driver.** The terminal reads what is printed, whatever the BIOS left
  in the registers. The meaning of a port depends on DLAB, and the device
  silently drops a byte that comes too early.
- **Page bitmap.** Only spare memory is handed out, no page twice, and 0 means
  failure and never a page. Addresses are 32 bits and wrap.
- **Interrupts.** Every interrupt, a spurious one included, is acknowledged at
  each controller that waits for it and nowhere else; handlers do not nest; the
  keyboard's edge-triggered line falls after every key; on every way through the
  stubs `interrupt_handler` finds its parameters and `iret` what the CPU pushed,
  with an error code or without.
- **Start-up.** No step uses an address that is not mapped, or a table that is not
  loaded or not complete; after it a null pointer faults. Most of what goes wrong
  here shows only later: a stale `cs` at the first `iret`, a wrong divisor at the
  terminal, a kept translation at the first null pointer.

`PROJECT.json` lists the hazards line by line with the properties that cover
them, and says why where no property does.

## 2. Modules

```
BoundedFifo <== Keyboard          LineSpec <== LineEdit --> CStrings
     :                                :                        ^
     : (taken as abstract)            : (taken as abstract)    |
     +.........> Chat <...............+          DeadlockDemo -+
                  |                                   |
                  v                                   v
              ChatRoom                            Transfer

Terminal <== Console <-- ChatScreen     PageAllocator <== Pmm      Irq

Startup --> Descriptors
   +------> Uart
```

`A <== B`: B is shown to implement A. `-->`: EXTENDS. `MCx` gives the constants
of `x` for TLC; `xProofs` holds the theorems about `x`. Definitions marked
`Fault` are variants of the definition below or above them with one plausible
mistake; no specification uses them, they are there to show which property
notices.

**Keyboard.** `obf` is the output buffer of the 8042, `head`/`tail`/`ring` the
C variables, `ifl` the CPU's flag, `pc` the place of the main thread. A pass of
`keyboard_handler`'s loop is one action, because nothing it shares can change
under it while interrupts are off. `chat_init`'s stores are separate actions
because the handler can run between them. The indices are `unsigned char`:
increments are reduced by the ring size and by 256. `BoundedFifo` is what the
ring promises: put, lose when full, take, and one moment at which everything
from before is discarded (the store to `kbd_tail` in `chat_init`).

**LineEdit, CStrings.** One editor, `user` says which of the two. The line is
an array with a length beside it; `CString(a)` is what a reader of the pointer
sees. The serial editor's erase stores the NUL even in an empty line and
the keyboard's does not. `Serve` is what `chat_try_command` and `chat_submit`
make of the array: a command, nothing, or a message formatted into a buffer of
`LINE_MAX + 16` bytes, cut where it would not fit. `LineSpec` has no array.

**Chat.** The two loops of `chat_poll`, the commands and `chat_submit`, against
a keyboard, a UART that receives at any time and a transmitter that is
sometimes busy. It builds on the two abstract specifications above: the queue
is a sequence and the lines are sequences. Places where the code waits for the
UART (`echo`, `eol`, `demo`, `print`) need `thr` and take it; `print` is with
interrupts off. `chat_poll` reads the serial port until it is empty, so
only then does `user` go back to `"vga"`. `ChatRoom` is what the users are
promised: two drafts, one conversation.

**Console, ChatScreen.** `Console` is `framebuffer.c` with one step per
character, as its loop has it; the screen scrolls inside that step, as the code
does it. The cursor is the two one-byte registers that
`update_cursor_position` writes. Colours are left out. Its starting screen is whatever the boot loader
left. `Terminal` is a grid of rows and a cursor, with no linear
position. `ChatScreen` extends `Console` with the calls the chat makes: echo, erase,
a message of either user, and the notices that `kmain` and the commands
write; a command's line is discarded with its notice.

**DeadlockDemo.** The demonstrations step by step: each turn of `spin_lock` is
an exchange, `str_copy` works on arrays whose old bytes stay, and the local
`tmp` starts with any bytes. `Transfer` is the promise: two names that are
exchanged or not.

**Pmm.** `pmm_initialize` loop by loop, one turn per step, with the address
reduced to a machine word after every addition; the low words of the map's
64-bit fields are all it reads. A region that reaches into the last page, or a
module whose `mod_end` lies in it, makes a loop's address wrap, and
`pmm_initialize` then never ends; `LoopsStop` says when no loop does. The caller of `pmm_free_page` keeps the contract
of `memory.h:20-23`; nothing in the kernel calls it. `PageAllocator` is the
promise: a set of free pages, lowest first.

**Irq.** Request, service and mask registers of the two 8259s together, with
the fully nested priority; lines are latched on a rising edge, and whether a
latched edge survives the line's fall is left open, as it differs between
controllers. A frame is what one interrupt has on the stack, word by
word: what the CPU pushes (`Delivered`), what the stub of its vector adds
(`Stub`), `pushad`; and what is left after the common handler's way out
(`Unwound`). Its stage is how far the handler is: stub, drain (the keyboard's
loop), acknowledge, `iret`. The main program turns interrupts on and off at will. A spurious
interrupt may happen whenever the flag is set, a non-maskable one at any time but
during another, and the main program may come to an instruction
that raises one of the exceptions of `Exception`, with an error code or without: as nothing repairs the cause, it then faults for ever, with
interrupts on (`"stuck"`) or off (`"hung"`).

**Descriptors.** A table entry is eight bytes, as `gdt_set_entry` and
`idt_set_entry` pack them; `Segment` and `Gate` are what the CPU reads out
of them again. No state.

**Uart.** The registers behind COM1's ports, two of which DLAB gives a second
meaning, the transmit FIFO, and the wire. `serial_initialize` is its seven
writes one after the other (interrupts off, `Divided` through the divisor latch,
`Framed` for format, FIFO and modem lines); `serial_print` sends byte by byte, each after a wait
for the transmitter. The terminal reads noise when divisor or format are
not what it expects.

**Startup.** From GRUB's jump to the chat's loop or the module: one action per
instruction of `loader.s` and `gdt_flush.s` that changes something, and per call
of `kmain`. Addresses are only told apart by the 4 MB page they lie in, which is all the
loader's page directory knows. The CPU may fill its translation cache from a
mapped entry at any time (`TlbFill`). While `serial_print` has text left, `kmain`
waits. Of `pic_remap` it has the vectors the two controllers are given (`icw2`); the
rest is in `Irq`. `pmm_initialize`, `chat_init` and the writes to the console
change nothing the module speaks of and are in `Pmm`, `Keyboard` and
`ChatScreen`. `Startup` takes `pmm_initialize` to end; whether it does is what
`EndsWithoutWrap` and `InitialiseEnds` of `Pmm` are about.

## 3. What is checked

All runs finish in seconds except `irq` and `chat`, which take one to two
minutes each.

| Run | Bounds | Shows |
|---|---|---|
| `keyboard` | ring of 4, five scan codes: two letters, Backspace, F1 (unmapped), a break code | `ImplementsFifo`: a bounded FIFO through start-up, wrap-around and overflow; `LiveSlotsTyped` |
| `lines` | lines of up to 3 characters over 2, commands `/h` and `/hh` (one a prefix of the other), names of 3 and 6 characters | `ImplementsLine`, `Terminated`, `WholeMessage` |
| `chat` | lines of 1 character, two commands and a plain letter, queue and receive FIFO of 1, last message of each log | `ImplementsRoom`, `SameTranscript`; liveness: `KeyReachesHandler`, `KeyboardServed`, `Delivered` |
| `screen_alone` | 3 x 2 screen, lines of up to 3, notices of up to 2 characters, newline among them | `ImplementsGrid`, `CursorShown`; `LineShown`, `BackspaceErases` while only the keyboard user writes |
| `screen_shared` | the same without notices, and a message of the serial user | **violated**: `BackspaceErases` |
| `deadlock` | arrays of 3 bytes, names of 0 to 2 | `ImplementsTransfer`, `FreeWhenIdle`, `NeverAfter`; liveness: `TransferReturns` |
| `pmm` | 16 pages of 4 bytes, 64-byte address space, two orders of a PC-like map, five maps that reach up to or into the last page, 0 to 2 modules, one that ends right before the last page and one whose `mod_end` is its first byte | `OnlySpareMemory`, `ImplementsAllocator`; initialisation ends exactly when no loop wraps: `EndsWithoutWrap` and, liveness, `InitialiseEnds` |
| `pmm_unaligned` | a region that ends inside a page | **violated**: `OnlySpareMemory` |
| `pmm_high` | a region above the address space | **violated**: `OnlySpareMemory` |
| `irq` | lines 0, 1, 4 (masked by the BIOS) and 12, frames up to 3 deep, NMIs, and the exceptions of vectors 6, 8, 10 to 14 and 17 | `NoNesting`, `NothingInService`, `FrameBalanced`, `OwnServiceOnly`; liveness: `KeyboardAlive` |
| `irq_early` | the same, a scan code may arrive before `pic_remap` | **violated**: `KeyboardAlive` |
| `startup` | transmit FIFO of 2, eight settings of the UART and four of the selectors left open, 48 handler addresses that differ, no module information or 0, 1, 2 modules | `Reachable`, `NullFaults`, `InterruptsServed`, `Faithful`; liveness: `Settles` |

Every run that passes checks its module's `TypeOK` as well.

Why the bounds are enough. Four slots make the ring wrap, fill and overflow
with `head` anywhere; the real 256, where `%` and the cast to `unsigned char`
coincide, is covered by the proofs. Three characters let a shorter line follow
a longer one, and let a line be a proper prefix and a proper extension of a
command. In `chat` a line of one character is enough to be a message, a command
or empty, for either user and with the other's line in progress; longer lines
and queues are what `lines` and `keyboard` are about. Logs of one message
tell two ends apart as soon as they differ. A 3 x 2 screen has a row that
scrolls away and one that stays, and a line of 3 wraps and is on screen while it
scrolls. `MaxDepth` 3 in `irq` is never reached: an NMI over a handler makes
two frames; the bound lets `NoNesting` fail visibly if gates did not clear the
flag. The exceptions of `irq` are all those of the 80386
to Pentium that push an error code (8, 10 to 14, 17) and one that does not (6), so
that either macro used for the other's vector is noticed. In `pmm` the regions
end at the last page's start, one byte behind it and at the end of the address
space, with the loop's address at the page's start or inside it: on
either side of where it wraps. A FIFO of 2 is full before a message's end. In `startup` the 48 gates have
addresses of which any two differ and whose bytes lie in different places, so
that a gate's pieces in the wrong order are noticed, and every message
is its first and last character, enough for a lost, repeated or
swapped byte.

`chat` has three letters: an ordinary one, `/deadlock` and `/transferir`.
`/help`, which writes to the console only and ends like `/transferir`, is a
string too long to be typed there.

### Fairness, and why the code justifies it

- `Chat`: weak fairness of the main loop (the only thread), and of the UART's
  transmitter (no flow control is programmed, `serial.c`). Strong fairness of the keyboard
  interrupt: the flag goes on and off with every `kbd_pop`, but the CPU takes a
  pending interrupt at the first boundary at which the flag is set (after the instruction that
  follows `sti`), and each window the code opens is several instructions long.
- `KeyboardServed` is conditional: it assumes that the serial line eventually
  falls silent. Without that it is false of the code, since
  `while (serial_rx_ready())` (`chat.c:215`) may never end, and keeping it
  conditional says so.
- `Irq`: weak fairness of start-up, handlers and the end of critical sections;
  strong fairness of accepting each line's request while it is the most urgent,
  for the reason above; and the keyboard sends bytes slower than its handler
  reads them, so the drain loop ends. Non-maskable interrupts come far apart:
  the handler or critical section they interrupt goes on (strong fairness of the
  steps of other handlers, and of `MainSti`).
- `Startup`: weak fairness of the one thread together with the transmitter, which no flow control
  stops. The thread waits exactly when the transmitter is not empty, so
  one of the two can always move until the end.
- `DeadlockDemo`, `Pmm`: weak fairness of straight-line code.
- `Keyboard`, `LineEdit`, `Console`: safety only.

### Findings

1. `memory.c:55` frees the last page of an available region even when the
   region ends inside it (`pmm_unaligned`). On a PC low memory ends at 0x9FC00,
   so the page at 0x9F000, whose last kilobyte belongs to the BIOS, is handed
   out. `memory.c:39` promises free RAM only.
2. `memory.c:51` takes an available region above 4 GB for the low addresses
   with the same low word (`pmm_high`).
3. `console_backspace` erases at the console's cursor. After a message of the
   serial user that is no longer where the keyboard user's last character is:
   the character stays on the screen (`screen_shared`), against `kmain.c:131`
   and `framebuffer.h:27`.
4. A scan code that waits in the 8042 when `pic_remap` resets the edge
   detectors keeps line 1 high for ever; no handler runs again and nothing
   else reads the port (`irq_early`), against `keyboard.c:67-69` and `kmain.c:65-66`.

Three remarks that are not findings. `pmm_initialize` loops for ever when an
available region reaches into the last page of the address space, or a module's
`mod_end` is 0xFFFFF000 or more (`EndsWithoutWrap`); nothing in the
repository says that it ends for such a map, and a PC has its ROM there.
`SameTranscript` holds because the messages are written by one thread; the
`cli` of `chat_submit` is not what makes it so, as no handler writes to either
device. And `OnlySpareMemory` is about the map, the kernel and the modules; the
Multiboot structures themselves are not protected from allocation (see the
hazards).

## 4. What is proved

For every value of the constants that satisfies the named assumptions:

| Theorem | Says |
|---|---|
| `KeyboardProofs!TypeCorrect`, `LiveSlots` | indices stay in a ring of up to 256 slots; everything between them was typed |
| `KeyboardProofs!Refinement` | the ring, its handler and `kbd_pop` implement `BoundedFifo` |
| `LineEditProofs!TypeCorrect`, `AlwaysTerminated`, `AlwaysWhole` | types; the array is terminated right behind the line; a message always fits |
| `LineEditProofs!Refinement` | the arrays implement `LineSpec` |
| `DeadlockProofs!TypeCorrect`, `LocksFree`, `Unreached` | lock words; locks free between commands; the unsafe one never returns |
| `DeadlockProofs!Refinement` | the demonstrations implement `Transfer` |
| `PmmProofs!TypeCorrect` | the bitmap and the loops' word-sized address |
| `PmmProofs!OnlySpare` | with a map whose available regions are whole pages that no other region claims, and kernel and modules that start on page boundaries (`WholePages`), only spare memory is free or handed out |
| `PmmProofs!WrapsNeverEnd` | initialisation is never over when one of its loops wraps around the address space, for every map and module list |
| `PmmProofs!Refinement` | the bitmap implements `PageAllocator` |
| `ChatProofs!TypeCorrect`, `BothEnds` | lines and queue keep their bounds; both ends have seen the same messages whenever interrupts are on |
| `ChatProofs!Refinement` | the polling loops implement `ChatRoom` |
| `ConsoleProofs!TypeCorrect`, `CursorFollows` | the position stays on the screen; the hardware cursor follows it |
| `ConsoleProofs!LineOnScreen`, `ErasesItsOwn` | while the serial user is silent (`Strings = {}`) the line being typed is on the screen up to the cursor, and Backspace blanks its last character |
| `ConsoleProofs!Refinement` | the linear video array implements `Terminal` |
| `IrqProofs!TypeCorrect`, `NeverNested` | types; only an NMI interrupts a handler |
| `IrqProofs!ServiceOver`, `OnlyOwn` | nothing stays in service without its handler; no handler ends another's service |
| `IrqProofs!Balanced` | every frame is laid out as `interrupt_handler` and `iret` expect |
| `StartupProofs!TypeCorrect` | table entries are bytes, registers and UART keep their types |
| `StartupProofs!AlwaysReachable`, `NullAlwaysFaults` | every address the loader and `kmain` use is mapped; in C a null pointer faults |
| `StartupProofs!AlwaysServed` | whenever interrupts are on, all 48 gates lead to their handlers through loaded tables, the 16 lines have the vectors 32 to 47 and `iret` can reload `cs`, for all handler addresses and whatever GRUB left in the selectors |
| `StartupProofs!AlwaysFaithful` | the terminal reads what `serial_print` was given, for every FIFO size and whatever the BIOS left in the registers |

Assumptions, all in the modules that declare the constants and evaluated by
the runs. `KeyboardAssumption`: the key map is a table of 128 entries, and the
ring has at most 256 slots, the most an `unsigned char` index can address.
`LineAssumption`: NUL is not a text character and a name has at most 11
characters, so that 16 bytes hold the brackets, the blank, the newline and the NUL. `DemoAssumption`:
names fit their arrays. `PmmAssumption`: pages divide the address space, and
addresses are words. `ChatAssumption`: the keys and commands are distinct and
the commands are non-empty texts, `/transferir` different from the others. `ConsoleAssumption`: the screen has at least one
row and one column and fewer than 65536 cells, as `current_position` is an
unsigned short, and texts are made of characters and newlines.
`ScreenAssumption`: a line is no longer than the screen without its last row (120
of 24 * 80 cells). `IrqAssumption`: the keyboard has line 1, no device the
line of the second controller, and the BIOS masks lines of devices only, so that
neither line 1 nor that of the second controller is masked; the
exceptions the main program may raise are among 0, 5 to 8, 10 to 14, 16, 17 and 19. `UartAssumption`: the transmitter holds at
least one byte, registers are bytes, and the BIOS leaves DLAB clear and
the FIFO off, as after a reset. `StartupAssumption`: handler addresses are words,
the Multiboot structure has the fields `kmain` reads, and selectors are natural
numbers.

The arguments:

- *Keyboard.* Contents of the ring are `ring[head] .. ring[tail - 1]` modulo the
  size. The inductive invariant adds `BootHead` (nothing is popped before
  `chat_init` has finished, so resetting `head` changes nothing and resetting
  `tail` empties the queue in one store) and `CritMasked` (interrupts are off
  exactly in the critical section), without which a handler's step could come
  between reading a slot and advancing `head`. Lemmas on modular arithmetic
  show what moving either end by one does to the contents.
- *LineEdit.* `IsLength(line, len)`, the first NUL is at `len`, is the whole
  invariant; lemmas show what a cut, a comparison and a store do to the string
  of an array that satisfies it (`CutIs`, `StrEqualIs`, `StoreEffect`). `DeadlockProofs` has
  those on copying.
- *DeadlockDemo.* The invariant ties the lock words to the place in the
  program, so that a spin on a free lock ends and one on a taken lock does not,
  and says whose name each array and `tmp` hold in the middle of a swap.
- *Pmm.* The invariant says that page 0's bit is set and every owned page is
  taken once initialisation is over, and that loop indices are in range while it runs.
  `OnlySpare` adds what is known of each byte of a page that is free or
  owned (`SpareSoFar`): it is RAM that no other region claims, and if it is the kernel's or a
  module's then the loop that takes those back has yet to reach it. The loops'
  address stays page-aligned (`WalkInv`), so that a turn takes exactly the
  bytes behind the next address (`TakenBehind`) and a region's last turn frees nothing beyond its
  end (`ClearedIsRam`); where it wraps to 0 it only makes the loop start again.
  For `WrapsNeverEnd` the invariant (`EndInv`) says that a loop's address keeps
its offset in the page, also when it wraps, so that a loop whose end lies behind
the last address with that offset never finds its condition false; each loop
that has been left, by the place and the index reached, is one that stops (`HasStopped`).
`WholePages` is what the maps of `pmm_unaligned` and `pmm_high` lack and that of `pmm` has.
- *Chat.* Three parts strengthen the type invariant: the interrupt flag is off
  at exactly the places inside `kbd_pop` and `chat_submit`'s critical section
  (`FlagInv`); the serial port is behind the screen by the one message being
  sent and by no other (`LogInv`); and what each place knows of the line it
  serves, so that a command is never posted and an empty line never reaches the
  screen (`LineInv`).
- *Console.* A position is uniquely `row * Width + column` (`CellIs`,
  `OnePlace`), so a store into the array is a store into one place of the grid
  (`DrawIs`), moving every cell down by one width moves every row up by one
  (`ScrollIs`), and the position leaves the array exactly when the last row ends. The cursor's
  two bytes give the position back because it is below 65536 (`CursorIs`).
  For `LineOnScreen` the screen shows the whole line when the console is idle, and
  the line without its last character while that is being echoed (`LineInv`): a scroll
  moves line and position alike, and drops no cell of the line because it is
  at most the screen without a row long.
- *Irq.* `FrameInv` says what words a frame has at each stage; the lemmas on
  sequences show that the pieces pushed make the parameters (`StubIs`) and that
  dropping them leaves the rest (`UnwoundIs`). `NestInv`: a handler runs with
  interrupts off and at most one NMI lies over it, whose saved flag is off, so its `iret`
  does not turn them on. `ServiceInv`: what is in service is what the outermost
  frame's vector was delivered with, up to its acknowledgement. For vectors 39
  and 47 there are two possibilities, a real request and a spurious one, and
  the acknowledgement is right for both (`AckEnds`): after a
  spurious 39 the first controller has nothing in service and the EOI ends nothing.
- *Startup.* The program is straight, so the invariant `StartupInv` says for each place in
  it what has been done. `PagingInv` gives the page directory and the three control
  registers as a function of `pc`. The translation cache is not such
  a function, as the CPU fills it when it likes; what is inductive is
  that the low page is in it only between the jump and `invlpg`, since after
  `unmap` no fill can bring it back. `CallInv` follows GRUB's address from `ebx`
  through `ecx` to the stack. `TableInv`: what a step has set stays set, each
  conjunct from the place behind that step on; it needs that the bytes packed by
  `gdt_set_entry` and `idt_set_entry` are read back as what was put in
  (`GdtEntryIs`, `IdtEntryIs`), which is arithmetic on bytes and 16-bit halves.
- *Uart.* Before `serial_initialize` the line is silent; after it the registers are
  those of a terminal's format and DLAB is clear (`SerialInv`). `InitializeSets`
  follows the seven writes: the two between setting and clearing DLAB change the
  divisor and not the data or interrupt register, and the data byte written there
  is not sent. Then a byte is written only into an empty transmitter and never
  read as noise, so it moves from `text` to the FIFO to `wire` and their
  concatenation stays what it was (`MovesOn`).

### Only model-checked

Liveness under fairness, everything with `~>` or `<>`, is outside the prover's
reach: `KeyReachesHandler`, `KeyboardServed` and `Delivered` of `Chat`,
`TransferReturns`, `InitialiseEnds`, `KeyboardAlive` and `Settles`. Every other
property of a passing run is a theorem of the table above. Those of
them that another run violates are theorems under the conditions named there:
`OnlySpareMemory` with `WholePages`, `BackspaceErases` with `Strings = {}`.

## 5. What is not modelled

- Physical addresses in `Startup`: it tells apart the 4 MB pages only, and takes GRUB's
  structures and the module to lie in the first one, as the code does when it adds
  0xC0000000 to their addresses.
- Whether the page allocated at `kmain.c:88` is the one the Multiboot structures
  lie in: see the hazards; the kernel does not write to that page.
- Faults inside handlers, and what the CPU makes of a fault while it delivers
  another: the model's only faulting instructions are the main program's, and the
  double fault's vector is exercised as one of them.
- `io.s`: one instruction each, part of the step that uses it.
- Colours and texts of the screens; what the demonstrations print.
- Bytes lost when the UART's receive FIFO overflows: `Chat` lets it happen by
  not taking a byte then, and nothing in the code promises otherwise.

## 6. Plan

Done: the modules above, in the order keyboard, lines, demonstrations, memory,
chat, console, interrupts, start-up with descriptors and UART, each with its
runs, and the proofs of section 4, which cover every safety property of the runs
that pass.

Left:

1. `Chat` over `Uart`: the two models of the transmitter meet only in that
   both wait for it; a refinement would make one of the other.
2. `Pmm` with the place of the Multiboot structures, if the kernel comes to write
   to the pages it allocates.
