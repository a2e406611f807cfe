--------------------------------- MODULE Uart ---------------------------------
(***************************************************************************)
(* serial.c's sending side on a 16550: the registers behind COM1's ports,  *)
(* two of which the DLAB bit gives a second meaning, the transmit FIFO,    *)
(* and the wire to a terminal that reads 115200 baud, 8 bits, no parity.   *)
(* serial_print puts its string out byte by byte.                          *)
(***************************************************************************)
EXTENDS Integers, Sequences

CONSTANTS TxSize,    \* the transmit FIFO's size
          UartLeft   \* the registers as the BIOS may leave them

Port == {"data", "int_en", "fifo_ctrl", "line_ctrl", "modem_ctrl"}
Register == (Port \ {"data"}) \cup {"div_low", "div_high"}
Noise == 256

\* The BIOS leaves DLAB clear and the FIFO off.
ASSUME UartAssumption ==
  /\ TxSize \in Nat \ {0}
  /\ UartLeft \subseteq [Register -> 0..255]
  /\ \A u \in UartLeft : u["line_ctrl"] < 128 /\ u["fifo_ctrl"] = 0

VARIABLES uart,    \* the registers, and the bytes in the transmitter
          wire,    \* what the terminal has read
          text,    \* what serial_print has still to send
          said     \* what serial_print has been given (history)

uvars == <<uart, wire, text, said>>

UartInit == /\ uart \in [reg : UartLeft, queue : {<<>>}]
            /\ wire = <<>> /\ text = <<>> /\ said = <<>>

\* Where a write to a port goes: DLAB is bit 7 of the line control.
Decoded(u, port) == IF u.reg["line_ctrl"] < 128 THEN port
                    ELSE CASE port = "data" -> "div_low"
                           [] port = "int_en" -> "div_high"
                           [] OTHER -> port

\* A byte that finds the transmitter full is lost, and switching the FIFO on
\* empties it.
Out(u, port, b) ==
  LET target == Decoded(u, port)
      room == IF u.reg["fifo_ctrl"] % 2 = 1 THEN TxSize ELSE 1
  IN  IF target = "data"
      THEN IF Len(u.queue) < room THEN [u EXCEPT !.queue = Append(@, b)] ELSE u
      ELSE [u EXCEPT !.reg[target] = b,
                     !.queue = IF target = "fifo_ctrl" THEN <<>> ELSE @]

\* serial_initialize, one write after the other: the interrupts off, the
\* divisor behind DLAB, then the line, the FIFO and the modem.
Divided(u) == Out(Out(Out(u, "line_ctrl", 128), "data", 1), "int_en", 0)
Framed(u) == Out(Out(Out(u, "line_ctrl", 3), "fifo_ctrl", 199), "modem_ctrl", 3)
SerialInitialize == /\ uart' = Framed(Divided(Out(uart, "int_en", 0)))
                    /\ UNCHANGED <<wire, text, said>>

\* serial_print is called with the string s.
SerialPrint(s) == /\ text = <<>>
                  /\ text' = s
                  /\ said' = said \o s
                  /\ UNCHANGED <<uart, wire>>

\* Fault: nobody waits for the transmitter.
WriteCharAtOnce == /\ text # <<>>
                   /\ uart' = Out(uart, "data", Head(text))
                   /\ text' = Tail(text)
                   /\ UNCHANGED <<wire, said>>

\* serial_write_char goes on when bit 5 of the line status says that the
\* transmitter is empty.
WriteChar == /\ text # <<>>
             /\ uart.queue = <<>>
             /\ uart' = Out(uart, "data", Head(text))
             /\ text' = Tail(text)
             /\ UNCHANGED <<wire, said>>

\* The terminal reads noise unless divisor and line are as it expects them.
Tuned == /\ uart.reg["div_low"] = 1 /\ uart.reg["div_high"] = 0
         /\ uart.reg["line_ctrl"] = 3

Transmit == /\ uart.queue # <<>>
            /\ uart' = [uart EXCEPT !.queue = Tail(@)]
            /\ wire' = Append(wire, IF Tuned THEN Head(uart.queue) ELSE Noise)
            /\ UNCHANGED <<text, said>>

-----------------------------------------------------------------------------
UartTypeOK == /\ uart \in [reg : [Register -> 0..255], queue : Seq(0..255)]
              /\ Len(uart.queue) <= TxSize
              /\ wire \in Seq(0..Noise)
              /\ text \in Seq(0..255)
              /\ said \in Seq(0..255)

(* The terminal reads what serial_print is given, every byte once and in    *)
(* order, whatever the registers held before: the divisor is behind DLAB    *)
(* when it is written and the data port is not when it is, and no byte is   *)
(* written while the transmitter is full (serial.c:19-37, 50-66).           *)
Faithful == wire \o uart.queue \o text = said
=============================================================================
