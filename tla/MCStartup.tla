------------------------------ MODULE MCStartup ------------------------------
(* Handlers whose addresses differ in every byte, two settings of each      *)
(* register GRUB and the BIOS leave open, and no, one or two modules.       *)
EXTENDS Startup

MCHandler == [v \in 0..47 |-> <<16 * (v % 16), 17 + v, 16, 192>>]
MCMultiBoot == {[mods |-> FALSE, count |-> 0], [mods |-> TRUE, count |-> 0],
                [mods |-> TRUE, count |-> 1], [mods |-> TRUE, count |-> 2]}
MCOldCode == {8, 16}
MCOldData == {16, 24}
MCUartLeft ==
  {[int_en |-> e, fifo_ctrl |-> 0, line_ctrl |-> l, modem_ctrl |-> 0,
    div_low |-> 12, div_high |-> h] : e \in {0, 5}, l \in {3, 26}, h \in {0, 1}}
=============================================================================
