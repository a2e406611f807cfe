-------------------------------- MODULE MCIrq --------------------------------
(* The timer, a device between the keyboard and the spurious line, and one  *)
(* on the second controller; then a masked device beside the timer.         *)
EXTENDS Irq

MCDevice == {0, 4, 12}
MCMask == {4}

\* All that come with an error code, and one that does not.
MCException == {6, 8, 17} \cup 10..14
=============================================================================
