---------------------------- MODULE MCInterrupts ----------------------------
(* The timer, the keyboard and the disk, whose polling driver makes IRQ14 *)
(* fall away; page faults.                                               *)
EXTENDS Interrupts
=============================================================================
