------------------------------- MODULE MCAta -------------------------------
(* Two blocks of two sectors, transfers of a sector, a block and two blocks. *)
EXTENDS Ata

const_Requests == {[lba |-> 0, count |-> 1], [lba |-> 2, count |-> 2], [lba |-> 0, count |-> 4]}
=============================================================================
