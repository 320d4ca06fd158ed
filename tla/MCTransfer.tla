----------------------------- MODULE MCTransfer -----------------------------
(* A timer whose halves have four values, and a size of two bytes: the high   *)
(* half changes during the waits.                                             *)
EXTENDS Transfer
=============================================================================
