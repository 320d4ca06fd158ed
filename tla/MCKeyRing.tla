----------------------------- MODULE MCKeyRing -----------------------------
(* A ring of four slots; a letter whose character depends on shift and a key *)
(* without a character.                                                     *)
EXTENDS KeyRing

const_Plain == [key \in Keys |-> IF key = "letter" THEN "a" ELSE NoChar]
const_Shifted == [key \in Keys |-> IF key = "letter" THEN "A" ELSE NoChar]
=============================================================================
