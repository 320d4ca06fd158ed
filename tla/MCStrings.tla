----------------------------- MODULE MCStrings -----------------------------
(* Lines of up to three characters: a letter, a space, a quote, a redirection. *)
EXTENDS Strings

const_Null  == -1
const_Sizes == {2, 4, 8, 16}
const_Keys  == {1, 2, 3, 7}
=============================================================================
