----------------------------- MODULE MCTerminal -----------------------------
(* A ring of eleven characters and a screen one row higher than the text; a *)
(* command writes an empty line (cat) or the lines of a directory (ls).     *)
EXTENDS Terminal

const_Outputs == {<<NewLine>>, <<"x", NewLine, "x", NewLine, "x">>}
=============================================================================
