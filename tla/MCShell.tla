------------------------------ MODULE MCShell ------------------------------
(* One file, the directories root and /dev, and any commands on them. *)
EXTENDS Shell, TLC

CONSTANT n1

const_Names     == {n1}
\* Bytes that spell an entry if a directory is written: of /dev, or of no inode.
const_Data      == {[name |-> n1, ino |-> 1], [name |-> n1, ino |-> NInodes]}
const_DirPaths  == {<<>>, <<"dev">>, <<n1>>}
const_Targets   == { << <<>>, n1 >>, << <<>>, "dev" >>, << <<"dev">>, "tty" >>, << <<n1>>, n1 >> }
const_Redirects == { << <<>>, n1 >>, << <<"dev">>, "tty" >> }
const_NoOffsets == {}
const_Zeroes    == {ZeroSlot}
=============================================================================
