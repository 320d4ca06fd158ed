---------------------------- MODULE MCFileSystem ----------------------------
EXTENDS FileSystemSafety, TLC

CONSTANTS n1, n2, x

const_Names == {n1, n2}
const_OneName == {n1}
const_Texts == {x}
const_Data == {[name |-> x, ino |-> NInodes]}
const_NoOffsets == {}
const_Offsets == {-1}
\* Zeroes, or what is left of another call's buffer: an entry for a user file.
const_Outside == {ZeroSlot, [name |-> n1, ino |-> 4]}

const_Zeroes == {ZeroSlot}

\* Nothing tells the two names of MCFsIo apart.
NameSymmetry == Permutations({n1, n2})

\* The last return value decides nothing and no property of these runs reads it.
StateView == <<pc, mem, fds, disk, saved, ghost, crashes>>

\* MCFsIo is about descriptors and contents: a shutdown with user files is not
\* followed by another boot.  (MCFsCrash has those.)
UserFilesNotSaved == saved.used <= 4

\* Of the descriptors only the open ones decide anything for disciplined callers.
OpenView == <<pc, mem, fdmap, [f \in fdmap |-> fdtab[f]], sysfd, disk, saved, ghost>>

const_RootOnly == {<< >>}
const_WithDev == {<< >>, <<"dev">>}
const_Nested == {<< >>, <<n1>>, <<n1, n2>>}
=============================================================================
