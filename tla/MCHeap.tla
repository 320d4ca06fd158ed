------------------------------- MODULE MCHeap -------------------------------
EXTENDS Heap

const_Null == -1
\* Less than a word, two words, and a length that leaves the next block unaligned.
const_Sizes == {3, 8, 11}
=============================================================================
