------------------------------ MODULE MCBitmap ------------------------------
\* Two words.  29 bits behind 3 end on a word boundary; 37 cross it.
EXTENDS Bitmap

const_Counts == {3, 29, 37}
=============================================================================
