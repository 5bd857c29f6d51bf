--------------------------- MODULE MCConnIdAlloc ---------------------------
EXTENDS ConnIdAlloc

CONSTANTS c1, c2, b1
=============================================================================
