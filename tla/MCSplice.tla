------------------------------ MODULE MCSplice ------------------------------
EXTENDS Splice
=============================================================================
