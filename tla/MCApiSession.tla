---------------------------- MODULE MCApiSession ----------------------------
EXTENDS ApiSession

CONSTANTS f1, f2
=============================================================================
