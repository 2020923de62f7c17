---------------------------- MODULE MCFramedQueue ----------------------------
EXTENDS FramedQueue

CONSTANTS r1, r2
=============================================================================
