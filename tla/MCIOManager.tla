---------------------------- MODULE MCIOManager ----------------------------
EXTENDS IOManager

CONSTANTS p1, p2
=============================================================================
