------------------------------ MODULE MCHookIO ------------------------------
EXTENDS HookIO

CONSTANTS s1, s2
=============================================================================
