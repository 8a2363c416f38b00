------------------------------ MODULE MCTimer ------------------------------
EXTENDS TimerManager, TLC

CONSTANTS u1, u2, p1, p2

ThreadSymmetry == Permutations(Users) \cup Permutations(Pollers)
=============================================================================
