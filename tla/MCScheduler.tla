---------------------------- MODULE MCScheduler ----------------------------
EXTENDS Scheduler

CONSTANTS w1, w2, c1, c2, u1, g1, g2
=============================================================================
