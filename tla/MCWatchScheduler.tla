-------------------------- MODULE MCWatchScheduler --------------------------
EXTENDS WatchScheduler_proofs

CONSTANTS w1, w2
=============================================================================
