----------------------------- MODULE MCCheckRun -----------------------------
EXTENDS CheckRun_proofs
=============================================================================
