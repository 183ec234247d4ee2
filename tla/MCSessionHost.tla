---------------------------- MODULE MCSessionHost ----------------------------
EXTENDS SessionHost_proofs

CONSTANTS r1, r2, c1, c2, c3, i1, i2, i3, i4
=============================================================================
