---------------------------- MODULE MCPaidCheck -----------------------------
EXTENDS PaidCheck_proofs
=============================================================================
