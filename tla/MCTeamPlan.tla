----------------------------- MODULE MCTeamPlan -----------------------------
(* Three checkouts, one change of a subscription, one delivery made again; *)
(* Stripe does nothing more while it has more than two events waiting.     *)
EXTENDS TeamPlan_proofs

Waiting == Len(mail) <= 2
=============================================================================
