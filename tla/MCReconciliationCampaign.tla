------------------------ MODULE MCReconciliationCampaign ------------------------
(***************************************************************************)
(* Instances of ReconciliationCampaign for TLC.                            *)
(***************************************************************************)
EXTENDS ReconciliationCampaign, TLC

NoForeignIntents == {}

\* Orders and events are interchangeable.
Symmetry == Permutations(OrderIds) \cup Permutations(StripeEventIds)
=================================================================================
