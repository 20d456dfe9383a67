---------------------------- MODULE MCDeliveryFlow ----------------------------
(***************************************************************************)
(* Instances of DeliveryFlow for TLC.                                      *)
(***************************************************************************)
EXTENDS DeliveryFlow, TLC

\* Orders, intents, events and invocations of one kind are interchangeable.
Symmetry ==
  Permutations(OrderIds) \cup Permutations(IntentIds)
    \cup Permutations(ProviderEventIds) \cup Permutations(Workers)
    \cup Permutations(OperatorInvocations) \cup Permutations(ProviderInvocations)
==============================================================================
