---------------------------- MODULE MCPaymentFlow ----------------------------
(***************************************************************************)
(* Instances of PaymentFlow for TLC.                                       *)
(***************************************************************************)
EXTENDS PaymentFlow, TLC

NoForeignIntents == {}

\* Intents others create: payable ones, ones of a wrong amount, and ones
\* that only reserve the money.
MCForeignIntents ==
  { [matches |-> TRUE, automatic |-> TRUE],
    [matches |-> FALSE, automatic |-> TRUE],
    [matches |-> TRUE, automatic |-> FALSE] }

\* Events, intents and invocations of one kind are interchangeable.
Symmetry ==
  Permutations(StripeEventIds) \cup Permutations(IntentIds)
    \cup Permutations(PrepareInvocations) \cup Permutations(StripeWebhookInvocations)
==============================================================================
