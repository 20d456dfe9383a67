--------------------------- MODULE MCBrowserJourney ---------------------------
(***************************************************************************)
(* Instances of BrowserJourney for TLC.                                    *)
(***************************************************************************)
EXTENDS BrowserJourney, TLC

\* Calls, orders, merchant order ids and the keys pages generate are
\* interchangeable.
Symmetry ==
  Permutations(Calls) \cup Permutations(OrderIds) \cup Permutations(MerchantOrderIds)
    \cup Permutations(Keys \ OtherKeys)
===============================================================================
