--------------------------- MODULE MCStreamPublisher ---------------------------
(***************************************************************************)
(* Instances of StreamPublisher for TLC.                                   *)
(***************************************************************************)
EXTENDS StreamPublisher, TLC

\* Orders are interchangeable.
Symmetry == Permutations(OrderIds)
==============================================================================
