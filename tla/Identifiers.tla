------------------------------ MODULE Identifiers ------------------------------
(***************************************************************************)
(* What every part of the system names alike: orders, and the value of an  *)
(* optional field that is absent.                                          *)
(***************************************************************************)
CONSTANTS
  Undefined,   \* the value of an absent optional field
  OrderIds     \* orders

ASSUME UndefinedIsNoOrderId == Undefined \notin OrderIds
================================================================================
