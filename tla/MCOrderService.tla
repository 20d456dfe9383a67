---------------------------- MODULE MCOrderService ----------------------------
(***************************************************************************)
(* Instances of OrderService for TLC.                                      *)
(***************************************************************************)
EXTENDS MemoryRepository, TLC

NoForeignIntents == {}

==============================================================================
