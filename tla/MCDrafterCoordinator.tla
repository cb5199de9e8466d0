------------------------- MODULE MCDrafterCoordinator -------------------------
(***************************************************************************)
(* Three DP ranks of two TP ranks each, the smallest deployment in which a *)
(* session can take two of three DP ranks and a TP rank can lag its peer.  *)
(***************************************************************************)
EXTENDS DrafterCoordinator

MCWorkers == 0..5
MCDpOf == [w \in MCWorkers |-> w \div 2]
=============================================================================
