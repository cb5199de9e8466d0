---------------------------- MODULE MCDrafterData ----------------------------
(***************************************************************************)
(* Interchangeable workers.                                                *)
(***************************************************************************)
EXTENDS DrafterData, TLC

WorkerSymmetry == Permutations(Workers)
=============================================================================
