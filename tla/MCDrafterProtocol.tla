-------------------------- MODULE MCDrafterProtocol --------------------------
(***************************************************************************)
(* One worker alone, or two workers as two DP ranks of one TP rank each or *)
(* as one DP rank of two TP ranks.                                         *)
(***************************************************************************)
EXTENDS DrafterProtocol

OneWorker == {0}
TwoWorkers == {0, 1}
OwnDpRank == [w \in Workers |-> w]
OneDpRank == [w \in Workers |-> 0]
=============================================================================
