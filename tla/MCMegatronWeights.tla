-------------------------- MODULE MCMegatronWeights --------------------------
(* Eleven jobs, each with what the others leave out.                    *)
EXTENDS MegatronWeights

Dense ==
  [tp |-> 2, pp |-> 2, vpp |-> 2, cp |-> 1, dp |-> 2, ep |-> 1, etp |-> 2,
   layers |-> 4, first |-> 0, last |-> 0, forEmbed |-> 0, forLoss |-> 0,
   heads |-> 8, kv |-> 4, experts |-> 0, bias |-> TRUE, qknorm |-> FALSE,
   tied |-> FALSE, value |-> FALSE, head |-> 0, from |-> "hf", merger |-> 3]

\* Context parallel replicas that each load for themselves
Replicas ==
  [Dense EXCEPT !.vpp = 1, !.layers = 2, !.cp = 2, !.bias = FALSE,
     !.qknorm = TRUE, !.tied = TRUE, !.merger = 1]

\* One stage: embedding and head are one parameter
OneStage ==
  [Dense EXCEPT !.pp = 1, !.vpp = 1, !.layers = 2, !.tied = TRUE,
     !.heads = 4, !.kv = 2, !.merger = 2]

\* A critic with a head of its own, and one without
Critic == [Dense EXCEPT !.vpp = 1, !.layers = 2, !.value = TRUE, !.head = 1]
NewCritic == [Critic EXCEPT !.head = 0, !.dp = 1]

\* Experts over ranks and shards of their own
Experts ==
  [Dense EXCEPT !.vpp = 1, !.layers = 2, !.ep = 2, !.etp = 2, !.experts = 4,
     !.bias = FALSE, !.from = "dist", !.merger = 1]
WholeExperts == [Experts EXCEPT !.etp = 1, !.dp = 1, !.merger = 2]

\* Stages of different sizes
Uneven ==
  [Dense EXCEPT !.tp = 1, !.etp = 1, !.pp = 3, !.vpp = 1, !.dp = 1,
     !.layers = 5, !.first = 1, !.last = 2, !.from = "dist", !.merger = 3]
UnevenChunks ==
  [Uneven EXCEPT !.vpp = 2, !.layers = 8, !.first = 2, !.last = 2,
     !.merger = 4]
ForEnds ==
  [Uneven EXCEPT !.pp = 2, !.vpp = 2, !.layers = 6, !.first = 0, !.last = 0,
     !.forEmbed = 1, !.forLoss = 1, !.merger = 4]

\* 5 layers for 4 ranks of the merger: two of 2 between the ends leave them 1,
\* and two of 1 leave them 3.
NoShares == [Uneven EXCEPT !.merger = 4]
TightJobs == {NoShares}

SomeJobs ==
  {Dense, Replicas, OneStage, Critic, NewCritic, Experts, WholeExperts,
   Uneven, UnevenChunks, ForEnds, NoShares}

\* The theorem Feeding is about all of them.
ASSUME AllFeedable == \A j \in SomeJobs : Feedable(j)
=============================================================================
