--------------------------- MODULE MCTrainingBatch ---------------------------
(***************************************************************************)
(* Six jobs.  FSDP: two data-parallel ranks with fused kernels and         *)
(* balanced micro batches; the same with padding left in; two Ulysses      *)
(* pairs with one key head; four Ulysses ranks with two.  Megatron: two    *)
(* pipeline stages of two data-parallel ranks, whose answers are collected *)
(* from the last stage, while its rollout runs on two tensor-parallel      *)
(* pairs; two context-parallel pairs with micro batches in groups of two.  *)
(***************************************************************************)
EXTENDS TrainingBatch

R(prompt, score, mask, values) ==
    [prompt |-> prompt, score |-> score, mask |-> mask, values |-> values]

All(n, x) == [i \in 1..n |-> x]
Fsdp == [dp |-> <<0, 1>>, mask |-> All(2, TRUE),
         stage |-> All(2, 1), shard |-> All(2, 1)]
Pairs == [dp |-> <<0, 0, 1, 1>>, mask |-> <<TRUE, FALSE, TRUE, FALSE>>,
          stage |-> All(4, 1), shard |-> <<1, 2, 1, 2>>]
Quad == [dp |-> All(4, 0), mask |-> <<TRUE, FALSE, FALSE, FALSE>>,
         stage |-> All(4, 1), shard |-> <<1, 2, 3, 4>>]
Stages == [dp |-> <<0, 1, 0, 1>>, mask |-> <<FALSE, FALSE, TRUE, TRUE>>,
           stage |-> <<1, 1, 2, 2>>, shard |-> All(4, 1)]

Model(kind, q, kv, fused, tp, divisor) ==
    [kind |-> kind, heads |-> [q |-> q, kv |-> kv], fused |-> fused,
     tp |-> tp, divisor |-> divisor]

Job(prompts, rollout, actor, dynamic, mini, model, rm, responses) ==
    [prompts |-> prompts, n |-> 2, rollout |-> rollout, actor |-> actor,
     dynamic |-> dynamic, mini |-> mini, model |-> model, rm |-> rm,
     responses |-> responses]

MCLayouts ==
    { Job(4, Fsdp, Fsdp, TRUE, 3, Model("fsdp", 1, 1, TRUE, 1, 1), "none",
          << R(1, 1, <<1, 1, 0>>, <<2, 1, 1>>),
             R(4, 0, <<1, 0, 1>>, <<1, 2, 3>>) >>),
      Job(2, Fsdp, Fsdp, FALSE, 2, Model("padded", 2, 1, FALSE, 1, 1), "same",
          << R(2, 0, <<1, 1>>, <<2, 1>>),
             R(1, 1, <<1, 1, 1>>, <<1, 2, 3>>) >>),
      Job(2, Pairs, Pairs, TRUE, 3, Model("fsdp", 2, 1, FALSE, 1, 1), "other",
          << R(1, 0, <<1>>, <<2>>),
             R(2, 1, <<1, 1>>, <<2, 3>>),
             R(3, 1, <<1, 0, 1>>, <<1, 2, 3>>) >>),
      Job(2, Pairs, Quad, FALSE, 3, Model("fsdp", 4, 2, FALSE, 1, 1), "same",
          << R(1, 0, <<1>>, <<2>>),
             R(3, 1, <<1, 0, 1>>, <<1, 2, 3>>) >>),
      Job(4, Pairs, Stages, FALSE, 2,
          Model("megatron", 1, 1, FALSE, 2, 1), "none",
          << R(1, 0, <<1, 1, 0>>, <<2, 1, 1>>),
             R(3, 1, <<1, 1, 1>>, <<1, 2, 3>>) >>),
      Job(2, Pairs, Pairs, TRUE, 2, Model("megatron", 1, 1, FALSE, 1, 2),
          "other",
          << R(1, 0, <<1>>, <<2>>),
             R(2, 1, <<1, 1, 0>>, <<2, 1, 4>>),
             R(4, 1, <<1, 0, 1>>, <<1, 2, 3>>) >>) }
=============================================================================
