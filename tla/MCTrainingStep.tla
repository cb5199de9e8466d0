---------------------------- MODULE MCTrainingStep ----------------------------
(***************************************************************************)
(* Two ranks and one job per combination of back end, offloading and       *)
(* algorithm that takes another path through the worker calls.             *)
(***************************************************************************)
EXTENDS TrainingStep

Plain == [trainer |-> "fsdp", rollout |-> "sglang", async |-> FALSE,
          offParam |-> FALSE, offOpt |-> FALSE, auxOffload |-> FALSE,
          freeCache |-> TRUE, multiStage |-> FALSE, dummy |-> TRUE,
          lora |-> FALSE, drafter |-> FALSE, critic |-> FALSE, ref |-> FALSE,
          rm |-> FALSE, remax |-> FALSE, dropZero |-> FALSE]

Offloaded ==
    [Plain EXCEPT !.offParam = TRUE, !.offOpt = TRUE, !.auxOffload = TRUE]
Async == [Plain EXCEPT !.async = TRUE]

MCJobs ==
    {Plain,
     [Offloaded EXCEPT !.multiStage = TRUE, !.critic = TRUE, !.ref = TRUE],
     [Offloaded EXCEPT !.drafter = TRUE, !.freeCache = FALSE],
     [Offloaded EXCEPT !.trainer = "megatron", !.ref = TRUE, !.rm = TRUE,
                       !.critic = TRUE, !.dropZero = TRUE],
     [Offloaded EXCEPT !.trainer = "megatron", !.rollout = "vllm",
                       !.critic = TRUE],
     [Offloaded EXCEPT !.async = TRUE, !.rm = TRUE],
     [Offloaded EXCEPT !.rollout = "vllm", !.lora = TRUE, !.ref = TRUE,
                       !.dummy = FALSE, !.remax = TRUE],
     [Plain EXCEPT !.rollout = "vllm", !.freeCache = FALSE,
                   !.dropZero = TRUE]}

(* Agent loops whose engine keeps its cache.                               *)
KeptCacheJobs == {[Async EXCEPT !.freeCache = FALSE, !.dummy = FALSE]}

(* Agent loops over vLLM.                                                  *)
VllmLoopJobs == {[Async EXCEPT !.rollout = "vllm"]}

(* Drafter training on an engine that frees its cache.                     *)
EarlyReleaseJobs == {[Plain EXCEPT !.drafter = TRUE]}

(* Groups without a signal are dropped.                                    *)
DropZeroJobs == {[Plain EXCEPT !.dropZero = TRUE]}
=============================================================================
