----------------------------- MODULE TrainingStep -----------------------------
(***************************************************************************)
(* The PPO driver (RayPPOTrainer.fit) and the worker calls of every step,  *)
(* over the memory of the workers: which call runs when, and whether what  *)
(* the call needs is on the GPU, what it does not need is off it, the      *)
(* engine holds the weights of the last update, and the two random streams *)
(* stay apart.  Checkpoints are whole here; CheckpointStore takes them     *)
(* apart.                                                                  *)
(***************************************************************************)
EXTENDS WorkerMemory

CONSTANTS
    TotalSteps,         \* total_training_steps
    TestFreq, SaveFreq, \* trainer.test_freq and trainer.save_freq; 0 is never
    CriticWarmup,       \* trainer.critic_warmup
    MaxRestarts         \* bound: restarts of the job

VARIABLES
    step,    \* global_steps
    stage,   \* the next thing the driver does
    disk,    \* the checkpoint the tracker names, and one being written
    restarts

driverVars == <<step, stage, disk, restarts>>
vars == <<memoryVars, driverVars>>

Snapshot == [step |-> step, version |-> version,
             draws |-> [r \in Ranks |-> rng[r].draws]]
NoCheckpoint == [step |-> 0, version |-> 0, draws |-> [r \in Ranks |-> 0]]

Off(flag) == IF flag THEN "cpu" ELSE "gpu"

(***************************************************************************)
(* A process that has just built its models: FSDP's optimizers have no     *)
(* state yet, Megatron's hold a copy of the parameters.  SGLang's engine   *)
(* starts awake, and so does an engine of a server; vLLM's is put to sleep *)
(* otherwise.                                                              *)
(***************************************************************************)
FreshPlace(j) ==
    LET megatron == j.trainer = "megatron"
        grads == IF megatron THEN Off(j.offParam) ELSE "none"
        opts == IF megatron THEN Off(j.offOpt) ELSE "none"
        aux == Off(megatron /\ j.auxOffload)
    IN [actor |-> Off(j.offParam), actor_grad |-> grads, actor_opt |-> opts,
        critic |-> Off(j.offParam), critic_grad |-> grads, critic_opt |-> opts,
        ref |-> aux, rm |-> aux, drafter |-> Off(j.offParam)]

FreshEngine(j) ==
    [awake |-> IF j.rollout = "vllm" /\ ~j.async /\ j.freeCache
               THEN {} ELSE Tags,
     version |-> IF j.dummy /\ ~(j.rollout = "vllm" /\ j.async)
                 THEN NoWeights ELSE 0,
     drafter |-> FALSE,
     reload |-> j.rollout # "vllm" /\ j.freeCache,
     baseDone |-> ~j.dummy,
     error |-> FALSE]

FreshStream(name) == [stream |-> name, draws |-> 0]
FreshParked == [train |-> FreshStream("train"), gen |-> FreshStream("gen")]

Init ==
    /\ job \in Jobs
    /\ call = "none" /\ pc = [r \in Ranks |-> 1]
    /\ place = [r \in Ranks |-> FreshPlace(job)]
    /\ engine = FreshEngine(job)
    /\ version = 0
    /\ rng = [r \in Ranks |-> FreshStream("train")]
    /\ parked = [r \in Ranks |-> FreshParked]
    /\ step = 0 /\ stage = "servers" /\ restarts = 0
    /\ disk = [saved |-> NoCheckpoint, written |-> NoCheckpoint]

(***************************************************************************)
(* The stages of a step in the order of fit, and those that apply.         *)
(***************************************************************************)
Order == <<"generate", "baseline", "rm", "filter", "log_prob", "ref",
           "values", "update_critic", "update_actor", "validate", "expiry",
           "save_actor", "save_critic", "tracker", "finish">>

IsLastStep == step >= TotalSteps
Every(freq) == freq > 0 /\ (IsLastStep \/ step % freq = 0)

Applies(s) ==
    CASE s = "baseline" -> job.remax
      [] s = "filter" -> job.dropZero
      [] s = "ref" -> job.ref
      [] s = "rm" -> job.rm
      [] s \in {"values", "update_critic", "save_critic"} -> job.critic
      [] s = "update_actor" -> CriticWarmup <= step
      [] s = "validate" -> Every(TestFreq)
      [] OTHER -> TRUE

Place(s) == CHOOSE i \in DOMAIN Order : Order[i] = s
After(s) ==
    LET later == {i \in DOMAIN Order : i > Place(s) /\ Applies(Order[i])}
    IN Order[CHOOSE i \in later : \A k \in later : i <= k]

CallOf(s) ==
    IF s \in {"baseline", "validate", "val_before"} THEN "generate" ELSE s

CallStages ==
    {"generate", "baseline", "rm", "log_prob", "ref", "values",
     "update_critic", "update_actor", "validate", "save_actor", "save_critic"}

CallWorkers ==
    /\ Returned /\ stage \in CallStages
    /\ Issue(CallOf(stage)) /\ stage' = After(stage)
    /\ UNCHANGED <<job, place, engine, version, rng, parked>>
    /\ UNCHANGED <<step, disk, restarts>>

(***************************************************************************)
(* The stages of the driver alone, and those before the first step.        *)
(***************************************************************************)
Quiet == UNCHANGED memoryVars

(* The servers of the agent loops are built before a checkpoint is looked  *)
(* for.                                                                    *)
StartServers ==
    /\ stage = "servers" /\ stage' = "start"
    /\ \/ /\ job.async /\ Issue("first_sleep")
          /\ UNCHANGED <<job, place, engine, version, rng, parked>>
       \/ ~job.async /\ Quiet
    /\ UNCHANGED <<step, disk, restarts>>

Start ==
    /\ Returned /\ stage = "start"
    /\ IF disk.saved.step > 0
       THEN stage' = "load_actor" /\ step' = disk.saved.step
       ELSE stage' = "val_before" /\ UNCHANGED step
    /\ UNCHANGED <<disk, restarts>> /\ Quiet

CallLoad ==
    /\ Returned /\ stage \in {"load_actor", "load_critic"}
    /\ Issue(stage)
    /\ stage' = IF stage = "load_actor" /\ job.critic
                THEN "load_critic" ELSE "val_before"
    /\ UNCHANGED <<job, place, engine, version, rng, parked>>
    /\ UNCHANGED <<step, disk, restarts>>

(* val_before_train is a choice of the configuration.                      *)
ValidateBefore ==
    /\ Returned /\ stage = "val_before"
    /\ stage' = "generate" /\ step' = step + 1
    /\ \/ Issue("generate")
          /\ UNCHANGED <<job, place, engine, version, rng, parked>>
       \/ Quiet
    /\ UNCHANGED <<disk, restarts>>

(* The step is over; a skipped one goes straight to the next.              *)
NextStep ==
    /\ step' = step + 1
    /\ stage' = IF IsLastStep THEN "done" ELSE "generate"

FilterGroups ==
    /\ Returned /\ stage = "filter"
    /\ \/ NextStep
       \/ stage' = After("filter") /\ UNCHANGED step
    /\ UNCHANGED <<disk, restarts>> /\ Quiet

CheckExpiry ==
    /\ Returned /\ stage = "expiry"
    /\ \E expires \in BOOLEAN :
         stage' = IF SaveFreq > 0 /\ (expires \/ Every(SaveFreq))
                  THEN "save_actor" ELSE "finish"
    /\ UNCHANGED <<step, disk, restarts>> /\ Quiet

WriteTracker ==
    /\ Returned /\ stage = "tracker"
    /\ disk' = [disk EXCEPT !.saved = disk.written]
    /\ stage' = "finish"
    /\ UNCHANGED <<step, restarts>> /\ Quiet

FinishStep ==
    /\ Returned /\ stage = "finish"
    /\ NextStep
    /\ UNCHANGED <<disk, restarts>> /\ Quiet

(***************************************************************************)
(* What the checkpoint managers do in a call: they save and restore the    *)
(* random state with the weights, and the optimizer state is restored      *)
(* beside its parameters.                                                  *)
(***************************************************************************)
WriteCheckpoint ==
    /\ Together("write") /\ AllAdvance
    /\ disk' = IF Arg(Leader) = "actor"
               THEN [disk EXCEPT !.written = Snapshot] ELSE disk
    /\ UNCHANGED <<job, call, place, engine, version, rng, parked>>
    /\ UNCHANGED <<step, stage, restarts>>

RestoreCheckpoint ==
    /\ Together("restore") /\ AllAdvance
    /\ LET m == Arg(Leader)
       IN /\ place' = [r \in Ranks |->
                          [place[r] EXCEPT ![OptOf(m)] = place[r][m]]]
          /\ version' = disk.saved.version
          /\ rng' = [r \in Ranks |-> [rng[r] EXCEPT
                                        !.draws = disk.saved.draws[r]]]
    /\ UNCHANGED <<job, call, engine, parked>>
    /\ UNCHANGED driverVars

(* Every process dies; the job starts again under the same configuration.  *)
Restart ==
    /\ restarts < MaxRestarts /\ stage # "done"
    /\ restarts' = restarts + 1
    /\ step' = 0 /\ stage' = "servers"
    /\ call' = "none" /\ pc' = [r \in Ranks |-> 1]
    /\ place' = [r \in Ranks |-> FreshPlace(job)]
    /\ engine' = FreshEngine(job)
    /\ version' = 0
    /\ rng' = [r \in Ranks |-> FreshStream("train")]
    /\ parked' = [r \in Ranks |-> FreshParked]
    /\ UNCHANGED <<job, disk>>

Driver ==
    \/ StartServers \/ Start \/ CallLoad \/ ValidateBefore
    \/ CallWorkers \/ FilterGroups \/ CheckExpiry \/ WriteTracker \/ FinishStep

Collective ==
    ReadWeights \/ SyncWeights \/ Generate \/ Forward \/ Update

Workers ==
    \/ (\E r \in Ranks : RankStep(r)) /\ UNCHANGED driverVars
    \/ Collective /\ UNCHANGED driverVars
    \/ WriteCheckpoint \/ RestoreCheckpoint

Over == stage = "done" /\ Returned /\ UNCHANGED vars

Next == Driver \/ Workers \/ Restart \/ Over

Spec == Init /\ [][Next]_vars

-----------------------------------------------------------------------------
(* What a rank computes with, reads or writes is on its GPU at that time,  *)
(* the optimizer state included once there is one, whatever was offloaded, *)
(* restored or skipped before (load_*_to_gpu of every worker method).      *)
ResidentWhenUsed ==
    \A r \in Ranks :
      /\ (\E op \in {"read", "forward", "update", "write"} : At(r, op))
           => place[r][Arg(r)] = "gpu"
      /\ At(r, "update") => /\ place[r][OptOf(Arg(r))] # "cpu"
                            /\ place[r][GradOf(Arg(r))] # "cpu"

(* When the engine is asked to generate it is awake, and it holds the      *)
(* weights of the last update: not those of the call before, and none that *)
(* were dropped with its memory.  It is never asked to give up memory it   *)
(* does not hold or to take back what it has, and gets weights only while  *)
(* their memory is there (wake_up, update_weights and AsyncEngine).        *)
EngineReady ==
    /\ Together("generate") =>
         /\ engine.awake = Tags
         /\ engine.version = version
         /\ job.drafter => engine.drafter
    /\ ~engine.error

(* The weights are handed over in a collective of their own after the      *)
(* actor has left and before the cache comes back.                         *)
MeetBeforeCache == ~Megatron /\ (job.rollout = "vllm" \/ job.multiStage)

(* The memory a colocated engine needs is free: between calls it sleeps if *)
(* its cache is to be freed; an offloaded optimizer state and the actor's  *)
(* gradients are on the GPU only in the calls that use them (and in those  *)
(* Megatron loads for SGLang); and the offloaded actor has left before the *)
(* cache comes back, on every rank if the ranks meet in between and on the *)
(* leader if not (Megatron with SGLang offloads it last).                  *)
GpuBudget ==
    /\ job.freeCache /\ ~engine.reload /\ Returned => engine.awake = {}
    /\ \A r \in Ranks :
         /\ job.offOpt /\ place[r].actor_opt = "gpu"
              => call \in {"update_actor", "load_actor"}
         /\ job.offOpt /\ place[r].critic_opt = "gpu"
              => call \in {"update_critic", "load_critic"}
         /\ job.offParam /\ place[r].actor_grad = "gpu"
              => \/ call \in {"update_actor", "save_actor", "load_actor"}
                 \/ call = "generate" /\ job.rollout = "sglang"
         /\ job.offParam /\ job.freeCache
              /\ (Megatron => job.rollout = "vllm")
              /\ (MeetBeforeCache \/ r = Leader)
              /\ ~engine.reload /\ "kv" \in engine.awake
              => place[r].actor = "cpu"

(* Training draws from one stream of random numbers and rollout from       *)
(* another, over any number of generations, restarts included; the ranks   *)
(* of a tensor-parallel group sample from equal streams                    *)
(* (gen_random_states and torch_random_states of the sharding managers).   *)
StreamsApart ==
    /\ Together("update") => \A r \in Ranks :
         rng[r] = [stream |-> "train", draws |-> version]
    /\ Together("generate") => \A r \in Ranks :
         rng[r].stream = "gen" /\ rng[r] = rng[Leader]

(* "Cannot pause allocation that is not active": the early release for     *)
(* drafter training does not give up what the release on the way out       *)
(* gives up (RolloutDrafterManager and SGLangRollout).                     *)
ReleasedWhenHeld ==
    At(Leader, "release") /\ job.rollout # "vllm"
      => Arg(Leader) \subseteq engine.awake

(* "Whether to free engine KVCache after generation": the choice is about  *)
(* memory only; either way rollout runs on the weights of the last update  *)
(* (free_cache_engine in the rollout's configuration, AgentLoopManager).   *)
RolloutOnPolicy ==
    Together("generate") => engine.version = version

(* "2. It's the last training step": with a save frequency the last step   *)
(* leaves a checkpoint.                                                    *)
LastStepSaved ==
    stage = "done" /\ SaveFreq > 0 => disk.saved.step = TotalSteps
=============================================================================
