----------------------------- MODULE WorkerMemory -----------------------------
(***************************************************************************)
(* What a worker call does to the memory of its GPUs: models and optimizer *)
(* states that are loaded and offloaded, the inference engine that shares  *)
(* the GPUs with them, falls asleep, wakes up and gets its weights from    *)
(* the actor, and the two random streams that are swapped in between.      *)
(*                                                                         *)
(* The ranks of one tensor-parallel group run the same call.  A call is a  *)
(* sequence of operations; each rank runs through it at its own pace and   *)
(* the collective ones wait for the whole group.                           *)
(***************************************************************************)
EXTENDS Integers, Sequences, FiniteSets

CONSTANTS
    Ranks, Leader, \* the group, and its rank 0, which owns the engine
    Jobs           \* configurations: [trainer, rollout, async, offParam,
                   \*   offOpt, auxOffload, freeCache, multiStage, dummy,
                   \*   lora, drafter, critic, ref, rm, remax, dropZero]

ASSUME LeaderAssumption == Leader \in Ranks

ASSUME JobsAssumption ==
    Jobs \subseteq
      [trainer : {"fsdp", "megatron"}, rollout : {"sglang", "vllm"},
       async : BOOLEAN, offParam : BOOLEAN, offOpt : BOOLEAN,
       auxOffload : BOOLEAN, freeCache : BOOLEAN, multiStage : BOOLEAN,
       dummy : BOOLEAN, lora : BOOLEAN, drafter : BOOLEAN, critic : BOOLEAN,
       ref : BOOLEAN, rm : BOOLEAN, remax : BOOLEAN, dropZero : BOOLEAN]

VARIABLES
    job,     \* the configuration of this run
    call,    \* the call the driver has issued last
    pc,      \* how far each rank is in it
    place,   \* where each rank keeps each module: "cpu", "gpu" or "none"
    engine,  \* [awake, version, drafter, reload, baseDone, error]
    version, \* updates in the actor's weights
    rng,     \* the stream each rank draws from, and how far it is
    parked   \* the two saved states: torch_ and gen_random_states

memoryVars == <<job, call, pc, place, engine, version, rng, parked>>

Tags == {"weights", "kv"}
NoWeights == -1
OptOf(m) == IF m = "actor" THEN "actor_opt" ELSE "critic_opt"
GradOf(m) == IF m = "actor" THEN "actor_grad" ELSE "critic_grad"

(***************************************************************************)
(* The calls, as sequences of operations <<name, argument>>.               *)
(***************************************************************************)
When(condition, ops) == IF condition THEN ops ELSE << >>

Megatron == job.trainer = "megatron"

(* Megatron's gradients live in buffers of their own, which an offload     *)
(* frees and a load brings back unless it is told not to (load_grad).      *)
Load(m) == When(job.offParam, <<<<"load", {m, GradOf(m)}>>>>)
LoadParams(m) == When(job.offParam, <<<<"load", {m}>>>>)
Offload(m) == When(job.offParam, <<<<"offload", {m, GradOf(m)}>>>>)
LoadOpt(m) == When(job.offOpt, <<<<"load", {m}>>>>)
OffloadOpt(m) == When(job.offOpt, <<<<"offload", {m}>>>>)

(* The weights are read and the actor offloaded before the engine takes    *)
(* its memory back; in two stages the cache comes last.                    *)
WakeUpFsdpSglang ==
    Load("actor") \o <<<<"read", "actor">>>> \o Offload("actor")
    \o When(job.freeCache,
            <<<<"resume", IF job.multiStage THEN {"weights"} ELSE Tags>>>>)
    \o <<<<"sync", "engine">>>>
    \o When(job.drafter, When(job.offParam, <<<<"offload", {"drafter"}>>>>)
                        \o <<<<"sync", "drafter">>>>)
    \o When(job.multiStage /\ job.freeCache, <<<<"resume", {"kv"}>>>>)
    \o <<<<"swap in", "rng">>>>

(* Megatron's weights are a generator: the actor stays until the engine    *)
(* has read them.                                                          *)
WakeUpMegatronSglang ==
    Load("actor")
    \o When(job.freeCache, <<<<"resume", Tags>>>>)
    \o <<<<"read", "actor">>, <<"sync", "engine">>>> \o Offload("actor")
    \o <<<<"swap in", "rng">>>>

WakeUpFsdpVllm ==
    Load("actor") \o <<<<"read", "actor">>>> \o Offload("actor")
    \o When(job.freeCache, <<<<"resume", {"weights"}>>>>)
    \o <<<<"sync", "engine">>>>
    \o When(job.freeCache, <<<<"resume", {"kv"}>>>>)
    \o <<<<"swap in", "rng">>>>

WakeUpMegatronVllm ==
    LoadParams("actor")
    \o When(job.freeCache, <<<<"resume", {"weights"}>>>>)
    \o <<<<"read", "actor">>, <<"sync", "engine">>>> \o Offload("actor")
    \o When(job.freeCache, <<<<"resume", {"kv"}>>>>)
    \o <<<<"swap in", "rng">>>>

\* Mutant of Sleep: the streams are not swapped back.
SleepKeepsStream == When(job.freeCache, <<<<"release", Tags>>>>)

Sleep ==
    When(job.freeCache, <<<<"release", Tags>>>>) \o <<<<"swap out", "rng">>>>

WakeUp == IF Megatron
          THEN IF job.rollout = "sglang" THEN WakeUpMegatronSglang
                                         ELSE WakeUpMegatronVllm
          ELSE IF job.rollout = "sglang" THEN WakeUpFsdpSglang
                                         ELSE WakeUpFsdpVllm

(* With drafter training the memory is given up as soon as the answers are *)
(* there, and once more on the way out.                                    *)
EarlyRelease ==
    When(job.drafter /\ job.freeCache, <<<<"release", Tags>>>>)

(* The sharding manager of a worker's own call wakes the engine around it. *)
GenerateInWorker ==
    When(Megatron, OffloadOpt("actor_opt"))
    \o WakeUp \o <<<<"generate", "engine">>>> \o EarlyRelease \o Sleep

(* The agent loops talk to servers, which wake and sleep only to free the  *)
(* cache.                                                                  *)
GenerateInLoops ==
    When(job.freeCache, WakeUp) \o <<<<"generate", "engine">>>>
    \o When(job.freeCache, Sleep)

GenerateSequences == IF job.async THEN GenerateInLoops ELSE GenerateInWorker

(* AgentLoopManager begins by putting its servers to sleep.  SGLang's      *)
(* rollout takes itself to be asleep already (is_sleep), vLLM's does not.  *)
InitialSleep == When(job.rollout = "vllm" /\ job.freeCache, Sleep)

ComputeLogProb ==
    LoadParams("actor") \o <<<<"forward", "actor">>>> \o Offload("actor")

(* The reference and the reward model: FSDP offloads them by itself.       *)
ForwardAux(m) ==
    IF Megatron /\ job.auxOffload
    THEN <<<<"load", {m}>>, <<"forward", m>>, <<"offload", {m}>>>>
    ELSE <<<<"forward", m>>>>

(* With adapters the reference is the actor without them.                  *)
ComputeRefLogProb == IF job.lora THEN ComputeLogProb ELSE ForwardAux("ref")

ComputeRmScore == ForwardAux("rm")

ComputeValues ==
    Load("critic") \o <<<<"forward", "critic">>>> \o Offload("critic")

\* Mutant of UpdateActor: the optimizer state stays where it is.
UpdateActorForgetsOpt ==
    Load("actor") \o <<<<"update", "actor">>>>
    \o Offload("actor") \o OffloadOpt("actor_opt")

UpdateActor ==
    Load("actor") \o LoadOpt("actor_opt")
    \o <<<<"update", "actor">>>>
    \o Offload("actor") \o OffloadOpt("actor_opt")

UpdateCritic ==
    Load("critic") \o LoadOpt("critic_opt")
    \o <<<<"update", "critic">>>>
    \o Offload("critic") \o OffloadOpt("critic_opt")

SaveCheckpoint(m) == Load(m) \o <<<<"write", m>>>> \o Offload(m)

\* Mutant of LoadCheckpoint: the restored optimizer is not offloaded.
LoadCheckpointKeepsOpt(m, opt) ==
    Load(m) \o <<<<"restore", m>>>> \o Offload(m)

LoadCheckpoint(m, opt) ==
    Load(m) \o <<<<"restore", m>>>> \o Offload(m) \o OffloadOpt(opt)

Plan ==
    CASE call = "none" -> << >>
      [] call = "first_sleep" -> InitialSleep
      [] call = "generate" -> GenerateSequences
      [] call = "rm" -> ComputeRmScore
      [] call = "log_prob" -> ComputeLogProb
      [] call = "ref" -> ComputeRefLogProb
      [] call = "values" -> ComputeValues
      [] call = "update_critic" -> UpdateCritic
      [] call = "update_actor" -> UpdateActor
      [] call = "save_actor" -> SaveCheckpoint("actor")
      [] call = "save_critic" -> SaveCheckpoint("critic")
      [] call = "load_actor" -> LoadCheckpoint("actor", "actor_opt")
      [] call = "load_critic" -> LoadCheckpoint("critic", "critic_opt")

Returned == \A r \in Ranks : pc[r] > Len(Plan)

Issue(c) == call' = c /\ pc' = [r \in Ranks |-> 1]

(***************************************************************************)
(* Operations of one rank.                                                 *)
(***************************************************************************)
At(r, name) == pc[r] <= Len(Plan) /\ Plan[pc[r]][1] = name
Arg(r) == Plan[pc[r]][2]
Advance(r) == pc' = [pc EXCEPT ![r] = @ + 1]

(* What does not exist, as an optimizer's state before its first step, is  *)
(* neither loaded nor offloaded.                                           *)
Moved(r, modules, to) ==
    place' = [place EXCEPT ![r] =
                [m \in DOMAIN @ |-> IF m \in modules /\ @[m] # "none"
                                   THEN to ELSE @[m]]]

LoadModule(r) ==
    /\ At(r, "load")
    /\ Moved(r, Arg(r), "gpu") /\ Advance(r)
    /\ UNCHANGED <<job, call, engine, version, rng, parked>>

OffloadModule(r) ==
    /\ At(r, "offload")
    /\ Moved(r, Arg(r), "cpu") /\ Advance(r)
    /\ UNCHANGED <<job, call, engine, version, rng, parked>>

(* Pausing what is paused, or resuming what is not, is an error the engine *)
(* does not come back from.  SGLang drops released weights; vLLM keeps     *)
(* them in the memory of the host.                                         *)
Released(e, tags) ==
    IF job.rollout = "vllm" THEN [e EXCEPT !.awake = @ \ tags]
    ELSE IF ~(tags \subseteq e.awake) THEN [e EXCEPT !.error = TRUE]
    ELSE [e EXCEPT !.awake = @ \ tags,
                   !.version = IF "weights" \in tags THEN NoWeights ELSE @]

\* Mutant of Resumed: the first resume expects a released engine.
ResumedAtOnce(e, tags) ==
    IF tags \cap e.awake # {} THEN [e EXCEPT !.error = TRUE]
    ELSE [e EXCEPT !.awake = @ \cup tags]

(* The first resume of AsyncEngine releases everything before.             *)
Resumed(e, tags) ==
    LET first == IF e.reload THEN [Released(e, Tags) EXCEPT !.reload = FALSE]
                 ELSE e
    IN IF tags \cap first.awake # {} THEN [first EXCEPT !.error = TRUE]
       ELSE [first EXCEPT !.awake = @ \cup tags]

(* Only the leader talks to SGLang's engine; with vLLM every rank holds a  *)
(* share and the first one to arrive stands for all of them here.          *)
ReleaseMemory(r) ==
    /\ At(r, "release")
    /\ engine' = IF r = Leader THEN Released(engine, Arg(r)) ELSE engine
    /\ Advance(r)
    /\ UNCHANGED <<job, call, place, version, rng, parked>>

ResumeMemory(r) ==
    /\ At(r, "resume")
    /\ engine' = IF r = Leader THEN Resumed(engine, Arg(r)) ELSE engine
    /\ Advance(r)
    /\ UNCHANGED <<job, call, place, version, rng, parked>>

SwapIn(r) ==
    /\ At(r, "swap in")
    /\ parked' = [parked EXCEPT ![r].train = rng[r]]
    /\ rng' = [rng EXCEPT ![r] = parked[r].gen]
    /\ Advance(r)
    /\ UNCHANGED <<job, call, place, engine, version>>

SwapOut(r) ==
    /\ At(r, "swap out")
    /\ parked' = [parked EXCEPT ![r].gen = rng[r]]
    /\ rng' = [rng EXCEPT ![r] = parked[r].train]
    /\ Advance(r)
    /\ UNCHANGED <<job, call, place, engine, version>>

(***************************************************************************)
(* Collective operations.                                                  *)
(***************************************************************************)
Together(name) == \A r \in Ranks : At(r, name) /\ pc[r] = pc[Leader]
AllAdvance == pc' = [r \in Ranks |-> pc[r] + 1]
Drawn == [r \in Ranks |-> [rng[r] EXCEPT !.draws = @ + 1]]

ReadWeights ==
    /\ Together("read") /\ AllAdvance
    /\ UNCHANGED <<job, call, place, engine, version, rng, parked>>

\* Mutant of SyncWeights: only an engine that lost its weights gets them.
SyncWeightsWhenLost ==
    /\ Together("sync") /\ AllAdvance
    /\ engine' =
         IF Arg(Leader) = "drafter" THEN [engine EXCEPT !.drafter = TRUE]
         ELSE IF engine.version = NoWeights
         THEN [engine EXCEPT !.baseDone = TRUE, !.version = version]
         ELSE engine
    /\ UNCHANGED <<job, call, place, version, rng, parked>>

(* update_weights, or update_params: with adapters, a base model that is   *)
(* not in vLLM yet goes first and alone.                                   *)
SyncWeights ==
    /\ Together("sync") /\ AllAdvance
    /\ engine' =
         IF Arg(Leader) = "drafter" THEN [engine EXCEPT !.drafter = TRUE]
         ELSE IF "weights" \notin engine.awake
         THEN [engine EXCEPT !.error = TRUE]
         ELSE [engine EXCEPT !.baseDone = TRUE,
                             !.version = IF job.lora /\ ~engine.baseDone
                                         THEN 0 ELSE version]
    /\ UNCHANGED <<job, call, place, version, rng, parked>>

Generate ==
    /\ Together("generate") /\ AllAdvance
    /\ rng' = Drawn
    /\ UNCHANGED <<job, call, place, engine, version, parked>>

Forward ==
    /\ Together("forward") /\ AllAdvance
    /\ UNCHANGED <<job, call, place, engine, version, rng, parked>>

(* Optimizer states come into being with the first step, beside their      *)
(* parameters.                                                             *)
Update ==
    /\ Together("update") /\ AllAdvance
    /\ LET m == Arg(Leader)
       IN /\ place' = [r \in Ranks |-> [place[r] EXCEPT ![OptOf(m)] = "gpu"]]
          /\ version' = IF m = "actor" THEN version + 1 ELSE version
          /\ rng' = IF m = "actor" THEN Drawn ELSE rng
    /\ UNCHANGED <<job, call, engine, parked>>

RankStep(r) ==
    \/ LoadModule(r) \/ OffloadModule(r) \/ ReleaseMemory(r)
    \/ ResumeMemory(r) \/ SwapIn(r) \/ SwapOut(r)
=============================================================================
