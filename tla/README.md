# FastRL: a TLA+ development

FastRL trains a language model by reinforcement learning (verl's PPO driver),
generates its rollouts with SGLang and speculative decoding, and trains the
small *drafter* model on GPUs that have finished generating while the others
still generate. This directory models the program around the numerical code:

* the drafter machinery: who decides when the drafter trains, how the decision
  reaches the threads that train, how training ends before the next batch, and
  whether there is data to train on;
* the PPO step: the order of the driver's calls, what they do to the memory of
  the GPUs and to the inference engine, what happens to the rows of a batch;
* multi-turn rollout: requests that interleave, tools, environments, servers;
* activation offloading: three streams that share the GPU's memory;
* weights on Megatron: how a checkpoint is cut over the ranks, put together
  for the engine and exported;
* checkpoints: what is on disk whenever the job dies.

Source paths are relative to `src/verl/`. `WM` stands for
`workers/rollout/sglang_rollout/worker_manager.py`, `SR` for
`workers/rollout/sglang_rollout/sglang_rollout.py`, `EB` for
`workers/drafter/eagle_background_trainer.py`, `RT` for
`trainer/ppo/ray_trainer.py`, `FW` for `workers/fsdp_workers.py`.

## Inventory

| Part | State | Operations | Talks to |
|---|---|---|---|
| `CentralCoordinator` (WM 94-307), one thread on rank 0 | `worker_states`, `training_active`, `training_ranks` | register, start_generation, release, mark_completed, get_state; starts and stops sessions | all clients, by one REP socket and one PUB socket |
| `WorkerClient` (WM 317-396), one per rank | REQ and SUB sockets, `_lock` | a call per request, `wait_for_event` | coordinator; called from two threads |
| `RolloutDrafterManager` (WM 414-789), one per rank | `_training_active`, `_training_stop_event`, `_training_cleanup_complete`, `current_rl_step` | listener thread, start, stop, training task, the two schedules | client, trainer, rollout |
| `SGLangRollout` (SR) | the batch under way | single-turn and multi-turn generation, early release, completion mark, cleanup wait, barriers, collection of hidden states | engine, manager, sharding manager |
| `EagleBackgroundTrainer` (EB) | placement of model and optimizer, collected data, step counters | activate, collect, step, cleanup | data buffer, TP peers by collectives |
| `DataBuffer` (`utils/data_buffer.py`) | bounded deque, `_current_step` | add, window, increment, clear | trainer |
| PPO driver (RT) | `global_steps`, the batch, data loader | generate, filter, collect, update, validate, save, advance, resume | workers, by RPC |
| `filter_zero_signal_groups` (RT 299-362) | none | keep the groups with a signal, trim to the data-parallel degree | driver |
| PPO algorithms (`trainer/ppo/core_algos.py`) | none | advantage estimators, losses, aggregation | driver, actor, critic |
| `DataProto` (`protocol.py`), single controller (`single_controller/`) | rows of tensors and objects | select, repeat, reorder, union, chunk, pad, dispatch, collect | everything |
| Sequence-length balancing (`utils/seqlen_balancing.py`) | none | Karmarkar-Karp, micro batches by tokens, restoration | driver, actor, critic |
| Policy update (`workers/actor/dp_actor.py`, `megatron_actor.py`) | gradients | mini and micro batches, scaling, accumulation | workers |
| Forward pass around the model (`dp_actor.py`, `dp_critic.py`, the reward models, `utils/ulysses.py`, `models/transformers/monkey_patch.py`, `models/mcore/util.py`, `model_forward.py`) | none | remove padding, join, cut over a group, shift labels, gather, put back | actor, critic, reward model; Ulysses or context-parallel group |
| Workers (FW, `workers/megatron_workers.py`) | which model and optimizer state is on the GPU | one remote method per call of the driver | driver, sharding managers |
| Sharding managers (`workers/sharding_manager/`), `AsyncEngine` (SR 149-178) | memory held by the engine, weights in it, two random streams | wake_up, sleep, release, resume, update_weights | SGLang, vLLM |
| Activation offloading (`utils/activation_offload.py`) | tags and buffers of saved tensors, three streams | offload a group, reload it, wait for a stream | forward and backward passes of the actor |
| Megatron weights (`models/mcore/loader.py`, `saver.py`, `weight_converter.py`, `utils/megatron_utils.py`, `model_merger/megatron_model_merger.py`) | shards on every tensor, pipeline, virtual, expert and data rank | load, synchronise with the engine, save, merge offline | Megatron, sharding managers, checkpoints |
| Checkpoint managers (`utils/checkpoint/`), SFT trainer | files, paths saved in this life | save, rotate, load, find latest | file system |
| Multi-turn request (SR 1143-1407, `workers/rollout/schemas.py`) | state, messages, tokens, masks | generate, call tools, interact, finalize | engine, tools, interaction |
| SQL interaction (`interactions/sql_interaction.py`) | bounded table of environments | start, respond, evict | requests |
| Agent loop (`experimental/agent_loop/`) | per-request tokens; weights of servers, LRU of sessions | choose a server, generate, call tools | servers, tools |
| Tools and sandboxes (`tools/`) | sessions of external services | create, execute, release | requests |
| Adaptive speculation (`../third-party/sglang`) | arm statistics, current algorithm | choose, reward, switch | SGLang's scheduler |
| Models, kernels, reward scores, offline drafter training | none, or a training loop | numerical code | |

What is hard here:

* two threads per worker with an event loop each share one lock, one REQ
  socket and three flags;
* broadcasts (PUB/SUB, sent three times) are late, repeated or lost, and a
  polled state check repairs losses, with an answer that may be stale;
* every wait has a timeout after which the code goes on (2 x 10 s, 5 s, 3 s);
* cleanup of training runs concurrently with the end of the batch and may be
  cancelled half way;
* training steps are collectives of a TP group whose ranks decide separately
  to stop;
* three step counters, in three places, decide together whether data is there;
* models, optimizers and an engine take turns on the same memory, over a dozen
  calls whose offloading depends on the job's back ends and flags;
* a row of a batch is repeated, dispatched over two meshes, reordered three
  times and filtered, while several parallel columns must follow it;
* every rank cuts its own micro batches, and each of them is a collective;
* a row is stripped of padding, joined with others, cut over ranks by tokens,
  by heads or by two chunks from either end, and a label is one place further on;
* activations are copied away while the next layer computes and back while
  another layer's gradients do, and freed memory is taken by the next tensor;
* the rows of a weight are cut by one formula and joined by three others, and
  the number of a layer is computed four times, for every mix of stages, chunks
  and experts: a mistake leaves a model that is only a little wrong;
* a checkpoint is many files of many ranks, and the job may die between any two;
* multi-turn requests interleave at every await and share a bounded table.

What makes each part correct: a session takes a whole quota of whole TP
groups and ends as a whole (coordinator); a training task always has somebody
who can stop it, the cleanup event tells the truth, an answer reaches its asker,
training never hangs the rollout (manager and rollout); a session finds data,
and only fresh data (buffer and driver); what a call computes with is on the
GPU, and the engine generates with the weights of the last update (workers and
sharding managers); columns stay aligned and collectives match (batch); every
token is judged in its place from what stands before it (forward pass); every
rank computes with the rows it should and every reader gets the whole model
back (weights); the tracker always names a whole checkpoint (checkpoints); loss falls on what the
policy wrote, and every request ends (multi-turn). `PROJECT.json` lists the
hazards with the lines where they bite and the properties that cover them.

## Modules

```
TrainingLease            what the coordinator promises
  ^ refined by
DrafterCoordinator       the coordinator alone, any clients
  ^ extended by
DrafterProtocol          coordinator + managers + rollout threads + trainers
                                       ^ theorems on both: DrafterProtocol_proofs

DrafterData              step counters, schedules and buffers over batches
                                       ^ theorems: DrafterData_proofs

BatchProto   SeqlenBalance   Advantages   ModelForward      operators
      ^            ^             ^             ^
      +------------+ TrainingBatch ------------+   one batch through the driver

WorkerMemory             worker calls over the memory of the GPUs
  ^ extended by
TrainingStep             the driver's calls, step after step
                                       ^ theorems: TrainingStep_proofs

ActivationOffload        host and streams over the activations of the layers
                                       ^ theorems: ActivationOffload_proofs

MegatronWeights          one model over the ranks: load, sync, save, merge
                                       ^ theorems: MegatronWeights_proofs,
                                         MegatronExport_proofs

CheckpointStore          files, managers and two trainers under crashes
                                       ^ theorems: CheckpointStore_proofs

RolloutRequest           the multi-turn requests of one engine
  ^ extended by
AgentLoop                the agent loops and their servers
                                       ^ theorems: AgentLoop_proofs

MC*                      instances for TLC
```

### TrainingLease

GPUs are lent one lease at a time: exactly `Quota` groups, nobody who has
finished since, ended as a whole by a holder's report. No requests, no rule
which groups are chosen.

### DrafterCoordinator

`wstate` is `worker_states` (a worker that is not a key is `"unregistered"`),
`trainingActive` and `trainingRanks` are the fields of that name. The run loop
serves one request at a time and finishes its broadcasts before the next one,
so a handler is one action: `Register`, `StartGeneration`, `Release` (with
`_check_and_start_training`), `MarkCompleted` (with the stop). `get_state`
changes nothing. What goes out is a function of the state (`StartsTraining`,
`StopsTraining`, `AnnouncesBatch`). Clients are unconstrained: each may send any
request at any time after registration. The DP rank of a worker is the constant
`DpOf`.

### DrafterProtocol

Extends the coordinator with two threads per worker.

* Main thread: `main` is where it is in a batch (generate, release, mark,
  cleanup wait, barrier) and `stage` how far its request is (to be made,
  waiting for the lock, waiting for the answer). `MultiTurn` chooses the path:
  in the multi-turn one every TP rank releases and exceptions are caught; in
  the single-turn one only TP rank 0 does, and an exception of the shared lock
  ends the job (`main = "killed"`).
* Client: `lock`, the event loop it is bound to (`loopOf`, set by the first
  contended acquire, as in Python's `asyncio.Lock`), the request and answer in
  flight, and `wedged`: a REQ socket that gave up on an answer refuses every
  later send.
* Listener thread: polls broadcasts, handles START and STOP, checks the state
  when nothing came. A STOP handler waits in `"stopping"` for the task.
* Training task: starting, loop, step, cleanup. A step blocks the listener's
  event loop; it is a collective of the TP group. `resident` is whether
  drafter or optimizer is on the GPU.
* `Broadcast` delivers to every addressee any number of copies in
  `Deliveries`. What is in `inbox` may still be on its way: a state check and
  its answer may overtake it, and the listener may take arbitrarily long.
* `Faults` says which timeouts and failures may happen: `activation`, `request`,
  `cleanup`, `stop`.

Abstracted: BATCH_COMPLETE is not delivered (listeners only log it), the counts
of polls (any poll without a message may be the fifth), times (a timeout may
expire at any moment, or not at all), and which of two TP ranks releases first.
A validation batch of the single-turn path marks completion without a release,
like a batch outside the training interval. A cancellation by `_stop_training`
is taken to land in the cleanup, the only part of the task that awaits for long
once the step has returned.

### DrafterData

`global` is the driver's `global_steps`, `rlStep` and `bufStep` the counters of
every worker's manager and buffer, `buffer` its samples, each with the buffer's
step and the policy (number of updates) it came from. One action per step of
the batch: `Generate`, `Collect`, `FinishBatch`, `SkipUpdate` (all groups
dropped), `Update`, `Validate`, `Save`, `Advance`, and `StartSession`,
`EndSession`, `Restart` beside them. One batch adds one sample. It models the
single-turn rollout with `collect_hidden_states_from_sgl`; the coordinator is
abstracted to "a worker may start a session when its schedule says so".

### BatchProto, SeqlenBalance, Advantages, ModelForward, TrainingBatch

BatchProto holds the operations of `DataProto` and of the dispatch functions as
operators on `[tensors, others]`, two functions from keys to sequences of rows.
SeqlenBalance holds Karmarkar-Karp (the heap is a set of states of which the one
of largest spread is popped, with the tie rules of Python's tuples), the greedy
partition, the balanced order of a batch and the micro batches by tokens.
Advantages holds the zero-signal filter, the estimators (scaled by the group
size where the code divides, so that they stay integers), the clipped losses
over a ratio counted in tenths, and `agg_loss` as fractions.

TrainingBatch takes one batch through the driver: `Validate`, `Generate`,
`BalanceBatch`, `ComputeReward`, `FilterGroups`, `ComputeLogProb`,
`ComputeValues`, `ComputeAdvantage`, `UpdateActor`. What a row holds is *where
it came from*: an answer is the prompt it was asked with and the slot it was
generated in, a token is its slot and its place. A row that is moved without its
neighbours is then visible. `draws` chooses the response of every slot, so TLC
explores every combination of lengths and scores.

ModelForward is what a worker does around its model. A token's log probability
is kept as what it was computed from: per attention head the token that asked,
the tokens it saw, and the label. The properties compare that with `Prefix`, what
a single rank without padding would have seen. On FSDP (`FsdpForward`):
`UnpadInput`, the slices and the all-to-all exchanges of Ulysses with key heads
repeated where there are fewer than ranks, labels rolled before the cut (or,
with the fused kernels, after it), `GatherOutputsAndUnpad`, `PadInput`; without
padding removed, `PaddedForward`. On Megatron (`GptModelForward`):
`PreprocessPackedSeqs` with its two chunks per context-parallel rank, labels and
masks packed alike, `PostprocessPackedSeqs`. `OnMesh` dispatches, runs the micro
batches of a group, broadcasts from the last pipeline stage and collects. The
reward model may see the row as it is or in the words of another tokenizer
(`SwitchChatTemplate`, `ReEncodeByRmTokenizer`) and its score lands on the last
token of the policy's own row. Attention is external: FlashAttention starts a
sequence where a position is 0, TransformerEngine places chunks as `PlaceOf` says.

### WorkerMemory, TrainingStep

A call of the driver is a sequence of operations (`Plan`): load, offload, read,
release, resume, sync, swap the random stream, forward, update, generate,
write, restore. Each rank runs through it on its own (`pc`); collective
operations wait for the group. The sequences follow the worker methods and the
sharding managers line by line, one per combination of the flags of a job: the
wake-ups of FSDP and Megatron over SGLang and vLLM (`WakeUp...`), generation in
the workers or by the agent loops, whose servers wake and sleep only where the
engine frees its cache (`GenerateInLoops`) and first sleep when they are started
(`StartServers`), the reference and the reward model (`ForwardAux`). Megatron's
gradient buffers are modules of their own, which a load for training brings to
the GPU and a load for synchronisation does not.
`place` is where each rank holds each module, `engine` which memory SGLang or
vLLM holds and which version of the weights is in it, `rng` and `parked` the
streams. TrainingStep is `fit`: `Order` and `Applies` say which call comes
next; a job may be killed and started again anywhere (`Restart`).
`JobsAssumption` says which flags a job has and what values they take.

### CheckpointStore

Disk (`shard`, `data`, `tracker`), driver (`phase`, `part`) and the
`save_checkpoint` of every rank (`at`), with every file opened before it is
written, so that a death leaves it `Torn`. Both trainers: PPO has a manager per
model and a tracker that is overwritten in place, SFT one manager whose folder
is the folder of the step and a tracker that is renamed into place. `saved`, the
list rotation works from, is lost with the process. `Configs` sets how many
checkpoints are kept.

### ActivationOffload

The host (`ForwardLayer`, `CommitForward`, `CommitBackward`, `BackwardLayer`)
runs ahead and only fills queues; `RunStream` lets the streams compute, d2h and
h2d execute them, each in order, held up only by the waits that the handler
issued. `handler` holds the fields of `AsyncDoubleBufferGroupOffloadHandler`.
Memory is a number per tensor, the micro batch whose value it holds: the
operation that allocates on a stream takes what the handler has dropped by
then, as the caching allocator may, so a tensor freed before it is copied, or
overwritten before it is read, is visible. `Window` spreads the groups over the
layers. Tensors of one storage are taken to be alike.

### MegatronWeights

A row of a tensor is where it came from, `<<entry, i>>` of the checkpoint, so
that a row in the wrong place, under the wrong name or missing is visible.
`param` is what every rank holds under the names of its own chunks. `LoadItem`
is one tensor of the loader (`Sent` cuts it, `Seat` is its place in
`_megatron_calc_layer_map`), `SpreadParams` the broadcast to the data-parallel
replicas, `LoadDist` Megatron's own restoring. `SyncParam` is one turn of
`per_tensor_generator`: the tensor and its tensor-parallel attribute from its
stage, the shards of its tensor or expert group, their concatenation, the
names, and the buckets the engine loads. `SaveItem` is one tensor of the saver,
`MergeRank` the merger on one of its ranks, which cuts the model into stages of
its own, and `MergeRefused` its failure where it finds no such stages. `Held` says what the parallel layers of Megatron compute with and
`Placed` which layer runs where; both are external and the code is held against
them. A job is a fixed sequence of collectives, so a step is one tensor and the
ranks take it together. `Launchable` is what Megatron asks of a configuration
before it starts (sizes that its ranks divide, every layer in a chunk) and the
loader of its layout.
Models have as many query groups as tensor ranks or a multiple, which Megatron
demands: the branches for fewer are never taken.

### RolloutRequest, AgentLoop

A token is its origin (prompt, generation prompt, answer, end of turn, tool,
environment). `CreateLens` holds the lengths of what tools may say when they are
created; `Start` puts their words into the request before the engine is first
called. An action is what a coroutine does from one await to the next:
`Start`, `EnvBuilt`, `CallEngine`, `AnswerCut`, `AnswerCalls`, `AnswerPlain`,
`ToolsAnswer`, `Interact`, `EnvRebuilt`, `EnvEnds`, `EnvObserves`. `instances`
is the LRU table of environments that all requests share. `setup` switches
between the chat template (one end of turn per answer) and the continuous
stream, with or without tools, and the agent loop (`AgentCall`, `AgentAnswer`,
`AgentTools`), whose server is chosen by `ChooseServer` from the least-used
counts and an LRU of sessions.

## Runs

| Run | Instance | Question |
|---|---|---|
| `coordinator_tp2` | 6 workers, 3 DP x 2 TP, quota 2 | Any requests in any order: are sessions whole, stable and within the promise? |
| `protocol_faults` | 1 worker, 3 batches, interval 2, 2 steps, 2 checks, 0-2 copies, all faults, fair | Is every task stoppable, the cleanup event truthful, every answer its asker's, and does the rollout always finish? |
| `protocol_tp2` | 1 DP rank of 2 TP ranks, single-turn, activation and cleanup faults | Does a worker train only in a session that exists, and does the embedded coordinator keep its specification? |
| `data_faults` | 2 workers, interval 2, 6 batches, 1 restart, dropped batches, late cleanups | Is training data fresh, and there when training begins? |
| `training_batch` | 6 jobs of 2-4 prompts x 2: FSDP with fused kernels, FSDP padded, Ulysses over 2 ranks with 1 key head and over 4 with 2, Megatron with 2 stages and with 2 context-parallel ranks, mini batches of 2 and 3 rows, reward models with the policy's tokenizer and another; every draw of 2 or 3 responses | Do rows and tokens stay in place, do collectives meet, are credit and loss those of the draw? |
| `training_step` | 2 ranks, 3 steps, 8 jobs, 2 restarts | Is everything a call needs in memory, and what it must not meet gone? |
| `activation_offload` | 1-5 layers, 1-3 groups, 3 tensors in 2 storages, 2 micro batches | Does every backward pass read what its forward pass saved, and memory stay within two groups? |
| `megatron_weights` | 11 jobs: up to 2 x 3 x 2 tensor, pipeline and virtual ranks, 2 replicas, 4 experts over 2 x 2, 2-8 layers, merged on 1-4 ranks (5 layers on 4 it refuses) | Does every rank hold what it computes with, does the engine get the whole model, and do the exports give it back? |
| `checkpoint_crash` | 2 ranks, 4 steps, a checkpoint every 2, 2 crashes, PPO with 2 models and SFT | Does the tracker always name a whole checkpoint, is resuming consistent, does the job end? |
| `rollout_turns` | 2 requests per batch, 2 batches, 2 turns, 4 setups, 2 servers, creation answers of 0 and 2 tokens | Are masks, contexts, environments and sessions right, and is every batch handed back? |

Why the bounds are enough.

*Coordinator*: it needs three DP ranks for a quota of two to leave one out, and
two TP ranks for one to lag; its run has no other bound. *Protocol*: a worker's
two threads interact only with each other and the coordinator, so one worker
with all faults shows every interleaving of a manager; three batches let a
session survive one batch without training and be met by the next; two copies
let a duplicate arrive before and after a stop; two ranks are the fewest that
can disagree about a session or a step. `MaxSteps` (200 in the code) only needs
to let a loop end by itself. *Data*: the interval must exceed one for collection
and training to fall in different batches, six batches cover three periods and
a deque of three overflows.

*Batch*: two answers per prompt are a group with and without a signal; three
and four prompts let the filter keep all, some and none, and trim; the lengths
are chosen so that ranks disagree about the number of micro batches, mini
batches do not divide evenly, and three rows of four and seven tokens are cut
into micro batches of one row and of two, whose losses then weigh differently.
One of the two responses of that job ends in a tool's token, the other in one of
the policy's. Two ranks with one key head and four with two
share key heads and have them repeated; two query heads per key head show a
tiling of the wrong kind; with two context-parallel ranks there are four chunks,
the fewest whose order can be confused. *Step*: with three steps, `TestFreq`, `SaveFreq`
and `CriticWarmup` of two make every optional stage occur and not occur, and
two restarts resume from a checkpoint that was itself written after a resume.
The eight jobs take every branch of the plans: FSDP and Megatron, SGLang and
vLLM, driven and asynchronous, with and without offloading. *Offloading*: nine models. One
group fewer than layers is what `enable_activation_offloading` sets up; the
others make the windows uneven, of more than one layer, and of every layer. A
second micro batch meets what the first left behind, and two tensors of one
storage share a copy. *Weights*: two query groups per tensor rank and two query
heads per group are the fewest whose order can be confused, two chunks of two
stages the fewest where chunks and stages can; the jobs add uneven ends with
and without chunks, end layers that count as layers, a tied head on one stage
and on two, biases, norms of q and k, a critic with and without a head of its
own, experts cut as the dense layers are or left whole, and a model the merger has no
shares for; a bucket holds two
or three tensors. *Checkpoints*: two rotations happen in four steps when two are kept; the second crash hits a job that has
resumed. *Turns*: two turns are the fewest that reuse an environment and a
session; the lengths make each limit (turns, response, model length) the first
to bite in some request; two requests can evict each other from a table of one.
Two tokens said at creation are the fewest of which one falls under the prompt
and one under the response when the request is cut. The continuous template with
tools is left to the proofs, which cover every combination.

Deadlock is checked except in `training_batch` (a step ends),
`megatron_weights` (a job ends),
`checkpoint_crash` (a job ends, or cannot be started again) and `rollout_turns`
(every batch is served), where stopping is the intended end.

### Disagreements of code and words

Each run `doc_*` checks one statement that a comment, a docstring or an
assertion makes, and TLC finds a behaviour of the code against it.

| Run | The words | What happens |
|---|---|---|
| `doc_generate_apart` | SR 1729-1731 | a START handled after the cleanup check trains during the next generation |
| `doc_on_policy` | `rollout.yaml` 43, README 36 | agent loops whose engine keeps its cache never get the actor's updates (FW 2001-2012) |

Further statements are refuted by the models and stand in them as definitions
without a run of their own; each is violated under the instance given.

| Definition | The words | What happens, and where |
|---|---|---|
| `CleanupMeansOffloaded` (DrafterProtocol) | WM 465 | a cancelled cleanup is signalled with the drafter on the GPU (one worker, multi-turn, `Faults = {"stop"}`, one batch, no checks) |
| `StepsEnd` (DrafterProtocol) | EB 191-193 | TP ranks that stop apart leave one in a collective (two workers of one DP rank, multi-turn, interval 1, one step, `Deliveries = {1}`, `Faults = {"cleanup"}`, one batch, no checks, `FairSpec`) |
| `LockNeverKills` (DrafterProtocol) | SR 1058-1060 | the patched crash is still possible at the single-turn release (one worker, single-turn, interval 1, no faults, two batches, two checks) |
| `DriverCollectsBeforeTraining` (DrafterData) | RT 1369 | driver and workers count from 1 and from 0 and collect in different batches (interval 3, `MaxGlobal = 4`, no faults) |
| `LastStepSaved` (TrainingStep) | RT 1517 | a last step whose groups are all dropped leaves no checkpoint (`Jobs <- DropZeroJobs`, no restarts) |
| `StreamsApart` (TrainingStep) | `fsdp_vllm.py` 233 | the first sleep of vLLM's servers puts the training stream in place of the seeded one, so rollout starts on it and TP ranks may differ (`Jobs <- VllmLoopJobs`) |
| `ReleasedWhenHeld` (TrainingStep) | SR 1119-1124 | with drafter training the engine's memory is released twice (`Jobs <- EarlyReleaseJobs`) |
| `RowsAligned` (TrainingBatch) | `monkey_patch.py` 203: the patch is "for ulysses sequence parallel and fused kernel" | with both, the labels are rolled within a rank's slice (`dense_common.py` 112), so the last token of every slice is scored against the first of the same slice (a job of `training_batch` on two Ulysses ranks with `fused` TRUE) |
| `RefusesTooFewLayers` (MegatronWeights) | `megatron_model_merger.py` 57-60 | shares for every rank are promised unless there are fewer layers than ranks; the search finds none for 5 layers on 4 and raises an IndexError, line 88 (`Jobs <- TightJobs`) |
| `ExtrasFiltered` (TrainingBatch) | `protocol.py` 405-407 | extra reward columns keep the rows the filter dropped (constants of `training_batch`) |
| `BatchConsistent` (TrainingBatch) | RT 315-319: the kept groups are aligned to the data-parallel degree, because an arbitrary count "aborts the step" | Megatron asks more: its mini batches must come out even (`protocol.py` 705), and an aligned number of kept rows that is no multiple of them aborts the update (the job of `training_batch` with two pipeline stages and `mini` 4) |
| `PromptAsGiven` (AgentLoop) | `base_tool.py` 45-54: `create` returns a response, which `_handle_pending_state` appends | what a tool says first replaces the generation prompt in the tokens (`schemas.py` 513), `prompt_ids` keeps it, and the request is cut by their length (611, 712): the first word of the tool comes out as a generation prompt (constants of `rollout_turns`) |
| `TrackerLoadable` (CheckpointStore) | "for atomic usage", RT 1009 | keeping one checkpoint, the old one is removed before the new one is written (`Configs <- KeepOne`, `TotalSteps = 3`, `SaveFreq = 1`, one crash) |

Met while reading or modelling, and not run:

* *Drafter.* COMPLETED states are never left in a batch that does not train,
  because no worker sends start_generation, so BATCH_COMPLETE (WM 229) can go
  out while workers generate; a failed activation never signals the cleanup
  event (WM 465, 702-705), so every later batch waits its 10 seconds; a
  completion mark skipped on the shared lock keeps the session open into the
  next batch, against WM 220-222; a batch dropped for want of a signal makes
  the workers collect twice for one training step (SR 958); with training in
  every step, cleanup has cleared the buffer before "previous step data"
  (`data_buffer.py` 13-15) could be used; the driver's collection (RT 1382)
  calls `.apply`, which worker groups do not have.
* *Batch.* A mini batch whose rows do not fill the last fixed micro batch
  weighs it like a full one; a score on a tool's token, where `naive.py` 100 puts
  it when a tool has spoken last, is lost by GAE and ReMax (`OwnTokensCredited`
  states who gets what); a short last mini batch is scaled like a full one;
  REINFORCE++ resets its return at masked tokens; `agg_loss` in the mode
  seq-mean-token-mean divides by zero for a fully masked row; a row longer than
  the token budget exceeds it; a lone answer of a group is its own GRPO
  advantage; an asynchronous reward together with the filter uses the reward
  tensor from before it; ReMax with several answers unites batches of
  different sizes (RT 1221-1240).
* *Forward pass.* `preprocess_packed_seqs` copies the first chunk of a rank
  without regard to the end of the row (`mcore/util.py` 77), where the second
  is cut off at it: a row much shorter than its padded length raises, or, with
  one token left, spreads that token over the chunk (`PackDefined`, which the
  jobs satisfy). Megatron's critic keeps values on tool tokens
  (`megatron_critic.py` 128-129, "Only action tokens have values"): its mask is
  the attention mask. Megatron's dynamic micro batches are not weighed by their
  rows, unlike those of FSDP (`AccumulationExact` is about FSDP).
* *Memory.* In async mode without `free_cache_engine` nothing wakes the engine
  and its weights are never updated (FW 2001-2012); `SGLangRollout.sleep`
  passes an argument that `sleep` does not take (SR 1938-1942); with a wake-up
  in two stages and EAGLE the tag of the drafter's weights is never resumed;
  vLLM with adapters and dummy weights gets only the base weights first; the
  generation stream starts over after a resume. In a wake-up of SGLang in one
  stage nothing makes the ranks meet between the offload of the actor and the
  leader's resume (`fsdp_sglang.py` 209-293), so a slower rank may still hold the
  actor while the engine takes its cache back on that GPU; with two stages, or
  vLLM, the hand-over of the weights lies in between (`MeetBeforeCache`).
* *Offloading.* Saved tensors are recognised by where they start and their
  dtype (`activation_offload.py` 35-37): of two views with the same start and
  another shape or stride, both come back in the layout of the first.
* *Weights.* `per_tensor_generator` looks for "output_layers" where the
  parameter is `output_layer.weight` (`megatron_utils.py` 862), so a tied head on
  a last stage of its own is sent to the engine; if the test matched, its
  `continue` would come before `next(gen_func)` and every later tensor would go
  out under its neighbour's name. `get_transformer_layer_offset` counts the
  first stage as a middle one when only the last has a size of its own and
  there are virtual chunks, so rank 1 gets the offset of rank 0, as in the
  Megatron function it extends. The savers of models with experts, of MLA
  and of vision models raise NotImplementedError.
* *Checkpoints.* A death while PPO's tracker is written leaves a file that
  cannot be parsed, where SFT renames; with one checkpoint kept, an SFT job
  whose folder rotation had just removed starts from scratch under the old
  tracker and, after a further death, resumes from the half-written folder with
  its data loader restarted (so `ResumesConsistent` and `TrackerComplete` ask
  for `Spares`, more than one kept); checkpoints of earlier lives are never
  rotated, against "keeping at most max_ckpt_to_keep"; a job resumed from its
  last checkpoint trains one more step; an asynchronous Megatron save is
  prepared and never scheduled; the SFT trainer takes `% save_freq` of zero.
* *Turns.* No tool of the repository says anything when it is created, so
  `PromptAsGiven` fails only for tools of a user; the checks of the model length
  after an observation (SR 1221, 1358) take `len` of a tensor of one row and
  never end a request, which runs out of room at the next call with another
  reason; SR 1577-1578 keeps only the last log probability of a response; an engine
  that aborts a request raises a ValueError that aborts the batch; after an
  answer is cut by length, the chat template's end of turn is trained on though
  the model did not emit it; rewards of user turns may stem from turns that the
  response length cuts off; the SGLang path may end on an observation where
  `tool_agent_loop.py` 117-118 says it should not; a table smaller than the
  requests in flight closes environments in use; without its global rate limit
  the sandbox worker dereferences None.

### Fairness

`Fairness` in DrafterProtocol asks that threads run (weak fairness of each
thread's own steps), that the coordinator serves a pending request and that
queued broadcasts are polled. Timeouts that model faults are not fair; the
wait for cleanup has strong fairness because its event may be set and cleared
again, and its 10 seconds end it in any case when `cleanup` may fail. A main
thread that waits for the lock is woken by the release only when its own loop
has an event: `LoopWakes` grants that to a completion mark (`wait_for` of 3 s)
and to ranks that lead an engine (SGLang's tokenizer manager runs a watchdog
timer on their loop). A listener that waits for the lock is woken by the next
broadcast only. The other ranks, TP rank 1 and up of the multi-turn path, may
wait in their release for good; no liveness run has such a rank.

CheckpointStore assumes weak fairness of `Work`: a process that lives goes on.
Deaths are not fair and bounded. AgentLoop assumes it of every slot and of the
next batch: the event loop runs each coroutine that can go on, and engine,
tools and environments answer every call (their timeouts answer too).
TrainingBatch, TrainingStep, ActivationOffload and MegatronWeights are checked
for safety only.

## Proofs

The first part of `DrafterProtocol_proofs` is about the coordinator alone, whose
module DrafterProtocol extends. It proves, for every finite set of workers, every
assignment of DP ranks and every positive quota:

| Theorem | States |
|---|---|
| `CoordInvariance` | `CoordSpec => []CoordInv` |
| `TypeCorrect` | `[]CoordTypeOK` |
| `FinishedNeverTrains` | `[]NoFinishedTrainer` |
| `SessionIsWhole` | `[]WholeQuota` |
| `OnlyTrainersStop` | `[]StopNeedsTrainer` |
| `SessionsStayIntact` | `SessionIntact` |
| `CoordinatorKeepsLease` | `LeaseRefinement` |

The assumption is `CoordinatorAssumption`: finitely many workers, natural DP
ranks, a quota of at least one. The argument: `CoordInv` is the type invariant
with the two facts about a session, that its ranks are a whole quota of whole
groups and that none of them has completed. It is inductive: a release sets
whole groups to released and keeps `trainingRanks` unless there is no session,
when the chosen ranks are the preimage of `FirstDps`, a set of the right
cardinality (lemma `PrefixExists`: every finite set of naturals has a prefix of
each size up to its own); a completion mark either touches nobody of a session
or ends it. `StopNeedsTrainer` follows because a session has at least one rank
and none of them has completed, so "all completed" implies that the marking
worker is one of them. The refinement has one lemma per action; the
existential of `Grant` is witnessed by the groups of the chosen ranks.

`CheckpointStore_proofs` proves, for any ranks, models, configurations, steps,
checkpoint frequencies, deaths and numbers of checkpoints kept:

| Theorem | States |
|---|---|
| `StoreInvariance` | `StoreSpec => []StoreInv` |
| `StoreTypeCorrect` | disk, driver and managers keep their types |
| `TrackerNamesWhole` | `[]TrackerComplete` |
| `ResumeConsistency` | `[]ResumesConsistent` |
| `OnlyTrackerBreaks` | `[]BrokenByTracker` |
| `KeptBounded` | `[]StoreBounded` |

`ConfigsAssumption` says what a configuration is: distinct models, a positive
number of checkpoints kept or no limit. A whole checkpoint depends on files of
every rank, so the invariant follows them there: every file has the step of its
folder (`FilesByStep`), the ranks past a barrier have written what comes before
it (`WrittenNow`), what a manager remembers is older than what it saves now
(`SavedOlder`), and the tracker is behind the step under way
(`TrackerBehind`). Lemma `OutdatedOlder` is the heart: rotation removes only
paths older than the tracker, if more than one checkpoint is kept. With one it
does not hold, and the theorems ask for `Spares`.
`KeptBounded` does not: its invariant `KeptInv` says that the folders of a model
are the ones rank 0 remembers, the one it has made room for, and at most a full
store for each life before this one, and that no rank opens a file before rank 0
has rotated.

`DrafterData_proofs` proves, for any workers, intervals, windows, capacities and
faults, and any number of batches and restarts:

| Theorem | States |
|---|---|
| `DataInvariance` | `DataSpec => []DataInv` |
| `DataTypeCorrect` | `[]DataTypeOK` |
| `WindowStaysFresh` | `[]WindowFresh` |
| `TrainingFindsData` | `TrainingHasData` |

`DataAssumption` is that interval, window, capacity and total steps are
positive. `WindowFresh` is not inductive, because the buffer counts steps and
the policy counts updates: `SamplesAge` says that a sample is at most as many
updates old as its buffer has counted steps since, with one to spare between an
update and the driver's next step (`Ahead`), and `CountersBounded` that no
counter overtakes the one it follows. `TrainingHasData` needs `CollectedInTime`,
which carries a collected batch over the step that comes before training; the
deque may drop old samples but never its newest (lemma `RememberKeeps`).

The rest of `DrafterProtocol_proofs` proves, for any finite set of workers (both rollout
paths, any interval, faults, copies of a broadcast, batches, checks and training
steps):

| Theorem | States |
|---|---|
| `ProtocolTypeCorrect` | `Spec => []TypeInv` |
| `NoTaskOrphaned` | `[]NoOrphanTask` |
| `CleanupFlagHolds` | `[]CleanupFlagSound` |
| `AnswersMatch` | `[]AnswerMatchesRequest` |
| `ImplementsCoordinator` | `Spec => CoordSpec` |
| `LeaseInSystem` | `Spec => LeaseRefinement` |
| `TrainingInSession` | `[]TrainsInSession`, if `0 \notin Deliveries` |

The assumptions are `ProtocolAssumption` and the coordinator's. `ManagerInv`
ties task, cleanup event and manager together and adds that a manager waiting in
`_stop_training` is not active, which makes the first two properties inductive.
The socket needs more: which request is in flight follows from where the main
thread is, so `TurnInv` says that requests exist only in a release or a mark,
that a TP group leaves a generation together, and that in the single-turn path
nobody but the leader releases; a worker a leader moves on is thus never one
with a request. `Socket` then says that a client's lock is held by exactly the
thread that awaits a reply. `RegisteredInv` says that all workers are registered
when the first leaves initialisation. This is the barrier the coordinator asks
of its clients, and with it every served request is a step of the coordinator
alone: each theorem of the first part holds in the system, and the
refinement of `TrainingLease` composes (`LeaseInSystem`). `TrainingInSession`
rests on all of these and on `SessionInv`: outside the session a worker's queue
is empty and it does not train, or a STOP is last in it.

`AgentLoop_proofs` proves, for any slots, batches, servers, configurations and
lengths:

| Theorem | States |
|---|---|
| `LossOnly` | `Spec => []LossOnAnswers` |
| `TrainedOnTheSampled` | `[]TrainedAsGenerated` |
| `NothingDangling` | `[]NoDanglingTurn` |
| `EnvironmentStays` | `[]EnvironmentKept` |
| `SessionsStay` | `[]SessionsSticky`, if the cache has room for a batch |

`RolloutAssumption` asks for finitely many slots, natural lengths, at least one
turn and one token of response, and a model length with room for prompt and
response; `AgentAssumption` for a server. The first three theorems share the
invariant `Rows`. Of a request that is still running it says that the mask marks
the answers, that the tokens begin with the prompt, of which only the generation
prompt may have made room for a tool's first word (`Prompted`), that what the
engine last heard is a prefix of them, and what each state of the request adds
(`InTurn`): a request in front of the engine still has room, one with tools to
call has a turn left and does not end in a generation prompt. In the states of
`Heard` the policy has seen all of it. Nothing is asked of the tools or their
`CreateLens` but that saying nothing is possible. Of a request that is done it
says what `Finalize` left (`Trained`). Each step of a request has its lemma
(`...Fits`), which rests on what trimming, appending and cutting do to rows.
`EnvInv` orders the table by batch: no environment of a later batch is older than
one of an earlier, so that with room for a batch the oldest one over the bound
is never of this batch (lemma `LatestInOrder`, a pigeonhole argument over the
LRU table). `SessionInv` is the same for the sessions, with the weights of two
servers never more than one apart, because the least loaded one is chosen.

`TrainingStep_proofs` proves, for any group of ranks, any jobs, frequencies,
steps and restarts:

| Theorem | States |
|---|---|
| `RanksFollow` | `Spec => []Inv` |
| `AlwaysResident` | `[]ResidentWhenUsed` |
| `AlwaysReady` | `[](Supported => EngineReady)` |
| `AlwaysInBudget` | `[](Supported => GpuBudget)` |
| `AlwaysApart` | `[](Supported => StreamsApart)` |

The assumptions are `LeaderAssumption` and `JobsAssumption`. `Supported` leaves
out the configurations in which the code does not do what the last three ask,
each met above: agent loops over vLLM (`VllmLoopJobs` violates `StreamsApart`) or
over an engine that keeps its cache (`doc_on_policy`), the drafter anywhere but
with FSDP and SGLang, where alone its weights are handed over, or with the early
release outside the agent loops (`EarlyReleaseJobs`), and adapters over dummy
weights. All jobs of `training_step` are supported; the first two theorems hold
for every configuration.

The ranks are at different operations, so no invariant over the shared state
alone is inductive. The proof takes each call as a program over what one rank
sees (`State`: its modules, the engine, its streams). `Triple(T, P, ops, Q)` says
that `ops` runs from every state of `P` through states of `T` to one of `Q`, in
the manner of Hoare; the programs of `Plan` are put together from their
operations with it (`BothRun`, `WhenRuns`), through `Rest`, `Waking`, `Fresh`,
`Full`, `Rolling` and `Slept`, which say what an engine and the streams are
between the operations of a rollout. `PlanRuns` concludes that every call runs
from a state at rest to one at rest. `Inv` then says that a run of the call
exists which every rank follows at its own place (`Follows`), or that all are at
rest; and that no rank is past a collective that another has not reached
(`Abreast`). The hand-over of the weights needs more, for the engine belongs to
the leader and the actor to every rank: a run is calm all along, or it crosses at
a sync (`Cross`), with no cache before it and no actor after, and `Abreast` puts
all ranks on one side of it. A checkpoint holds as many draws as updates, equal on
all ranks (`Checkpoints`), so a restart is at rest again.

`ActivationOffload_proofs` proves, for every model, any saved tensors and any
number of micro batches:

| Theorem | States |
|---|---|
| `ReadsAlwaysSaved` | `OffloadSpec => []BackwardReadsSaved` |
| `TwoGroupsAtMost` | `[]TwoGroupsOnGpu` |

The only assumption is `OffloadAssumption`: at least one group, and no more of
them than layers, of any sizes and not only one fewer. The host asks the
streams nothing, so its own steps settle the fields of the handler: `HostInv`
gives them for each place, going forward or coming back, from the layer and the
number of windows passed (`Windows`: windows end in order, each with its own
group's layer or later, the last with the last layer). With it no assertion or
lookup fails, and `TwoGroups` counts what is on the GPU. A group whose turn to
be copied out comes before its layer has run stays where it is (`Early`): the
windows of a model with few layers for its groups reach that case, and `Early`
is what the tags and the mapping depend on there.

What the streams do is another matter, for they lag behind the host by as much as
they like. The proof keeps all that was ever issued as a log, which the
specification does not have (`LogSafe` asserts that one exists), so that it can
be argued about once and for all. `SafeLog` is a fact about the waits on the log
alone: a copy waits for the layer that wrote what it copies, whatever next writes
there waits for the copy; a fetch waits for the computation to have seen the copy
done, the next copy for the fetch; a read waits for its fetch, and what next takes
its place waits for the read. `Filled` says that the memory holds what the log
says, however far each stream has run. A step of a stream keeps it because what
has been waited for has run, and what waits for this one has not (`CopyFinds`,
`FetchFinds`, `ReadFinds`). A step of the host keeps `SafeLog` because of what its
tags stand for: one that says "gpu" was written in this micro batch and not
overwritten since, one that says "cpu" was copied, one that says "reloaded" was
fetched (`Tracked`); the computation has waited for every copy but those in
`buf` (`Guarded`), and for every fetch but perhaps the last one, whose layer it
has not reached (`Met`, `NotBehind`).

`MegatronWeights_proofs` proves, for every model and every grid of ranks Megatron
can launch it on:

| Theorem | States |
|---|---|
| `Loading` | `WeightsSpec => []LoadedAsComputed` |
| `Feeding` | `WeightsSpec => []EngineFedWhole`, if every job is `Feedable` |

`WeightsAssumption` is that the sizes are positive and every job `Launchable`:
heads divide by query groups and those by tensor ranks, as do the rows that are
cut, and experts by their ranks; every layer is in a chunk, none has fewer than
no layer, and chunks of chunks need a pipeline; and
a checkpoint of Hugging Face is loaded in an even layout and without experts,
which the loader asserts or has no names for. The first half is about the
program alone: by `PositionIs` and `LayerMapIs` the loader's map sends every layer
to the one place where the pipeline runs it (`EvenStart` adds up the chunks
before it, `SumsAgree` in any order), by `EveryKeyIsBrought` some item is for
every parameter that `named_parameters` names. The second is about rows. `Cuts`
and `Slice` say where the elements of a piece are; a piece of a piece is a piece
(`Nested`), and pieces of equal length put together are cut at the same places
(`ChunkOfFlat`). So what the loader interleaves for all ranks and cuts again is,
on each rank, what its layers compute with (`CutQkvIs`, `CutGateUpIs`,
`ItemDelivers`). `LoadInv` then says of every rank of the first replica that the
items sent so far have brought what is held and the others are blank and of the
right length, so no shape ever differs; the last step copies replicas, whose
places in the grid give the same rows (`HeldSpreads`). No later phase changes a
parameter, and the conversion for the engine finds as many tensors as names
(`YieldedOk`), so no later phase fails.

`Feeding` goes on from there. `Feedable` is where the numbers that the update
computes are right, and the run's eleven jobs all are (`AllFeedable`): with virtual
chunks, a size for the last stage alone, or no stage between the first and the
last, sends `get_transformer_layer_offset` to wrong layers or a division by zero;
and experts that no rank shares are gathered in the tensor parallel group, which
must then be as large as theirs. Under it the offset of a chunk is the layer
that it starts with (`OffsetIs`), by the even or uneven share of each stage. The
metadata lists every parameter of every stage (`MetaIs`), and each is read where
it is held (`ReadsIs`); the shards of a group, put together, are the tensors of
the checkpoint (`GatheredDense`, `GatheredExperts`, `GatheredAlone`): query
groups taken apart, gate from up, shards by columns joined across. So a
parameter yields the entries it becomes, each once and under its own name
(`YieldedIs`, with `GlobalExpert` for the experts of the other ranks), the buckets
keep every pair (`FoldHas`, `FedIs`), and the entries of all parameters are
those of the checkpoint, no more (`FedIsEntry`) and no fewer but a tied head
(`EntryIsFed`). `FeedInv` says it of every step: what a rank has handed over and
what its bucket holds are the entries of the parameters so far (`FedUpto`), each
with its rows, and the last step empties the bucket.

`MegatronExport_proofs` adds what goes out:

| Theorem | States |
|---|---|
| `Exporting` | `WeightsSpec => []ExportsWhole` |

`Exporting` needs no more than `WeightsAssumption`. The saver asks of each item
of its program the ranks on which the loader's map seats it; their parts joined
and taken apart are the tensors of the item (`ItemSaved`, from `ChunkOfJoined`
for query groups and for gate and up), and the items together are the
checkpoint (`SavedIs`). The merger runs the model on stages of its own, so its
layout is another instance of the lemmas about placement: `MergeLayoutIs` shows
the shares of its ranks to be such a layout, `LayersBeforeIs` that what it adds to
the number of a layer is the layer its chunk starts with. Some rank has stored
each shard it reads (`DenseMerged`, `ExpertMerged`; replicas have stored the same,
`SameHeld`), and the parameters of all its ranks become all entries
(`MergedIs`). `ExportInv` says of every step that each state dict holds the
entries of the items, or ranks, so far with the rows of the checkpoint. What the
merger refuses (`MergeRefused`) ends without a state dict; `Mergeable` is the
search for shares that the code makes, and not every model of enough layers
passes it (`RefusesTooFewLayers`).

Model-checked only: the batch, and liveness
(`BatchesComplete`, `AllServed` and the others), which is out of the
prover's reach. `StopNeedsTrainer` is proved and not in a run: `SessionIntact`
there covers it. What recursive definitions and folds compute for every input is
out of its reach as well, and with it TrainingBatch, whose partition and
estimators are recursive.

## Not modelled, and why

Losses and estimators are modelled over small numbers; whitening, standard
deviations, KL estimates, entropy and the experimental losses are floating-point
code. Kernels, models, reward scores and metrics have no state. Of the forward
pass, image inputs, the entropy and hidden states that travel with the log
probabilities, Megatron's fused kernels and its path without packing are left
out; the critic's update cuts its batch like the actor's and is not modelled
again. Of the weights, the converters for MLA, vision and Mixtral, mbridge,
FSDP's export and the files a merged model is split into are left out. Tools are clients of services and appear as a choice of
what they return. Adaptive speculation lives in vendored SGLang. The offline trainers are
sequential loops over a dataset. Logging, metrics and profiling are left out.
