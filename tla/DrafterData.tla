------------------------------ MODULE DrafterData -----------------------------
(***************************************************************************)
(* When drafter training has data.  Three counters decide: the driver's    *)
(* global_steps, the RL step of every worker's drafter manager, and the    *)
(* step of every worker's DataBuffer.  Batches that end in an update move  *)
(* all three; a batch dropped for want of a training signal moves only     *)
(* the first; the end of a training session empties the buffer and         *)
(* restarts the third; a restart of the job restarts the last two.         *)
(*                                                                         *)
(* This is the single-turn rollout, the one that collects hidden states,   *)
(* with collect_hidden_states_from_sgl.  A batch adds one sample.  Which   *)
(* workers train, and when, is the coordinator's business: here any worker *)
(* that has released its GPU may start a session.                          *)
(***************************************************************************)
EXTENDS Naturals, Sequences

CONSTANTS
  Workers,      \* the ranks, each with a drafter manager and a trainer
  Interval,     \* training_interval_steps
  BufferSteps,  \* buffer_steps of _prepare_training_batch (2 in the code)
  Capacity,     \* max_size of the DataBuffer
  Faults,       \* what may go wrong, see DataFaultKinds
  MaxGlobal,    \* total_training_steps
  MaxRestarts   \* bound: how often the job is killed and resumed

DataFaultKinds == {
  "zero",     \* a batch has no training signal in any group
  "cleanup"}  \* training cleanup outlives the main thread's 10 seconds

ASSUME DataAssumption ==
  /\ Interval \in Nat \ {0} /\ BufferSteps \in Nat \ {0}
  /\ Capacity \in Nat \ {0}
  /\ MaxGlobal \in Nat \ {0} /\ MaxRestarts \in Nat
  /\ Faults \subseteq DataFaultKinds

VARIABLES
  global,    \* global_steps: the number of the batch under way, from 1
  saved,     \* global_steps of the last checkpoint
  phase,     \* where the driver is in the batch
  rlStep,    \* current_rl_step of each drafter manager
  bufStep,   \* _current_step of each DataBuffer
  buffer,    \* its samples: the step they carry and the policy they came from
  training,  \* the workers in a training session
  sessions,  \* how many sessions a worker has begun in this batch
  policy,    \* how many updates the actor has had
  restarts   \* how often the job was resumed

driverVars == <<global, saved, phase, policy, restarts>>
bufferVars == <<bufStep, buffer>>
sessionVars == <<training, sessions>>
dataVars == <<driverVars, rlStep, bufferVars, sessionVars>>

Phase == {"generate", "collect", "finish", "learn", "validate", "stopped"}

DataTypeOK ==
  /\ global \in 1..MaxGlobal + 1 /\ saved \in 0..MaxGlobal
  /\ phase \in Phase
  /\ rlStep \in [Workers -> 0..MaxGlobal]
  /\ bufStep \in [Workers -> 0..MaxGlobal]
  /\ \A w \in Workers :
       /\ Len(buffer[w]) <= Capacity
       /\ \A i \in DOMAIN buffer[w] :
            buffer[w][i] \in [step : 0..MaxGlobal, policy : 0..policy]
  /\ training \subseteq Workers
  /\ sessions \in [Workers -> 0..2]
  /\ policy \in 0..MaxGlobal * (MaxRestarts + 1)
  /\ restarts \in 0..MaxRestarts

DataInit ==
  /\ global = 1 /\ saved = 0 /\ phase = "generate"
  /\ rlStep = [w \in Workers |-> 0]
  /\ bufStep = [w \in Workers |-> 0]
  /\ buffer = [w \in Workers |-> <<>>]
  /\ training = {}
  /\ sessions = [w \in Workers |-> 0]
  /\ policy = 0 /\ restarts = 0

-----------------------------------------------------------------------------
(* The two schedules and the window *)

ShouldTrain(w) == rlStep[w] % Interval = 0
ShouldCollect(w) == (rlStep[w] + 1) % Interval = 0
DriverCollects == (global + 1) % Interval = 0

\* get_data_from_last_n_steps(BufferSteps)
Window(w) ==
  {s \in {buffer[w][i] : i \in DOMAIN buffer[w]} :
     s.step + BufferSteps >= bufStep[w]}

\* deque(maxlen = Capacity): the oldest sample makes room.
Remember(b, s) ==
  LET c == Append(b, s)
  IN IF Len(c) > Capacity THEN Tail(c) ELSE c

\* collect_online_data on every worker whose step it is
CollectOnline ==
  buffer' = [w \in Workers |->
               IF ShouldCollect(w)
                 THEN Remember(buffer[w],
                               [step |-> bufStep[w], policy |-> policy])
                 ELSE buffer[w]]

-----------------------------------------------------------------------------
(* A batch *)

\* The engines return; a worker that is to train gives its GPU up.
Generate ==
  /\ phase = "generate"
  /\ phase' = "collect"
  /\ sessions' = [w \in Workers |-> 0]
  /\ UNCHANGED <<global, saved, policy, restarts, rlStep, bufferVars,
                 training>>

\* START_TRAINING, or the state check, finds the worker without a session.
StartSession(w) ==
  /\ phase \in {"collect", "finish"}
  /\ ShouldTrain(w) /\ w \notin training /\ sessions[w] < 2
  /\ training' = training \cup {w}
  /\ sessions' = [sessions EXCEPT ![w] = @ + 1]
  /\ UNCHANGED <<driverVars, rlStep, bufferVars>>

Collect ==
  /\ phase = "collect"
  /\ phase' = "finish"
  /\ CollectOnline
  /\ UNCHANGED <<global, saved, policy, restarts, rlStep, bufStep,
                 sessionVars>>

\* Mutant of EndSession: the buffer is emptied and keeps its step.
EndSessionKeepsStep(w) ==
  /\ w \in training
  /\ training' = training \ {w}
  /\ buffer' = [buffer EXCEPT ![w] = <<>>]
  /\ UNCHANGED <<driverVars, rlStep, bufStep, sessions>>

\* cleanup_training, whenever the training loop ends
EndSession(w) ==
  /\ w \in training
  /\ training' = training \ {w}
  /\ buffer' = [buffer EXCEPT ![w] = <<>>]
  /\ bufStep' = [bufStep EXCEPT ![w] = 0]
  /\ UNCHANGED <<driverVars, rlStep, sessions>>

\* Every worker has completed its batch and waited for its cleanup.
FinishBatch ==
  /\ phase = "finish"
  /\ training = {} \/ "cleanup" \in Faults
  /\ phase' = "learn"
  /\ UNCHANGED <<global, saved, policy, restarts, rlStep, bufferVars,
                 sessionVars>>

\* drop_zero_signal leaves nothing: the next batch, without an RL step.
SkipUpdate ==
  /\ phase = "learn" /\ "zero" \in Faults
  /\ global' = global + 1
  /\ phase' = IF global >= MaxGlobal THEN "stopped" ELSE "generate"
  /\ UNCHANGED <<saved, policy, restarts, rlStep, bufferVars,
                 sessionVars>>

\* The actor is updated; validation and the checkpoint may follow.
Update ==
  /\ phase = "learn"
  /\ policy' = policy + 1
  /\ phase' = "validate"
  /\ UNCHANGED <<global, saved, restarts, rlStep, bufferVars,
                 sessionVars>>

\* Validation generates too, and collects what it generates.
Validate ==
  /\ phase = "validate"
  /\ CollectOnline
  /\ UNCHANGED <<driverVars, rlStep, bufStep, sessionVars>>

Save ==
  /\ phase = "validate" /\ saved < global
  /\ saved' = global
  /\ UNCHANGED <<global, phase, policy, restarts, rlStep, bufferVars,
                 sessionVars>>

\* Mutant of Advance: the managers move on without their buffers.
AdvanceManagers ==
  /\ phase = "validate"
  /\ rlStep' = [w \in Workers |-> rlStep[w] + 1]
  /\ global' = global + 1
  /\ phase' = IF global >= MaxGlobal THEN "stopped" ELSE "generate"
  /\ UNCHANGED <<saved, policy, restarts, bufferVars,
                 sessionVars>>

\* increment_rl_step on all workers, then the driver's own step
Advance ==
  /\ phase = "validate"
  /\ rlStep' = [w \in Workers |-> rlStep[w] + 1]
  /\ bufStep' = [w \in Workers |-> bufStep[w] + 1]
  /\ global' = global + 1
  /\ phase' = IF global >= MaxGlobal THEN "stopped" ELSE "generate"
  /\ UNCHANGED <<saved, policy, restarts, buffer,
                 sessionVars>>

\* The job is killed and resumed from its last checkpoint: new processes, with
\* managers and buffers that start from zero.
Restart ==
  /\ restarts < MaxRestarts /\ phase # "stopped" /\ saved < MaxGlobal
  /\ restarts' = restarts + 1
  /\ global' = saved + 1
  /\ phase' = "generate"
  /\ rlStep' = [w \in Workers |-> 0]
  /\ bufStep' = [w \in Workers |-> 0]
  /\ buffer' = [w \in Workers |-> <<>>]
  /\ training' = {}
  /\ sessions' = [w \in Workers |-> 0]
  /\ UNCHANGED <<saved, policy>>

Stopped == phase = "stopped" /\ training = {} /\ UNCHANGED dataVars

DataNext ==
  \/ Generate \/ Collect \/ FinishBatch \/ SkipUpdate \/ Update \/ Validate
  \/ Save \/ Advance \/ Restart \/ Stopped
  \/ \E w \in Workers : StartSession(w) \/ EndSession(w)

DataSpec == DataInit /\ [][DataNext]_dataVars

-----------------------------------------------------------------------------
(* What holds *)

(* What the drafter trains on during a rollout was collected at most       *)
(* BufferSteps updates ago, although the buffer counts steps from its last *)
(* clearing and late cleanups, dropped batches and restarts move the       *)
(* counters apart (data_buffer.py:85-108, sglang_rollout.py:1944-1951).    *)
WindowFresh ==
  phase # "validate" =>
    \A w \in Workers : \A s \in Window(w) : policy - s.policy <= BufferSteps

\* w begins its first session of this batch, and not of the first RL step.
BeginsTraining(w) ==
  w \in training' \ training /\ sessions[w] = 0 /\ rlStep[w] > 0

(* The sample collected one step before training is there when training   *)
(* starts, however many batches were dropped, validated or replayed in     *)
(* between: only a cleanup can have taken it, and a cleanup restarts the   *)
(* buffer's step, so that a step of two or more says that none came after  *)
(* the collection (sglang_rollout.py:957-966, cleanup_training).           *)
TrainingHasData ==
  [][\A w \in Workers :
       BeginsTraining(w) /\ bufStep[w] >= 2 => Window(w) # {}]_dataVars

-----------------------------------------------------------------------------
(* What the code says and does not do *)

(* ray_trainer.py:1369: the driver collects one step before training.      *)
DriverCollectsBeforeTraining ==
  phase = "learn" /\ DriverCollects =>
    \A w \in Workers : (rlStep[w] + 1) % Interval = 0
=============================================================================
