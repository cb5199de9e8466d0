--------------------------- MODULE CheckpointStore ---------------------------
(***************************************************************************)
(* Checkpoints on disk: the shards every rank writes for every model, the  *)
(* state of the data loader, the tracker file that names the checkpoint to *)
(* resume from, and the rotation that removes old ones.  The job may die   *)
(* between any two steps and is started again; what a process knew of      *)
(* earlier checkpoints is lost with it.                                    *)
(*                                                                         *)
(* Two programs share the managers: the PPO driver, with a manager per     *)
(* model and a folder for each inside the folder of the step, and the SFT  *)
(* trainer, with one manager whose folder is the folder of the step.       *)
(***************************************************************************)
EXTENDS Integers, Sequences, FiniteSets

CONSTANTS
    Ranks, Leader, \* the ranks of a model, and rank 0, which rotates
    Configs,       \* [trainer, roles, keep]: "ppo" or "sft", the models in
                   \*   the order they are saved, and max_ckpt_to_keep of
                   \*   each (0 keeps all)
    Roles,         \* every model of a configuration
    TotalSteps,    \* total_training_steps
    SaveFreq,      \* trainer.save_freq
    MaxCrashes     \* bound: deaths of the job

ASSUME LeaderAssumption == Leader \in Ranks
ASSUME StepsAssumption ==
    /\ TotalSteps \in Nat \ {0} /\ SaveFreq \in Nat \ {0}
    /\ MaxCrashes \in Nat
ASSUME ConfigsAssumption ==
    /\ Configs \subseteq [trainer : {"ppo", "sft"}, roles : Seq(Roles),
                          keep : [Roles -> Nat]]
    /\ \A c \in Configs : \A i, j \in DOMAIN c.roles :
          c.roles[i] = c.roles[j] => i = j

VARIABLES
    conf,    \* the configuration of the job
    shard,   \* what the file of each step, model and rank holds
    data,    \* what data.pt of each step holds
    tracker, \* what latest_checkpointed_iteration.txt holds
    phase,   \* what the driver does
    part,    \* which of the models it is saving or loading
    at,      \* where each rank is in the manager's save_checkpoint
    step,    \* global_steps
    weights, \* the updates in each rank's shard of each model
    batches, \* the batches the data loader has given out
    saved,   \* previous_saved_paths of each manager on rank 0
    crashes

diskVars == <<shard, data, tracker>>
jobVars == <<phase, part, at, step, weights, batches, saved>>
vars == <<conf, diskVars, jobVars, crashes>>

LastStep == TotalSteps + MaxCrashes
Steps == 1..LastStep

(* A file or a tracker without content, and one a death has cut short.     *)
Absent == -1
Torn == -2

RolesOf(c) == {c.roles[i] : i \in DOMAIN c.roles}
Role == conf.roles[part]

Resting == [r \in Ranks |-> "idle"]

Fresh ==
    /\ phase = "find" /\ part = 1 /\ at = Resting
    /\ step = 0 /\ batches = 0
    /\ weights = [m \in Roles |-> [r \in Ranks |-> 0]]
    /\ saved = [m \in Roles |-> << >>]

Init ==
    /\ conf \in Configs /\ crashes = 0
    /\ shard = [s \in Steps |-> [m \in Roles |-> [r \in Ranks |-> Absent]]]
    /\ data = [s \in Steps |-> Absent]
    /\ tracker = Absent
    /\ Fresh

(***************************************************************************)
(* Resuming (resume_mode auto).                                            *)
(***************************************************************************)
FolderExists(s) ==
    \/ data[s] # Absent
    \/ \E m \in Roles, r \in Ranks : shard[s][m][r] # Absent

(* find_latest_ckpt_path: no tracker, or no folder of that name, starts    *)
(* from scratch; a tracker that is not a number is an error.               *)
FindLatest ==
    /\ phase = "find"
    /\ \/ /\ tracker = Torn
          /\ phase' = "broken" /\ UNCHANGED step
       \/ /\ tracker \in Steps /\ FolderExists(tracker)
          /\ phase' = "load" /\ step' = tracker
       \/ /\ tracker \in Steps => ~FolderExists(tracker)
          /\ tracker # Torn
          /\ phase' = "train" /\ UNCHANGED step
    /\ UNCHANGED <<conf, diskVars, part, at, weights, batches, saved, crashes>>

(* Every rank loads its own shard; one that cannot ends the job.           *)
LoadModel ==
    /\ phase = "load" /\ part <= Len(conf.roles)
    /\ IF \A r \in Ranks : shard[step][Role][r] >= 0
       THEN /\ weights' = [weights EXCEPT ![Role] = shard[step][Role]]
            /\ part' = part + 1 /\ UNCHANGED phase
       ELSE phase' = "broken" /\ UNCHANGED <<weights, part>>
    /\ UNCHANGED <<conf, diskVars, at, step, batches, saved, crashes>>

\* Mutant of LoadData: the data loader starts from the first batch.
LoadDataNever ==
    /\ phase = "load" /\ part > Len(conf.roles)
    /\ phase' = "train" /\ part' = 1
    /\ UNCHANGED <<conf, diskVars, at, step, weights, batches, saved>>
    /\ UNCHANGED crashes

(* Without data.pt the data loader starts from the first batch.            *)
LoadData ==
    /\ phase = "load" /\ part > Len(conf.roles)
    /\ phase' = (IF data[step] = Torn THEN "broken" ELSE "train")
    /\ batches' = IF data[step] >= 0 THEN data[step] ELSE batches
    /\ part' = 1
    /\ UNCHANGED <<conf, diskVars, at, step, weights, saved, crashes>>

(***************************************************************************)
(* One step of training, and whether a checkpoint is due.  PPO also saves  *)
(* when its capacity is about to expire.                                   *)
(***************************************************************************)
IsLastStep(s) == s >= TotalSteps

Train ==
    /\ phase = "train" /\ step < LastStep
    /\ step' = step + 1 /\ batches' = batches + 1
    /\ weights' = [m \in Roles |->
                     [r \in Ranks |-> weights[m][r] +
                        (IF m \in RolesOf(conf) THEN 1 ELSE 0)]]
    /\ \/ phase' = "save"
          /\ \/ IsLastStep(step') \/ step' % SaveFreq = 0
             \/ conf.trainer = "ppo"
       \/ phase' = "train"
          /\ ~IsLastStep(step') /\ step' % SaveFreq # 0
    /\ UNCHANGED <<conf, diskVars, part, at, saved, crashes>>

(***************************************************************************)
(* save_checkpoint of a manager, rank by rank.                             *)
(***************************************************************************)
BeginSave ==
    /\ phase = "save" /\ at = Resting /\ part <= Len(conf.roles)
    /\ at' = [r \in Ranks |-> IF r = Leader THEN "rotate" ELSE "barrier"]
    /\ UNCHANGED <<conf, diskVars, phase, part, step, weights, batches>>
    /\ UNCHANGED <<saved, crashes>>

\* Mutant of Excess: every earlier checkpoint goes.
ExcessAll(m) ==
    IF conf.keep[m] > 0 /\ Len(saved[m]) >= conf.keep[m]
    THEN Len(saved[m]) ELSE 0

(* How many of the oldest checkpoints go to make room for a new one.       *)
Excess(m) ==
    IF conf.keep[m] > 0 /\ Len(saved[m]) >= conf.keep[m]
    THEN Len(saved[m]) - conf.keep[m] + 1 ELSE 0

Outdated(m) == {saved[m][i] : i \in 1..Excess(m)}

(* rmtree: of the model's folder, or of the step's folder and all in it.   *)
Left(s, content) ==
    [m \in Roles |-> IF m = Role
                     THEN [r \in Ranks |-> content] ELSE shard[s][m]]

TearOutdated ==
    /\ at[Leader] = "rotate" /\ Outdated(Role) # {}
    /\ shard' = [s \in Steps |-> IF s \in Outdated(Role)
                                 THEN Left(s, Torn) ELSE shard[s]]
    /\ at' = [at EXCEPT ![Leader] = "remove"]
    /\ UNCHANGED <<conf, data, tracker, phase, part, step, weights, batches>>
    /\ UNCHANGED <<saved, crashes>>

RemoveOutdated ==
    /\ at[Leader] = "remove"
    /\ shard' = [s \in Steps |-> IF s \in Outdated(Role)
                                 THEN Left(s, Absent) ELSE shard[s]]
    /\ data' = [s \in Steps |->
                  IF conf.trainer = "sft" /\ s \in Outdated(Role)
                  THEN Absent ELSE data[s]]
    /\ saved' = [saved EXCEPT ![Role] =
                   SubSeq(@, Excess(Role) + 1, Len(@))]
    /\ at' = [at EXCEPT ![Leader] = "barrier"]
    /\ UNCHANGED <<conf, tracker, phase, part, step, weights, batches>>
    /\ UNCHANGED crashes

\* Mutant of NothingOutdated: with nothing to remove, rank 0 returns.
NothingOutdatedReturns ==
    /\ at[Leader] = "rotate" /\ Outdated(Role) = {}
    /\ at' = [at EXCEPT ![Leader] = "written"]
    /\ UNCHANGED <<conf, diskVars, phase, part, step, weights, batches>>
    /\ UNCHANGED <<saved, crashes>>

NothingOutdated ==
    /\ at[Leader] = "rotate" /\ Outdated(Role) = {}
    /\ at' = [at EXCEPT ![Leader] = "barrier"]
    /\ UNCHANGED <<conf, diskVars, phase, part, step, weights, batches>>
    /\ UNCHANGED <<saved, crashes>>

PassBarrier ==
    /\ \A r \in Ranks : at[r] = "barrier"
    /\ at' = [r \in Ranks |-> "open"]
    /\ UNCHANGED <<conf, diskVars, phase, part, step, weights, batches>>
    /\ UNCHANGED <<saved, crashes>>

Write(r, content) ==
    shard' = [shard EXCEPT ![step][Role][r] = content]

OpenShard(r) ==
    /\ at[r] = "open"
    /\ Write(r, Torn)
    /\ at' = [at EXCEPT ![r] = "write"]
    /\ UNCHANGED <<conf, data, tracker, phase, part, step, weights, batches>>
    /\ UNCHANGED <<saved, crashes>>

WriteShard(r) ==
    /\ at[r] = "write"
    /\ Write(r, weights[Role][r])
    /\ at' = [at EXCEPT ![r] = "written"]
    /\ UNCHANGED <<conf, data, tracker, phase, part, step, weights, batches>>
    /\ UNCHANGED <<saved, crashes>>

\* Mutant of EndSave: the manager forgets what it has written.
EndSaveForgets ==
    /\ \A r \in Ranks : at[r] = "written"
    /\ at' = Resting /\ part' = part + 1
    /\ UNCHANGED <<conf, diskVars, phase, step, weights, batches, saved>>
    /\ UNCHANGED crashes

(* All ranks wait for each other before the path is remembered.            *)
EndSave ==
    /\ \A r \in Ranks : at[r] = "written"
    /\ at' = Resting /\ part' = part + 1
    /\ saved' = [saved EXCEPT ![Role] = Append(@, step)]
    /\ UNCHANGED <<conf, diskVars, phase, step, weights, batches, crashes>>

(***************************************************************************)
(* The rest of the driver's save: the data loader, then the tracker.       *)
(***************************************************************************)
OpenData ==
    /\ phase = "save" /\ part > Len(conf.roles)
    /\ data' = [data EXCEPT ![step] = Torn] /\ phase' = "data"
    /\ UNCHANGED <<conf, shard, tracker, part, at, step, weights, batches>>
    /\ UNCHANGED <<saved, crashes>>

WriteData ==
    /\ phase = "data"
    /\ data' = [data EXCEPT ![step] = batches] /\ phase' = "tracker"
    /\ UNCHANGED <<conf, shard, tracker, part, at, step, weights, batches>>
    /\ UNCHANGED <<saved, crashes>>

(* PPO truncates the file and writes the number; SFT renames a new file.   *)
OpenTracker ==
    /\ phase = "tracker" /\ conf.trainer = "ppo" /\ tracker # Torn
    /\ tracker' = Torn
    /\ UNCHANGED <<conf, shard, data, jobVars, crashes>>

WriteTracker ==
    /\ phase = "tracker" /\ (conf.trainer = "sft" \/ tracker = Torn)
    /\ tracker' = step /\ part' = 1
    /\ phase' = IF IsLastStep(step) THEN "done" ELSE "train"
    /\ UNCHANGED <<conf, shard, data, at, step, weights, batches>>
    /\ UNCHANGED <<saved, crashes>>

(* The job dies, or is started again although it was done.                 *)
Crash ==
    /\ crashes < MaxCrashes /\ phase # "broken"
    /\ crashes' = crashes + 1
    /\ phase' = "find" /\ part' = 1 /\ at' = Resting
    /\ step' = 0 /\ batches' = 0
    /\ weights' = [m \in Roles |-> [r \in Ranks |-> 0]]
    /\ saved' = [m \in Roles |-> << >>]
    /\ UNCHANGED <<conf, diskVars>>

Resume == FindLatest \/ LoadModel \/ LoadData
Rotate == TearOutdated \/ RemoveOutdated \/ NothingOutdated
SaveModel ==
    \/ BeginSave \/ Rotate \/ PassBarrier \/ EndSave
    \/ \E r \in Ranks : OpenShard(r) \/ WriteShard(r)
SaveRest == OpenData \/ WriteData \/ OpenTracker \/ WriteTracker

Work == Resume \/ Train \/ SaveModel \/ SaveRest
Next == Work \/ Crash

Spec == Init /\ [][Next]_vars

(* A living job goes on.  Nothing is assumed of its deaths: they are few.  *)
FairSpec == Spec /\ WF_vars(Work)

-----------------------------------------------------------------------------
Contents == Nat \cup {Absent, Torn}
Phases == {"find", "load", "train", "save", "data", "tracker", "done",
           "broken"}

(* Everything has its type.                                                *)
StoreTypeOK ==
    /\ conf \in Configs
    /\ shard \in [Steps -> [Roles -> [Ranks -> Contents]]]
    /\ data \in [Steps -> Contents]
    /\ tracker \in Steps \cup {Absent, Torn}
    /\ phase \in Phases
    /\ part \in Nat \ {0}
    /\ at \in [Ranks -> {"idle", "rotate", "remove", "barrier", "open",
                         "write", "written"}]
    /\ step \in 0..LastStep
    /\ weights \in [Roles -> [Ranks -> Nat]]
    /\ batches \in Nat
    /\ saved \in [Roles -> Seq(Steps)]
    /\ crashes \in 0..MaxCrashes

Complete(s) ==
    /\ \A m \in RolesOf(conf), r \in Ranks : shard[s][m][r] = s
    /\ data[s] = s

Spares == \A m \in RolesOf(conf) : conf.keep[m] # 1

(* Whenever the job dies, the checkpoint the tracker names is whole: every *)
(* shard of every model and the data loader's state, all of that step. The *)
(* rotation spares it when more than one is kept (_save_checkpoint and     *)
(* save_checkpoint of the managers).                                       *)
TrackerComplete == Spares /\ tracker \in Steps => Complete(tracker)

(* A job that trains has the same number of updates in every shard of      *)
(* every model, and has seen as many batches, however often it died and    *)
(* resumed (load_checkpoint of driver and managers).  Keeping only one     *)
(* checkpoint, an SFT job may have to start over under an old tracker and  *)
(* meet its own half-written folder there.                                 *)
ResumesConsistent ==
    Spares /\ phase \in {"train", "save", "data", "tracker", "done"} =>
      /\ batches = step
      /\ \A m \in RolesOf(conf), r \in Ranks : weights[m][r] = step

(* Only a death in the middle of writing the tracker keeps a job from      *)
(* starting again (find_latest_ckpt_path).                                 *)
BrokenByTracker == phase = "broken" /\ Spares => tracker = Torn

(* What is kept is bounded: max_ckpt_to_keep for each life of the job,     *)
(* since a new process does not know of the checkpoints before it.         *)
StoreBounded ==
    \A m \in RolesOf(conf) : conf.keep[m] > 0 =>
      Cardinality({s \in Steps : \E r \in Ranks : shard[s][m][r] # Absent})
        <= conf.keep[m] * (crashes + 1)

(* The job gets to its last step, past every death that leaves the tracker *)
(* readable; all ranks leave all barriers of the managers.                 *)
JobEnds == <>[](phase = "done" \/ tracker = Torn)

(* "latest checkpointed iteration tracker (for atomic usage)": the tracker *)
(* names a checkpoint that can be loaded, whatever is kept.                *)
TrackerLoadable == tracker \in Steps => Complete(tracker)
=============================================================================
