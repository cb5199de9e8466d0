------------------------ MODULE CheckpointStore_proofs ------------------------
(***************************************************************************)
(* Proofs about the checkpoints on disk, for any number of ranks, models,  *)
(* steps and deaths of the job, any save frequency and any number of kept  *)
(* checkpoints.                                                            *)
(***************************************************************************)
EXTENDS CheckpointStore, SequenceTheorems, FiniteSetTheorems, TLAPS

-----------------------------------------------------------------------------
(* The inductive invariant *)

(* A file holds what its step says, or nothing that can be used.           *)
FilesByStep ==
    /\ \A s \in Steps, m \in Roles, r \in Ranks :
          shard[s][m][r] \in {Absent, Torn, s}
    /\ \A s \in Steps : data[s] \in {Absent, Torn, s}

(* A rank is in a manager only while a model is being saved.               *)
RanksSave ==
    (\E r \in Ranks : at[r] # "idle")
        => phase = "save" /\ part <= Len(conf.roles)

(* Whoever loads or saves does so at a step that has a folder.             *)
Anchored == phase \in {"load", "save", "data", "tracker"} => step \in Steps

Typed == StoreTypeOK /\ Anchored /\ RanksSave

(* How far updates and batches agree with the step.                        *)
Counted ==
    /\ phase \in {"find", "train", "done"} => part = 1
    /\ phase = "find" => step = 0 /\ batches = 0
    /\ phase = "load" =>
         /\ tracker \in Steps /\ step = tracker /\ batches = 0
         /\ \A i \in DOMAIN conf.roles, r \in Ranks :
               i < part => weights[conf.roles[i]][r] = step
    /\ phase = "find" => \A m \in Roles, r \in Ranks : weights[m][r] = 0
    /\ phase \in {"train", "save", "data", "tracker", "done"} =>
         /\ batches = step
         /\ \A m \in RolesOf(conf), r \in Ranks : weights[m][r] = step

(* The tracker is never ahead of the job, and behind while it saves.       *)
TrackerBehind ==
    /\ phase \in {"train", "done"} => tracker <= step
    /\ phase \in {"save", "data", "tracker"} => tracker < step

(* The manager of this model has saved the current step.                   *)
SavedNow(m) ==
    \/ phase \in {"data", "tracker"}
    \/ phase = "save" /\ \E i \in DOMAIN conf.roles :
                            i < part /\ conf.roles[i] = m

(* What has been written of the current step so far.                       *)
WrittenNow ==
    /\ \A m \in RolesOf(conf), r \in Ranks :
          SavedNow(m) => shard[step][m][r] = step
    /\ \A r \in Ranks : at[r] = "written" => shard[step][Role][r] = step
    /\ phase = "tracker" => data[step] = step

(* All paths a manager remembers but the last are older than the tracker,  *)
(* or than the current step once that has been saved.                      *)
SavedOlder ==
    /\ phase \in {"find", "load", "broken"} =>
         \A m \in Roles : saved[m] = << >>
    /\ \A m \in RolesOf(conf) : \A i \in DOMAIN saved[m] :
         /\ saved[m][i] <= step
         /\ phase = "save" /\ ~SavedNow(m) => saved[m][i] < step
         /\ i < Len(saved[m]) =>
              saved[m][i] < (IF SavedNow(m) THEN step ELSE tracker)

SparesInv ==
    /\ FilesByStep /\ Counted
    /\ TrackerBehind /\ WrittenNow /\ SavedOlder
    /\ TrackerComplete /\ BrokenByTracker

StoreInv == Typed /\ (Spares => SparesInv)

-----------------------------------------------------------------------------
(* Types *)

(* The configuration of a job, spelled out. *)
LEMMA ConfTyped ==
  ASSUME StoreTypeOK
  PROVE  /\ conf.trainer \in {"ppo", "sft"}
         /\ conf.roles \in Seq(Roles)
         /\ conf.keep \in [Roles -> Nat]
         /\ RolesOf(conf) \subseteq Roles
         /\ part <= Len(conf.roles) => Role \in Roles /\ Role \in RolesOf(conf)
         /\ \A i, j \in DOMAIN conf.roles :
               conf.roles[i] = conf.roles[j] => i = j
<1>1. conf \in Configs /\ part \in Nat \ {0}
  BY DEF StoreTypeOK
<1>2. /\ conf.trainer \in {"ppo", "sft"}
      /\ conf.roles \in Seq(Roles)
      /\ conf.keep \in [Roles -> Nat]
      /\ \A i, j \in DOMAIN conf.roles : conf.roles[i] = conf.roles[j] => i = j
  BY <1>1, ConfigsAssumption
<1>3. RolesOf(conf) \subseteq Roles
  BY <1>2 DEF RolesOf
<1>4. part <= Len(conf.roles) => Role \in Roles /\ Role \in RolesOf(conf)
  BY <1>1, <1>2 DEF Role, RolesOf
<1> QED BY <1>2, <1>3, <1>4

(* Rotation leaves a suffix of what a manager remembers. *)
LEMMA ExcessBounded ==
  ASSUME StoreTypeOK, NEW m \in Roles
  PROVE  /\ Excess(m) \in 0..Len(saved[m])
         /\ conf.keep[m] # 1 => Excess(m) < Len(saved[m]) \/ Excess(m) = 0
<1>1. conf.keep[m] \in Nat /\ Len(saved[m]) \in Nat
  BY ConfTyped DEF StoreTypeOK
<1> QED BY <1>1 DEF Excess

(* What is left of the saved steps without the oldest. *)
LEMMA RestTyped ==
  ASSUME StoreTypeOK, NEW m \in Roles
  PROVE  LET rest == SubSeq(saved[m], Excess(m) + 1, Len(saved[m]))
         IN /\ rest \in Seq(Steps)
            /\ Len(rest) = Len(saved[m]) - Excess(m)
            /\ \A i \in 1..Len(rest) : rest[i] = saved[m][Excess(m) + i]
<1>1. saved[m] \in Seq(Steps)
  BY DEF StoreTypeOK
<1>2. Excess(m) \in 0..Len(saved[m]) /\ Len(saved[m]) \in Nat
  BY <1>1, ExcessBounded
<1>3. /\ Excess(m) + 1 \in 1..(Len(saved[m]) + 1)
      /\ Len(saved[m]) \in Excess(m)..Len(saved[m])
      /\ Len(saved[m]) \in (Excess(m) + 1) - 1..Len(saved[m])
  BY <1>2
<1> QED BY <1>1, <1>2, <1>3, SubSeqProperties

(* Every saved step is a step of training. *)
LEMMA SavedTyped ==
  ASSUME StoreTypeOK, NEW m \in Roles, NEW i \in DOMAIN saved[m]
  PROVE  saved[m][i] \in Steps /\ saved[m][i] \in Nat
<1>1. saved[m] \in Seq(Steps)
  BY DEF StoreTypeOK
<1>2. saved[m][i] \in Steps
  BY <1>1
<1> QED BY <1>2 DEF Steps

(* The types hold at first. *)
LEMMA TypeInit == Init => Typed
<1> SUFFICES ASSUME Init PROVE Typed
  OBVIOUS
<1> QED
  BY StepsAssumption
  DEF Init, Fresh, Typed, StoreTypeOK, Anchored, RanksSave, Resting,
      Contents, Phases, Absent, Torn, Steps, LastStep

(* Every action keeps the types, the anchor and the ranks in their places. *)
LEMMA TypeNext == Typed /\ [Next]_vars => Typed'
<1> SUFFICES ASSUME Typed, [Next]_vars PROVE Typed'
  OBVIOUS
<1> USE DEF Typed, StoreTypeOK, Anchored, RanksSave
<1>1. /\ LastStep \in Nat /\ Steps \subseteq Nat /\ Leader \in Ranks
      /\ \A s \in Steps : s \in Contents
      /\ Absent \in Contents /\ Torn \in Contents
      /\ \A c \in Contents : c >= 0 => c \in Nat
  BY StepsAssumption, LeaderAssumption
  DEF LastStep, Steps, Contents, Absent, Torn
<1>2. /\ part <= Len(conf.roles) => Role \in Roles
      /\ Len(conf.roles) \in Nat
  BY ConfTyped
<1>3. CASE UNCHANGED vars
  BY <1>3 DEF vars, diskVars, jobVars, Role
<1>4. CASE FindLatest
  BY <1>4, <1>1 DEF FindLatest, Phases, Steps, diskVars
<1>5. CASE LoadModel
  <2>1. Role \in Roles /\ step \in Steps
    BY <1>5, <1>2 DEF LoadModel
  <2>2. CASE \A r \in Ranks : shard[step][Role][r] >= 0
    <3>1. shard[step][Role] \in [Ranks -> Nat]
      BY <1>1, <2>1, <2>2
    <3>2. weights' \in [Roles -> [Ranks -> Nat]]
      BY <1>5, <2>1, <2>2, <3>1 DEF LoadModel
    <3> QED BY <1>5, <2>2, <3>2 DEF LoadModel, diskVars
  <2>3. CASE ~ \A r \in Ranks : shard[step][Role][r] >= 0
    BY <1>5, <2>3 DEF LoadModel, Phases, diskVars
  <2> QED BY <2>2, <2>3
<1>6. CASE LoadData
  BY <1>6, <1>1 DEF LoadData, Phases, diskVars
<1>7. CASE Train
  <2>1. step' \in Steps
    BY <1>7, <1>1 DEF Train, Steps
  <2>2. weights' \in [Roles -> [Ranks -> Nat]] /\ batches' \in Nat
    BY <1>7 DEF Train
  <2> QED BY <1>7, <2>1, <2>2 DEF Train, Phases, Steps, diskVars
<1>8. CASE BeginSave
  BY <1>8 DEF BeginSave, diskVars
<1>9. CASE TearOutdated
  <2>1. shard' \in [Steps -> [Roles -> [Ranks -> Contents]]]
    BY <1>9, <1>1 DEF TearOutdated, Left
  <2> QED BY <1>9, <1>1, <2>1 DEF TearOutdated
<1>10. CASE RemoveOutdated
  <2>1. /\ shard' \in [Steps -> [Roles -> [Ranks -> Contents]]]
        /\ data' \in [Steps -> Contents]
    BY <1>10, <1>1 DEF RemoveOutdated, Left
  <2>2. Role \in Roles
    BY <1>10, <1>1, <1>2 DEF RemoveOutdated
  <2>3. saved' \in [Roles -> Seq(Steps)]
    <3> DEFINE rest == SubSeq(saved[Role], Excess(Role) + 1, Len(saved[Role]))
    <3>1. rest \in Seq(Steps)
      BY <2>2, RestTyped
    <3>2. saved' = [saved EXCEPT ![Role] = rest]
      BY <1>10 DEF RemoveOutdated
    <3> HIDE DEF rest
    <3> QED BY <2>2, <3>1, <3>2
  <2> QED BY <1>10, <1>1, <2>1, <2>3 DEF RemoveOutdated
<1>11. CASE NothingOutdated
  BY <1>11, <1>1 DEF NothingOutdated, diskVars
<1>12. CASE PassBarrier
  BY <1>12, <1>1 DEF PassBarrier, diskVars
<1>13. CASE EndSave
  <2>1. Role \in Roles /\ step \in Steps
    BY <1>13, <1>1, <1>2 DEF EndSave
  <2>2. saved' \in [Roles -> Seq(Steps)]
    <3>1. Append(saved[Role], step) \in Seq(Steps)
      BY <2>1
    <3> QED BY <1>13, <2>1, <3>1 DEF EndSave
  <2> QED BY <1>13, <2>2 DEF EndSave, Resting, diskVars
<1>14. ASSUME NEW r \in Ranks, OpenShard(r) PROVE Typed'
  <2>1. shard' \in [Steps -> [Roles -> [Ranks -> Contents]]]
    BY <1>14, <1>1 DEF OpenShard, Write
  <2> QED BY <1>14, <2>1 DEF OpenShard
<1>15. ASSUME NEW r \in Ranks, WriteShard(r) PROVE Typed'
  <2>1. Role \in Roles
    BY <1>15, <1>2 DEF WriteShard
  <2>2. shard' \in [Steps -> [Roles -> [Ranks -> Contents]]]
    BY <1>15, <2>1 DEF WriteShard, Write, Contents
  <2> QED BY <1>15, <2>2 DEF WriteShard
<1>16. CASE OpenData
  BY <1>16, <1>1 DEF OpenData, Phases
<1>17. CASE WriteData
  BY <1>17, <1>1 DEF WriteData, Phases, Contents
<1>18. CASE OpenTracker
  BY <1>18, <1>1 DEF OpenTracker, jobVars
<1>19. CASE WriteTracker
  BY <1>19, <1>1 DEF WriteTracker, Phases
<1>20. CASE Crash
  BY <1>20, <1>1, StepsAssumption DEF Crash, Phases, Resting, diskVars
<1> QED
  BY <1>3, <1>4, <1>5, <1>6, <1>7, <1>8, <1>9, <1>10, <1>11, <1>12, <1>13,
     <1>14, <1>15, <1>16, <1>17, <1>18, <1>19, <1>20
  DEF Next, Work, Resume, SaveModel, Rotate, SaveRest

-----------------------------------------------------------------------------
(* Safety *)

(* There are spares at first. *)
LEMMA SparesInit == Init /\ Spares => SparesInv
<1> SUFFICES ASSUME Init, Spares PROVE SparesInv
  OBVIOUS
<1>1. Typed
  BY TypeInit
<1>2. RolesOf(conf) \subseteq Roles
  BY <1>1, ConfTyped DEF Typed
<1> QED
  BY <1>2
  DEF Init, Fresh, SparesInv, FilesByStep, Counted, TrackerBehind, WrittenNow,
      SavedNow, SavedOlder, TrackerComplete, BrokenByTracker, Resting, Steps,
      Absent, Torn

(* What rotation removes is older than the tracker and the current step: a *)
(* manager that keeps more than one never reaches its newest path.         *)
LEMMA OutdatedOlder ==
  ASSUME StoreInv, Spares, at[Leader] \in {"rotate", "remove"}
  PROVE  /\ phase = "save" /\ step \in Steps
         /\ Role \in Roles /\ Role \in RolesOf(conf) /\ ~SavedNow(Role)
         /\ Outdated(Role) \subseteq Steps
         /\ \A s \in Outdated(Role) : s < tracker /\ s < step
<1>1. /\ phase = "save" /\ step \in Steps /\ part <= Len(conf.roles)
      /\ Role \in Roles /\ Role \in RolesOf(conf)
  BY LeaderAssumption, ConfTyped DEF StoreInv, Typed, RanksSave, Anchored
<1>2. ~SavedNow(Role)
  <2>1. part \in DOMAIN conf.roles
    BY <1>1, ConfTyped DEF StoreInv, Typed, StoreTypeOK
  <2>2. \A i \in DOMAIN conf.roles :
           conf.roles[i] = conf.roles[part] => i = part
    BY <2>1, ConfTyped DEF StoreInv, Typed
  <2> QED BY <1>1, <2>2 DEF SavedNow, Role, StoreInv, Typed, StoreTypeOK
<1>3. conf.keep[Role] # 1
  BY <1>1 DEF Spares
<1>4. /\ Excess(Role) \in 0..Len(saved[Role])
      /\ Excess(Role) < Len(saved[Role]) \/ Excess(Role) = 0
  BY <1>1, <1>3, ExcessBounded DEF StoreInv, Typed
<1>5. saved[Role] \in Seq(Steps)
  BY <1>1 DEF StoreInv, Typed, StoreTypeOK
<1>6. ASSUME NEW i \in 1..Excess(Role)
      PROVE  saved[Role][i] \in Steps
             /\ saved[Role][i] < tracker /\ saved[Role][i] < step
  <2>1. i \in DOMAIN saved[Role] /\ i < Len(saved[Role])
    BY <1>4, <1>5, <1>6
  <2> QED
    BY <2>1, <1>1, <1>2, <1>5 DEF StoreInv, SparesInv, SavedOlder
<1> QED BY <1>1, <1>2, <1>6 DEF Outdated

(* Resuming: what the tracker names is whole, so nothing can stop it.      *)
LEMMA ResumeSafe ==
  ASSUME StoreInv, Spares, Resume
  PROVE  SparesInv'
<1> USE DEF StoreInv, SparesInv
<1>1. conf' = conf /\ diskVars' = diskVars /\ saved' = saved /\ at' = at
  BY DEF Resume, FindLatest, LoadModel, LoadData
<1>2. /\ Typed /\ Typed'
      /\ RolesOf(conf) \subseteq Roles
      /\ part <= Len(conf.roles) => Role \in RolesOf(conf)
      /\ part \in Nat /\ conf.roles \in Seq(Roles)
  BY TypeNext, ConfTyped DEF Next, Work, Typed, StoreTypeOK
<1>3. FilesByStep' /\ TrackerComplete'
  BY <1>1 DEF diskVars, FilesByStep, TrackerComplete, Spares, Complete, RolesOf
<1>4. WrittenNow' /\ SavedOlder'
  <2>1. \A r \in Ranks : at[r] = "idle"
    BY <1>2 DEF Resume, FindLatest, LoadModel, LoadData, RanksSave, Typed,
       StoreTypeOK
  <2>2. \A m \in Roles : saved'[m] = << >>
    BY <1>1 DEF Resume, FindLatest, LoadModel, LoadData, SavedOlder
  <2>3. \A m \in Roles : ~(SavedNow(m)')
    BY DEF Resume, FindLatest, LoadModel, LoadData, SavedNow
  <2>4. phase' # "tracker"
    BY DEF Resume, FindLatest, LoadModel, LoadData
  <2> QED BY <1>1, <1>2, <2>1, <2>2, <2>3, <2>4
          DEF WrittenNow, SavedOlder, RolesOf
<1>6. CASE FindLatest
  <2>1. tracker \in Steps => FolderExists(tracker)
    BY DEF TrackerComplete, Complete, FolderExists, Absent, Steps
  <2>2. \/ phase' = "broken" /\ tracker = Torn
        \/ phase' = "load" /\ step' = tracker /\ tracker \in Steps
        \/ phase' = "train" /\ step' = 0 /\ tracker = Absent
    BY <1>6, <1>2, <2>1 DEF FindLatest, Typed, StoreTypeOK, Counted
  <2> QED
    BY <1>6, <1>1, <1>2, <1>3, <1>4, <2>2
    DEF FindLatest, diskVars, Counted, TrackerBehind, BrokenByTracker, Absent
<1>7. CASE LoadModel
  <2>1. /\ Role \in RolesOf(conf) /\ Role \in Roles /\ step \in Steps
        /\ step = tracker
    BY <1>7, <1>2 DEF LoadModel, Counted
  <2>2. \A r \in Ranks : shard[step][Role][r] = step
    BY <2>1 DEF TrackerComplete, Complete
  <2>3. weights' = [weights EXCEPT ![Role] = shard[step][Role]]
        /\ part' = part + 1 /\ phase' = phase
    BY <1>7, <2>1, <2>2 DEF LoadModel, Steps
  <2>4. ASSUME NEW i \in DOMAIN conf.roles, NEW r \in Ranks, i < part'
        PROVE  weights'[conf.roles[i]][r] = step
    <3>1. conf.roles[i] \in Roles /\ weights \in [Roles -> [Ranks -> Nat]]
      BY <1>2, <2>4 DEF RolesOf, Typed, StoreTypeOK
    <3>2. CASE conf.roles[i] = Role
      BY <2>1, <2>2, <2>3, <3>1, <3>2
    <3>3. CASE conf.roles[i] # Role
      <4>1. i < part
        BY <1>2, <2>3, <2>4, <3>3 DEF Role
      <4>2. weights[conf.roles[i]][r] = step
        BY <1>7, <2>4, <4>1 DEF LoadModel, Counted
      <4> QED BY <2>1, <2>3, <3>1, <3>3, <4>2
    <3> QED BY <3>2, <3>3
  <2> QED
    BY <1>7, <1>1, <1>2, <1>3, <1>4, <2>1, <2>3, <2>4
    DEF LoadModel, diskVars, Counted, TrackerBehind, BrokenByTracker
<1>8. CASE LoadData
  <2>1. /\ tracker \in Steps /\ step = tracker /\ data[step] = step
        /\ phase' = "train"
    BY <1>8 DEF LoadData, Counted, TrackerComplete, Complete, Steps, Torn
  <2>2. \A m \in RolesOf(conf), r \in Ranks : weights[m][r] = step
    BY <1>8, <1>2 DEF LoadData, Counted, RolesOf
  <2> QED
    BY <1>8, <1>1, <1>2, <1>3, <1>4, <2>1, <2>2
    DEF LoadData, diskVars, Counted, TrackerBehind, BrokenByTracker, Steps
<1> QED BY <1>3, <1>4, <1>6, <1>7, <1>8 DEF Resume

(* Training leaves disk and managers alone and counts everything once.     *)
LEMMA TrainSafe ==
  ASSUME StoreInv, Spares, Train
  PROVE  SparesInv'
<1> USE DEF StoreInv, SparesInv
<1>1. /\ Typed /\ step \in Nat /\ step' = step + 1 /\ phase = "train"
      /\ RolesOf(conf) \subseteq Roles /\ conf.roles \in Seq(Roles)
      /\ weights \in [Roles -> [Ranks -> Nat]]
      /\ tracker \in Int /\ part = 1
      /\ saved \in [Roles -> Seq(Steps)] /\ Steps \subseteq Nat
  BY ConfTyped, StepsAssumption
  DEF Train, Typed, StoreTypeOK, Counted, Steps, LastStep, Absent, Torn
<1>2. /\ UNCHANGED <<conf, shard, data, tracker, part, at, saved>>
      /\ phase' \in {"train", "save"}
  BY DEF Train, diskVars
<1>3. FilesByStep' /\ TrackerComplete' /\ BrokenByTracker' /\ TrackerBehind'
  <2>1. FilesByStep'
    BY <1>2 DEF FilesByStep
  <2>2. TrackerComplete'
    BY <1>2 DEF TrackerComplete, Spares, Complete, RolesOf
  <2>3. BrokenByTracker' /\ TrackerBehind'
    BY <1>1, <1>2 DEF BrokenByTracker, TrackerBehind
  <2> QED BY <2>1, <2>2, <2>3
<1>4. Counted'
  <2>1. \A m \in RolesOf(conf), r \in Ranks : weights'[m][r] = step'
    BY <1>1 DEF Train, Counted
  <2>2. batches' = step'
    BY <1>1 DEF Train, Counted
  <2> QED BY <1>1, <1>2, <2>1, <2>2 DEF Counted, RolesOf
<1>5. \A m \in Roles : ~SavedNow(m) /\ ~(SavedNow(m)')
  BY <1>1, <1>2 DEF SavedNow
<1>6. WrittenNow'
  BY <1>1, <1>2, <1>5 DEF WrittenNow, RolesOf, RanksSave, Typed
<1>7. SavedOlder'
  <2> SUFFICES ASSUME NEW m \in RolesOf(conf), NEW i \in DOMAIN saved[m]
               PROVE  /\ saved[m][i] <= step' /\ saved[m][i] < step'
                      /\ i < Len(saved[m]) => saved[m][i] < tracker
    <3>1. RolesOf(conf)' = RolesOf(conf)
      BY <1>2 DEF RolesOf
    <3> QED BY <1>1, <1>2, <1>5, <3>1 DEF SavedOlder
  <2>1. m \in Roles /\ saved[m] \in Seq(Steps)
    BY <1>1
  <2>2. saved[m][i] \in Nat
    BY <1>1, <2>1, SavedTyped DEF Typed
  <2> QED BY <1>1, <1>5, <2>1, <2>2 DEF SavedOlder
<1> QED BY <1>3, <1>4, <1>6, <1>7

(* Rotation touches neither the tracker's files nor the current ones.      *)
LEMMA RotateSafe ==
  ASSUME StoreInv, Spares, Rotate
  PROVE  SparesInv'
<1> USE DEF StoreInv, SparesInv
<1>1. /\ Typed /\ phase = "save" /\ step \in Steps
      /\ Role \in Roles /\ Role \in RolesOf(conf) /\ ~SavedNow(Role)
      /\ Outdated(Role) \subseteq Steps
      /\ \A s \in Outdated(Role) : s < tracker /\ s < step
  BY OutdatedOlder DEF Rotate, TearOutdated, RemoveOutdated, NothingOutdated
<1>2. /\ UNCHANGED <<conf, tracker, phase, part, step, weights, batches>>
      /\ RolesOf(conf) \subseteq Roles /\ Steps \subseteq Nat
      /\ tracker \in Int
  BY <1>1, ConfTyped
  DEF Rotate, TearOutdated, RemoveOutdated, NothingOutdated, diskVars, Typed,
      Steps, StoreTypeOK, Absent, Torn
<1>3. /\ step \notin Outdated(Role) /\ tracker \notin Outdated(Role)
  BY <1>1, <1>2
<1>4. /\ \A s \in Steps, m \in Roles, r \in Ranks :
            /\ shard'[s][m][r] \in {shard[s][m][r], Absent, Torn}
            /\ s \notin Outdated(Role) => shard'[s][m][r] = shard[s][m][r]
      /\ \A s \in Steps :
            /\ data'[s] \in {data[s], Absent}
            /\ s \notin Outdated(Role) => data'[s] = data[s]
  <2>1. CASE TearOutdated
    BY <2>1, <1>1 DEF TearOutdated, Left, Typed, StoreTypeOK
  <2>2. CASE RemoveOutdated
    BY <2>2, <1>1 DEF RemoveOutdated, Left, Typed, StoreTypeOK
  <2>3. CASE NothingOutdated
    BY <2>3 DEF NothingOutdated, diskVars
  <2> QED BY <2>1, <2>2, <2>3 DEF Rotate
<1>5. FilesByStep'
  BY <1>4 DEF FilesByStep
<1>6. TrackerComplete'
  BY <1>2, <1>3, <1>4 DEF TrackerComplete, Spares, Complete, RolesOf
<1>7. Counted' /\ TrackerBehind' /\ BrokenByTracker'
  BY <1>1, <1>2
  DEF Counted, TrackerBehind, BrokenByTracker, RolesOf
<1>8. WrittenNow'
  <2>1. \A r \in Ranks : at'[r] = "written" => at[r] = "written"
    BY <1>1 DEF Rotate, TearOutdated, RemoveOutdated, NothingOutdated, Typed,
       StoreTypeOK
  <2> QED BY <1>1, <1>2, <1>3, <1>4, <2>1
          DEF WrittenNow, SavedNow, RolesOf, Role
<1>9. SavedOlder'
  <2>1. /\ conf' = conf /\ RolesOf(conf)' = RolesOf(conf)
        /\ \A m \in Roles : SavedNow(m)' = SavedNow(m)
    BY <1>2 DEF SavedNow, RolesOf
  <2>2. CASE saved' = saved
    BY <1>1, <1>2, <2>1, <2>2 DEF SavedOlder
  <2>3. CASE RemoveOutdated
    <3> DEFINE rest == SubSeq(saved[Role], Excess(Role) + 1, Len(saved[Role]))
    <3>1. /\ saved' = [saved EXCEPT ![Role] = rest]
          /\ saved \in [Roles -> Seq(Steps)]
      BY <1>1, <2>3 DEF RemoveOutdated, Typed, StoreTypeOK
    <3>2. /\ rest \in Seq(Steps)
          /\ DOMAIN rest = 1..Len(rest) /\ Len(rest) \in Nat
          /\ Len(rest) = Len(saved[Role]) - Excess(Role)
          /\ \A i \in 1..Len(rest) : rest[i] = saved[Role][Excess(Role) + i]
          /\ Excess(Role) \in 0..Len(saved[Role])
          /\ Len(saved[Role]) \in Nat
          /\ DOMAIN saved[Role] = 1..Len(saved[Role])
      BY <1>1, <3>1, RestTyped, ExcessBounded DEF Typed
    <3> HIDE DEF rest
    <3>3. ASSUME NEW i \in DOMAIN rest
          PROVE  /\ rest[i] <= step /\ rest[i] < step
                 /\ i < Len(rest) => rest[i] < tracker
      <4> DEFINE k == Excess(Role) + i
      <4>1. /\ k \in DOMAIN saved[Role] /\ rest[i] = saved[Role][k]
            /\ i < Len(rest) => k < Len(saved[Role])
        BY <3>2, <3>3
      <4> QED BY <1>1, <4>1 DEF SavedOlder
    <3>4. ASSUME NEW m \in RolesOf(conf), NEW i \in DOMAIN saved'[m]
          PROVE  /\ saved'[m][i] <= step
                 /\ ~SavedNow(m) => saved'[m][i] < step
                 /\ i < Len(saved'[m]) =>
                      saved'[m][i] < (IF SavedNow(m) THEN step ELSE tracker)
      <4>1. CASE m = Role
        BY <1>1, <3>1, <3>3, <4>1
      <4>2. CASE m # Role
        BY <1>1, <3>1, <4>2 DEF SavedOlder
      <4> QED BY <4>1, <4>2
    <3> QED BY <1>1, <1>2, <2>1, <3>4 DEF SavedOlder
  <2> QED BY <2>2, <2>3 DEF Rotate, TearOutdated, NothingOutdated
<1> QED BY <1>5, <1>6, <1>7, <1>8, <1>9

(* Writing the shards of one model leaves those of earlier steps, and of   *)
(* the models before it, as they are.                                      *)
LEMMA WriteSafe ==
  ASSUME StoreInv, Spares, NEW r \in Ranks, OpenShard(r) \/ WriteShard(r)
  PROVE  SparesInv'
<1> USE DEF StoreInv, SparesInv
<1>1. /\ Typed /\ phase = "save" /\ step \in Steps /\ Steps \subseteq Nat
      /\ part <= Len(conf.roles) /\ part \in Nat /\ part > 0
      /\ Role \in Roles /\ Role \in RolesOf(conf)
      /\ RolesOf(conf) \subseteq Roles
      /\ weights[Role][r] = step /\ tracker < step /\ tracker \in Int
  <2>1. Typed /\ phase = "save" /\ part <= Len(conf.roles)
    BY DEF OpenShard, WriteShard, Typed, RanksSave
  <2>2. /\ step \in Steps /\ Steps \subseteq Nat /\ part \in Nat /\ part > 0
        /\ tracker \in Int
    BY <2>1 DEF Typed, StoreTypeOK, Anchored, Steps, Absent, Torn
  <2>3. /\ Role \in Roles /\ Role \in RolesOf(conf)
        /\ RolesOf(conf) \subseteq Roles
    BY <2>1, ConfTyped DEF Typed
  <2>4. weights[Role][r] = step /\ tracker < step
    BY <2>1, <2>3 DEF Counted, TrackerBehind
  <2> QED BY <2>1, <2>2, <2>3, <2>4
<1>2. /\ UNCHANGED <<conf, data, tracker, phase, part, step, weights,
                     batches, saved>>
      /\ RolesOf(conf)' = RolesOf(conf) /\ Role' = Role
      /\ \A m \in Roles : SavedNow(m)' = SavedNow(m)
  BY DEF OpenShard, WriteShard, RolesOf, Role, SavedNow
<1>3. ~SavedNow(Role)
  BY <1>1, ConfTyped DEF SavedNow, Role, Typed
<1>4. PICK content \in {Torn, step} :
        /\ shard' = [shard EXCEPT ![step][Role][r] = content]
        /\ at'[r] = "written" => content = step
        /\ \A q \in Ranks \ {r} : at'[q] = at[q]
  BY <1>1 DEF OpenShard, WriteShard, Write, Typed, StoreTypeOK
<1>5. \A s \in Steps, m \in Roles, q \in Ranks :
        shard'[s][m][q] = IF s = step /\ m = Role /\ q = r
                          THEN content ELSE shard[s][m][q]
  BY <1>1, <1>4 DEF Typed, StoreTypeOK
<1>6. FilesByStep'
  BY <1>2, <1>5 DEF FilesByStep
<1>7. TrackerComplete'
  BY <1>1, <1>2, <1>5 DEF TrackerComplete, Spares, Complete
<1>8. Counted' /\ TrackerBehind' /\ BrokenByTracker' /\ SavedOlder'
  <2>1. Counted' /\ TrackerBehind' /\ BrokenByTracker'
    BY <1>1, <1>2 DEF Counted, TrackerBehind, BrokenByTracker
  <2>2. SavedOlder'
    BY <1>1, <1>2 DEF SavedOlder
  <2> QED BY <2>1, <2>2
<1>9. WrittenNow'
  <2>1. \A m \in RolesOf(conf), q \in Ranks :
          SavedNow(m) => shard'[step][m][q] = step
    BY <1>1, <1>3, <1>5 DEF WrittenNow
  <2>2. \A q \in Ranks : at'[q] = "written" => shard'[step][Role][q] = step
    BY <1>1, <1>4, <1>5 DEF WrittenNow
  <2> QED BY <1>1, <1>2, <2>1, <2>2 DEF WrittenNow
<1> QED BY <1>6, <1>7, <1>8, <1>9

(* The barriers of a manager, and its return.                              *)
LEMMA ManagerSafe ==
  ASSUME StoreInv, Spares, BeginSave \/ PassBarrier \/ EndSave
  PROVE  SparesInv'
<1> USE DEF StoreInv, SparesInv
<1>1. /\ Typed /\ phase = "save" /\ step \in Steps /\ Steps \subseteq Nat
      /\ part <= Len(conf.roles) /\ part \in Nat /\ part > 0
      /\ conf.roles \in Seq(Roles)
      /\ Role \in Roles /\ Role \in RolesOf(conf)
      /\ RolesOf(conf) \subseteq Roles
  <2>1. Typed /\ phase = "save" /\ part <= Len(conf.roles)
    BY LeaderAssumption
    DEF BeginSave, PassBarrier, EndSave, Typed, RanksSave
  <2>2. step \in Steps /\ Steps \subseteq Nat /\ part \in Nat /\ part > 0
    BY <2>1 DEF Typed, StoreTypeOK, Anchored, Steps
  <2>3. /\ conf.roles \in Seq(Roles) /\ RolesOf(conf) \subseteq Roles
        /\ Role \in Roles /\ Role \in RolesOf(conf)
    BY <2>1, ConfTyped DEF Typed
  <2> QED BY <2>1, <2>2, <2>3
<1>2. /\ UNCHANGED <<conf, shard, data, tracker, phase, step, weights,
                     batches>>
      /\ RolesOf(conf)' = RolesOf(conf)
  BY DEF BeginSave, PassBarrier, EndSave, diskVars, RolesOf
<1>3. FilesByStep' /\ TrackerComplete' /\ BrokenByTracker' /\ TrackerBehind'
  <2>1. FilesByStep'
    BY <1>2 DEF FilesByStep
  <2>2. TrackerComplete'
    BY <1>2 DEF TrackerComplete, Spares, Complete
  <2>3. BrokenByTracker' /\ TrackerBehind'
    BY <1>1, <1>2 DEF BrokenByTracker, TrackerBehind
  <2> QED BY <2>1, <2>2, <2>3
<1>4. Counted'
  BY <1>1, <1>2 DEF Counted
<1>5. CASE BeginSave \/ PassBarrier
  <2>1. /\ UNCHANGED <<part, saved>> /\ Role' = Role
        /\ \A m \in Roles : SavedNow(m)' = SavedNow(m)
        /\ \A r \in Ranks : at'[r] # "written"
    BY <1>2, <1>5 DEF BeginSave, PassBarrier, Role, SavedNow
  <2>2. WrittenNow' /\ SavedOlder'
    BY <1>1, <1>2, <2>1 DEF WrittenNow, SavedOlder
  <2> QED BY <1>3, <1>4, <2>2
<1>6. CASE EndSave
  <2>1. /\ part' = part + 1 /\ \A r \in Ranks : at'[r] = "idle"
        /\ saved' = [saved EXCEPT ![Role] = Append(@, step)]
        /\ \A r \in Ranks : shard[step][Role][r] = step
    BY <1>6 DEF EndSave, Resting, WrittenNow
  <2>2. \A m \in Roles : SavedNow(m)' <=> SavedNow(m) \/ m = Role
    BY <1>1, <1>2, <2>1 DEF SavedNow, Role
  <2>3. WrittenNow'
    BY <1>1, <1>2, <2>1, <2>2 DEF WrittenNow
  <2>4. ASSUME NEW m \in RolesOf(conf), NEW i \in DOMAIN saved'[m]
        PROVE  /\ saved'[m][i] <= step
               /\ ~(SavedNow(m)') => saved'[m][i] < step
               /\ i < Len(saved'[m]) =>
                    saved'[m][i] < (IF SavedNow(m)' THEN step ELSE tracker)
    <3>1. m \in Roles /\ saved[m] \in Seq(Steps)
      BY <1>1 DEF Typed, StoreTypeOK
    <3>2. CASE m = Role
      <4>1. saved'[m] = Append(saved[m], step)
        BY <1>1, <2>1, <3>1, <3>2 DEF Typed, StoreTypeOK
      <4>2. i = Len(saved[m]) + 1 \/ i \in DOMAIN saved[m]
        BY <3>1, <4>1, <2>4
      <4>3. ~SavedNow(m) /\ SavedNow(m)'
        BY <1>1, <2>2, <3>2, ConfTyped DEF SavedNow, Role, Typed
      <4>4. CASE i \in DOMAIN saved[m]
        <5>1. saved'[m][i] = saved[m][i] /\ saved[m][i] < step
          BY <1>1, <3>1, <4>1, <4>3, <4>4 DEF SavedOlder
        <5>2. saved[m][i] \in Nat
          BY <3>1, <4>4, SavedTyped DEF Typed
        <5> QED BY <1>1, <4>3, <5>1, <5>2
      <4>5. CASE i = Len(saved[m]) + 1
        BY <1>1, <3>1, <4>1, <4>3, <4>5
      <4> QED BY <4>2, <4>4, <4>5
    <3>3. CASE m # Role
      <4>1. saved'[m] = saved[m]
        BY <1>1, <2>1, <3>1, <3>3 DEF Typed, StoreTypeOK
      <4>2. SavedNow(m)' <=> SavedNow(m)
        BY <2>2, <3>1, <3>3
      <4> QED BY <1>1, <2>4, <4>1, <4>2 DEF SavedOlder
    <3> QED BY <3>2, <3>3
  <2>5. SavedOlder'
    BY <1>1, <1>2, <2>4 DEF SavedOlder
  <2> QED BY <1>3, <1>4, <2>3, <2>5
<1> QED BY <1>5, <1>6

(* The data loader's state, then the tracker, when every model is saved.   *)
LEMMA RestSafe ==
  ASSUME StoreInv, Spares, SaveRest
  PROVE  SparesInv'
<1> USE DEF StoreInv, SparesInv
<1>1. /\ Typed /\ phase \in {"save", "data", "tracker"}
      /\ step \in Steps /\ Steps \subseteq Nat /\ tracker \in Int
      /\ conf.roles \in Seq(Roles) /\ RolesOf(conf) \subseteq Roles
      /\ tracker < step
  <2>1. Typed /\ phase \in {"save", "data", "tracker"}
    BY DEF SaveRest, OpenData, WriteData, OpenTracker, WriteTracker
  <2>2. step \in Steps /\ Steps \subseteq Nat /\ tracker \in Int
    BY <2>1 DEF Typed, StoreTypeOK, Anchored, Steps, Absent, Torn
  <2> QED BY <2>1, <2>2, ConfTyped DEF Typed, TrackerBehind
<1>2. /\ UNCHANGED <<conf, shard, at, step, weights, batches, saved>>
      /\ RolesOf(conf)' = RolesOf(conf)
  BY DEF SaveRest, OpenData, WriteData, OpenTracker, WriteTracker, jobVars,
     RolesOf
<1>0. /\ phase = "save" => part > Len(conf.roles)
      /\ part \in Nat /\ Len(conf.roles) \in Nat
      /\ DOMAIN conf.roles = 1..Len(conf.roles)
  BY <1>1
  DEF SaveRest, OpenData, WriteData, OpenTracker, WriteTracker, Typed,
      StoreTypeOK
<1>3. \A m \in RolesOf(conf) : SavedNow(m)
  BY <1>1, <1>0 DEF SavedNow, RolesOf
<1>4. \A m \in RolesOf(conf), r \in Ranks :
         weights[m][r] = step /\ shard[step][m][r] = step
  BY <1>1, <1>3 DEF Counted, WrittenNow
<1>5. \A r \in Ranks : at[r] = "idle"
  BY <1>1, <1>0 DEF Typed, RanksSave
<1>6. batches = step
  BY <1>1 DEF Counted
<1>7. ASSUME NEW m \in RolesOf(conf), NEW i \in DOMAIN saved[m]
      PROVE  /\ saved[m][i] <= step
             /\ i < Len(saved[m]) => saved[m][i] < step
  BY <1>3, <1>7 DEF SavedOlder
<1>8. CASE OpenData \/ WriteData
  <2>1. /\ tracker' = tracker /\ phase' \in {"data", "tracker"}
        /\ \A s \in Steps : s # step => data'[s] = data[s]
        /\ data'[step] \in {Torn, step}
        /\ phase' = "tracker" => data'[step] = step
    BY <1>1, <1>6, <1>8 DEF OpenData, WriteData, Typed, StoreTypeOK
  <2>2. \A m : SavedNow(m)'
    BY <2>1 DEF SavedNow
  <2>3. FilesByStep'
    BY <1>2, <2>1 DEF FilesByStep
  <2>4. TrackerComplete'
    BY <1>1, <1>2, <2>1 DEF TrackerComplete, Spares, Complete
  <2>5. Counted' /\ TrackerBehind' /\ BrokenByTracker'
    BY <1>1, <1>2, <1>4, <1>6, <2>1
    DEF Counted, TrackerBehind, BrokenByTracker
  <2>6. WrittenNow'
    BY <1>2, <1>4, <1>5, <2>1 DEF WrittenNow
  <2>7. SavedOlder'
    BY <1>2, <1>7, <2>1, <2>2 DEF SavedOlder
  <2> QED BY <2>3, <2>4, <2>5, <2>6, <2>7
<1>9. CASE OpenTracker
  <2>1. /\ tracker' = Torn /\ phase' = "tracker" /\ phase = "tracker"
        /\ data' = data /\ data[step] = step /\ Torn \notin Steps
        /\ Torn < step
    BY <1>1, <1>9 DEF OpenTracker, jobVars, WrittenNow, Torn, Steps
  <2>2. \A m : SavedNow(m)'
    BY <2>1 DEF SavedNow
  <2>3. FilesByStep'
    BY <1>2, <2>1 DEF FilesByStep
  <2>4. TrackerComplete'
    BY <2>1 DEF TrackerComplete
  <2>5. Counted' /\ TrackerBehind' /\ BrokenByTracker'
    BY <1>1, <1>2, <1>4, <1>6, <2>1
    DEF Counted, TrackerBehind, BrokenByTracker
  <2>6. WrittenNow'
    BY <1>2, <1>4, <1>5, <2>1 DEF WrittenNow
  <2>7. SavedOlder'
    BY <1>2, <1>7, <2>1, <2>2 DEF SavedOlder
  <2> QED BY <2>3, <2>4, <2>5, <2>6, <2>7
<1>10. CASE WriteTracker
  <2>1. /\ tracker' = step /\ phase' \in {"train", "done"} /\ part' = 1
        /\ phase = "tracker" /\ data' = data /\ data[step] = step
    BY <1>1, <1>10 DEF WriteTracker, WrittenNow
  <2>2. \A m : ~(SavedNow(m)')
    BY <2>1 DEF SavedNow
  <2>3. FilesByStep'
    BY <1>2, <2>1 DEF FilesByStep
  <2>4. TrackerComplete'
    BY <1>2, <1>4, <2>1 DEF TrackerComplete, Complete
  <2>5. Counted' /\ TrackerBehind' /\ BrokenByTracker'
    BY <1>1, <1>2, <1>4, <1>6, <2>1
    DEF Counted, TrackerBehind, BrokenByTracker
  <2>6. WrittenNow'
    BY <1>2, <1>5, <2>1, <2>2 DEF WrittenNow
  <2>7. SavedOlder'
    BY <1>2, <1>7, <2>1, <2>2 DEF SavedOlder
  <2> QED BY <2>3, <2>4, <2>5, <2>6, <2>7
<1> QED BY <1>8, <1>9, <1>10 DEF SaveRest

(* A death leaves the disk as it is, and the next process knows nothing.   *)
LEMMA CrashSafe ==
  ASSUME StoreInv, Spares, Crash
  PROVE  SparesInv'
<1> USE DEF StoreInv, SparesInv
<1>1. /\ UNCHANGED <<conf, shard, data, tracker>>
      /\ RolesOf(conf)' = RolesOf(conf) /\ RolesOf(conf) \subseteq Roles
      /\ phase' = "find" /\ part' = 1 /\ step' = 0 /\ batches' = 0
      /\ \A r \in Ranks : at'[r] = "idle"
      /\ \A m \in Roles, r \in Ranks : weights'[m][r] = 0
      /\ \A m \in Roles : saved'[m] = << >>
  BY ConfTyped DEF Crash, diskVars, RolesOf, Resting, Typed
<1>2. FilesByStep'
  BY <1>1 DEF FilesByStep
<1>3. TrackerComplete'
  BY <1>1 DEF TrackerComplete, Spares, Complete
<1>4. Counted' /\ TrackerBehind' /\ BrokenByTracker'
  BY <1>1 DEF Counted, TrackerBehind, BrokenByTracker
<1>5. WrittenNow' /\ SavedOlder'
  BY <1>1 DEF WrittenNow, SavedOlder, SavedNow
<1> QED BY <1>2, <1>3, <1>4, <1>5

(* A step that changes nothing. *)
LEMMA StutterSafe ==
  ASSUME StoreInv, Spares, UNCHANGED vars
  PROVE  SparesInv'
<1> QED
  BY DEF StoreInv, SparesInv, vars, diskVars, jobVars, FilesByStep, Counted,
     TrackerBehind, WrittenNow, SavedOlder, SavedNow, TrackerComplete,
     BrokenByTracker, Spares, Complete, RolesOf, Role

-----------------------------------------------------------------------------
(* Theorems *)

(* The inductive invariant of the checkpoints: files, counters and what    *)
(* the managers remember fit together in every reachable state             *)
(* (save_checkpoint and load_checkpoint of managers and drivers).          *)
THEOREM StoreInvariance == Spec => []StoreInv
<1>1. Init => StoreInv
  BY TypeInit, SparesInit DEF StoreInv
<1>2. StoreInv /\ [Next]_vars => StoreInv'
  <2> SUFFICES ASSUME StoreInv, [Next]_vars PROVE StoreInv'
    OBVIOUS
  <2>1. Typed'
    BY TypeNext DEF StoreInv
  <2>2. Spares' => Spares
    BY DEF Next, Work, Resume, FindLatest, LoadModel, LoadData, Train,
       SaveModel, BeginSave, Rotate, TearOutdated, RemoveOutdated,
       NothingOutdated, PassBarrier, EndSave, OpenShard, WriteShard, SaveRest,
       OpenData, WriteData, OpenTracker, WriteTracker, Crash, vars, Spares,
       RolesOf
  <2>3. ASSUME Spares PROVE SparesInv'
    BY <2>3, ResumeSafe, TrainSafe, RotateSafe, WriteSafe, ManagerSafe,
       RestSafe, CrashSafe, StutterSafe
    DEF Next, Work, SaveModel
  <2> QED BY <2>1, <2>2, <2>3 DEF StoreInv
<1> QED BY <1>1, <1>2, PTL DEF Spec

(* Everything has its type, and ranks are in a manager only while the      *)
(* driver saves.                                                           *)
THEOREM StoreTypeCorrect == Spec => []StoreTypeOK
<1>1. StoreInv => StoreTypeOK
  BY DEF StoreInv, Typed
<1> QED BY <1>1, StoreInvariance, PTL

(* Whenever the job dies, the checkpoint the tracker names is whole, for   *)
(* any number of kept checkpoints above one (_save_checkpoint and          *)
(* save_checkpoint of the managers).                                       *)
THEOREM TrackerNamesWhole == Spec => []TrackerComplete
<1>1. StoreInv => TrackerComplete
  BY DEF StoreInv, SparesInv, TrackerComplete
<1> QED BY <1>1, StoreInvariance, PTL

(* However often a job died and resumed, its shards, its models and its    *)
(* data loader are at the same step (load_checkpoint).                     *)
THEOREM ResumeConsistency == Spec => []ResumesConsistent
<1>1. StoreInv => ResumesConsistent
  BY DEF StoreInv, SparesInv, ResumesConsistent, Counted
<1> QED BY <1>1, StoreInvariance, PTL

(* Only a tracker cut short keeps a job from starting again                *)
(* (find_latest_ckpt_path).                                                *)
THEOREM OnlyTrackerBreaks == Spec => []BrokenByTracker
<1>1. StoreInv => BrokenByTracker
  BY DEF StoreInv, SparesInv, BrokenByTracker
<1> QED BY <1>1, StoreInvariance, PTL
-----------------------------------------------------------------------------
(* What is kept                                                            *)

OnDisk(m) == {s \in Steps : \E r \in Ranks : shard[s][m][r] # Absent}
Known(m) == {saved[m][i] : i \in DOMAIN saved[m]}

(* Rank 0 has made room for the current step, which may have a file.       *)
Writing(m) ==
    /\ phase = "save" /\ part <= Len(conf.roles) /\ m = Role
    /\ at[Leader] \in {"barrier", "open", "write", "written"}

(* No rank opens its file before rank 0 is through with the rotation.      *)
LeaderFirst ==
    \A r \in Ranks :
      at[r] \in {"open", "write", "written"}
        => at[Leader] \in {"open", "write", "written"}

(* The folders of a model are the ones rank 0 remembers, the one being     *)
(* written, and some set old of folders left by the lives before.          *)
KeptBut(m, old) ==
    /\ Cardinality(old) <= conf.keep[m] * crashes
    /\ OnDisk(m) \subseteq
         old \cup Known(m) \cup (IF Writing(m) THEN {step} ELSE {})
    /\ Len(saved[m]) + (IF Writing(m) THEN 1 ELSE 0) <= conf.keep[m]

KeptByLife ==
    \A m \in RolesOf(conf) : conf.keep[m] > 0 =>
      \E old \in SUBSET Steps : KeptBut(m, old)

KeptInv == Typed /\ LeaderFirst /\ KeptByLife

(* There are finitely many steps. *)
LEMMA StepsFinite == IsFiniteSet(Steps)
<1>1. LastStep \in Nat
  BY StepsAssumption DEF LastStep
<1> QED BY <1>1, FS_Interval DEF Steps

(* A manager remembers no more folders than it has paths.                  *)
LEMMA KnownCounted ==
  ASSUME StoreTypeOK, NEW m \in Roles
  PROVE  /\ IsFiniteSet(Known(m))
         /\ Cardinality(Known(m)) <= Len(saved[m])
<1> DEFINE n == Len(saved[m])
<1>1. saved[m] \in Seq(Steps) /\ n \in Nat /\ DOMAIN saved[m] = 1..n
  BY DEF StoreTypeOK
<1>2. saved[m] \in Surjection(1..n, Known(m))
  BY <1>1 DEF Surjection, Known
<1>3. IsFiniteSet(1..n) /\ Cardinality(1..n) = n
  BY <1>1, FS_Interval
<1> HIDE DEF n
<1>4. IsFiniteSet(Known(m)) /\ Cardinality(Known(m)) <= Cardinality(1..n)
  BY <1>2, <1>3, FS_Surjection
<1> QED BY <1>3, <1>4 DEF n

(* A life adds at most as many folders as are to be kept.                  *)
LEMMA LifeCounted ==
  ASSUME StoreTypeOK, NEW m \in RolesOf(conf), conf.keep[m] > 0,
         NEW old \in SUBSET Steps, KeptBut(m, old)
  PROVE  Cardinality(OnDisk(m)) <= conf.keep[m] * (crashes + 1)
<1> DEFINE now == IF Writing(m) THEN {step} ELSE {}
           held == Known(m) \cup now
<1>1. /\ m \in Roles /\ conf.keep[m] \in Nat /\ crashes \in Nat
      /\ Len(saved[m]) \in Nat
  BY ConfTyped, StepsAssumption DEF StoreTypeOK
<1>2. /\ IsFiniteSet(Known(m)) /\ Cardinality(Known(m)) \in Nat
      /\ Cardinality(Known(m)) <= Len(saved[m])
  BY <1>1, KnownCounted, FS_CardinalityType
<1>3. IsFiniteSet(held) /\ Cardinality(held) \in Nat
      /\ Cardinality(held) <= conf.keep[m]
  <2>1. CASE Writing(m)
    <3>1. held = Known(m) \cup {step}
      BY <2>1
    <3>2. /\ IsFiniteSet(held) /\ Cardinality(held) \in Nat
          /\ Cardinality(held) <= Cardinality(Known(m)) + 1
      <4>1. /\ IsFiniteSet(held)
            /\ Cardinality(held) = IF step \in Known(m)
                                   THEN Cardinality(Known(m))
                                   ELSE Cardinality(Known(m)) + 1
        BY <3>1, <1>2, FS_AddElement
      <4> QED BY <1>2, <4>1
    <3> HIDE DEF held, now
    <3> QED BY <2>1, <3>2, <1>1, <1>2 DEF KeptBut
  <2>2. CASE ~Writing(m)
    BY <2>2, <1>1, <1>2 DEF KeptBut
  <2> QED BY <2>1, <2>2
<1>4. IsFiniteSet(old) /\ Cardinality(old) \in Nat
  BY StepsFinite, FS_Subset, FS_CardinalityType
<1>5. /\ OnDisk(m) \subseteq old \cup held
      /\ Cardinality(old) <= conf.keep[m] * crashes
  BY DEF KeptBut
<1> HIDE DEF held
<1>6. /\ IsFiniteSet(old \cup held) /\ Cardinality(old \cup held) \in Nat
      /\ IsFiniteSet(old \cap held) /\ Cardinality(old \cap held) \in Nat
      /\ Cardinality(old \cup held)
           = Cardinality(old) + Cardinality(held) - Cardinality(old \cap held)
  BY <1>3, <1>4, FS_Union, FS_Intersection, FS_CardinalityType
<1>7. /\ Cardinality(OnDisk(m)) <= Cardinality(old \cup held)
      /\ Cardinality(OnDisk(m)) \in Nat
  BY <1>5, <1>6, FS_Subset, FS_CardinalityType
<1> DEFINE before == conf.keep[m] * crashes
<1>8. /\ before \in Nat
      /\ conf.keep[m] * (crashes + 1) = before + conf.keep[m]
  BY <1>1
<1>9. Cardinality(old) <= before
  BY <1>5
<1> HIDE DEF before
<1>10. Cardinality(OnDisk(m)) <= before + conf.keep[m]
  BY <1>1, <1>3, <1>4, <1>6, <1>7, <1>8, <1>9
<1> QED BY <1>8, <1>10

(* At first nothing is kept. *)
LEMMA KeptInit == Init => LeaderFirst /\ KeptByLife
<1> SUFFICES ASSUME Init PROVE LeaderFirst /\ KeptByLife
  OBVIOUS
<1>1. StoreTypeOK
  BY TypeInit DEF Typed
<1>2. LeaderFirst
  BY DEF Init, Fresh, Resting, LeaderFirst
<1>3. ASSUME NEW m \in RolesOf(conf), conf.keep[m] > 0
      PROVE  KeptBut(m, {})
  <2>1. m \in Roles /\ conf.keep[m] \in Nat
    BY <1>1, ConfTyped
  <2>2. OnDisk(m) = {} /\ ~Writing(m) /\ Len(saved[m]) = 0
    BY <2>1 DEF Init, Fresh, OnDisk, Writing
  <2> QED BY <1>3, <2>1, <2>2, FS_EmptySet DEF KeptBut, Init
<1> QED BY <1>2, <1>3 DEF KeptByLife

(* Rank 0 goes first.                                                      *)
LEMMA LeaderNext == Typed /\ LeaderFirst /\ [Next]_vars => LeaderFirst'
<1> SUFFICES ASSUME Typed, LeaderFirst, [Next]_vars PROVE LeaderFirst'
  OBVIOUS
<1> USE LeaderAssumption DEF LeaderFirst
<1>1. at \in [Ranks -> {"idle", "rotate", "remove", "barrier", "open",
                        "write", "written"}]
  BY DEF Typed, StoreTypeOK
<1>2. CASE Crash \/ BeginSave \/ EndSave \/ PassBarrier
  BY <1>2 DEF Crash, BeginSave, EndSave, PassBarrier, Resting
<1>3. CASE Rotate
  BY <1>1, <1>3 DEF Rotate, TearOutdated, RemoveOutdated, NothingOutdated
<1>4. ASSUME NEW r \in Ranks, OpenShard(r) \/ WriteShard(r)
      PROVE  LeaderFirst'
  BY <1>1, <1>4 DEF OpenShard, WriteShard
<1>5. CASE Resume \/ Train \/ SaveRest \/ UNCHANGED vars
  BY <1>5 DEF Resume, FindLatest, LoadModel, LoadData, Train, SaveRest,
              OpenData, WriteData, OpenTracker, WriteTracker, vars, jobVars
<1> QED BY <1>2, <1>3, <1>4, <1>5 DEF Next, Work, SaveModel

(* A step that leaves the files, what is remembered and rank 0 alone.      *)
LEMMA KeptStays ==
  ASSUME NEW m, NEW old, KeptBut(m, old), UNCHANGED <<conf, shard, saved>>,
         crashes' = crashes, Writing(m)' <=> Writing(m),
         Writing(m) => step' = step
  PROVE  KeptBut(m, old)'
BY DEF KeptBut, OnDisk, Known

(* Rotation makes room: what it removes is gone from the disk and from     *)
(* what is remembered.                                                     *)
LEMMA KeptRotate ==
  ASSUME Typed, Rotate, NEW m \in RolesOf(conf), conf.keep[m] > 0,
         NEW old \in SUBSET Steps, KeptBut(m, old)
  PROVE  KeptBut(m, old)'
<1>1. /\ m \in Roles /\ conf.keep[m] \in Nat /\ Len(saved[m]) \in Nat
      /\ saved[m] \in Seq(Steps) /\ saved \in [Roles -> Seq(Steps)]
      /\ Leader \in Ranks /\ at[Leader] \in {"rotate", "remove"}
      /\ phase = "save" /\ part <= Len(conf.roles) /\ Role \in Roles
      /\ UNCHANGED <<conf, phase, part, step, crashes>> /\ Role' = Role
      /\ at \in [Ranks -> {"idle", "rotate", "remove", "barrier", "open",
                           "write", "written"}]
  <2>1. /\ m \in Roles /\ conf.keep[m] \in Nat
        /\ part <= Len(conf.roles) => Role \in Roles
    BY ConfTyped DEF Typed
  <2>2. /\ at[Leader] \in {"rotate", "remove"}
        /\ UNCHANGED <<conf, phase, part, step, crashes>>
    BY DEF Rotate, TearOutdated, RemoveOutdated, NothingOutdated, diskVars
  <2> QED
    BY <2>1, <2>2, LeaderAssumption DEF Typed, StoreTypeOK, RanksSave, Role
<1>2. ~Writing(m)
  BY <1>1 DEF Writing
<1>3. CASE TearOutdated
  <2>1. ~Writing(m)' /\ saved' = saved
    BY <1>1, <1>3 DEF Writing, TearOutdated
  <2>2. OnDisk(m)' \subseteq OnDisk(m) \cup Known(m)
    <3> SUFFICES ASSUME NEW s \in Steps, NEW r \in Ranks,
                        shard'[s][m][r] # Absent, s \notin Known(m)
                 PROVE  shard[s][m][r] # Absent
      BY DEF OnDisk
    <3>1. CASE m = Role
      <4>1. s \notin Outdated(Role)
        BY <1>1, <3>1, ExcessBounded DEF Typed, Outdated, Known
      <4> QED BY <1>3, <4>1 DEF TearOutdated
    <3>2. CASE m # Role
      BY <1>1, <1>3, <3>2 DEF TearOutdated, Left
    <3> QED BY <3>1, <3>2
  <2> QED BY <1>1, <1>2, <2>1, <2>2 DEF KeptBut, Known
<1>4. CASE RemoveOutdated
  <2>1. CASE m # Role
    <3>1. OnDisk(m)' = OnDisk(m) /\ saved'[m] = saved[m] /\ ~Writing(m)'
      <4>1. \A s \in Steps : shard'[s][m] = shard[s][m]
        BY <1>1, <1>4, <2>1 DEF RemoveOutdated, Left
      <4> QED BY <1>1, <1>4, <2>1, <4>1 DEF RemoveOutdated, OnDisk, Writing
    <3> QED BY <1>1, <1>2, <3>1 DEF KeptBut, Known
  <2>2. CASE m = Role
    <3> DEFINE e == Excess(m)
               rest == SubSeq(saved[m], e + 1, Len(saved[m]))
    <3>1. /\ rest \in Seq(Steps) /\ Len(rest) = Len(saved[m]) - e
          /\ \A i \in 1..Len(rest) : rest[i] = saved[m][e + i]
          /\ e \in 0..Len(saved[m])
      BY <1>1, RestTyped, ExcessBounded DEF Typed
    <3>2. saved'[m] = rest
      BY <1>1, <1>4, <2>2 DEF RemoveOutdated
    <3>3. Len(saved[m]) - e < conf.keep[m]
      BY <1>1 DEF Excess
    <3> HIDE DEF rest, e
    <3>4. Len(saved'[m]) + 1 <= conf.keep[m]
      BY <1>1, <3>1, <3>2, <3>3
    <3>5. Known(m) \subseteq Known(m)' \cup Outdated(m)
      <4> SUFFICES ASSUME NEW i \in DOMAIN saved[m]
                   PROVE  saved[m][i] \in Known(m)' \cup Outdated(m)
        BY DEF Known
      <4>1. CASE i <= e
        BY <1>1, <4>1 DEF Outdated, e
      <4>2. CASE ~(i <= e)
        <5>1. i - e \in 1..Len(rest) /\ rest[i - e] = saved[m][i]
          BY <1>1, <3>1, <4>2
        <5>2. i - e \in DOMAIN saved'[m]
          BY <3>1, <3>2, <5>1
        <5> QED BY <3>2, <5>1, <5>2 DEF Known
      <4> QED BY <4>1, <4>2
    <3>6. OnDisk(m)' \subseteq OnDisk(m) \ Outdated(m)
      BY <1>1, <1>4, <2>2 DEF RemoveOutdated, Left, OnDisk
    <3>7. OnDisk(m)' \subseteq old \cup Known(m)'
      BY <1>2, <3>5, <3>6 DEF KeptBut
    <3> QED BY <1>1, <3>1, <3>2, <3>4, <3>7 DEF KeptBut
  <2> QED BY <2>1, <2>2
<1>5. CASE NothingOutdated
  <2>1. /\ UNCHANGED <<shard, saved>>
        /\ Outdated(Role) = {} /\ at[Leader] = "rotate"
    BY <1>5 DEF NothingOutdated, diskVars
  <2>2. CASE m # Role
    BY <1>1, <1>2, <2>1, <2>2, KeptStays DEF Writing
  <2>3. CASE m = Role
    <3>1. Len(saved[m]) < conf.keep[m]
      <4> SUFFICES ASSUME ~(Len(saved[m]) < conf.keep[m]) PROVE FALSE
        OBVIOUS
      <4>1. 1 \in 1..Excess(m)
        BY <1>1 DEF Excess
      <4> QED BY <2>1, <2>3, <4>1 DEF Outdated
    <3> QED BY <1>1, <1>2, <2>1, <3>1 DEF KeptBut, OnDisk, Known
  <2> QED BY <2>2, <2>3
<1> QED BY <1>3, <1>4, <1>5 DEF Rotate

(* The files of the current step, one at a time, and the path of the step. *)
LEMMA KeptWrite ==
  ASSUME Typed, LeaderFirst, NEW m \in RolesOf(conf), conf.keep[m] > 0,
         NEW old \in SUBSET Steps, KeptBut(m, old),
         EndSave \/ \E r \in Ranks : OpenShard(r) \/ WriteShard(r)
  PROVE  KeptBut(m, old)'
<1>1. /\ m \in Roles /\ conf.keep[m] \in Nat /\ Len(saved[m]) \in Nat
      /\ saved[m] \in Seq(Steps) /\ saved \in [Roles -> Seq(Steps)]
      /\ Leader \in Ranks /\ step \in Steps
      /\ phase = "save" /\ part <= Len(conf.roles) /\ Role \in Roles
      /\ UNCHANGED <<conf, phase, step, crashes>>
      /\ at \in [Ranks -> {"idle", "rotate", "remove", "barrier", "open",
                           "write", "written"}]
      /\ shard \in [Steps -> [Roles -> [Ranks -> Contents]]]
      /\ at[Leader] \in {"open", "write", "written"}
  <2>1. /\ m \in Roles /\ conf.keep[m] \in Nat
        /\ part <= Len(conf.roles) => Role \in Roles
    BY ConfTyped DEF Typed
  <2>2. /\ at[Leader] \in {"open", "write", "written"}
        /\ UNCHANGED <<conf, phase, step, crashes>>
    BY LeaderAssumption DEF EndSave, OpenShard, WriteShard, LeaderFirst, diskVars
  <2> QED
    BY <2>1, <2>2, LeaderAssumption
    DEF Typed, StoreTypeOK, RanksSave, Anchored
<1>2. Writing(m) <=> m = Role
  BY <1>1 DEF Writing
<1>3. CASE EndSave
  <2>1. shard' = shard /\ ~Writing(m)'
    BY <1>1, <1>3 DEF EndSave, Writing, Resting, diskVars
  <2>2. CASE m # Role
    BY <1>1, <1>2, <1>3, <2>1, <2>2 DEF EndSave, KeptBut, OnDisk, Known
  <2>3. CASE m = Role
    <3>1. saved'[m] = Append(saved[m], step)
      BY <1>1, <1>3, <2>3 DEF EndSave
    <3>2. Len(saved'[m]) = Len(saved[m]) + 1
          /\ Known(m)' = Known(m) \cup {step}
      <4>1. /\ Len(Append(saved[m], step)) = Len(saved[m]) + 1
            /\ DOMAIN Append(saved[m], step) = 1..(Len(saved[m]) + 1)
            /\ \A i \in 1..Len(saved[m]) :
                  Append(saved[m], step)[i] = saved[m][i]
            /\ Append(saved[m], step)[Len(saved[m]) + 1] = step
        BY <1>1, AppendProperties
      <4> DEFINE t == Append(saved[m], step)
                 n == Len(saved[m])
      <4>2. /\ DOMAIN saved[m] = 1..n /\ DOMAIN t = 1..n + 1 /\ n \in Nat
            /\ \A i \in 1..n : t[i] = saved[m][i]
            /\ t[n + 1] = step
        BY <1>1, <4>1
      <4> HIDE DEF t, n
      <4>3. {t[i] : i \in DOMAIN t} = {saved[m][i] : i \in DOMAIN saved[m]} \cup {step}
        BY <4>2
      <4> QED BY <3>1, <4>1, <4>3 DEF Known, t
    <3> QED BY <1>1, <1>2, <2>1, <2>3, <3>2 DEF KeptBut, OnDisk
  <2> QED BY <2>2, <2>3
<1>4. ASSUME NEW r \in Ranks, OpenShard(r) \/ WriteShard(r)
      PROVE  KeptBut(m, old)'
  <2>1. /\ saved' = saved /\ part' = part /\ Role' = Role
        /\ \E c : shard' = [shard EXCEPT ![step][Role][r] = c]
    BY <1>4 DEF OpenShard, WriteShard, Write, Role
  <2>2. at'[Leader] \in {"open", "write", "written"}
    BY <1>1, <1>4 DEF OpenShard, WriteShard
  <2>3. Writing(m)' <=> m = Role
    BY <1>1, <2>1, <2>2 DEF Writing
  <2>4. OnDisk(m)' \subseteq OnDisk(m) \cup (IF m = Role THEN {step} ELSE {})
    BY <1>1, <2>1 DEF OnDisk
  <2> QED BY <1>1, <1>2, <2>1, <2>3, <2>4 DEF KeptBut, Known
<1> QED BY <1>3, <1>4

(* A life of the job keeps what it should, and its death leaves that to    *)
(* the next.                                                               *)
LEMMA KeptNext == KeptInv /\ [Next]_vars => KeptInv'
<1> SUFFICES ASSUME KeptInv, [Next]_vars PROVE KeptInv'
  OBVIOUS
<1>1. Typed /\ LeaderFirst /\ KeptByLife /\ Typed' /\ LeaderFirst'
  BY TypeNext, LeaderNext DEF KeptInv
<1>2. conf' = conf /\ RolesOf(conf)' = RolesOf(conf)
  BY DEF Next, Work, Resume, FindLatest, LoadModel, LoadData, Train,
     SaveModel, BeginSave, Rotate, TearOutdated, RemoveOutdated,
     NothingOutdated, PassBarrier, EndSave, OpenShard, WriteShard, SaveRest,
     OpenData, WriteData, OpenTracker, WriteTracker, Crash, vars, RolesOf
<1>3. ASSUME NEW m \in RolesOf(conf), conf.keep[m] > 0
      PROVE  \E old \in SUBSET Steps : KeptBut(m, old)'
  <2>1. PICK old \in SUBSET Steps : KeptBut(m, old)
    BY <1>1, <1>3 DEF KeptByLife
  <2>2. CASE Rotate
    BY <1>1, <1>3, <2>1, <2>2, KeptRotate
  <2>3. CASE EndSave \/ \E r \in Ranks : OpenShard(r) \/ WriteShard(r)
    BY <1>1, <1>3, <2>1, <2>3, KeptWrite
  <2>4. CASE BeginSave \/ PassBarrier
    <3>1. /\ UNCHANGED <<conf, shard, saved, phase, part, step>>
          /\ crashes' = crashes /\ Role' = Role
      BY <2>4 DEF BeginSave, PassBarrier, diskVars, Role
    <3>2. Writing(m)' <=> Writing(m)
      BY <2>4, <3>1, LeaderAssumption
      DEF BeginSave, PassBarrier, Writing, Resting
    <3> QED BY <2>1, <3>1, <3>2, KeptStays
  <2>5. CASE Resume \/ Train \/ SaveRest
    <3>1. UNCHANGED <<conf, shard, saved, crashes>> /\ at' = at
          /\ (phase = "save" => part > Len(conf.roles))
      BY <2>5
      DEF Resume, FindLatest, LoadModel, LoadData, Train, SaveRest,
          OpenData, WriteData, OpenTracker, WriteTracker, jobVars, diskVars
    <3>2. at[Leader] = "idle"
      BY <1>1, <3>1, LeaderAssumption, ConfTyped
      DEF Typed, RanksSave, StoreTypeOK
    <3>3. ~Writing(m) /\ ~Writing(m)'
      BY <3>1, <3>2 DEF Writing
    <3> QED BY <2>1, <3>1, <3>3, KeptStays
  <2>6. CASE UNCHANGED vars
    BY <2>1, <2>6, KeptStays DEF vars, diskVars, jobVars, Writing, Role
  <2>7. CASE Crash
    <3>1. /\ UNCHANGED <<conf, shard>> /\ crashes' = crashes + 1
          /\ at'[Leader] = "idle" /\ m \in Roles /\ saved'[m] = << >>
      BY <1>1, <2>7, LeaderAssumption, ConfTyped
      DEF Crash, diskVars, Resting, Typed
    <3>2. OnDisk(m) \in SUBSET Steps /\ OnDisk(m)' = OnDisk(m)
      BY <3>1 DEF OnDisk
    <3>3. Cardinality(OnDisk(m)) <= conf.keep[m] * (crashes + 1)
      BY <1>1, <1>3, <2>1, LifeCounted DEF Typed
    <3>4. ~Writing(m)' /\ Len(saved'[m]) = 0
      BY <3>1 DEF Writing
    <3>5. conf.keep[m] \in Nat
      BY <1>1, <3>1, ConfTyped DEF Typed
    <3> DEFINE left == OnDisk(m)
    <3>6. left \in SUBSET Steps /\ OnDisk(m)' \subseteq left
          /\ Cardinality(left) <= conf.keep[m] * (crashes + 1)
      BY <3>2, <3>3
    <3> HIDE DEF left
    <3>7. PICK set \in SUBSET Steps :
             /\ OnDisk(m)' \subseteq set
             /\ Cardinality(set) <= conf.keep[m] * (crashes + 1)
      BY <3>6
    <3>8. KeptBut(m, set)'
      BY <3>1, <3>4, <3>5, <3>7 DEF KeptBut
    <3> QED BY <3>7, <3>8
  <2> QED
    BY <2>2, <2>3, <2>4, <2>5, <2>6, <2>7 DEF Next, Work, SaveModel
<1>4. KeptByLife'
  BY <1>2, <1>3 DEF KeptByLife
<1> QED BY <1>1, <1>4 DEF KeptInv

(* What is kept is bounded for each life of the job, for any number of     *)
(* lives and whatever is to be kept (max_ckpt_to_keep of the managers).    *)
THEOREM KeptBounded == Spec => []StoreBounded
<1>1. Init => KeptInv
  BY TypeInit, KeptInit DEF KeptInv
<1>2. KeptInv => StoreBounded
  BY LifeCounted DEF KeptInv, Typed, KeptByLife, StoreBounded, OnDisk
<1> QED BY <1>1, <1>2, KeptNext, PTL DEF Spec
=============================================================================
