-------------------------- MODULE DrafterData_proofs --------------------------
(***************************************************************************)
(* Proofs about the drafter's data, for any workers, intervals, windows,   *)
(* capacities, faults and numbers of batches and restarts.                 *)
(***************************************************************************)
EXTENDS DrafterData, SequenceTheorems, TLAPS

-----------------------------------------------------------------------------
(* The inductive invariant *)

Sample == [step : Nat, policy : Nat]

(* The types, without the bounds that follow from the counters.            *)
DataShape ==
  /\ global \in Nat \ {0} /\ saved \in Nat /\ policy \in Nat /\ phase \in Phase
  /\ rlStep \in [Workers -> Nat] /\ bufStep \in [Workers -> Nat]
  /\ buffer \in [Workers -> Seq(Sample)]
  /\ training \subseteq Workers
  /\ sessions \in [Workers -> 0..2]
  /\ restarts \in 0..MaxRestarts

(* An update counts before the driver's step does.                         *)
Ahead == IF phase = "validate" THEN 1 ELSE 0

(* No counter is ahead of the driver's, and every life of the job adds at  *)
(* most MaxGlobal updates.                                                 *)
CountersBounded ==
  /\ global <= MaxGlobal + 1
  /\ phase # "stopped" => global <= MaxGlobal
  /\ saved <= MaxGlobal
  /\ \A w \in Workers : rlStep[w] < global /\ bufStep[w] <= rlStep[w]
  /\ policy < MaxGlobal * restarts + global + Ahead

(* A sample is as many updates old as its buffer has seen steps since.     *)
SamplesAge ==
  \A w \in Workers :
    /\ Len(buffer[w]) <= Capacity
    /\ \A i \in DOMAIN buffer[w] :
         /\ buffer[w][i].step <= bufStep[w]
         /\ buffer[w][i].policy <= policy
         /\ policy + buffer[w][i].step
              <= bufStep[w] + buffer[w][i].policy + Ahead

(* The newest sample of w carries at least this step.                      *)
NewestSince(w, n) ==
  buffer[w] # << >> /\ buffer[w][Len(buffer[w])].step >= n

(* Unless a cleanup has restarted the buffer's step, what was collected    *)
(* for the next session is in the buffer.                                  *)
CollectedInTime ==
  \A w \in Workers :
    /\ phase \in {"finish", "learn", "validate"}
         /\ ShouldCollect(w) /\ bufStep[w] >= 1 => NewestSince(w, bufStep[w])
    /\ ShouldTrain(w) /\ bufStep[w] >= 2 => NewestSince(w, bufStep[w] - 1)

DataInv == DataShape /\ CountersBounded /\ SamplesAge /\ CollectedInTime

-----------------------------------------------------------------------------
(* The deque *)

(* A deque with room for one sample ends in the one just added, keeps its  *)
(* bound, and holds nothing else that is new.                              *)
LEMMA RememberKeeps ==
  ASSUME NEW b \in Seq(Sample), NEW s \in Sample, Len(b) <= Capacity
  PROVE  LET c == Remember(b, s)
         IN /\ c \in Seq(Sample) /\ c # << >> /\ Len(c) <= Capacity
            /\ c[Len(c)] = s
            /\ \A i \in DOMAIN c : c[i] = s \/ \E j \in DOMAIN b : c[i] = b[j]
<1> DEFINE a == Append(b, s)
<1>1. /\ a \in Seq(Sample) /\ Len(a) = Len(b) + 1 /\ a[Len(a)] = s
      /\ \A i \in DOMAIN a : a[i] = s \/ \E j \in DOMAIN b : a[i] = b[j]
  OBVIOUS
<1>2. Capacity \in Nat \ {0}
  BY DataAssumption
<1>3. CASE Len(a) > Capacity
  <2>1. Remember(b, s) = Tail(a) /\ Len(a) > 1
    BY <1>2, <1>3 DEF Remember
  <2>2. /\ Tail(a) \in Seq(Sample) /\ Len(Tail(a)) = Len(a) - 1
        /\ \A i \in 1..Len(Tail(a)) : Tail(a)[i] = a[i + 1]
    BY <1>1, <2>1
  <2> HIDE DEF a
  <2>3. \A i \in DOMAIN Tail(a) : i + 1 \in DOMAIN a /\ Tail(a)[i] = a[i + 1]
    BY <1>1, <2>2
  <2>4. Tail(a)[Len(Tail(a))] = s /\ Tail(a) # << >>
    BY <1>1, <2>1, <2>2
  <2>5. Len(Tail(a)) <= Capacity
    BY <1>1, <1>2, <2>2
  <2> QED BY <1>1, <2>1, <2>2, <2>3, <2>4, <2>5
<1>4. CASE ~(Len(a) > Capacity)
  BY <1>1, <1>2, <1>4 DEF Remember
<1> QED BY <1>3, <1>4

(* What every buffer holds after a batch has been collected. *)
LEMMA CollectionKeeps ==
  ASSUME DataShape, SamplesAge, CollectOnline, UNCHANGED <<bufStep, policy>>
  PROVE  /\ buffer' \in [Workers -> Seq(Sample)]
         /\ \A w \in Workers :
              /\ Len(buffer'[w]) <= Capacity
              /\ ShouldCollect(w) =>
                   buffer'[w] # << >>
                   /\ buffer'[w][Len(buffer'[w])].step = bufStep[w]
              /\ ~ShouldCollect(w) => buffer'[w] = buffer[w]
              /\ \A i \in DOMAIN buffer'[w] :
                   /\ buffer'[w][i].step <= bufStep[w]
                   /\ buffer'[w][i].policy <= policy
                   /\ policy + buffer'[w][i].step
                        <= bufStep[w] + buffer'[w][i].policy + Ahead
<1> DEFINE new(w) == [step |-> bufStep[w], policy |-> policy]
<1>1. ASSUME NEW w \in Workers
      PROVE  /\ buffer[w] \in Seq(Sample) /\ new(w) \in Sample
             /\ Len(buffer[w]) <= Capacity
             /\ bufStep[w] \in Nat /\ policy \in Nat /\ Ahead \in {0, 1}
  BY DEF DataShape, SamplesAge, Sample, Ahead
<1>2. ASSUME NEW w \in Workers
      PROVE  buffer'[w] = IF ShouldCollect(w)
                          THEN Remember(buffer[w], new(w)) ELSE buffer[w]
  BY DEF CollectOnline
<1>3. ASSUME NEW w \in Workers
      PROVE  /\ buffer'[w] \in Seq(Sample) /\ Len(buffer'[w]) <= Capacity
             /\ ShouldCollect(w) =>
                  buffer'[w] # << >> /\ buffer'[w][Len(buffer'[w])] = new(w)
             /\ \A i \in DOMAIN buffer'[w] :
                  \/ buffer'[w][i] = new(w)
                  \/ \E j \in DOMAIN buffer[w] : buffer'[w][i] = buffer[w][j]
  <2>1. CASE ShouldCollect(w)
    <3>1. buffer'[w] = Remember(buffer[w], new(w))
      BY <1>2, <2>1
    <3>2. LET c == Remember(buffer[w], new(w))
          IN /\ c \in Seq(Sample) /\ c # << >> /\ Len(c) <= Capacity
             /\ c[Len(c)] = new(w)
             /\ \A i \in DOMAIN c :
                  \/ c[i] = new(w)
                  \/ \E j \in DOMAIN buffer[w] : c[i] = buffer[w][j]
      BY <1>1, RememberKeeps
    <3> HIDE DEF new
    <3> QED BY <2>1, <3>1, <3>2
  <2>2. CASE ~ShouldCollect(w)
    <3>1. buffer'[w] = buffer[w]
      BY <1>2, <2>2
    <3> QED BY <1>1, <2>2, <3>1
  <2> QED BY <2>1, <2>2
<1>4. buffer' \in [Workers -> Seq(Sample)]
  BY <1>3 DEF CollectOnline
<1>5. ASSUME NEW w \in Workers, NEW i \in DOMAIN buffer'[w]
      PROVE  /\ buffer'[w][i].step <= bufStep[w]
             /\ buffer'[w][i].policy <= policy
             /\ policy + buffer'[w][i].step
                  <= bufStep[w] + buffer'[w][i].policy + Ahead
  <2>1. CASE buffer'[w][i] = new(w)
    BY <1>1, <2>1
  <2>2. ASSUME NEW j \in DOMAIN buffer[w], buffer'[w][i] = buffer[w][j]
        PROVE  /\ buffer'[w][i].step <= bufStep[w]
               /\ buffer'[w][i].policy <= policy
               /\ policy + buffer'[w][i].step
                    <= bufStep[w] + buffer'[w][i].policy + Ahead
    BY <2>2 DEF SamplesAge
  <2> QED BY <1>3, <2>1, <2>2
<1>6. ASSUME NEW w \in Workers, ShouldCollect(w)
      PROVE  /\ buffer'[w] # << >>
             /\ buffer'[w][Len(buffer'[w])].step = bufStep[w]
  <2>1. new(w).step = bufStep[w]
    OBVIOUS
  <2> HIDE DEF new
  <2> QED BY <1>3, <1>6, <2>1
<1>7. ASSUME NEW w \in Workers, ~ShouldCollect(w)
      PROVE  buffer'[w] = buffer[w]
  BY <1>2, <1>7
<1> QED BY <1>3, <1>4, <1>5, <1>6, <1>7

-----------------------------------------------------------------------------
(* Invariance *)

(* The invariant of the buffer holds at first, *)
LEMMA DataInvInit == DataInit => DataInv
<1> SUFFICES ASSUME DataInit PROVE DataInv
  OBVIOUS
<1> QED
  BY DataAssumption
  DEF DataInit, DataInv, DataShape, CountersBounded, SamplesAge, Ahead,
      CollectedInTime, Phase

(* Numbers of a sample, for the leaves below. *)
LEMMA SampleTyped ==
  ASSUME DataShape, NEW w \in Workers
  PROVE  /\ bufStep[w] \in Nat /\ rlStep[w] \in Nat /\ policy \in Nat
         /\ buffer[w] \in Seq(Sample) /\ Len(buffer[w]) \in Nat
         /\ \A i \in DOMAIN buffer[w] :
              buffer[w][i].step \in Nat /\ buffer[w][i].policy \in Nat
         /\ buffer[w] # << >> => Len(buffer[w]) \in DOMAIN buffer[w]
<1>1. /\ bufStep[w] \in Nat /\ rlStep[w] \in Nat /\ policy \in Nat
      /\ buffer[w] \in Seq(Sample)
  BY DEF DataShape
<1>2. \A i \in DOMAIN buffer[w] : buffer[w][i] \in Sample
  BY <1>1
<1> QED BY <1>1, <1>2 DEF Sample

(* Collection, during a batch or a validation, keeps the invariant. *)
LEMMA CollectInv ==
  ASSUME DataInv, CollectOnline, phase' \in Phase, Ahead' = Ahead,
         phase' = phase \/ (phase' = "finish" /\ phase # "stopped"),
         UNCHANGED <<global, saved, policy, restarts, rlStep, bufStep,
                     training, sessions>>
  PROVE  DataInv'
<1> USE DEF DataInv
<1>1. /\ buffer' \in [Workers -> Seq(Sample)]
      /\ \A w \in Workers :
           /\ Len(buffer'[w]) <= Capacity
           /\ ShouldCollect(w) =>
                buffer'[w] # << >>
                /\ buffer'[w][Len(buffer'[w])].step = bufStep[w]
           /\ ~ShouldCollect(w) => buffer'[w] = buffer[w]
           /\ \A i \in DOMAIN buffer'[w] :
                /\ buffer'[w][i].step <= bufStep[w]
                /\ buffer'[w][i].policy <= policy
                /\ policy + buffer'[w][i].step
                     <= bufStep[w] + buffer'[w][i].policy + Ahead
  BY CollectionKeeps
<1>2. DataShape'
  BY <1>1 DEF DataShape
<1>3. CountersBounded'
  BY DEF CountersBounded
<1>4. SamplesAge'
  BY <1>1 DEF SamplesAge
<1>5. CollectedInTime'
  <2> SUFFICES ASSUME NEW w \in Workers
               PROVE  /\ ShouldCollect(w) => NewestSince(w, bufStep[w])'
                      /\ ShouldTrain(w) /\ bufStep[w] >= 2
                           => NewestSince(w, bufStep[w] - 1)'
    BY DEF CollectedInTime, ShouldCollect, ShouldTrain
  <2>1. bufStep[w] \in Nat
    BY DEF DataShape
  <2>2. CASE ShouldCollect(w)
    BY <1>1, <2>1, <2>2 DEF NewestSince
  <2>3. CASE ~ShouldCollect(w)
    BY <1>1, <2>1, <2>3 DEF NewestSince, CollectedInTime
  <2> QED BY <2>2, <2>3
<1> QED BY <1>2, <1>3, <1>4, <1>5

(* and is preserved by every step. *)
LEMMA DataInvNext == DataInv /\ [DataNext]_dataVars => DataInv'
<1> SUFFICES ASSUME DataInv, [DataNext]_dataVars PROVE DataInv'
  OBVIOUS
<1> USE DEF DataInv
<1>0. /\ MaxGlobal \in Nat \ {0} /\ MaxRestarts \in Nat
      /\ Interval \in Nat \ {0}
  BY DataAssumption
<1>1. CASE UNCHANGED dataVars
  BY <1>1
  DEF dataVars, driverVars, bufferVars, sessionVars, DataShape,
      CountersBounded, SamplesAge, CollectedInTime, Ahead, ShouldCollect,
      ShouldTrain, NewestSince
<1>2. CASE Generate
  BY <1>2
  DEF Generate, bufferVars, DataShape, CountersBounded, Phase, SamplesAge,
      CollectedInTime, Ahead, ShouldCollect, ShouldTrain, NewestSince
<1>3. ASSUME NEW w \in Workers, StartSession(w) PROVE DataInv'
  <2>1. UNCHANGED <<global, saved, phase, policy, restarts, rlStep, bufStep,
                    buffer>>
    BY <1>3 DEF StartSession, driverVars, bufferVars
  <2>2. DataShape'
    BY <1>3, <2>1 DEF StartSession, DataShape
  <2>3. CountersBounded' /\ SamplesAge' /\ CollectedInTime'
    BY <2>1
    DEF CountersBounded, SamplesAge, CollectedInTime, Ahead, ShouldCollect,
        ShouldTrain, NewestSince
  <2> QED BY <2>2, <2>3
<1>4. CASE Collect
  <2>1. /\ UNCHANGED <<global, saved, policy, restarts, rlStep, bufStep,
                        training, sessions>>
        /\ CollectOnline /\ phase = "collect" /\ phase' = "finish"
    BY <1>4 DEF Collect, sessionVars
  <2>2. phase' \in Phase /\ Ahead' = Ahead
    BY <2>1 DEF Ahead, Phase
  <2>3. phase' = phase \/ (phase' = "finish" /\ phase # "stopped")
    BY <2>1
  <2> QED BY <2>1, <2>2, <2>3, CollectInv
<1>5. ASSUME NEW w \in Workers, EndSession(w) PROVE DataInv'
  <2>1. /\ UNCHANGED <<global, saved, phase, policy, restarts, rlStep,
                        sessions>>
        /\ training' \subseteq training
        /\ \A v \in Workers :
             /\ buffer'[v] = IF v = w THEN << >> ELSE buffer[v]
             /\ bufStep'[v] = IF v = w THEN 0 ELSE bufStep[v]
        /\ Ahead' = Ahead
    BY <1>5 DEF EndSession, driverVars, DataShape, Ahead
  <2>2. DataShape'
    BY <1>5, <2>1 DEF EndSession, DataShape
  <2>3. CountersBounded'
    BY <2>1 DEF CountersBounded, DataShape
  <2>4. SamplesAge'
    BY <1>0, <2>1, DataAssumption DEF SamplesAge
  <2>5. CollectedInTime'
    BY <2>1
    DEF CollectedInTime, ShouldCollect, ShouldTrain, NewestSince
  <2> QED BY <2>2, <2>3, <2>4, <2>5
<1>6. CASE FinishBatch
  BY <1>6
  DEF FinishBatch, bufferVars, sessionVars, DataShape, CountersBounded, Phase,
      SamplesAge, CollectedInTime, Ahead, ShouldCollect, ShouldTrain,
      NewestSince
<1>7. CASE SkipUpdate
  <2>1. /\ phase = "learn" /\ phase' \in {"stopped", "generate"}
        /\ global' = global + 1 /\ global <= MaxGlobal
        /\ phase' # "stopped" => global' <= MaxGlobal
    BY <1>7, <1>0 DEF SkipUpdate, DataShape, CountersBounded
  <2>2. UNCHANGED <<saved, policy, restarts, rlStep, bufStep, buffer, training,
                    sessions>>
    BY <1>7 DEF SkipUpdate, bufferVars, sessionVars
  <2>3. DataShape'
    BY <2>1, <2>2 DEF DataShape, Phase
  <2>4. CountersBounded'
    BY <1>0, <2>1, <2>2 DEF DataShape, CountersBounded, Ahead
  <2>5. SamplesAge' /\ CollectedInTime'
    BY <2>1, <2>2
    DEF SamplesAge, CollectedInTime, Ahead, ShouldCollect, ShouldTrain,
        NewestSince
  <2> QED BY <2>3, <2>4, <2>5
<1>8. CASE Update
  <2>1. /\ UNCHANGED <<global, saved, restarts, rlStep, bufStep, buffer,
                        training, sessions>>
        /\ phase = "learn" /\ phase' = "validate" /\ policy' = policy + 1
        /\ Ahead = 0 /\ Ahead' = 1
    BY <1>8 DEF Update, bufferVars, sessionVars, Ahead
  <2>2. DataShape'
    BY <2>1 DEF DataShape, Phase
  <2>3. CountersBounded'
    BY <1>0, <2>1 DEF CountersBounded, DataShape
  <2>4. SamplesAge'
    BY <2>1, SampleTyped DEF SamplesAge
  <2>5. CollectedInTime'
    BY <2>1
    DEF CollectedInTime, ShouldCollect, ShouldTrain, NewestSince
  <2> QED BY <2>2, <2>3, <2>4, <2>5
<1>9. CASE Validate
  <2>1. /\ UNCHANGED <<global, saved, policy, restarts, rlStep, bufStep,
                        training, sessions, phase>>
        /\ CollectOnline
    BY <1>9 DEF Validate, driverVars, sessionVars
  <2>2. phase' \in Phase /\ Ahead' = Ahead
    BY <2>1 DEF Ahead, DataShape
  <2>3. UNCHANGED <<global, saved, policy, restarts, rlStep, bufStep, training,
                    sessions>>
    BY <2>1
  <2>4. phase' = phase \/ (phase' = "finish" /\ phase # "stopped")
    BY <2>1
  <2>5. CollectOnline /\ DataInv
    BY <2>1
  <2> QED BY <2>2, <2>3, <2>4, <2>5, CollectInv
<1>10. CASE Save
  BY <1>10, <1>0
  DEF Save, bufferVars, sessionVars, DataShape, CountersBounded, Phase,
      SamplesAge, CollectedInTime, Ahead, ShouldCollect, ShouldTrain,
      NewestSince
<1>11. CASE Advance
  <2>1. /\ UNCHANGED <<saved, policy, restarts, buffer, training, sessions>>
        /\ phase = "validate" /\ phase' \in {"stopped", "generate"}
        /\ global' = global + 1 /\ global <= MaxGlobal
        /\ phase' # "stopped" => global' <= MaxGlobal
        /\ Ahead = 1 /\ Ahead' = 0
        /\ \A w \in Workers : /\ rlStep'[w] = rlStep[w] + 1
                              /\ bufStep'[w] = bufStep[w] + 1
    BY <1>11, <1>0
    DEF Advance, sessionVars, Ahead, DataShape, CountersBounded
  <2>2. DataShape'
    BY <1>11, <2>1 DEF Advance, DataShape, Phase
  <2>3. CountersBounded'
    BY <1>0, <2>1 DEF CountersBounded, DataShape
  <2>4. SamplesAge'
    <3> SUFFICES ASSUME NEW w \in Workers
                 PROVE  /\ Len(buffer[w]) <= Capacity
                        /\ \A i \in DOMAIN buffer[w] :
                             /\ buffer[w][i].step <= bufStep'[w]
                             /\ buffer[w][i].policy <= policy
                             /\ policy + buffer[w][i].step
                                  <= bufStep'[w] + buffer[w][i].policy + Ahead'
      BY <2>1 DEF SamplesAge
    <3>1. bufStep'[w] = bufStep[w] + 1 /\ Ahead = 1 /\ Ahead' = 0
      BY <2>1
    <3>2. ASSUME NEW i \in DOMAIN buffer[w]
          PROVE  /\ buffer[w][i].step <= bufStep[w]
                 /\ buffer[w][i].policy <= policy
                 /\ policy + buffer[w][i].step
                      <= bufStep[w] + buffer[w][i].policy + Ahead
                 /\ buffer[w][i].step \in Nat /\ buffer[w][i].policy \in Nat
      BY SampleTyped DEF SamplesAge
    <3>3. bufStep[w] \in Nat /\ policy \in Nat /\ Len(buffer[w]) <= Capacity
      BY SampleTyped DEF SamplesAge
    <3> QED BY <3>1, <3>2, <3>3
  <2>5. ASSUME NEW w \in Workers, ShouldTrain(w)', bufStep'[w] >= 2
        PROVE  NewestSince(w, bufStep[w] - 1)'
    <3>1. ShouldCollect(w) /\ bufStep[w] >= 1
      BY <2>1, <2>5, SampleTyped DEF ShouldTrain, ShouldCollect
    <3>2. NewestSince(w, bufStep[w])
      BY <2>1, <3>1 DEF CollectedInTime
    <3> QED BY <2>1, <3>2, SampleTyped DEF NewestSince
  <2>6. CollectedInTime'
    BY <2>1, <2>5 DEF CollectedInTime
  <2> QED BY <2>2, <2>3, <2>4, <2>6
<1>12. CASE Restart
  <2>1. /\ UNCHANGED <<saved, policy>>
        /\ restarts' = restarts + 1 /\ restarts < MaxRestarts
        /\ global' = saved + 1 /\ phase' = "generate" /\ saved < MaxGlobal
        /\ global + Ahead <= MaxGlobal + 1 /\ Ahead' = 0
        /\ \A w \in Workers :
             rlStep'[w] = 0 /\ bufStep'[w] = 0 /\ buffer'[w] = << >>
    BY <1>12, <1>0 DEF Restart, Ahead, CountersBounded, DataShape
  <2>2. DataShape'
    BY <1>0, <1>12, <2>1 DEF Restart, DataShape, Phase
  <2>3. MaxGlobal * restarts' = MaxGlobal * restarts + MaxGlobal
    BY <1>0, <2>1 DEF DataShape
  <2>4. MaxGlobal * restarts \in Nat
    BY <1>0 DEF DataShape
  <2>5. CountersBounded'
    <3> DEFINE earlier == MaxGlobal * restarts
               now == MaxGlobal * restarts'
    <3>1. policy < earlier + global + Ahead /\ now = earlier + MaxGlobal
      BY <2>3 DEF CountersBounded
    <3>2. earlier \in Nat /\ now \in Nat
      BY <1>0, <2>3, <2>4
    <3> HIDE DEF earlier, now
    <3>3. policy' < now + global' + Ahead'
      BY <1>0, <2>1, <3>1, <3>2 DEF DataShape, Ahead
    <3> USE DEF now
    <3> QED BY <1>0, <2>1, <3>3 DEF CountersBounded, DataShape
  <2>6. SamplesAge'
    BY <2>1, DataAssumption DEF SamplesAge
  <2>7. CollectedInTime'
    BY <2>1 DEF CollectedInTime
  <2> QED BY <2>2, <2>5, <2>6, <2>7
<1>13. CASE Stopped
  BY <1>13, <1>1 DEF Stopped
<1> QED
  BY <1>1, <1>2, <1>3, <1>4, <1>5, <1>6, <1>7, <1>8, <1>9, <1>10, <1>11,
     <1>12, <1>13
  DEF DataNext

(* The counters, the ages of the samples and what has been collected agree *)
(* in every reachable state.                                               *)
THEOREM DataInvariance == DataSpec => []DataInv
<1> QED BY DataInvInit, DataInvNext, PTL DEF DataSpec

-----------------------------------------------------------------------------
(* What follows *)

(* The drafter's data has its types and bounds: in particular a buffer     *)
(* never exceeds its capacity and no step counter the driver's             *)
(* (data_buffer.py:24-83).                                                 *)
THEOREM DataTypeCorrect == DataSpec => []DataTypeOK
<1>1. DataInv => DataTypeOK
  <2> SUFFICES ASSUME DataInv PROVE DataTypeOK
    OBVIOUS
  <2> USE DEF DataInv
  <2>0. MaxGlobal \in Nat \ {0} /\ MaxRestarts \in Nat
    BY DataAssumption
  <2>1. /\ global \in 1..MaxGlobal + 1 /\ saved \in 0..MaxGlobal
        /\ phase \in Phase /\ training \subseteq Workers
        /\ sessions \in [Workers -> 0..2] /\ restarts \in 0..MaxRestarts
    BY <2>0 DEF DataShape, CountersBounded
  <2>2. ASSUME NEW w \in Workers
        PROVE  rlStep[w] \in 0..MaxGlobal /\ bufStep[w] \in 0..MaxGlobal
    <3>1. /\ rlStep[w] \in Nat /\ bufStep[w] \in Nat /\ global \in Nat
          /\ global <= MaxGlobal + 1
          /\ rlStep[w] < global /\ bufStep[w] <= rlStep[w]
      BY DEF DataShape, CountersBounded
    <3> QED BY <2>0, <3>1
  <2>3. /\ rlStep \in [Workers -> 0..MaxGlobal]
        /\ bufStep \in [Workers -> 0..MaxGlobal]
    BY <2>2 DEF DataShape
  <2>4. ASSUME NEW w \in Workers, NEW i \in DOMAIN buffer[w]
        PROVE  buffer[w][i] \in [step : 0..MaxGlobal, policy : 0..policy]
    <3>1. buffer[w][i] \in Sample
      BY SampleTyped
    <3>2. /\ buffer[w][i].step \in Nat /\ buffer[w][i].policy \in Nat
          /\ buffer[w][i].step <= bufStep[w] /\ buffer[w][i].policy <= policy
      BY SampleTyped DEF SamplesAge
    <3>3. /\ buffer[w][i].step \in 0..MaxGlobal
          /\ buffer[w][i].policy \in 0..policy
      BY <2>0, <2>2, <3>2, SampleTyped
    <3> QED BY <3>1, <3>3 DEF Sample
  <2>5. policy \in 0..MaxGlobal * (MaxRestarts + 1)
    <3>1. restarts \in Nat /\ restarts <= MaxRestarts
      BY <2>0 DEF DataShape
    <3>2. MaxGlobal * restarts <= MaxGlobal * MaxRestarts
      BY <2>0, <3>1
    <3>3. MaxGlobal * (MaxRestarts + 1) = MaxGlobal * MaxRestarts + MaxGlobal
      BY <2>0
    <3>4. MaxGlobal * restarts \in Nat /\ MaxGlobal * MaxRestarts \in Nat
      BY <2>0, <3>1
    <3> DEFINE earlier == MaxGlobal * restarts
               most == MaxGlobal * MaxRestarts
               all == MaxGlobal * (MaxRestarts + 1)
    <3>5. /\ earlier <= most /\ all = most + MaxGlobal
          /\ earlier \in Nat /\ most \in Nat
          /\ policy < earlier + global + Ahead
      BY <3>2, <3>3, <3>4 DEF CountersBounded
    <3>6. global + Ahead <= MaxGlobal + 1
      BY <2>0 DEF CountersBounded, DataShape, Ahead
    <3> HIDE DEF earlier, most, all
    <3>7. policy \in 0..all
      BY <2>0, <3>5, <3>6 DEF DataShape, Ahead
    <3> USE DEF all
    <3> QED BY <3>7
  <2>6. \A w \in Workers : Len(buffer[w]) <= Capacity
    BY DEF SamplesAge
  <2> QED BY <2>1, <2>3, <2>4, <2>5, <2>6 DEF DataTypeOK
<1> QED BY <1>1, DataInvariance, PTL

(* What the drafter trains on was collected at most BufferSteps updates    *)
(* ago (data_buffer.py:85-108, sglang_rollout.py:1944-1951).               *)
THEOREM WindowStaysFresh == DataSpec => []WindowFresh
<1>1. DataInv => WindowFresh
  <2> SUFFICES ASSUME DataInv, phase # "validate",
                      NEW w \in Workers, NEW s \in Window(w)
               PROVE  policy - s.policy <= BufferSteps
    BY DEF WindowFresh
  <2>1. PICK i \in DOMAIN buffer[w] :
          s = buffer[w][i] /\ s.step + BufferSteps >= bufStep[w]
    BY DEF Window
  <2>2. policy + s.step <= bufStep[w] + s.policy
    BY <2>1, SampleTyped DEF DataInv, SamplesAge, Ahead
  <2>3. /\ s.step \in Nat /\ s.policy \in Nat /\ policy \in Nat
        /\ bufStep[w] \in Nat /\ BufferSteps \in Nat
    BY <2>1, SampleTyped, DataAssumption DEF DataInv
  <2> QED BY <2>1, <2>2, <2>3
<1> QED BY <1>1, DataInvariance, PTL

(* A worker that begins to train finds what was collected one step before, *)
(* unless a cleanup has come in between (sglang_rollout.py:957-966).       *)
THEOREM TrainingFindsData == DataSpec => TrainingHasData
<1>1. DataInv /\ [DataNext]_dataVars =>
        [\A w \in Workers :
           BeginsTraining(w) /\ bufStep[w] >= 2 => Window(w) # {}]_dataVars
  <2> SUFFICES ASSUME DataInv, DataNext, NEW w \in Workers,
                      BeginsTraining(w), bufStep[w] >= 2
               PROVE  Window(w) # {}
    OBVIOUS
  <2>1. ShouldTrain(w)
    <3>1. w \in training' /\ w \notin training
      BY DEF BeginsTraining
    <3>2. ASSUME NEW v \in Workers, StartSession(v) PROVE ShouldTrain(w)
      BY <3>1, <3>2 DEF StartSession
    <3> QED
      BY <3>1, <3>2
      DEF DataNext, Generate, Collect, FinishBatch, SkipUpdate, Update,
          Validate, Save, Advance, Restart, Stopped, EndSession, sessionVars,
          dataVars
  <2>2. NewestSince(w, bufStep[w] - 1)
    BY <2>1 DEF DataInv, CollectedInTime
  <2> DEFINE i == Len(buffer[w])
  <2>3. i \in DOMAIN buffer[w] /\ buffer[w][i].step >= bufStep[w] - 1
    BY <2>2, SampleTyped DEF DataInv, NewestSince
  <2>4. /\ buffer[w][i].step \in Nat /\ bufStep[w] \in Nat
        /\ BufferSteps \in Nat \ {0}
    BY <2>3, SampleTyped, DataAssumption DEF DataInv
  <2>5. buffer[w][i].step + BufferSteps >= bufStep[w]
    BY <2>3, <2>4
  <2> QED BY <2>3, <2>5 DEF Window
<1> QED BY <1>1, DataInvariance, PTL DEF DataSpec, TrainingHasData
=============================================================================
