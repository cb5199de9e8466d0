----------------------- MODULE DrafterProtocol_proofs -----------------------
(***************************************************************************)
(* Proofs about the coordinator, for any set of workers, any layout in DP  *)
(* ranks and any quota, and about the rollout workers, their drafter       *)
(* managers and the coordinator together, for any faults and any bounds.   *)
(***************************************************************************)
EXTENDS DrafterProtocol, FiniteSetTheorems, WellFoundedInduction, TLAPS

-----------------------------------------------------------------------------
(* Facts about numbers and about choosing the first DP ranks *)

(* Every non-empty set of DP ranks has a smallest one. *)
LEMMA LeastRank ==
  ASSUME NEW T \in SUBSET Nat, T # {}
  PROVE  \E m \in T : \A n \in T : m <= n
<1> DEFINE R == {ss \in Nat \X Nat : ss[1] < ss[2]}
<1>1. IsWellFoundedOn(R, Nat)
  BY NatLessThanWellFounded, Zenon DEF OpToRel
<1>2. PICK m \in T : \A n \in T : <<n, m>> \notin R
  BY <1>1, WFMin, Zenon
<1>3. \A n \in T : ~(n < m)
  BY <1>2
<1>4. \A n \in T : m <= n
  BY <1>3, SMT
<1> QED BY <1>4

\* S is what sorted(dps)[:n] selects.
IsPrefix(S, dps, n) ==
  /\ S \in SUBSET dps
  /\ Cardinality(S) = n
  /\ \A d \in S, e \in dps \ S : d < e

(* A prefix that leaves something out extends by the least rank left out. *)
LEMMA PrefixGrows ==
  ASSUME NEW dps \in SUBSET Nat, IsFiniteSet(dps), NEW n \in Nat,
         n < Cardinality(dps), NEW S, IsPrefix(S, dps, n)
  PROVE  \E P : IsPrefix(P, dps, n + 1)
<1>1. IsFiniteSet(S)
  BY FS_Subset DEF IsPrefix
<1>2. dps \ S # {}
  <2>1. SUFFICES ASSUME dps \ S = {} PROVE FALSE
    OBVIOUS
  <2>2. S = dps
    BY <2>1 DEF IsPrefix
  <2> QED BY <2>2, FS_CardinalityType DEF IsPrefix
<1>3. PICK m \in dps \ S : \A e \in dps \ S : m <= e
  BY <1>2, LeastRank
<1> DEFINE P == S \cup {m}
<1>4. Cardinality(P) = n + 1
  BY <1>1, <1>3, FS_AddElement DEF IsPrefix
<1>5. ASSUME NEW d \in P, NEW e \in dps \ P
      PROVE  d < e
  <2>1. CASE d \in S
    BY <2>1 DEF IsPrefix
  <2>2. CASE d = m
    BY <2>2, <1>3
  <2> QED BY <2>1, <2>2
<1> QED BY <1>3, <1>4, <1>5 DEF IsPrefix

(* Every finite set of ranks has a prefix of each length up to its own. *)
LEMMA PrefixExists ==
  ASSUME NEW dps \in SUBSET Nat, IsFiniteSet(dps), NEW n \in Nat,
         n <= Cardinality(dps)
  PROVE  \E S : IsPrefix(S, dps, n)
<1>1. Cardinality(dps) \in Nat
  BY FS_CardinalityType
<1> DEFINE T == {k \in Nat : k <= Cardinality(dps)
                               /\ ~\E S : IsPrefix(S, dps, k)}
<1>2. SUFFICES ASSUME T # {} PROVE FALSE
  OBVIOUS
<1>3. PICK m \in T : \A k \in T : m <= k
  BY <1>2, LeastRank
<1>4. m # 0
  BY <1>3, FS_EmptySet DEF IsPrefix
<1>5. m - 1 \in Nat /\ m - 1 \notin T
  BY <1>3, <1>4
<1>6. PICK S : IsPrefix(S, dps, m - 1)
  BY <1>1, <1>3, <1>5
<1>7. \E P : IsPrefix(P, dps, (m - 1) + 1)
  BY <1>1, <1>3, <1>5, <1>6, PrefixGrows
<1> QED BY <1>3, <1>7

(* With enough released DP ranks, FirstDps is a prefix of the quota's size. *)
LEMMA FirstDpsSelects ==
  ASSUME NEW dps \in SUBSET Nat, IsFiniteSet(dps),
         Cardinality(dps) >= MinWorkers
  PROVE  /\ FirstDps(dps) \in SUBSET dps
         /\ Cardinality(FirstDps(dps)) = MinWorkers
<1>1. Cardinality(dps) \in Nat
  BY FS_CardinalityType
<1>2. PICK S : IsPrefix(S, dps, MinWorkers)
  BY <1>1, PrefixExists, CoordinatorAssumption
<1> QED BY <1>2 DEF IsPrefix, FirstDps

-----------------------------------------------------------------------------
(* The inductive invariant *)

\* A session's ranks are registered and unfinished, it covers whole groups,
\* and exactly MinWorkers of them.
CoordInv ==
  /\ CoordTypeOK
  /\ NoFinishedTrainer
  /\ trainingRanks \subseteq Registered
  /\ WholeQuota

(* The DP ranks of any set of workers are finitely many natural numbers. *)
LEMMA DpsFinite ==
  ASSUME NEW S \in SUBSET Workers
  PROVE  /\ {DpOf[w] : w \in S} \in SUBSET Nat
         /\ IsFiniteSet({DpOf[w] : w \in S})
<1>1. {DpOf[w] : w \in S} \in SUBSET Nat
  BY CoordinatorAssumption
<1> DEFINE D == {DpOf[w] : w \in S}
           f == [w \in S |-> DpOf[w]]
<1>2. f \in Surjection(S, D)
  BY DEF Surjection
<1>3. IsFiniteSet(S)
  BY FS_Subset, CoordinatorAssumption
<1>4. IsFiniteSet(D)
  BY <1>2, <1>3, FS_Surjection
<1> QED BY <1>1, <1>4

(* Between sessions no rank is lent. *)
LEMMA NobodyTrains ==
  ASSUME CoordInv
  PROVE  trainingActive <=> trainingRanks # {}
<1> DEFINE D == {DpOf[w] : w \in trainingRanks}
<1>1. IsFiniteSet(D)
  BY DpsFinite DEF CoordInv, CoordTypeOK
<1>2. Cardinality(D) = 0 <=> D = {}
  BY <1>1, FS_EmptySet
<1>3. D = {} <=> trainingRanks = {}
  OBVIOUS
<1>4. Cardinality(D) = IF trainingActive THEN MinWorkers ELSE 0
  BY DEF CoordInv, WholeQuota
<1> QED BY <1>2, <1>3, <1>4, CoordinatorAssumption DEF CoordInv, CoordTypeOK

(* The ranks chosen for a session are whole groups, one per selected DP    *)
(* rank, and MinWorkers in number.                                         *)
LEMMA ChosenRanks ==
  ASSUME NEW ws, CanStart(ws)
  PROVE  LET F == FirstDps(ReleasedDps(ws))
         IN /\ F \in SUBSET Nat
            /\ Cardinality(F) = MinWorkers
            /\ {DpOf[w] : w \in RanksOf(F)} = F
            /\ \A w \in RanksOf(F) : TpGroup(w) \subseteq RanksOf(F)
<1> DEFINE dps == ReleasedDps(ws)
           F == FirstDps(dps)
<1>1. /\ dps \in SUBSET Nat
      /\ IsFiniteSet(dps)
  BY DpsFinite DEF ReleasedDps
<1>2. Cardinality(dps) >= MinWorkers
  BY DEF CanStart
<1>3. /\ F \in SUBSET dps
      /\ Cardinality(F) = MinWorkers
  BY <1>1, <1>2, FirstDpsSelects
<1>4. \A d \in F : \E w \in Workers : DpOf[w] = d
  BY <1>3 DEF ReleasedDps
<1> HIDE DEF F
<1>5. {DpOf[w] : w \in RanksOf(F)} = F
  BY <1>4 DEF RanksOf
<1>6. \A w \in RanksOf(F) : TpGroup(w) \subseteq RanksOf(F)
  BY DEF RanksOf, TpGroup
<1> QED BY <1>1, <1>3, <1>5, <1>6 DEF F

(* The invariant holds before anybody registers. *)
LEMMA InitInv == CoordInit => CoordInv
<1> SUFFICES ASSUME CoordInit PROVE CoordInv
  OBVIOUS
<1>1. {DpOf[w] : w \in trainingRanks} = {}
  BY DEF CoordInit
<1>2. WholeQuota
  BY <1>1, FS_EmptySet DEF CoordInit, WholeQuota
<1> QED
  BY <1>2 DEF CoordInit, CoordInv, CoordTypeOK, NoFinishedTrainer

(* A registration or a start_generation touches one worker's state only.   *)
LEMMA NewsKeepsInv ==
  ASSUME CoordInv, NEW w \in Workers, NEW news \in {"idle", "generating"},
         wstate' = [wstate EXCEPT ![w] = news],
         UNCHANGED <<trainingActive, trainingRanks>>
  PROVE  CoordInv'
<1>1. CoordTypeOK'
  BY DEF CoordInv, CoordTypeOK, WorkerState
<1>2. NoFinishedTrainer'
  BY DEF CoordInv, CoordTypeOK, NoFinishedTrainer
<1>3. (trainingRanks \subseteq Registered)'
  BY DEF CoordInv, CoordTypeOK, Registered, Unregistered
<1>4. WholeQuota'
  BY DEF CoordInv, WholeQuota, TpGroup
<1> QED BY <1>1, <1>2, <1>3, <1>4 DEF CoordInv

(* A release, which may start a session, keeps the invariant: the ranks it *)
(* lends are whole groups, freshly marked as training.                     *)
LEMMA ReleaseKeepsInv ==
  ASSUME CoordInv, NEW w \in Workers, Release(w)
  PROVE  CoordInv'
<1> DEFINE ws == AfterRelease(w)
           chosen == RanksOf(FirstDps(ReleasedDps(ws)))
<1>1. /\ ws \in [Workers -> WorkerState \cup {Unregistered}]
      /\ \A v \in Workers : /\ ws[v] = "completed" => wstate[v] = "completed"
                            /\ v \in Registered => ws[v] # Unregistered
  BY DEF AfterRelease, CoordInv, CoordTypeOK, WorkerState, Registered,
         Unregistered
<1>2. CASE ~CanStart(ws)
  <2>1. wstate' = ws /\ UNCHANGED <<trainingActive, trainingRanks>>
    BY <1>2 DEF Release, CheckAndStartTraining
  <2>2. CoordTypeOK'
    BY <1>1, <2>1 DEF CoordInv, CoordTypeOK
  <2>3. NoFinishedTrainer'
    BY <1>1, <2>1 DEF CoordInv, CoordTypeOK, NoFinishedTrainer
  <2>4. (trainingRanks \subseteq Registered)'
    BY <1>1, <2>1 DEF CoordInv, Registered
  <2>5. WholeQuota'
    BY <2>1 DEF CoordInv, WholeQuota, TpGroup
  <2> QED BY <2>2, <2>3, <2>4, <2>5 DEF CoordInv
<1>3. CASE CanStart(ws)
  <2>1. /\ wstate' = [v \in Workers |-> IF v \in chosen THEN "training"
                                                        ELSE ws[v]]
        /\ trainingRanks' = trainingRanks \cup chosen
        /\ trainingActive' = TRUE
    BY <1>3 DEF Release, CheckAndStartTraining
  <2>2. trainingRanks' = chosen
    BY <1>3, <2>1, NobodyTrains DEF CanStart
  <2>3. chosen \in SUBSET Workers
    BY DEF RanksOf
  <2>4. CoordTypeOK'
    BY <1>1, <2>1, <2>2, <2>3 DEF CoordTypeOK, WorkerState
  <2>5. NoFinishedTrainer'
    BY <2>1, <2>2, <2>3 DEF NoFinishedTrainer
  <2>6. (trainingRanks \subseteq Registered)'
    BY <2>1, <2>2, <2>3 DEF Registered, Unregistered
  <2>7. WholeQuota'
    BY <1>3, <2>1, <2>2, ChosenRanks DEF WholeQuota, TpGroup
  <2> QED BY <2>4, <2>5, <2>6, <2>7 DEF CoordInv
<1> QED BY <1>2, <1>3

(* A completed batch, which may end the session, keeps the invariant: a    *)
(* worker that completes while it trains leaves no session behind.         *)
LEMMA MarkKeepsInv ==
  ASSUME CoordInv, NEW w \in Workers, MarkCompleted(w)
  PROVE  CoordInv'
<1>1. wstate' = [wstate EXCEPT ![w] = "completed"]
  BY DEF MarkCompleted, AfterMark
<1>2. CASE StopsTraining(w)
  <2>1. trainingActive' = FALSE /\ trainingRanks' = {}
    BY <1>2 DEF MarkCompleted
  <2>2. {DpOf[v] : v \in trainingRanks'} = {}
    BY <2>1
  <2>3. WholeQuota'
    BY <2>1, <2>2, FS_EmptySet DEF WholeQuota
  <2> QED
    BY <1>1, <2>1, <2>3
    DEF CoordInv, CoordTypeOK, WorkerState, NoFinishedTrainer
<1>3. CASE ~StopsTraining(w)
  <2>1. UNCHANGED <<trainingActive, trainingRanks>>
    BY <1>3 DEF MarkCompleted
  <2>2. w \notin trainingRanks
    BY <1>3, NobodyTrains DEF StopsTraining
  <2>3. CoordTypeOK'
    BY <1>1, <2>1 DEF CoordInv, CoordTypeOK, WorkerState
  <2>4. NoFinishedTrainer'
    BY <1>1, <2>1, <2>2 DEF CoordInv, CoordTypeOK, NoFinishedTrainer
  <2>5. (trainingRanks \subseteq Registered)'
    BY <1>1, <2>1 DEF CoordInv, CoordTypeOK, Registered, Unregistered
  <2>6. WholeQuota'
    BY <2>1 DEF CoordInv, WholeQuota, TpGroup
  <2> QED BY <2>3, <2>4, <2>5, <2>6 DEF CoordInv
<1> QED BY <1>2, <1>3

(* Every request keeps the invariant. *)
LEMMA StepKeepsInv == CoordInv /\ [CoordNext]_coordVars => CoordInv'
<1> SUFFICES ASSUME CoordInv, [CoordNext]_coordVars
             PROVE  CoordInv'
  OBVIOUS
<1>1. CASE \E w \in Workers \ Registered : Register(w)
  BY <1>1, NewsKeepsInv DEF Register
<1>2. CASE \E w \in Workers : StartGeneration(w)
  BY <1>2, NewsKeepsInv DEF StartGeneration
<1>3. CASE \E w \in Workers : Release(w)
  BY <1>3, ReleaseKeepsInv
<1>4. CASE \E w \in Workers : MarkCompleted(w)
  BY <1>4, MarkKeepsInv
<1>5. CASE UNCHANGED coordVars
  BY <1>5 DEF coordVars, CoordInv, CoordTypeOK, NoFinishedTrainer, WholeQuota,
              Registered, TpGroup
<1> QED BY <1>1, <1>2, <1>3, <1>4, <1>5 DEF CoordNext

(* The invariant holds in every reachable state of the coordinator. *)
THEOREM CoordInvariance == CoordSpec => []CoordInv
BY InitInv, StepKeepsInv, PTL DEF CoordSpec

-----------------------------------------------------------------------------
(* What the coordinator guarantees *)

(* Every reachable state is well typed. *)
THEOREM TypeCorrect == CoordSpec => []CoordTypeOK
<1>1. CoordInv => CoordTypeOK
  BY DEF CoordInv
<1> QED BY <1>1, CoordInvariance, PTL

(* No rank of a session has reported its batch finished: a training worker *)
(* that completes always takes its session down.                           *)
THEOREM FinishedNeverTrains == CoordSpec => []NoFinishedTrainer
<1>1. CoordInv => NoFinishedTrainer
  BY DEF CoordInv
<1> QED BY <1>1, CoordInvariance, PTL

(* A session always covers exactly the quota, in whole DP ranks. *)
THEOREM SessionIsWhole == CoordSpec => []WholeQuota
<1>1. CoordInv => WholeQuota
  BY DEF CoordInv
<1> QED BY <1>1, CoordInvariance, PTL

(* The second reason the code gives for stopping a session, that all       *)
(* workers completed, never holds without the first.                       *)
THEOREM OnlyTrainersStop == CoordSpec => []StopNeedsTrainer
<1>1. CoordInv => StopNeedsTrainer
  <2> SUFFICES ASSUME CoordInv, NEW w \in Registered, StopsTraining(w),
                      w \notin trainingRanks
               PROVE  FALSE
    BY DEF StopNeedsTrainer
  <2>1. AllCompleted(AfterMark(w)) /\ trainingActive
    BY DEF StopsTraining
  <2>2. PICK v \in trainingRanks : TRUE
    BY <2>1, NobodyTrains
  <2>3. v \in Registered /\ v # w /\ v \in Workers
    BY <2>2 DEF CoordInv, Registered
  <2>4. wstate[v] = "completed"
    BY <2>1, <2>3 DEF AllCompleted, AfterMark, CoordInv, CoordTypeOK
  <2> QED BY <2>2, <2>4 DEF CoordInv, NoFinishedTrainer
<1> QED BY <1>1, CoordInvariance, PTL

\* What one step may do to a session.
SessionStep ==
  \/ trainingRanks' = trainingRanks
  \/ trainingRanks = {}
  \/ /\ trainingRanks' = {}
     /\ \E w \in trainingRanks : wstate'[w] = "completed"

(* A session never changes hands, and only its own ranks end it. *)
THEOREM SessionsStayIntact == CoordSpec => SessionIntact
<1>1. CoordInv /\ StopNeedsTrainer /\ [CoordNext]_coordVars
        => [SessionStep]_coordVars
  <2> SUFFICES ASSUME CoordInv, StopNeedsTrainer, CoordNext
               PROVE  SessionStep
    BY DEF coordVars
  <2>1. CASE \E w \in Workers : Release(w)
    <3>1. PICK w \in Workers : Release(w)
      BY <2>1
    <3>2. CASE CanStart(AfterRelease(w))
      BY <3>2, NobodyTrains DEF CanStart, SessionStep
    <3>3. CASE ~CanStart(AfterRelease(w))
      BY <3>1, <3>3 DEF Release, CheckAndStartTraining, SessionStep
    <3> QED BY <3>2, <3>3
  <2>2. CASE \E w \in Workers : MarkCompleted(w)
    <3>1. PICK w \in Workers : MarkCompleted(w)
      BY <2>2
    <3>2. CASE StopsTraining(w)
      <4>1. w \in trainingRanks
        BY <3>1, <3>2 DEF StopNeedsTrainer, MarkCompleted
      <4>2. wstate'[w] = "completed" /\ trainingRanks' = {}
        BY <3>1, <3>2 DEF MarkCompleted, AfterMark, CoordInv, CoordTypeOK
      <4> QED BY <4>1, <4>2 DEF SessionStep
    <3>3. CASE ~StopsTraining(w)
      BY <3>1, <3>3 DEF MarkCompleted, SessionStep
    <3> QED BY <3>2, <3>3
  <2>3. CASE \/ \E w \in Workers \ Registered : Register(w)
             \/ \E w \in Workers : StartGeneration(w)
    BY <2>3 DEF Register, StartGeneration, SessionStep
  <2> QED BY <2>1, <2>2, <2>3 DEF CoordNext
<1>2. SessionIntact <=> [][SessionStep]_coordVars
  BY PTL DEF SessionIntact, SessionStep
<1> QED
  BY <1>1, <1>2, CoordInvariance, OnlyTrainersStop, PTL DEF CoordSpec

-----------------------------------------------------------------------------
(* The coordinator implements TrainingLease *)

TpGroups == {TpGroup(w) : w \in Workers}
FinishedWorkers == {w \in Workers : wstate[w] = "completed"}

(* Every worker is in the group of its DP rank. *)
LEMMA GroupsCover == UNION TpGroups = Workers
BY DEF TpGroups, TpGroup

(* The groups of a set of DP ranks that all have workers are as many as    *)
(* the ranks, and make up exactly the workers of those ranks.              *)
LEMMA GroupsOfRanks ==
  ASSUME NEW F, IsFiniteSet(F), {DpOf[w] : w \in RanksOf(F)} = F
  PROVE  LET G == {TpGroup(w) : w \in RanksOf(F)}
         IN G \in SUBSET TpGroups /\ Cardinality(G) = Cardinality(F)
            /\ UNION G = RanksOf(F)
<1> DEFINE G == {TpGroup(w) : w \in RanksOf(F)}
           Of(d) == {v \in Workers : DpOf[v] = d}
           f == [d \in F |-> Of(d)]
<1>1. \A w \in RanksOf(F) : w \in Workers /\ DpOf[w] \in F
  BY DEF RanksOf
<1>2. \A d \in F : \E w \in RanksOf(F) : DpOf[w] = d
  OBVIOUS
<1>3. \A w \in RanksOf(F) : TpGroup(w) = Of(DpOf[w])
  BY DEF TpGroup
<1>4. \A d \in F : Of(d) \in G
  BY <1>2, <1>3
<1>5. \A d \in F : \E w \in Of(d) : DpOf[w] = d
  BY <1>1, <1>2
<1>6. \A d, e \in F : Of(d) = Of(e) => d = e
  <2> SUFFICES ASSUME NEW d \in F, NEW e \in F, Of(d) = Of(e)
               PROVE  d = e
    OBVIOUS
  <2>1. PICK w \in Of(d) : DpOf[w] = d
    BY <1>5
  <2> QED BY <2>1
<1>7. \A t \in G : \E d \in F : Of(d) = t
  BY <1>1, <1>3
<1> HIDE DEF G, Of
<1>8. f \in Surjection(F, G)
  BY <1>4, <1>7 DEF Surjection
<1>9. f \in Injection(F, G)
  BY <1>4, <1>6 DEF Injection, IsInjective
<1>10. Cardinality(G) = Cardinality(F)
  BY <1>8, <1>9, FS_Surjection
<1>11. UNION G = RanksOf(F)
  BY DEF G, TpGroup, RanksOf
<1>12. G \in SUBSET TpGroups
  BY <1>1 DEF G, TpGroups
<1> QED BY <1>10, <1>11, <1>12 DEF G

(* News of any workers are a step of the lease. *)
LEMMA NewsIsLeaseStep ==
  ASSUME NEW g \in SUBSET Workers, Lease!Resume(g) \/ Lease!Grant(g)
  PROVE  Lease!LeaseNext
<1>1. g \in SUBSET UNION TpGroups
  BY GroupsCover
<1> QED BY <1>1 DEF Lease!LeaseNext, TpGroups

(* Before anybody registers, nothing is lent and nobody is finished. *)
LEMMA InitRefines == CoordInit => Lease!LeaseInit
BY DEF CoordInit, Lease!LeaseInit, Unregistered

(* A registration and a start_generation are news of one worker. *)
LEMMA NewsRefines ==
  ASSUME CoordInv, NEW w \in Workers, NEW news \in {"idle", "generating"},
         wstate' = [wstate EXCEPT ![w] = news], UNCHANGED trainingRanks
  PROVE  Lease!LeaseNext
<1>1. FinishedWorkers' = FinishedWorkers \ {w}
  BY DEF FinishedWorkers, CoordInv, CoordTypeOK
<1>2. Lease!Resume({w})
  BY <1>1 DEF Lease!Resume, FinishedWorkers
<1> QED BY <1>2, NewsIsLeaseStep

(* A release is news of a group and, when a session starts, a grant. *)
LEMMA ReleaseRefines ==
  ASSUME CoordInv, NEW w \in Workers, Release(w)
  PROVE  Lease!LeaseNext
<1> DEFINE ws == AfterRelease(w)
           F == FirstDps(ReleasedDps(ws))
<1>0. PICK g \in SUBSET Workers : g = TpGroup(w) \cap Registered
  BY DEF TpGroup
<1>1. \A v \in Workers : ws[v] = "completed" <=> v \in FinishedWorkers \ g
  BY <1>0 DEF AfterRelease, FinishedWorkers
<1>2. CASE ~CanStart(ws)
  <2>1. wstate' = ws /\ UNCHANGED trainingRanks
    BY <1>2 DEF Release, CheckAndStartTraining
  <2>2. FinishedWorkers' = FinishedWorkers \ g
    BY <1>1, <2>1 DEF FinishedWorkers
  <2>3. Lease!Resume(g)
    BY <2>1, <2>2 DEF Lease!Resume, FinishedWorkers
  <2> QED BY <2>3, NewsIsLeaseStep
<1>3. CASE CanStart(ws)
  <2>1. trainingRanks = {}
    BY <1>3, NobodyTrains DEF CanStart
  <2>2. /\ wstate' = [v \in Workers |-> IF v \in RanksOf(F) THEN "training"
                                                           ELSE ws[v]]
        /\ trainingRanks' = RanksOf(F)
    BY <1>3, <2>1 DEF Release, CheckAndStartTraining
  <2>3. Cardinality(F) = MinWorkers /\ {DpOf[v] : v \in RanksOf(F)} = F
    BY <1>3, ChosenRanks
  <2>4. RanksOf(F) \in SUBSET Workers
    BY DEF RanksOf
  <2>5. IsFiniteSet(F)
    BY <2>3, <2>4, DpsFinite
  <2> HIDE DEF F
  <2>6. \E G \in SUBSET TpGroups : /\ Cardinality(G) = MinWorkers
                                   /\ RanksOf(F) = UNION G
    BY <2>3, <2>5, GroupsOfRanks
  <2>7. FinishedWorkers' = (FinishedWorkers \ g) \ RanksOf(F)
    BY <1>1, <2>2, <2>4 DEF FinishedWorkers
  <2>8. Lease!Grant(g)
    BY <2>1, <2>2, <2>6, <2>7
    DEF Lease!Grant, FinishedWorkers, TpGroups, Cardinality, Lease!Cardinality
  <2> QED BY <2>8, NewsIsLeaseStep
<1> QED BY <1>2, <1>3

(* A completed batch is a report, which ends the lease of a holder. *)
LEMMA MarkRefines ==
  ASSUME CoordInv, StopNeedsTrainer, NEW w \in Workers, MarkCompleted(w)
  PROVE  Lease!LeaseNext
<1>1. wstate' = [wstate EXCEPT ![w] = "completed"] /\ w \in Registered
  BY DEF MarkCompleted, AfterMark
<1>2. FinishedWorkers' = FinishedWorkers \cup {w}
  BY <1>1 DEF FinishedWorkers, CoordInv, CoordTypeOK
<1>3. trainingRanks' = IF w \in trainingRanks THEN {} ELSE trainingRanks
  <2>1. StopsTraining(w) <=> w \in trainingRanks
    BY <1>1, NobodyTrains DEF StopNeedsTrainer, StopsTraining
  <2> QED BY <2>1 DEF MarkCompleted
<1>4. Lease!Report(w)
  BY <1>2, <1>3 DEF Lease!Report, FinishedWorkers
<1> QED BY <1>4, GroupsCover DEF Lease!LeaseNext, TpGroups

(* Seen through its sessions and its finished workers, the coordinator     *)
(* behaves as TrainingLease: every request is one step of it.              *)
THEOREM CoordinatorKeepsLease == CoordSpec => LeaseRefinement
<1>1. CoordInv /\ StopNeedsTrainer /\ [CoordNext]_coordVars
        => [Lease!LeaseNext]_(Lease!leaseVars)
  <2> SUFFICES ASSUME CoordInv, StopNeedsTrainer, [CoordNext]_coordVars
               PROVE  Lease!LeaseNext \/ UNCHANGED Lease!leaseVars
    OBVIOUS
  <2>1. CASE \E w \in Workers \ Registered : Register(w)
    BY <2>1, NewsRefines DEF Register
  <2>2. CASE \E w \in Workers : StartGeneration(w)
    BY <2>2, NewsRefines DEF StartGeneration
  <2>3. CASE \E w \in Workers : Release(w)
    BY <2>3, ReleaseRefines
  <2>4. CASE \E w \in Workers : MarkCompleted(w)
    BY <2>4, MarkRefines
  <2>5. CASE UNCHANGED coordVars
    BY <2>5 DEF coordVars, Lease!leaseVars
  <2> QED BY <2>1, <2>2, <2>3, <2>4, <2>5 DEF CoordNext
<1> QED
  BY <1>1, InitRefines, CoordInvariance, OnlyTrainersStop, PTL
  DEF CoordSpec, LeaseRefinement, Lease!LeaseSpec

-----------------------------------------------------------------------------
(* The rollout workers and their managers: from here on the variables of   *)
(* the system are looked at one by one.                                    *)

USE DEF mainVars, clientVars, managerVars, taskVars, lstVars, coordVars

-----------------------------------------------------------------------------
(* Types *)

\* A training step starts only below MaxSteps: with it the counter stays in
\* its range although a successful step counts twice.
TypeInv ==
  /\ TypeOK
  /\ \A w \in Workers : task[w] = "step" => steps[w] < MaxSteps

(* A queue of broadcasts grows only by broadcasts. *)
LEMMA BroadcastType ==
  ASSUME TypeOK, NEW event \in {"start", "stop"}, NEW ranks,
         Broadcast(event, ranks)
  PROVE  inbox' \in [Workers -> Seq({"start", "stop"})]
<1>1. PICK copies \in [Workers -> Deliveries] :
        inbox' = [w \in Workers |->
                    IF w \in ranks
                      THEN inbox[w] \o [i \in 1..copies[w] |-> event]
                      ELSE inbox[w]]
  BY DEF Broadcast
<1>2. ASSUME NEW w \in Workers
      PROVE  inbox[w] \o [i \in 1..copies[w] |-> event]
               \in Seq({"start", "stop"})
  <2>1. copies[w] \in Nat
    <3>1. copies[w] \in 0..3
      BY ProtocolAssumption, Zenon DEF Broadcast
    <3> QED BY <3>1
  <2>2. [i \in 1..copies[w] |-> event] \in Seq({"start", "stop"})
    BY <2>1
  <2> QED BY <2>2 DEF TypeOK
<1> QED BY <1>1, <1>2 DEF TypeOK

(* The coordinator's own handlers respect its types. *)
LEMMA HandlersType ==
  ASSUME CoordTypeOK, NEW w \in Workers,
         Register(w) \/ Release(w) \/ MarkCompleted(w)
  PROVE  CoordTypeOK'
<1>1. CASE Register(w)
  BY <1>1 DEF CoordTypeOK, Register, WorkerState
<1>2. CASE Release(w)
  <2>1. AfterRelease(w) \in [Workers -> WorkerState \cup {Unregistered}]
    BY DEF AfterRelease, CoordTypeOK, WorkerState
  <2> QED
    BY <1>2, <2>1
       DEF Release, CheckAndStartTraining, RanksOf, CoordTypeOK, WorkerState
<1>3. CASE MarkCompleted(w)
  BY <1>3 DEF MarkCompleted, AfterMark, CoordTypeOK, WorkerState
<1> QED BY <1>1, <1>2, <1>3

(* The types hold at first. *)
LEMMA InitType == Init => TypeInv
<1> SUFFICES ASSUME Init PROVE TypeInv
  OBVIOUS
<1>1. CoordTypeOK
  BY DEF Init, CoordInit, CoordTypeOK
<1>2. /\ batch \in 0..MaxBatches
      /\ checks \in [Workers -> 0..MaxChecks]
      /\ steps \in [Workers -> 0..MaxSteps + 1]
  BY ProtocolAssumption DEF Init
<1>3. /\ inbox \in [Workers -> Seq({"start", "stop"})]
      /\ \A w \in Workers : task[w] # "step"
  BY DEF Init
<1>4. TypeOK
  BY <1>1, <1>2, <1>3 DEF Init, TypeOK, MainPC
<1> QED BY <1>3, <1>4 DEF TypeInv

(* Whatever its thread was doing, a call that returns leaves a position. *)
LEMMA ProceedType ==
  ASSUME TypeInv, NEW w \in Workers, Proceed(w)
  PROVE  /\ main' \in [Workers -> MainPC]
         /\ stage' \in [Workers -> {"call", "wait", "reply"}]
         /\ batch' = batch
<1>1. \A v \in Workers :
        (CASE main[w] = "release" /\ v \in TpGroup(w)
                /\ (v = w \/ ~MultiTurn) -> "mark"
           [] main[w] = "mark" /\ v = w -> "cleanup"
           [] OTHER -> main[v]) \in MainPC
  BY DEF TypeInv, TypeOK, MainPC
<1> QED BY <1>1 DEF Proceed, TypeInv, TypeOK

(* A step of a main thread keeps the types. *)
LEMMA MainType ==
  ASSUME TypeInv, NEW w \in Workers, MainNext(w)
  PROVE  TypeInv'
<1> USE DEF TypeInv, TypeOK, MainPC
<1>1. CASE Initialize(w)
  <2>1. CoordTypeOK'
    BY <1>1, HandlersType DEF Initialize
  <2> QED BY <1>1, <2>1 DEF Initialize
<1>2. CASE FinishGeneration(w)
  BY <1>2 DEF FinishGeneration, CoordTypeOK
<1>3. CASE SendRequest(w)
  <2>1. CASE wedged[w]
    <3>1. Proceed(w) /\ UNCHANGED clientVars
      BY <1>3, <2>1 DEF SendRequest
    <3> QED BY <1>3, <3>1, ProceedType DEF SendRequest, CoordTypeOK
  <2>2. CASE ~wedged[w]
    <3>1. /\ lock' = [lock EXCEPT ![w] = "main"]
          /\ req' = [req EXCEPT ![w] = main[w]]
          /\ stage' = [stage EXCEPT ![w] = "reply"]
          /\ main[w] \in {"release", "mark"}
          /\ UNCHANGED <<batch, main, loopOf, wedged, rep>>
      BY <1>3, <2>2, Zenon DEF SendRequest
    <3> QED BY <1>3, <3>1 DEF SendRequest, CoordTypeOK
  <2> QED BY <2>1, <2>2
<1>4. CASE WaitForLock(w)
  BY <1>4 DEF WaitForLock, CoordTypeOK
<1>5. CASE LockBoundElsewhere(w)
  <2>1. CASE main[w] = "release" /\ ~MultiTurn
    BY <1>5, <2>1 DEF LockBoundElsewhere, CoordTypeOK
  <2>2. CASE ~(main[w] = "release" /\ ~MultiTurn)
    BY <1>5, <2>2, ProceedType DEF LockBoundElsewhere, CoordTypeOK
  <2> QED BY <2>1, <2>2
<1>6. CASE ReceiveReply(w)
  BY <1>6, ProceedType DEF ReceiveReply, CoordTypeOK
<1>7. CASE GiveUpReply(w)
  BY <1>7, ProceedType DEF GiveUpReply, CoordTypeOK
<1>8. CASE GiveUpLock(w)
  BY <1>8, ProceedType DEF GiveUpLock, CoordTypeOK
<1>9. CASE PassCleanup(w)
  BY <1>9 DEF PassCleanup, CoordTypeOK
<1> QED
  BY <1>1, <1>2, <1>3, <1>4, <1>5, <1>6, <1>7, <1>8, <1>9 DEF MainNext

(* So does the listener when it serves a message, *)
LEMMA ServeType ==
  ASSUME TypeInv, NEW w \in Workers, Serve(w)
  PROVE  TypeInv'
<1>1. CoordTypeOK'
  BY HandlersType
     DEF Serve, ServeRelease, ServeMark, ServeState, CoordTypeOK, TypeInv,
         TypeOK
<1>2. inbox' \in [Workers -> Seq({"start", "stop"})]
  BY BroadcastType
     DEF Serve, ServeRelease, ServeMark, ServeState, TypeInv, TypeOK
<1>3. /\ req' \in [Workers -> {"none", "release", "mark", "state"}]
      /\ rep' \in [Workers -> {"none", "ack", "train", "rest"}]
  BY DEF Serve, TypeInv, TypeOK
<1> QED BY <1>1, <1>2, <1>3 DEF Serve, TypeInv, TypeOK, MainPC

\* What the manager says of the training task, and the task itself.
TaskTypes ==
  /\ active \in [Workers -> BOOLEAN]
  /\ stopEvent \in [Workers -> BOOLEAN]
  /\ cleanupDone \in [Workers -> BOOLEAN]
  /\ task \in [Workers -> {"none", "starting", "loop", "step", "cleanup"}]
  /\ steps \in [Workers -> 0..MaxSteps + 1]
  /\ trainerOn \in [Workers -> BOOLEAN]
  /\ resident \in [Workers -> BOOLEAN]
  /\ \A w \in Workers : task[w] = "step" => steps[w] < MaxSteps

(* and a training task that is started, *)
LEMMA StartType ==
  ASSUME TypeInv, NEW w \in Workers, StartTraining(w)
  PROVE  TaskTypes'
<1>1. CASE active[w]
  BY <1>1 DEF StartTraining, TaskTypes, TypeInv, TypeOK
<1>2. CASE ~active[w]
  <2>1. /\ stopEvent' = [stopEvent EXCEPT ![w] = FALSE]
        /\ cleanupDone' = [cleanupDone EXCEPT ![w] = FALSE]
        /\ active' = [active EXCEPT ![w] = TRUE]
        /\ task' = [task EXCEPT ![w] = "starting"]
        /\ UNCHANGED <<steps, trainerOn, resident>>
    BY <1>2, Zenon DEF StartTraining
  <2> QED BY <2>1 DEF TaskTypes, TypeInv, TypeOK
<1> QED BY <1>1, <1>2

(* so does any step of a listener, *)
LEMMA ListenerType ==
  ASSUME TypeInv, NEW w \in Workers, ListenerNext(w)
  PROVE  TypeInv'
<1> USE DEF TypeInv, TypeOK, CoordTypeOK
<1>1. CASE HandleStart(w)
  <2>1. inbox' \in [Workers -> Seq({"start", "stop"})]
    BY <1>1 DEF HandleStart
  <2>2. StartTraining(w) /\ UNCHANGED lst
    BY <1>1 DEF HandleStart
  <2>3. TaskTypes'
    BY <2>2, StartType
  <2> QED BY <1>1, <2>1, <2>3 DEF HandleStart, TaskTypes
<1>2. CASE HandleStop(w)
  <2>1. inbox' \in [Workers -> Seq({"start", "stop"})]
    BY <1>2 DEF HandleStop
  <2>2. /\ stopEvent' \in [Workers -> BOOLEAN]
        /\ active' \in [Workers -> BOOLEAN]
        /\ trainerOn' \in [Workers -> BOOLEAN]
        /\ lst' \in [Workers -> {"poll", "wait", "reply", "stopping"}]
    <3>1. CASE active[w]
      <4>1. /\ stopEvent' = [stopEvent EXCEPT ![w] = TRUE]
            /\ active' = [active EXCEPT ![w] = FALSE]
            /\ trainerOn' = [trainerOn EXCEPT ![w] = FALSE]
            /\ lst' = [lst EXCEPT ![w] = "stopping"]
        BY <1>2, <3>1, Zenon DEF HandleStop
      <4> QED BY <4>1
    <3>2. CASE ~active[w]
      <4>1. UNCHANGED <<stopEvent, active, trainerOn, lst>>
        BY <1>2, <3>2, Zenon DEF HandleStop
      <4> QED BY <4>1
    <3> QED BY <3>1, <3>2
  <2> QED BY <1>2, <2>1, <2>2 DEF HandleStop
<1>3. CASE StopDone(w)
  BY <1>3 DEF StopDone
<1>4. CASE CheckState(w)
  <2>1. checks' \in [Workers -> 0..MaxChecks]
    BY <1>4, ProtocolAssumption DEF CheckState
  <2>2. /\ lst' \in [Workers -> {"poll", "wait", "reply", "stopping"}]
        /\ loopOf' \in [Workers -> {"none", "main", "listener"}]
        /\ lock' \in [Workers -> {"free", "main", "listener"}]
        /\ req' \in [Workers -> {"none", "release", "mark", "state"}]
    <3>1. CASE ListenerMustWait(w)
      <4>1. /\ loopOf' = [loopOf EXCEPT ![w] = "listener"]
            /\ lst' = [lst EXCEPT ![w] = "wait"]
            /\ UNCHANGED <<lock, req>>
        BY <1>4, <3>1, Zenon DEF CheckState
      <4> QED BY <4>1
    <3>2. CASE ~ListenerMustWait(w)
      <4>1. /\ lock' = [lock EXCEPT ![w] = "listener"]
            /\ req' = [req EXCEPT ![w] = "state"]
            /\ lst' = [lst EXCEPT ![w] = "reply"]
            /\ UNCHANGED loopOf
        BY <1>4, <3>2, Zenon DEF CheckState
      <4> QED BY <4>1
    <3> QED BY <3>1, <3>2
  <2> QED BY <1>4, <2>1, <2>2 DEF CheckState
<1>5. CASE ListenerSend(w)
  <2>1. /\ lst' \in [Workers -> {"poll", "wait", "reply", "stopping"}]
        /\ lock' \in [Workers -> {"free", "main", "listener"}]
        /\ req' \in [Workers -> {"none", "release", "mark", "state"}]
    <3>1. CASE wedged[w]
      <4>1. lst' = [lst EXCEPT ![w] = "poll"] /\ UNCHANGED <<lock, req>>
        BY <1>5, <3>1, Zenon DEF ListenerSend
      <4> QED BY <4>1
    <3>2. CASE ~wedged[w]
      <4>1. /\ lock' = [lock EXCEPT ![w] = "listener"]
            /\ req' = [req EXCEPT ![w] = "state"]
            /\ lst' = [lst EXCEPT ![w] = "reply"]
        BY <1>5, <3>2, Zenon DEF ListenerSend
      <4> QED BY <4>1
    <3> QED BY <3>1, <3>2
  <2> QED BY <1>5, <2>1 DEF ListenerSend
<1>6. CASE ListenerReceive(w)
  <2>1. TaskTypes'
    <3>1. CASE rep[w] = "train"
      BY <1>6, <3>1, StartType, Zenon DEF ListenerReceive
    <3>2. CASE rep[w] # "train"
      <4>1. UNCHANGED <<managerVars, taskVars>>
        BY <1>6, <3>2, Zenon DEF ListenerReceive
      <4> QED BY <4>1 DEF TaskTypes
    <3> QED BY <3>1, <3>2
  <2>2. /\ lst' \in [Workers -> {"poll", "wait", "reply", "stopping"}]
        /\ lock' \in [Workers -> {"free", "main", "listener"}]
        /\ rep' \in [Workers -> {"none", "ack", "train", "rest"}]
    BY <1>6 DEF ListenerReceive
  <2> QED BY <1>6, <2>1, <2>2 DEF ListenerReceive, TaskTypes
<1>7. CASE ListenerGiveUp(w)
  BY <1>7 DEF ListenerGiveUp
<1> QED
  BY <1>1, <1>2, <1>3, <1>4, <1>5, <1>6, <1>7 DEF ListenerNext

(* and any step of a training task. *)
LEMMA TaskType ==
  ASSUME TypeInv, NEW w \in Workers, TaskNext(w)
  PROVE  TypeInv'
<1>1. TaskTypes
  BY DEF TypeInv, TypeOK, TaskTypes
<1>2. UNCHANGED <<coordVars, mainVars, lstVars, clientVars, inbox>>
  BY DEF TaskNext, Activate, FailActivation, TryStep, FinishStep, LeaveLoop,
         FinishCleanup
<1>3. SUFFICES TaskTypes'
  BY <1>2 DEF TaskTypes, TypeInv, TypeOK, CoordTypeOK
<1> USE <1>1 DEF TaskTypes
<1>4. CASE Activate(w)
  BY <1>4 DEF Activate
<1>5. CASE FailActivation(w)
  <2>1. resident' \in [Workers -> BOOLEAN]
    BY <1>5 DEF FailActivation
  <2> QED BY <1>5, <2>1 DEF FailActivation
<1>6. CASE TryStep(w)
  <2>1. steps[w] \in 0..MaxSteps + 1 /\ steps[w] < MaxSteps
    BY <1>6 DEF TryStep, KeepsTraining
  <2>2. CASE task' = [task EXCEPT ![w] = "step"] /\ UNCHANGED steps
    BY <1>6, <2>1, <2>2 DEF TryStep
  <2>3. CASE steps' = [steps EXCEPT ![w] = @ + 1] /\ UNCHANGED task
    <3>1. steps' \in [Workers -> 0..MaxSteps + 1]
      BY <2>1, <2>3, ProtocolAssumption
    <3>2. \A v \in Workers : task'[v] = "step" => steps'[v] < MaxSteps
      BY <1>6, <2>1, <2>3 DEF TryStep
    <3> QED BY <1>6, <2>3, <3>1, <3>2 DEF TryStep
  <2> QED BY <1>6, <2>2, <2>3 DEF TryStep
<1>7. CASE FinishStep(w)
  <2>1. PICK n \in {1, 2} :
          steps' = [v \in Workers |->
                      IF v \in TpGroup(w) THEN steps[v] + n ELSE steps[v]]
    BY <1>7 DEF FinishStep
  <2>2. \A v \in TpGroup(w) : steps[v] + n \in 0..MaxSteps + 1
    BY <1>7, ProtocolAssumption DEF FinishStep, TpGroup
  <2>3. steps' \in [Workers -> 0..MaxSteps + 1]
    BY <2>1, <2>2
  <2>4. /\ task' \in [Workers ->
                       {"none", "starting", "loop", "step", "cleanup"}]
        /\ \A v \in Workers :
             task'[v] = "step" => v \notin TpGroup(w) /\ task[v] = "step"
    BY <1>7 DEF FinishStep
  <2>5. \A v \in Workers : task'[v] = "step" => steps'[v] < MaxSteps
    BY <2>1, <2>4
  <2> QED BY <1>7, <2>3, <2>4, <2>5 DEF FinishStep
<1>8. CASE LeaveLoop(w)
  <2>1. 0 \in 0..MaxSteps + 1 /\ 0 < MaxSteps
    BY ProtocolAssumption
  <2>2. /\ trainerOn' = [trainerOn EXCEPT ![w] = FALSE]
        /\ steps' = [steps EXCEPT ![w] = 0]
        /\ task' = [task EXCEPT ![w] = "cleanup"]
        /\ UNCHANGED <<managerVars, resident>>
    BY <1>8 DEF LeaveLoop
  <2>3. trainerOn' \in [Workers -> BOOLEAN]
    BY <2>2
  <2>4. /\ steps' \in [Workers -> 0..MaxSteps + 1]
        /\ task' \in [Workers ->
                       {"none", "starting", "loop", "step", "cleanup"}]
    BY <2>1, <2>2
  <2>5. \A v \in Workers : task'[v] = "step" => steps'[v] < MaxSteps
    BY <2>1, <2>2
  <2> QED BY <2>2, <2>3, <2>4, <2>5
<1>9. CASE FinishCleanup(w)
  BY <1>9 DEF FinishCleanup
<1> QED
  BY <1>4, <1>5, <1>6, <1>7, <1>8, <1>9 DEF TaskNext

(* Every step keeps the types. *)
LEMMA StepType == TypeInv /\ [Next]_vars => TypeInv'
<1> SUFFICES ASSUME TypeInv, [Next]_vars
             PROVE  TypeInv'
  OBVIOUS
<1>1. CASE StartBatch
  <2>1. batch' \in 0..MaxBatches /\ main' \in [Workers -> MainPC]
    BY <1>1, ProtocolAssumption DEF StartBatch, TypeInv, TypeOK, MainPC
  <2> QED BY <1>1, <2>1 DEF StartBatch, TypeInv, TypeOK, CoordTypeOK
<1>2. ASSUME NEW w \in Workers,
             MainNext(w) \/ Serve(w) \/ ListenerNext(w) \/ TaskNext(w)
      PROVE  TypeInv'
  BY <1>2, MainType, ServeType, ListenerType, TaskType
<1>3. CASE UNCHANGED vars
  BY <1>3 DEF vars, TypeInv, TypeOK, CoordTypeOK, MainPC
<1> QED BY <1>1, <1>2, <1>3 DEF Next, Finished

(* All state of the workers, their managers and the coordinator has its    *)
(* type; in particular the step counter never passes MaxSteps + 1.         *)
THEOREM ProtocolTypeCorrect == Spec => []TypeInv
<1> QED BY InitType, StepType, PTL DEF Spec

-----------------------------------------------------------------------------
(* The training task and what the manager says of it *)

\* While _stop_training waits for the task, the manager says it is inactive.
ManagerInv ==
  \A w \in Workers :
    /\ task[w] # "none" => active[w] \/ lst[w] = "stopping"
    /\ cleanupDone[w] => task[w] = "none" /\ ~active[w]
    /\ lst[w] = "stopping" => ~active[w]

(* A task that is started finds the manager's state as the invariant says  *)
(* and leaves it so.                                                       *)
LEMMA StartKeepsManager ==
  ASSUME TypeInv, ManagerInv, NEW w \in Workers, lst[w] # "stopping",
         StartTraining(w),
         \A v \in Workers : lst'[v] = "stopping" => lst[v] = "stopping",
         \A v \in Workers \ {w} : lst'[v] = lst[v]
  PROVE  ManagerInv'
<1>1. CASE active[w]
  BY <1>1, Zenon DEF StartTraining, ManagerInv
<1>2. CASE ~active[w]
  <2>1. /\ cleanupDone' = [cleanupDone EXCEPT ![w] = FALSE]
        /\ active' = [active EXCEPT ![w] = TRUE]
        /\ task' = [task EXCEPT ![w] = "starting"]
    BY <1>2, Zenon DEF StartTraining
  <2> QED BY <2>1 DEF ManagerInv, TypeInv, TypeOK
<1> QED BY <1>1, <1>2

(* A step of a listener preserves ManagerInv. *)
LEMMA ListenerKeepsManager ==
  ASSUME TypeInv, ManagerInv, NEW w \in Workers, ListenerNext(w)
  PROVE  ManagerInv'
<1> USE DEF TypeInv, TypeOK
<1>1. CASE HandleStart(w)
  BY <1>1, StartKeepsManager DEF HandleStart
<1>2. CASE HandleStop(w)
  <2>1. CASE active[w]
    <3>1. /\ active' = [active EXCEPT ![w] = FALSE]
          /\ lst' = [lst EXCEPT ![w] = "stopping"]
      BY <1>2, <2>1, Zenon DEF HandleStop
    <3> QED BY <1>2, <3>1 DEF HandleStop, ManagerInv
  <2>2. CASE ~active[w]
    <3>1. UNCHANGED <<stopEvent, active, trainerOn, lst>>
      BY <1>2, <2>2, Zenon DEF HandleStop
    <3> QED BY <1>2, <3>1 DEF HandleStop, ManagerInv
  <2> QED BY <2>1, <2>2
<1>3. CASE StopDone(w)
  BY <1>3 DEF StopDone, ManagerInv
<1>4. CASE CheckState(w)
  <2>1. \A v \in Workers : lst'[v] = "stopping" <=> lst[v] = "stopping"
    BY <1>4 DEF CheckState
  <2> QED BY <1>4, <2>1 DEF CheckState, ManagerInv
<1>5. CASE ListenerSend(w)
  <2>1. \A v \in Workers : lst'[v] = "stopping" <=> lst[v] = "stopping"
    BY <1>5 DEF ListenerSend
  <2> QED BY <1>5, <2>1 DEF ListenerSend, ManagerInv
<1>6. CASE ListenerReceive(w)
  <2>1. \A v \in Workers : lst'[v] = "stopping" <=> lst[v] = "stopping"
    BY <1>6 DEF ListenerReceive
  <2>2. CASE rep[w] = "train"
    BY <1>6, <2>1, <2>2, StartKeepsManager DEF ListenerReceive
  <2>3. CASE rep[w] # "train"
    BY <1>6, <2>1, <2>3 DEF ListenerReceive, ManagerInv
  <2> QED BY <2>2, <2>3
<1>7. CASE ListenerGiveUp(w)
  BY <1>7 DEF ListenerGiveUp, ManagerInv
<1> QED
  BY <1>1, <1>2, <1>3, <1>4, <1>5, <1>6, <1>7 DEF ListenerNext

(* So does a step of a training task, *)
LEMMA TaskKeepsManager ==
  ASSUME TypeInv, ManagerInv, NEW w \in Workers, TaskNext(w)
  PROVE  ManagerInv'
<1> USE DEF TypeInv, TypeOK, ManagerInv
<1>1. CASE Activate(w)
  BY <1>1 DEF Activate
<1>2. CASE FailActivation(w)
  BY <1>2 DEF FailActivation
<1>3. CASE TryStep(w)
  BY <1>3 DEF TryStep
<1>4. CASE FinishStep(w)
  BY <1>4 DEF FinishStep, TpGroup
<1>5. CASE LeaveLoop(w)
  BY <1>5 DEF LeaveLoop
<1>6. CASE FinishCleanup(w)
  BY <1>6 DEF FinishCleanup
<1> QED
  BY <1>1, <1>2, <1>3, <1>4, <1>5, <1>6 DEF TaskNext

(* and every step. *)
LEMMA StepKeepsManager == TypeInv /\ ManagerInv /\ [Next]_vars => ManagerInv'
<1> SUFFICES ASSUME TypeInv, ManagerInv, [Next]_vars
             PROVE  ManagerInv'
  OBVIOUS
<1>1. ASSUME UNCHANGED <<lstVars, managerVars, taskVars>>
      PROVE  ManagerInv'
  BY <1>1 DEF ManagerInv
<1>2. CASE StartBatch
  BY <1>1, <1>2 DEF StartBatch
<1>3. ASSUME NEW w \in Workers, MainNext(w)
      PROVE  ManagerInv'
  <2>1. UNCHANGED <<lstVars, managerVars, taskVars>>
    BY <1>3
       DEF MainNext, Initialize, FinishGeneration, SendRequest, WaitForLock,
           LockBoundElsewhere, ReceiveReply, GiveUpReply, GiveUpLock,
           PassCleanup
  <2> QED BY <1>1, <2>1
<1>4. ASSUME NEW w \in Workers, Serve(w)
      PROVE  ManagerInv'
  BY <1>1, <1>4 DEF Serve
<1>5. ASSUME NEW w \in Workers, ListenerNext(w) \/ TaskNext(w)
      PROVE  ManagerInv'
  BY <1>5, ListenerKeepsManager, TaskKeepsManager
<1>6. CASE UNCHANGED vars
  BY <1>1, <1>6 DEF vars
<1> QED BY <1>2, <1>3, <1>4, <1>5, <1>6 DEF Next, Finished

(* ManagerInv always holds. *)
LEMMA ManagerAlways == Spec => [](TypeInv /\ ManagerInv)
<1>1. Init => TypeInv /\ ManagerInv
  <2>1. Init => ManagerInv
    BY DEF Init, ManagerInv
  <2> QED BY <2>1, InitType
<1>2. TypeInv /\ ManagerInv /\ [Next]_vars => (TypeInv /\ ManagerInv)'
  BY StepType, StepKeepsManager
<1> QED BY <1>1, <1>2, PTL DEF Spec

(* No training task is ever lost: a task that runs can still be stopped,   *)
(* or is being stopped, whatever broadcasts are lost, repeated or late and *)
(* whatever is abandoned.                                                  *)
THEOREM NoTaskOrphaned == Spec => []NoOrphanTask
<1>1. ManagerInv => NoOrphanTask
  BY DEF ManagerInv, NoOrphanTask
<1> QED BY <1>1, ManagerAlways, PTL

(* The main thread never passes a cleanup that is not over.                *)
THEOREM CleanupFlagHolds == Spec => []CleanupFlagSound
<1>1. ManagerInv => CleanupFlagSound
  BY DEF ManagerInv, CleanupFlagSound
<1> QED BY <1>1, ManagerAlways, PTL

-----------------------------------------------------------------------------
(* The turns of the main threads of a group *)

\* A main thread is in a request only where it makes one; a group leaves its
\* generation together; in the single-turn path only its leader releases.
TurnInv ==
  /\ \A w \in Workers : stage[w] # "call" => main[w] \in {"release", "mark"}
  /\ \A w \in Workers :
       Leads(w) /\ main[w] = "generate"
         => \A v \in TpGroup(w) : main[v] = "generate"
  /\ \A w \in Workers : ~MultiTurn /\ main[w] = "release" => Leads(w)

(* A group has one leader. *)
LEMMA OneLeader ==
  ASSUME NEW w \in Workers, NEW v \in TpGroup(w), Leads(w), Leads(v)
  PROVE  v = w
<1>1. v \in Workers /\ w \in TpGroup(v)
  BY DEF TpGroup
<1>2. w <= v /\ v <= w
  BY <1>1 DEF Leads
<1>3. w \in Nat /\ v \in Nat
  BY <1>1, ProtocolAssumption
<1> QED BY <1>2, <1>3

(* Groups do not overlap. *)
LEMMA GroupsApart ==
  ASSUME NEW w \in Workers, NEW u \in Workers, NEW v \in TpGroup(w),
         v \in TpGroup(u)
  PROVE  u \in TpGroup(w) /\ w \in TpGroup(u)
BY DEF TpGroup

(* Who returns from a call pulls nobody of its group out of another call.  *)
LEMMA ProceedSparesCallers ==
  ASSUME TypeInv, TurnInv, NEW w \in Workers, Proceed(w),
         NEW v \in Workers \ {w}, stage[v] # "call"
  PROVE  main'[v] = main[v]
<1>1. main[v] \in {"release", "mark"}
  BY DEF TurnInv
<1>2. CASE main[w] = "release" /\ v \in TpGroup(w) /\ ~MultiTurn
  <2>1. Leads(w)
    BY <1>2 DEF TurnInv
  <2>2. main[v] # "release"
    BY <1>2, <2>1, OneLeader DEF TurnInv
  <2> QED BY <1>1, <1>2, <2>2 DEF Proceed
<1>3. CASE ~(main[w] = "release" /\ v \in TpGroup(w) /\ ~MultiTurn)
  BY <1>3 DEF Proceed
<1> QED BY <1>2, <1>3

(* The end of a release or a mark keeps the turn of the main thread. *)
LEMMA ProceedKeepsTurn ==
  ASSUME TypeInv, TurnInv, NEW w \in Workers, Proceed(w),
         main[w] \in {"release", "mark"}
  PROVE  TurnInv'
<1>1. ASSUME NEW v \in Workers, stage'[v] # "call"
      PROVE  main'[v] \in {"release", "mark"}
  <2>1. v # w /\ stage'[v] = stage[v]
    BY <1>1 DEF Proceed, TypeInv, TypeOK
  <2>2. main'[v] = main[v]
    BY <1>1, <2>1, ProceedSparesCallers
  <2> QED BY <1>1, <2>1, <2>2 DEF TurnInv
<1>2. ASSUME NEW v \in Workers, main'[v] # main[v]
      PROVE  v \in TpGroup(w) /\ main'[v] \in {"mark", "cleanup"}
  BY <1>2 DEF Proceed, TpGroup
<1>3. ASSUME NEW u \in Workers, Leads(u), main'[u] = "generate",
             NEW v \in TpGroup(u)
      PROVE  main'[v] = "generate"
  <2>1. u \in Workers /\ v \in Workers
    BY DEF TpGroup
  <2>2. main[u] = "generate"
    BY <1>2, <1>3, <2>1
  <2>3. \A t \in TpGroup(u) : main[t] = "generate"
    BY <1>3, <2>2 DEF TurnInv
  <2>4. w \notin TpGroup(u)
    BY <2>3
  <2> QED BY <1>2, <2>1, <2>3, <2>4, GroupsApart
<1>4. ASSUME NEW v \in Workers, ~MultiTurn, main'[v] = "release"
      PROVE  Leads(v)
  BY <1>2, <1>4 DEF TurnInv
<1> QED BY <1>1, <1>3, <1>4 DEF TurnInv, Leads, TpGroup

(* So does the end of generation, *)
LEMMA GenerationKeepsTurn ==
  ASSUME TypeInv, TurnInv, NEW w \in Workers, FinishGeneration(w)
  PROVE  TurnInv'
<1>1. \A v \in TpGroup(w) : main[v] = "generate" /\ stage[v] = "call"
  BY DEF FinishGeneration, TurnInv, TpGroup
<1>2. w \in TpGroup(w)
  BY DEF TpGroup
<1> DEFINE next == IF ShouldTrain THEN "release" ELSE "mark"
<1> DEFINE goers == IF MultiTurn \/ ~ShouldTrain THEN TpGroup(w) ELSE {w}
<1>3. /\ main' = [v \in Workers |-> IF v \in goers THEN next ELSE main[v]]
      /\ stage' = stage
  BY DEF FinishGeneration
<1>4. goers \subseteq TpGroup(w) /\ w \in goers
  BY <1>2
<1>5. ASSUME NEW v \in Workers, stage'[v] # "call"
      PROVE  main'[v] \in {"release", "mark"}
  BY <1>1, <1>3, <1>4, <1>5 DEF TurnInv
<1>6. ASSUME NEW u \in Workers, Leads(u), main'[u] = "generate",
             NEW v \in TpGroup(u)
      PROVE  main'[v] = "generate"
  <2>1. v \in Workers
    BY DEF TpGroup
  <2>2. u \notin goers /\ main[u] = "generate"
    BY <1>3, <1>6
  <2>3. u \notin TpGroup(w)
    BY <1>4, <1>6, <2>2, OneLeader DEF FinishGeneration
  <2>4. v \notin goers
    BY <1>4, <2>3, GroupsApart
  <2>5. main[v] = "generate"
    BY <1>6, <2>2 DEF TurnInv
  <2> QED BY <1>3, <2>1, <2>4, <2>5
<1>7. ASSUME NEW v \in Workers, ~MultiTurn, main'[v] = "release"
      PROVE  Leads(v)
  <2>1. CASE v \in goers
    <3>1. ShouldTrain /\ v = w
      BY <1>3, <1>7, <2>1
    <3> QED BY <3>1 DEF FinishGeneration
  <2>2. CASE v \notin goers
    BY <1>3, <1>7, <2>2 DEF TurnInv
  <2> QED BY <2>1, <2>2
<1> QED BY <1>5, <1>6, <1>7 DEF TurnInv, Leads, TpGroup

(* every step of a main thread, *)
LEMMA MainKeepsTurn ==
  ASSUME TypeInv, TurnInv, NEW w \in Workers, MainNext(w)
  PROVE  TurnInv'
<1> USE DEF TypeInv, TypeOK
<1>1. ASSUME main[w] # "generate", stage[w] = "call", UNCHANGED stage,
             NEW pc \in {"idle", "barrier", "killed"},
             main' = [main EXCEPT ![w] = pc]
      PROVE  TurnInv'
  <2>1. ASSUME NEW u \in Workers, Leads(u), main'[u] = "generate",
               NEW v \in TpGroup(u)
        PROVE  main'[v] = "generate"
    <3>1. v \in Workers /\ main[u] = "generate"
      BY <1>1, <2>1 DEF TpGroup
    <3> QED BY <1>1, <2>1, <3>1 DEF TurnInv
  <2>2. ASSUME NEW v \in Workers
        PROVE  /\ stage'[v] # "call" => main'[v] \in {"release", "mark"}
               /\ ~MultiTurn /\ main'[v] = "release" => Leads(v)
    BY <1>1 DEF TurnInv
  <2> QED BY <2>1, <2>2 DEF TurnInv, Leads, TpGroup
<1>2. ASSUME main[w] \in {"release", "mark"}, UNCHANGED main,
             \A v \in Workers \ {w} : stage'[v] = stage[v]
      PROVE  TurnInv'
  BY <1>2 DEF TurnInv, Leads, TpGroup
<1>3. CASE Initialize(w)
  BY <1>1, <1>3 DEF Initialize, TurnInv
<1>4. CASE FinishGeneration(w)
  BY <1>4, GenerationKeepsTurn
<1>5. CASE SendRequest(w)
  <2>1. CASE wedged[w]
    <3>1. Proceed(w) /\ main[w] \in {"release", "mark"}
      BY <1>5, <2>1, Zenon DEF SendRequest
    <3> QED BY <3>1, ProceedKeepsTurn
  <2>2. CASE ~wedged[w]
    <3>1. /\ main[w] \in {"release", "mark"}
          /\ stage' = [stage EXCEPT ![w] = "reply"]
          /\ main' = main
      BY <1>5, <2>2, Zenon DEF SendRequest
    <3> QED BY <1>2, <3>1
  <2> QED BY <2>1, <2>2
<1>6. CASE WaitForLock(w)
  BY <1>2, <1>6 DEF WaitForLock
<1>7. CASE LockBoundElsewhere(w)
  <2>1. CASE main[w] = "release" /\ ~MultiTurn
    BY <1>1, <1>7, <2>1 DEF LockBoundElsewhere
  <2>2. CASE ~(main[w] = "release" /\ ~MultiTurn)
    BY <1>7, <2>2, ProceedKeepsTurn DEF LockBoundElsewhere
  <2> QED BY <2>1, <2>2
<1>8. CASE ReceiveReply(w)
  BY <1>8, ProceedKeepsTurn DEF ReceiveReply, TurnInv
<1>9. CASE GiveUpReply(w)
  BY <1>9, ProceedKeepsTurn DEF GiveUpReply, TurnInv
<1>10. CASE GiveUpLock(w)
  BY <1>10, ProceedKeepsTurn DEF GiveUpLock
<1>11. CASE PassCleanup(w)
  BY <1>1, <1>11 DEF PassCleanup, TurnInv
<1> QED
  BY <1>3, <1>4, <1>5, <1>6, <1>7, <1>8, <1>9, <1>10, <1>11 DEF MainNext

(* and every step. *)
LEMMA StepKeepsTurn == TypeInv /\ TurnInv /\ [Next]_vars => TurnInv'
<1> SUFFICES ASSUME TypeInv, TurnInv, [Next]_vars
             PROVE  TurnInv'
  OBVIOUS
<1>1. ASSUME UNCHANGED <<main, stage>>
      PROVE  TurnInv'
  BY <1>1 DEF TurnInv, Leads, TpGroup
<1>2. CASE StartBatch
  <2>1. \A w \in Workers : main'[w] = "generate" /\ stage'[w] = "call"
    BY <1>2 DEF StartBatch, TurnInv, TypeInv, TypeOK
  <2> QED BY <2>1 DEF TurnInv, TpGroup
<1>3. ASSUME NEW w \in Workers, MainNext(w)
      PROVE  TurnInv'
  BY <1>3, MainKeepsTurn
<1>4. ASSUME NEW w \in Workers, Serve(w) \/ ListenerNext(w) \/ TaskNext(w)
      PROVE  TurnInv'
  BY <1>1, <1>4
     DEF Serve, ListenerNext, HandleStart, HandleStop, StopDone, CheckState,
         ListenerSend, ListenerReceive, ListenerGiveUp, TaskNext, Activate,
         FailActivation, TryStep, FinishStep, LeaveLoop, FinishCleanup
<1>5. CASE UNCHANGED vars
  BY <1>1, <1>5 DEF vars
<1> QED BY <1>2, <1>3, <1>4, <1>5 DEF Next, Finished

-----------------------------------------------------------------------------
(* The shared socket *)

\* The lock is held by the thread that awaits a reply; while the socket can
\* still send, what is in flight belongs to the holder.
Socket(w) ==
  /\ lock[w] = "main" <=> stage[w] = "reply"
  /\ lock[w] = "listener" <=> lst[w] = "reply"
  /\ wedged[w] => rep[w] = "none"
  /\ ~wedged[w] =>
       CASE lock[w] = "free"     -> req[w] = "none" /\ rep[w] = "none"
         [] lock[w] = "main"     ->
              \/ req[w] = main[w] /\ rep[w] = "none"
              \/ req[w] = "none" /\ rep[w] \in {"none", "ack"}
         [] lock[w] = "listener" ->
              \/ req[w] = "state" /\ rep[w] = "none"
              \/ req[w] = "none" /\ rep[w] \in {"train", "rest"}

SocketInv == \A w \in Workers : Socket(w)

(* What leaves a client and its holder's call alone leaves its socket in   *)
(* order.                                                                  *)
LEMMA SocketFrame ==
  ASSUME TypeInv, NEW v \in Workers, Socket(v),
         lock[v] = "main" => main'[v] = main[v],
         lock'[v] = lock[v], stage'[v] = stage[v], wedged'[v] <=> wedged[v],
         req'[v] = req[v], rep'[v] = rep[v],
         lst'[v] = "reply" <=> lst[v] = "reply"
  PROVE  Socket(v)'
<1>1. CASE wedged[v]
  BY <1>1 DEF Socket
<1>2. CASE ~wedged[v]
  <2>1. CASE lock[v] = "main"
    BY <1>2, <2>1 DEF Socket
  <2>2. CASE lock[v] = "listener"
    BY <1>2, <2>2 DEF Socket
  <2>3. CASE lock[v] = "free"
    BY <1>2, <2>3 DEF Socket
  <2> QED BY <2>1, <2>2, <2>3 DEF TypeInv, TypeOK
<1> QED BY <1>1, <1>2

(* The main thread's call on w is over: its lock is free and what came is  *)
(* read or was given up.                                                   *)
LEMMA ProceedKeepsSocket ==
  ASSUME TypeInv, TurnInv, SocketInv, NEW w \in Workers, Proceed(w),
         UNCHANGED lst, Socket(w)',
         \A v \in Workers \ {w} :
           /\ lock'[v] = lock[v] /\ (wedged'[v] <=> wedged[v])
           /\ req'[v] = req[v] /\ rep'[v] = rep[v]
  PROVE  SocketInv'
<1>1. ASSUME NEW v \in Workers \ {w}
      PROVE  Socket(v)'
  <2>1. lock[v] = "main" => main'[v] = main[v]
    BY ProceedSparesCallers DEF SocketInv, Socket
  <2>2. stage'[v] = stage[v]
    BY DEF Proceed, TypeInv, TypeOK
  <2> QED BY <2>1, <2>2, SocketFrame DEF SocketInv
<1> QED BY <1>1 DEF SocketInv

(* What a main thread sends and receives keeps the client's socket in      *)
(* order.                                                                  *)
LEMMA MainKeepsSocket ==
  ASSUME TypeInv, TurnInv, SocketInv, NEW w \in Workers, MainNext(w)
  PROVE  SocketInv'
<1> USE DEF TypeInv, TypeOK
<1>1. Socket(w)
  BY DEF SocketInv
<1>2. ASSUME UNCHANGED <<stage, lst, clientVars>>,
             \A v \in Workers : stage[v] = "reply" => main'[v] = main[v]
      PROVE  SocketInv'
  <2>1. \A v \in Workers : lock[v] = "main" => main'[v] = main[v]
    BY <1>2 DEF SocketInv, Socket
  <2> QED BY <1>2, <2>1, SocketFrame DEF SocketInv
<1>3. CASE Initialize(w)
  <2>1. /\ main' = [main EXCEPT ![w] = "idle"]
        /\ main[w] = "init"
    BY <1>3 DEF Initialize
  <2>2. stage[w] # "reply"
    BY <2>1 DEF TurnInv
  <2>3. \A v \in Workers : stage[v] = "reply" => main'[v] = main[v]
    BY <2>1, <2>2
  <2> QED BY <1>2, <1>3, <2>3 DEF Initialize
<1>4. CASE FinishGeneration(w)
  <2>1. \A v \in TpGroup(w) : main[v] = "generate"
    BY <1>4 DEF FinishGeneration, TurnInv
  <2>2. \A v \in Workers : stage[v] = "reply" => main'[v] = main[v]
    BY <1>4, <2>1 DEF FinishGeneration, TurnInv
  <2> QED BY <1>2, <1>4, <2>2 DEF FinishGeneration
<1>5. CASE SendRequest(w)
  <2>1. CASE wedged[w]
    <3>1. /\ Proceed(w) /\ UNCHANGED clientVars /\ stage[w] # "reply"
          /\ UNCHANGED lst
      BY <1>5, <2>1, Zenon DEF SendRequest
    <3>2. Socket(w)'
      BY <1>1, <2>1, <3>1 DEF Proceed, Socket
    <3> QED BY <3>1, <3>2, ProceedKeepsSocket
  <2>2. CASE ~wedged[w]
    <3>1. /\ lock' = [lock EXCEPT ![w] = "main"]
          /\ req' = [req EXCEPT ![w] = main[w]]
          /\ stage' = [stage EXCEPT ![w] = "reply"]
          /\ UNCHANGED <<batch, main, loopOf, wedged, rep, lst>>
      BY <1>5, <2>2, Zenon DEF SendRequest
    <3>2. lock[w] = "free"
      BY <1>1, <1>5 DEF SendRequest, MainMustWait, Socket
    <3>3. Socket(w)'
      BY <1>1, <2>2, <3>1, <3>2 DEF Socket
    <3>4. ASSUME NEW v \in Workers \ {w}
          PROVE  Socket(v)'
      BY <3>1, SocketFrame DEF SocketInv
    <3> QED BY <3>3, <3>4 DEF SocketInv
  <2> QED BY <2>1, <2>2
<1>6. CASE WaitForLock(w)
  <2>1. Socket(w)'
    BY <1>1, <1>6 DEF WaitForLock, Socket
  <2>2. ASSUME NEW v \in Workers \ {w}
        PROVE  Socket(v)'
    BY <1>6, SocketFrame DEF WaitForLock, SocketInv
  <2> QED BY <2>1, <2>2 DEF SocketInv
<1>7. CASE LockBoundElsewhere(w)
  <2>1. CASE main[w] = "release" /\ ~MultiTurn
    BY <1>2, <1>7, <2>1 DEF LockBoundElsewhere
  <2>2. CASE ~(main[w] = "release" /\ ~MultiTurn)
    <3>1. Proceed(w)
      BY <1>7, <2>2 DEF LockBoundElsewhere
    <3>2. Socket(w)'
      BY <1>1, <1>7, <3>1 DEF LockBoundElsewhere, Proceed, Socket
    <3> QED BY <1>7, <3>1, <3>2, ProceedKeepsSocket DEF LockBoundElsewhere
  <2> QED BY <2>1, <2>2
<1>8. CASE ReceiveReply(w)
  <2>1. Socket(w)'
    BY <1>1, <1>8 DEF ReceiveReply, Proceed, Socket
  <2> QED BY <1>8, <2>1, ProceedKeepsSocket DEF ReceiveReply
<1>9. CASE GiveUpReply(w)
  <2>1. Socket(w)'
    BY <1>1, <1>9 DEF GiveUpReply, Proceed, Socket
  <2> QED BY <1>9, <2>1, ProceedKeepsSocket DEF GiveUpReply
<1>10. CASE GiveUpLock(w)
  <2>1. Socket(w)'
    BY <1>1, <1>10 DEF GiveUpLock, Proceed, Socket
  <2> QED BY <1>10, <2>1, ProceedKeepsSocket DEF GiveUpLock
<1>11. CASE PassCleanup(w)
  <2>1. /\ main' = [main EXCEPT ![w] = "barrier"]
        /\ main[w] = "cleanup"
    BY <1>11 DEF PassCleanup
  <2>2. stage[w] # "reply"
    BY <2>1 DEF TurnInv
  <2>3. \A v \in Workers : stage[v] = "reply" => main'[v] = main[v]
    BY <2>1, <2>2
  <2> QED BY <1>2, <1>11, <2>3 DEF PassCleanup
<1> QED
  BY <1>3, <1>4, <1>5, <1>6, <1>7, <1>8, <1>9, <1>10, <1>11 DEF MainNext

(* A listener has a socket of its own. *)
LEMMA ListenerKeepsSocket ==
  ASSUME TypeInv, TurnInv, SocketInv, NEW w \in Workers, ListenerNext(w)
  PROVE  SocketInv'
<1> USE DEF TypeInv, TypeOK
<1>1. Socket(w)
  BY DEF SocketInv
<1>2. ASSUME Socket(w)', UNCHANGED <<main, stage>>,
             \A v \in Workers \ {w} :
               /\ lock'[v] = lock[v] /\ (wedged'[v] <=> wedged[v])
               /\ req'[v] = req[v] /\ rep'[v] = rep[v] /\ lst'[v] = lst[v]
      PROVE  SocketInv'
  BY <1>2, SocketFrame DEF SocketInv
<1>3. CASE HandleStart(w)
  BY <1>3 DEF HandleStart, SocketInv, Socket
<1>4. CASE HandleStop(w)
  <2>1. lst'[w] # "reply" /\ lst[w] # "reply"
    BY <1>4 DEF HandleStop
  <2>2. \A v \in Workers \ {w} : lst'[v] = lst[v]
    BY <1>4 DEF HandleStop
  <2> QED BY <1>1, <1>2, <1>4, <2>1, <2>2 DEF HandleStop, Socket
<1>5. CASE StopDone(w)
  BY <1>1, <1>2, <1>5 DEF StopDone, Socket
<1>6. CASE CheckState(w)
  <2>1. CASE ListenerMustWait(w)
    <3>1. lst' = [lst EXCEPT ![w] = "wait"] /\ UNCHANGED <<lock, req>>
      BY <1>6, <2>1, Zenon DEF CheckState
    <3> QED BY <1>1, <1>2, <1>6, <3>1 DEF CheckState, Socket
  <2>2. CASE ~ListenerMustWait(w)
    <3>1. /\ ~wedged[w]
          /\ lock' = [lock EXCEPT ![w] = "listener"]
          /\ req' = [req EXCEPT ![w] = "state"]
          /\ lst' = [lst EXCEPT ![w] = "reply"]
      BY <1>6, <2>2, Zenon DEF CheckState
    <3>2. lock[w] = "free"
      BY <1>1, <1>6, <2>2 DEF CheckState, ListenerMustWait, Socket
    <3> QED BY <1>1, <1>2, <1>6, <3>1, <3>2 DEF CheckState, Socket
  <2> QED BY <2>1, <2>2
<1>7. CASE ListenerSend(w)
  <2>1. CASE wedged[w]
    <3>1. lst' = [lst EXCEPT ![w] = "poll"] /\ UNCHANGED <<lock, req>>
      BY <1>7, <2>1, Zenon DEF ListenerSend
    <3> QED BY <1>1, <1>2, <1>7, <3>1 DEF ListenerSend, Socket
  <2>2. CASE ~wedged[w]
    <3>1. /\ lock' = [lock EXCEPT ![w] = "listener"]
          /\ req' = [req EXCEPT ![w] = "state"]
          /\ lst' = [lst EXCEPT ![w] = "reply"]
      BY <1>7, <2>2, Zenon DEF ListenerSend
    <3> QED BY <1>1, <1>2, <1>7, <2>2, <3>1 DEF ListenerSend, Socket
  <2> QED BY <2>1, <2>2
<1>8. CASE ListenerReceive(w)
  BY <1>1, <1>2, <1>8 DEF ListenerReceive, Socket
<1>9. CASE ListenerGiveUp(w)
  BY <1>1, <1>2, <1>9 DEF ListenerGiveUp, Socket
<1> QED
  BY <1>3, <1>4, <1>5, <1>6, <1>7, <1>8, <1>9 DEF ListenerNext

(* The coordinator's reply goes to the one who asked. *)
LEMMA ServeKeepsSocket ==
  ASSUME TypeInv, TurnInv, SocketInv, NEW w \in Workers, Serve(w)
  PROVE  SocketInv'
<1>1. Socket(w)
  BY DEF SocketInv
<1> DEFINE trains == trainingActive /\ w \in trainingRanks
<1> DEFINE reply == CASE req[w] # "state"            -> "ack"
                      [] req[w] = "state" /\ trains  -> "train"
                      [] req[w] = "state" /\ ~trains -> "rest"
<1>5. /\ req[w] # "none"
      /\ req' = [req EXCEPT ![w] = "none"]
      /\ rep' = [rep EXCEPT ![w] = IF wedged[w] THEN "none" ELSE reply]
      /\ UNCHANGED <<main, stage, lst, lock, wedged>>
  BY DEF Serve, ServeRelease, ServeMark, ServeState
<1>6. IF req[w] = "state" THEN reply \in {"train", "rest"} ELSE reply = "ack"
  <2>1. CASE req[w] # "state"
    BY <2>1
  <2>2. CASE req[w] = "state" /\ trains
    BY <2>2
  <2>3. CASE req[w] = "state" /\ ~trains
    BY <2>3
  <2> QED BY <2>1, <2>2, <2>3
<1> HIDE DEF reply
<1>2. /\ req[w] # "none" /\ req'[w] = "none"
      /\ wedged[w] => rep'[w] = "none"
      /\ ~wedged[w] /\ req[w] # "state" => rep'[w] = "ack"
      /\ ~wedged[w] /\ req[w] = "state" => rep'[w] \in {"train", "rest"}
      /\ \A v \in Workers \ {w} : req'[v] = req[v] /\ rep'[v] = rep[v]
      /\ UNCHANGED <<main, stage, lst, lock, wedged>>
  BY <1>5, <1>6 DEF TypeInv, TypeOK
<1>3. Socket(w)'
  BY <1>1, <1>2 DEF Socket, TurnInv, TypeInv, TypeOK
<1>4. ASSUME NEW v \in Workers \ {w}
      PROVE  Socket(v)'
  BY <1>2, SocketFrame DEF SocketInv, TypeInv, TypeOK
<1> QED BY <1>3, <1>4 DEF SocketInv

(* Every step preserves SocketInv. *)
LEMMA StepKeepsSocket ==
  TypeInv /\ TurnInv /\ SocketInv /\ [Next]_vars => SocketInv'
<1> SUFFICES ASSUME TypeInv, TurnInv, SocketInv, [Next]_vars
             PROVE  SocketInv'
  OBVIOUS
<1>1. ASSUME UNCHANGED <<main, stage, lst, clientVars>>
      PROVE  SocketInv'
  BY <1>1, SocketFrame DEF SocketInv
<1>2. CASE StartBatch
  <2>1. \A w \in Workers : stage[w] = "call"
    BY <1>2 DEF StartBatch, TurnInv, TypeInv, TypeOK
  <2>2. \A w \in Workers : lock[w] # "main"
    BY <2>1 DEF SocketInv, Socket
  <2> QED BY <1>2, <2>2, SocketFrame DEF StartBatch, SocketInv
<1>3. ASSUME NEW w \in Workers, MainNext(w) \/ Serve(w) \/ ListenerNext(w)
      PROVE  SocketInv'
  BY <1>3, MainKeepsSocket, ServeKeepsSocket, ListenerKeepsSocket
<1>4. ASSUME NEW w \in Workers, TaskNext(w)
      PROVE  SocketInv'
  BY <1>1, <1>4
     DEF TaskNext, Activate, FailActivation, TryStep, FinishStep, LeaveLoop,
         FinishCleanup
<1>5. CASE UNCHANGED vars
  BY <1>1, <1>5 DEF vars
<1> QED BY <1>2, <1>3, <1>4, <1>5 DEF Next, Finished

-----------------------------------------------------------------------------
(* The coordinator inside the system *)

\* Who has left "init" is registered, and nobody is asked to generate before
\* all have.
RegisteredInv ==
  /\ \A w \in Workers : main[w] = "init" <=> w \notin Registered
  /\ \A w \in Workers :
       main[w] \notin {"init", "idle"} \/ req[w] \in {"release", "mark"}
         => Registered = Workers

(* A request the coordinator serves is one it would accept.                *)
LEMMA ServeIsCoordStep ==
  ASSUME TypeInv, RegisteredInv, NEW w \in Workers, Serve(w)
  PROVE  [CoordNext]_coordVars
<1>1. CASE ServeRelease(w)
  BY <1>1 DEF ServeRelease, RegisteredInv, CoordNext
<1>2. CASE ServeMark(w)
  BY <1>2 DEF ServeMark, RegisteredInv, CoordNext
<1>3. CASE ServeState(w)
  BY <1>3 DEF ServeState
<1> QED BY <1>1, <1>2, <1>3 DEF Serve

(* Every step of the system is a step of the coordinator, or none.         *)
LEMMA StepIsCoordStep ==
  TypeInv /\ RegisteredInv /\ [Next]_vars => [CoordNext]_coordVars
<1> SUFFICES ASSUME TypeInv, RegisteredInv, [Next]_vars
             PROVE  [CoordNext]_coordVars
  OBVIOUS
<1>1. CASE StartBatch
  BY <1>1 DEF StartBatch
<1>2. ASSUME NEW w \in Workers, MainNext(w)
      PROVE  [CoordNext]_coordVars
  <2>1. CASE Initialize(w)
    BY <2>1 DEF Initialize, RegisteredInv, CoordNext
  <2>2. CASE ~Initialize(w)
    BY <1>2, <2>2
       DEF MainNext, FinishGeneration, SendRequest, WaitForLock,
           LockBoundElsewhere, ReceiveReply, GiveUpReply, GiveUpLock,
           PassCleanup
  <2> QED BY <2>1, <2>2
<1>3. ASSUME NEW w \in Workers, Serve(w)
      PROVE  [CoordNext]_coordVars
  BY <1>3, ServeIsCoordStep
<1>4. ASSUME NEW w \in Workers, ListenerNext(w)
      PROVE  [CoordNext]_coordVars
  BY <1>4
     DEF ListenerNext, HandleStart, HandleStop, StopDone, CheckState,
         ListenerSend, ListenerReceive, ListenerGiveUp
<1>5. ASSUME NEW w \in Workers, TaskNext(w)
      PROVE  [CoordNext]_coordVars
  BY <1>5
     DEF TaskNext, Activate, FailActivation, TryStep, FinishStep, LeaveLoop,
         FinishCleanup
<1>6. CASE UNCHANGED vars
  BY <1>6 DEF vars
<1> QED BY <1>1, <1>2, <1>3, <1>4, <1>5, <1>6 DEF Next, Finished

(* Nothing unregisters a worker.                                           *)
LEMMA RegisteredGrows ==
  ASSUME TypeInv, [CoordNext]_coordVars
  PROVE  Registered \subseteq Registered'
<1>1. ASSUME NEW w \in Workers, Register(w) \/ StartGeneration(w)
      PROVE  Registered \subseteq Registered'
  BY <1>1
     DEF Register, StartGeneration, Registered, Unregistered, TypeInv, TypeOK,
         CoordTypeOK
<1>2. ASSUME NEW w \in Workers, Release(w)
      PROVE  Registered \subseteq Registered'
  <2>1. \A v \in Registered : AfterRelease(w)[v] # Unregistered
    BY DEF AfterRelease, Registered, Unregistered
  <2>2. \A v \in Workers : wstate'[v] \in {AfterRelease(w)[v], "training"}
    BY <1>2 DEF Release, CheckAndStartTraining, AfterRelease
  <2> QED BY <2>1, <2>2 DEF Registered, Unregistered
<1>3. ASSUME NEW w \in Workers, MarkCompleted(w)
      PROVE  Registered \subseteq Registered'
  BY <1>3
     DEF MarkCompleted, AfterMark, Registered, Unregistered, TypeInv, TypeOK,
         CoordTypeOK
<1>4. CASE UNCHANGED coordVars
  BY <1>4 DEF Registered
<1> QED BY <1>1, <1>2, <1>3, <1>4 DEF CoordNext

(* No main thread releases before all workers are registered. *)
LEMMA MainKeepsRegistered ==
  ASSUME TypeInv, TurnInv, RegisteredInv, NEW w \in Workers, MainNext(w)
  PROVE  RegisteredInv'
<1> USE DEF TypeInv, TypeOK
<1>1. CASE Initialize(w)
  <2>1. Registered' = Registered \cup {w}
    BY <1>1
       DEF Initialize, Register, Registered, Unregistered, CoordTypeOK
  <2> QED BY <1>1, <2>1 DEF Initialize, RegisteredInv
<1>2. CASE ~Initialize(w)
  <2>1. wstate' = wstate /\ main[w] \notin {"init", "idle"}
    BY <1>2
       DEF MainNext, FinishGeneration, SendRequest, WaitForLock,
           LockBoundElsewhere, ReceiveReply, GiveUpReply, GiveUpLock,
           PassCleanup, TurnInv
  <2>2. Registered' = Registered /\ Registered = Workers
    BY <2>1 DEF Registered, RegisteredInv
  <2>3. \A v \in Workers : main'[v] # "init"
    BY <1>2, <2>2
       DEF MainNext, FinishGeneration, SendRequest, Proceed, WaitForLock,
           LockBoundElsewhere, ReceiveReply, GiveUpReply, GiveUpLock,
           PassCleanup, RegisteredInv
  <2> QED BY <2>2, <2>3 DEF RegisteredInv
<1> QED BY <1>1, <1>2

(* Every step preserves RegisteredInv. *)
LEMMA StepKeepsRegistered ==
  TypeInv /\ TurnInv /\ RegisteredInv /\ [Next]_vars => RegisteredInv'
<1> SUFFICES ASSUME TypeInv, TurnInv, RegisteredInv, [Next]_vars
             PROVE  RegisteredInv'
  OBVIOUS
<1>1. ASSUME UNCHANGED <<wstate, main>>,
             \A v \in Workers : req'[v] \in {req[v], "none", "state"}
      PROVE  RegisteredInv'
  BY <1>1 DEF RegisteredInv, Registered
<1>2. CASE StartBatch
  BY <1>2 DEF StartBatch, RegisteredInv, Registered
<1>3. ASSUME NEW w \in Workers, MainNext(w)
      PROVE  RegisteredInv'
  BY <1>3, MainKeepsRegistered
<1>4. ASSUME NEW w \in Workers, Serve(w)
      PROVE  RegisteredInv'
  <2>1. CASE ServeState(w)
    BY <1>1, <1>4, <2>1 DEF ServeState, Serve, TypeInv, TypeOK
  <2>2. CASE ServeRelease(w) \/ ServeMark(w)
    <3>1. Registered = Workers
      BY <2>2 DEF ServeRelease, ServeMark, RegisteredInv
    <3>2. Registered' = Workers
      BY <1>4, <3>1, ServeIsCoordStep, RegisteredGrows DEF Registered
    <3> QED BY <1>4, <3>1, <3>2 DEF Serve, RegisteredInv
  <2> QED BY <1>4, <2>1, <2>2 DEF Serve
<1>5. ASSUME NEW w \in Workers, ListenerNext(w)
      PROVE  RegisteredInv'
  BY <1>1, <1>5
     DEF ListenerNext, HandleStart, HandleStop, StopDone, CheckState,
         ListenerSend, ListenerReceive, ListenerGiveUp, TypeInv, TypeOK
<1>6. ASSUME NEW w \in Workers, TaskNext(w)
      PROVE  RegisteredInv'
  BY <1>1, <1>6
     DEF TaskNext, Activate, FailActivation, TryStep, FinishStep, LeaveLoop,
         FinishCleanup
<1>7. CASE UNCHANGED vars
  BY <1>1, <1>7 DEF vars
<1> QED BY <1>2, <1>3, <1>4, <1>5, <1>6, <1>7 DEF Next, Finished

\* All that the proofs below need of a reachable state.
ProtocolInv ==
  TypeInv /\ TurnInv /\ SocketInv /\ RegisteredInv

(* The invariant of the protocol always holds. *)
LEMMA ProtocolAlways == Spec => []ProtocolInv
<1>1. Init => ProtocolInv
  <2> SUFFICES ASSUME Init PROVE ProtocolInv
    OBVIOUS
  <2>1. TurnInv /\ SocketInv
    BY DEF Init, TurnInv, SocketInv, Socket
  <2>2. RegisteredInv
    BY DEF Init, CoordInit, RegisteredInv, Registered, Unregistered
  <2> QED BY <2>1, <2>2, InitType DEF ProtocolInv
<1>2. ProtocolInv /\ [Next]_vars => ProtocolInv'
  BY StepType, StepKeepsTurn, StepKeepsSocket, StepKeepsRegistered
     DEF ProtocolInv
<1> QED BY <1>1, <1>2, PTL DEF Spec

(* On the socket two threads share, no answer ever reaches the thread that *)
(* did not ask for it, whatever requests are given up and whenever.        *)
THEOREM AnswersMatch == Spec => []AnswerMatchesRequest
<1>1. ProtocolInv => AnswerMatchesRequest
  BY DEF ProtocolInv, SocketInv, Socket, AnswerMatchesRequest
<1> QED BY <1>1, ProtocolAlways, PTL

(* The coordinator in the system is the coordinator specified on its own:  *)
(* its clients never send what its specification does not allow.           *)
THEOREM ImplementsCoordinator == Spec => CoordSpec
<1>1. Init => CoordInit
  BY DEF Init
<1>2. ProtocolInv /\ [Next]_vars => [CoordNext]_coordVars
  BY StepIsCoordStep DEF ProtocolInv
<1> QED BY <1>1, <1>2, ProtocolAlways, PTL DEF Spec, CoordSpec

(* So whatever the threads do and whatever is lost, a session lends        *)
(* exactly its quota of whole groups, and none of them is finished.        *)
THEOREM LeaseInSystem == Spec => LeaseRefinement
<1> QED BY ImplementsCoordinator, CoordinatorKeepsLease

-----------------------------------------------------------------------------
(* Training and the coordinator's session *)

\* A worker outside the session that trains, or is about to, has a STOP
\* coming, and a START it has not seen is followed by one.
SessionInv ==
  \A w \in Workers \ trainingRanks :
    /\ inbox[w] = <<>> => ~active[w] /\ rep[w] # "train"
    /\ inbox[w] # <<>> => inbox[w][Len(inbox[w])] = "stop"

(* Broadcasts that are not lost end the queue of every worker they are for *)
(* and leave the others alone.                                             *)
LEMMA BroadcastEnds ==
  ASSUME 0 \notin Deliveries, TypeInv, NEW event \in {"start", "stop"},
         NEW ranks, Broadcast(event, ranks), NEW w \in Workers
  PROVE  IF w \in ranks
           THEN inbox'[w] # <<>> /\ inbox'[w][Len(inbox'[w])] = event
           ELSE inbox'[w] = inbox[w]
<1>1. PICK copies \in [Workers -> Deliveries] :
        inbox' = [v \in Workers |->
                    IF v \in ranks
                      THEN inbox[v] \o [i \in 1..copies[v] |-> event]
                      ELSE inbox[v]]
  BY DEF Broadcast
<1>2. CASE w \in ranks
  <2> DEFINE n == copies[w]
  <2> DEFINE news == [i \in 1..n |-> event]
  <2>1. n \in 0..3 /\ n # 0
    BY ProtocolAssumption, Zenon DEF Broadcast
  <2>2. n \in Nat \ {0}
    BY <2>1
  <2> HIDE DEF n
  <2>3. news \in Seq({"start", "stop"}) /\ Len(news) = n /\ news[n] = event
    BY <2>2
  <2>4. inbox[w] \in Seq({"start", "stop"})
    BY DEF TypeInv, TypeOK
  <2> HIDE DEF news
  <2>5. /\ Len(inbox[w] \o news) = Len(inbox[w]) + n
        /\ (inbox[w] \o news)[Len(inbox[w]) + n] = event
    BY <2>2, <2>3, <2>4
  <2>6. inbox'[w] = inbox[w] \o news
    BY <1>1, <1>2 DEF n, news
  <2>7. inbox'[w] # <<>>
    BY <2>2, <2>4, <2>5, <2>6
  <2> QED BY <1>2, <2>5, <2>6, <2>7
<1>3. CASE w \notin ranks
  BY <1>1, <1>3
<1> QED BY <1>2, <1>3

(* Without lost messages, what is served preserves the session's           *)
(* invariant.                                                              *)
LEMMA ServeKeepsSession ==
  ASSUME 0 \notin Deliveries, ProtocolInv, CoordInv, SessionInv,
         NEW w \in Workers, Serve(w)
  PROVE  SessionInv'
<1> USE DEF ProtocolInv, TypeInv, TypeOK
<1>1. /\ \A v \in Workers \ {w} : rep'[v] = rep[v]
      /\ rep'[w] = "train" => w \in trainingRanks /\ req[w] = "state"
      /\ UNCHANGED active
  BY DEF Serve
<1>2. CASE ServeRelease(w)
  <2>1. req[w] = "release" /\ Release(w)
    BY <1>2 DEF ServeRelease
  <2>2. CASE StartsTraining(w)
    <3>1. trainingRanks' = trainingRanks \cup StartedRanks(w)
      BY <2>1, <2>2
         DEF Release, CheckAndStartTraining, StartsTraining, StartedRanks
    <3>2. Broadcast("start", StartedRanks(w))
      BY <1>2, <2>2 DEF ServeRelease
    <3>3. \A v \in Workers \ trainingRanks' : inbox'[v] = inbox[v]
      BY <3>1, <3>2, BroadcastEnds
    <3> QED BY <1>1, <2>1, <3>1, <3>3 DEF SessionInv
  <2>3. CASE ~StartsTraining(w)
    <3>1. UNCHANGED <<trainingRanks, inbox>>
      BY <1>2, <2>1, <2>3
         DEF ServeRelease, Release, CheckAndStartTraining, StartsTraining
    <3> QED BY <1>1, <2>1, <3>1 DEF SessionInv
  <2> QED BY <2>2, <2>3
<1>3. CASE ServeMark(w)
  <2>1. req[w] = "mark" /\ MarkCompleted(w)
    BY <1>3 DEF ServeMark
  <2>2. CASE StopsTraining(w)
    <3>1. Broadcast("stop", Workers)
      BY <1>3, <2>2 DEF ServeMark
    <3> QED BY <1>1, <2>1, <3>1, BroadcastEnds DEF SessionInv
  <2>3. CASE ~StopsTraining(w)
    <3>1. UNCHANGED <<trainingRanks, inbox>>
      BY <1>3, <2>1, <2>3 DEF ServeMark, MarkCompleted
    <3> QED BY <1>1, <2>1, <3>1 DEF SessionInv
  <2> QED BY <2>2, <2>3
<1>4. CASE ServeState(w)
  BY <1>1, <1>4 DEF ServeState, SessionInv, coordVars
<1> QED BY <1>2, <1>3, <1>4 DEF Serve

(* A queue without its head ends as before, unless nothing is left of it.  *)
LEMMA LastOfTail ==
  ASSUME NEW S, NEW q \in Seq(S), q # <<>>
  PROVE  IF Tail(q) = <<>> THEN Head(q) = q[Len(q)]
                           ELSE Tail(q)[Len(Tail(q))] = q[Len(q)]
<1>1. Len(q) \in Nat \ {0}
  OBVIOUS
<1>2. Tail(q) \in Seq(S) /\ Len(Tail(q)) = Len(q) - 1
  BY <1>1
<1>3. CASE Tail(q) = <<>>
  <2>1. Len(q) = 1
    <3>1. Len(Tail(q)) = 0
      <4>1. Len(<<>>) = 0
        OBVIOUS
      <4> QED BY <1>3, <4>1, Zenon
    <3>2. Len(q) - 1 = 0
      BY <1>2, <3>1, Zenon
    <3>3. \A m \in Nat \ {0} : m - 1 = 0 => m = 1
      OBVIOUS
    <3> QED BY <1>1, <3>2, <3>3, Zenon
  <2> QED BY <1>3, <2>1
<1>4. CASE Tail(q) # <<>>
  <2>1. Len(q) - 1 \in 1..Len(q) - 1
    BY <1>1, <1>2, <1>4
  <2>2. Tail(q)[Len(q) - 1] = q[Len(q)]
    BY <1>1, <2>1
  <2> QED BY <1>2, <1>4, <2>2
<1> QED BY <1>3, <1>4

(* Starting to train is covered: a worker outside the session that starts  *)
(* has a STOP behind what made it start.                                   *)
LEMMA ListenerKeepsSession ==
  ASSUME ProtocolInv, SessionInv, NEW w \in Workers, ListenerNext(w)
  PROVE  SessionInv'
<1> USE DEF ProtocolInv, TypeInv, TypeOK
<1>1. ASSUME UNCHANGED <<trainingRanks, inbox>>,
             \A v \in Workers : active'[v] => active[v],
             \A v \in Workers : rep'[v] = "train" => rep[v] = "train"
      PROVE  SessionInv'
  BY <1>1 DEF SessionInv
<1>2. ASSUME UNCHANGED trainingRanks, lst[w] = "poll", UNCHANGED rep,
             inbox[w] # <<>>, inbox' = [inbox EXCEPT ![w] = Tail(@)],
             \A v \in Workers \ {w} : active'[v] <=> active[v],
             Head(inbox[w]) = "stop" => ~active'[w]
      PROVE  SessionInv'
  <2>1. \A v \in Workers \ {w} : inbox'[v] = inbox[v]
    BY <1>2
  <2>2. inbox[w] \in Seq({"start", "stop"}) /\ inbox'[w] = Tail(inbox[w])
    BY <1>2
  <2>3. rep[w] # "train"
    BY <1>2 DEF SocketInv, Socket
  <2>4. ASSUME w \notin trainingRanks
        PROVE  /\ inbox'[w] = <<>> => ~active'[w]
               /\ inbox'[w] # <<>> => inbox'[w][Len(inbox'[w])] = "stop"
    <3>1. inbox[w][Len(inbox[w])] = "stop"
      BY <1>2, <2>4 DEF SessionInv
    <3>2. IF inbox'[w] = <<>>
            THEN Head(inbox[w]) = inbox[w][Len(inbox[w])]
            ELSE inbox'[w][Len(inbox'[w])] = inbox[w][Len(inbox[w])]
      BY <1>2, <2>2, LastOfTail, Zenon
    <3>3. inbox'[w] = <<>> => ~active'[w]
      BY <1>2, <3>1, <3>2, Zenon
    <3> QED BY <3>1, <3>2, <3>3, Zenon
  <2> QED BY <1>2, <2>1, <2>3, <2>4 DEF SessionInv
<1>3. CASE HandleStart(w)
  <2>1. \A v \in Workers \ {w} : active'[v] <=> active[v]
    BY <1>3 DEF HandleStart, StartTraining
  <2> QED BY <1>2, <1>3, <2>1 DEF HandleStart
<1>4. CASE HandleStop(w)
  <2>1. (\A v \in Workers \ {w} : active'[v] <=> active[v]) /\ ~active'[w]
    <3>1. CASE active[w]
      <4>1. active' = [active EXCEPT ![w] = FALSE]
        BY <1>4, <3>1, Zenon DEF HandleStop
      <4> QED BY <4>1
    <3>2. CASE ~active[w]
      <4>1. UNCHANGED <<stopEvent, active, trainerOn, lst>>
        BY <1>4, <3>2, Zenon DEF HandleStop
      <4> QED BY <3>2, <4>1
    <3> QED BY <3>1, <3>2
  <2> QED BY <1>2, <1>4, <2>1 DEF HandleStop
<1>5. CASE StopDone(w) \/ CheckState(w) \/ ListenerSend(w) \/ ListenerGiveUp(w)
  BY <1>1, <1>5 DEF StopDone, CheckState, ListenerSend, ListenerGiveUp
<1>6. CASE ListenerReceive(w)
  <2>1. CASE rep[w] = "train"
    <3>1. \A v \in Workers \ {w} : active'[v] <=> active[v]
      BY <1>6, <2>1 DEF ListenerReceive, StartTraining
    <3>2. w \notin trainingRanks => inbox[w] # <<>>
      BY <2>1 DEF SessionInv
    <3> QED BY <1>6, <3>1, <3>2 DEF ListenerReceive, SessionInv
  <2>2. CASE rep[w] # "train"
    BY <1>1, <1>6, <2>2 DEF ListenerReceive
  <2> QED BY <2>1, <2>2
<1> QED BY <1>3, <1>4, <1>5, <1>6 DEF ListenerNext

(* And so does every other step. *)
LEMMA StepKeepsSession ==
  ASSUME 0 \notin Deliveries, ProtocolInv, CoordInv, SessionInv, [Next]_vars
  PROVE  SessionInv'
<1> USE DEF ProtocolInv, TypeInv, TypeOK
<1>1. ASSUME UNCHANGED <<trainingRanks, inbox>>,
             \A v \in Workers : active'[v] => active[v],
             \A v \in Workers : rep'[v] = "train" => rep[v] = "train"
      PROVE  SessionInv'
  BY <1>1 DEF SessionInv
<1>2. CASE StartBatch
  BY <1>1, <1>2 DEF StartBatch
<1>3. ASSUME NEW w \in Workers, MainNext(w)
      PROVE  SessionInv'
  BY <1>1, <1>3
     DEF MainNext, Initialize, Register, FinishGeneration, SendRequest,
         WaitForLock, LockBoundElsewhere, ReceiveReply, GiveUpReply,
         GiveUpLock, PassCleanup
<1>4. ASSUME NEW w \in Workers, Serve(w) \/ ListenerNext(w)
      PROVE  SessionInv'
  BY <1>4, ServeKeepsSession, ListenerKeepsSession
<1>5. ASSUME NEW w \in Workers, TaskNext(w)
      PROVE  SessionInv'
  BY <1>1, <1>5
     DEF TaskNext, Activate, FailActivation, TryStep, FinishStep, LeaveLoop,
         FinishCleanup
<1>6. CASE UNCHANGED vars
  BY <1>1, <1>6 DEF vars
<1> QED BY <1>2, <1>3, <1>4, <1>5, <1>6 DEF Next, Finished

(* While no broadcast is lost, a worker that has handled all of them       *)
(* trains only in a session the coordinator still holds.                   *)
THEOREM TrainingInSession ==
  ASSUME 0 \notin Deliveries
  PROVE  Spec => []TrainsInSession
<1>1. Init => SessionInv
  BY DEF Init, SessionInv
<1>2. ProtocolInv /\ CoordInv /\ SessionInv /\ [Next]_vars => SessionInv'
  BY StepKeepsSession
<1>3. SessionInv => TrainsInSession
  BY DEF SessionInv, TrainsInSession
<1> QED
  BY <1>1, <1>2, <1>3, ProtocolAlways, ImplementsCoordinator, CoordInvariance,
     PTL DEF Spec
=============================================================================
