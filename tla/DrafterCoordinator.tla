-------------------------- MODULE DrafterCoordinator --------------------------
(***************************************************************************)
(* The CentralCoordinator of worker_manager.py: one REP server that hears  *)
(* which rollout workers have freed their GPU and decides when the drafter *)
(* trains on the freed ones.  Its run loop serves one request at a time,   *)
(* broadcasts included, so a handler is one action.  What a handler        *)
(* broadcasts is a state function here (StartsTraining, StopsTraining,     *)
(* AnnouncesBatch); the module that has subscribers delivers it.           *)
(*                                                                         *)
(* Any client may send any request in any order; only registration comes   *)
(* first, because every worker registers while its model is initialised,   *)
(* before the driver asks any of them to generate.                         *)
(***************************************************************************)
EXTENDS Naturals, FiniteSets

CONSTANTS
  Workers,     \* the process ranks, each a client of the coordinator
  DpOf,        \* the data-parallel rank of each worker, a natural number
  MinWorkers   \* min_workers_for_training: DP ranks per training session

ASSUME CoordinatorAssumption ==
  /\ IsFiniteSet(Workers)
  /\ DpOf \in [Workers -> Nat]
  /\ MinWorkers \in Nat \ {0}

VARIABLES
  wstate,          \* worker_states: what each worker last reported
  trainingActive,  \* training_active
  trainingRanks    \* training_ranks

coordVars == <<wstate, trainingActive, trainingRanks>>

WorkerState == {"idle", "generating", "released", "training", "completed"}
Unregistered == "unregistered"  \* not a key of worker_states

TpGroup(w) == {v \in Workers : DpOf[v] = DpOf[w]}
Registered == {w \in Workers : wstate[w] # Unregistered}

CoordTypeOK ==
  /\ wstate \in [Workers -> WorkerState \cup {Unregistered}]
  /\ trainingActive \in BOOLEAN
  /\ trainingRanks \in SUBSET Workers

CoordInit ==
  /\ wstate = [w \in Workers |-> Unregistered]
  /\ trainingActive = FALSE
  /\ trainingRanks = {}

-----------------------------------------------------------------------------
(* Choosing who trains *)

ReleasedDps(ws) == {DpOf[w] : w \in {v \in Workers : ws[v] = "released"}}

\* sorted(dps)[:MinWorkers], for at least MinWorkers ranks
FirstDps(dps) ==
  CHOOSE S \in SUBSET dps :
    /\ Cardinality(S) = MinWorkers
    /\ \A d \in S, e \in dps \ S : d < e

\* Mutant of RanksOf: the tensor-parallel ranks of a DP rank are forgotten.
LeadersOf(dps) ==
  {w \in Workers : DpOf[w] \in dps /\ \A v \in TpGroup(w) : w = v \/ w < v}

RanksOf(dps) == {w \in Workers : DpOf[w] \in dps}

\* Mutant of CanStart: the early return on training_active is gone.
CanStartTwice(ws) == Cardinality(ReleasedDps(ws)) >= MinWorkers

\* Enough DP ranks are released, in the states ws, and nobody trains.
CanStart(ws) ==
  /\ ~trainingActive
  /\ Cardinality(ReleasedDps(ws)) >= MinWorkers

\* Mutant of CheckAndStartTraining: the chosen ranks keep their state.
StartUnmarked(ws) ==
  LET chosen == RanksOf(FirstDps(ReleasedDps(ws)))
  IN /\ wstate' = ws
     /\ trainingRanks' = IF CanStart(ws) THEN trainingRanks \cup chosen
                                        ELSE trainingRanks
     /\ trainingActive' = (trainingActive \/ CanStart(ws))

\* _check_and_start_training, run on the states ws the caller has just set
CheckAndStartTraining(ws) ==
  LET chosen == RanksOf(FirstDps(ReleasedDps(ws)))
  IN IF CanStart(ws)
       THEN /\ wstate' = [w \in Workers |->
                            IF w \in chosen THEN "training" ELSE ws[w]]
            /\ trainingRanks' = trainingRanks \cup chosen
            /\ trainingActive' = TRUE
       ELSE /\ wstate' = ws
            /\ UNCHANGED <<trainingActive, trainingRanks>>

-----------------------------------------------------------------------------
(* The requests *)

Register(w) ==
  /\ wstate' = [wstate EXCEPT ![w] = "idle"]
  /\ UNCHANGED <<trainingActive, trainingRanks>>

StartGeneration(w) ==
  /\ w \in Registered
  /\ wstate' = [wstate EXCEPT ![w] = "generating"]
  /\ UNCHANGED <<trainingActive, trainingRanks>>

\* One rank speaks for all tensor-parallel ranks of its DP rank.
AfterRelease(w) ==
  [v \in Workers |-> IF v \in TpGroup(w) \cap Registered
                       THEN "released" ELSE wstate[v]]

Release(w) ==
  /\ w \in Registered
  /\ CheckAndStartTraining(AfterRelease(w))

\* Mutant of AfterMark: the worker is forgotten.
AfterMarkForgets(w) == [wstate EXCEPT ![w] = "done"]

AfterMark(w) == [wstate EXCEPT ![w] = "completed"]

AllCompleted(ws) == \A v \in Registered : ws[v] = "completed"

\* Mutant of StopsTraining: only the second reason of line 215.
StopsWhenAllDone(w) == trainingActive /\ AllCompleted(AfterMark(w))

\* should_stop_training
StopsTraining(w) ==
  trainingActive /\ (w \in trainingRanks \/ AllCompleted(AfterMark(w)))

MarkCompleted(w) ==
  /\ w \in Registered
  /\ wstate' = AfterMark(w)
  /\ IF StopsTraining(w)
       THEN trainingActive' = FALSE /\ trainingRanks' = {}
       ELSE UNCHANGED <<trainingActive, trainingRanks>>

\* What the handlers broadcast: the ranks START_TRAINING names, and whether
\* BATCH_COMPLETE goes out.
StartsTraining(w) == CanStart(AfterRelease(w))
StartedRanks(w) == RanksOf(FirstDps(ReleasedDps(AfterRelease(w))))
AnnouncesBatch(w) == AllCompleted(AfterMark(w))

CoordNext ==
  \/ \E w \in Workers \ Registered : Register(w)
  \/ /\ Registered = Workers
     /\ \E w \in Workers : StartGeneration(w) \/ Release(w) \/ MarkCompleted(w)

CoordSpec == CoordInit /\ [][CoordNext]_coordVars

-----------------------------------------------------------------------------
(* Properties *)

(* No training rank has reported its batch finished: the first holder of   *)
(* the session to report takes the whole session down (lines 207-227), so  *)
(* a finished worker is never left training into the next batch.           *)
NoFinishedTrainer ==
  \A w \in trainingRanks : wstate[w] # "completed"

(* A session lends exactly MinWorkers DP ranks, each with all of its TP    *)
(* ranks (lines 250-271); without a session nothing is lent.  The          *)
(* tensor-parallel drafter cannot train on part of a group.                *)
WholeQuota ==
  /\ \A w \in trainingRanks : TpGroup(w) \subseteq trainingRanks
  /\ Cardinality({DpOf[w] : w \in trainingRanks}) =
       IF trainingActive THEN MinWorkers ELSE 0

(* The code stops on "any training worker completes OR all workers         *)
(* complete" (line 215): the second can never be the only reason.          *)
StopNeedsTrainer ==
  \A w \in Registered : StopsTraining(w) => w \in trainingRanks

(* A session never changes hands: its ranks only change from or to none,   *)
(* and while it lasts nobody but its own ranks can end it.                 *)
SessionIntact ==
  [][\/ trainingRanks' = trainingRanks
     \/ trainingRanks = {}
     \/ /\ trainingRanks' = {}
        /\ \E w \in trainingRanks : wstate'[w] = "completed"]_coordVars

(* The coordinator keeps the promise of TrainingLease. *)
Lease == INSTANCE TrainingLease WITH
           Groups   <- {TpGroup(w) : w \in Workers},
           Quota    <- MinWorkers,
           holders  <- trainingRanks,
           finished <- {w \in Workers : wstate[w] = "completed"}
LeaseRefinement == Lease!LeaseSpec
=============================================================================
