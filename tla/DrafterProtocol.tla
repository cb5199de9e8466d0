--------------------------- MODULE DrafterProtocol ---------------------------
(***************************************************************************)
(* Rollout workers, their drafter managers and the coordinator together.   *)
(* Every worker is two threads of one process: the main thread generates a *)
(* batch, tells the coordinator that its GPU is free, marks its batch      *)
(* completed and waits for the others; the listener thread follows the     *)
(* coordinator's broadcasts and runs the drafter's training task on its    *)
(* own event loop.  The two share one WorkerClient: one REQ socket behind  *)
(* one asyncio lock.  Broadcasts may reach a worker several times, late or *)
(* never.                                                                  *)
(***************************************************************************)
EXTENDS DrafterCoordinator, Sequences

CONSTANTS
  MultiTurn,    \* the multi-turn rollout path, or the single-turn one
  Interval,     \* training_interval_steps
  MaxSteps,     \* max_steps of one training loop (200 in the code)
  Deliveries,   \* how many of the 3 copies of a broadcast may arrive
  Faults,       \* what may go wrong, see FaultKinds
  MaxBatches,   \* bound: how many batches are generated
  MaxChecks     \* bound: how many state checks a worker starts

FaultKinds == {
  "activation",  \* activate_training_model returns False
  "request",     \* a request outlives the client's patience
  "cleanup",     \* training cleanup outlives the main thread's 10 seconds
  "stop"}        \* training cleanup outlives the listener's 5 seconds

ASSUME ProtocolAssumption ==
  /\ Workers \subseteq Nat
  /\ MultiTurn \in BOOLEAN
  /\ Interval \in Nat \ {0} /\ MaxSteps \in Nat \ {0}
  /\ MaxBatches \in Nat /\ MaxChecks \in Nat
  /\ Deliveries \subseteq 0..3 /\ Deliveries # {}
  /\ Faults \subseteq FaultKinds

VARIABLES
  batch,        \* batches started; the RL step of the current one is batch-1
  main, stage,  \* where the main thread is, and how far its request has got
  lst, checks,  \* where the listener thread is, and its state checks
  lock,         \* who holds WorkerClient._lock
  loopOf,       \* the event loop the lock is bound to, by its first waiter
  wedged,       \* the REQ socket owes a receive: every later send fails
  req, rep,     \* the request and the reply in flight
  inbox,        \* broadcasts on their way or received, not yet handled
  active,       \* _training_active of the manager
  stopEvent,    \* _training_stop_event
  cleanupDone,  \* _training_cleanup_complete
  task, steps,  \* where the training task is, and its step counter
  trainerOn,    \* is_training_active of the background trainer
  resident      \* the drafter or its optimizer is loaded on the GPU

mainVars == <<batch, main, stage>>
clientVars == <<lock, loopOf, wedged, req, rep>>
managerVars == <<active, stopEvent, cleanupDone>>
taskVars == <<task, steps, trainerOn, resident>>
lstVars == <<lst, checks>>
vars == <<coordVars, mainVars, lstVars, clientVars, inbox, managerVars,
          taskVars>>

MainPC == {"init", "idle", "generate", "release", "mark", "cleanup", "barrier",
           "killed"}

TypeOK ==
  /\ CoordTypeOK
  /\ batch \in 0..MaxBatches
  /\ main \in [Workers -> MainPC]
  /\ stage \in [Workers -> {"call", "wait", "reply"}]
  /\ lst \in [Workers -> {"poll", "wait", "reply", "stopping"}]
  /\ checks \in [Workers -> 0..MaxChecks]
  /\ lock \in [Workers -> {"free", "main", "listener"}]
  /\ loopOf \in [Workers -> {"none", "main", "listener"}]
  /\ wedged \in [Workers -> BOOLEAN]
  /\ req \in [Workers -> {"none", "release", "mark", "state"}]
  /\ rep \in [Workers -> {"none", "ack", "train", "rest"}]
  /\ inbox \in [Workers -> Seq({"start", "stop"})]
  /\ active \in [Workers -> BOOLEAN]
  /\ stopEvent \in [Workers -> BOOLEAN]
  /\ cleanupDone \in [Workers -> BOOLEAN]
  /\ task \in [Workers -> {"none", "starting", "loop", "step", "cleanup"}]
  /\ steps \in [Workers -> 0..MaxSteps + 1]
  /\ trainerOn \in [Workers -> BOOLEAN]
  /\ resident \in [Workers -> BOOLEAN]

Init ==
  /\ CoordInit
  /\ batch = 0
  /\ main = [w \in Workers |-> "init"]
  /\ stage = [w \in Workers |-> "call"]
  /\ lst = [w \in Workers |-> "poll"]
  /\ checks = [w \in Workers |-> 0]
  /\ lock = [w \in Workers |-> "free"]
  /\ loopOf = [w \in Workers |-> "none"]
  /\ wedged = [w \in Workers |-> FALSE]
  /\ req = [w \in Workers |-> "none"]
  /\ rep = [w \in Workers |-> "none"]
  /\ inbox = [w \in Workers |-> <<>>]
  /\ active = [w \in Workers |-> FALSE]
  /\ stopEvent = [w \in Workers |-> FALSE]
  /\ cleanupDone = [w \in Workers |-> TRUE]
  /\ task = [w \in Workers |-> "none"]
  /\ steps = [w \in Workers |-> 0]
  /\ trainerOn = [w \in Workers |-> FALSE]
  /\ resident = [w \in Workers |-> FALSE]

-----------------------------------------------------------------------------
(* The main thread: the batch *)

\* tp_rank 0, the rank whose engine generates for its group
Leads(w) == \A v \in TpGroup(w) : w <= v

ShouldTrain == (batch - 1) % Interval = 0

\* initialize() registers before the listener thread starts.
Initialize(w) ==
  /\ main[w] = "init"
  /\ Register(w)
  /\ main' = [main EXCEPT ![w] = "idle"]
  /\ UNCHANGED <<batch, stage, lstVars, clientVars, inbox, managerVars,
                 taskVars>>

\* All ranks leave the barrier that ends a batch, and the driver asks for the
\* next one.
StartBatch ==
  /\ batch < MaxBatches
  /\ \A w \in Workers : main[w] \in {"idle", "barrier"}
  /\ batch' = batch + 1
  /\ main' = [w \in Workers |-> "generate"]
  /\ UNCHANGED <<coordVars, stage, lstVars, clientVars, inbox, managerVars,
                 taskVars>>

\* The engine of a group returns.  In the multi-turn path every rank of the
\* group goes on to release; in the single-turn path only its leader does, and
\* the others stay at the barrier of the group.
FinishGeneration(w) ==
  /\ Leads(w) /\ main[w] = "generate"
  /\ LET next == IF ShouldTrain THEN "release" ELSE "mark"
         goers == IF MultiTurn \/ ~ShouldTrain THEN TpGroup(w) ELSE {w}
     IN main' = [v \in Workers |-> IF v \in goers THEN next ELSE main[v]]
  /\ UNCHANGED <<coordVars, batch, stage, lstVars, clientVars, inbox,
                 managerVars, taskVars>>

\* The call the main thread is in returns, with an answer or without.
Proceed(w) ==
  /\ stage' = [stage EXCEPT ![w] = "call"]
  /\ main' = [v \in Workers |->
                CASE main[w] = "release" /\ v \in TpGroup(w)
                       /\ (v = w \/ ~MultiTurn) -> "mark"
                  [] main[w] = "mark" /\ v = w -> "cleanup"
                  [] OTHER -> main[v]]
  /\ UNCHANGED batch

\* asyncio.Lock is first come first served: who finds it held, or finds
\* somebody waiting for it, waits.
MainMustWait(w) == lock[w] = "listener" \/ lst[w] = "wait"
ListenerMustWait(w) == lock[w] = "main" \/ stage[w] = "wait"

\* The lock is acquired: send, unless the socket still owes a receive, when the
\* ZMQError of the send counts as an answer.
SendRequest(w) ==
  /\ main[w] \in {"release", "mark"}
  /\ \/ stage[w] = "call" /\ ~MainMustWait(w)
     \/ stage[w] = "wait" /\ lock[w] = "free"
  /\ IF wedged[w]
       THEN /\ Proceed(w)
            /\ UNCHANGED clientVars
       ELSE /\ lock' = [lock EXCEPT ![w] = "main"]
            /\ req' = [req EXCEPT ![w] = main[w]]
            /\ stage' = [stage EXCEPT ![w] = "reply"]
            /\ UNCHANGED <<batch, main, loopOf, wedged, rep>>
  /\ UNCHANGED <<coordVars, lstVars, inbox, managerVars, taskVars>>

\* The lock is not to be had: wait.  The first wait ever binds the lock to the
\* waiter's event loop.
WaitForLock(w) ==
  /\ main[w] \in {"release", "mark"} /\ stage[w] = "call"
  /\ MainMustWait(w) /\ loopOf[w] # "listener"
  /\ loopOf' = [loopOf EXCEPT ![w] = "main"]
  /\ stage' = [stage EXCEPT ![w] = "wait"]
  /\ UNCHANGED <<coordVars, batch, main, lstVars, lock, wedged, req, rep,
                 inbox, managerVars, taskVars>>

\* The lock is not to be had and is bound to the listener's loop: acquire()
\* raises RuntimeError.  Only the single-turn release lets it escape.
LockBoundElsewhere(w) ==
  /\ main[w] \in {"release", "mark"} /\ stage[w] = "call"
  /\ MainMustWait(w) /\ loopOf[w] = "listener"
  /\ IF main[w] = "release" /\ ~MultiTurn
       THEN /\ main' = [main EXCEPT ![w] = "killed"]
            /\ UNCHANGED <<batch, stage>>
       ELSE Proceed(w)
  /\ UNCHANGED <<coordVars, lstVars, clientVars, inbox, managerVars, taskVars>>

ReceiveReply(w) ==
  /\ stage[w] = "reply" /\ rep[w] # "none"
  /\ lock' = [lock EXCEPT ![w] = "free"]
  /\ rep' = [rep EXCEPT ![w] = "none"]
  /\ Proceed(w)
  /\ UNCHANGED <<coordVars, lstVars, loopOf, wedged, req, inbox, managerVars,
                 taskVars>>

\* Mutant of GiveUpReply: the socket may send again before it has received.
GiveUpRelaxed(w) ==
  /\ "request" \in Faults
  /\ stage[w] = "reply"
  /\ lock' = [lock EXCEPT ![w] = "free"]
  /\ rep' = [rep EXCEPT ![w] = "none"]
  /\ Proceed(w)
  /\ UNCHANGED <<coordVars, lstVars, loopOf, wedged, req, inbox, managerVars,
                 taskVars>>

\* RCVTIMEO (release) or wait_for(3 s) (mark): the request stays sent.
GiveUpReply(w) ==
  /\ "request" \in Faults
  /\ stage[w] = "reply"
  /\ lock' = [lock EXCEPT ![w] = "free"]
  /\ rep' = [rep EXCEPT ![w] = "none"]
  /\ wedged' = [wedged EXCEPT ![w] = TRUE]
  /\ Proceed(w)
  /\ UNCHANGED <<coordVars, lstVars, loopOf, req, inbox, managerVars,
                 taskVars>>

\* wait_for(3 s) around mark_completed also covers the wait for the lock.
GiveUpLock(w) ==
  /\ "request" \in Faults
  /\ main[w] = "mark" /\ stage[w] = "wait"
  /\ Proceed(w)
  /\ UNCHANGED <<coordVars, lstVars, clientVars, inbox, managerVars, taskVars>>

\* Mutant of PassCleanup: the wait has no timeout.
AwaitCleanup(w) ==
  /\ main[w] = "cleanup" /\ cleanupDone[w]
  /\ main' = [main EXCEPT ![w] = "barrier"]
  /\ UNCHANGED <<coordVars, batch, stage, lstVars, clientVars, inbox,
                 managerVars, taskVars>>

\* The main thread waits for _training_cleanup_complete, but not for ever.
PassCleanup(w) ==
  /\ main[w] = "cleanup"
  /\ cleanupDone[w] \/ "cleanup" \in Faults
  /\ main' = [main EXCEPT ![w] = "barrier"]
  /\ UNCHANGED <<coordVars, batch, stage, lstVars, clientVars, inbox,
                 managerVars, taskVars>>

-----------------------------------------------------------------------------
(* The coordinator serves *)

\* The event as the workers of ranks see it; the others ignore it.
Broadcast(event, ranks) ==
  \E copies \in [Workers -> Deliveries] :
    inbox' = [w \in Workers |->
                IF w \in ranks
                  THEN inbox[w] \o [i \in 1..copies[w] |-> event]
                  ELSE inbox[w]]

ServeRelease(w) ==
  /\ req[w] = "release"
  /\ Release(w)
  /\ IF StartsTraining(w)
       THEN Broadcast("start", StartedRanks(w))
       ELSE UNCHANGED inbox

\* Mutants of ServeMark: STOP_TRAINING goes out only with BATCH_COMPLETE; the
\* ranks of the ended session are kept.
ServeMarkLate(w) ==
  /\ req[w] = "mark"
  /\ MarkCompleted(w)
  /\ IF StopsTraining(w) /\ AnnouncesBatch(w)
       THEN Broadcast("stop", Workers)
       ELSE UNCHANGED inbox

ServeMarkKeepsRanks(w) ==
  /\ req[w] = "mark"
  /\ wstate' = AfterMark(w)
  /\ trainingActive' = (trainingActive /\ ~StopsTraining(w))
  /\ UNCHANGED trainingRanks
  /\ IF StopsTraining(w)
       THEN Broadcast("stop", Workers)
       ELSE UNCHANGED inbox

ServeMark(w) ==
  /\ req[w] = "mark"
  /\ MarkCompleted(w)
  /\ IF StopsTraining(w)
       THEN Broadcast("stop", Workers)
       ELSE UNCHANGED inbox

ServeState(w) ==
  /\ req[w] = "state"
  /\ UNCHANGED <<coordVars, inbox>>

\* A reply to a client that no longer waits is never read.
Serve(w) ==
  /\ ServeRelease(w) \/ ServeMark(w) \/ ServeState(w)
  /\ req' = [req EXCEPT ![w] = "none"]
  /\ LET trains == trainingActive /\ w \in trainingRanks
         reply == CASE req[w] # "state"            -> "ack"
                    [] req[w] = "state" /\ trains  -> "train"
                    [] req[w] = "state" /\ ~trains -> "rest"
     IN rep' = [rep EXCEPT ![w] = IF wedged[w] THEN "none" ELSE reply]
  /\ UNCHANGED <<mainVars, lstVars, lock, loopOf, wedged, managerVars,
                 taskVars>>

-----------------------------------------------------------------------------
(* The listener thread *)

\* A training step blocks the event loop, and the thread with it.
Running(w) == main[w] # "init" /\ task[w] # "step"

\* Mutant of StartTraining: the cleanup event stays set.
StartUnsignalled(w) ==
  IF active[w]
    THEN UNCHANGED <<managerVars, taskVars>>
    ELSE /\ stopEvent' = [stopEvent EXCEPT ![w] = FALSE]
         /\ active' = [active EXCEPT ![w] = TRUE]
         /\ task' = [task EXCEPT ![w] = "starting"]
         /\ UNCHANGED <<cleanupDone, steps, trainerOn, resident>>

\* _start_training: ignored by a worker that already trains
StartTraining(w) ==
  IF active[w]
    THEN UNCHANGED <<managerVars, taskVars>>
    ELSE /\ stopEvent' = [stopEvent EXCEPT ![w] = FALSE]
         /\ cleanupDone' = [cleanupDone EXCEPT ![w] = FALSE]
         /\ active' = [active EXCEPT ![w] = TRUE]
         /\ task' = [task EXCEPT ![w] = "starting"]
         /\ UNCHANGED <<steps, trainerOn, resident>>

HandleStart(w) ==
  /\ Running(w) /\ lst[w] = "poll"
  /\ inbox[w] # <<>> /\ Head(inbox[w]) = "start"
  /\ inbox' = [inbox EXCEPT ![w] = Tail(@)]
  /\ StartTraining(w)
  /\ UNCHANGED <<coordVars, mainVars, lstVars, clientVars>>

\* _stop_training up to its wait for the training task
HandleStop(w) ==
  /\ Running(w) /\ lst[w] = "poll"
  /\ inbox[w] # <<>> /\ Head(inbox[w]) = "stop"
  /\ inbox' = [inbox EXCEPT ![w] = Tail(@)]
  /\ IF active[w]
       THEN /\ stopEvent' = [stopEvent EXCEPT ![w] = TRUE]
            /\ active' = [active EXCEPT ![w] = FALSE]
            /\ trainerOn' = [trainerOn EXCEPT ![w] = FALSE]
            /\ lst' = [lst EXCEPT ![w] = "stopping"]
       ELSE UNCHANGED <<stopEvent, active, trainerOn, lst>>
  /\ UNCHANGED <<coordVars, mainVars, checks, clientVars, cleanupDone, task,
                 steps, resident>>

\* Mutant of StopDone: after 5 seconds the task is left alone.
StopGivesUp(w) ==
  /\ lst[w] = "stopping"
  /\ task[w] = "none" \/ ("stop" \in Faults /\ task[w] = "cleanup")
  /\ cleanupDone' = [cleanupDone EXCEPT ![w] = TRUE]
  /\ lst' = [lst EXCEPT ![w] = "poll"]
  /\ UNCHANGED <<coordVars, mainVars, checks, clientVars, inbox, active,
                 stopEvent, taskVars>>

\* The wait of _stop_training ends, because the task did or after 5 seconds.
\* The cancelled task never reaches the offloading that ends its cleanup.
StopDone(w) ==
  /\ lst[w] = "stopping"
  /\ task[w] = "none" \/ ("stop" \in Faults /\ task[w] = "cleanup")
  /\ task' = [task EXCEPT ![w] = "none"]
  /\ cleanupDone' = [cleanupDone EXCEPT ![w] = TRUE]
  /\ lst' = [lst EXCEPT ![w] = "poll"]
  /\ UNCHANGED <<coordVars, mainVars, checks, clientVars, inbox, active,
                 stopEvent, steps, trainerOn, resident>>

\* Five polls in a row brought nothing, for what is in inbox may still be on
\* its way: ask the coordinator.  The exceptions of acquire and send are
\* caught, and the next check tries again.
CheckState(w) ==
  /\ Running(w) /\ lst[w] = "poll"
  /\ ~active[w]
  /\ checks[w] < MaxChecks
  /\ checks' = [checks EXCEPT ![w] = @ + 1]
  /\ IF ListenerMustWait(w)
       THEN /\ loopOf[w] # "main"
            /\ loopOf' = [loopOf EXCEPT ![w] = "listener"]
            /\ lst' = [lst EXCEPT ![w] = "wait"]
            /\ UNCHANGED <<lock, req>>
       ELSE /\ ~wedged[w]
            /\ lock' = [lock EXCEPT ![w] = "listener"]
            /\ req' = [req EXCEPT ![w] = "state"]
            /\ lst' = [lst EXCEPT ![w] = "reply"]
            /\ UNCHANGED loopOf
  /\ UNCHANGED <<coordVars, mainVars, wedged, rep, inbox, managerVars,
                 taskVars>>

\* The lock the listener waited for is free.
ListenerSend(w) ==
  /\ lst[w] = "wait" /\ lock[w] = "free"
  /\ IF wedged[w]
       THEN /\ lst' = [lst EXCEPT ![w] = "poll"]
            /\ UNCHANGED <<lock, req>>
       ELSE /\ lock' = [lock EXCEPT ![w] = "listener"]
            /\ req' = [req EXCEPT ![w] = "state"]
            /\ lst' = [lst EXCEPT ![w] = "reply"]
  /\ UNCHANGED <<coordVars, mainVars, checks, loopOf, wedged, rep, inbox,
                 managerVars, taskVars>>

ListenerReceive(w) ==
  /\ lst[w] = "reply" /\ rep[w] # "none"
  /\ lock' = [lock EXCEPT ![w] = "free"]
  /\ rep' = [rep EXCEPT ![w] = "none"]
  /\ lst' = [lst EXCEPT ![w] = "poll"]
  /\ IF rep[w] = "train"
       THEN StartTraining(w)
       ELSE UNCHANGED <<managerVars, taskVars>>
  /\ UNCHANGED <<coordVars, mainVars, checks, loopOf, wedged, req, inbox>>

ListenerGiveUp(w) ==
  /\ "request" \in Faults
  /\ lst[w] = "reply"
  /\ lock' = [lock EXCEPT ![w] = "free"]
  /\ rep' = [rep EXCEPT ![w] = "none"]
  /\ wedged' = [wedged EXCEPT ![w] = TRUE]
  /\ lst' = [lst EXCEPT ![w] = "poll"]
  /\ UNCHANGED <<coordVars, mainVars, checks, loopOf, req, inbox, managerVars,
                 taskVars>>

-----------------------------------------------------------------------------
(* The training task, on the listener's event loop *)

Activate(w) ==
  /\ task[w] = "starting"
  /\ task' = [task EXCEPT ![w] = "loop"]
  /\ trainerOn' = [trainerOn EXCEPT ![w] = TRUE]
  /\ resident' = [resident EXCEPT ![w] = TRUE]
  /\ UNCHANGED <<coordVars, mainVars, lstVars, clientVars, inbox, managerVars,
                 steps>>

\* Activation fails, with the drafter loaded already or not.  Nothing is
\* cleaned up and _training_cleanup_complete stays unset.
FailActivation(w) ==
  /\ "activation" \in Faults
  /\ task[w] = "starting"
  /\ task' = [task EXCEPT ![w] = "none"]
  /\ active' = [active EXCEPT ![w] = FALSE]
  /\ \E loaded \in BOOLEAN :
       resident' = [resident EXCEPT ![w] = @ \/ loaded]
  /\ UNCHANGED <<coordVars, mainVars, lstVars, clientVars, inbox, stopEvent,
                 cleanupDone, steps, trainerOn>>

KeepsTraining(w) ==
  active[w] /\ steps[w] < MaxSteps /\ ~stopEvent[w] /\ trainerOn[w]

\* There is data for a step, or there is not and the attempt counts as one.
TryStep(w) ==
  /\ task[w] = "loop" /\ KeepsTraining(w)
  /\ \/ task' = [task EXCEPT ![w] = "step"] /\ UNCHANGED steps
     \/ steps' = [steps EXCEPT ![w] = @ + 1] /\ UNCHANGED task
  /\ UNCHANGED <<coordVars, mainVars, lstVars, clientVars, inbox, managerVars,
                 trainerOn, resident>>

\* The drafter is sharded over its tensor-parallel group: a step is made of
\* collectives and ends only when every rank of the group is in it.  A step
\* that succeeds counts twice.
FinishStep(w) ==
  /\ \A v \in TpGroup(w) : task[v] = "step"
  /\ task' = [v \in Workers |-> IF v \in TpGroup(w) THEN "loop" ELSE task[v]]
  /\ \E n \in {1, 2} :
       steps' = [v \in Workers |->
                   IF v \in TpGroup(w) THEN steps[v] + n ELSE steps[v]]
  /\ UNCHANGED <<coordVars, mainVars, lstVars, clientVars, inbox, managerVars,
                 trainerOn, resident>>

\* Mutant of LeaveLoop: the manager is free before its cleanup has run.
LeaveLoopFreed(w) ==
  /\ task[w] = "loop" /\ ~KeepsTraining(w)
  /\ task' = [task EXCEPT ![w] = "cleanup"]
  /\ trainerOn' = [trainerOn EXCEPT ![w] = FALSE]
  /\ steps' = [steps EXCEPT ![w] = 0]
  /\ active' = [active EXCEPT ![w] = FALSE]
  /\ UNCHANGED <<coordVars, mainVars, lstVars, clientVars, inbox, stopEvent,
                 cleanupDone, resident>>

LeaveLoop(w) ==
  /\ task[w] = "loop" /\ ~KeepsTraining(w)
  /\ task' = [task EXCEPT ![w] = "cleanup"]
  /\ trainerOn' = [trainerOn EXCEPT ![w] = FALSE]
  /\ steps' = [steps EXCEPT ![w] = 0]
  /\ UNCHANGED <<coordVars, mainVars, lstVars, clientVars, inbox, managerVars,
                 resident>>

FinishCleanup(w) ==
  /\ task[w] = "cleanup"
  /\ task' = [task EXCEPT ![w] = "none"]
  /\ resident' = [resident EXCEPT ![w] = FALSE]
  /\ active' = [active EXCEPT ![w] = FALSE]
  /\ cleanupDone' = [cleanupDone EXCEPT ![w] = TRUE]
  /\ UNCHANGED <<coordVars, mainVars, lstVars, clientVars, inbox, stopEvent,
                 steps, trainerOn>>

-----------------------------------------------------------------------------
(* The system *)

\* Nothing is left to do once the last batch is through, or once the rollout
\* of a worker has raised, which ends the job.
Finished ==
  /\ \/ batch = MaxBatches /\ \A w \in Workers : main[w] = "barrier"
     \/ \E w \in Workers : main[w] = "killed"
  /\ UNCHANGED vars

MainNext(w) ==
  \/ Initialize(w) \/ FinishGeneration(w) \/ SendRequest(w) \/ WaitForLock(w)
  \/ LockBoundElsewhere(w) \/ ReceiveReply(w) \/ GiveUpReply(w)
  \/ GiveUpLock(w) \/ PassCleanup(w)

ListenerNext(w) ==
  \/ HandleStart(w) \/ HandleStop(w) \/ StopDone(w) \/ CheckState(w)
  \/ ListenerSend(w) \/ ListenerReceive(w) \/ ListenerGiveUp(w)

TaskNext(w) ==
  \/ Activate(w) \/ FailActivation(w) \/ TryStep(w) \/ FinishStep(w)
  \/ LeaveLoop(w) \/ FinishCleanup(w)

Next ==
  \/ StartBatch
  \/ \E w \in Workers :
       MainNext(w) \/ Serve(w) \/ ListenerNext(w) \/ TaskNext(w)
  \/ Finished

Spec == Init /\ [][Next]_vars

\* Threads run, the coordinator serves and queued broadcasts are polled.  No
\* fault is fair.  Releasing the lock does not wake the event loop of a waiter
\* in the other thread: the loop resumes at its next event.  The main thread's
\* loop has a timer, the 3 seconds of mark_completed or, where an engine runs,
\* the engine's watchdog; the listener's has only the next broadcast.
LoopWakes(w) == stage[w] = "call" \/ main[w] = "mark" \/ Leads(w)

Fairness ==
  /\ WF_vars(StartBatch)
  /\ \A w \in Workers :
       /\ WF_vars(Initialize(w)) /\ WF_vars(FinishGeneration(w))
       /\ WF_vars(\/ LoopWakes(w) /\ SendRequest(w)
                  \/ WaitForLock(w) \/ LockBoundElsewhere(w))
       /\ WF_vars(ReceiveReply(w)) /\ SF_vars(PassCleanup(w))
       /\ WF_vars(Serve(w))
       /\ WF_vars(HandleStart(w)) /\ WF_vars(HandleStop(w))
       /\ WF_vars(StopDone(w))
       /\ WF_vars(inbox[w] # <<>> /\ ListenerSend(w))
       /\ WF_vars(ListenerReceive(w))
       /\ WF_vars(TaskNext(w))

FairSpec == Spec /\ Fairness

-----------------------------------------------------------------------------
(* What holds *)

(* Nobody loses a training task: while one runs, the manager either says   *)
(* so or is waiting in _stop_training for its end.  A task outside both    *)
(* could never be stopped (worker_manager.py:672, 766) and a second one    *)
(* could be started beside it.                                             *)
NoOrphanTask ==
  \A w \in Workers : task[w] # "none" => active[w] \/ lst[w] = "stopping"

(* The main thread never sees _training_cleanup_complete set while the     *)
(* task runs or the manager is active, whatever was cancelled or restarted *)
(* (worker_manager.py:681-684, 755-757, 778-787).                          *)
CleanupFlagSound ==
  \A w \in Workers : cleanupDone[w] => task[w] = "none" /\ ~active[w]

(* On the REQ socket two threads share, an answer is always to the request *)
(* of the thread that holds the lock: late answers to abandoned requests   *)
(* never reach the next asker.                                             *)
AnswerMatchesRequest ==
  \A w \in Workers :
    ~wedged[w] =>
      CASE lock[w] = "free"     -> req[w] = "none" /\ rep[w] = "none"
        [] lock[w] = "main"     ->
             \/ req[w] = main[w] /\ rep[w] = "none"
             \/ req[w] = "none" /\ rep[w] \in {"none", "ack"}
        [] lock[w] = "listener" ->
             \/ req[w] = "state" /\ rep[w] = "none"
             \/ req[w] = "none" /\ rep[w] \in {"train", "rest"}

(* When broadcasts are only late and never lost, a worker that has handled *)
(* all of them trains only in a session the coordinator still holds, even  *)
(* when the state check answered with what was true before a STOP.         *)
TrainsInSession ==
  \A w \in Workers : active[w] /\ inbox[w] = <<>> => w \in trainingRanks

(* Whatever is lost, late or abandoned, drafter training never hangs the   *)
(* rollout: all batches are generated to the end (sglang_rollout.py:1723,  *)
(* 1083, "proceeding anyway").                                             *)
BatchesComplete ==
  <>[](batch = MaxBatches /\ \A w \in Workers : main[w] = "barrier")

-----------------------------------------------------------------------------
(* What the code says and does not do *)

(* sglang_rollout.py:1729-1731: a worker must not start batch N+1 while it *)
(* still trains batch N.                                                   *)
NoTrainingDuringGeneration ==
  \A w \in Workers :
    Leads(w) /\ main[w] = "generate" => \A v \in TpGroup(w) : task[v] = "none"

(* worker_manager.py:465: the event signals when training cleanup is done: *)
(* while it is set the drafter is off the GPU.                             *)
CleanupMeansOffloaded ==
  \A w \in Workers : cleanupDone[w] => ~resident[w]

(* eagle_background_trainer.py:191-193: without a barrier FSDP2 handles    *)
(* its own synchronisation, so that every step ends.                       *)
StepsEnd == \A w \in Workers : task[w] = "step" ~> task[w] # "step"

(* sglang_rollout.py:1058-1060: a client lock bound to the other thread's  *)
(* event loop must not kill the job.                                       *)
LockNeverKills == \A w \in Workers : main[w] # "killed"

=============================================================================
