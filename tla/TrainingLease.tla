---------------------------- MODULE TrainingLease ----------------------------
(***************************************************************************)
(* What the coordinator of opportunistic drafter training promises, with   *)
(* no requests and no scheduling rule: GPUs are lent to the drafter one    *)
(* lease at a time.  A lease covers exactly Quota groups of workers (a     *)
(* group is the set of tensor-parallel ranks of one data-parallel rank),   *)
(* it never covers a worker that has reported its batch finished since the *)
(* lease began, and it ends as a whole, when one of its holders reports.   *)
(***************************************************************************)
EXTENDS Naturals, FiniteSets

CONSTANTS
  Groups,   \* the sets of workers that can only be lent together
  Quota     \* how many groups one lease covers

VARIABLES
  holders,  \* the workers of the current lease, {} when there is none
  finished  \* the workers whose last news is that their batch is finished

leaseVars == <<holders, finished>>

LeaseInit == holders = {} /\ finished = {}

\* A worker reports its batch finished.
Report(w) ==
  /\ finished' = finished \cup {w}
  /\ holders' = IF w \in holders THEN {} ELSE holders

\* The workers g have other news.
Resume(g) ==
  /\ finished' = finished \ g
  /\ UNCHANGED holders

\* The news of g completes a quota.  The groups lent may have finished
\* members: they count as unfinished from then on.
Grant(g) ==
  /\ holders = {}
  /\ \E G \in SUBSET Groups :
       /\ Cardinality(G) = Quota
       /\ holders' = UNION G
       /\ finished' = (finished \ g) \ holders'

LeaseNext ==
  \/ \E w \in UNION Groups : Report(w)
  \/ \E g \in SUBSET UNION Groups : Resume(g) \/ Grant(g)

LeaseSpec == LeaseInit /\ [][LeaseNext]_leaseVars
=============================================================================
