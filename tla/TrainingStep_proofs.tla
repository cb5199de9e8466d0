------------------------- MODULE TrainingStep_proofs -------------------------
(***************************************************************************)
(* Proofs about the memory of the workers, step after step: for any group  *)
(* of ranks, any frequencies, steps and restarts, and every configuration. *)
(*                                                                         *)
(* Every call is a program over what one rank sees of its GPU, the engine  *)
(* and the random streams.  What holds before, in and after it is shown    *)
(* along the program (Triple); the ranks are at different places of one    *)
(* run of it.                                                              *)
(***************************************************************************)
EXTENDS TrainingStep, SequenceTheorems, WellFoundedInduction, TLAPS

(* The configurations whose engine gets the weights of the actor, whose    *)
(* streams are swapped around rollout and whose memory is given up once.   *)
(* In the others the code goes wrong: nothing wakes servers that keep      *)
(* their cache, so they never get the weights; the first sleep of vLLM's   *)
(* servers swaps the streams; only FSDP with SGLang hands over the         *)
(* drafter's weights; outside the agent loops the early release for the    *)
(* drafter is repeated by sleep; and adapters over dummy weights go out    *)
(* one hand-over after their base.                                         *)
Supported ==
    /\ job.async => job.freeCache /\ job.rollout = "sglang"
    /\ job.drafter => ~Megatron /\ job.rollout = "sglang"
    /\ job.drafter /\ job.freeCache => job.async
    /\ job.lora => ~job.dummy

-----------------------------------------------------------------------------
(* What a rank sees: where its modules are, and the core of its state.     *)

Module == {"actor", "actor_grad", "actor_opt", "critic", "critic_grad",
           "critic_opt", "ref", "rm", "drafter"}
Places == [Module -> {"cpu", "gpu", "none"}]

Draws == [stream : {"train", "gen"}, draws : Nat]
Engine == [awake : SUBSET Tags, version : Nat \cup {NoWeights},
           drafter : BOOLEAN, reload : BOOLEAN, baseDone : BOOLEAN,
           error : BOOLEAN]
Core == [engine : Engine, rng : Draws, parked : [train : Draws, gen : Draws],
         version : Nat, saved : [version : Nat, draws : Nat]]
State == [place : Places, core : Core]

OpName == {"load", "offload", "release", "resume", "read", "sync", "swap in",
           "swap out", "generate", "forward", "update", "write", "restore"}
OpArg == (SUBSET Module) \cup (SUBSET Tags) \cup Module \cup {"engine", "rng"}
Op == OpName \X OpArg

(* What an operation makes of it.                                          *)
Sent(p, modules, to) ==
    [m \in DOMAIN p |-> IF m \in modules /\ p[m] # "none" THEN to ELSE p[m]]

PlaceAfter(op, p) ==
    CASE op[1] = "load" -> Sent(p, op[2], "gpu")
      [] op[1] = "offload" -> Sent(p, op[2], "cpu")
      [] op[1] = "update" -> [p EXCEPT ![OptOf(op[2])] = "gpu"]
      [] op[1] = "restore" -> [p EXCEPT ![OptOf(op[2])] = p[op[2]]]
      [] OTHER -> p

Synced(e, v) ==
    IF "weights" \notin e.awake THEN [e EXCEPT !.error = TRUE]
    ELSE [e EXCEPT !.baseDone = TRUE,
                   !.version = IF job.lora /\ ~e.baseDone THEN 0 ELSE v]

CoreAfter(op, c) ==
    CASE op[1] = "release" -> [c EXCEPT !.engine = Released(@, op[2])]
      [] op[1] = "resume" -> [c EXCEPT !.engine = Resumed(@, op[2])]
      [] op[1] = "sync" -> [c EXCEPT !.engine =
                              IF op[2] = "drafter"
                              THEN [c.engine EXCEPT !.drafter = TRUE]
                              ELSE Synced(c.engine, c.version)]
      [] op[1] = "swap in" -> [c EXCEPT !.parked.train = c.rng,
                                        !.rng = c.parked.gen]
      [] op[1] = "swap out" -> [c EXCEPT !.parked.gen = c.rng,
                                         !.rng = c.parked.train]
      [] op[1] = "generate" -> [c EXCEPT !.rng.draws = c.rng.draws + 1]
      [] op[1] = "update" -> IF op[2] = "actor"
                             THEN [c EXCEPT !.version = c.version + 1,
                                            !.rng.draws = c.rng.draws + 1]
                             ELSE c
      [] op[1] = "restore" -> [c EXCEPT !.version = c.saved.version,
                                        !.rng.draws = c.saved.draws]
      [] OTHER -> c

Made(op, x) == [place |-> PlaceAfter(op, x.place),
                core |-> CoreAfter(op, x.core)]

(* What it may ask for.                                                    *)
PlaceServes(op, p) ==
    /\ op[1] \in {"read", "forward", "update", "write"} => p[op[2]] = "gpu"
    /\ op[1] = "update" => p[OptOf(op[2])] # "cpu" /\ p[GradOf(op[2])] # "cpu"

CoreServes(op, c) ==
    Supported =>
      /\ op[1] = "generate" =>
           /\ c.engine.awake = Tags /\ c.engine.version = c.version
           /\ job.drafter => c.engine.drafter
           /\ c.rng.stream = "gen"
      /\ op[1] = "update" =>
           c.rng = [stream |-> "train", draws |-> c.version]
      /\ op[1] = "write" => c.rng.draws = c.version

Serves(op, x) == PlaceServes(op, x.place) /\ CoreServes(op, x.core)

(* What holds of a leader at any time.                                     *)
NoCache(c) ==
    Supported /\ job.offParam /\ job.freeCache
      /\ (Megatron => job.rollout = "vllm")
    => c.engine.reload \/ "kv" \notin c.engine.awake

Budget(x) ==
    /\ job.offOpt /\ x.place["actor_opt"] = "gpu"
         => call \in {"update_actor", "load_actor"}
    /\ job.offOpt /\ x.place["critic_opt"] = "gpu"
         => call \in {"update_critic", "load_critic"}
    /\ job.offParam /\ x.place["actor_grad"] = "gpu"
         => \/ call \in {"update_actor", "save_actor", "load_actor"}
            \/ call = "generate" /\ job.rollout = "sglang"
    /\ Supported => ~x.core.engine.error
    /\ NoCache(x.core) \/ x.place["actor"] = "cpu"

Good == {x \in State : Budget(x)}

(* The cache is not there, or the actor is not.                            *)
Calm == {x \in Good : MeetBeforeCache => NoCache(x.core)}
Away == {x \in Good : job.offParam => x.place["actor"] = "cpu"}

-----------------------------------------------------------------------------
(* Programs *)

Run(T, ops, f) ==
    /\ f \in [1..Len(ops) + 1 -> T]
    /\ \A i \in 1..Len(ops) : /\ Serves(ops[i], f[i])
                              /\ f[i + 1] = Made(ops[i], f[i])

(* From any state of P, ops runs through states of T to one of Q.          *)
Triple(T, P, ops, Q) ==
    /\ ops \in Seq(Op)
    /\ \A x \in P : \E f : /\ Run(T, ops, f)
                           /\ f[1] = x /\ f[Len(ops) + 1] \in Q

(* The empty program runs where P is within Q. *)
LEMMA NothingRuns ==
  ASSUME NEW T, NEW P, NEW Q, P \subseteq Q, P \subseteq T
  PROVE  Triple(T, P, << >>, Q)
<1> SUFFICES ASSUME NEW x \in P
             PROVE  \E f : Run(T, << >>, f) /\ f[1] = x
                           /\ f[Len(<< >>) + 1] \in Q
  BY DEF Triple
<1> DEFINE f == [i \in 1..1 |-> x]
<1>1. Len(<< >>) = 0 /\ 1..0 = {} /\ 0 + 1 = 1
  OBVIOUS
<1>2. f \in [1..1 -> T] /\ f[1] = x /\ f[1] \in Q
  OBVIOUS
<1> HIDE DEF f
<1>3. Run(T, << >>, f)
  BY <1>1, <1>2 DEF Run
<1> QED BY <1>1, <1>2, <1>3

(* An operation runs if it is served in every state of P and leads to Q. *)
LEMMA OneRuns ==
  ASSUME NEW T, NEW P, NEW Q, NEW op \in Op, P \subseteq T, Q \subseteq T,
         \A x \in P : Serves(op, x) /\ Made(op, x) \in Q
  PROVE  Triple(T, P, <<op>>, Q)
<1> SUFFICES ASSUME NEW x \in P
             PROVE  \E f : Run(T, <<op>>, f) /\ f[1] = x
                           /\ f[Len(<<op>>) + 1] \in Q
  BY DEF Triple
<1> DEFINE y == Made(op, x)
           f == [i \in 1..2 |-> IF i = 1 THEN x ELSE y]
<1>1. Len(<<op>>) = 1 /\ 1..1 = {1} /\ 1 + 1 = 2 /\ <<op>>[1] = op
  OBVIOUS
<1>2. Serves(op, x) /\ y \in Q
  OBVIOUS
<1> HIDE DEF y
<1>3. f \in [1..2 -> T] /\ f[1] = x /\ f[2] = y
  BY <1>2
<1> HIDE DEF f
<1>4. Run(T, <<op>>, f)
  BY <1>1, <1>2, <1>3 DEF Run, y
<1> QED BY <1>1, <1>2, <1>3, <1>4

(* h is f, a run of a, and then g, a run of b. *)
Joins(h, T, U, a, b, f, g) ==
    /\ Run(T \cup U, a \o b, h)
    /\ \A i \in 1..Len(a) + 1 : h[i] = f[i] /\ h[i] \in T
    /\ \A i \in Len(a) + 1..Len(a \o b) + 1 : h[i] \in U
    /\ \A i \in 1..Len(b) + 1 : h[Len(a) + i] = g[i]
    /\ h[Len(a \o b) + 1] = g[Len(b) + 1]

(* Two runs that meet in a state make one. *)
LEMMA Joined ==
  ASSUME NEW T, NEW U, NEW a \in Seq(Op), NEW b \in Seq(Op), NEW f, NEW g,
         Run(T, a, f), Run(U, b, g), f[Len(a) + 1] = g[1]
  PROVE  \E h : Joins(h, T, U, a, b, f, g)
<1>1. /\ a \o b \in Seq(Op) /\ Len(a \o b) = Len(a) + Len(b)
      /\ \A i \in 1..Len(a) : (a \o b)[i] = a[i]
      /\ \A i \in Len(a) + 1..Len(a) + Len(b) : (a \o b)[i] = b[i - Len(a)]
  BY ConcatProperties
<1> DEFINE k == Len(a)
           n == Len(b)
           ab == a \o b
<1>2. k \in Nat /\ n \in Nat
  OBVIOUS
<1> DEFINE h == [i \in 1..k + n + 1 |-> IF i <= k THEN f[i] ELSE g[i - k]]
<1>5. /\ f \in [1..k + 1 -> T] /\ g \in [1..n + 1 -> U]
      /\ \A i \in 1..k : Serves(a[i], f[i]) /\ f[i + 1] = Made(a[i], f[i])
      /\ \A i \in 1..n : Serves(b[i], g[i]) /\ g[i + 1] = Made(b[i], g[i])
  BY DEF Run
<1>6. /\ Len(ab) = k + n /\ f[k + 1] = g[1]
      /\ \A i \in 1..k : ab[i] = a[i]
      /\ \A i \in k + 1..k + n : ab[i] = b[i - k]
  BY <1>1
<1> HIDE DEF k, n, ab
<1>7. /\ h \in [1..k + n + 1 -> T \cup U]
      /\ \A i \in 1..k : h[i] = f[i]
      /\ \A i \in k + 1..k + n + 1 : h[i] = g[i - k] /\ i - k \in 1..n + 1
      /\ h[k + 1] = f[k + 1] /\ h[k + n + 1] = g[n + 1]
  <2>1. \A i \in 1..k + n + 1 : i <= k => i \in 1..k + 1
    BY <1>2
  <2>2. \A i \in 1..k + n + 1 : ~(i <= k) => i - k \in 1..n + 1
    BY <1>2
  <2>3. h \in [1..k + n + 1 -> T \cup U]
    BY <1>5, <2>1, <2>2
  <2>4. \A i \in 1..k : h[i] = f[i]
    BY <1>2
  <2>5. \A i \in k + 1..k + n + 1 : h[i] = g[i - k] /\ i - k \in 1..n + 1
    BY <1>2
  <2>6. h[k + 1] = f[k + 1]
    <3> DEFINE j == k + 1
    <3>1. j \in k + 1..k + n + 1 /\ j - k = 1
      BY <1>2
    <3> HIDE DEF h, j
    <3>2. h[j] = f[j]
      <4>1. g[1] = f[j]
        BY <1>6 DEF j
      <4> QED BY <2>5, <3>1, <4>1
    <3> QED BY <3>2 DEF j
  <2>7. h[k + n + 1] = g[n + 1]
    <3> DEFINE j == k + n + 1
               l == n + 1
    <3>1. j \in k + 1..j /\ j - k = l
      BY <1>2
    <3> HIDE DEF h
    <3>2. \A i \in k + 1..j : h[i] = g[i - k]
      BY <2>5
    <3> HIDE DEF j, l
    <3>3. h[j] = g[l]
      BY <3>1, <3>2
    <3> QED BY <3>3 DEF j, l
  <2> QED BY <2>3, <2>4, <2>5, <2>6, <2>7
<1> HIDE DEF h
<1>8. ASSUME NEW i \in 1..k + n
      PROVE  Serves(ab[i], h[i]) /\ h[i + 1] = Made(ab[i], h[i])
  <2>1. CASE i \in 1..k
    <3>1. h[i + 1] = f[i + 1]
      <4>1. i + 1 \in 1..k \/ i = k
        BY <1>2, <2>1
      <4> QED BY <1>7, <4>1
    <3> QED BY <1>5, <1>6, <1>7, <2>1, <3>1
  <2>2. CASE i \in k + 1..k + n
    <3> DEFINE j == i - k
               m == i + 1
    <3>1. /\ i \in k + 1..k + n + 1 /\ m \in k + 1..k + n + 1
          /\ j \in 1..n /\ m - k = j + 1
      BY <1>2, <2>2
    <3>2. h[i] = g[j] /\ ab[i] = b[j]
      BY <1>6, <1>7, <2>2, <3>1
    <3>3. h[m] = g[j + 1]
      <4> HIDE DEF m, j
      <4> QED BY <1>7, <3>1
    <3> HIDE DEF j
    <3> QED BY <1>5, <3>1, <3>2, <3>3
  <2>3. i \in 1..k \/ i \in k + 1..k + n
    BY <1>2
  <2> QED BY <2>1, <2>2, <2>3
<1>9. Run(T \cup U, ab, h)
  BY <1>6, <1>7, <1>8 DEF Run
<1>10. \A i \in 1..k + 1 : h[i] = f[i] /\ h[i] \in T
  <2>1. \A i \in 1..k + 1 : i \in 1..k \/ i = k + 1
    BY <1>2
  <2> QED BY <1>5, <1>7, <2>1
<1>11. \A i \in k + 1..k + n + 1 : h[i] \in U
  BY <1>5, <1>7
<1>12. ASSUME NEW i \in 1..n + 1 PROVE h[k + i] = g[i]
  <2> DEFINE j == k + i
  <2>1. j \in k + 1..k + n + 1 /\ j - k = i
    BY <1>2
  <2> HIDE DEF j
  <2>2. h[j] = g[i]
    BY <1>7, <2>1
  <2> QED BY <2>2 DEF j
<1>13. Joins(h, T, U, a, b, f, g)
  BY <1>6, <1>7, <1>9, <1>10, <1>11, <1>12 DEF k, n, ab, Joins
<1> QED BY <1>13

(* Programs run one after the other. *)
LEMMA BothRun ==
  ASSUME NEW T, NEW P, NEW Q, NEW R, NEW a, NEW b,
         Triple(T, P, a, Q), Triple(T, Q, b, R)
  PROVE  Triple(T, P, a \o b, R)
<1>1. a \in Seq(Op) /\ b \in Seq(Op) /\ a \o b \in Seq(Op)
      /\ Len(a) \in Nat
  BY DEF Triple
<1> SUFFICES ASSUME NEW x \in P
             PROVE  \E h : Run(T, a \o b, h) /\ h[1] = x
                           /\ h[Len(a \o b) + 1] \in R
  BY <1>1 DEF Triple
<1>2. PICK f : Run(T, a, f) /\ f[1] = x /\ f[Len(a) + 1] \in Q
  BY DEF Triple
<1>3. PICK g : Run(T, b, g) /\ g[1] = f[Len(a) + 1] /\ g[Len(b) + 1] \in R
  BY <1>2 DEF Triple
<1>4. PICK h : Joins(h, T, T, a, b, f, g)
  BY <1>1, <1>2, <1>3, Joined
<1>5. T \cup T = T /\ 1 \in 1..Len(a) + 1
  BY <1>1
<1> QED BY <1>2, <1>3, <1>4, <1>5 DEF Joins

(* A program runs under a condition if it runs when that holds, and        *)
(* nothing is needed when it does not.                                     *)
LEMMA WhenRuns ==
  ASSUME NEW T, NEW P, NEW Q, NEW ops, NEW condition \in BOOLEAN,
         condition => Triple(T, P, ops, Q),
         ~condition => P \subseteq Q /\ P \subseteq T
  PROVE  Triple(T, P, When(condition, ops), Q)
BY NothingRuns DEF When

-----------------------------------------------------------------------------
(* Where the modules are *)

Home(m) ==
    CASE m \in {"actor", "critic", "drafter"} -> {Off(job.offParam)}
      [] m \in {"actor_grad", "critic_grad"} ->
           {IF Megatron THEN Off(job.offParam) ELSE "none"}
      [] m \in {"actor_opt", "critic_opt"} -> {"none", Off(job.offOpt)}
      [] OTHER -> {Off(Megatron /\ job.auxOffload)}

(* The modules of S are on the GPU, if they exist, and the others at home. *)
Placed(p, S) ==
    \A m \in Module :
      IF m \in S
      THEN \/ p[m] = "gpu" /\ Home(m) # {"none"}
           \/ p[m] = "none" /\ "none" \in Home(m)
      ELSE p[m] \in Home(m)

(* A module of S is away from home only if the job offloads it.            *)
Offloaded(m) == "cpu" \in Home(m) \/ Home(m) = {"none"}
Resident(m) == "gpu" \in Home(m) \/ Home(m) = {"none"}

States(S, C) == {x \in State : Placed(x.place, S) /\ x.core \in C}

(* Modules that are loaded join the ones on the GPU. *)
LEMMA SentOn ==
  ASSUME NEW p \in Places, NEW S, NEW M \in SUBSET Module, Placed(p, S)
  PROVE  Sent(p, M, "gpu") \in Places /\ Placed(Sent(p, M, "gpu"), S \cup M)
<1> DEFINE q == Sent(p, M, "gpu")
<1>1. /\ q \in Places
      /\ \A m \in Module : q[m] = IF m \in M /\ p[m] # "none" THEN "gpu"
                                  ELSE p[m]
  BY DEF Sent, Places
<1> HIDE DEF q
<1>2. ASSUME NEW m \in Module
      PROVE  p[m] = "none" => "none" \in Home(m)
  BY DEF Placed
<1>3. ASSUME NEW m \in Module, m \in M, p[m] # "none"
      PROVE  Home(m) # {"none"}
  BY <1>3 DEF Placed
<1> QED BY <1>1, <1>2, <1>3 DEF Placed, q

(* Modules the job offloads leave the GPU. *)
LEMMA SentOff ==
  ASSUME NEW p \in Places, NEW S, NEW M \in SUBSET Module, Placed(p, S),
         \A m \in M : Offloaded(m)
  PROVE  Sent(p, M, "cpu") \in Places /\ Placed(Sent(p, M, "cpu"), S \ M)
<1> DEFINE q == Sent(p, M, "cpu")
<1>1. /\ q \in Places
      /\ \A m \in Module : q[m] = IF m \in M /\ p[m] # "none" THEN "cpu"
                                  ELSE p[m]
  BY DEF Sent, Places
<1> HIDE DEF q
<1>2. ASSUME NEW m \in Module, m \in M
      PROVE  q[m] \in Home(m)
  <2>1. p[m] = "none" => "none" \in Home(m)
    BY DEF Placed
  <2>2. p[m] # "none" => "cpu" \in Home(m)
    BY <1>2 DEF Placed, Offloaded
  <2> QED BY <1>1, <1>2, <2>1, <2>2
<1> QED BY <1>1, <1>2 DEF Placed, q

(* A module that lives on the GPU is there, whether named or not. *)
LEMMA StaysOn ==
  ASSUME NEW S, NEW M \in SUBSET Module, NEW C, \A m \in M : Resident(m)
  PROVE  /\ States(S, C) \subseteq States(S \cup M, C)
         /\ States(S, C) \subseteq States(S \ M, C)
<1> SUFFICES ASSUME NEW p, Placed(p, S)
             PROVE  Placed(p, S \cup M) /\ Placed(p, S \ M)
  BY DEF States
<1>1. ASSUME NEW m \in M
      PROVE  /\ p[m] \in Home(m)
             /\ \/ p[m] = "gpu" /\ Home(m) # {"none"}
                \/ p[m] = "none" /\ "none" \in Home(m)
  BY DEF Placed, Resident, Home, Off, Module
<1> QED BY <1>1 DEF Placed

(* Models are offloaded with their gradients or stay where they are.       *)
Weights(m) == {m, GradOf(m)}

(* The job's flags decide where the parts of a model live. *)
LEMMA Modules ==
  ASSUME NEW m \in {"actor", "critic"}
  PROVE  /\ Weights(m) \in SUBSET Module /\ m \in Module /\ OptOf(m) \in Module
         /\ job.offParam => \A w \in Weights(m) : Offloaded(w)
         /\ ~job.offParam => \A w \in Weights(m) : Resident(w)
         /\ job.offOpt => Offloaded(OptOf(m))
         /\ ~job.offOpt => Resident(OptOf(m))
BY DEF Weights, Module, GradOf, OptOf, Offloaded, Resident, Home, Off

-----------------------------------------------------------------------------
(* Operations on the modules *)

(* A load brings its modules to the GPU. *)
LEMMA LoadRuns ==
  ASSUME NEW T, NEW S, NEW C, NEW M \in SUBSET Module,
         States(S, C) \subseteq T, States(S \cup M, C) \subseteq T
  PROVE  Triple(T, States(S, C), <<<<"load", M>>>>, States(S \cup M, C))
<1> DEFINE op == <<"load", M>>
<1>1. op \in Op /\ op[1] = "load" /\ op[2] = M
  BY DEF Op, OpName, OpArg
<1> HIDE DEF op
<1>2. ASSUME NEW x \in States(S, C)
      PROVE  Serves(op, x) /\ Made(op, x) \in States(S \cup M, C)
  <2>1. Serves(op, x)
    BY <1>1 DEF Serves, PlaceServes, CoreServes
  <2>2. Made(op, x) = [place |-> Sent(x.place, M, "gpu"), core |-> x.core]
    BY <1>1 DEF Made, PlaceAfter, CoreAfter
  <2> QED BY <2>1, <2>2, SentOn DEF States, State
<1>3. Triple(T, States(S, C), <<op>>, States(S \cup M, C))
  BY <1>1, <1>2, OneRuns
<1> QED BY <1>3 DEF op

(* An offload takes them away. *)
LEMMA OffloadRuns ==
  ASSUME NEW T, NEW S, NEW C, NEW M \in SUBSET Module, \A m \in M : Offloaded(m),
         States(S, C) \subseteq T, States(S \ M, C) \subseteq T
  PROVE  Triple(T, States(S, C), <<<<"offload", M>>>>, States(S \ M, C))
<1> DEFINE op == <<"offload", M>>
<1>1. op \in Op /\ op[1] = "offload" /\ op[2] = M
  BY DEF Op, OpName, OpArg
<1> HIDE DEF op
<1>2. ASSUME NEW x \in States(S, C)
      PROVE  Serves(op, x) /\ Made(op, x) \in States(S \ M, C)
  <2>1. Serves(op, x)
    BY <1>1 DEF Serves, PlaceServes, CoreServes
  <2>2. Made(op, x) = [place |-> Sent(x.place, M, "cpu"), core |-> x.core]
    BY <1>1 DEF Made, PlaceAfter, CoreAfter
  <2> QED BY <2>1, <2>2, SentOff DEF States, State
<1>3. Triple(T, States(S, C), <<op>>, States(S \ M, C))
  BY <1>1, <1>2, OneRuns
<1> QED BY <1>3 DEF op

(* load_fsdp_model_to_gpu or load_megatron_model_to_gpu, if parameters are *)
(* offloaded, brings the model.                                            *)
LEMMA ModelLoads ==
  ASSUME NEW T, NEW S, NEW C, NEW m \in {"actor", "critic"},
         States(S, C) \subseteq T, States(S \cup Weights(m), C) \subseteq T,
         job.offParam \in BOOLEAN
  PROVE  Triple(T, States(S, C), Load(m), States(S \cup Weights(m), C))
<1>1. Weights(m) \in SUBSET Module
  BY Modules
<1>2. Triple(T, States(S, C), <<<<"load", Weights(m)>>>>,
             States(S \cup Weights(m), C))
  BY <1>1, LoadRuns
<1>3. ~job.offParam => States(S, C) \subseteq States(S \cup Weights(m), C)
  BY <1>1, Modules, StaysOn
<1>4. Load(m) = When(job.offParam, <<<<"load", Weights(m)>>>>)
  BY DEF Load, Weights
<1> HIDE DEF Triple, Load
<1> QED BY <1>2, <1>3, <1>4, WhenRuns

(* The same without gradients. *)
LEMMA ParamsLoad ==
  ASSUME NEW T, NEW S, NEW C, NEW m \in {"actor", "critic"},
         States(S, C) \subseteq T, States(S \cup {m}, C) \subseteq T,
         job.offParam \in BOOLEAN
  PROVE  Triple(T, States(S, C), LoadParams(m), States(S \cup {m}, C))
<1>1. {m} \in SUBSET Module /\ m \in Weights(m)
  BY Modules DEF Weights
<1>2. Triple(T, States(S, C), <<<<"load", {m}>>>>, States(S \cup {m}, C))
  BY <1>1, LoadRuns
<1>3. ~job.offParam => States(S, C) \subseteq States(S \cup {m}, C)
  BY <1>1, Modules, StaysOn
<1> QED BY <1>2, <1>3, WhenRuns DEF LoadParams

(* The way back takes the whole model. *)
LEMMA ModelOffloads ==
  ASSUME NEW T, NEW S, NEW C, NEW m \in {"actor", "critic"},
         States(S, C) \subseteq T, States(S \ Weights(m), C) \subseteq T,
         job.offParam \in BOOLEAN
  PROVE  Triple(T, States(S, C), Offload(m), States(S \ Weights(m), C))
<1>1. Weights(m) \in SUBSET Module
  BY Modules
<1>2. job.offParam => Triple(T, States(S, C), <<<<"offload", Weights(m)>>>>,
                             States(S \ Weights(m), C))
  BY <1>1, Modules, OffloadRuns
<1>3. ~job.offParam => States(S, C) \subseteq States(S \ Weights(m), C)
  BY <1>1, Modules, StaysOn
<1>4. Offload(m) = When(job.offParam, <<<<"offload", Weights(m)>>>>)
  BY DEF Offload, Weights
<1> QED BY <1>2, <1>3, <1>4, WhenRuns

(* The optimizer is loaded if it is offloaded. *)
LEMMA OptimizerLoads ==
  ASSUME NEW T, NEW S, NEW C, NEW m \in {"actor", "critic"},
         States(S, C) \subseteq T, States(S \cup {OptOf(m)}, C) \subseteq T,
         job.offOpt \in BOOLEAN
  PROVE  Triple(T, States(S, C), LoadOpt(OptOf(m)),
                States(S \cup {OptOf(m)}, C))
<1>1. {OptOf(m)} \in SUBSET Module
  BY Modules
<1>2. Triple(T, States(S, C), <<<<"load", {OptOf(m)}>>>>,
             States(S \cup {OptOf(m)}, C))
  BY <1>1, LoadRuns
<1>3. ~job.offOpt => States(S, C) \subseteq States(S \cup {OptOf(m)}, C)
  BY <1>1, Modules, StaysOn
<1> QED BY <1>2, <1>3, WhenRuns DEF LoadOpt

(* And offloaded again. *)
LEMMA OptimizerOffloads ==
  ASSUME NEW T, NEW S, NEW C, NEW m \in {"actor", "critic"},
         States(S, C) \subseteq T, States(S \ {OptOf(m)}, C) \subseteq T,
         job.offOpt \in BOOLEAN
  PROVE  Triple(T, States(S, C), OffloadOpt(OptOf(m)),
                States(S \ {OptOf(m)}, C))
<1>1. {OptOf(m)} \in SUBSET Module
  BY Modules
<1>2. job.offOpt => Triple(T, States(S, C), <<<<"offload", {OptOf(m)}>>>>,
                           States(S \ {OptOf(m)}, C))
  BY <1>1, Modules, OffloadRuns
<1>3. ~job.offOpt => States(S, C) \subseteq States(S \ {OptOf(m)}, C)
  BY <1>1, Modules, StaysOn
<1> QED BY <1>2, <1>3, WhenRuns DEF OffloadOpt

(* A model is used where it is. *)
LEMMA UseRuns ==
  ASSUME NEW T, NEW S, NEW C, NEW name \in {"read", "forward", "write"},
         NEW m \in Module, States(S, C) \subseteq T,
         "none" \notin Home(m), m \in S \/ Home(m) = {"gpu"},
         name = "write" => \A c \in C : CoreServes(<<"write", m>>, c)
  PROVE  Triple(T, States(S, C), <<<<name, m>>>>, States(S, C))
<1> DEFINE op == <<name, m>>
<1>1. op \in Op /\ op[1] = name /\ op[2] = m
  <2>1. name \in OpName
    BY DEF OpName
  <2>2. m \in OpArg
    BY DEF OpArg
  <2> QED BY <2>1, <2>2 DEF Op
<1>2. name = "write" => \A c \in C : CoreServes(op, c)
  OBVIOUS
<1> HIDE DEF op
<1>3. ASSUME NEW x \in States(S, C)
      PROVE  Serves(op, x) /\ Made(op, x) \in States(S, C)
  <2>1. x.place[m] = "gpu" /\ x.core \in C /\ x \in State
    BY DEF States, Placed
  <2>2. Serves(op, x)
    BY <1>1, <1>2, <2>1 DEF Serves, PlaceServes, CoreServes
  <2>3. Made(op, x) = x
    BY <1>1, <2>1 DEF Made, PlaceAfter, CoreAfter, State
  <2> QED BY <2>2, <2>3
<1>4. Triple(T, States(S, C), <<op>>, States(S, C))
  BY <1>1, <1>3, OneRuns
<1> QED BY <1>4 DEF op

(* The engine and the random streams leave the modules where they are.     *)
LEMMA CoreRuns ==
  ASSUME NEW T, NEW S, NEW C, NEW D \in SUBSET Core, NEW op \in Op,
         op[1] \in {"release", "resume", "sync", "swap in", "swap out",
                    "generate"},
         States(S, C) \subseteq T, States(S, D) \subseteq T,
         \A c \in C : CoreServes(op, c) /\ CoreAfter(op, c) \in D
  PROVE  Triple(T, States(S, C), <<op>>, States(S, D))
<1>1. ASSUME NEW x \in States(S, C)
      PROVE  Serves(op, x) /\ Made(op, x) \in States(S, D)
  <2>1. Serves(op, x)
    BY DEF Serves, PlaceServes, States
  <2>2. Made(op, x) = [place |-> x.place, core |-> CoreAfter(op, x.core)]
    BY DEF Made, PlaceAfter
  <2>3. CoreAfter(op, x.core) \in D
    BY DEF States
  <2>4. x.place \in Places /\ Placed(x.place, S)
    BY DEF States, State
  <2>5. [place |-> x.place, core |-> CoreAfter(op, x.core)] \in State
    BY <2>3, <2>4 DEF State
  <2> DEFINE y == [place |-> x.place, core |-> CoreAfter(op, x.core)]
  <2>6. y.place = x.place /\ y.core = CoreAfter(op, x.core)
    OBVIOUS
  <2>7. y \in State
    BY <2>5
  <2>8. y \in States(S, D)
    <3> HIDE DEF y
    <3> QED BY <2>3, <2>4, <2>7, <2>6 DEF States
  <2> QED BY <2>1, <2>2, <2>8
<1> QED BY <1>1, OneRuns

(* Budgets, by the modules that are on the GPU and the cores there are.    *)
Kept(S, C) ==
    /\ S \in SUBSET Module /\ C \in SUBSET Core
    /\ "actor_opt" \in S => call \in {"update_actor", "load_actor"}
    /\ "critic_opt" \in S => call \in {"update_critic", "load_critic"}
    /\ "actor_grad" \in S /\ Megatron =>
         \/ call \in {"update_actor", "save_actor", "load_actor"}
         \/ call = "generate" /\ job.rollout = "sglang"
    /\ Supported => \A c \in C : ~c.engine.error
    /\ "actor" \in S => \A c \in C : NoCache(c)

(* A kept set of modules is within the budget, and without the actor in it *)
(* an offloaded actor is away.                                             *)
LEMMA KeptBudget ==
  ASSUME NEW S, NEW C, Kept(S, C), NEW x \in States(S, C)
  PROVE  x \in Good /\ x.core \in C
         /\ ("actor" \notin S /\ job.offParam => x.place["actor"] = "cpu")
<1>1. x \in State /\ x.core \in C /\ \A m \in Module :
        IF m \in S
        THEN \/ x.place[m] = "gpu" /\ Home(m) # {"none"}
             \/ x.place[m] = "none" /\ "none" \in Home(m)
        ELSE x.place[m] \in Home(m)
  BY DEF States, Placed
<1>2. /\ job.offOpt /\ x.place["actor_opt"] = "gpu" => "actor_opt" \in S
      /\ job.offOpt /\ x.place["critic_opt"] = "gpu" => "critic_opt" \in S
      /\ job.offParam /\ x.place["actor_grad"] = "gpu"
           => "actor_grad" \in S /\ Megatron
      /\ job.offParam /\ "actor" \notin S => x.place["actor"] = "cpu"
  BY <1>1 DEF Home, Off, Module
<1>3. NoCache(x.core) \/ x.place["actor"] = "cpu"
  BY <1>1, <1>2 DEF Kept, NoCache
<1> QED BY <1>1, <1>2, <1>3 DEF Kept, Good, Budget

(* Where the ranks do not meet, calm needs no more than the budget; where  *)
(* they do, the cache must be gone.                                        *)
LEMMA KeptCalm ==
  ASSUME NEW S, NEW C, Kept(S, C),
         MeetBeforeCache => \A c \in C : NoCache(c)
  PROVE  States(S, C) \subseteq Calm
BY KeptBudget DEF Calm

(* Without the actor on it, a GPU is one the cache may come back to. *)
LEMMA KeptAway ==
  ASSUME NEW S, NEW C, Kept(S, C), "actor" \notin S
  PROVE  States(S, C) \subseteq Away
BY KeptBudget DEF Away

-----------------------------------------------------------------------------
(* The engine and the random streams, from one call to the next *)

Fine(c) ==
    /\ ~c.engine.error
    /\ job.lora => c.engine.baseDone
    /\ c.engine.reload => job.freeCache /\ job.rollout # "vllm"
    /\ c.saved.draws = c.saved.version

Training(c) ==
    /\ c.rng = [stream |-> "train", draws |-> c.version]
    /\ c.parked.gen.stream = "gen"

Sampling(c) ==
    /\ c.rng.stream = "gen"
    /\ c.parked.train = [stream |-> "train", draws |-> c.version]

Awake(c, tags) == ~c.engine.reload /\ c.engine.awake = tags

Rest ==
    {c \in Core : Supported =>
       /\ Fine(c) /\ Training(c)
       /\ c.engine.awake = IF job.freeCache /\ ~c.engine.reload THEN {}
                           ELSE Tags}

Waking(tags) ==
    {c \in Core : Supported => Fine(c) /\ Training(c) /\ Awake(c, tags)}

(* The engine has the weights of the actor, and those of the drafter.      *)
Fresh(tags) ==
    {c \in Waking(tags) : Supported => c.engine.version = c.version}
Full(tags) ==
    {c \in Fresh(tags) : Supported /\ job.drafter => c.engine.drafter}

Rolling ==
    {c \in Core : Supported =>
       /\ Fine(c) /\ Sampling(c) /\ Awake(c, Tags)
       /\ c.engine.version = c.version
       /\ job.drafter => c.engine.drafter}

Slept ==
    {c \in Core : Supported =>
       /\ Fine(c) /\ Sampling(c)
       /\ Awake(c, IF job.freeCache THEN {} ELSE Tags)}

(* The types of the parts of a core. *)
LEMMA CoreFields ==
  ASSUME NEW c \in Core
  PROVE  /\ c.engine \in Engine /\ c.rng \in Draws /\ c.version \in Nat
         /\ c.parked \in [train : Draws, gen : Draws]
         /\ c.saved.version \in Nat /\ c.saved.draws \in Nat
BY DEF Core

(* A core with another engine, or other streams. *)
LEMMA OtherEngine ==
  ASSUME NEW c \in Core, NEW e \in Engine
  PROVE  LET d == [c EXCEPT !.engine = e]
         IN  /\ d \in Core /\ d.engine = e /\ d.rng = c.rng
             /\ d.parked = c.parked /\ d.version = c.version
             /\ d.saved = c.saved
BY DEF Core

(* Memory that is released or resumed leaves an engine, with the same      *)
(* drafter and base.                                                       *)
LEMMA ReleasedTyped ==
  ASSUME NEW e \in Engine, NEW tags \in SUBSET Tags
  PROVE  /\ Released(e, tags) \in Engine /\ Resumed(e, tags) \in Engine
         /\ Released(e, tags).reload = e.reload
         /\ Released(e, tags).baseDone = e.baseDone
         /\ Resumed(e, tags).baseDone = e.baseDone
         /\ ~Resumed(e, tags).reload
         /\ Released(e, tags).drafter = e.drafter
         /\ Resumed(e, tags).drafter = e.drafter
<1>1. ASSUME NEW d \in Engine, NEW t \in SUBSET Tags
      PROVE  /\ Released(d, t) \in Engine
             /\ Released(d, t).reload = d.reload
             /\ Released(d, t).baseDone = d.baseDone
             /\ Released(d, t).drafter = d.drafter
  BY DEF Engine, Released, Tags, NoWeights
<1> DEFINE f == IF e.reload THEN [Released(e, Tags) EXCEPT !.reload = FALSE]
                ELSE e
<1>2. /\ f \in Engine /\ ~f.reload
      /\ f.baseDone = e.baseDone /\ f.drafter = e.drafter
  <2>1. CASE ~e.reload
    BY <2>1
  <2>2. CASE e.reload
    <3> DEFINE d == Released(e, Tags)
    <3>1. /\ d \in Engine /\ d.baseDone = e.baseDone /\ d.drafter = e.drafter
      BY <1>1 DEF Tags
    <3>2. f = [d EXCEPT !.reload = FALSE]
      BY <2>2
    <3> HIDE DEF d, f
    <3> QED BY <3>1, <3>2 DEF Engine
  <2>3. e.reload \in BOOLEAN
    BY DEF Engine
  <2> QED BY <2>1, <2>2
<1>3. Resumed(e, tags) = IF tags \cap f.awake # {}
                         THEN [f EXCEPT !.error = TRUE]
                         ELSE [f EXCEPT !.awake = @ \cup tags]
  BY DEF Resumed
<1> HIDE DEF f
<1>4. /\ Resumed(e, tags) \in Engine /\ ~Resumed(e, tags).reload
      /\ Resumed(e, tags).baseDone = f.baseDone
      /\ Resumed(e, tags).drafter = f.drafter
  <2>1. CASE tags \cap f.awake # {}
    BY <1>2, <1>3, <2>1 DEF Engine
  <2>2. CASE tags \cap f.awake = {}
    BY <1>2, <1>3, <2>2 DEF Engine
  <2> QED BY <2>1, <2>2
<1> QED BY <1>1, <1>2, <1>4

(* All of an awake engine's memory is released without an error. *)
LEMMA ReleaseDone ==
  ASSUME NEW e \in Engine, ~e.error, e.awake = Tags
  PROVE  Released(e, Tags).awake = {} /\ ~Released(e, Tags).error
BY DEF Released, Engine

(* Memory that was released is resumed without an error. *)
LEMMA ResumeDone ==
  ASSUME NEW e \in Engine, NEW tags \in SUBSET Tags, ~e.error,
         e.reload => e.awake = Tags,
         ~e.reload => tags \cap e.awake = {}
  PROVE  /\ ~Resumed(e, tags).error
         /\ Resumed(e, tags).awake = IF e.reload THEN tags
                                     ELSE e.awake \cup tags
         /\ ~e.reload => Resumed(e, tags).version = e.version
<1> DEFINE r == Released(e, Tags)
<1>1. r \in Engine
  BY ReleasedTyped
<1>2. e.reload => r.awake = {} /\ ~r.error
  BY ReleaseDone
<1> DEFINE f == IF e.reload THEN [r EXCEPT !.reload = FALSE] ELSE e
<1> HIDE DEF r
<1>3. /\ f \in Engine /\ ~f.error /\ tags \cap f.awake = {}
      /\ f.awake = IF e.reload THEN {} ELSE e.awake
      /\ ~e.reload => f = e
  BY <1>1, <1>2 DEF Engine
<1>4. Resumed(e, tags) = IF tags \cap f.awake # {}
                         THEN [f EXCEPT !.error = TRUE]
                         ELSE [f EXCEPT !.awake = @ \cup tags]
  BY DEF Resumed, r
<1> HIDE DEF f
<1>5. Resumed(e, tags) = [f EXCEPT !.awake = @ \cup tags]
  BY <1>3, <1>4
<1> QED BY <1>3, <1>5 DEF Engine

(* Every operation leaves a core. *)
LEMMA Typed ==
  ASSUME NEW op \in Op, NEW c \in Core,
         op[1] \in {"release", "resume"} => op[2] \in SUBSET Tags
  PROVE  CoreAfter(op, c) \in Core
<1>1. CASE op[1] = "release" \/ op[1] = "resume"
  BY <1>1, ReleasedTyped, CoreFields, OtherEngine DEF CoreAfter
<1>2. CASE op[1] = "sync"
  <2>1. /\ [c.engine EXCEPT !.drafter = TRUE] \in Engine
        /\ Synced(c.engine, c.version) \in Engine
    BY CoreFields DEF Engine, Synced
  <2> QED BY <1>2, <2>1, OtherEngine DEF CoreAfter
<1>3. CASE op[1] \in {"swap in", "swap out"}
  <2>1. /\ [c EXCEPT !.parked.train = c.rng, !.rng = c.parked.gen] \in Core
        /\ [c EXCEPT !.parked.gen = c.rng, !.rng = c.parked.train] \in Core
    BY DEF Core
  <2> QED BY <1>3, <2>1 DEF CoreAfter
<1>4. CASE op[1] \in {"generate", "update", "restore"}
  <2>1. /\ c.rng.draws + 1 \in Nat /\ c.version + 1 \in Nat
        /\ c.saved.version \in Nat /\ c.saved.draws \in Nat
    BY CoreFields DEF Draws
  <2>2. ASSUME NEW n \in Nat, NEW v \in Nat
        PROVE  /\ [c EXCEPT !.rng.draws = n] \in Core
               /\ [c EXCEPT !.version = v, !.rng.draws = n] \in Core
    BY DEF Core, Draws
  <2> QED BY <1>4, <2>1, <2>2 DEF CoreAfter
<1>5. CASE op[1] \notin {"release", "resume", "sync", "swap in", "swap out",
                         "generate", "update", "restore"}
  BY <1>5 DEF CoreAfter
<1> QED BY <1>1, <1>2, <1>3, <1>4, <1>5

(* What each operation of a rollout makes of them. *)
LEMMA FirstResume ==
  ASSUME NEW c \in Rest, NEW tags \in SUBSET Tags, job.freeCache
  PROVE  CoreAfter(<<"resume", tags>>, c) \in Waking(tags)
<1> DEFINE e == c.engine
           d == Resumed(e, tags)
<1>1. c \in Core /\ e \in Engine /\ d \in Engine
  BY CoreFields, ReleasedTyped DEF Rest
<1>2. CoreAfter(<<"resume", tags>>, c) = [c EXCEPT !.engine = d]
  BY DEF CoreAfter
<1>3. ASSUME Supported
      PROVE  Fine([c EXCEPT !.engine = d]) /\ Training([c EXCEPT !.engine = d])
             /\ Awake([c EXCEPT !.engine = d], tags)
  <2>1. Fine(c) /\ Training(c) /\ e.awake = IF ~e.reload THEN {} ELSE Tags
    BY <1>3 DEF Rest
  <2>2. ~d.reload /\ d.baseDone = e.baseDone
    BY <1>1, ReleasedTyped
  <2>3. /\ ~e.error
        /\ e.reload => e.awake = Tags
        /\ ~e.reload => e.awake = {}
    BY <2>1 DEF Fine
  <2>4. ~d.error /\ d.awake = tags
    <3>1. tags \cap {} = {} /\ {} \cup tags = tags
      OBVIOUS
    <3>2. ~e.reload => tags \cap e.awake = {}
      BY <2>3, <3>1
    <3>3. ~d.error /\ d.awake = IF e.reload THEN tags ELSE e.awake \cup tags
      BY <1>1, <2>3, <3>2, ResumeDone
    <3> HIDE DEF d
    <3> QED BY <2>3, <3>1, <3>3
  <2> HIDE DEF d
  <2> QED BY <1>1, <2>1, <2>2, <2>4, OtherEngine DEF Fine, Training, Awake
<1> HIDE DEF d
<1> QED BY <1>1, <1>2, <1>3, OtherEngine DEF Waking

(* The cache joins the weights. *)
LEMMA NextResume ==
  ASSUME NEW c \in Full({"weights"})
  PROVE  CoreAfter(<<"resume", {"kv"}>>, c) \in Full(Tags)
<1> DEFINE e == c.engine
           d == Resumed(e, {"kv"})
           a == [c EXCEPT !.engine = d]
<1>1. c \in Core /\ e \in Engine /\ d \in Engine /\ a \in Core
      /\ {"kv"} \in SUBSET Tags
  BY CoreFields, ReleasedTyped, OtherEngine DEF Full, Fresh, Waking, Tags
<1>2. CoreAfter(<<"resume", {"kv"}>>, c) = a
  BY DEF CoreAfter
<1>3. ASSUME Supported
      PROVE  Fine(a) /\ Training(a) /\ Awake(a, Tags)
             /\ a.engine.version = a.version
             /\ (job.drafter => a.engine.drafter)
  <2>1. Fine(c) /\ Training(c) /\ Awake(c, {"weights"}) /\ e.version = c.version
        /\ (job.drafter => e.drafter)
    BY <1>3 DEF Full, Fresh, Waking
  <2>2. {"kv"} \cap {"weights"} = {} /\ {"weights"} \cup {"kv"} = Tags
    BY DEF Tags
  <2>3. ~d.reload /\ d.baseDone = e.baseDone /\ d.drafter = e.drafter
    BY <1>1, ReleasedTyped
  <2>5. ~e.error /\ ~e.reload /\ e.awake = {"weights"}
    BY <2>1 DEF Fine, Awake
  <2>6. ~d.error /\ d.awake = Tags /\ d.version = e.version
    BY <1>1, <2>2, <2>5, ResumeDone
  <2>4. /\ a.engine = d /\ a.rng = c.rng /\ a.parked = c.parked
        /\ a.version = c.version /\ a.saved = c.saved
    BY <1>1, OtherEngine
  <2> HIDE DEF d, a
  <2> QED BY <2>1, <2>3, <2>4, <2>6 DEF Fine, Training, Awake
<1> HIDE DEF d, a
<1> QED BY <1>1, <1>2, <1>3 DEF Full, Fresh, Waking

(* sync_weights gives the engine the version the actor has. *)
LEMMA WeightsArrive ==
  ASSUME NEW tags \in SUBSET Tags, "weights" \in tags, NEW c \in Waking(tags)
  PROVE  CoreAfter(<<"sync", "engine">>, c) \in Fresh(tags)
<1> DEFINE e == c.engine
           d == Synced(e, c.version)
           a == [c EXCEPT !.engine = d]
<1>1. c \in Core /\ e \in Engine /\ c.version \in Nat
  BY CoreFields DEF Waking
<1>2. d \in Engine
  BY <1>1 DEF Synced, Engine
<1>3. /\ a \in Core /\ a.engine = d /\ a.rng = c.rng /\ a.parked = c.parked
      /\ a.version = c.version /\ a.saved = c.saved
  BY <1>1, <1>2, OtherEngine
<1>4. CoreAfter(<<"sync", "engine">>, c) = a
  BY DEF CoreAfter
<1>5. ASSUME Supported
      PROVE  Fine(a) /\ Training(a) /\ Awake(a, tags) /\ d.version = c.version
  <2>1. Fine(c) /\ Training(c) /\ Awake(c, tags)
    BY <1>5 DEF Waking
  <2>2. /\ d.version = c.version /\ d.baseDone /\ d.awake = tags
        /\ d.reload = e.reload /\ d.error = e.error
    BY <1>1, <2>1 DEF Synced, Engine, Fine, Awake
  <2> HIDE DEF d, a
  <2> QED BY <1>3, <2>1, <2>2 DEF Fine, Training, Awake
<1> HIDE DEF d, a
<1> QED BY <1>3, <1>4, <1>5 DEF Fresh, Waking

(* The drafter's weights follow the actor's. *)
LEMMA DrafterArrives ==
  ASSUME NEW tags, NEW c \in Fresh(tags)
  PROVE  CoreAfter(<<"sync", "drafter">>, c) \in Full(tags)
<1> DEFINE e == c.engine
           d == [e EXCEPT !.drafter = TRUE]
           a == [c EXCEPT !.engine = d]
<1>1. c \in Core /\ e \in Engine
  BY CoreFields DEF Fresh, Waking
<1>2. /\ d \in Engine /\ d.drafter /\ d.version = e.version
      /\ d.awake = e.awake /\ d.reload = e.reload /\ d.error = e.error
      /\ d.baseDone = e.baseDone
  BY <1>1 DEF Engine
<1>3. /\ a \in Core /\ a.engine = d /\ a.rng = c.rng /\ a.parked = c.parked
      /\ a.version = c.version /\ a.saved = c.saved
  BY <1>1, <1>2, OtherEngine
<1>4. CoreAfter(<<"sync", "drafter">>, c) = a
  BY DEF CoreAfter
<1> HIDE DEF d, a
<1>5. ASSUME Supported
      PROVE  Fine(a) /\ Training(a) /\ Awake(a, tags) /\ d.version = c.version
  <2>1. Fine(c) /\ Training(c) /\ Awake(c, tags) /\ e.version = c.version
    BY <1>5 DEF Fresh, Waking
  <2> QED BY <1>2, <1>3, <2>1 DEF Fine, Training, Awake
<1> QED BY <1>2, <1>3, <1>4, <1>5 DEF Full, Fresh, Waking

(* The engine is whole: the streams of rollout come in. *)
LEMMA StreamsIn ==
  ASSUME NEW c \in Full(Tags)
  PROVE  CoreAfter(<<"swap in", "rng">>, c) \in Rolling
<1> DEFINE a == [c EXCEPT !.parked.train = c.rng, !.rng = c.parked.gen]
<1>1. c \in Core
  BY DEF Full, Fresh, Waking
<1>2. CoreAfter(<<"swap in", "rng">>, c) = a
  BY DEF CoreAfter
<1>3. /\ a \in Core /\ a.engine = c.engine /\ a.rng = c.parked.gen
      /\ a.parked.train = c.rng /\ a.version = c.version /\ a.saved = c.saved
  BY <1>1 DEF Core
<1> HIDE DEF a
<1>4. ASSUME Supported
      PROVE  /\ Fine(a) /\ Sampling(a) /\ Awake(a, Tags)
             /\ a.engine.version = a.version
             /\ job.drafter => a.engine.drafter
  <2>1. Fine(c) /\ Training(c) /\ Awake(c, Tags)
        /\ c.engine.version = c.version /\ (job.drafter => c.engine.drafter)
    BY <1>4 DEF Full, Fresh, Waking
  <2> QED BY <1>3, <2>1 DEF Fine, Training, Sampling, Awake
<1> QED BY <1>2, <1>3, <1>4 DEF Rolling

(* The engine generates from the actor's weights and the stream of         *)
(* rollout.                                                                *)
LEMMA Generates ==
  ASSUME NEW c \in Rolling
  PROVE  /\ CoreServes(<<"generate", "engine">>, c)
         /\ CoreAfter(<<"generate", "engine">>, c) \in Rolling
<1> DEFINE a == [c EXCEPT !.rng.draws = c.rng.draws + 1]
<1>1. c \in Core
  BY DEF Rolling
<1>2. CoreAfter(<<"generate", "engine">>, c) = a
  BY DEF CoreAfter
<1>3. /\ a \in Core /\ a.engine = c.engine /\ a.rng.stream = c.rng.stream
      /\ a.parked = c.parked /\ a.version = c.version /\ a.saved = c.saved
  BY <1>1 DEF Core, Draws
<1> HIDE DEF a
<1>4. CoreServes(<<"generate", "engine">>, c)
  BY DEF CoreServes, Rolling, Sampling, Awake
<1>5. Supported => /\ Fine(a) /\ Sampling(a) /\ Awake(a, Tags)
                   /\ a.engine.version = a.version
                   /\ job.drafter => a.engine.drafter
  BY <1>3 DEF Rolling, Fine, Sampling, Awake
<1> QED BY <1>2, <1>3, <1>4, <1>5 DEF Rolling

(* The engine releases its memory after rollout. *)
LEMMA MemoryGoes ==
  ASSUME NEW c \in Rolling, job.freeCache
  PROVE  CoreAfter(<<"release", Tags>>, c) \in Slept
<1> DEFINE e == c.engine
           d == Released(e, Tags)
           a == [c EXCEPT !.engine = d]
<1>1. c \in Core /\ e \in Engine /\ d \in Engine
  BY CoreFields, ReleasedTyped DEF Rolling
<1>2. CoreAfter(<<"release", Tags>>, c) = a
  BY DEF CoreAfter
<1>3. /\ a \in Core /\ a.engine = d /\ a.rng = c.rng /\ a.parked = c.parked
      /\ a.version = c.version /\ a.saved = c.saved
  BY <1>1, OtherEngine
<1>4. ASSUME Supported
      PROVE  Fine(a) /\ Sampling(a) /\ Awake(a, {})
  <2>1. Fine(c) /\ Sampling(c) /\ Awake(c, Tags)
    BY <1>4 DEF Rolling
  <2>2. ~d.error /\ d.awake = {} /\ d.reload = e.reload
        /\ d.baseDone = e.baseDone
    BY <1>1, <2>1, ReleaseDone, ReleasedTyped DEF Fine, Awake
  <2> HIDE DEF d, a
  <2> QED BY <1>3, <2>1, <2>2 DEF Fine, Sampling, Awake
<1> HIDE DEF d, a
<1> QED BY <1>2, <1>3, <1>4 DEF Slept

(* The stream of training is back, where it was. *)
LEMMA StreamsOut ==
  ASSUME NEW c \in Slept
  PROVE  CoreAfter(<<"swap out", "rng">>, c) \in Rest
<1> DEFINE a == [c EXCEPT !.parked.gen = c.rng, !.rng = c.parked.train]
<1>1. c \in Core
  BY DEF Slept
<1>2. CoreAfter(<<"swap out", "rng">>, c) = a
  BY DEF CoreAfter
<1>3. /\ a \in Core /\ a.engine = c.engine /\ a.rng = c.parked.train
      /\ a.parked.gen = c.rng /\ a.version = c.version /\ a.saved = c.saved
  BY <1>1 DEF Core
<1> HIDE DEF a
<1>4. Supported => /\ Fine(a) /\ Training(a)
                   /\ a.engine.awake = IF job.freeCache /\ ~a.engine.reload
                                       THEN {} ELSE Tags
  BY <1>3 DEF Slept, Fine, Training, Sampling, Awake
<1> QED BY <1>2, <1>3, <1>4 DEF Rest

-----------------------------------------------------------------------------
(* Calls that leave the engine at rest *)

(* The values of the job's flags. *)
LEMMA Flags ==
  ASSUME job \in Jobs
  PROVE  /\ job.offParam \in BOOLEAN /\ job.offOpt \in BOOLEAN
         /\ job.freeCache \in BOOLEAN /\ job.auxOffload \in BOOLEAN
         /\ job.multiStage \in BOOLEAN /\ job.drafter \in BOOLEAN
         /\ job.async \in BOOLEAN /\ job.lora \in BOOLEAN
         /\ Megatron \in BOOLEAN
         /\ job.rollout \in {"sglang", "vllm"}
BY JobsAssumption DEF Megatron

(* With an engine at rest, what a call brings to the GPU is within the     *)
(* budget.                                                                 *)
LEMMA RestCalm ==
  ASSUME NEW S \in SUBSET Module,
         "actor_opt" \in S => call \in {"update_actor", "load_actor"},
         "critic_opt" \in S => call \in {"update_critic", "load_critic"},
         "actor_grad" \in S /\ Megatron =>
           \/ call \in {"update_actor", "save_actor", "load_actor"}
           \/ call = "generate" /\ job.rollout = "sglang"
  PROVE  States(S, Rest) \subseteq Calm
<1>1. \A c \in Rest : NoCache(c)
  BY DEF Rest, NoCache, Tags
<1>2. Kept(S, Rest)
  BY <1>1 DEF Kept, Rest, Fine
<1> QED BY <1>1, <1>2, KeptCalm

AtRest == States({}, Rest)

(* compute_log_prob runs from rest to rest. *)
LEMMA LogProbRuns ==
  ASSUME job \in Jobs
  PROVE  Triple(Calm, AtRest, ComputeLogProb, AtRest)
<1> DEFINE S == {"actor"}
<1>1. States({}, Rest) \subseteq Calm /\ States(S, Rest) \subseteq Calm
  BY RestCalm DEF Module
<1>2. {} \cup {"actor"} = S /\ S \ Weights("actor") = {}
      /\ "actor" \in {"actor", "critic"} /\ "actor" \in Module
      /\ "none" \notin Home("actor")
  BY DEF Weights, Home, Off, Module
<1>3. Triple(Calm, States({}, Rest), LoadParams("actor"), States(S, Rest))
  BY <1>1, <1>2, Flags, ParamsLoad
<1>4. Triple(Calm, States(S, Rest), <<<<"forward", "actor">>>>, States(S, Rest))
  BY <1>1, <1>2, UseRuns
<1>5. Triple(Calm, States(S, Rest), Offload("actor"), States({}, Rest))
  BY <1>1, <1>2, Flags, ModelOffloads
<1> HIDE DEF S
<1> QED BY <1>3, <1>4, <1>5, BothRun DEF ComputeLogProb, AtRest

(* A forward pass of the reference or the reward model runs from rest to   *)
(* rest.                                                                   *)
LEMMA AuxRuns ==
  ASSUME job \in Jobs, NEW m \in {"ref", "rm"}
  PROVE  Triple(Calm, AtRest, ForwardAux(m), AtRest)
<1> DEFINE S == {m}
<1>1. States({}, Rest) \subseteq Calm /\ States(S, Rest) \subseteq Calm
  BY RestCalm DEF Module
<1>2. /\ {} \cup S = S /\ S \ S = {} /\ S \in SUBSET Module /\ m \in Module
      /\ "none" \notin Home(m)
      /\ Megatron /\ job.auxOffload => Offloaded(m)
      /\ ~(Megatron /\ job.auxOffload) => Home(m) = {"gpu"}
  BY DEF Home, Off, Module, Offloaded
<1>3. Triple(Calm, States({}, Rest), <<<<"load", S>>>>, States(S, Rest))
  BY <1>1, <1>2, LoadRuns
<1>4. Triple(Calm, States(S, Rest), <<<<"forward", m>>>>, States(S, Rest))
  BY <1>1, <1>2, UseRuns
<1>5. CASE Megatron /\ job.auxOffload
  <2>1. Triple(Calm, States(S, Rest), <<<<"offload", S>>>>, States({}, Rest))
    BY <1>1, <1>2, <1>5, OffloadRuns
  <2>2. ForwardAux(m) = (<<<<"load", S>>>> \o <<<<"forward", m>>>>)
                        \o <<<<"offload", S>>>>
    BY <1>5, SMTT(60) DEF ForwardAux
  <2> HIDE DEF S
  <2> QED BY <1>3, <1>4, <2>1, <2>2, BothRun DEF AtRest
<1>6. CASE ~(Megatron /\ job.auxOffload)
  <2>1. Triple(Calm, States({}, Rest), <<<<"forward", m>>>>, States({}, Rest))
    BY <1>1, <1>2, <1>6, UseRuns
  <2> QED BY <1>6, <2>1 DEF ForwardAux, AtRest
<1> QED BY <1>5, <1>6

(* compute_values runs from rest to rest. *)
LEMMA ValuesRun ==
  ASSUME job \in Jobs
  PROVE  Triple(Calm, AtRest, ComputeValues, AtRest)
<1> DEFINE S == {"critic", "critic_grad"}
<1>1. States({}, Rest) \subseteq Calm /\ States(S, Rest) \subseteq Calm
  BY RestCalm DEF Module
<1>2. {} \cup Weights("critic") = S /\ S \ Weights("critic") = {}
      /\ "critic" \in {"actor", "critic"} /\ "critic" \in Module
      /\ "none" \notin Home("critic") /\ "critic" \in S
  BY DEF Weights, GradOf, Home, Off, Module
<1>3. Triple(Calm, States({}, Rest), Load("critic"), States(S, Rest))
  BY <1>1, <1>2, Flags, ModelLoads
<1>4. Triple(Calm, States(S, Rest), <<<<"forward", "critic">>>>,
             States(S, Rest))
  BY <1>1, <1>2, UseRuns
<1>5. Triple(Calm, States(S, Rest), Offload("critic"), States({}, Rest))
  BY <1>1, <1>2, Flags, ModelOffloads
<1> HIDE DEF S
<1> QED BY <1>3, <1>4, <1>5, BothRun DEF ComputeValues, AtRest

(* save_checkpoint runs from rest to rest. *)
LEMMA SaveRuns ==
  ASSUME job \in Jobs, NEW m \in {"actor", "critic"},
         m = "actor" => call = "save_actor"
  PROVE  Triple(Calm, AtRest, SaveCheckpoint(m), AtRest)
<1> DEFINE S == Weights(m)
<1>1. States({}, Rest) \subseteq Calm /\ States(S, Rest) \subseteq Calm
  BY RestCalm DEF Module, Weights, GradOf
<1>2. {} \cup S = S /\ S \ S = {} /\ m \in Module /\ m \in S
      /\ "none" \notin Home(m)
  BY DEF Weights, Home, Off, Module
<1>3. \A c \in Rest : CoreServes(<<"write", m>>, c)
  BY DEF Rest, CoreServes, Training
<1>4. Triple(Calm, States({}, Rest), Load(m), States(S, Rest))
  BY <1>1, <1>2, Flags, ModelLoads
<1>5. Triple(Calm, States(S, Rest), <<<<"write", m>>>>, States(S, Rest))
  BY <1>1, <1>2, <1>3, UseRuns
<1>6. Triple(Calm, States(S, Rest), Offload(m), States({}, Rest))
  BY <1>1, <1>2, Flags, ModelOffloads
<1> HIDE DEF S
<1> QED BY <1>4, <1>5, <1>6, BothRun DEF SaveCheckpoint, AtRest

(* A model, its gradients and its optimizer are three; the model is always  *)
(* there.                                                                  *)
LEMMA Kin ==
  ASSUME NEW m \in {"actor", "critic"}
  PROVE  /\ m \in Module /\ OptOf(m) \in Module /\ GradOf(m) \in Module
         /\ OptOf(m) # m /\ OptOf(m) # GradOf(m) /\ GradOf(m) # m
         /\ "none" \notin Home(m) /\ Home(OptOf(m)) # {"none"}
BY DEF Module, OptOf, GradOf, Home, Off

(* The optimizer steps, with model and state on the GPU. *)
LEMMA StepRuns ==
  ASSUME NEW T, NEW S, NEW m \in {"actor", "critic"},
         States(S, Rest) \subseteq T, Weights(m) \subseteq S, OptOf(m) \in S
  PROVE  Triple(T, States(S, Rest), <<<<"update", m>>>>, States(S, Rest))
<1> DEFINE op == <<"update", m>>
           o == OptOf(m)
<1>1. op \in Op /\ op[1] = "update" /\ op[2] = m
  BY DEF Op, OpName, OpArg, Module
<1> HIDE DEF op
<1>2. ASSUME NEW x \in States(S, Rest)
      PROVE  Serves(op, x) /\ Made(op, x) \in States(S, Rest)
  <2> DEFINE p == x.place
             q == [p EXCEPT ![o] = "gpu"]
             c == x.core
             d == CoreAfter(op, c)
  <2>1. p \in Places /\ Placed(p, S) /\ c \in Rest /\ c \in Core
    BY DEF States, State
  <2>2. PlaceServes(op, p)
    <3>1. p[m] = "gpu" /\ p[o] # "cpu" /\ p[GradOf(m)] # "cpu"
      BY <2>1, Kin DEF Placed, Weights
    <3> QED BY <1>1, <3>1 DEF PlaceServes
  <2>3. CoreServes(op, c)
    BY <1>1, <2>1 DEF CoreServes, Rest, Training
  <2>4. q \in Places /\ Placed(q, S)
    BY <2>1, Kin DEF Placed, Places
  <2>5. d \in Rest
    <3>1. d \in Core
      BY <1>1, <2>1, Typed
    <3>2. /\ d.engine = c.engine /\ d.parked = c.parked /\ d.saved = c.saved
          /\ c.rng = [stream |-> "train", draws |-> c.version] =>
               d.rng = [stream |-> "train", draws |-> d.version]
      <4>1. CASE m = "critic"
        BY <1>1, <4>1 DEF CoreAfter
      <4>2. CASE m = "actor"
        <5>1. d = [c EXCEPT !.version = c.version + 1,
                            !.rng.draws = c.rng.draws + 1]
          BY <1>1, <4>2 DEF CoreAfter
        <5>2. /\ d.engine = c.engine /\ d.parked = c.parked
              /\ d.saved = c.saved /\ d.version = c.version + 1
              /\ d.rng = [c.rng EXCEPT !.draws = c.rng.draws + 1]
          BY <2>1, <5>1 DEF Core
        <5> HIDE DEF d
        <5> QED BY <5>2
      <4> QED BY <4>1, <4>2
    <3> HIDE DEF d
    <3> QED BY <2>1, <3>1, <3>2 DEF Rest, Fine, Training
  <2>6. Made(op, x) = [place |-> q, core |-> d]
    BY <1>1 DEF Made, PlaceAfter
  <2> HIDE DEF q, d, p, c
  <2>7. Serves(op, x)
    BY <2>2, <2>3 DEF Serves, p, c
  <2>8. [place |-> q, core |-> d] \in State
    BY <2>4, <2>5 DEF State, Rest
  <2> QED BY <2>4, <2>5, <2>6, <2>7, <2>8 DEF States
<1>3. Triple(T, States(S, Rest), <<op>>, States(S, Rest))
  BY <1>1, <1>2, OneRuns
<1> QED BY <1>3 DEF op

(* A restored optimizer is on the GPU, where its parameters are. *)
LEMMA RestoreRuns ==
  ASSUME NEW T, NEW S, NEW m \in {"actor", "critic"},
         States(S, Rest) \subseteq T,
         States(S \cup {OptOf(m)}, Rest) \subseteq T, m \in S
  PROVE  Triple(T, States(S, Rest), <<<<"restore", m>>>>,
                States(S \cup {OptOf(m)}, Rest))
<1> DEFINE op == <<"restore", m>>
           o == OptOf(m)
           R == S \cup {o}
<1>1. op \in Op /\ op[1] = "restore" /\ op[2] = m
  BY DEF Op, OpName, OpArg, Module
<1> HIDE DEF op
<1>2. ASSUME NEW x \in States(S, Rest)
      PROVE  Serves(op, x) /\ Made(op, x) \in States(R, Rest)
  <2> DEFINE p == x.place
             q == [p EXCEPT ![o] = p[m]]
             c == x.core
             d == CoreAfter(op, c)
  <2>1. p \in Places /\ Placed(p, S) /\ c \in Rest /\ c \in Core
    BY DEF States, State, Rest
  <2>2. Serves(op, x)
    BY <1>1 DEF Serves, PlaceServes, CoreServes
  <2>3. q \in Places /\ Placed(q, R)
    <3>1. p[m] = "gpu"
      BY <2>1, Kin DEF Placed
    <3> QED BY <2>1, <3>1, Kin DEF Placed, Places
  <2>4. d \in Rest
    <3>1. d \in Core
      BY <1>1, <2>1, Typed
    <3>2. d = [c EXCEPT !.version = c.saved.version,
                        !.rng.draws = c.saved.draws]
      BY <1>1 DEF CoreAfter
    <3>3. /\ d.engine = c.engine /\ d.parked = c.parked /\ d.saved = c.saved
          /\ d.version = c.saved.version
          /\ d.rng = [c.rng EXCEPT !.draws = c.saved.draws]
      BY <2>1, <3>2 DEF Core
    <3> HIDE DEF d
    <3> QED BY <2>1, <3>1, <3>3 DEF Rest, Fine, Training
  <2>5. Made(op, x) = [place |-> q, core |-> d]
    BY <1>1 DEF Made, PlaceAfter
  <2> HIDE DEF q, d, p, c
  <2>6. [place |-> q, core |-> d] \in State
    BY <2>3, <2>4 DEF State, Rest
  <2> QED BY <2>2, <2>3, <2>4, <2>5, <2>6 DEF States
<1>3. Triple(T, States(S, Rest), <<op>>, States(R, Rest))
  BY <1>1, <1>2, OneRuns
<1> QED BY <1>3 DEF op

UpdateOf(m) == IF m = "actor" THEN "update_actor" ELSE "update_critic"
LoadOf(m) == IF m = "actor" THEN "load_actor" ELSE "load_critic"

(* A call that trains or restores m may have all of it on the GPU.         *)
LEMMA WholeCalm ==
  ASSUME NEW m \in {"actor", "critic"},
         call \in {UpdateOf(m), LoadOf(m)}, NEW S,
         S \subseteq Weights(m) \cup {OptOf(m)}
  PROVE  States(S, Rest) \subseteq Calm
<1>1. S \in SUBSET Module
  BY Kin DEF Weights
<1>2. /\ "actor_opt" \in S => call \in {"update_actor", "load_actor"}
      /\ "critic_opt" \in S => call \in {"update_critic", "load_critic"}
      /\ "actor_grad" \in S =>
           call \in {"update_actor", "save_actor", "load_actor"}
  BY DEF Weights, OptOf, GradOf, UpdateOf, LoadOf
<1> QED BY <1>1, <1>2, RestCalm

(* update_actor and update_critic run from rest to rest. *)
LEMMA UpdateRuns ==
  ASSUME job \in Jobs, NEW m \in {"actor", "critic"},
         call = UpdateOf(m)
  PROVE  Triple(Calm, AtRest,
                Load(m) \o LoadOpt(OptOf(m)) \o <<<<"update", m>>>>
                  \o Offload(m) \o OffloadOpt(OptOf(m)), AtRest)
<1> DEFINE W == Weights(m)
           o == OptOf(m)
           B == W \cup {o}
<1>1. /\ States({}, Rest) \subseteq Calm /\ States(W, Rest) \subseteq Calm
      /\ States(B, Rest) \subseteq Calm /\ States({o}, Rest) \subseteq Calm
  BY WholeCalm
<1>2. {} \cup W = W /\ B \ W = {o} /\ {o} \ {o} = {}
  BY Kin DEF Weights
<1>3. Triple(Calm, States({}, Rest), Load(m), States(W, Rest))
  BY <1>1, <1>2, Flags, ModelLoads
<1>4. Triple(Calm, States(W, Rest), LoadOpt(o), States(B, Rest))
  BY <1>1, Flags, OptimizerLoads
<1>5. Triple(Calm, States(B, Rest), <<<<"update", m>>>>, States(B, Rest))
  BY <1>1, StepRuns
<1>6. Triple(Calm, States(B, Rest), Offload(m), States({o}, Rest))
  BY <1>1, <1>2, Flags, ModelOffloads
<1>7. Triple(Calm, States({o}, Rest), OffloadOpt(o), States({}, Rest))
  BY <1>1, <1>2, Flags, OptimizerOffloads
<1> HIDE DEF W, o, B
<1>8. Triple(Calm, AtRest, Load(m) \o LoadOpt(o) \o <<<<"update", m>>>>
               \o Offload(m) \o OffloadOpt(o), AtRest)
  BY <1>3, <1>4, <1>5, <1>6, <1>7, BothRun DEF AtRest
<1> QED BY <1>8 DEF o

(* load_checkpoint runs from rest to rest. *)
LEMMA LoadingRuns ==
  ASSUME job \in Jobs, NEW m \in {"actor", "critic"},
         call = LoadOf(m)
  PROVE  Triple(Calm, AtRest, LoadCheckpoint(m, OptOf(m)), AtRest)
<1> DEFINE W == Weights(m)
           o == OptOf(m)
           B == W \cup {o}
<1>1. /\ States({}, Rest) \subseteq Calm /\ States(W, Rest) \subseteq Calm
      /\ States(B, Rest) \subseteq Calm /\ States({o}, Rest) \subseteq Calm
  BY WholeCalm
<1>2. {} \cup W = W /\ B \ W = {o} /\ {o} \ {o} = {} /\ m \in W
  BY Kin DEF Weights
<1>3. Triple(Calm, States({}, Rest), Load(m), States(W, Rest))
  BY <1>1, <1>2, Flags, ModelLoads
<1>4. Triple(Calm, States(W, Rest), <<<<"restore", m>>>>, States(B, Rest))
  BY <1>1, <1>2, RestoreRuns
<1>5. Triple(Calm, States(B, Rest), Offload(m), States({o}, Rest))
  BY <1>1, <1>2, Flags, ModelOffloads
<1>6. Triple(Calm, States({o}, Rest), OffloadOpt(o), States({}, Rest))
  BY <1>1, <1>2, Flags, OptimizerOffloads
<1> HIDE DEF W, B
<1> QED BY <1>3, <1>4, <1>5, <1>6, BothRun DEF LoadCheckpoint, AtRest

-----------------------------------------------------------------------------
(* Rollout *)

(* A run in which the ranks meet after the actor has left and before the   *)
(* cache is there.                                                         *)
Crossing(ops, f, b) ==
    /\ b \in 1..Len(ops) /\ ops[b][1] = "sync"
    /\ \A i \in 1..b : f[i] \in Calm
    /\ \A i \in b + 1..Len(ops) + 1 : f[i] \in Away

Cross(P, ops, Q) ==
    /\ ops \in Seq(Op)
    /\ \A x \in P : \E f : /\ Run(Good, ops, f)
                           /\ f[1] = x /\ f[Len(ops) + 1] \in Q
                           /\ \E b \in 1..Len(ops) : Crossing(ops, f, b)

(* Either side of a crossing is within the budget. *)
LEMMA CalmIsGood == Calm \subseteq Good /\ Away \subseteq Good
BY DEF Calm, Away

(* A run through states of T is one through those of a larger U. *)
LEMMA RunWidens ==
  ASSUME NEW T, NEW U, T \subseteq U, NEW ops, NEW f, Run(T, ops, f)
  PROVE  Run(U, ops, f)
BY DEF Run

(* Where the operations of two programs are in both, one after the other. *)
LEMMA Around ==
  ASSUME NEW a \in Seq(Op), NEW b \in Seq(Op)
  PROVE  /\ a \o b \in Seq(Op) /\ Len(a) \in Nat /\ Len(b) \in Nat
         /\ Len(a \o b) = Len(a) + Len(b)
         /\ \A i \in 1..Len(a) : (a \o b)[i] = a[i]
         /\ \A i \in 1..Len(b) : (a \o b)[Len(a) + i] = b[i]
<1>1. /\ a \o b \in Seq(Op) /\ Len(a) \in Nat /\ Len(b) \in Nat
      /\ Len(a \o b) = Len(a) + Len(b)
      /\ \A i \in 1..Len(a) : (a \o b)[i] = a[i]
      /\ \A i \in Len(a) + 1..Len(a) + Len(b) : (a \o b)[i] = b[i - Len(a)]
  BY ConcatProperties
<1>2. ASSUME NEW i \in 1..Len(b)
      PROVE  (a \o b)[Len(a) + i] = b[i]
  <2> DEFINE j == Len(a) + i
  <2>1. j \in Len(a) + 1..Len(a) + Len(b) /\ j - Len(a) = i
    BY <1>1
  <2> HIDE DEF j
  <2>2. (a \o b)[j] = b[i]
    BY <1>1, <2>1
  <2> QED BY <2>2 DEF j
<1> QED BY <1>1, <1>2

(* A sync from calm to away is a crossing. *)
LEMMA CrossOne ==
  ASSUME NEW P, NEW Q, NEW op \in Op, op[1] = "sync",
         P \subseteq Calm, Q \subseteq Away,
         \A x \in P : Serves(op, x) /\ Made(op, x) \in Q
  PROVE  Cross(P, <<op>>, Q)
<1>1. Triple(Good, P, <<op>>, Q)
  BY CalmIsGood, OneRuns
<1>2. Len(<<op>>) = 1 /\ <<op>>[1] = op /\ 1..1 = {1} /\ 1 + 1 = 2
      /\ 2..2 = {2}
  OBVIOUS
<1> SUFFICES ASSUME NEW x \in P
             PROVE  \E f : /\ Run(Good, <<op>>, f)
                           /\ f[1] = x /\ f[Len(<<op>>) + 1] \in Q
                           /\ \E b \in 1..Len(<<op>>) : Crossing(<<op>>, f, b)
  BY <1>1 DEF Cross, Triple
<1>3. PICK f : Run(Good, <<op>>, f) /\ f[1] = x /\ f[Len(<<op>>) + 1] \in Q
  BY <1>1 DEF Triple
<1>4. Crossing(<<op>>, f, 1)
  BY <1>2, <1>3 DEF Crossing
<1> QED BY <1>2, <1>3, <1>4

(* What is calm may precede a crossing. *)
LEMMA CrossAfter ==
  ASSUME NEW P, NEW Q, NEW R, NEW a, NEW b,
         Triple(Calm, P, a, Q), Cross(Q, b, R)
  PROVE  Cross(P, a \o b, R)
<1> DEFINE k == Len(a)
           n == Len(b)
           ab == a \o b
<1>1. /\ a \in Seq(Op) /\ b \in Seq(Op) /\ ab \in Seq(Op)
      /\ k \in Nat /\ n \in Nat /\ Len(ab) = k + n
      /\ \A i \in 1..n : ab[k + i] = b[i]
  BY Around DEF Triple, Cross
<1> SUFFICES ASSUME NEW x \in P
             PROVE  \E h : /\ Run(Good, ab, h)
                           /\ h[1] = x /\ h[Len(ab) + 1] \in R
                           /\ \E c \in 1..Len(ab) : Crossing(ab, h, c)
  BY <1>1 DEF Cross
<1>2. PICK f : Run(Calm, a, f) /\ f[1] = x /\ f[k + 1] \in Q
  BY DEF Triple
<1>3. PICK g : /\ Run(Good, b, g) /\ g[1] = f[k + 1] /\ g[n + 1] \in R
               /\ \E c \in 1..n : Crossing(b, g, c)
  BY <1>2 DEF Cross
<1>4. PICK m \in 1..n : Crossing(b, g, m)
  BY <1>3
<1>5. f[k + 1] = g[1] /\ Calm \cup Good = Good
  BY <1>3, CalmIsGood
<1>6. PICK h : Joins(h, Calm, Good, a, b, f, g)
  BY <1>1, <1>2, <1>3, <1>5, Joined
<1>7. /\ Run(Good, ab, h) /\ h[1] = x /\ h[Len(ab) + 1] \in R
      /\ \A i \in 1..k + 1 : h[i] \in Calm
  <2>1. 1 \in 1..k + 1
    BY <1>1
  <2> QED BY <1>2, <1>3, <1>5, <1>6, <2>1 DEF Joins
<1>8. \A i \in 1..n + 1 : h[k + i] = g[i]
  BY <1>6 DEF Joins
<1>9. Crossing(ab, h, k + m)
  <2> DEFINE c == k + m
  <2>1. c \in 1..Len(ab) /\ ab[c][1] = "sync"
    BY <1>1, <1>4 DEF Crossing
  <2>2. ASSUME NEW i \in 1..c PROVE h[i] \in Calm
    <3>1. CASE i \in 1..k + 1
      BY <1>7, <3>1
    <3>2. CASE i \notin 1..k + 1
      <4> DEFINE j == i - k
      <4>1. j \in 1..m /\ i = k + j /\ j \in 1..n + 1
        BY <1>1, <3>2
      <4> HIDE DEF j
      <4>2. h[i] = g[j] /\ g[j] \in Calm
        BY <1>4, <1>8, <4>1 DEF Crossing
      <4> QED BY <4>2
    <3> QED BY <3>1, <3>2
  <2>3. ASSUME NEW i \in c + 1..Len(ab) + 1 PROVE h[i] \in Away
    <3> DEFINE j == i - k
    <3>1. j \in m + 1..n + 1 /\ i = k + j /\ j \in 1..n + 1
      BY <1>1
    <3> HIDE DEF j
    <3>2. h[i] = g[j] /\ g[j] \in Away
      BY <1>4, <1>8, <3>1 DEF Crossing
    <3> QED BY <3>2
  <2> QED BY <2>1, <2>2, <2>3 DEF Crossing
<1>10. k + m \in 1..Len(ab)
  BY <1>1
<1> QED BY <1>7, <1>9, <1>10

(* What stays away may follow it. *)
LEMMA CrossThen ==
  ASSUME NEW P, NEW Q, NEW R, NEW a, NEW b,
         Cross(P, a, Q), Triple(Away, Q, b, R)
  PROVE  Cross(P, a \o b, R)
<1> DEFINE k == Len(a)
           n == Len(b)
           ab == a \o b
<1>1. /\ a \in Seq(Op) /\ b \in Seq(Op) /\ ab \in Seq(Op)
      /\ k \in Nat /\ n \in Nat /\ Len(ab) = k + n
      /\ \A i \in 1..k : ab[i] = a[i]
  BY Around DEF Triple, Cross
<1> SUFFICES ASSUME NEW x \in P
             PROVE  \E h : /\ Run(Good, ab, h)
                           /\ h[1] = x /\ h[Len(ab) + 1] \in R
                           /\ \E c \in 1..Len(ab) : Crossing(ab, h, c)
  BY <1>1 DEF Cross
<1>2. PICK f : /\ Run(Good, a, f) /\ f[1] = x /\ f[k + 1] \in Q
               /\ \E c \in 1..k : Crossing(a, f, c)
  BY DEF Cross
<1>3. PICK m \in 1..k : Crossing(a, f, m)
  BY <1>2
<1>4. PICK g : Run(Away, b, g) /\ g[1] = f[k + 1] /\ g[n + 1] \in R
  BY <1>2 DEF Triple
<1>5. f[k + 1] = g[1] /\ Good \cup Away = Good
  BY <1>4, CalmIsGood
<1>6. PICK h : Joins(h, Good, Away, a, b, f, g)
  BY <1>1, <1>2, <1>4, <1>5, Joined
<1>7. /\ Run(Good, ab, h) /\ h[1] = x /\ h[Len(ab) + 1] \in R
      /\ \A i \in 1..k + 1 : h[i] = f[i]
      /\ \A i \in k + 1..Len(ab) + 1 : h[i] \in Away
  <2>1. 1 \in 1..k + 1
    BY <1>1
  <2> QED BY <1>2, <1>4, <1>5, <1>6, <2>1 DEF Joins
<1>8. Crossing(ab, h, m)
  <2>1. m \in 1..Len(ab) /\ ab[m][1] = "sync"
    BY <1>1, <1>3 DEF Crossing
  <2>2. ASSUME NEW i \in 1..m PROVE h[i] \in Calm
    <3>1. i \in 1..k + 1
      BY <1>1
    <3> QED BY <1>3, <1>7, <3>1 DEF Crossing
  <2>3. ASSUME NEW i \in m + 1..Len(ab) + 1 PROVE h[i] \in Away
    <3>1. CASE i \in 1..k + 1
      <4>1. i \in m + 1..k + 1
        BY <1>1, <3>1
      <4> QED BY <1>3, <1>7, <3>1, <4>1 DEF Crossing
    <3>2. CASE i \notin 1..k + 1
      <4>1. i \in k + 1..Len(ab) + 1
        BY <1>1, <3>2
      <4> QED BY <1>7, <4>1
    <3> QED BY <3>1, <3>2
  <2> QED BY <2>1, <2>2, <2>3 DEF Crossing
<1>9. m \in 1..Len(ab)
  BY <1>1
<1> QED BY <1>7, <1>8, <1>9

(* Cores whose engine has made no error. *)
Sound(C) == C \in SUBSET Core /\ (Supported => \A c \in C : ~c.engine.error)

(* In a supported configuration no kind of core above has an engine error. *)
LEMMA SoundCores ==
  ASSUME NEW tags
  PROVE  /\ Sound(Rest) /\ Sound(Waking(tags)) /\ Sound(Fresh(tags))
         /\ Sound(Full(tags)) /\ Sound(Rolling) /\ Sound(Slept)
BY DEF Sound, Rest, Waking, Fresh, Full, Rolling, Slept, Fine

(* With all offloaded modules out, the GPU is away. *)
LEMMA OutAway ==
  ASSUME NEW C, Sound(C)
  PROVE  States({}, C) \subseteq Away
<1>1. Kept({}, C)
  BY DEF Kept, Sound
<1> QED BY <1>1, KeptAway

(* And calm, while the cache is not there. *)
LEMMA OutCalm ==
  ASSUME NEW C, Sound(C), MeetBeforeCache => \A c \in C : NoCache(c)
  PROVE  States({}, C) \subseteq Calm
<1>1. Kept({}, C)
  BY DEF Kept, Sound
<1> QED BY <1>1, KeptCalm

(* The actor is on the GPU while the cache is not there. *)
LEMMA ActorCalm ==
  ASSUME NEW C, Sound(C), \A c \in C : NoCache(c), call = "generate",
         NEW S \in SUBSET Weights("actor"),
         Megatron => job.rollout = "sglang" \/ "actor_grad" \notin S
  PROVE  States(S, C) \subseteq Calm
<1>1. /\ S \in SUBSET Module /\ "actor_opt" \notin S /\ "critic_opt" \notin S
  BY DEF Weights, GradOf, Module
<1>2. Kept(S, C)
  BY <1>1 DEF Kept, Sound
<1> QED BY <1>2, KeptCalm

(* An operation on the engine or the streams takes one kind of core to the *)
(* next.                                                                   *)
LEMMA EngineRuns ==
  ASSUME NEW T, NEW S, NEW C, NEW D, Sound(D),
         NEW name \in {"release", "resume", "sync", "swap in", "swap out",
                       "generate"},
         NEW arg \in OpArg,
         States(S, C) \subseteq T, States(S, D) \subseteq T,
         \A c \in C : CoreAfter(<<name, arg>>, c) \in D,
         name = "generate" => \A c \in C : CoreServes(<<name, arg>>, c)
  PROVE  Triple(T, States(S, C), <<<<name, arg>>>>, States(S, D))
<1> DEFINE op == <<name, arg>>
<1>1. op \in Op /\ op[1] = name /\ D \in SUBSET Core
  BY DEF Op, OpName, Sound
<1>2. /\ \A c \in C : CoreAfter(op, c) \in D
      /\ name = "generate" => \A c \in C : CoreServes(op, c)
  OBVIOUS
<1> HIDE DEF op
<1>3. \A c \in C : CoreServes(op, c)
  BY <1>1, <1>2 DEF CoreServes
<1>4. Triple(T, States(S, C), <<op>>, States(S, D))
  BY <1>1, <1>2, <1>3, CoreRuns
<1> QED BY <1>4 DEF op

(* The arguments of the engine's operations. *)
LEMMA Arguments ==
  /\ Tags \in OpArg /\ {"weights"} \in OpArg /\ {"kv"} \in OpArg
  /\ "engine" \in OpArg /\ "drafter" \in OpArg /\ "rng" \in OpArg
  /\ Tags \in SUBSET Tags /\ {"weights"} \in SUBSET Tags
  /\ "weights" \in Tags
<1>1. Tags \in SUBSET Tags /\ {"weights"} \in SUBSET Tags
      /\ {"kv"} \in SUBSET Tags /\ "weights" \in Tags
  BY DEF Tags
<1>2. "drafter" \in Module
  BY DEF Module
<1> QED BY <1>1, <1>2 DEF OpArg

(* An engine whose memory is never freed is awake at rest. *)
LEMMA AwakeAlready ==
  ASSUME ~job.freeCache
  PROVE  Rest \subseteq Waking(Tags)
BY DEF Rest, Waking, Fine, Awake

(* Without a drafter the engine is whole once it has the weights. *)
LEMMA NoDrafter ==
  ASSUME NEW tags, Supported => ~job.drafter
  PROVE  Fresh(tags) \subseteq Full(tags)
BY DEF Full

(* A waking engine has no cache unless it was asked for. *)
LEMMA WithoutCache ==
  ASSUME NEW tags, job.freeCache => "kv" \notin tags
  PROVE  \A c \in Waking(tags) : NoCache(c)
BY DEF Waking, Awake, NoCache

-----------------------------------------------------------------------------
(* Generation *)

(* FSDP: the weights are read, the actor leaves, memory for what comes     *)
(* first comes back, and the ranks hand the weights over together.         *)
LEMMA HandedOver ==
  ASSUME job \in Jobs, call = "generate", ~Megatron,
         NEW V \in {{"weights"}, Tags}, ~job.freeCache => V = Tags,
         MeetBeforeCache /\ job.freeCache => V = {"weights"}
  PROVE  Cross(AtRest,
               Load("actor") \o <<<<"read", "actor">>>> \o Offload("actor")
                 \o When(job.freeCache, <<<<"resume", V>>>>)
                 \o <<<<"sync", "engine">>>>, States({}, Fresh(V)))
<1> DEFINE W == Weights("actor")
           free == When(job.freeCache, <<<<"resume", V>>>>)
<1>1. \A c \in Rest : NoCache(c)
  BY DEF Rest, NoCache, Tags
<1>2. /\ States({}, Rest) \subseteq Calm /\ States(W, Rest) \subseteq Calm
  BY <1>1, SoundCores, OutCalm, ActorCalm
<1>3. V \in SUBSET Tags /\ V \in OpArg /\ "weights" \in V
  BY Arguments
<1>4. /\ "actor" \in Module /\ "none" \notin Home("actor") /\ "actor" \in W
      /\ {} \cup W = W /\ W \ W = {} /\ "actor" \in {"actor", "critic"}
  BY DEF Module, Home, Off, Weights
<1>5. Triple(Calm, States({}, Rest), Load("actor"), States(W, Rest))
  BY <1>2, <1>4, Flags, ModelLoads
<1>6. Triple(Calm, States(W, Rest), <<<<"read", "actor">>>>, States(W, Rest))
  BY <1>2, <1>4, UseRuns
<1>7. Triple(Calm, States(W, Rest), Offload("actor"), States({}, Rest))
  BY <1>2, <1>4, Flags, ModelOffloads
<1>8. MeetBeforeCache => \A c \in Waking(V) : NoCache(c)
  <2>1. CASE job.freeCache
    BY <2>1, WithoutCache
  <2>2. CASE ~job.freeCache
    BY <2>2 DEF NoCache
  <2> QED BY <2>1, <2>2
<1>9. States({}, Waking(V)) \subseteq Calm
  BY <1>8, SoundCores, OutCalm
<1>10. Triple(Calm, States({}, Rest), free, States({}, Waking(V)))
  <2>1. job.freeCache =>
          Triple(Calm, States({}, Rest), <<<<"resume", V>>>>,
                 States({}, Waking(V)))
    BY <1>2, <1>3, <1>9, SoundCores, FirstResume, EngineRuns
  <2>2. ~job.freeCache => States({}, Rest) \subseteq States({}, Waking(V))
    BY AwakeAlready DEF States
  <2> QED BY <1>2, <2>1, <2>2, Flags, WhenRuns
<1> DEFINE op == <<"sync", "engine">>
<1>11. Cross(States({}, Waking(V)), <<op>>, States({}, Fresh(V)))
  <2>1. States({}, Fresh(V)) \subseteq Away
    BY SoundCores, OutAway
  <2>2. op \in Op /\ op[1] = "sync"
    BY Arguments DEF Op, OpName
  <2>3. Triple(Good, States({}, Waking(V)), <<op>>, States({}, Fresh(V)))
    BY <1>3, <1>9, <2>1, CalmIsGood, Arguments, SoundCores, WeightsArrive,
       EngineRuns
  <2> HIDE DEF op
  <2>4. ASSUME NEW x \in States({}, Waking(V))
        PROVE  Serves(op, x) /\ Made(op, x) \in States({}, Fresh(V))
    <3>1. PICK f : Run(Good, <<op>>, f) /\ f[1] = x
                   /\ f[Len(<<op>>) + 1] \in States({}, Fresh(V))
      BY <2>3 DEF Triple
    <3>2. Len(<<op>>) = 1 /\ <<op>>[1] = op /\ 1 \in 1..1 /\ 1 + 1 = 2
      OBVIOUS
    <3> QED BY <3>1, <3>2 DEF Run
  <2> QED BY <1>9, <2>1, <2>2, <2>4, CrossOne
<1> HIDE DEF W, free, op
<1>12. Triple(Calm, AtRest, Load("actor") \o <<<<"read", "actor">>>>
                \o Offload("actor") \o free, States({}, Waking(V)))
  BY <1>5, <1>6, <1>7, <1>10, BothRun DEF AtRest
<1> QED BY <1>11, <1>12, CrossAfter DEF free, op

(* From weights alone to the whole engine, and to the streams of rollout.  *)
LEMMA CacheComes ==
  ASSUME NEW T, NEW V \in {{"weights"}, Tags}, NEW back \in BOOLEAN,
         back => V = {"weights"}, ~back => V = Tags,
         States({}, Full(V)) \subseteq T, States({}, Full(Tags)) \subseteq T,
         States({}, Rolling) \subseteq T
  PROVE  /\ Triple(T, States({}, Full(V)),
                   When(back, <<<<"resume", {"kv"}>>>>), States({}, Full(Tags)))
         /\ Triple(T, States({}, Full(Tags)), <<<<"swap in", "rng">>>>,
                   States({}, Rolling))
<1>1. back => Triple(T, States({}, Full(V)), <<<<"resume", {"kv"}>>>>,
                     States({}, Full(Tags)))
  BY Arguments, SoundCores, NextResume, EngineRuns
<1>2. Triple(T, States({}, Full(V)), When(back, <<<<"resume", {"kv"}>>>>),
             States({}, Full(Tags)))
  BY <1>1, WhenRuns
<1>3. Triple(T, States({}, Full(Tags)), <<<<"swap in", "rng">>>>,
             States({}, Rolling))
  BY Arguments, SoundCores, StreamsIn, EngineRuns
<1> QED BY <1>2, <1>3

(* FSDPVLLMShardingManager: the engine wakes, and the ranks cross at the   *)
(* weights.                                                                *)
LEMMA FsdpVllmWakes ==
  ASSUME job \in Jobs, call = "generate", ~Megatron, job.rollout = "vllm"
  PROVE  Cross(AtRest, WakeUpFsdpVllm, States({}, Rolling))
<1> DEFINE V == IF job.freeCache THEN {"weights"} ELSE Tags
           into == When(job.freeCache, <<<<"resume", {"weights"}>>>>)
           first == Load("actor") \o <<<<"read", "actor">>>> \o Offload("actor")
                      \o into \o <<<<"sync", "engine">>>>
           cache == When(job.freeCache, <<<<"resume", {"kv"}>>>>)
<1>1. /\ V \in {{"weights"}, Tags}
      /\ ~job.freeCache => V = Tags
      /\ job.freeCache => V = {"weights"}
  OBVIOUS
<1>2. into = When(job.freeCache, <<<<"resume", V>>>>)
  BY DEF When
<1>3. WakeUpFsdpVllm = first \o cache \o <<<<"swap in", "rng">>>>
  BY DEF WakeUpFsdpVllm
<1> HIDE DEF V, into
<1>4. Cross(AtRest, first, States({}, Fresh(V)))
  BY <1>1, <1>2, HandedOver
<1> HIDE DEF first
<1>5. Cross(AtRest, first, States({}, Full(V)))
  <2>1. Fresh(V) \subseteq Full(V)
    BY NoDrafter DEF Supported
  <2>2. States({}, Fresh(V)) \subseteq States({}, Full(V))
    BY <2>1 DEF States
  <2> QED BY <1>4, <2>2 DEF Cross
<1>6. /\ States({}, Full(V)) \subseteq Away
      /\ States({}, Full(Tags)) \subseteq Away
      /\ States({}, Rolling) \subseteq Away
  BY SoundCores, OutAway
<1>7. /\ Triple(Away, States({}, Full(V)), cache, States({}, Full(Tags)))
      /\ Triple(Away, States({}, Full(Tags)), <<<<"swap in", "rng">>>>,
                States({}, Rolling))
  BY <1>1, <1>6, Flags, CacheComes
<1> HIDE DEF cache
<1> QED BY <1>3, <1>5, <1>7, CrossThen

(* FSDPSGLangShardingManager: the same, in one stage or two. *)
LEMMA FsdpSglangWakes ==
  ASSUME job \in Jobs, call = "generate", ~Megatron, job.rollout = "sglang"
  PROVE  Cross(AtRest, WakeUpFsdpSglang, States({}, Rolling))
<1> DEFINE two == job.multiStage /\ job.freeCache
           V == IF two THEN {"weights"} ELSE Tags
           into == When(job.freeCache, <<<<"resume", IF job.multiStage
                                             THEN {"weights"} ELSE Tags>>>>)
           first == Load("actor") \o <<<<"read", "actor">>>> \o Offload("actor")
                      \o into \o <<<<"sync", "engine">>>>
           away == When(job.offParam, <<<<"offload", {"drafter"}>>>>)
           draft == When(job.drafter, away \o <<<<"sync", "drafter">>>>)
           cache == When(two, <<<<"resume", {"kv"}>>>>)
<1>1. /\ V \in {{"weights"}, Tags} /\ two \in BOOLEAN
      /\ ~job.freeCache => V = Tags
      /\ two => V = {"weights"}
      /\ ~two => V = Tags
  BY Flags
<1>2. into = When(job.freeCache, <<<<"resume", V>>>>)
  BY DEF When
<1>3. WakeUpFsdpSglang =
        first \o draft \o cache \o <<<<"swap in", "rng">>>>
  BY DEF WakeUpFsdpSglang
<1>4. MeetBeforeCache /\ job.freeCache => V = {"weights"}
  BY DEF MeetBeforeCache
<1> HIDE DEF V, into, two
<1>5. Cross(AtRest, first, States({}, Fresh(V)))
  BY <1>1, <1>2, <1>4, HandedOver
<1>6. /\ States({}, Full(V)) \subseteq Away
      /\ States({}, Full(Tags)) \subseteq Away
      /\ States({}, Fresh(V)) \subseteq Away
      /\ States({}, Rolling) \subseteq Away
  BY SoundCores, OutAway
<1>7. /\ Triple(Away, States({}, Full(V)), cache, States({}, Full(Tags)))
      /\ Triple(Away, States({}, Full(Tags)), <<<<"swap in", "rng">>>>,
                States({}, Rolling))
  BY <1>1, <1>6, CacheComes
<1>8. Triple(Away, States({}, Fresh(V)), draft, States({}, Full(V)))
  <2>1. job.offParam => Triple(Away, States({}, Fresh(V)),
                               <<<<"offload", {"drafter"}>>>>,
                               States({}, Fresh(V)))
    <3>1. /\ {"drafter"} \in SUBSET Module /\ {} \ {"drafter"} = {}
          /\ job.offParam => \A m \in {"drafter"} : Offloaded(m)
      BY DEF Module, Offloaded, Home, Off
    <3> QED BY <1>6, <3>1, OffloadRuns
  <2>2. Triple(Away, States({}, Fresh(V)), away, States({}, Fresh(V)))
    BY <1>6, <2>1, Flags, WhenRuns
  <2>3. Triple(Away, States({}, Fresh(V)), <<<<"sync", "drafter">>>>,
               States({}, Full(V)))
    BY <1>6, Arguments, SoundCores, DrafterArrives, EngineRuns
  <2>4. ~job.drafter => States({}, Fresh(V)) \subseteq States({}, Full(V))
    BY NoDrafter DEF States
  <2> HIDE DEF away
  <2>5. Triple(Away, States({}, Fresh(V)), away \o <<<<"sync", "drafter">>>>,
               States({}, Full(V)))
    BY <2>2, <2>3, BothRun
  <2> QED BY <1>6, <2>4, <2>5, Flags, WhenRuns
<1> HIDE DEF first, draft, cache
<1> QED BY <1>3, <1>5, <1>7, <1>8, CrossThen

(* The read and the sync at the end of a program, one by one. *)
LEMMA ReadAndSync ==
  ASSUME NEW a \in Seq(Op)
  PROVE  a \o <<<<"read", "actor">>, <<"sync", "engine">>>>
           = a \o <<<<"read", "actor">>>> \o <<<<"sync", "engine">>>>
<1> DEFINE r == <<"read", "actor">>
           s == <<"sync", "engine">>
<1>1. r \in Op /\ s \in Op
  BY Arguments DEF Op, OpName, OpArg, Module
<1> HIDE DEF r, s
<1>2. <<r>> \in Seq(Op) /\ <<s>> \in Seq(Op)
  BY <1>1
<1>3. <<r, s>> = <<r>> \o <<s>>
  <2> DEFINE t == <<r>> \o <<s>>
  <2>1. t \in Seq(Op) /\ Len(t) = 2 /\ t[1] = r /\ t[2] = s
    BY <1>1
  <2>2. <<r, s>> \in Seq(Op) /\ Len(<<r, s>>) = 2
        /\ <<r, s>>[1] = r /\ <<r, s>>[2] = s
    BY <1>1
  <2> HIDE DEF t
  <2>3. \A i \in 1..Len(t) : t[i] = <<r, s>>[i]
    BY <2>1, <2>2
  <2> QED BY <2>1, <2>2, <2>3, SeqEqual DEF t
<1>4. a \o (<<r>> \o <<s>>) = a \o <<r>> \o <<s>>
  BY <1>2, ConcatAssociative
<1> QED BY <1>3, <1>4 DEF r, s

(* Megatron: the weights are a stream out of the actor, which leaves once  *)
(* the engine has them.                                                    *)
LEMMA StreamedOver ==
  ASSUME job \in Jobs, call = "generate", Megatron,
         NEW V \in {{"weights"}, Tags}, ~job.freeCache => V = Tags,
         \A c \in Waking(V) : NoCache(c),
         NEW S \in {{"actor"}, Weights("actor")},
         "actor_grad" \in S => job.rollout = "sglang", NEW load,
         Triple(Calm, States({}, Rest), load, States(S, Rest))
  PROVE  Triple(Calm, AtRest,
                load \o When(job.freeCache, <<<<"resume", V>>>>)
                  \o <<<<"read", "actor">>, <<"sync", "engine">>>>
                  \o Offload("actor"), States({}, Full(V)))
<1> DEFINE free == When(job.freeCache, <<<<"resume", V>>>>)
<1>1. /\ S \in SUBSET Weights("actor") /\ S \ Weights("actor") = {}
      /\ "actor" \in S /\ "actor" \in Module /\ "none" \notin Home("actor")
      /\ "actor" \in {"actor", "critic"}
  BY DEF Weights, Module, Home, Off
<1>2. V \in SUBSET Tags /\ V \in OpArg /\ "weights" \in V
  BY Arguments
<1>3. \A c \in Rest : NoCache(c)
  BY DEF Rest, NoCache, Tags
<1>4. Fresh(V) \subseteq Full(V) /\ Full(V) \subseteq Waking(V)
  <2>1. Supported => ~job.drafter
    BY DEF Supported
  <2> QED BY <2>1, NoDrafter DEF Fresh, Full
<1>5. /\ States(S, Rest) \subseteq Calm
      /\ States(S, Waking(V)) \subseteq Calm
      /\ States(S, Full(V)) \subseteq Calm
      /\ States({}, Full(V)) \subseteq Calm
  BY <1>1, <1>3, <1>4, SoundCores, ActorCalm, OutCalm
<1>6. Triple(Calm, States(S, Rest), free, States(S, Waking(V)))
  <2>1. job.freeCache =>
          Triple(Calm, States(S, Rest), <<<<"resume", V>>>>,
                 States(S, Waking(V)))
    BY <1>2, <1>5, SoundCores, FirstResume, EngineRuns
  <2>2. ~job.freeCache => States(S, Rest) \subseteq States(S, Waking(V))
    BY AwakeAlready DEF States
  <2> QED BY <1>5, <2>1, <2>2, Flags, WhenRuns
<1>7. Triple(Calm, States(S, Waking(V)), <<<<"read", "actor">>>>,
             States(S, Waking(V)))
  BY <1>1, <1>5, UseRuns
<1>8. Triple(Calm, States(S, Waking(V)), <<<<"sync", "engine">>>>,
             States(S, Full(V)))
  <2>1. \A c \in Waking(V) : CoreAfter(<<"sync", "engine">>, c) \in Full(V)
    BY <1>2, <1>4, WeightsArrive
  <2> QED BY <1>5, <2>1, Arguments, SoundCores, EngineRuns
<1>9. Triple(Calm, States(S, Full(V)), Offload("actor"), States({}, Full(V)))
  BY <1>1, <1>5, Flags, ModelOffloads
<1> HIDE DEF free
<1> DEFINE loaded == load \o free
<1>10. Triple(Calm, AtRest, loaded, States(S, Waking(V)))
  BY <1>6, BothRun DEF AtRest
<1>11. loaded \in Seq(Op)
  BY <1>10 DEF Triple
<1> HIDE DEF loaded
<1>12. Triple(Calm, AtRest, loaded \o <<<<"read", "actor">>>>
                \o <<<<"sync", "engine">>>> \o Offload("actor"),
              States({}, Full(V)))
  BY <1>7, <1>8, <1>9, <1>10, BothRun
<1> QED BY <1>11, <1>12, ReadAndSync DEF free, loaded

(* Megatron's sharding managers wake the engine and offload the actor      *)
(* last.                                                                   *)
LEMMA MegatronWakes ==
  ASSUME job \in Jobs, call = "generate", Megatron
  PROVE  Triple(Calm, AtRest, WakeUp, States({}, Rolling))
<1>1. /\ ~MeetBeforeCache /\ "actor" \in {"actor", "critic"}
  BY DEF MeetBeforeCache
<1>2. /\ States({}, Full(Tags)) \subseteq Calm
      /\ States({}, Rolling) \subseteq Calm
      /\ States({}, Rest) \subseteq Calm
      /\ States({}, Full({"weights"})) \subseteq Calm
  BY <1>1, SoundCores, OutCalm
<1>3. \A c \in Rest : NoCache(c)
  BY DEF Rest, NoCache, Tags
<1>4. /\ {} \cup Weights("actor") = Weights("actor")
      /\ {} \cup {"actor"} = {"actor"}
      /\ {"actor"} \in SUBSET Weights("actor")
      /\ "actor_grad" \notin {"actor"}
  BY DEF Weights
<1>5. CASE job.rollout = "sglang"
  <2> DEFINE over == Load("actor") \o When(job.freeCache, <<<<"resume", Tags>>>>)
                       \o <<<<"read", "actor">>, <<"sync", "engine">>>>
                       \o Offload("actor")
  <2>1. \A c \in Waking(Tags) : NoCache(c)
    BY <1>5 DEF NoCache
  <2>2. States(Weights("actor"), Rest) \subseteq Calm
    BY <1>3, <1>5, SoundCores, ActorCalm
  <2>3. Triple(Calm, States({}, Rest), Load("actor"),
               States(Weights("actor"), Rest))
    BY <1>1, <1>2, <1>4, <2>2, Flags, ModelLoads
  <2>4. Triple(Calm, AtRest, over, States({}, Full(Tags)))
    BY <1>5, <2>1, <2>3, StreamedOver
  <2>5. Triple(Calm, States({}, Full(Tags)), <<<<"swap in", "rng">>>>,
               States({}, Rolling))
    BY <1>2, CacheComes
  <2>6. WakeUp = over \o <<<<"swap in", "rng">>>>
    BY <1>5 DEF WakeUp, WakeUpMegatronSglang
  <2> HIDE DEF over
  <2> QED BY <2>4, <2>5, <2>6, BothRun
<1>6. CASE job.rollout = "vllm"
  <2> DEFINE V == IF job.freeCache THEN {"weights"} ELSE Tags
             into == When(job.freeCache, <<<<"resume", {"weights"}>>>>)
             over == LoadParams("actor") \o into
                       \o <<<<"read", "actor">>, <<"sync", "engine">>>>
                       \o Offload("actor")
             cache == When(job.freeCache, <<<<"resume", {"kv"}>>>>)
  <2>1. /\ V \in {{"weights"}, Tags}
        /\ ~job.freeCache => V = Tags
        /\ job.freeCache => V = {"weights"}
    OBVIOUS
  <2>2. into = When(job.freeCache, <<<<"resume", V>>>>)
    BY DEF When
  <2>3. WakeUp = over \o cache \o <<<<"swap in", "rng">>>>
    BY <1>6 DEF WakeUp, WakeUpMegatronVllm
  <2> HIDE DEF V, into, cache
  <2>4. \A c \in Waking(V) : NoCache(c)
    <3>1. job.freeCache => "kv" \notin V
      BY <2>1
    <3> QED BY <3>1, WithoutCache
  <2>5. States({"actor"}, Rest) \subseteq Calm
    BY <1>3, <1>4, SoundCores, ActorCalm
  <2>6. Triple(Calm, States({}, Rest), LoadParams("actor"),
               States({"actor"}, Rest))
    BY <1>1, <1>2, <1>4, <2>5, Flags, ParamsLoad
  <2>7. Triple(Calm, AtRest, over, States({}, Full(V)))
    BY <1>4, <2>1, <2>2, <2>4, <2>6, StreamedOver
  <2>8. States({}, Full(V)) \subseteq Calm
    BY <1>2, <2>1
  <2>9. /\ Triple(Calm, States({}, Full(V)), cache, States({}, Full(Tags)))
        /\ Triple(Calm, States({}, Full(Tags)), <<<<"swap in", "rng">>>>,
                  States({}, Rolling))
    BY <1>2, <2>1, <2>8, Flags, CacheComes DEF cache
  <2> HIDE DEF over
  <2> QED BY <2>3, <2>7, <2>9, BothRun
<1> QED BY <1>5, <1>6, Flags

(* Three programs, grouped either way. *)
LEMMA Associates ==
  ASSUME NEW a \in Seq(Op), NEW b \in Seq(Op), NEW c \in Seq(Op)
  PROVE  (a \o b) \o c = a \o (b \o c)
BY ConcatAssociative

(* Four programs, grouped either way. *)
Grouped(a, b, c, d) == a \o (b \o c \o d) = a \o b \o c \o d

LEMMA Regroup ==
  ASSUME NEW a \in Seq(Op), NEW b \in Seq(Op), NEW c \in Seq(Op),
         NEW d \in Seq(Op)
  PROVE  Grouped(a, b, c, d)
<1>1. (a \o b) \o c = a \o (b \o c)
  BY Associates
<1>2. b \o c \in Seq(Op)
  BY ConcatProperties
<1>3. (a \o (b \o c)) \o d = a \o ((b \o c) \o d)
  <2> DEFINE e == b \o c
  <2>1. e \in Seq(Op)
    BY <1>2
  <2> HIDE DEF e
  <2>2. (a \o e) \o d = a \o (e \o d)
    BY <2>1, Associates, SMTT(60)
  <2> QED BY <2>2 DEF e
<1> QED BY <1>1, <1>3 DEF Grouped

(* Generation, sleep and the early release, once the engine is awake. *)
LEMMA AfterWaking ==
  ASSUME job \in Jobs, NEW T, States({}, Rolling) \subseteq T,
         States({}, Slept) \subseteq T, States({}, Rest) \subseteq T
  PROVE  /\ Triple(T, States({}, Rolling), <<<<"generate", "engine">>>>,
                   States({}, Rolling))
         /\ Triple(T, States({}, Rolling), Sleep, AtRest)
         /\ ~job.async => Triple(T, States({}, Rolling), EarlyRelease,
                                 States({}, Rolling))
<1>1. Triple(T, States({}, Rolling), <<<<"generate", "engine">>>>,
             States({}, Rolling))
  BY Arguments, SoundCores, Generates, EngineRuns
<1>2. Triple(T, States({}, Rolling), Sleep, AtRest)
  <2>1. job.freeCache => Triple(T, States({}, Rolling), <<<<"release", Tags>>>>,
                                States({}, Slept))
    BY Arguments, SoundCores, MemoryGoes, EngineRuns
  <2>2. ~job.freeCache => States({}, Rolling) \subseteq States({}, Slept)
    BY DEF States, Rolling, Slept
  <2>3. Triple(T, States({}, Rolling), When(job.freeCache, <<<<"release", Tags>>>>),
               States({}, Slept))
    BY <2>1, <2>2, Flags, WhenRuns
  <2>4. Triple(T, States({}, Slept), <<<<"swap out", "rng">>>>, States({}, Rest))
    BY Arguments, SoundCores, StreamsOut, EngineRuns
  <2> QED BY <2>3, <2>4, BothRun DEF Sleep, AtRest
<1>3. ASSUME ~job.async
      PROVE  Triple(T, States({}, Rolling), EarlyRelease, States({}, Rolling))
  <2>1. job.drafter /\ job.freeCache =>
          Triple(T, States({}, Rolling), <<<<"release", Tags>>>>,
                 States({}, Rolling))
    <3> SUFFICES ASSUME job.drafter, job.freeCache
                 PROVE  Triple(T, States({}, Rolling), <<<<"release", Tags>>>>,
                               States({}, Rolling))
      OBVIOUS
    <3>1. Rolling = Core
      BY <1>3 DEF Rolling, Supported
    <3> DEFINE op == <<"release", Tags>>
    <3>2. op \in Op /\ op[1] = "release" /\ op[2] \in SUBSET Tags
      BY Arguments DEF Op, OpName
    <3> HIDE DEF op
    <3>3. \A c \in Rolling : CoreAfter(op, c) \in Rolling
      BY <3>1, <3>2, Typed
    <3> QED BY <3>3, Arguments, SoundCores, EngineRuns DEF op
  <2> QED BY <2>1, Flags, WhenRuns DEF EarlyRelease
<1> QED BY <1>1, <1>2, <1>3

(* The ranks stay calm all along, or cross together.                       *)
Program(ops) == Triple(Calm, AtRest, ops, AtRest) \/ Cross(AtRest, ops, AtRest)

Wakes(ops) ==
    IF Megatron THEN Triple(Calm, AtRest, ops, States({}, Rolling))
                ELSE Cross(AtRest, ops, States({}, Rolling))

(* Every sharding manager wakes the engine, calmly or across the sync. *)
LEMMA WakingUp ==
  ASSUME job \in Jobs, call = "generate"
  PROVE  Wakes(WakeUp)
BY MegatronWakes, FsdpSglangWakes, FsdpVllmWakes, Flags DEF Wakes, WakeUp

(* What a call does once the engine is awake. *)
LEMMA Rolled ==
  ASSUME job \in Jobs, NEW wake, Wakes(wake), NEW ops,
         \A T : /\ States({}, Rolling) \subseteq T
                /\ States({}, Slept) \subseteq T
                /\ States({}, Rest) \subseteq T
                => Triple(T, States({}, Rolling), ops, AtRest)
  PROVE  Program(wake \o ops)
<1>1. CASE Megatron
  <2>1. /\ States({}, Rolling) \subseteq Calm
        /\ States({}, Slept) \subseteq Calm
        /\ States({}, Rest) \subseteq Calm
    BY <1>1, SoundCores, OutCalm DEF MeetBeforeCache
  <2>2. Triple(Calm, States({}, Rolling), ops, AtRest)
    BY <2>1
  <2> QED BY <1>1, <2>2, BothRun DEF Wakes, Program
<1>2. CASE ~Megatron
  <2>1. /\ States({}, Rolling) \subseteq Away
        /\ States({}, Slept) \subseteq Away
        /\ States({}, Rest) \subseteq Away
    BY SoundCores, OutAway
  <2>2. Triple(Away, States({}, Rolling), ops, AtRest)
    BY <2>1
  <2> QED BY <1>2, <2>2, CrossThen DEF Wakes, Program
<1> QED BY <1>1, <1>2

(* generate_sequences runs from rest to rest, in the worker or in the      *)
(* agent loops.                                                            *)
LEMMA GenerateRuns ==
  ASSUME job \in Jobs, call = "generate"
  PROVE  Program(GenerateSequences)
<1> DEFINE gen == <<<<"generate", "engine">>>>
<1>1. Wakes(WakeUp)
  BY WakingUp
<1>2. States({}, Rest) \subseteq Calm
  BY RestCalm
<1>3. CASE ~job.async
  <2> DEFINE opt == When(Megatron, OffloadOpt("actor_opt"))
             wake == opt \o WakeUp
             ops == gen \o EarlyRelease \o Sleep
  <2>1. Triple(Calm, AtRest, opt, AtRest)
    <3>1. {} \ {OptOf("actor")} = {} /\ OptOf("actor") = "actor_opt"
          /\ "actor" \in {"actor", "critic"}
      BY DEF OptOf
    <3>2. Triple(Calm, States({}, Rest), OffloadOpt("actor_opt"),
                 States({}, Rest))
      BY <1>2, <3>1, Flags, OptimizerOffloads
    <3> QED BY <1>2, <3>2, Flags, WhenRuns DEF AtRest
  <2> HIDE DEF opt
  <2>2. Wakes(wake)
    BY <1>1, <2>1, BothRun, CrossAfter DEF Wakes
  <2>3. ASSUME NEW T, States({}, Rolling) \subseteq T,
               States({}, Slept) \subseteq T, States({}, Rest) \subseteq T
        PROVE  Triple(T, States({}, Rolling), ops, AtRest)
    <3>1. /\ Triple(T, States({}, Rolling), gen, States({}, Rolling))
          /\ Triple(T, States({}, Rolling), Sleep, AtRest)
          /\ Triple(T, States({}, Rolling), EarlyRelease, States({}, Rolling))
      BY <1>3, <2>3, AfterWaking
    <3> HIDE DEF gen
    <3> QED BY <3>1, BothRun
  <2>4. Program(wake \o ops)
    <3> HIDE DEF wake, ops
    <3> QED BY <2>2, <2>3, Rolled
  <2>5. wake \o ops = wake \o gen \o EarlyRelease \o Sleep
    <3>1. wake \in Seq(Op)
      <4> HIDE DEF wake
      <4> QED BY <2>2 DEF Wakes, Triple, Cross
    <3>2. gen \in Seq(Op) /\ EarlyRelease \in Seq(Op) /\ Sleep \in Seq(Op)
      <4>1. /\ States({}, Rolling) \subseteq Away
            /\ States({}, Slept) \subseteq Away
            /\ States({}, Rest) \subseteq Away
        BY SoundCores, OutAway
      <4> HIDE DEF gen
      <4>2. /\ Triple(Away, States({}, Rolling), <<<<"generate", "engine">>>>,
                      States({}, Rolling))
            /\ Triple(Away, States({}, Rolling), Sleep, AtRest)
            /\ Triple(Away, States({}, Rolling), EarlyRelease,
                      States({}, Rolling))
        BY <1>3, <4>1, AfterWaking
      <4> QED BY <4>2 DEF Triple, gen
    <3> HIDE DEF wake, gen
    <3>3. Grouped(wake, gen, EarlyRelease, Sleep)
      <4>1. EarlyRelease \in Seq(Op)
        BY <3>2
      <4>2. Sleep \in Seq(Op)
        BY <3>2
      <4>3. gen \in Seq(Op)
        BY <3>2
      <4> QED BY <3>1, <4>1, <4>2, <4>3, Regroup
    <3> QED BY <3>3 DEF ops, Grouped
  <2>6. GenerateSequences = wake \o gen \o EarlyRelease \o Sleep
    BY <1>3 DEF GenerateSequences, GenerateInWorker, opt
  <2> QED BY <2>4, <2>5, <2>6
<1>4. CASE job.async /\ job.freeCache
  <2>1. GenerateSequences = WakeUp \o gen \o Sleep
    BY <1>4 DEF GenerateSequences, GenerateInLoops, When
  <2>2. ASSUME NEW T, States({}, Rolling) \subseteq T,
               States({}, Slept) \subseteq T, States({}, Rest) \subseteq T
        PROVE  Triple(T, States({}, Rolling), gen \o Sleep, AtRest)
    <3>1. /\ Triple(T, States({}, Rolling), gen, States({}, Rolling))
          /\ Triple(T, States({}, Rolling), Sleep, AtRest)
      BY <2>2, AfterWaking
    <3> HIDE DEF gen
    <3> QED BY <3>1, BothRun
  <2>3. Program(WakeUp \o (gen \o Sleep))
    <3> HIDE DEF gen
    <3> QED BY <1>1, <2>2, Rolled
  <2>4. WakeUp \in Seq(Op) /\ gen \in Seq(Op) /\ Sleep \in Seq(Op)
    <3>1. WakeUp \in Seq(Op)
      BY <1>1 DEF Wakes, Triple, Cross
    <3>2. /\ States({}, Rolling) \subseteq Away
          /\ States({}, Slept) \subseteq Away
          /\ States({}, Rest) \subseteq Away
      BY SoundCores, OutAway
    <3> HIDE DEF gen
    <3>3. /\ Triple(Away, States({}, Rolling), <<<<"generate", "engine">>>>,
                    States({}, Rolling))
          /\ Triple(Away, States({}, Rolling), Sleep, AtRest)
      BY <3>2, AfterWaking
    <3> QED BY <3>1, <3>3 DEF Triple, gen
  <2> HIDE DEF gen
  <2>5. WakeUp \o (gen \o Sleep) = WakeUp \o gen \o Sleep
    BY <2>4, ConcatAssociative
  <2> QED BY <2>1, <2>3, <2>5
<1>5. CASE job.async /\ ~job.freeCache
  <2>1. Rest = Core /\ Rolling = Core
    BY <1>5 DEF Rest, Rolling, Supported
  <2>2. When(FALSE, WakeUp) = << >> /\ When(FALSE, Sleep) = << >>
        /\ << >> \o gen \o << >> = gen
    <3>1. gen \in Seq(Op)
      <4>1. <<"generate", "engine">> \in Op
        BY Arguments DEF Op, OpName
      <4> QED BY <4>1
    <3> HIDE DEF gen
    <3>2. << >> \o gen = gen /\ gen \o << >> = gen
      BY <3>1, ConcatEmptySeq
    <3> QED BY <3>2 DEF When
  <2>3. Triple(Calm, States({}, Rolling), gen, States({}, Rolling))
    BY <1>2, <2>1, Arguments, SoundCores, Generates, EngineRuns
  <2>4. GenerateSequences = gen
    BY <1>5, <2>2 DEF GenerateSequences, GenerateInLoops, When
  <2> QED BY <2>1, <2>3, <2>4 DEF Program, AtRest
<1> QED BY <1>3, <1>4, <1>5

(* The servers of the agent loops; vLLM's are not supported.               *)
LEMMA InitialSleepRuns ==
  ASSUME job \in Jobs, job.async
  PROVE  Program(InitialSleep)
<1>1. States({}, Rest) \subseteq Calm
  BY RestCalm
<1>2. CASE job.rollout = "vllm"
  <2>1. Rest = Core /\ Rolling = Core /\ Slept = Core
    BY <1>2 DEF Rest, Rolling, Slept, Supported
  <2>2. Triple(Calm, AtRest, Sleep, AtRest)
    BY <1>1, <2>1, AfterWaking DEF AtRest
  <2> QED BY <1>1, <2>2, Flags, WhenRuns DEF InitialSleep, Program, AtRest
<1>3. CASE job.rollout # "vllm"
  BY <1>1, <1>3, NothingRuns DEF InitialSleep, When, Program, AtRest
<1> QED BY <1>2, <1>3

CallNames ==
    {"none", "first_sleep", "generate", "rm", "log_prob", "ref", "values",
     "update_critic", "update_actor", "save_actor", "save_critic",
     "load_actor", "load_critic"}

(* So does every call of a worker. *)
LEMMA PlanRuns ==
  ASSUME job \in Jobs, call \in CallNames, call = "first_sleep" => job.async
  PROVE  Program(Plan)
<1>1. CASE call = "none"
  <2>1. States({}, Rest) \subseteq Calm
    BY RestCalm
  <2> QED BY <1>1, <2>1, NothingRuns DEF Plan, Program, AtRest
<1>2. CASE call = "first_sleep"
  BY <1>2, InitialSleepRuns DEF Plan
<1>3. CASE call = "generate"
  BY <1>3, GenerateRuns DEF Plan
<1>4. CASE call \in {"rm", "log_prob", "ref", "values"}
  <2>1. /\ Program(ComputeRmScore) /\ Program(ForwardAux("ref"))
        /\ Program(ComputeLogProb) /\ Program(ComputeValues)
    BY AuxRuns, LogProbRuns, ValuesRun DEF Program, ComputeRmScore
  <2>2. Program(ComputeRefLogProb)
    BY <2>1 DEF ComputeRefLogProb
  <2> HIDE DEF Program
  <2> QED BY <1>4, <2>1, <2>2 DEF Plan
<1>5. CASE call \in {"update_actor", "update_critic"}
  <2>1. /\ OptOf("actor") = "actor_opt" /\ OptOf("critic") = "critic_opt"
        /\ UpdateOf("actor") = "update_actor"
        /\ UpdateOf("critic") = "update_critic"
        /\ "actor" \in {"actor", "critic"} /\ "critic" \in {"actor", "critic"}
    BY DEF OptOf, UpdateOf
  <2>2. CASE call = "update_actor"
    <3>1. Plan = UpdateActor
      BY <2>2 DEF Plan
    <3>2. UpdateActor =
            Load("actor") \o LoadOpt(OptOf("actor")) \o <<<<"update", "actor">>>>
              \o Offload("actor") \o OffloadOpt(OptOf("actor"))
      BY <2>1 DEF UpdateActor
    <3> QED BY <2>1, <2>2, <3>1, <3>2, UpdateRuns DEF Program
  <2>3. CASE call = "update_critic"
    <3>1. Plan = UpdateCritic
      BY <2>3 DEF Plan
    <3>2. UpdateCritic =
            Load("critic") \o LoadOpt(OptOf("critic"))
              \o <<<<"update", "critic">>>>
              \o Offload("critic") \o OffloadOpt(OptOf("critic"))
      BY <2>1 DEF UpdateCritic
    <3> QED BY <2>1, <2>3, <3>1, <3>2, UpdateRuns DEF Program
  <2> QED BY <1>5, <2>2, <2>3
<1>6. CASE call \in {"save_actor", "save_critic"}
  <2>1. CASE call = "save_actor"
    <3>1. Plan = SaveCheckpoint("actor")
      BY <2>1 DEF Plan
    <3> QED BY <2>1, <3>1, SaveRuns DEF Program
  <2>2. CASE call = "save_critic"
    <3>1. Plan = SaveCheckpoint("critic")
      BY <2>2 DEF Plan
    <3> QED BY <3>1, SaveRuns DEF Program
  <2> QED BY <1>6, <2>1, <2>2
<1>7. CASE call \in {"load_actor", "load_critic"}
  <2>1. /\ OptOf("actor") = "actor_opt" /\ OptOf("critic") = "critic_opt"
        /\ LoadOf("actor") = "load_actor" /\ LoadOf("critic") = "load_critic"
    BY DEF OptOf, LoadOf
  <2>2. CASE call = "load_actor"
    <3>1. Plan = LoadCheckpoint("actor", OptOf("actor"))
      BY <2>1, <2>2 DEF Plan
    <3> QED BY <2>1, <2>2, <3>1, LoadingRuns DEF Program
  <2>3. CASE call = "load_critic"
    <3>1. Plan = LoadCheckpoint("critic", OptOf("critic"))
      BY <2>1, <2>3 DEF Plan
    <3> QED BY <2>1, <2>3, <3>1, LoadingRuns DEF Program
  <2> QED BY <1>7, <2>2, <2>3
<1> QED BY <1>1, <1>2, <1>3, <1>4, <1>5, <1>6, <1>7 DEF CallNames

-----------------------------------------------------------------------------
(* The invariant: the ranks follow one run of the call.                    *)

Sees(r, x) ==
    /\ place[r] = x.place /\ rng[r] = x.core.rng
    /\ parked[r] = x.core.parked /\ version = x.core.version
    /\ x.core.saved = [version |-> disk.saved.version,
                       draws |-> disk.saved.draws[r]]

Idle ==
    /\ Returned
    /\ \E x \in AtRest : /\ \A r \in Ranks : Sees(r, x)
                         /\ engine = x.core.engine

Steps(f) ==
    /\ Plan \in Seq(Op) /\ Run(Good, Plan, f) /\ f[Len(Plan) + 1] \in AtRest
    /\ \/ \A i \in 1..Len(Plan) + 1 : f[i] \in Calm
       \/ \E b \in 1..Len(Plan) : Crossing(Plan, f, b)

Follows(f) ==
    /\ \A r \in Ranks : pc[r] \in 1..Len(Plan) + 1 /\ Sees(r, f[pc[r]])
    /\ engine = f[pc[Leader]].core.engine

Meeting == {"read", "sync", "generate", "forward", "update", "write",
            "restore"}

(* No rank is beyond a collective operation that another is not through.   *)
Abreast ==
    \A b \in 1..Len(Plan) : Plan[b][1] \in Meeting =>
      \/ \A r \in Ranks : pc[r] <= b
      \/ \A r \in Ranks : pc[r] > b

Working == Abreast /\ \E f : Steps(f) /\ Follows(f)

Checkpoints ==
    {k \in [step : Nat, version : Nat, draws : [Ranks -> Nat]] :
       /\ \A r \in Ranks : k.draws[r] = k.draws[Leader]
       /\ Supported => k.draws[Leader] = k.version}

CallFits ==
    /\ job \in Jobs /\ call \in CallNames
    /\ call = "first_sleep" => job.async

Seated ==
    /\ pc \in [Ranks -> Nat] /\ place \in [Ranks -> Places]
    /\ rng \in [Ranks -> Draws]
    /\ parked \in [Ranks -> [train : Draws, gen : Draws]]

Shaped ==
    /\ CallFits
    /\ stage = "servers" => call = "none"
    /\ Seated /\ step \in Nat /\ disk \in [saved : Checkpoints, written : Checkpoints]

Inv == Shaped /\ (Idle \/ Working)

(* Nothing of it changes while the job stays, or the job and the call.     *)
LEMMA SameJob ==
  ASSUME job' = job
  PROVE  /\ Supported' = Supported /\ AtRest' = AtRest
         /\ Checkpoints' = Checkpoints
<1>1. Supported' = Supported /\ Megatron' = Megatron
  BY DEF Supported, Megatron
<1>2. \A m : Home(m)' = Home(m)
  BY <1>1 DEF Home, Off
<1>3. \A c : /\ Fine(c)' <=> Fine(c)
             /\ Training(c)' <=> Training(c)
  BY DEF Fine, Training
<1>4. Rest' = Rest
  BY <1>1, <1>3 DEF Rest
<1>5. \A p : Placed(p, {})' <=> Placed(p, {})
  BY <1>2 DEF Placed
<1>6. AtRest' = AtRest
  BY <1>4, <1>5 DEF AtRest, States
<1>7. Checkpoints' = Checkpoints
  BY <1>1 DEF Checkpoints
<1> QED BY <1>1, <1>6, <1>7

(* Nothing that depends on the job and the call alone changes with them    *)
(* unchanged.                                                              *)
LEMMA SameCall ==
  ASSUME job' = job, call' = call
  PROVE  /\ Plan' = Plan
         /\ \A f : Steps(f)' <=> Steps(f)
<1>1. Supported' = Supported /\ Megatron' = Megatron /\ AtRest' = AtRest
  BY SameJob DEF Megatron
<1>2. MeetBeforeCache' = MeetBeforeCache
  BY <1>1 DEF MeetBeforeCache
<1>3. /\ \A m : /\ Load(m)' = Load(m) /\ LoadParams(m)' = LoadParams(m)
                /\ Offload(m)' = Offload(m) /\ LoadOpt(m)' = LoadOpt(m)
                /\ OffloadOpt(m)' = OffloadOpt(m)
                /\ ForwardAux(m)' = ForwardAux(m)
  BY <1>1 DEF Load, LoadParams, Offload, LoadOpt, OffloadOpt, ForwardAux
<1>4. /\ WakeUpFsdpSglang' = WakeUpFsdpSglang
      /\ WakeUpMegatronSglang' = WakeUpMegatronSglang
      /\ WakeUpFsdpVllm' = WakeUpFsdpVllm
      /\ WakeUpMegatronVllm' = WakeUpMegatronVllm
  BY <1>3 DEF WakeUpFsdpSglang, WakeUpMegatronSglang, WakeUpFsdpVllm,
              WakeUpMegatronVllm
<1>5. WakeUp' = WakeUp /\ Sleep' = Sleep /\ EarlyRelease' = EarlyRelease
  BY <1>1, <1>4 DEF WakeUp, Sleep, EarlyRelease
<1>6. GenerateSequences' = GenerateSequences /\ InitialSleep' = InitialSleep
  BY <1>1, <1>3, <1>5 DEF GenerateSequences, GenerateInLoops, GenerateInWorker,
                          InitialSleep
<1>7. /\ ComputeLogProb' = ComputeLogProb /\ ComputeRmScore' = ComputeRmScore
      /\ ComputeRefLogProb' = ComputeRefLogProb
      /\ ComputeValues' = ComputeValues /\ UpdateActor' = UpdateActor
      /\ UpdateCritic' = UpdateCritic
      /\ \A m : SaveCheckpoint(m)' = SaveCheckpoint(m)
      /\ \A m, o : LoadCheckpoint(m, o)' = LoadCheckpoint(m, o)
  BY <1>3 DEF ComputeLogProb, ComputeRmScore, ComputeRefLogProb, ComputeValues,
              UpdateActor, UpdateCritic, SaveCheckpoint, LoadCheckpoint
<1>8. Plan' = Plan
  BY <1>6, <1>7 DEF Plan
<1>9. \A op, x : Serves(op, x)' <=> Serves(op, x)
  BY <1>1 DEF Serves, PlaceServes, CoreServes
<1>10. \A op, x : Made(op, x)' = Made(op, x)
  <2>1. /\ \A e, t : Released(e, t)' = Released(e, t)
        /\ \A e, v : Synced(e, v)' = Synced(e, v)
    BY DEF Released, Synced
  <2>2. \A e, t : Resumed(e, t)' = Resumed(e, t)
    BY <2>1, ZenonT(60) DEF Resumed
  <2>3. \A op, c : CoreAfter(op, c)' = CoreAfter(op, c)
    BY <2>1, <2>2, ZenonT(60) DEF CoreAfter
  <2> QED BY <2>3 DEF Made, PlaceAfter
<1>11. \A c : NoCache(c)' <=> NoCache(c)
  BY <1>1 DEF NoCache
<1>12. \A x : Budget(x)' <=> Budget(x)
  BY <1>1, <1>11 DEF Budget
<1>13. Good' = Good
  BY <1>12 DEF Good
<1>14. Calm' = Calm /\ Away' = Away
  BY <1>2, <1>11, <1>13 DEF Calm, Away
<1>15. ASSUME NEW f PROVE Steps(f)' <=> Steps(f)
  <2>1. Run(Good, Plan, f)' <=> Run(Good, Plan, f)
    BY <1>8, <1>9, <1>10, <1>13 DEF Run
  <2>2. \A b : Crossing(Plan, f, b)' <=> Crossing(Plan, f, b)
    BY <1>8, <1>14 DEF Crossing
  <2>3. /\ (Plan \in Seq(Op))' <=> Plan \in Seq(Op)
        /\ (f[Len(Plan) + 1] \in AtRest)' <=> f[Len(Plan) + 1] \in AtRest
    BY <1>1, <1>8
  <2>4. (\A i \in 1..Len(Plan) + 1 : f[i] \in Calm)'
          <=> \A i \in 1..Len(Plan) + 1 : f[i] \in Calm
    BY <1>8, <1>14
  <2>5. (\E b \in 1..Len(Plan) : Crossing(Plan, f, b))'
          <=> \E b \in 1..Len(Plan) : Crossing(Plan, f, b)
    BY <1>8, <2>2
  <2> QED BY <2>1, <2>3, <2>4, <2>5 DEF Steps
<1> QED BY <1>8, <1>15

(* A call has a run from any state at rest. *)
LEMMA CallHasRun == CallFits => \A x \in AtRest : \E f : Steps(f) /\ f[1] = x
<1> SUFFICES ASSUME CallFits, NEW x \in AtRest
             PROVE  \E f : Steps(f) /\ f[1] = x
  OBVIOUS
<1>1. Program(Plan)
  BY PlanRuns DEF CallFits
<1>2. CASE Triple(Calm, AtRest, Plan, AtRest)
  <2>1. PICK f : /\ Run(Calm, Plan, f) /\ f[1] = x
                 /\ f[Len(Plan) + 1] \in AtRest
    BY <1>2 DEF Triple
  <2>2. Run(Good, Plan, f)
    BY <2>1, CalmIsGood, RunWidens
  <2>3. \A i \in 1..Len(Plan) + 1 : f[i] \in Calm
    BY <2>1 DEF Run
  <2>4. Plan \in Seq(Op)
    BY <1>2 DEF Triple
  <2> QED BY <2>1, <2>2, <2>3, <2>4 DEF Steps
<1>3. CASE Cross(AtRest, Plan, AtRest)
  <2>1. PICK f : /\ Run(Good, Plan, f) /\ f[1] = x
                 /\ f[Len(Plan) + 1] \in AtRest
                 /\ \E b \in 1..Len(Plan) : Crossing(Plan, f, b)
    BY <1>3 DEF Cross
  <2>2. Plan \in Seq(Op)
    BY <1>3 DEF Cross
  <2> QED BY <2>1, <2>2 DEF Steps
<1> QED BY <1>1, <1>2, <1>3 DEF Program

(* The same after a step. *)
LEMMA NextCallHasRun ==
  (CallFits => \A x \in AtRest : \E f : Steps(f) /\ f[1] = x)'
BY CallHasRun, PTL

(* At rest the GPU is calm. *)
LEMMA RestTyped == \A x \in AtRest : x \in Calm /\ x \in State
<1>1. AtRest \subseteq Calm
  BY RestCalm DEF AtRest
<1> QED BY <1>1 DEF AtRest, States

(* The types of what a rank sees. *)
LEMMA StateFields ==
  ASSUME NEW x \in State
  PROVE  /\ x.place \in Places /\ x.core \in Core
         /\ x.core.rng \in Draws /\ x.core.version \in Nat
         /\ x.core.parked \in [train : Draws, gen : Draws]
         /\ x.core.engine \in Engine
BY CoreFields DEF State

(* When the last rank is through, the workers are at rest. *)
LEMMA Settled ==
  ASSUME Shaped, Working, Returned
  PROVE  Idle
<1>1. PICK f : Steps(f) /\ Follows(f)
  BY DEF Working
<1> DEFINE n == Len(Plan)
<1>2. n \in Nat /\ f[n + 1] \in AtRest
  BY <1>1 DEF Steps
<1>3. \A r \in Ranks : pc[r] > n /\ pc[r] \in 1..n + 1
  BY <1>1 DEF Returned, Follows
<1> HIDE DEF n
<1>4. \A r \in Ranks : pc[r] = n + 1
  BY <1>2, <1>3
<1>5. \A r \in Ranks : Sees(r, f[n + 1])
  BY <1>1, <1>4 DEF Follows
<1>6. engine = f[n + 1].core.engine
  BY <1>1, <1>4, LeaderAssumption DEF Follows
<1> QED BY <1>2, <1>5, <1>6 DEF Idle

(* A call begins. *)
LEMMA Issued ==
  ASSUME Shaped, Idle, job' = job, CallFits', pc' = [r \in Ranks |-> 1],
         UNCHANGED <<place, engine, version, rng, parked, disk>>
  PROVE  Working'
<1>1. PICK x \in AtRest : /\ \A r \in Ranks : Sees(r, x)
                          /\ engine = x.core.engine
  BY DEF Idle
<1>2. PICK f : Steps(f)' /\ f[1] = x
  BY <1>1, SameJob, NextCallHasRun
<1>3. \A r \in Ranks : Sees(r, x)'
  BY <1>1 DEF Sees
<1>4. (Plan \in Seq(Op))'
  BY <1>2 DEF Steps
<1> DEFINE n == Len(Plan)'
<1>5. n \in Nat
  BY <1>4
<1> HIDE DEF n
<1>6. \A r \in Ranks : pc'[r] \in 1..n + 1
  BY <1>5
<1>7. \A r \in Ranks : pc'[r] = 1
  OBVIOUS
<1>8. Follows(f)'
  BY <1>1, <1>2, <1>3, <1>6, <1>7, LeaderAssumption DEF Follows, n
<1>9. Abreast'
  <2>1. \A b \in 1..n : \A r \in Ranks : pc'[r] <= b
    BY <1>5, <1>7
  <2> QED BY <2>1 DEF Abreast, n
<1> QED BY <1>2, <1>8, <1>9 DEF Working

(* Nothing happens to workers the driver leaves alone. *)
LEMMA StaysIdle ==
  ASSUME Shaped, Idle, UNCHANGED <<memoryVars, disk>>
  PROVE  Idle'
<1>1. job' = job /\ call' = call
  BY DEF memoryVars
<1>2. PICK x \in AtRest : /\ \A r \in Ranks : Sees(r, x)
                          /\ engine = x.core.engine
  BY DEF Idle
<1>3. \A r \in Ranks : Sees(r, x)'
  BY <1>2 DEF Sees, memoryVars
<1>4. Returned' /\ x \in AtRest'
  BY <1>1, <1>2, SameJob, SameCall DEF Idle, Returned, memoryVars
<1> QED BY <1>2, <1>3, <1>4 DEF Idle, memoryVars

(* One rank makes a step of its own. *)
LEMMA RankAdvances ==
  ASSUME Shaped, Abreast, NEW f, Steps(f), Follows(f),
         NEW r \in Ranks, NEW p, p = pc[r], p <= Len(Plan),
         Plan[p][1] \notin Meeting, Advance(r),
         job' = job, call' = call, version' = version, disk' = disk,
         \A q \in Ranks \ {r} : /\ place'[q] = place[q] /\ rng'[q] = rng[q]
                                /\ parked'[q] = parked[q],
         Sees(r, f[p + 1])',
         engine' = IF r = Leader THEN f[p + 1].core.engine ELSE engine
  PROVE  Working'
<1>1. Plan' = Plan /\ Steps(f)'
  BY SameCall
<1> DEFINE n == Len(Plan)
<1>2. n \in Nat /\ p \in 1..n
  <2>1. n \in Nat
    BY DEF Steps
  <2>2. p \in Nat /\ p \in 1..n + 1 /\ p <= n
    BY DEF Follows, Shaped, Seated
  <2> HIDE DEF n
  <2> QED BY <2>1, <2>2
<1>3. n' = n
  BY <1>1
<1>4. \A q \in Ranks : pc[q] \in Nat
  BY DEF Shaped, Seated
<1>5. pc'[r] = p + 1 /\ \A q \in Ranks \ {r} : pc'[q] = pc[q]
  BY DEF Advance, Shaped, Seated
<1>6. Follows(f)'
  <2>1. ASSUME NEW q \in Ranks
        PROVE  pc'[q] \in 1..n + 1 /\ Sees(q, f[pc[q]])'
    <3>1. CASE q = r
      <4>1. p + 1 \in 1..n + 1
        <5> HIDE DEF n
        <5> QED BY <1>2
      <4> QED BY <1>5, <3>1, <4>1
    <3>2. CASE q # r
      BY <1>5, <3>2 DEF Follows, Sees
    <3> QED BY <3>1, <3>2
  <2>2. engine' = f[pc'[Leader]].core.engine
    BY <1>5, LeaderAssumption DEF Follows
  <2> QED BY <1>3, <2>1, <2>2 DEF Follows
<1>7. Abreast'
  <2> SUFFICES ASSUME NEW b \in 1..n, Plan[b][1] \in Meeting
               PROVE  \/ \A q \in Ranks : pc'[q] <= b
                      \/ \A q \in Ranks : pc'[q] > b
    BY <1>1 DEF Abreast
  <2>1. b # p /\ b \in Nat
    BY <1>2
  <2>2. CASE \A q \in Ranks : pc[q] <= b
    <3>1. p <= b
      BY <2>2
    <3>2. p + 1 <= b
      BY <1>2, <2>1, <3>1
    <3> QED BY <1>5, <2>2, <3>2
  <2>3. CASE \A q \in Ranks : pc[q] > b
    <3>1. p > b
      BY <2>3
    <3>2. p + 1 > b
      BY <1>2, <2>1, <3>1
    <3> QED BY <1>5, <2>3, <3>2
  <2> QED BY <2>2, <2>3 DEF Abreast
<1> QED BY <1>1, <1>6, <1>7 DEF Working

(* All ranks make a step together. *)
LEMMA AllMakeIt ==
  ASSUME Shaped, Abreast, NEW f, Steps(f), Follows(f),
         NEW p, \A r \in Ranks : pc[r] = p, p <= Len(Plan), AllAdvance,
         job' = job, call' = call, \A r \in Ranks : Sees(r, f[p + 1])',
         engine' = f[p + 1].core.engine
  PROVE  Working'
<1>1. Plan' = Plan /\ Steps(f)'
  BY SameCall
<1> DEFINE n == Len(Plan)
<1>2. n \in Nat /\ p \in 1..n
  <2>1. n \in Nat
    BY DEF Steps
  <2>2. p \in Nat /\ p \in 1..n + 1 /\ p <= n
    BY LeaderAssumption DEF Follows, Shaped, Seated
  <2> HIDE DEF n
  <2> QED BY <2>1, <2>2
<1>3. \A r \in Ranks : pc'[r] = p + 1
  BY DEF AllAdvance
<1>4. Follows(f)'
  <2>1. p + 1 \in 1..n + 1
    <3> HIDE DEF n
    <3> QED BY <1>2
  <2> QED BY <1>1, <1>3, <2>1, LeaderAssumption DEF Follows
<1>5. Abreast'
  <2> SUFFICES ASSUME NEW b \in 1..n
               PROVE  \/ \A q \in Ranks : pc'[q] <= b
                      \/ \A q \in Ranks : pc'[q] > b
    BY <1>1 DEF Abreast
  <2>1. p + 1 <= b \/ p + 1 > b
    <3> HIDE DEF n
    <3> QED BY <1>2
  <2> QED BY <1>3, <2>1
<1> QED BY <1>1, <1>4, <1>5 DEF Working

-----------------------------------------------------------------------------
(* The operations of the calls *)

(* A rank that has not returned is at work. *)
LEMMA Busy ==
  ASSUME Inv, NEW r \in Ranks, pc[r] <= Len(Plan)
  PROVE  Shaped /\ Working
<1>1. ASSUME Idle PROVE FALSE
  <2> DEFINE n == Len(Plan)
             p == pc[r]
  <2>1. Shaped
    BY DEF Inv
  <2>2. p \in Nat
    BY <2>1 DEF Shaped, Seated
  <2>3. p > n /\ p <= n
    BY <1>1 DEF Idle, Returned
  <2>4. n \in Nat
    <3>1. Program(Plan)
      BY <2>1, PlanRuns DEF Shaped, CallFits
    <3> QED BY <3>1 DEF Program, Triple, Cross
  <2> HIDE DEF n, p
  <2> QED BY <2>2, <2>3, <2>4
<1> QED BY <1>1 DEF Inv

(* What the operation a rank is at finds and makes. *)
AtOp(f, r, p) ==
    /\ p = pc[r] /\ p <= Len(Plan) /\ p \in 1..Len(Plan)
    /\ Plan[p] \in Op
    /\ f[p] \in Good /\ f[p] \in State /\ f[p + 1] \in State
    /\ Serves(Plan[p], f[p]) /\ f[p + 1] = Made(Plan[p], f[p])
    /\ Sees(r, f[p])

(* The operation a rank is at takes it along the run. *)
LEMMA OpHere ==
  ASSUME Shaped, NEW f, Steps(f), Follows(f), NEW r \in Ranks,
         pc[r] <= Len(Plan)
  PROVE  AtOp(f, r, pc[r])
<1> DEFINE n == Len(Plan)
           p == pc[r]
<1>1. n \in Nat /\ Plan \in Seq(Op)
  BY DEF Steps
<1>2. p \in 1..n + 1 /\ p <= n /\ Sees(r, f[p])
  BY DEF Follows
<1>3. /\ f \in [1..n + 1 -> Good]
      /\ \A i \in 1..n : Serves(Plan[i], f[i]) /\ f[i + 1] = Made(Plan[i], f[i])
  BY DEF Steps, Run
<1>4. \A i \in 1..n : Plan[i] \in Op
  BY <1>1
<1> HIDE DEF n, p
<1>5. p \in 1..n /\ p + 1 \in 1..n + 1
  BY <1>1, <1>2
<1>6. f[p] \in Good /\ f[p + 1] \in Good
  BY <1>2, <1>3, <1>5
<1> QED BY <1>2, <1>3, <1>4, <1>5, <1>6 DEF AtOp, Good, n, p

(* What rank r finds, and what becomes of it.                              *)
Effect(f, r, p, op) ==
    /\ Arg(r) = op[2] /\ op \in Op /\ Serves(op, f[p])
    /\ f[p].core \in Core /\ f[p + 1].place \in Places
    /\ f[p + 1].core.rng \in Draws
    /\ f[p + 1].core.parked \in [train : Draws, gen : Draws]
    /\ op[1] = "load" =>
         /\ f[p + 1].place = Sent(place[r], op[2], "gpu")
         /\ f[p + 1].core = f[p].core
    /\ op[1] = "offload" =>
         /\ f[p + 1].place = Sent(place[r], op[2], "cpu")
         /\ f[p + 1].core = f[p].core
    /\ op[1] \in {"read", "forward", "write"} =>
         f[p + 1].place = place[r] /\ f[p + 1].core = f[p].core
    /\ op[1] \in {"release", "resume", "sync", "swap in", "swap out",
                  "generate"} =>
         /\ f[p + 1].place = place[r]
         /\ f[p + 1].core = CoreAfter(op, f[p].core)

(* What it sees changes as the operation says. *)
LEMMA Effects ==
  ASSUME NEW f, NEW r, NEW p, AtOp(f, r, p), NEW op, op = Plan[p]
  PROVE  Effect(f, r, p, op)
<1> DEFINE x == f[p]
           y == f[p + 1]
<1>1. /\ y = Made(op, x) /\ x \in State /\ y \in State /\ p = pc[r]
      /\ x.place = place[r] /\ op \in Op /\ Serves(op, x)
  BY DEF AtOp, Sees
<1>2. Arg(r) = op[2]
  BY <1>1 DEF Arg
<1> HIDE DEF x, y
<1>3. x.core \in Core /\ y.place \in Places /\ y.core.rng \in Draws
      /\ y.core.parked \in [train : Draws, gen : Draws]
  BY <1>1, StateFields
<1>4. /\ y.place = PlaceAfter(op, x.place) /\ y.core = CoreAfter(op, x.core)
  BY <1>1 DEF Made
<1>5. /\ op[1] = "load" => /\ y.place = Sent(x.place, op[2], "gpu")
                           /\ y.core = x.core
      /\ op[1] = "offload" => /\ y.place = Sent(x.place, op[2], "cpu")
                              /\ y.core = x.core
      /\ op[1] \in {"read", "forward", "write"} =>
           y.place = x.place /\ y.core = x.core
      /\ op[1] \in {"release", "resume", "sync", "swap in", "swap out",
                    "generate"} => y.place = x.place
  BY <1>4 DEF PlaceAfter, CoreAfter
<1> QED BY <1>1, <1>2, <1>3, <1>4, <1>5 DEF Effect, x, y

EngineMade(op, c, d) ==
    /\ op[1] \in {"release", "resume", "sync"} =>
         /\ d.rng = c.rng /\ d.parked = c.parked
         /\ d.version = c.version /\ d.saved = c.saved
    /\ op[1] = "release" => d.engine = Released(c.engine, op[2])
    /\ op[1] = "resume" => d.engine = Resumed(c.engine, op[2])
    /\ op[1] = "sync" =>
         d.engine = IF op[2] = "drafter"
                    THEN [c.engine EXCEPT !.drafter = TRUE]
                    ELSE Synced(c.engine, c.version)

(* What each operation makes of the engine. *)
LEMMA EngineAfter ==
  ASSUME NEW op, NEW c \in Core, NEW d, d = CoreAfter(op, c)
  PROVE  EngineMade(op, c, d)
<1>1. ASSUME NEW e
      PROVE  LET b == [c EXCEPT !.engine = e]
             IN  /\ b.engine = e /\ b.rng = c.rng /\ b.parked = c.parked
                 /\ b.version = c.version /\ b.saved = c.saved
  BY DEF Core
<1>2. CASE op[1] = "release"
  <2>1. d = [c EXCEPT !.engine = Released(c.engine, op[2])]
    BY <1>2 DEF CoreAfter
  <2> QED BY <1>1, <1>2, <2>1 DEF EngineMade
<1>3. CASE op[1] = "resume"
  <2>1. d = [c EXCEPT !.engine = Resumed(c.engine, op[2])]
    BY <1>3 DEF CoreAfter
  <2> QED BY <1>1, <1>3, <2>1 DEF EngineMade
<1>4. CASE op[1] = "sync"
  <2>1. d = [c EXCEPT !.engine = IF op[2] = "drafter"
                                 THEN [c.engine EXCEPT !.drafter = TRUE]
                                 ELSE Synced(c.engine, c.version)]
    BY <1>4 DEF CoreAfter
  <2> QED BY <1>1, <1>4, <2>1 DEF EngineMade
<1> QED BY <1>2, <1>3, <1>4 DEF EngineMade

StreamsMade(op, c, d) ==
    /\ d.engine = c.engine /\ d.version = c.version /\ d.saved = c.saved
    /\ op[1] = "swap in" =>
         /\ d.rng = c.parked.gen
         /\ d.parked = [c.parked EXCEPT !.train = c.rng]
    /\ op[1] = "swap out" =>
         /\ d.rng = c.parked.train
         /\ d.parked = [c.parked EXCEPT !.gen = c.rng]
    /\ op[1] = "generate" =>
         /\ d.parked = c.parked
         /\ d.rng = [c.rng EXCEPT !.draws = c.rng.draws + 1]

(* What each operation makes of the streams. *)
LEMMA StreamsAfter ==
  ASSUME NEW op, NEW c \in Core, NEW d, d = CoreAfter(op, c),
         op[1] \in {"swap in", "swap out", "generate"}
  PROVE  StreamsMade(op, c, d)
<1>1. CASE op[1] = "swap in"
  <2>1. d = [c EXCEPT !.parked.train = c.rng, !.rng = c.parked.gen]
    BY <1>1 DEF CoreAfter
  <2> QED BY <1>1, <2>1 DEF Core, StreamsMade
<1>2. CASE op[1] = "swap out"
  <2>1. d = [c EXCEPT !.parked.gen = c.rng, !.rng = c.parked.train]
    BY <1>2 DEF CoreAfter
  <2> QED BY <1>2, <2>1 DEF Core, StreamsMade
<1>3. CASE op[1] = "generate"
  <2>1. d = [c EXCEPT !.rng.draws = c.rng.draws + 1]
    BY <1>3 DEF CoreAfter
  <2> QED BY <1>3, <2>1 DEF Core, StreamsMade
<1> QED BY <1>1, <1>2, <1>3 DEF StreamsMade

(* The driver and the disk aside, the shape is that of the ranks. *)
LEMMA ShapeKept ==
  ASSUME Shaped, job' = job, call' = call, Seated', UNCHANGED driverVars
  PROVE  Shaped'
BY SameJob DEF Shaped, CallFits, driverVars

(* A load or an offload of one rank preserves the invariant. *)
LEMMA ModuleMoves ==
  ASSUME Inv, NEW r \in Ranks, NEW name \in {"load", "offload"}, At(r, name),
         NEW to, to = IF name = "load" THEN "gpu" ELSE "cpu",
         Moved(r, Arg(r), to), Advance(r),
         UNCHANGED <<job, call, engine, version, rng, parked>>,
         UNCHANGED driverVars
  PROVE  Inv'
<1>1. Shaped /\ Working /\ Abreast
  BY Busy DEF At, Working
<1>2. PICK f : Steps(f) /\ Follows(f)
  BY <1>1 DEF Working
<1>3. PICK p : p = pc[r]
  OBVIOUS
<1>4. PICK op : op = Plan[p]
  OBVIOUS
<1>5. AtOp(f, r, p) /\ op[1] = name
  BY <1>1, <1>2, <1>3, <1>4, OpHere DEF At
<1>6. /\ f[p + 1].place = Sent(place[r], Arg(r), to)
      /\ f[p + 1].core = f[p].core /\ f[p + 1].place \in Places
  <2>1. Effect(f, r, p, op)
    BY <1>4, <1>5, Effects
  <2> QED BY <1>5, <2>1 DEF Effect
<1>7. place' = [place EXCEPT ![r] = f[p + 1].place]
  BY <1>6 DEF Moved, Sent
<1>8. /\ place'[r] = f[p + 1].place /\ place' \in [Ranks -> Places]
      /\ \A k \in Ranks \ {r} : place'[k] = place[k]
  BY <1>1, <1>6, <1>7 DEF Shaped, Seated
<1>9. Sees(r, f[p + 1])'
  BY <1>5, <1>6, <1>8 DEF AtOp, Sees, driverVars
<1>10. engine' = IF r = Leader THEN f[p + 1].core.engine ELSE engine
  BY <1>2, <1>3, <1>6 DEF Follows
<1>11. Plan[p][1] \notin Meeting /\ p <= Len(Plan) /\ disk' = disk
  BY <1>4, <1>5 DEF Meeting, AtOp, driverVars
<1>12. Working'
  BY <1>1, <1>2, <1>3, <1>8, <1>9, <1>10, <1>11, RankAdvances
<1>13. Seated'
  BY <1>1, <1>8 DEF Shaped, Seated, Advance
<1> QED BY <1>1, <1>12, <1>13, ShapeKept DEF Inv

(* So does its release or resumption of memory: only the leader's reaches  *)
(* the engine.                                                             *)
LEMMA MemoryMoves ==
  ASSUME Inv, NEW r \in Ranks, NEW name \in {"release", "resume"},
         At(r, name), Advance(r),
         engine' = IF r = Leader
                   THEN IF name = "release" THEN Released(engine, Arg(r))
                                            ELSE Resumed(engine, Arg(r))
                   ELSE engine,
         UNCHANGED <<job, call, place, version, rng, parked>>,
         UNCHANGED driverVars
  PROVE  Inv'
<1>1. Shaped /\ Working /\ Abreast
  BY Busy DEF At, Working
<1>2. PICK f : Steps(f) /\ Follows(f)
  BY <1>1 DEF Working
<1>3. PICK p : p = pc[r]
  OBVIOUS
<1>4. PICK op : op = Plan[p]
  OBVIOUS
<1>5. AtOp(f, r, p) /\ op[1] = name
  BY <1>1, <1>2, <1>3, <1>4, OpHere DEF At
<1>6. Effect(f, r, p, op)
  BY <1>4, <1>5, Effects
<1>7. EngineMade(op, f[p].core, f[p + 1].core)
  BY <1>5, <1>6, EngineAfter DEF Effect
<1>8. Sees(r, f[p + 1])'
  BY <1>5, <1>6, <1>7 DEF Effect, EngineMade, AtOp, Sees, driverVars
<1>9. engine' = IF r = Leader THEN f[p + 1].core.engine ELSE engine
  <2>1. r = Leader => engine = f[p].core.engine
    BY <1>2, <1>3 DEF Follows
  <2>2. Arg(r) = op[2]
    BY <1>6 DEF Effect
  <2>3. CASE name = "release"
    BY <1>5, <1>7, <2>1, <2>2, <2>3 DEF EngineMade
  <2>4. CASE name = "resume"
    BY <1>5, <1>7, <2>1, <2>2, <2>4 DEF EngineMade
  <2> QED BY <2>3, <2>4
<1>10. Plan[p][1] \notin Meeting /\ p <= Len(Plan) /\ disk' = disk
  BY <1>4, <1>5 DEF Meeting, AtOp, driverVars
<1>11. Working'
  BY <1>1, <1>2, <1>3, <1>8, <1>9, <1>10, RankAdvances
<1>12. Seated'
  BY <1>1 DEF Shaped, Seated, Advance
<1> QED BY <1>1, <1>11, <1>12, ShapeKept DEF Inv

(* So does a swap of its random streams. *)
LEMMA StreamsSwap ==
  ASSUME Inv, NEW r \in Ranks, SwapIn(r) \/ SwapOut(r), UNCHANGED driverVars
  PROVE  Inv'
<1>1. Shaped /\ Working /\ Abreast
  BY Busy DEF At, Working, SwapIn, SwapOut
<1>2. PICK f : Steps(f) /\ Follows(f)
  BY <1>1 DEF Working
<1>3. PICK p : p = pc[r]
  OBVIOUS
<1>4. PICK op : op = Plan[p]
  OBVIOUS
<1>5. AtOp(f, r, p) /\ op[1] \in {"swap in", "swap out"}
  BY <1>1, <1>2, <1>3, <1>4, OpHere DEF At, SwapIn, SwapOut
<1>6. Effect(f, r, p, op)
  BY <1>4, <1>5, Effects
<1>7. StreamsMade(op, f[p].core, f[p + 1].core)
  BY <1>5, <1>6, StreamsAfter DEF Effect
<1>8. /\ f[p].place = place[r] /\ f[p + 1].place = place[r]
      /\ rng[r] = f[p].core.rng /\ parked[r] = f[p].core.parked
      /\ f[p + 1].core.rng \in Draws
      /\ f[p + 1].core.parked \in [train : Draws, gen : Draws]
  BY <1>5, <1>6 DEF Effect, AtOp, Sees
<1>9. /\ rng' = [rng EXCEPT ![r] = f[p + 1].core.rng]
      /\ parked' = [parked EXCEPT ![r] = f[p + 1].core.parked]
  <2>1. CASE SwapIn(r)
    <3>1. op[1] = "swap in"
      BY <1>3, <1>4, <2>1 DEF SwapIn, At
    <3> QED BY <1>7, <1>8, <2>1, <3>1 DEF StreamsMade, SwapIn
  <2>2. CASE SwapOut(r)
    <3>1. op[1] = "swap out"
      BY <1>3, <1>4, <2>2 DEF SwapOut, At
    <3> QED BY <1>7, <1>8, <2>2, <3>1 DEF StreamsMade, SwapOut
  <2> QED BY <2>1, <2>2
<1>10. Advance(r) /\ UNCHANGED <<job, call, place, engine, version>>
  BY DEF SwapIn, SwapOut
<1>11. /\ rng'[r] = f[p + 1].core.rng /\ parked'[r] = f[p + 1].core.parked
       /\ \A q \in Ranks \ {r} : /\ place'[q] = place[q] /\ rng'[q] = rng[q]
                                 /\ parked'[q] = parked[q]
       /\ Seated'
  BY <1>1, <1>8, <1>9, <1>10 DEF Shaped, Seated, Advance
<1>12. Sees(r, f[p + 1])'
  BY <1>5, <1>7, <1>8, <1>10, <1>11 DEF AtOp, Sees, StreamsMade, driverVars
<1>13. engine' = IF r = Leader THEN f[p + 1].core.engine ELSE engine
  BY <1>2, <1>3, <1>7, <1>10 DEF Follows, StreamsMade
<1>14. Plan[p][1] \notin Meeting /\ p <= Len(Plan) /\ disk' = disk
  BY <1>4, <1>5 DEF Meeting, AtOp, driverVars
<1>15. Working'
  BY <1>1, <1>2, <1>3, <1>10, <1>11, <1>12, <1>13, <1>14, RankAdvances
<1> QED BY <1>1, <1>10, <1>11, <1>15, ShapeKept DEF Inv

(* The ranks are all at the same operation. *)
Joint(f, p, op) ==
    /\ Steps(f) /\ Follows(f) /\ op = Plan[p] /\ p <= Len(Plan)
    /\ engine = f[p].core.engine
    /\ \A r \in Ranks : pc[r] = p /\ AtOp(f, r, p) /\ Effect(f, r, p, op)

(* In a collective operation all ranks are at one place of the run. *)
LEMMA AllHere ==
  ASSUME Inv, NEW name, Together(name)
  PROVE  /\ Shaped /\ Abreast
         /\ \E f, p, op : Joint(f, p, op) /\ op[1] = name
<1>1. Shaped /\ Working /\ Abreast
  BY Busy, LeaderAssumption DEF At, Together, Working
<1>2. PICK f : Steps(f) /\ Follows(f)
  BY <1>1 DEF Working
<1>3. PICK p : p = pc[Leader]
  OBVIOUS
<1>4. PICK op : op = Plan[p]
  OBVIOUS
<1>5. \A r \in Ranks : pc[r] = p /\ pc[r] <= Len(Plan)
  BY <1>3 DEF Together, At
<1>6. ASSUME NEW r \in Ranks PROVE AtOp(f, r, p) /\ Effect(f, r, p, op)
  <2>1. AtOp(f, r, p)
    BY <1>1, <1>2, <1>5, OpHere
  <2> QED BY <1>4, <2>1, Effects
<1>7. op[1] = name
  BY <1>3, <1>4, LeaderAssumption DEF Together, At
<1>8. engine = f[p].core.engine
  BY <1>2, <1>3 DEF Follows
<1>9. Joint(f, p, op)
  BY <1>2, <1>4, <1>5, <1>6, <1>8, LeaderAssumption DEF Joint
<1> QED BY <1>1, <1>7, <1>9

(* What follows a step of all ranks. *)
LEMMA AllGoOn ==
  ASSUME Shaped, Abreast, NEW f, NEW p, NEW op, Joint(f, p, op), AllAdvance,
         job' = job, call' = call, \A r \in Ranks : Sees(r, f[p + 1])',
         engine' = f[p + 1].core.engine
  PROVE  Working'
BY AllMakeIt DEF Joint

(* Ranks that go on together keep their types. *)
LEMMA SeatedStill ==
  ASSUME Shaped, AllAdvance, UNCHANGED <<place, rng, parked>>
  PROVE  Seated'
BY DEF Shaped, Seated, AllAdvance

(* Reading the weights, or a forward pass, preserves the invariant. *)
LEMMA WeightsUsed ==
  ASSUME Inv, ReadWeights \/ Forward, UNCHANGED driverVars
  PROVE  Inv'
<1>1. PICK name \in {"read", "forward"} : Together(name)
  BY DEF ReadWeights, Forward
<1>2. Shaped /\ Abreast
  BY <1>1, AllHere
<1>3. PICK f, p, op : Joint(f, p, op) /\ op[1] = name
  BY <1>1, AllHere
<1>4. AllAdvance
      /\ UNCHANGED <<job, call, place, engine, version, rng, parked, disk>>
  BY DEF ReadWeights, Forward, driverVars
<1>5. ASSUME NEW r \in Ranks
      PROVE  /\ Sees(r, f[p + 1])'
             /\ f[p + 1].core = f[p].core
  <2>1. AtOp(f, r, p) /\ Effect(f, r, p, op)
    BY <1>3 DEF Joint
  <2>2. f[p + 1].place = place[r] /\ f[p + 1].core = f[p].core
    BY <1>1, <1>3, <2>1 DEF Effect
  <2> QED BY <1>4, <2>1, <2>2 DEF AtOp, Sees
<1>6. engine' = f[p + 1].core.engine
  BY <1>3, <1>4, <1>5, LeaderAssumption DEF Joint
<1>7. Working'
  BY <1>2, <1>3, <1>4, <1>5, <1>6, AllGoOn
<1> QED BY <1>2, <1>4, <1>7, SeatedStill, ShapeKept DEF Inv

(* So does the hand-over of the weights. *)
LEMMA WeightsSynced ==
  ASSUME Inv, SyncWeights, UNCHANGED driverVars
  PROVE  Inv'
<1>1. Together("sync") /\ AllAdvance
      /\ UNCHANGED <<job, call, place, version, rng, parked, disk>>
  BY DEF SyncWeights, driverVars
<1>2. Shaped /\ Abreast
  BY <1>1, AllHere
<1>3. PICK f, p, op : Joint(f, p, op) /\ op[1] = "sync"
  BY <1>1, AllHere
<1>4. ASSUME NEW r \in Ranks
      PROVE  /\ Sees(r, f[p + 1])' /\ Arg(r) = op[2]
             /\ EngineMade(op, f[p].core, f[p + 1].core)
             /\ f[p].core.version = version
  <2>1. AtOp(f, r, p) /\ Effect(f, r, p, op)
    BY <1>3 DEF Joint
  <2>2. f[p + 1].place = place[r] /\ Arg(r) = op[2]
        /\ f[p + 1].core = CoreAfter(op, f[p].core) /\ f[p].core \in Core
    BY <1>3, <2>1 DEF Effect
  <2>3. EngineMade(op, f[p].core, f[p + 1].core)
    BY <2>2, EngineAfter
  <2> QED BY <1>1, <1>3, <2>1, <2>2, <2>3 DEF AtOp, Sees, EngineMade
<1>5. engine' = f[p + 1].core.engine
  <2>1. f[p + 1].core.engine =
          IF op[2] = "drafter" THEN [engine EXCEPT !.drafter = TRUE]
          ELSE Synced(engine, version)
    BY <1>3, <1>4, LeaderAssumption DEF EngineMade, Joint
  <2>2. Arg(Leader) = op[2]
    BY <1>4, LeaderAssumption
  <2> QED BY <2>1, <2>2 DEF SyncWeights, Synced
<1>6. Working'
  BY <1>1, <1>2, <1>3, <1>4, <1>5, AllGoOn
<1> QED BY <1>1, <1>2, <1>6, SeatedStill, ShapeKept DEF Inv

(* So does generation, which advances the streams. *)
LEMMA AllGenerate ==
  ASSUME Inv, Generate, UNCHANGED driverVars
  PROVE  Inv'
<1>1. Together("generate") /\ AllAdvance /\ rng' = Drawn
      /\ UNCHANGED <<job, call, place, engine, version, parked, disk>>
  BY DEF Generate, driverVars
<1>2. Shaped /\ Abreast
  BY <1>1, AllHere
<1>3. PICK f, p, op : Joint(f, p, op) /\ op[1] = "generate"
  BY <1>1, AllHere
<1>4. ASSUME NEW r \in Ranks
      PROVE  /\ Sees(r, f[p + 1])' /\ rng'[r] \in Draws
             /\ StreamsMade(op, f[p].core, f[p + 1].core)
  <2>1. AtOp(f, r, p) /\ Effect(f, r, p, op)
    BY <1>3 DEF Joint
  <2>2. f[p + 1].place = place[r] /\ f[p + 1].core.rng \in Draws
        /\ f[p + 1].core = CoreAfter(op, f[p].core) /\ f[p].core \in Core
    BY <1>3, <2>1 DEF Effect
  <2>3. StreamsMade(op, f[p].core, f[p + 1].core)
    BY <1>3, <2>2, StreamsAfter
  <2>4. rng'[r] = f[p + 1].core.rng
    <3>1. rng'[r] = [rng[r] EXCEPT !.draws = rng[r].draws + 1]
      BY <1>1 DEF Drawn
    <3> QED BY <1>3, <2>1, <2>3, <3>1 DEF AtOp, Sees, StreamsMade
  <2> QED BY <1>1, <1>3, <2>1, <2>2, <2>3, <2>4 DEF AtOp, Sees, StreamsMade
<1>5. engine' = f[p + 1].core.engine
  BY <1>1, <1>3, <1>4, LeaderAssumption DEF Joint, StreamsMade
<1>6. Working'
  BY <1>1, <1>2, <1>3, <1>4, <1>5, AllGoOn
<1>7. Seated'
  <2>1. rng' \in [Ranks -> Draws]
    BY <1>1, <1>4 DEF Drawn
  <2> QED BY <1>1, <1>2, <2>1 DEF Shaped, Seated, AllAdvance
<1> QED BY <1>1, <1>2, <1>6, <1>7, ShapeKept DEF Inv

(* An update, or a checkpoint that is loaded. *)
Trained(op, x, y) ==
    /\ y.core.engine = x.core.engine /\ y.core.parked = x.core.parked
    /\ y.core.saved = x.core.saved
    /\ op[1] = "update" =>
         /\ y.place = [x.place EXCEPT ![OptOf(op[2])] = "gpu"]
         /\ y.core.version = IF op[2] = "actor" THEN x.core.version + 1
                             ELSE x.core.version
         /\ y.core.rng = IF op[2] = "actor"
                         THEN [x.core.rng EXCEPT !.draws = x.core.rng.draws + 1]
                         ELSE x.core.rng
    /\ op[1] = "restore" =>
         /\ y.place = [x.place EXCEPT ![OptOf(op[2])] = x.place[op[2]]]
         /\ y.core.version = x.core.saved.version
         /\ y.core.rng = [x.core.rng EXCEPT !.draws = x.core.saved.draws]

(* What a training step or a restored checkpoint changes, and what not. *)
LEMMA TrainedAfter ==
  ASSUME NEW op, NEW x \in State, op[1] \in {"update", "restore"},
         NEW y, y = Made(op, x)
  PROVE  Trained(op, x, y)
<1>1. x.core \in Core
  BY StateFields
<1>2. y.place = PlaceAfter(op, x.place) /\ y.core = CoreAfter(op, x.core)
  BY DEF Made
<1> DEFINE c == x.core
           d == y.core
<1>3. CASE op[1] = "update" /\ op[2] = "actor"
  <2>1. d = [c EXCEPT !.version = c.version + 1, !.rng.draws = c.rng.draws + 1]
    BY <1>2, <1>3 DEF CoreAfter
  <2>2. c \in Core
    BY <1>1
  <2> HIDE DEF c, d
  <2>3. /\ d.engine = c.engine /\ d.parked = c.parked /\ d.saved = c.saved
        /\ d.version = c.version + 1
        /\ d.rng = [c.rng EXCEPT !.draws = c.rng.draws + 1]
    BY <2>1, <2>2 DEF Core
  <2>4. y.place = [x.place EXCEPT ![OptOf(op[2])] = "gpu"]
    BY <1>2, <1>3 DEF PlaceAfter
  <2> QED BY <1>3, <2>3, <2>4 DEF Trained, c, d
<1>4. CASE op[1] = "update" /\ op[2] # "actor"
  <2>1. y.core = x.core
    BY <1>2, <1>4 DEF CoreAfter
  <2>2. y.place = [x.place EXCEPT ![OptOf(op[2])] = "gpu"]
    BY <1>2, <1>4 DEF PlaceAfter
  <2> QED BY <1>4, <2>1, <2>2 DEF Trained
<1>5. CASE op[1] = "restore"
  <2>1. d = [c EXCEPT !.version = c.saved.version, !.rng.draws = c.saved.draws]
    BY <1>2, <1>5 DEF CoreAfter
  <2>2. c \in Core
    BY <1>1
  <2> HIDE DEF c, d
  <2>3. /\ d.engine = c.engine /\ d.parked = c.parked /\ d.saved = c.saved
        /\ d.version = c.saved.version
        /\ d.rng = [c.rng EXCEPT !.draws = c.saved.draws]
    BY <2>1, <2>2 DEF Core
  <2>4. y.place = [x.place EXCEPT ![OptOf(op[2])] = x.place[op[2]]]
    BY <1>2, <1>5 DEF PlaceAfter
  <2> QED BY <1>5, <2>3, <2>4 DEF Trained, c, d
<1> QED BY <1>3, <1>4, <1>5

(* A training step preserves the invariant. *)
LEMMA ModelUpdates ==
  ASSUME Inv, Update, UNCHANGED driverVars
  PROVE  Inv'
<1>1. Together("update") /\ AllAdvance
      /\ UNCHANGED <<job, call, engine, parked, disk>>
  BY DEF Update, driverVars
<1>2. Shaped /\ Abreast
  BY <1>1, AllHere
<1>3. PICK f, p, op : Joint(f, p, op) /\ op[1] = "update"
  BY <1>1, AllHere
<1>4. \A r \in Ranks : Arg(r) = op[2]
  BY <1>3 DEF Joint, Effect
<1>5. /\ place' = [r \in Ranks |-> [place[r] EXCEPT ![OptOf(op[2])] = "gpu"]]
      /\ version' = IF op[2] = "actor" THEN version + 1 ELSE version
      /\ rng' = IF op[2] = "actor" THEN Drawn ELSE rng
  BY <1>4, LeaderAssumption DEF Update
<1>6. ASSUME NEW r \in Ranks
      PROVE  /\ Sees(r, f[p + 1])' /\ rng'[r] \in Draws /\ place'[r] \in Places
             /\ f[p + 1].core.engine = f[p].core.engine
  <2>1. AtOp(f, r, p) /\ Effect(f, r, p, op)
    BY <1>3 DEF Joint
  <2>2. /\ f[p] \in State /\ f[p + 1] = Made(op, f[p])
        /\ f[p + 1].place \in Places /\ f[p + 1].core.rng \in Draws
    BY <1>3, <2>1 DEF AtOp, Effect, Joint
  <2>3. Trained(op, f[p], f[p + 1])
    BY <1>3, <2>2, TrainedAfter
  <2>4. place'[r] = f[p + 1].place
    <3>1. place'[r] = [place[r] EXCEPT ![OptOf(op[2])] = "gpu"]
      BY <1>5
    <3> QED BY <1>3, <2>1, <2>3, <3>1 DEF AtOp, Sees, Trained
  <2>5. rng'[r] = f[p + 1].core.rng
    <3>1. CASE op[2] = "actor"
      <4>1. rng'[r] = [rng[r] EXCEPT !.draws = rng[r].draws + 1]
        BY <1>5, <3>1 DEF Drawn
      <4> QED BY <1>3, <2>1, <2>3, <3>1, <4>1 DEF AtOp, Sees, Trained
    <3>2. CASE op[2] # "actor"
      BY <1>3, <1>5, <2>1, <2>3, <3>2 DEF AtOp, Sees, Trained
    <3> QED BY <3>1, <3>2
  <2>6. version' = f[p + 1].core.version
    BY <1>3, <1>5, <2>1, <2>3 DEF AtOp, Sees, Trained
  <2> QED BY <1>1, <2>1, <2>2, <2>3, <2>4, <2>5, <2>6 DEF AtOp, Sees, Trained
<1>7. engine' = f[p + 1].core.engine
  BY <1>1, <1>3, <1>6, LeaderAssumption DEF Joint
<1>8. Working'
  BY <1>1, <1>2, <1>3, <1>6, <1>7, AllGoOn
<1>9. Seated'
  <2>1. place' \in [Ranks -> Places]
    BY <1>5, <1>6
  <2>2. rng' \in [Ranks -> Draws]
    BY <1>2, <1>5, <1>6 DEF Drawn, Shaped, Seated
  <2> QED BY <1>1, <1>2, <2>1, <2>2 DEF Shaped, Seated, AllAdvance
<1> QED BY <1>1, <1>2, <1>8, <1>9, ShapeKept DEF Inv

(* So does a checkpoint that is loaded, *)
LEMMA CheckpointLoads ==
  ASSUME Inv, RestoreCheckpoint
  PROVE  Inv'
<1>1. Together("restore") /\ AllAdvance /\ UNCHANGED driverVars
      /\ UNCHANGED <<job, call, engine, parked, disk>>
  BY DEF RestoreCheckpoint, driverVars
<1>2. Shaped /\ Abreast
  BY <1>1, AllHere
<1>3. PICK f, p, op : Joint(f, p, op) /\ op[1] = "restore"
  BY <1>1, AllHere
<1>4. \A r \in Ranks : Arg(r) = op[2]
  BY <1>3 DEF Joint, Effect
<1>5. /\ place' = [r \in Ranks |-> [place[r] EXCEPT
                                     ![OptOf(op[2])] = place[r][op[2]]]]
      /\ version' = disk.saved.version
      /\ rng' = [r \in Ranks |-> [rng[r] EXCEPT !.draws = disk.saved.draws[r]]]
  BY <1>4, LeaderAssumption DEF RestoreCheckpoint
<1>6. ASSUME NEW r \in Ranks
      PROVE  /\ Sees(r, f[p + 1])' /\ rng'[r] \in Draws /\ place'[r] \in Places
             /\ f[p + 1].core.engine = f[p].core.engine
  <2>1. AtOp(f, r, p) /\ Effect(f, r, p, op)
    BY <1>3 DEF Joint
  <2>2. /\ f[p] \in State /\ f[p + 1] = Made(op, f[p])
        /\ f[p + 1].place \in Places /\ f[p + 1].core.rng \in Draws
    BY <1>3, <2>1 DEF AtOp, Effect, Joint
  <2>3. Trained(op, f[p], f[p + 1])
    BY <1>3, <2>2, TrainedAfter
  <2>4. place'[r] = f[p + 1].place
    <3>1. place'[r] = [place[r] EXCEPT ![OptOf(op[2])] = place[r][op[2]]]
      BY <1>5
    <3> QED BY <1>3, <2>1, <2>3, <3>1 DEF AtOp, Sees, Trained
  <2>5. /\ rng'[r] = f[p + 1].core.rng /\ version' = f[p + 1].core.version
    <3>1. rng'[r] = [rng[r] EXCEPT !.draws = disk.saved.draws[r]]
      BY <1>5
    <3>2. /\ f[p].core.saved.version = disk.saved.version
          /\ f[p].core.saved.draws = disk.saved.draws[r]
      BY <2>1 DEF AtOp, Sees
    <3> QED BY <1>3, <1>5, <2>1, <2>3, <3>1, <3>2 DEF AtOp, Sees, Trained
  <2> QED BY <1>1, <2>1, <2>2, <2>3, <2>4, <2>5 DEF AtOp, Sees, Trained
<1>7. engine' = f[p + 1].core.engine
  BY <1>1, <1>3, <1>6, LeaderAssumption DEF Joint
<1>8. Working'
  BY <1>1, <1>2, <1>3, <1>6, <1>7, AllGoOn
<1>9. Seated'
  <2>1. place' \in [Ranks -> Places]
    BY <1>5, <1>6
  <2>2. rng' \in [Ranks -> Draws]
    BY <1>5, <1>6
  <2> QED BY <1>1, <1>2, <2>1, <2>2 DEF Shaped, Seated, AllAdvance
<1> QED BY <1>1, <1>2, <1>8, <1>9, ShapeKept DEF Inv

(* and one that is written: the streams are saved with the version. *)
LEMMA CheckpointWritten ==
  ASSUME Inv, WriteCheckpoint
  PROVE  Inv'
<1>1. Together("write") /\ AllAdvance
      /\ UNCHANGED <<job, call, place, engine, version, rng, parked>>
      /\ UNCHANGED <<step, stage, restarts>>
  BY DEF WriteCheckpoint
<1>2. Shaped /\ Abreast
  BY <1>1, AllHere
<1>3. PICK f, p, op : Joint(f, p, op) /\ op[1] = "write"
  BY <1>1, AllHere
<1>4. Snapshot \in Checkpoints
  <2>1. ASSUME NEW r \in Ranks
        PROVE  /\ rng[r] = f[p].core.rng /\ version = f[p].core.version
               /\ f[p].core \in Core /\ CoreServes(op, f[p].core)
    <3>1. AtOp(f, r, p) /\ Effect(f, r, p, op)
      BY <1>3 DEF Joint
    <3> QED BY <3>1 DEF AtOp, Effect, Sees, Serves
  <2>2. f[p].core.rng.draws \in Nat /\ version \in Nat
    BY <2>1, LeaderAssumption, CoreFields DEF Draws
  <2>3. Supported => f[p].core.rng.draws = version
    BY <1>3, <2>1, LeaderAssumption DEF CoreServes
  <2>4. step \in Nat
    BY <1>2 DEF Shaped
  <2>5. /\ Snapshot.draws = [r \in Ranks |-> f[p].core.rng.draws]
        /\ Snapshot.version = version
        /\ Snapshot \in [step : Nat, version : Nat, draws : [Ranks -> Nat]]
    BY <2>1, <2>2, <2>4 DEF Snapshot
  <2> HIDE DEF Snapshot
  <2> QED BY <2>3, <2>5, LeaderAssumption DEF Checkpoints
<1>5. disk' \in [saved : Checkpoints, written : Checkpoints]
      /\ disk'.saved = disk.saved
  BY <1>2, <1>4 DEF WriteCheckpoint, Shaped
<1>6. ASSUME NEW r \in Ranks
      PROVE  /\ Sees(r, f[p + 1])'
             /\ f[p + 1].core = f[p].core
  <2>1. AtOp(f, r, p) /\ Effect(f, r, p, op)
    BY <1>3 DEF Joint
  <2>2. f[p + 1].place = place[r] /\ f[p + 1].core = f[p].core
    BY <1>3, <2>1 DEF Effect
  <2> QED BY <1>1, <1>5, <2>1, <2>2 DEF AtOp, Sees
<1>7. engine' = f[p + 1].core.engine
  BY <1>1, <1>3, <1>6, LeaderAssumption DEF Joint
<1>8. Working'
  BY <1>1, <1>2, <1>3, <1>6, <1>7, AllGoOn
<1>9. Seated'
  BY <1>1, <1>2, SeatedStill
<1>10. Shaped'
  BY <1>1, <1>2, <1>5, <1>9, SameJob DEF Shaped, CallFits
<1> QED BY <1>8, <1>10 DEF Inv

-----------------------------------------------------------------------------
(* The driver *)

(* A set of numbers has a smallest one.                                    *)
LEMMA Smallest ==
  ASSUME NEW S, S \subseteq Nat, S # {}
  PROVE  \E i \in S : \A k \in S : i <= k
<1> DEFINE Less == OpToRel(<, Nat)
<1>1. IsWellFoundedOn(Less, Nat)
  BY NatLessThanWellFounded
<1>2. \A k, i \in Nat : k < i => <<k, i>> \in Less
  BY DEF OpToRel
<1> HIDE DEF Less
<1>3. PICK i \in S : \A k \in S : ~(<<k, i>> \in Less)
  BY <1>1, WFMin
<1>4. ASSUME NEW k \in S PROVE i <= k
  <2>1. i \in Nat /\ k \in Nat
    OBVIOUS
  <2>2. ~(<<k, i>> \in Less)
    BY <1>3
  <2>3. k < i => <<k, i>> \in Less
    BY <1>2, <2>1
  <2> QED BY <2>1, <2>2, <2>3
<1> QED BY <1>4

(* A state at rest stays one with another checkpoint on the disk. *)
LEMMA OtherCheckpoint ==
  ASSUME NEW x \in AtRest, NEW v \in Nat, NEW w \in Nat, Supported => w = v
  PROVE  \E y \in AtRest :
           /\ y.place = x.place /\ y.core.engine = x.core.engine
           /\ y.core.rng = x.core.rng /\ y.core.parked = x.core.parked
           /\ y.core.version = x.core.version
           /\ y.core.saved = [version |-> v, draws |-> w]
<1> DEFINE c == x.core
           d == [c EXCEPT !.saved = [version |-> v, draws |-> w]]
           y == [place |-> x.place, core |-> d]
<1>1. c \in Rest /\ c \in Core /\ x.place \in Places /\ Placed(x.place, {})
  BY DEF AtRest, States, State
<1>2. /\ d \in Core /\ d.engine = c.engine /\ d.rng = c.rng
      /\ d.parked = c.parked /\ d.version = c.version
      /\ d.saved = [version |-> v, draws |-> w]
  BY <1>1 DEF Core
<1>3. y.place = x.place /\ y.core = d
  OBVIOUS
<1> HIDE DEF c, d
<1>4. d \in Rest
  BY <1>1, <1>2 DEF Rest, Fine, Training
<1>5. y \in State
  BY <1>1, <1>2 DEF State
<1> HIDE DEF y
<1>6. y \in AtRest
  BY <1>1, <1>3, <1>4, <1>5 DEF AtRest, States
<1> QED BY <1>2, <1>3, <1>6 DEF c

(* When no rank is in a call, all are at rest. *)
LEMMA AtRestNow ==
  ASSUME Inv, Returned
  PROVE  Shaped /\ Idle
BY Settled DEF Inv

(* The driver goes on without a call. *)
LEMMA QuietStep ==
  ASSUME Inv, Returned, Quiet, disk' = disk, stage' # "servers", step' \in Nat
  PROVE  Inv'
<1>1. Shaped /\ Idle
  BY AtRestNow
<1>2. Idle'
  BY <1>1, StaysIdle DEF Quiet
<1>3. Shaped'
  BY <1>1, SameJob DEF Shaped, CallFits, Seated, Quiet, memoryVars
<1> QED BY <1>2, <1>3 DEF Inv

(* The driver calls the workers, which are at rest. *)
LEMMA CallStep ==
  ASSUME Inv, Returned, NEW c \in CallNames, c = "first_sleep" => job.async,
         Issue(c), stage' # "servers", step' \in Nat,
         UNCHANGED <<job, place, engine, version, rng, parked, disk>>
  PROVE  Inv'
<1>1. Shaped /\ Idle
  BY AtRestNow
<1>2. CallFits' /\ pc' = [r \in Ranks |-> 1]
  BY <1>1 DEF Shaped, CallFits, Issue
<1>3. Working'
  BY <1>1, <1>2, Issued
<1>4. Seated'
  BY <1>1, <1>2 DEF Shaped, Seated
<1>5. Shaped'
  BY <1>1, <1>2, <1>4, SameJob DEF Shaped
<1> QED BY <1>3, <1>5 DEF Inv

(* A stage is followed by one of a step: there always is "finish".         *)
LEMMA AfterStage ==
  ASSUME NEW s \in CallStages \cup {"filter"}
  PROVE  After(s) # "servers"
<1> DEFINE last == 15
           later == {i \in DOMAIN Order : i > Place(s) /\ Applies(Order[i])}
<1>1. DOMAIN Order = 1..15 /\ Order[15] = "finish"
      /\ \A i \in 1..15 : Order[i] # "servers"
  BY DEF Order
<1>2. \E i \in 1..15 : Order[i] = s
  BY DEF Order, CallStages
<1>3. Place(s) \in 1..15 /\ Order[Place(s)] = s
  BY <1>1, <1>2 DEF Place
<1>4. Place(s) < 15
  <2>1. Place(s) # 15
    BY <1>1, <1>3 DEF CallStages
  <2> QED BY <1>3, <2>1
<1>5. 15 \in later /\ later \subseteq 1..15
  BY <1>1, <1>4 DEF Applies
<1> HIDE DEF later
<1>6. \E i \in later : \A k \in later : i <= k
  <2>1. later \subseteq Nat /\ later # {}
    BY <1>5
  <2> QED BY <2>1, Smallest
<1>7. After(s) = Order[CHOOSE i \in later : \A k \in later : i <= k]
  BY DEF After, later
<1> QED BY <1>1, <1>5, <1>6, <1>7

(* The stages of a training step preserve the invariant. *)
LEMMA WorkersCalled ==
  ASSUME Inv, CallWorkers
  PROVE  Inv'
<1>1. CallOf(stage) \in CallNames /\ CallOf(stage) # "first_sleep"
  BY DEF CallWorkers, CallOf, CallStages, CallNames
<1>2. stage' # "servers"
  BY AfterStage DEF CallWorkers
<1>3. step' \in Nat
  BY DEF CallWorkers, Inv, Shaped
<1> QED BY <1>1, <1>2, <1>3, CallStep DEF CallWorkers

(* So does the start of the servers, *)
LEMMA ServersStarted ==
  ASSUME Inv, StartServers
  PROVE  Inv'
<1>1. Returned
  <2>1. call = "none" /\ Plan = << >> /\ Len(Plan) = 0
    BY DEF StartServers, Inv, Shaped, Plan
  <2>2. CASE Working
    <3>1. PICK f : Follows(f)
      BY <2>2 DEF Working
    <3> QED BY <2>1, <3>1 DEF Follows, Returned
  <2> QED BY <2>2 DEF Inv, Idle
<1>2. stage' # "servers" /\ step' \in Nat /\ disk' = disk
  BY DEF StartServers, Inv, Shaped
<1>3. CASE job.async /\ Issue("first_sleep")
           /\ UNCHANGED <<job, place, engine, version, rng, parked>>
  <2>1. "first_sleep" \in CallNames
    BY DEF CallNames
  <2> QED BY <1>1, <1>2, <1>3, <2>1, CallStep
<1>4. CASE Quiet
  BY <1>1, <1>2, <1>4, QuietStep
<1> QED BY <1>3, <1>4 DEF StartServers

(* the restoration of a checkpoint, *)
LEMMA CheckpointCalled ==
  ASSUME Inv, CallLoad
  PROVE  Inv'
<1>1. stage \in CallNames /\ stage # "first_sleep"
  BY DEF CallLoad, CallNames
<1>2. stage' # "servers" /\ step' \in Nat
  BY DEF CallLoad, Inv, Shaped
<1> QED BY <1>1, <1>2, CallStep DEF CallLoad

(* validation before training, *)
LEMMA ValidatedBefore ==
  ASSUME Inv, ValidateBefore
  PROVE  Inv'
<1>1. Returned /\ stage' # "servers" /\ step' \in Nat /\ disk' = disk
  BY DEF ValidateBefore, Inv, Shaped
<1>2. CASE Issue("generate")
           /\ UNCHANGED <<job, place, engine, version, rng, parked>>
  <2>1. "generate" \in CallNames
    BY DEF CallNames
  <2> QED BY <1>1, <1>2, <2>1, CallStep
<1>3. CASE Quiet
  BY <1>1, <1>3, QuietStep
<1> QED BY <1>2, <1>3 DEF ValidateBefore

(* and whatever the driver does by itself. *)
LEMMA DriverAlone ==
  ASSUME Inv, Start \/ FilterGroups \/ CheckExpiry \/ FinishStep
  PROVE  Inv'
<1>1. Returned /\ Quiet /\ disk' = disk
  BY DEF Start, FilterGroups, CheckExpiry, FinishStep
<1>2. step \in Nat /\ disk.saved.step \in Nat
  BY DEF Inv, Shaped, Checkpoints
<1>3. step' \in Nat
  BY <1>2 DEF Start, FilterGroups, CheckExpiry, FinishStep, NextStep
<1>4. stage' # "servers"
  <2>1. CASE FilterGroups
    <3>1. "filter" \in CallStages \cup {"filter"}
      OBVIOUS
    <3> QED BY <2>1, <3>1, AfterStage DEF FilterGroups, NextStep
  <2>2. CASE Start \/ CheckExpiry \/ FinishStep
    BY <2>2 DEF Start, CheckExpiry, FinishStep, NextStep
  <2> QED BY <2>1, <2>2
<1> QED BY <1>1, <1>3, <1>4, QuietStep

(* The workers see the new checkpoint at rest. *)
LEMMA TrackerWritten ==
  ASSUME Inv, WriteTracker
  PROVE  Inv'
<1>1. Shaped /\ Idle
  BY AtRestNow DEF WriteTracker
<1>2. UNCHANGED memoryVars /\ job' = job /\ call' = call
      /\ stage' # "servers" /\ step' = step
  BY DEF WriteTracker, Quiet, memoryVars
<1>3. disk' \in [saved : Checkpoints, written : Checkpoints]
      /\ disk'.saved \in Checkpoints
  BY <1>1 DEF WriteTracker, Shaped
<1>4. PICK x \in AtRest : /\ \A r \in Ranks : Sees(r, x)
                          /\ engine = x.core.engine
  BY <1>1 DEF Idle
<1>5. PICK v, w : v = disk'.saved.version /\ w = disk'.saved.draws[Leader]
  OBVIOUS
<1>6. v \in Nat /\ w \in Nat /\ (Supported => w = v)
  BY <1>3, <1>5, LeaderAssumption DEF Checkpoints
<1>7. PICK y \in AtRest :
        /\ y.place = x.place /\ y.core.engine = x.core.engine
        /\ y.core.rng = x.core.rng /\ y.core.parked = x.core.parked
        /\ y.core.version = x.core.version
        /\ y.core.saved = [version |-> v, draws |-> w]
  BY <1>6, OtherCheckpoint
<1>8. \A r \in Ranks : Sees(r, y)'
  <2>1. \A r \in Ranks : disk'.saved.draws[r] = w
    BY <1>3, <1>5 DEF Checkpoints
  <2> QED BY <1>2, <1>4, <1>5, <1>7, <2>1 DEF Sees, memoryVars
<1>9. Returned'
  BY <1>1, <1>2, SameCall DEF Idle, Returned, memoryVars
<1>10. Idle'
  <2>1. y \in AtRest'
    BY <1>2, <1>7, SameJob
  <2> QED BY <1>2, <1>4, <1>7, <1>8, <1>9, <2>1 DEF Idle, memoryVars
<1>11. Shaped'
  BY <1>1, <1>2, <1>3, SameJob DEF Shaped, CallFits, Seated, memoryVars
<1> QED BY <1>10, <1>11 DEF Inv

-----------------------------------------------------------------------------
(* A job that starts *)

FreshState(v, w) ==
    [place |-> FreshPlace(job),
     core |-> [engine |-> FreshEngine(job), rng |-> FreshStream("train"),
               parked |-> FreshParked, version |-> 0,
               saved |-> [version |-> v, draws |-> w]]]

(* A job that starts, with whatever its disk holds, is at rest. *)
LEMMA FreshRests ==
  ASSUME job \in Jobs, NEW v \in Nat, NEW w \in Nat, Supported => w = v
  PROVE  FreshState(v, w) \in AtRest
<1> DEFINE p == FreshPlace(job)
           e == FreshEngine(job)
           c == FreshState(v, w).core
<1>1. p \in Places
  BY JobsAssumption DEF FreshPlace, Places, Module, Off
<1>2. Placed(p, {})
  BY JobsAssumption DEF FreshPlace, Placed, Module, Off, Home, Megatron
<1>3. e \in Engine
  BY JobsAssumption DEF FreshEngine, Engine, Tags, NoWeights
<1>4. FreshStream("train") \in Draws /\ FreshStream("gen") \in Draws
      /\ FreshParked \in [train : Draws, gen : Draws]
  BY DEF FreshStream, FreshParked, Draws
<1>5. /\ FreshState(v, w).place = p /\ c.engine = e
      /\ c.rng = FreshStream("train") /\ c.parked = FreshParked
      /\ c.version = 0 /\ c.saved = [version |-> v, draws |-> w]
  BY DEF FreshState
<1>6. c \in Core
  BY <1>3, <1>4 DEF FreshState, Core
<1>7. FreshState(v, w) \in State
  BY <1>1, <1>6 DEF FreshState, State
<1>8. Supported =>
        /\ ~e.error
        /\ job.lora => e.baseDone
        /\ e.reload => job.freeCache /\ job.rollout # "vllm"
        /\ e.awake = IF job.freeCache /\ ~e.reload THEN {} ELSE Tags
  BY Flags DEF FreshEngine, Supported
<1>9. Supported => Training(c)
  BY <1>5 DEF Training, FreshStream, FreshParked
<1> HIDE DEF p, e, c
<1>10. c \in Rest
  BY <1>5, <1>6, <1>8, <1>9 DEF Rest, Fine
<1> QED BY <1>2, <1>5, <1>7, <1>10 DEF AtRest, States, c

(* The invariant holds at first. *)
LEMMA FirstState ==
  ASSUME Init
  PROVE  Inv
<1>1. job \in Jobs /\ call = "none" /\ Plan = << >> /\ Len(Plan) = 0
  BY DEF Init, Plan
<1>2. NoCheckpoint \in Checkpoints
  BY LeaderAssumption DEF NoCheckpoint, Checkpoints
<1>3. FreshState(0, 0) \in AtRest
  BY <1>1, FreshRests
<1>4. \A r \in Ranks : Sees(r, FreshState(0, 0))
  BY DEF Init, Sees, FreshState, NoCheckpoint
<1>5. engine = FreshState(0, 0).core.engine
  BY DEF Init, FreshState
<1>6. Idle
  BY <1>1, <1>3, <1>4, <1>5 DEF Idle, Returned, Init
<1>7. CallFits
  BY <1>1 DEF CallFits, CallNames
<1>8. Seated
  <2>1. FreshPlace(job) \in Places /\ FreshStream("train") \in Draws
        /\ FreshParked \in [train : Draws, gen : Draws]
    BY <1>3, RestTyped, StateFields DEF FreshState
  <2> QED BY <2>1 DEF Init, Seated
<1>9. Shaped
  BY <1>1, <1>2, <1>7, <1>8 DEF Shaped, Init
<1> QED BY <1>6, <1>9 DEF Inv

(* It holds after a restart from the last checkpoint. *)
LEMMA JobRestarts ==
  ASSUME Inv, Restart
  PROVE  Inv'
<1>1. Shaped /\ job \in Jobs
  BY DEF Inv, Shaped, CallFits
<1>2. job' = job /\ disk' = disk /\ call' = "none"
      /\ Plan' = << >> /\ Len(Plan') = 0
  BY DEF Restart, Plan
<1>3. PICK v, w : v = disk.saved.version /\ w = disk.saved.draws[Leader]
  OBVIOUS
<1>4. v \in Nat /\ w \in Nat /\ (Supported => w = v)
      /\ \A r \in Ranks : disk.saved.draws[r] = w
  BY <1>1, <1>3, LeaderAssumption DEF Shaped, Checkpoints
<1>5. PICK y : y = FreshState(v, w)
  OBVIOUS
<1>6. y \in AtRest
  BY <1>1, <1>4, <1>5, FreshRests
<1>7. \A r \in Ranks : Sees(r, y)'
  BY <1>2, <1>3, <1>4, <1>5 DEF Restart, Sees, FreshState
<1>8. engine' = y.core.engine
  BY <1>5 DEF Restart, FreshState
<1>9. Idle'
  <2>1. y \in AtRest'
    BY <1>2, <1>6, SameJob
  <2>2. Returned'
    BY <1>2 DEF Returned, Restart
  <2> QED BY <1>7, <1>8, <2>1, <2>2 DEF Idle
<1>10. Seated'
  <2>1. FreshPlace(job) \in Places /\ FreshStream("train") \in Draws
        /\ FreshParked \in [train : Draws, gen : Draws]
    BY <1>5, <1>6, RestTyped, StateFields DEF FreshState
  <2> QED BY <2>1 DEF Restart, Seated
<1>11. Shaped'
  BY <1>1, <1>2, <1>10, SameJob DEF Shaped, CallFits, CallNames, Restart
<1> QED BY <1>9, <1>11 DEF Inv

(* And when nothing changes. *)
LEMMA NothingHappens ==
  ASSUME Inv, UNCHANGED vars
  PROVE  Inv'
<1>1. UNCHANGED <<memoryVars, driverVars>> /\ job' = job /\ call' = call
      /\ disk' = disk
  BY DEF vars, memoryVars, driverVars
<1>2. Shaped'
  BY <1>1, SameJob DEF Inv, Shaped, CallFits, Seated, memoryVars, driverVars
<1>3. CASE Idle
  BY <1>1, <1>2, <1>3, StaysIdle DEF Inv
<1>4. CASE Working
  <2>1. PICK f : Steps(f) /\ Follows(f)
    BY <1>4 DEF Working
  <2>2. Steps(f)' /\ Plan' = Plan
    BY <1>1, <2>1, SameCall
  <2>3. Follows(f)'
    BY <1>1, <2>1, <2>2 DEF Follows, Sees, memoryVars
  <2>4. Abreast'
    BY <1>1, <1>4, <2>2 DEF Working, Abreast, memoryVars
  <2> QED BY <1>2, <2>2, <2>3, <2>4 DEF Working, Inv
<1> QED BY <1>3, <1>4 DEF Inv

(* The ranks follow one run of every call, and are at rest in between.     *)
THEOREM RanksFollow == Spec => []Inv
<1>1. Init => Inv
  BY FirstState
<1>2. Inv /\ [Next]_vars => Inv'
  <2> SUFFICES ASSUME Inv, [Next]_vars
               PROVE  Inv'
    OBVIOUS
  <2>1. CASE Driver
    BY <2>1, ServersStarted, CheckpointCalled, ValidatedBefore, WorkersCalled,
       DriverAlone, TrackerWritten DEF Driver
  <2>2. CASE Workers
    <3>1. CASE (\E r \in Ranks : RankStep(r)) /\ UNCHANGED driverVars
      <4>1. PICK r \in Ranks : RankStep(r)
        BY <3>1
      <4>2. CASE LoadModule(r) \/ OffloadModule(r)
        <5>1. "load" \in {"load", "offload"} /\ "offload" \in {"load", "offload"}
          OBVIOUS
        <5> QED BY <3>1, <4>2, <5>1, ModuleMoves DEF LoadModule, OffloadModule
      <4>3. CASE ReleaseMemory(r) \/ ResumeMemory(r)
        <5>1. /\ "release" \in {"release", "resume"}
              /\ "resume" \in {"release", "resume"}
          OBVIOUS
        <5> QED BY <3>1, <4>3, <5>1, MemoryMoves DEF ReleaseMemory, ResumeMemory
      <4>4. CASE SwapIn(r) \/ SwapOut(r)
        BY <3>1, <4>4, StreamsSwap
      <4> QED BY <4>1, <4>2, <4>3, <4>4 DEF RankStep
    <3>2. CASE Collective /\ UNCHANGED driverVars
      BY <3>2, WeightsUsed, WeightsSynced, AllGenerate, ModelUpdates
         DEF Collective
    <3>3. CASE WriteCheckpoint \/ RestoreCheckpoint
      BY <3>3, CheckpointWritten, CheckpointLoads
    <3> QED BY <2>2, <3>1, <3>2, <3>3 DEF Workers
  <2>3. CASE Restart
    BY <2>3, JobRestarts
  <2>4. CASE Over \/ UNCHANGED vars
    BY <2>4, NothingHappens DEF Over
  <2> QED BY <2>1, <2>2, <2>3, <2>4 DEF Next
<1> QED BY <1>1, <1>2, PTL DEF Spec

-----------------------------------------------------------------------------
(* What follows *)

(* What rank r finds at rest or in a call. *)
LEMMA Found ==
  ASSUME Inv, NEW r \in Ranks
  PROVE  \E x \in Good : Sees(r, x) /\ (r = Leader => engine = x.core.engine)
<1>1. CASE Idle
  BY <1>1, RestTyped, CalmIsGood DEF Idle
<1>2. CASE Working
  <2>1. PICK f : Steps(f) /\ Follows(f)
    BY <1>2 DEF Working
  <2>2. f[pc[r]] \in Good
    BY <2>1 DEF Steps, Run, Follows
  <2> QED BY <2>1, <2>2 DEF Follows
<1> QED BY <1>1, <1>2 DEF Inv

(* What the operation of a rank needs is there when the rank is at it. *)
LEMMA Served ==
  ASSUME Inv, NEW r \in Ranks, pc[r] <= Len(Plan)
  PROVE  \E f : Serves(Plan[pc[r]], f[pc[r]]) /\ Sees(r, f[pc[r]])
<1>1. Shaped /\ Working
  BY Busy
<1>2. PICK f : Steps(f) /\ Follows(f)
  BY <1>1 DEF Working
<1>3. AtOp(f, r, pc[r])
  BY <1>1, <1>2, OpHere
<1> QED BY <1>3 DEF AtOp

(* A module is on the GPU when it is used. *)
LEMMA InvResident == Inv => ResidentWhenUsed
<1> SUFFICES ASSUME Inv, NEW r \in Ranks, pc[r] <= Len(Plan)
             PROVE  /\ Plan[pc[r]][1] \in {"read", "forward", "update", "write"}
                         => place[r][Arg(r)] = "gpu"
                    /\ Plan[pc[r]][1] = "update" =>
                         /\ place[r][OptOf(Arg(r))] # "cpu"
                         /\ place[r][GradOf(Arg(r))] # "cpu"
  BY DEF ResidentWhenUsed, At
<1>1. PICK f : Serves(Plan[pc[r]], f[pc[r]]) /\ Sees(r, f[pc[r]])
  BY Served
<1> QED BY <1>1 DEF Serves, PlaceServes, Sees, Arg

(* The engine has all it needs when it is used. *)
LEMMA InvReady == Inv => (Supported => EngineReady)
<1> SUFFICES ASSUME Inv, Supported
             PROVE  EngineReady
  OBVIOUS
<1>1. ~engine.error
  <2>1. PICK x \in Good : engine = x.core.engine
    BY Found, LeaderAssumption
  <2> QED BY <2>1 DEF Good, Budget
<1>2. ASSUME Together("generate")
      PROVE  /\ engine.awake = Tags /\ engine.version = version
             /\ job.drafter => engine.drafter
  <2>1. PICK f, p, op : Joint(f, p, op) /\ op[1] = "generate"
    BY <1>2, AllHere
  <2>2. AtOp(f, Leader, p) /\ Effect(f, Leader, p, op)
        /\ engine = f[p].core.engine
    BY <2>1, LeaderAssumption DEF Joint
  <2>3. CoreServes(op, f[p].core) /\ version = f[p].core.version
    BY <2>2 DEF AtOp, Effect, Serves, Sees
  <2> QED BY <2>1, <2>2, <2>3 DEF CoreServes
<1> QED BY <1>1, <1>2 DEF EngineReady

(* Training and rollout draw from streams of their own. *)
LEMMA InvStreams == Inv => (Supported => StreamsApart)
<1> SUFFICES ASSUME Inv, Supported
             PROVE  StreamsApart
  OBVIOUS
<1>1. ASSUME NEW name \in {"update", "generate"}, Together(name),
             NEW r \in Ranks
      PROVE  /\ name = "update" => rng[r] = [stream |-> "train",
                                             draws |-> version]
             /\ name = "generate" => rng[r].stream = "gen"
             /\ rng[r] = rng[Leader]
  <2>1. PICK f, p, op : Joint(f, p, op) /\ op[1] = name
    BY <1>1, AllHere
  <2>2. AtOp(f, r, p) /\ Effect(f, r, p, op) /\ AtOp(f, Leader, p)
    BY <2>1, LeaderAssumption DEF Joint
  <2>3. /\ CoreServes(op, f[p].core) /\ version = f[p].core.version
        /\ rng[r] = f[p].core.rng /\ rng[Leader] = f[p].core.rng
    BY <2>2 DEF AtOp, Effect, Serves, Sees
  <2> QED BY <2>1, <2>3 DEF CoreServes
<1>2. "update" \in {"update", "generate"} /\ "generate" \in {"update", "generate"}
  OBVIOUS
<1> QED BY <1>1, <1>2 DEF StreamsApart

(* With the cache there, a call that crosses has crossed on every rank.    *)
LEMMA ActorLeft ==
  ASSUME Inv, NEW r \in Ranks, Supported, job.offParam, job.freeCache,
         Megatron => job.rollout = "vllm", MeetBeforeCache \/ r = Leader,
         ~engine.reload, "kv" \in engine.awake
  PROVE  place[r].actor = "cpu"
<1>1. CASE r = Leader
  <2>1. PICK x \in Good : Sees(r, x) /\ engine = x.core.engine
    BY <1>1, Found
  <2> QED BY <2>1 DEF Good, Budget, NoCache, Sees
<1>2. CASE MeetBeforeCache
  <2>1. \A x \in Calm : engine # x.core.engine
    BY <1>2 DEF Calm, NoCache
  <2>2. Working
    BY <2>1, RestTyped DEF Inv, Idle
  <2>3. PICK f : Steps(f) /\ Follows(f)
    BY <2>2 DEF Working
  <2>4. /\ pc[Leader] \in 1..Len(Plan) + 1 /\ pc[r] \in 1..Len(Plan) + 1
        /\ engine = f[pc[Leader]].core.engine /\ Sees(r, f[pc[r]])
    BY <2>3, LeaderAssumption DEF Follows
  <2>5. f[pc[Leader]] \notin Calm
    BY <2>1, <2>4
  <2>6. PICK b \in 1..Len(Plan) : Crossing(Plan, f, b)
    BY <2>3, <2>4, <2>5 DEF Steps
  <2> DEFINE n == Len(Plan)
  <2>7. n \in Nat
    BY <2>3 DEF Steps
  <2>8. ~(pc[Leader] <= b)
    <3>1. pc[Leader] \notin 1..b
      BY <2>5, <2>6 DEF Crossing
    <3> QED BY <2>4, <3>1
  <2>9. \A q \in Ranks : pc[q] > b
    <3>1. Plan[b][1] \in Meeting
      BY <2>6 DEF Crossing, Meeting
    <3> QED BY <2>2, <2>8, <3>1, LeaderAssumption DEF Working, Abreast
  <2>10. pc[r] \in b + 1..n + 1
    <3>1. pc[r] \in 1..n + 1 /\ pc[r] > b /\ b \in 1..n
      BY <2>4, <2>9
    <3> HIDE DEF n
    <3> QED BY <2>7, <3>1
  <2>11. f[pc[r]] \in Away
    BY <2>6, <2>10 DEF Crossing
  <2> QED BY <2>4, <2>11 DEF Away, Sees
<1> QED BY <1>1, <1>2

(* What is on a GPU together is what there is room for. *)
LEMMA InvBudget == Inv => (Supported => GpuBudget)
<1> SUFFICES ASSUME Inv, Supported
             PROVE  GpuBudget
  OBVIOUS
<1>1. ASSUME job.freeCache, ~engine.reload, Returned
      PROVE  engine.awake = {}
  <2>1. PICK x \in AtRest : engine = x.core.engine
    BY <1>1, AtRestNow DEF Idle
  <2> QED BY <1>1, <2>1 DEF AtRest, States, Rest
<1>2. ASSUME NEW r \in Ranks
      PROVE  /\ job.offOpt /\ place[r].actor_opt = "gpu"
                  => call \in {"update_actor", "load_actor"}
             /\ job.offOpt /\ place[r].critic_opt = "gpu"
                  => call \in {"update_critic", "load_critic"}
             /\ job.offParam /\ place[r].actor_grad = "gpu"
                  => \/ call \in {"update_actor", "save_actor", "load_actor"}
                     \/ call = "generate" /\ job.rollout = "sglang"
  <2>1. PICK x \in Good : Sees(r, x)
    BY Found
  <2> QED BY <2>1 DEF Good, Budget, Sees
<1> QED BY <1>1, <1>2, ActorLeft DEF GpuBudget

(* Whatever is offloaded, restored or skipped, and however far the ranks   *)
(* of a group are apart in a call: what a rank reads, computes with or     *)
(* writes is on its GPU.  Any configuration.                               *)
THEOREM AlwaysResident == Spec => []ResidentWhenUsed
BY RanksFollow, InvResident, PTL

(* A supported engine generates awake, with the weights of the last        *)
(* update, and is never asked for memory it does not have.                 *)
THEOREM AlwaysReady == Spec => [](Supported => EngineReady)
BY RanksFollow, InvReady, PTL

(* In a supported configuration the engine sleeps between calls; optimizer *)
(* state and gradients visit the GPU only for the calls that use them; and *)
(* the actor is gone, on every rank that the ranks' meeting covers, when   *)
(* the cache comes back.                                                   *)
THEOREM AlwaysInBudget == Spec => [](Supported => GpuBudget)
BY RanksFollow, InvBudget, PTL

(* Training and rollout draw from streams of their own, restarts included, *)
(* and the ranks of a group from equal ones.                               *)
THEOREM AlwaysApart == Spec => [](Supported => StreamsApart)
BY RanksFollow, InvStreams, PTL
=============================================================================
