----------------------- MODULE ActivationOffload_proofs -----------------------
(***************************************************************************)
(* Proofs about the offloading of activations: for every model, any saved  *)
(* tensors and any number of micro batches.                                *)
(*                                                                         *)
(* The host alone decides what it does next: where it is gives the fields  *)
(* of the handler (HostInv).  What it has given to the streams is a log;   *)
(* whatever order they run in, the waits in it keep every copy between the *)
(* write it copies and the next one (SafeLog), so memory holds what the    *)
(* log says (Filled).                                                      *)
(***************************************************************************)
EXTENDS ActivationOffload, FiniteSetTheorems, TLAPS

-----------------------------------------------------------------------------
(* The host: k windows have been passed when it is at layer c, going       *)
(* forward or coming back.                                                 *)

Offloading == 0..shape.groups - 1

Passed(k, c) ==
  /\ k \in 0..shape.groups
  /\ \A i \in Offloading : IF i < k THEN Window(i) < c ELSE Window(i) >= c

(* The groups that have saved their tensors when their turn to be          *)
(* offloaded comes.  The others stay on the GPU.                           *)
Early(j) == j = 0 \/ Window(j - 1) >= j

EarlyOnes(S) == {j \in S : Early(j)}

SomeTags(p) == (0..p - 1) \X DOMAIN Saved

Held(p, cpu, back) ==
  [t \in SomeTags(p) |-> IF t[1] \in cpu THEN "cpu"
                         ELSE IF t[1] \in back THEN "reloaded" ELSE "gpu"]

Fields(c, n, tags, buf, known) ==
  [current |-> c, count |-> n, tags |-> tags,
   buf |-> {t \in DOMAIN tags : t[1] \in buf},
   mapping |-> [j \in known |-> IF Early(j) THEN Storage ELSE {}]]

(* Going forward, at layer c with p layers saved; nothing is offloaded     *)
(* before the first layer is.                                              *)
Going(c, p, k) ==
  LET out == IF c = 0 THEN {} ELSE {j \in Offloading : j <= k}
  IN Fields(c, k, Held(p, EarlyOnes(out), {}),
            {j \in Offloading : j >= k}, out)

(* Coming back to layer c, with p layers saved.                            *)
Coming(c, p, k, n) ==
  LET out == {j \in Offloading : j < k}
  IN Fields(c, n, Held(p, EarlyOnes(out), EarlyOnes(Offloading \ out)), {},
            out)

AtLeastOne(k) == IF k = 0 THEN 1 ELSE k

HostAt(g, k) ==
  /\ g \in 0..shape.layers /\ Passed(k, g)
  /\ \/ /\ pass = "forward" /\ g < shape.layers
        /\ handler = Going(g, g, k)
     \/ /\ pass = "commit" /\ g < shape.layers
        /\ handler = Going(g, g + 1, k)
     \/ /\ pass = "return" /\ g > 0
        /\ handler = Coming(g, g, k, AtLeastOne(k))
     \/ /\ pass = "backward" /\ g < shape.layers
        /\ handler = Coming(g, g + 1, k,
                            IF g = 0 THEN 0 ELSE AtLeastOne(k))
     \/ /\ pass = "done" /\ g = 0
        /\ handler = Going(0, 0, k)

HostInv ==
  /\ shape \in Shapes /\ round \in 1..Rounds
  /\ \E g \in 0..shape.layers, k \in 0..shape.groups : HostAt(g, k)

-----------------------------------------------------------------------------
(* The log: what each stream was given so far, run or not, and the micro   *)
(* batch it was given in.                                                  *)

Cell == Group \X Storage

Operation ==
  [op : {"wait"}, on : Stream, upto : Nat]
    \cup [op : {"forward"}, group : Group, round : Nat, takes : SUBSET Cell]
    \cup [op : {"backward"}, group : Group, round : Nat, takes : SUBSET Cell,
          reads : [DOMAIN Saved -> {"gpu", "reloaded"}]]
    \cup [op : {"offload"}, group : Group, keys : SUBSET Storage]
    \cup [op : {"reload"}, group : Group, keys : SUBSET Storage,
          takes : SUBSET Cell]

Work(s) ==
  CASE s = "compute" -> {"forward", "backward", "wait"}
    [] s = "d2h" -> {"offload", "wait"}
    [] s = "h2d" -> {"reload", "wait"}

Entry == [run : Operation, round : Nat]

IsLog(log) ==
  /\ log \in [Stream -> Seq(Entry)]
  /\ \A s \in Stream : \A x \in DOMAIN log[s] : log[s][x].run.op \in Work(s)

Given(log, st) ==
  /\ st \in [queue : [Stream -> Seq(Operation)], issued : [Stream -> Nat]]
  /\ \A s \in Stream :
       /\ st.issued[s] = Len(log[s]) /\ Len(st.queue[s]) <= Len(log[s])
       /\ \A i \in 1..Len(st.queue[s]) :
            st.queue[s][i] = log[s][Len(log[s]) - Len(st.queue[s]) + i].run

(* At x, s waits until the stream on has run its first n operations.       *)
WaitsAt(log, s, x, on, n) ==
  /\ log[s][x].run.op = "wait"
  /\ log[s][x].run.on = on /\ log[s][x].run.upto >= n

(* It has waited for that before x.                                        *)
Waited(log, s, x, on, n) ==
  \E w \in 1..x - 1 : w \in DOMAIN log[s] /\ WaitsAt(log, s, w, on, n)

(* What an operation writes to.                                            *)
Writes(op, m) ==
  \/ op.op = "forward" /\ m[1] = op.group
  \/ op.op \in {"forward", "backward"} /\ m \in op.takes
Copies(op, m) ==
  op.op = "offload" /\ m[1] = op.group /\ m[2] \in op.keys
Fetches(op, m) == op.op = "reload" /\ m[1] = op.group /\ m[2] \in op.keys
Replaces(op, m) ==
  \/ Fetches(op, m)
  \/ op.op = "reload" /\ m \in op.takes

(* A copy is made after the layer wrote what it copies, and what comes     *)
(* next to the layer's memory waits for it.                                *)
Copied(log, o, m) ==
  \E f \in DOMAIN log["compute"] :
    /\ log["compute"][f].run.op = "forward"
    /\ log["compute"][f].run.group = m[1]
    /\ log["compute"][f].run.round = log["d2h"][o].round
    /\ Waited(log, "d2h", o, "compute", f)
    /\ \A x \in DOMAIN log["compute"] :
         x > f /\ Writes(log["compute"][x].run, m)
           => Waited(log, "compute", x, "d2h", o)

(* It is fetched when the computation has seen it done, and the next copy  *)
(* of the group when the computation has seen it fetched.                  *)
Fetched(log, b, m) ==
  \E o \in DOMAIN log["d2h"] :
    /\ Copies(log["d2h"][o].run, m)
    /\ log["d2h"][o].round = log["h2d"][b].round
    /\ \E w \in DOMAIN log["compute"] :
         /\ WaitsAt(log, "compute", w, "d2h", o)
         /\ Waited(log, "h2d", b, "compute", w)
    /\ \A x \in DOMAIN log["d2h"] : x > o /\ Copies(log["d2h"][x].run, m) =>
         \E w \in DOMAIN log["compute"] :
           /\ WaitsAt(log, "compute", w, "h2d", b)
           /\ Waited(log, "d2h", x, "compute", w)

(* A layer's gradients are computed from what its forward pass wrote, or   *)
(* from what was fetched and not yet replaced.                             *)
FromWritten(log, c, m) ==
  \E f \in 1..c - 1 :
    /\ log["compute"][f].run.op = "forward"
    /\ log["compute"][f].run.group = m[1]
    /\ log["compute"][f].run.round = log["compute"][c].run.round
    /\ \A x \in f + 1..c - 1 : ~Writes(log["compute"][x].run, m)
FromFetched(log, c, m) ==
  \E b \in DOMAIN log["h2d"] :
    /\ Fetches(log["h2d"][b].run, m)
    /\ log["h2d"][b].round = log["compute"][c].run.round
    /\ Waited(log, "compute", c, "h2d", b)
    /\ \A x \in DOMAIN log["h2d"] : x > b /\ Replaces(log["h2d"][x].run, m)
         => Waited(log, "h2d", x, "compute", c)

SafeCopies(log) ==
  \A o \in DOMAIN log["d2h"] : \A m \in Cell :
    Copies(log["d2h"][o].run, m) => Copied(log, o, m)
SafeFetches(log) ==
  \A b \in DOMAIN log["h2d"] : \A m \in Cell :
    Fetches(log["h2d"][b].run, m) => Fetched(log, b, m)
Read(log, c) ==
  LET op == log["compute"][c].run
  IN \A i \in DOMAIN Saved :
       IF op.reads[i] = "gpu"
       THEN FromWritten(log, c, <<op.group, Saved[i]>>)
       ELSE FromFetched(log, c, <<op.group, Saved[i]>>)
SafeReads(log) ==
  \A c \in DOMAIN log["compute"] :
    log["compute"][c].run.op = "backward" =>
      log["compute"][c].run.round = log["compute"][c].round /\ Read(log, c)

SafeLog(log) ==
  IsLog(log) /\ SafeCopies(log) /\ SafeFetches(log) /\ SafeReads(log)

-----------------------------------------------------------------------------
(* What the handler knows of the log.                                      *)

End(log, s) == Len(log[s]) + 1

(* A tensor that is still where it was written, and one that still may be. *)
Stays(log, m, r) ==
  \E f \in DOMAIN log["compute"] :
    /\ log["compute"][f].run.op = "forward"
    /\ log["compute"][f].run.group = m[1]
    /\ log["compute"][f].run.round = r
    /\ \A x \in DOMAIN log["compute"] :
         x > f => ~Writes(log["compute"][x].run, m)
Away(log, m, r) ==
  \E o \in DOMAIN log["d2h"] :
    /\ Copies(log["d2h"][o].run, m) /\ log["d2h"][o].round = r
    /\ \A x \in DOMAIN log["d2h"] : x > o => ~Copies(log["d2h"][x].run, m)
Back(log, m, r) ==
  \E b \in DOMAIN log["h2d"] :
    /\ Fetches(log["h2d"][b].run, m) /\ log["h2d"][b].round = r
    /\ \A x \in DOMAIN log["h2d"] : x > b => ~Replaces(log["h2d"][x].run, m)

CellOf(t) == <<t[1], Saved[t[2]]>>

Tracked(log, h, r) ==
  \A t \in DOMAIN h.tags :
    /\ h.tags[t] = "gpu" \/ t \in h.buf => Stays(log, CellOf(t), r)
    /\ h.tags[t] = "cpu" => Away(log, CellOf(t), r)
    /\ h.tags[t] = "reloaded" => Back(log, CellOf(t), r)

(* The computation has waited for every copy, but of what is in buf.       *)
Guarded(log, buf) ==
  \A o \in DOMAIN log["d2h"] : \A m \in Cell :
    Copies(log["d2h"][o].run, m) =>
      \/ Waited(log, "compute", End(log, "compute"), "d2h", o)
      \/ \E t \in buf : CellOf(t) = m

(* The log is that of the streams st, safe, and as the handler h knows it  *)
(* in micro batch r.                                                       *)
Sound(log, st, h, r) ==
  /\ Given(log, st) /\ SafeLog(log)
  /\ Tracked(log, h, r) /\ Guarded(log, h.buf)

(* The computation has waited for whatever was fetched, but possibly group *)
(* k, which was fetched last.                                              *)
Met(log, k) ==
  \A b \in DOMAIN log["h2d"] : log["h2d"][b].run.op = "reload" =>
    \/ Waited(log, "compute", End(log, "compute"), "h2d", b)
    \/ log["h2d"][b].run.group = k

-----------------------------------------------------------------------------
(* The memory, when the streams have run so much of the log.               *)

Ran == [s \in Stream |-> Completed(s)]

FilledGpu(log, n, gpu) ==
  \A m \in Cell, f \in 1..n :
    ( /\ log["compute"][f].run.op = "forward"
      /\ log["compute"][f].run.group = m[1]
      /\ \A x \in f + 1..n : ~Writes(log["compute"][x].run, m) )
    => gpu[m] = log["compute"][f].run.round
FilledPinned(log, n, host) ==
  \A m \in Cell, o \in 1..n :
    ( /\ Copies(log["d2h"][o].run, m)
      /\ \A x \in o + 1..n : ~Copies(log["d2h"][x].run, m) )
    => host[m] = log["d2h"][o].round
FilledBlock(log, n, back) ==
  \A m \in Cell, b \in 1..n :
    ( /\ Fetches(log["h2d"][b].run, m)
      /\ \A x \in b + 1..n : ~Replaces(log["h2d"][x].run, m) )
    => back[m] = log["h2d"][b].round
Obeyed(log, ran) ==
  \A s \in Stream : \A w \in 1..ran[s] :
    log[s][w].run.op = "wait" => ran[log[s][w].run.on] >= log[s][w].run.upto

Filled(log, ran, gpu, host, back) ==
  /\ ran \in [Stream -> Nat]
  /\ \A s \in Stream : 1..ran[s] \subseteq DOMAIN log[s]
  /\ {gpu, host, back} \subseteq [Cell -> Nat]
  /\ Obeyed(log, ran)
  /\ FilledGpu(log, ran["compute"], gpu)
  /\ FilledPinned(log, ran["d2h"], host)
  /\ FilledBlock(log, ran["h2d"], back)

Unmet(k) == IF pass \in {"return", "backward"} THEN k ELSE -1

LogInv(log) ==
  /\ Sound(log, streams, handler, round)
  /\ \E g \in 0..shape.layers, k \in 0..shape.groups :
       HostAt(g, k) /\ Met(log, IF g = 0 THEN -1 ELSE Unmet(k))
  /\ Filled(log, Ran, hbm, pinned, block)


-----------------------------------------------------------------------------
(* The windows *)

(* A remainder completes a quotient.                                       *)
LEMMA Division ==
  ASSUME NEW l \in Nat, NEW g \in Nat, g > 0
  PROVE  /\ l \div g \in Nat /\ l % g \in 0..g - 1
         /\ l = (l \div g) * g + (l % g)
         /\ g <= l => l \div g >= 1
<1>1. l \div g \in Int /\ l % g \in 0..g - 1
  OBVIOUS
<1>2. l % g = l - (l \div g) * g
  BY SMTT(20)
<1>3. ASSUME NEW q \in Int, NEW r \in 0..g - 1, r = l - q * g
      PROVE  q \in Nat /\ l = q * g + r /\ (g <= l => q >= 1)
  <2>1. l = q * g + r
    BY <1>3
  <2>2. q >= 0
    <3>1. CASE q < 0
      <4>1. q * g <= 0 - g
        BY <3>1
      <4> QED BY <4>1, <2>1
    <3> QED BY <3>1
  <2>3. g <= l => q >= 1
    <3>1. CASE q = 0
      BY <3>1, <2>1
    <3> QED BY <3>1, <2>2
  <2> QED BY <2>1, <2>2, <2>3
<1> QED BY <1>1, <1>2, <1>3

(* What is known of a model: it has layers, and no more groups.            *)
Shaped ==
  /\ shape \in Shapes
  /\ shape.groups \in Nat \ {0} /\ shape.layers \in Nat \ {0}
  /\ shape.groups <= shape.layers

(* Every model of the job has the numbers OffloadAssumption promises. *)
LEMMA ShapedIs == shape \in Shapes => Shaped
BY OffloadAssumption DEF Shaped

(* Windows follow each other, each ends with its group or later, and the   *)
(* last ends with the last layer.                                          *)
LEMMA Windows ==
  ASSUME Shaped
  PROVE  /\ \A i \in Offloading : Window(i) \in 0..shape.layers - 1
                                  /\ Window(i) >= i
         /\ \A i, j \in Offloading : i < j => Window(i) < Window(j)
         /\ Window(shape.groups - 1) = shape.layers - 1
<1> DEFINE q == shape.layers \div shape.groups
           r == shape.layers % shape.groups
<1>1. /\ q \in Nat /\ q >= 1 /\ r \in 0..shape.groups - 1
      /\ shape.layers = q * shape.groups + r
  <2>1. /\ shape.layers \in Nat /\ shape.groups \in Nat /\ shape.groups > 0
        /\ shape.groups <= shape.layers
    BY DEF Shaped
  <2>2. /\ q \in Nat /\ r \in 0..shape.groups - 1
        /\ shape.layers = q * shape.groups + r
        /\ shape.groups <= shape.layers => q >= 1
    BY <2>1, Division, Zenon
  <2> QED BY <2>1, <2>2
<1>2. \A i : Window(i) = q * (i + 1) - 1 + (IF i < r THEN i + 1 ELSE r)
  BY DEF Window
<1> HIDE DEF q, r
<1>3. \A i \in Offloading : Window(i) \in Int /\ Window(i) >= i
  <2> SUFFICES ASSUME NEW i \in Offloading
               PROVE  Window(i) \in Int /\ Window(i) >= i
    OBVIOUS
  <2>1. i \in Nat
    BY DEF Offloading, Shaped
  <2>2. q * (i + 1) \in Nat /\ q * (i + 1) >= i + 1
    BY <1>1, <2>1
  <2> QED BY <1>1, <1>2, <2>1, <2>2
<1>4. \A i, j \in Offloading : i < j => Window(i) < Window(j)
  <2> SUFFICES ASSUME NEW i \in Offloading, NEW j \in Offloading, i < j
               PROVE  Window(i) < Window(j)
    OBVIOUS
  <2>1. i \in Nat /\ j \in Nat
    BY DEF Offloading, Shaped
  <2>2. /\ q * (i + 1) \in Nat /\ q * (j + 1) \in Nat
        /\ q * (i + 1) + 1 <= q * (j + 1)
    BY <1>1, <2>1
  <2> QED BY <1>1, <1>2, <2>1, <2>2
<1>5. Window(shape.groups - 1) = shape.layers - 1
  <2>1. q * (shape.groups - 1 + 1) = q * shape.groups
    BY DEF Shaped
  <2>2. q * shape.groups \in Nat
    BY <1>1 DEF Shaped
  <2> QED BY <1>1, <1>2, <2>1, <2>2 DEF Shaped
<1>6. \A i \in Offloading : Window(i) <= shape.layers - 1
  <2> SUFFICES ASSUME NEW i \in Offloading PROVE Window(i) <= shape.layers - 1
    OBVIOUS
  <2>1. shape.groups - 1 \in Offloading
    BY DEF Offloading, Shaped
  <2>2. i = shape.groups - 1 \/ i < shape.groups - 1
    BY DEF Offloading, Shaped
  <2>3. Window(i) \in Int /\ shape.layers \in Int
    BY <1>3 DEF Shaped
  <2> QED BY <1>4, <1>5, <2>1, <2>2, <2>3
<1>7. \A i \in Offloading : i \in Nat
  BY DEF Offloading, Shaped
<1> QED
  <2>1. \A i \in Offloading : Window(i) \in 0..shape.layers - 1
    BY <1>3, <1>6, <1>7 DEF Shaped
  <2> QED BY <1>3, <1>4, <1>5, <2>1

(* Which windows have been passed one layer on.                            *)
LEMMA PassedOn ==
  ASSUME Shaped, NEW k \in Nat, NEW g \in 0..shape.layers - 1, Passed(k, g)
  PROVE  /\ k < shape.groups
         /\ Passed(IF Window(k) = g THEN k + 1 ELSE k, g + 1)
         /\ Window(k) >= g /\ k <= g
<1> USE DEF Passed
<1>1. k < shape.groups
  <2>1. shape.groups - 1 \in Offloading /\ k \in 0..shape.groups
    BY DEF Offloading, Shaped
  <2>2. CASE k = shape.groups
    <3>1. shape.groups - 1 < k
      BY <2>2 DEF Shaped
    <3>2. Window(shape.groups - 1) < g
      BY <3>1, <2>1
    <3> QED BY <3>2, Windows DEF Shaped
  <2> QED BY <2>1, <2>2 DEF Shaped
<1>2. k \in Offloading /\ Window(k) >= g
  BY <1>1 DEF Offloading, Shaped
<1>3. ASSUME NEW i \in Offloading
      PROVE  IF i < (IF Window(k) = g THEN k + 1 ELSE k)
             THEN Window(i) < g + 1 ELSE Window(i) >= g + 1
  <2>1. i \in Nat /\ Window(i) \in Int /\ Window(k) \in Int /\ g \in Int
    BY <1>2, Windows DEF Offloading, Shaped
  <2>2. CASE i < k
    BY <2>1, <2>2
  <2>3. CASE i = k
    BY <2>1, <2>3, <1>2
  <2>4. CASE i > k
    <3>1. Window(k) < Window(i)
      BY <2>4, <1>2, Windows
    <3> QED BY <2>1, <2>4, <3>1, <1>2
  <2> QED BY <2>1, <2>2, <2>3, <2>4
<1>4. k <= g
  <2>1. CASE k > 0
    <3>1. k - 1 \in Offloading /\ k - 1 < k
      BY <2>1, <1>2 DEF Offloading, Shaped
    <3>2. Window(k - 1) < g /\ Window(k - 1) >= k - 1 /\ Window(k - 1) \in Int
      BY <3>1, Windows
    <3> QED BY <3>2
  <2> QED BY <2>1
<1>5. (IF Window(k) = g THEN k + 1 ELSE k) \in 0..shape.groups
  BY <1>1 DEF Shaped
<1> QED BY <1>1, <1>2, <1>3, <1>4, <1>5

(* And one layer back.                                                     *)
LEMMA PassedBack ==
  ASSUME Shaped, NEW k \in Nat, NEW g \in 0..shape.layers - 1, Passed(k, g + 1)
  PROVE  IF k > 0 /\ Window(k - 1) = g THEN Passed(k - 1, g) ELSE Passed(k, g)
<1> USE DEF Passed
<1> DEFINE n == IF k > 0 /\ Window(k - 1) = g THEN k - 1 ELSE k
<1>1. k \in 0..shape.groups /\ n \in 0..shape.groups
  BY DEF Shaped
<1>2. ASSUME NEW i \in Offloading
      PROVE  IF i < n THEN Window(i) < g ELSE Window(i) >= g
  <2>1. i \in Nat /\ Window(i) \in Int /\ g \in Int
    BY Windows DEF Offloading, Shaped
  <2>2. CASE i >= k
    BY <2>1, <2>2
  <2>3. CASE i = k - 1
    BY <2>1, <2>3
  <2>4. CASE i < k - 1
    <3>1. k - 1 \in Offloading
      BY <1>1, <2>4, <2>1 DEF Offloading, Shaped
    <3>2. Window(i) < Window(k - 1) /\ Window(k - 1) \in Int
      BY <2>4, <3>1, Windows
    <3>3. Window(k - 1) < g + 1
      BY <3>1, <2>4
    <3> QED BY <2>1, <2>4, <3>2, <3>3
  <2> QED BY <2>1, <2>2, <2>3, <2>4
<1> QED BY <1>1, <1>2

(* No window ends before the first layer. *)
LEMMA PassedFirst ==
  ASSUME Shaped, NEW k \in Nat, Passed(k, 0)
  PROVE  k = 0
<1>1. CASE k > 0
  <2>1. 0 \in Offloading /\ 0 < k
    BY <1>1 DEF Offloading, Shaped
  <2>2. Window(0) < 0 /\ Window(0) \in Nat
    BY <2>1, Windows DEF Passed
  <2> QED BY <2>2
<1> QED BY <1>1

(* Every window has ended after the last layer. *)
LEMMA PassedAll ==
  ASSUME Shaped, NEW k \in Nat, Passed(k, shape.layers)
  PROVE  k = shape.groups
<1>1. CASE k < shape.groups
  <2>1. k \in Offloading
    BY <1>1 DEF Offloading, Shaped
  <2>2. Window(k) >= shape.layers /\ Window(k) \in 0..shape.layers - 1
    BY <2>1, Windows DEF Passed
  <2> QED BY <2>2 DEF Shaped
<1> QED BY <1>1 DEF Passed, Shaped

(* A layer whose group has not been fetched back is not offloaded.         *)
LEMMA NotBehind ==
  ASSUME Shaped, NEW k \in Nat, NEW g \in 0..shape.layers - 1, Passed(k, g)
  PROVE  /\ \A j \in Offloading : j < k => j < g
         /\ k > 0 /\ Early(k) => k < g
<1>1. ASSUME NEW j \in Offloading, j < k PROVE j < g
  <2>1. Window(j) < g /\ Window(j) >= j /\ Window(j) \in Int /\ j \in Int
    BY <1>1, Windows DEF Passed, Offloading, Shaped
  <2> QED BY <2>1
<1>2. ASSUME k > 0, Early(k) PROVE k < g
  <2>1. k - 1 \in Offloading /\ k - 1 < k
    BY <1>2 DEF Passed, Offloading, Shaped
  <2>2. Window(k - 1) < g /\ Window(k - 1) \in Int
    BY <2>1, Windows DEF Passed
  <2>3. Window(k - 1) >= k
    BY <1>2 DEF Early
  <2> QED BY <2>2, <2>3
<1> QED BY <1>1, <1>2

-----------------------------------------------------------------------------
(* What the host does *)

Bundle(h, st) == [h |-> h, st |-> st, ok |-> TRUE]
Names(known) == [j \in known |-> IF Early(j) THEN Storage ELSE {}]
Sets(g) == IF Early(g) THEN Storage ELSE {}

(* The tags of the first p layers, one by one. *)
LEMMA SomeTagsAre ==
  ASSUME NEW p \in Nat
  PROVE  \A t : t \in SomeTags(p) <=> /\ t = <<t[1], t[2]>>
                                      /\ t[1] \in 0..p - 1
                                      /\ t[2] \in DOMAIN Saved
BY DEF SomeTags

(* The fields of the handler, replaced one by one.                         *)
HandlerOf(c, n, tags, buf, mapping) ==
  [current |-> c, count |-> n, tags |-> tags, buf |-> buf,
   mapping |-> mapping]

(* Each field of the handler, and the handler with one of them replaced. *)
LEMMA HandlerFields ==
  ASSUME NEW c, NEW n, NEW tags, NEW buf, NEW mapping, NEW x
  PROVE  LET h == HandlerOf(c, n, tags, buf, mapping)
         IN /\ h.current = c /\ h.count = n /\ h.tags = tags
            /\ h.buf = buf /\ h.mapping = mapping
            /\ [h EXCEPT !.current = x] = HandlerOf(x, n, tags, buf, mapping)
            /\ [h EXCEPT !.count = x] = HandlerOf(c, x, tags, buf, mapping)
            /\ [h EXCEPT !.tags = x] = HandlerOf(c, n, x, buf, mapping)
            /\ [h EXCEPT !.buf = x] = HandlerOf(c, n, tags, x, mapping)
            /\ [h EXCEPT !.mapping = x] = HandlerOf(c, n, tags, buf, x)
BY DEF HandlerOf

(* What a bundle holds, when no assertion has failed. *)
LEMMA BundleFields ==
  ASSUME NEW h, NEW st
  PROVE  /\ Bundle(h, st).h = h
         /\ Bundle(h, st).st = st
         /\ Bundle(h, st).ok = TRUE
BY DEF Bundle

(* A bundle with its handler or its streams replaced. *)
LEMMA BundleExcept ==
  ASSUME NEW h, NEW st, NEW x
  PROVE  /\ [Bundle(h, st) EXCEPT !.h = x] = Bundle(x, st)
         /\ [Bundle(h, st) EXCEPT !.st = x] = Bundle(h, x)
<1> DEFINE ok == TRUE
           m == [h |-> h, st |-> st, ok |-> ok]
<1>1. Bundle(h, st) = m /\ Bundle(x, st) = [h |-> x, st |-> st, ok |-> ok]
  BY DEF Bundle
<1>2. Bundle(h, x) = [h |-> h, st |-> x, ok |-> ok]
  BY DEF Bundle
<1> HIDE DEF ok
<1>3. [m EXCEPT !.h = x] = [h |-> x, st |-> st, ok |-> ok]
  OBVIOUS
<1>4. [m EXCEPT !.st = x] = [h |-> h, st |-> x, ok |-> ok]
  OBVIOUS
<1> HIDE DEF m
<1> QED BY <1>1, <1>2, <1>3, <1>4

(* A group's tensors are copied out: all of them when the group has saved, *)
(* none otherwise.                                                         *)
LEMMA Offloads ==
  ASSUME NEW c, NEW n, NEW p \in Nat, NEW out, NEW held, NEW st,
         NEW g \in Nat, g \notin out, g < p <=> Early(g)
  PROVE  BulkOffload(Bundle(Fields(c, n, Held(p, EarlyOnes(out), {}),
                                   held, out), st), g)
         = Bundle(Fields(c, n, Held(p, EarlyOnes(out \cup {g}), {}),
                         held, out \cup {g}),
                  Issue(st, "d2h", [op |-> "offload", group |-> g,
                                    keys |-> Sets(g)]))
<1> DEFINE old == Held(p, EarlyOnes(out), {})
           new == Held(p, EarlyOnes(out \cup {g}), {})
           buf == {t \in SomeTags(p) : t[1] \in held}
           h == HandlerOf(c, n, old, buf, Names(out))
           m == Bundle(h, st)
           tags == Tags(m, g)
           keys == {Saved[t[2]] : t \in tags}
<1>1. /\ DOMAIN old = SomeTags(p)
      /\ DOMAIN new = SomeTags(p)
      /\ \A t \in SomeTags(p) :
           /\ old[t] = IF t[1] \in EarlyOnes(out) THEN "cpu" ELSE "gpu"
           /\ new[t] = IF t[1] \in EarlyOnes(out \cup {g}) THEN "cpu"
                       ELSE "gpu"
      /\ new = [t \in SomeTags(p) |-> new[t]]
  BY DEF Held
<1>2. /\ Fields(c, n, old, held, out) = h
      /\ Fields(c, n, new, held, out \cup {g})
         = HandlerOf(c, n, new, buf, Names(out \cup {g}))
  BY <1>1 DEF Fields, Names, HandlerOf
<1> HIDE DEF old, new, buf
<1>3. /\ m.h = h /\ m.h.tags = old /\ m.h.mapping = Names(out)
      /\ m.st = st /\ m.ok = TRUE
  BY DEF Bundle, HandlerOf
<1> HIDE DEF h, m
<1>4. /\ \A t \in SomeTags(p) : t \in tags <=> t[1] = g
      /\ tags \subseteq SomeTags(p)
  BY <1>1, <1>3 DEF Tags
<1> HIDE DEF tags
<1>5. \A t \in tags : m.h.tags[t] # "cpu"
  <2>1. \A t \in tags : t \in SomeTags(p) /\ t[1] = g
    BY <1>4
  <2> QED BY <1>1, <1>3, <2>1 DEF EarlyOnes
<1>6. keys = Sets(g)
  <2>1. CASE Early(g)
    <3>1. ASSUME NEW i \in DOMAIN Saved
          PROVE  <<g, i>> \in tags /\ <<g, i>>[2] = i
      <4>1. <<g, i>> \in SomeTags(p) /\ <<g, i>>[1] = g
        BY <2>1, SomeTagsAre
      <4> QED BY <1>4, <4>1
    <3>2. \A t \in tags : t[2] \in DOMAIN Saved
      BY <1>4, SomeTagsAre
    <3> QED BY <2>1, <3>1, <3>2 DEF Sets, Storage
  <2>2. CASE ~Early(g)
    <3>1. \A t \in SomeTags(p) : t[1] # g
      BY <2>2, SomeTagsAre
    <3>2. tags = {}
      BY <1>4, <3>1
    <3> QED BY <2>2, <3>2 DEF Sets
  <2> QED BY <2>1, <2>2
<1>7. new = [t \in SomeTags(p) |-> IF t \in tags THEN "cpu" ELSE old[t]]
  <2>1. ASSUME NEW t \in SomeTags(p)
        PROVE  new[t] = IF t \in tags THEN "cpu" ELSE old[t]
    <3>1. t[1] = g => Early(g)
      BY SomeTagsAre
    <3>2. /\ t[1] = g => new[t] = "cpu"
          /\ t[1] # g => new[t] = old[t]
      BY <1>1, <3>1 DEF EarlyOnes
    <3> QED BY <1>4, <3>2
  <2> QED BY <1>1, <2>1
<1>8. Names(out \cup {g}) = [j \in DOMAIN Names(out) \cup {g} |->
                               IF j = g THEN keys ELSE Names(out)[j]]
  <2> HIDE DEF keys
  <2> QED BY <1>6 DEF Names, Sets
<1>9. BulkOffload(m, g)
      = [h |-> [[m.h EXCEPT
                   !.tags = [t \in DOMAIN m.h.tags |->
                               IF t \in tags THEN "cpu" ELSE m.h.tags[t]]]
                EXCEPT
                  !.mapping = [j \in DOMAIN m.h.mapping \cup {g} |->
                                 IF j = g THEN keys ELSE m.h.mapping[j]]],
         st |-> Issue(m.st, "d2h",
                      [op |-> "offload", group |-> g, keys |-> keys]),
         ok |-> m.ok /\ \A t \in tags : m.h.tags[t] # "cpu"]
  BY DEF BulkOffload, tags
<1>10. [[h EXCEPT !.tags = new] EXCEPT !.mapping = Names(out \cup {g})]
       = Fields(c, n, new, held, out \cup {g})
  <2>1. [h EXCEPT !.tags = new] = HandlerOf(c, n, new, buf, Names(out))
    BY HandlerFields DEF h
  <2>2. [HandlerOf(c, n, new, buf, Names(out)) EXCEPT
           !.mapping = Names(out \cup {g})]
        = HandlerOf(c, n, new, buf, Names(out \cup {g}))
    BY HandlerFields
  <2> QED BY <1>2, <2>1, <2>2
<1> HIDE DEF keys
<1>11. BulkOffload(m, g)
       = Bundle([[h EXCEPT !.tags = new]
                 EXCEPT !.mapping = Names(out \cup {g})],
                Issue(st, "d2h",
                      [op |-> "offload", group |-> g, keys |-> Sets(g)]))
  BY ZenonT(30), <1>1, <1>3, <1>5, <1>6, <1>7, <1>8, <1>9 DEF Bundle
<1> QED BY <1>2, <1>10, <1>11 DEF m, old, new

(* It is fetched back: what has been copied out.                           *)
LEMMA Reloads ==
  ASSUME NEW c, NEW n, NEW p \in Nat, NEW out, NEW st,
         out \subseteq Offloading, NEW g \in out, Shaped
  PROVE  LET before == Fields(c, n, Held(p, EarlyOnes(out),
                                         EarlyOnes(Offloading \ out)),
                              {}, out)
             left == out \ {g}
         IN BulkReload(Bundle(before, st), g)
            = Bundle(Fields(c, n, Held(p, EarlyOnes(left),
                                       EarlyOnes(Offloading \ left)),
                            {}, left),
                     Issue(st, "h2d",
                           [op |-> "reload", group |-> g, keys |-> Sets(g),
                            takes |-> Returned(before)]))
<1> DEFINE left == out \ {g}
           old == Held(p, EarlyOnes(out), EarlyOnes(Offloading \ out))
           new == Held(p, EarlyOnes(left), EarlyOnes(Offloading \ left))
           buf == {t \in SomeTags(p) : t[1] \in {}}
           h == HandlerOf(c, n, old, buf, Names(out))
           m == Bundle(h, st)
           tags == {t \in Tags(m, g) : m.h.tags[t] = "cpu"}
<1>1. /\ DOMAIN old = SomeTags(p)
      /\ DOMAIN new = SomeTags(p)
      /\ \A t \in SomeTags(p) :
           /\ old[t] = IF t[1] \in EarlyOnes(out) THEN "cpu"
                       ELSE IF t[1] \in EarlyOnes(Offloading \ out)
                            THEN "reloaded" ELSE "gpu"
           /\ new[t] = IF t[1] \in EarlyOnes(left) THEN "cpu"
                       ELSE IF t[1] \in EarlyOnes(Offloading \ left)
                            THEN "reloaded" ELSE "gpu"
      /\ new = [t \in SomeTags(p) |-> new[t]]
  BY DEF Held
<1>2. /\ Fields(c, n, old, {}, out) = h
      /\ Fields(c, n, new, {}, left)
         = HandlerOf(c, n, new, buf, Names(left))
  BY <1>1 DEF Fields, Names, HandlerOf
<1> HIDE DEF old, new, buf
<1>3. /\ m.h = h /\ m.h.tags = old /\ m.h.mapping = Names(out)
      /\ m.st = st /\ m.ok = TRUE
  BY DEF Bundle, HandlerOf
<1> HIDE DEF h, m
<1>4. \A t \in SomeTags(p) : t \in tags <=> t[1] = g /\ Early(g)
  BY <1>1, <1>3 DEF Tags, EarlyOnes
<1> HIDE DEF tags
<1>5. /\ g \in DOMAIN m.h.mapping /\ m.h.mapping[g] = Sets(g)
      /\ g < shape.groups
  BY <1>3 DEF Names, Sets, Offloading, Shaped
<1>6. new = [t \in SomeTags(p) |-> IF t \in tags THEN "reloaded" ELSE old[t]]
  <2>1. ASSUME NEW t \in SomeTags(p)
        PROVE  new[t] = IF t \in tags THEN "reloaded" ELSE old[t]
    <3>1. CASE t[1] = g
      <4>1. t[1] \in EarlyOnes(Offloading \ left) <=> Early(g)
        BY <3>1 DEF EarlyOnes
      <4>2. /\ t[1] \notin EarlyOnes(left)
            /\ t[1] \notin EarlyOnes(Offloading \ out)
        BY <3>1 DEF EarlyOnes
      <4>3. t[1] \in EarlyOnes(out) <=> Early(g)
        BY <3>1 DEF EarlyOnes
      <4> QED BY <1>1, <1>4, <3>1, <4>1, <4>2, <4>3
    <3>2. CASE t[1] # g
      <4>1. /\ t[1] \in EarlyOnes(left) <=> t[1] \in EarlyOnes(out)
            /\ t[1] \in EarlyOnes(Offloading \ left)
                 <=> t[1] \in EarlyOnes(Offloading \ out)
        BY <3>2 DEF EarlyOnes
      <4> QED BY <1>1, <1>4, <3>2, <4>1
    <3> QED BY <3>1, <3>2
  <2> QED BY <1>1, <2>1
<1>7. Names(left) = [f \in DOMAIN Names(out) \ {g} |-> Names(out)[f]]
  BY DEF Names
<1>8. BulkReload(m, g)
      = [h |-> [[m.h EXCEPT
                   !.tags = [t \in DOMAIN m.h.tags |->
                               IF t \in tags THEN "reloaded"
                               ELSE m.h.tags[t]]]
                EXCEPT
                  !.mapping = [f \in DOMAIN m.h.mapping \ {g} |->
                                 m.h.mapping[f]]],
         st |-> Issue(m.st, "h2d",
                      [op |-> "reload", group |-> g,
                       keys |-> IF g \in DOMAIN m.h.mapping
                                THEN m.h.mapping[g] ELSE {},
                       takes |-> Returned(m.h)]),
         ok |-> m.ok /\ g < shape.groups /\ g \in DOMAIN m.h.mapping]
  BY DEF BulkReload, tags
<1>9. [[h EXCEPT !.tags = new] EXCEPT !.mapping = Names(left)]
      = Fields(c, n, new, {}, left)
  <2>1. [h EXCEPT !.tags = new] = HandlerOf(c, n, new, buf, Names(out))
    BY HandlerFields DEF h
  <2>2. [HandlerOf(c, n, new, buf, Names(out)) EXCEPT !.mapping = Names(left)]
        = HandlerOf(c, n, new, buf, Names(left))
    BY HandlerFields
  <2> QED BY <1>2, <2>1, <2>2
<1>10. BulkReload(m, g)
       = Bundle([[h EXCEPT !.tags = new] EXCEPT !.mapping = Names(left)],
                Issue(st, "h2d",
                      [op |-> "reload", group |-> g, keys |-> Sets(g),
                       takes |-> Returned(h)]))
  <2>1. [t \in DOMAIN m.h.tags |-> IF t \in tags THEN "reloaded"
                                   ELSE m.h.tags[t]] = new
    BY <1>1, <1>3, <1>6
  <2>2. [f \in DOMAIN m.h.mapping \ {g} |-> m.h.mapping[f]] = Names(left)
    BY <1>3, <1>7
  <2> HIDE DEF left
  <2> QED BY <1>3, <1>5, <1>8, <2>1, <2>2 DEF Bundle
<1> QED BY <1>2, <1>9, <1>10 DEF m, old, new

InBuf(p, S) == {t \in SomeTags(p) : t[1] \in S}
From(k) == {j \in Offloading : j >= k}
UpTo(k) == {j \in Offloading : j <= k}
Before(k) == {j \in Offloading : j < k}

(* The fields that the place of the host gives, named. *)
LEMMA FieldsAre ==
  ASSUME NEW c, NEW n, NEW p, NEW cpu, NEW back, NEW held, NEW out
  PROVE  Fields(c, n, Held(p, cpu, back), held, out)
         = HandlerOf(c, n, Held(p, cpu, back), InBuf(p, held), Names(out))
BY DEF Fields, Held, HandlerOf, InBuf, Names

(* What a commit of the forward pass gives to the streams.                 *)
OffloadOp(g) == [op |-> "offload", group |-> g, keys |-> Sets(g)]
FirstIssued(g, st) ==
  IF g = 0 THEN Issue(WaitStream(st, "d2h", "compute"), "d2h", OffloadOp(0))
  ELSE st
MetIssued(st) == WaitStream(WaitStream(st, "d2h", "compute"), "compute", "d2h")
CommitIssued(g, k, st) ==
  LET first == FirstIssued(g, st)
  IN IF Window(k) # g THEN first
     ELSE IF k < shape.groups - 1
          THEN Issue(MetIssued(first), "d2h", OffloadOp(k + 1))
          ELSE MetIssued(first)

(* synchronize_on_group_commit_forward at layer g: what it leaves in the   *)
(* handler, and what it gives to the streams. No assertion fails.          *)
LEMMA WindowOffloads ==
  ASSUME Shaped, NEW k \in Nat, NEW g \in 0..shape.layers - 1, Passed(k, g),
         NEW st
  PROVE  LET n == IF Window(k) = g THEN k + 1 ELSE k
         IN OffloadWindow(Bundle(Going(g, g + 1, k), st), g)
            = Bundle(Fields(g, n, Held(g + 1, EarlyOnes(UpTo(n)), {}),
                            From(n), UpTo(n)),
                     CommitIssued(g, k, st))
<1> DEFINE out == IF g = 0 THEN {} ELSE UpTo(k)
           p == g + 1
           h0 == Fields(g, k, Held(p, EarlyOnes(out), {}), From(k), out)
           h1 == Fields(g, k, Held(p, EarlyOnes(UpTo(k)), {}), From(k), UpTo(k))
           h2 == Fields(g, k, Held(p, EarlyOnes(UpTo(k)), {}), From(k + 1),
                        UpTo(k))
           h3 == Fields(g, k, Held(p, EarlyOnes(UpTo(k + 1)), {}), From(k + 1),
                        UpTo(k + 1))
           h4 == Fields(g, k + 1, Held(p, EarlyOnes(UpTo(k + 1)), {}),
                        From(k + 1), UpTo(k + 1))
           s0 == WaitStream(st, "d2h", "compute")
           s1 == FirstIssued(g, st)
           s2 == MetIssued(s1)
           s3 == IF k < shape.groups - 1
                 THEN Issue(s2, "d2h", OffloadOp(k + 1)) ELSE s2
           m == Bundle(h0, st)
<1>1. /\ k < shape.groups /\ k <= g /\ g \in Nat /\ p \in Nat
      /\ k < shape.groups - 1 \/ k = shape.groups - 1
  BY PassedOn DEF Shaped
<1>2. Going(g, p, k) = h0
  BY DEF Going, From, UpTo
<1>3. h0.count = k /\ h1.count = k
  BY FieldsAre DEF HandlerOf
<1>4. g = 0 => BulkOffload(Bundle(h0, s0), 0) = Bundle(h1, s1)
  <2> SUFFICES ASSUME g = 0
               PROVE  BulkOffload(Bundle(h0, s0), 0)
                      = Bundle(h1, s1)
    OBVIOUS
  <2>1. k = 0 /\ p = 1 /\ out = {}
    BY <1>1
  <2>2. out \cup {0} = UpTo(k)
    BY <2>1 DEF UpTo, Offloading, Shaped
  <2>3. 0 < p <=> Early(0)
    BY <2>1 DEF Early
  <2>4. 0 \notin out /\ 0 \in Nat
    BY <2>1
  <2>5. s1 = Issue(s0, "d2h", [op |-> "offload", group |-> 0,
                               keys |-> Sets(0)])
    BY DEF FirstIssued, OffloadOp
  <2>6. h1 = Fields(g, k, Held(p, EarlyOnes(out \cup {0}), {}), From(k),
                    out \cup {0})
    BY <2>2
  <2> HIDE DEF out, p, h1, s1, s0
  <2>7. BulkOffload(Bundle(h0, s0), 0)
        = Bundle(Fields(g, k, Held(p, EarlyOnes(out \cup {0}), {}), From(k),
                        out \cup {0}),
                 Issue(s0, "d2h", [op |-> "offload", group |-> 0,
                                   keys |-> Sets(0)]))
    BY <2>3, <2>4, <1>1, Offloads
  <2> QED BY <2>5, <2>6, <2>7
<1>5. g # 0 => h0 = h1 /\ s1 = st
  BY DEF FirstIssued
<1>6. [h1 EXCEPT !.buf = {t \in h1.buf : t[1] # k}] = h2
  <2> DEFINE tags == Held(p, EarlyOnes(UpTo(k)), {})
  <2>1. h1 = HandlerOf(g, k, tags, InBuf(p, From(k)), Names(UpTo(k)))
    BY FieldsAre
  <2>2. h2 = HandlerOf(g, k, tags, InBuf(p, From(k + 1)), Names(UpTo(k)))
    BY FieldsAre
  <2>3. {t \in InBuf(p, From(k)) : t[1] # k} = InBuf(p, From(k + 1))
    BY <1>1 DEF InBuf, From, Offloading, Shaped
  <2> HIDE DEF tags, h1, h2
  <2>4. h1.buf = InBuf(p, From(k))
    BY <2>1 DEF HandlerOf
  <2>5. [h1 EXCEPT !.buf = InBuf(p, From(k + 1))]
        = HandlerOf(g, k, tags, InBuf(p, From(k + 1)), Names(UpTo(k)))
    BY <2>1, HandlerFields
  <2> QED BY <2>2, <2>3, <2>4, <2>5
<1>7. Window(k) = g /\ k < shape.groups - 1 =>
        BulkOffload(Bundle(h2, s2), k + 1) = Bundle(h3, s3)
  <2> SUFFICES ASSUME Window(k) = g, k < shape.groups - 1
               PROVE  BulkOffload(Bundle(h2, s2), k + 1)
                      = Bundle(h3, s3)
    OBVIOUS
  <2>1. UpTo(k) \cup {k + 1} = UpTo(k + 1)
    BY <1>1 DEF UpTo, Offloading, Shaped
  <2>2. k + 1 < p <=> Early(k + 1)
    <3>1. k + 1 - 1 = k /\ k + 1 # 0
      BY <1>1
    <3>2. k + 1 < p <=> g >= k + 1
      BY <1>1
    <3> QED BY <3>1, <3>2 DEF Early
  <2>3. k + 1 \in Nat /\ k + 1 \notin UpTo(k)
    BY <1>1 DEF UpTo
  <2>4. s3 = Issue(s2, "d2h", [op |-> "offload", group |-> k + 1,
                               keys |-> Sets(k + 1)])
    BY DEF OffloadOp
  <2>5. h3 = Fields(g, k, Held(p, EarlyOnes(UpTo(k) \cup {k + 1}), {}),
                    From(k + 1), UpTo(k) \cup {k + 1})
    BY <2>1
  <2> HIDE DEF p, h3, s2, s3
  <2>6. BulkOffload(Bundle(h2, s2), k + 1)
        = Bundle(Fields(g, k, Held(p, EarlyOnes(UpTo(k) \cup {k + 1}), {}),
                        From(k + 1), UpTo(k) \cup {k + 1}),
                 Issue(s2, "d2h", [op |-> "offload", group |-> k + 1,
                                   keys |-> Sets(k + 1)]))
    <3> DEFINE j == k + 1
    <3>1. j < p <=> Early(j)
      BY <2>2
    <3>2. j \in Nat /\ j \notin UpTo(k)
      BY <2>3
    <3> HIDE DEF j
    <3>3. BulkOffload(Bundle(Fields(g, k, Held(p, EarlyOnes(UpTo(k)), {}),
                                    From(k + 1), UpTo(k)), s2), j)
          = Bundle(Fields(g, k, Held(p, EarlyOnes(UpTo(k) \cup {j}), {}),
                          From(k + 1), UpTo(k) \cup {j}),
                   Issue(s2, "d2h", [op |-> "offload", group |-> j,
                                     keys |-> Sets(j)]))
      BY <3>1, <3>2, <1>1, Offloads
    <3> QED BY <3>3 DEF j
  <2> QED BY <2>4, <2>5, <2>6
<1>8. ~(k < shape.groups - 1) => h2 = h3 /\ s2 = s3
  <2> SUFFICES ASSUME ~(k < shape.groups - 1) PROVE h2 = h3 /\ s2 = s3
    OBVIOUS
  <2>1. UpTo(k) = UpTo(k + 1)
    BY <1>1 DEF UpTo, Offloading, Shaped
  <2> QED BY <2>1
<1>9. [h3 EXCEPT !.count = k + 1] = h4
  <2> DEFINE tags == Held(p, EarlyOnes(UpTo(k + 1)), {})
             buf == InBuf(p, From(k + 1))
             names == Names(UpTo(k + 1))
  <2>1. h3 = HandlerOf(g, k, tags, buf, names)
    BY FieldsAre
  <2>2. h4 = HandlerOf(g, k + 1, tags, buf, names)
    BY FieldsAre
  <2> HIDE DEF tags, names, buf, h3, h4
  <2> QED BY <2>1, <2>2, HandlerFields
<1>10. CommitIssued(g, k, st) = IF Window(k) # g THEN s1 ELSE s3
  BY DEF CommitIssued
<1> HIDE DEF out, p, h0, h1, h2, h3, h4, s1, s2, s3
<1>11. /\ m.h = h0 /\ m.st = st
       /\ [m EXCEPT !.st = s0] = Bundle(h0, s0)
  <2>1. m.h = h0
    BY BundleFields
  <2>2. m.st = st
    BY ZenonT(30), BundleFields
  <2>3. [m EXCEPT !.st = s0] = Bundle(h0, s0)
    BY BundleExcept
  <2> QED BY <2>1, <2>2, <2>3
<1> DEFINE first == IF g = 0 THEN BulkOffload([m EXCEPT !.st = s0], 0) ELSE m
<1>12. first = Bundle(h1, s1)
  BY <1>4, <1>5, <1>11
<1> HIDE DEF first
<1>13. MeetD2H(first) = Bundle(h1, s2)
  <2>1. first.st = s1
    BY ZenonT(30), <1>12, BundleFields
  <2>2. [first EXCEPT !.st = s2] = Bundle(h1, s2)
    BY <1>12, BundleExcept
  <2> QED BY <2>1, <2>2 DEF MeetD2H, MetIssued, s2
<1> DEFINE met == MeetD2H(first)
           freed == [met EXCEPT !.h.buf = {t \in @ : t[1] # k}]
<1>14. freed = Bundle(h2, s2)
  <2> HIDE DEF met
  <2>1. met.h = h1
    BY <1>13 DEF met, Bundle
  <2>2. [met EXCEPT !.h = h2] = Bundle(h2, s2)
    BY <1>13, BundleExcept DEF met
  <2>3. freed = [met EXCEPT !.h = [met.h EXCEPT
                                     !.buf = {t \in met.h.buf : t[1] # k}]]
    OBVIOUS
  <2> QED BY <1>6, <2>1, <2>2, <2>3
<1> HIDE DEF freed
<1> DEFINE next == IF k < shape.groups - 1 THEN BulkOffload(freed, k + 1)
                   ELSE freed
<1>15. Window(k) = g => next = Bundle(h3, s3)
  BY <1>1, <1>7, <1>8, <1>14
<1> HIDE DEF next
<1>16. Window(k) = g => [next EXCEPT !.h.count = k + 1]
                        = Bundle(h4, s3)
  <2>1. Window(k) = g => next.h = h3
    BY <1>15 DEF Bundle
  <2>2. Window(k) = g => [next EXCEPT !.h = h4] = Bundle(h4, s3)
    BY <1>15, BundleExcept
  <2>3. [next EXCEPT !.h.count = k + 1]
        = [next EXCEPT !.h = [next.h EXCEPT !.count = k + 1]]
    OBVIOUS
  <2> QED BY <1>9, <2>1, <2>2, <2>3
<1>17. OffloadWindow(m, g)
       = IF Window(k) = g THEN [next EXCEPT !.h.count = k + 1] ELSE first
  <2>1. m.h.count = k /\ ~(k >= shape.groups)
    BY <1>1, <1>3, <1>11 DEF Shaped
  <2>2. OffloadWindow(m, g)
        = IF m.h.count >= shape.groups THEN [first EXCEPT !.ok = FALSE]
          ELSE IF Window(m.h.count) = g
               THEN [(IF m.h.count < shape.groups - 1
                      THEN BulkOffload([MeetD2H(first) EXCEPT
                                          !.h.buf = {t \in @ : t[1] # m.h.count}],
                                       m.h.count + 1)
                      ELSE [MeetD2H(first) EXCEPT
                              !.h.buf = {t \in @ : t[1] # m.h.count}])
                     EXCEPT !.h.count = m.h.count + 1]
               ELSE first
    BY <1>11 DEF OffloadWindow, first
  <2> HIDE DEF m
  <2> QED BY <2>1, <2>2 DEF next, freed
<1>18. OffloadWindow(m, g)
       = Bundle(IF Window(k) = g THEN h4 ELSE h1, CommitIssued(g, k, st))
  BY <1>10, <1>12, <1>16, <1>17
<1> QED BY <1>2, <1>18 DEF p, h1, h4

(* What a commit of the backward pass gives to the streams.                *)
Hit(g, k) == k > 0 /\ Window(k - 1) = g
MetBackIssued(st) ==
  WaitStream(WaitStream(st, "h2d", "compute"), "compute", "h2d")
ReloadOp(g, takes) ==
  [op |-> "reload", group |-> g, keys |-> Sets(g), takes |-> takes]
HitIssued(g, k, st, takes) ==
  IF Hit(g, k) THEN Issue(MetBackIssued(st), "h2d", ReloadOp(k - 1, takes))
  ELSE st
ReturnIssued(g, k, st, takes) ==
  IF g > 0 THEN HitIssued(g, k, st, takes)
  ELSE WaitStream(HitIssued(g, k, st, takes), "compute", "h2d")

(* The same for the fields on the way back. *)
LEMMA ComingAre ==
  ASSUME NEW c, NEW p, NEW k, NEW n
  PROVE  Coming(c, p, k, n)
         = HandlerOf(c, n, Held(p, EarlyOnes(Before(k)),
                                EarlyOnes(Offloading \ Before(k))),
                     InBuf(p, {}), Names(Before(k)))
BY FieldsAre DEF Coming, Before

(* on_group_commit_backward at layer g: what it leaves in the handler, and *)
(* what it gives to the streams. No assertion or lookup fails.             *)
LEMMA WindowReloads ==
  ASSUME Shaped, NEW k \in Nat, NEW g \in 0..shape.layers - 1,
         Passed(k, g + 1), NEW st
  PROVE  LET before == Coming(g, g + 1, k, AtLeastOne(k))
             left == IF Hit(g, k) THEN k - 1 ELSE k
         IN ReloadWindow(Bundle(before, st), g)
            = Bundle(Coming(g, g + 1, left,
                            IF g = 0 THEN 0 ELSE AtLeastOne(left)),
                     ReturnIssued(g, k, st, Returned(before)))
<1> DEFINE n == AtLeastOne(k)
           before == Coming(g, g + 1, k, n)
           left == IF Hit(g, k) THEN k - 1 ELSE k
           h2 == Coming(g, g + 1, k - 1, n)
           h3 == Coming(g, g + 1, left, AtLeastOne(left))
           h4 == Coming(g, g + 1, left, 0)
           s1 == MetBackIssued(st)
           s2 == Issue(s1, "h2d", ReloadOp(k - 1, Returned(before)))
           s3 == HitIssued(g, k, st, Returned(before))
           s4 == WaitStream(s3, "compute", "h2d")
           m == Bundle(before, st)
<1>1. /\ g \in Nat /\ g + 1 \in Nat
      /\ k <= shape.groups /\ shape.groups \in Nat
      /\ shape.groups > 0 /\ n \in 1..shape.groups
  BY DEF Passed, Shaped, AtLeastOne
<1>2. before.count = n
  BY ComingAre DEF HandlerOf
<1>3. Window(n - 1) = g <=> Hit(g, k)
  <2>1. CASE k > 0
    BY <2>1 DEF AtLeastOne, Hit
  <2>2. CASE k = 0
    <3>1. 0 \in Offloading
      BY <1>1 DEF Offloading
    <3>2. Window(0) >= g + 1 /\ Window(0) \in Int
      BY <2>2, <3>1, Windows DEF Passed
    <3> QED BY <1>1, <2>2, <3>2 DEF AtLeastOne, Hit
  <2> QED BY <2>1, <2>2
<1>4. Hit(g, k) => BulkReload(Bundle(before, s1), n - 1) = Bundle(h2, s2)
  <2> SUFFICES ASSUME Hit(g, k)
               PROVE  BulkReload(Bundle(before, s1), n - 1) = Bundle(h2, s2)
    OBVIOUS
  <2>1. k > 0 /\ n - 1 = k - 1
    BY DEF Hit, AtLeastOne
  <2>2. Before(k) \subseteq Offloading /\ k - 1 \in Before(k)
    BY <1>1, <2>1 DEF Before, Offloading
  <2>3. Before(k) \ {k - 1} = Before(k - 1)
    BY <1>1, <2>1 DEF Before, Offloading
  <2>4. before = Fields(g, n, Held(g + 1, EarlyOnes(Before(k)),
                                   EarlyOnes(Offloading \ Before(k))),
                        {}, Before(k))
    BY DEF Coming, Before
  <2>5. h2 = Fields(g, n, Held(g + 1, EarlyOnes(Before(k - 1)),
                               EarlyOnes(Offloading \ Before(k - 1))),
                    {}, Before(k - 1))
    BY DEF Coming, Before
  <2> DEFINE p == g + 1
             i == k - 1
             held == Held(p, EarlyOnes(Before(k)),
                          EarlyOnes(Offloading \ Before(k)))
             old == Fields(g, n, held, {}, Before(k))
  <2>6. p \in Nat /\ i \in Before(k)
    BY <1>1, <2>2
  <2> HIDE DEF p, i, s1
  <2>7. BulkReload(Bundle(old, s1), i)
        = Bundle(Fields(g, n, Held(p, EarlyOnes(Before(k) \ {i}),
                                   EarlyOnes(Offloading \ (Before(k) \ {i}))),
                        {}, Before(k) \ {i}),
                 Issue(s1, "h2d",
                       [op |-> "reload", group |-> i, keys |-> Sets(i),
                        takes |-> Returned(old)]))
    BY <2>2, <2>6, Reloads
  <2>8. old = before
    BY <2>4 DEF p
  <2>9. Fields(g, n, Held(p, EarlyOnes(Before(k) \ {i}),
                          EarlyOnes(Offloading \ (Before(k) \ {i}))),
               {}, Before(k) \ {i}) = h2
    BY <2>3, <2>5 DEF p, i
  <2>10. [op |-> "reload", group |-> i, keys |-> Sets(i),
          takes |-> Returned(before)] = ReloadOp(k - 1, Returned(before))
    BY DEF ReloadOp, i
  <2> HIDE DEF old, before, h2
  <2>11. n - 1 = i
    BY <2>1 DEF i
  <2> QED BY <2>7, <2>8, <2>9, <2>10, <2>11
<1>5. Hit(g, k) => [h2 EXCEPT !.count = IF n > 1 THEN n - 1 ELSE n] = h3
  <2> SUFFICES ASSUME Hit(g, k)
               PROVE  [h2 EXCEPT !.count = IF n > 1 THEN n - 1 ELSE n] = h3
    OBVIOUS
  <2>1. AtLeastOne(k - 1) = IF n > 1 THEN n - 1 ELSE n
    BY DEF Hit, AtLeastOne
  <2> DEFINE tags == Held(g + 1, EarlyOnes(Before(k - 1)),
                          EarlyOnes(Offloading \ Before(k - 1)))
             names == Names(Before(k - 1))
             buf == InBuf(g + 1, {})
             x == IF n > 1 THEN n - 1 ELSE n
  <2>2. h2 = HandlerOf(g, n, tags, buf, names)
    BY ComingAre
  <2>3. h3 = HandlerOf(g, AtLeastOne(k - 1), tags, buf, names)
    BY ComingAre
  <2> HIDE DEF tags, names, buf, h2, h3, n, x
  <2>4. [h2 EXCEPT !.count = x] = HandlerOf(g, x, tags, buf, names)
    BY <2>2, HandlerFields
  <2> QED BY <2>1, <2>3, <2>4 DEF x
<1>6. ~Hit(g, k) => before = h3 /\ s3 = st
  BY DEF HitIssued
<1>7. Hit(g, k) => s3 = s2
  BY DEF HitIssued
<1>8. [h3 EXCEPT !.count = 0] = h4
  <2> DEFINE tags == Held(g + 1, EarlyOnes(Before(left)),
                          EarlyOnes(Offloading \ Before(left)))
             names == Names(Before(left))
             buf == InBuf(g + 1, {})
             x == AtLeastOne(left)
  <2> HIDE DEF left
  <2>1. h3 = HandlerOf(g, x, tags, buf, names)
    BY ComingAre
  <2>2. h4 = HandlerOf(g, 0, tags, buf, names)
    BY ComingAre
  <2> HIDE DEF tags, names, buf, h3, h4, x
  <2> QED BY <2>1, <2>2, HandlerFields
<1>9. /\ ReturnIssued(g, k, st, Returned(before)) = IF g > 0 THEN s3 ELSE s4
      /\ Coming(g, g + 1, left, IF g = 0 THEN 0 ELSE AtLeastOne(left))
         = IF g > 0 THEN h3 ELSE h4
  BY <1>1 DEF ReturnIssued
<1>10. m.h = before /\ m.st = st /\ m.ok = TRUE
  BY DEF Bundle
<1> HIDE DEF n, before, left, h2, h3, h4, s2, s3, m
<1>11. MeetH2D(m) = Bundle(before, s1)
  <2>1. [m EXCEPT !.st = s1] = Bundle(before, s1)
    BY BundleExcept DEF m
  <2> QED BY <1>10, <2>1 DEF MeetH2D, MetBackIssued
<1> HIDE DEF s1
<1> DEFINE next == BulkReload(MeetH2D(m), n - 1)
<1>12. Hit(g, k) => next = Bundle(h2, s2)
  BY <1>4, <1>11
<1> HIDE DEF next
<1>13. Hit(g, k) => [next EXCEPT !.h.count = IF n > 1 THEN n - 1 ELSE n]
                    = Bundle(h3, s2)
  <2> DEFINE x == IF n > 1 THEN n - 1 ELSE n
  <2> HIDE DEF x
  <2>1. Hit(g, k) => next.h = h2
    BY <1>12 DEF Bundle
  <2>2. Hit(g, k) => [next EXCEPT !.h = h3] = Bundle(h3, s2)
    BY <1>12, BundleExcept
  <2>3. [next EXCEPT !.h.count = x]
        = [next EXCEPT !.h = [next.h EXCEPT !.count = x]]
    OBVIOUS
  <2>4. Hit(g, k) => [h2 EXCEPT !.count = x] = h3
    BY <1>5 DEF x
  <2> QED BY <2>1, <2>2, <2>3, <2>4 DEF x
<1>14. [m EXCEPT !.ok = m.ok /\ n \in 1..shape.groups] = m
  <2>1. (m.ok /\ n \in 1..shape.groups) = m.ok
    BY <1>1, <1>10
  <2> QED BY <2>1 DEF m, Bundle
<1> DEFINE hit == IF n \in 1..shape.groups /\ Window(n - 1) = g
                  THEN [next EXCEPT !.h.count = IF n > 1 THEN n - 1 ELSE n]
                  ELSE [m EXCEPT !.ok = m.ok /\ n \in 1..shape.groups]
<1>15. hit = Bundle(h3, s3)
  <2>1. CASE Hit(g, k)
    BY <1>1, <1>3, <1>7, <1>13, <2>1
  <2>2. CASE ~Hit(g, k)
    BY <1>3, <1>6, <1>14, <2>2 DEF m
  <2> QED BY <2>1, <2>2
<1> HIDE DEF hit
<1>16. [hit EXCEPT !.st = s4, !.h.count = 0] = Bundle(h4, s4)
  <2>1. [hit EXCEPT !.st = s4] = Bundle(h3, s4)
    BY <1>15, BundleExcept
  <2>2. Bundle(h3, s4).h = h3
    BY DEF Bundle
  <2>3. [Bundle(h3, s4) EXCEPT !.h = h4] = Bundle(h4, s4)
    BY BundleExcept
  <2>4. [Bundle(h3, s4) EXCEPT !.h.count = 0]
        = [Bundle(h3, s4) EXCEPT !.h = [Bundle(h3, s4).h EXCEPT !.count = 0]]
    OBVIOUS
  <2> HIDE DEF s4
  <2>5. [hit EXCEPT !.st = s4, !.h.count = 0]
        = [[hit EXCEPT !.st = s4] EXCEPT !.h.count = 0]
    OBVIOUS
  <2> QED BY <1>8, <2>1, <2>2, <2>3, <2>4, <2>5
<1>17. ReloadWindow(m, g)
       = IF g > 0 THEN hit ELSE [hit EXCEPT !.st = s4, !.h.count = 0]
  <2>1. m.h.count = n
    BY <1>2, <1>10
  <2>2. hit.st = s3
    BY <1>15 DEF Bundle
  <2>3. ReloadWindow(m, g)
        = LET y == IF m.h.count \in 1..shape.groups
                      /\ Window(m.h.count - 1) = g
                   THEN [BulkReload(MeetH2D(m), m.h.count - 1) EXCEPT
                           !.h.count = IF m.h.count > 1 THEN m.h.count - 1
                                       ELSE m.h.count]
                   ELSE [m EXCEPT !.ok = m.ok
                                         /\ m.h.count \in 1..shape.groups]
          IN IF g > 0 THEN y
             ELSE [y EXCEPT !.st = WaitStream(y.st, "compute", "h2d"),
                            !.h.count = 0]
    BY DEF ReloadWindow
  <2> QED BY <2>1, <2>2, <2>3 DEF hit, next, s4
<1> QED
  <2>1. ReloadWindow(m, g) = IF g > 0 THEN Bundle(h3, s3) ELSE Bundle(h4, s4)
    BY <1>15, <1>16, <1>17
  <2>2. ReloadWindow(m, g)
        = Bundle(IF g > 0 THEN h3 ELSE h4, IF g > 0 THEN s3 ELSE s4)
    BY <2>1
  <2> QED BY <1>9, <2>2 DEF m, before, left, n

(* What depends on the model alone.                                        *)
LEMMA SameModel ==
  ASSUME shape' = shape
  PROVE  /\ \A c, p, k : Going(c, p, k)' = Going(c, p, k)
         /\ \A c, p, k, n : Coming(c, p, k, n)' = Coming(c, p, k, n)
         /\ \A k, c : Passed(k, c)' <=> Passed(k, c)
         /\ Group' = Group /\ Shaped' = Shaped
<1>1. \A i : Window(i)' = Window(i)
  BY DEF Window
<1>2. Offloading' = Offloading /\ Group' = Group /\ Shaped' = Shaped
  BY DEF Offloading, Group, Shaped
<1>3. \A j : Early(j)' <=> Early(j)
  BY <1>1 DEF Early
<1>4. \A k, c : Passed(k, c)' <=> Passed(k, c)
  BY <1>1, <1>2 DEF Passed
<1>5. ASSUME NEW c, NEW p, NEW k
      PROVE  Going(c, p, k)' = Going(c, p, k)
  BY <1>1, <1>2, <1>3 DEF Going, Fields, Held, EarlyOnes
<1>6. ASSUME NEW c, NEW p, NEW k, NEW n
      PROVE  Coming(c, p, k, n)' = Coming(c, p, k, n)
  BY <1>1, <1>2, <1>3 DEF Coming, Fields, Held, EarlyOnes
<1> QED BY <1>2, <1>4, <1>5, <1>6

(* Each step of the host.                                                  *)
ForwardOp(g, h) ==
  [op |-> "forward", group |-> g, round |-> round, takes |-> Dropped(h)]

(* The tags of one layer. *)
LEMMA TagIs == \A g : Tag(g) = {g} \X DOMAIN Saved
BY DEF Tag

(* A layer's forward pass takes the host to its commit; its tags are new. *)
LEMMA Forwards ==
  ASSUME Shaped, NEW g \in 0..shape.layers - 1, NEW k \in Nat, Passed(k, g),
         handler = Going(g, g, k), ForwardLayer
  PROVE  /\ handler' = Going(g, g + 1, k) /\ pass' = "commit"
         /\ streams' = Issue(streams, "compute",
                             ForwardOp(g, Going(g, g + 1, k)))
<1> DEFINE out == IF g = 0 THEN {} ELSE {j \in Offloading : j <= k}
           cpu == EarlyOnes(out)
           old == Held(g, cpu, {})
           new == Held(g + 1, cpu, {})
           names == Names(out)
           h0 == HandlerOf(g, k, old, InBuf(g, From(k)), names)
           h1 == HandlerOf(g, k, new, InBuf(g, From(k)), names)
           h2 == HandlerOf(g, k, new, InBuf(g + 1, From(k)), names)
           more == IF g < shape.groups THEN Tag(g) ELSE {}
<1>1. /\ g \in Nat /\ g + 1 \in Nat /\ k <= g /\ k < shape.groups
      /\ shape.groups \in Nat
  BY PassedOn DEF Shaped
<1>2. Going(g, g, k) = h0 /\ Going(g, g + 1, k) = h2
  BY FieldsAre DEF Going, From
<1>3. g \notin cpu
  <2>1. ASSUME g \in cpu PROVE FALSE
    <3>1. g # 0 /\ g <= k /\ Early(g)
      BY <2>1 DEF EarlyOnes
    <3>2. g = k
      BY <1>1, <3>1
    <3>3. k < g
      BY <3>1, <3>2, <1>1, NotBehind
    <3> QED BY <1>1, <3>2, <3>3
  <2> QED BY <2>1
<1> HIDE DEF out, cpu
<1>4. /\ \A t \in SomeTags(g) : t \notin Tag(g)
      /\ SomeTags(g + 1) = SomeTags(g) \cup Tag(g)
  <2>1. \A t : t \in Tag(g) <=> /\ t = <<t[1], t[2]>> /\ t[1] = g
                                /\ t[2] \in DOMAIN Saved
    BY TagIs
  <2>2. \A i : i \in 0..g + 1 - 1 <=> i \in 0..g - 1 \/ i = g
    BY <1>1
  <2>3. g \notin 0..g - 1
    BY <1>1
  <2>4. \A t \in SomeTags(g) : t \notin Tag(g)
    BY <1>1, <2>1, <2>3, SomeTagsAre
  <2>5. \A t : t \in SomeTags(g + 1) <=> t \in SomeTags(g) \/ t \in Tag(g)
    BY <1>1, <2>1, <2>2, SomeTagsAre
  <2> QED BY <2>4, <2>5
<1>5. [t \in DOMAIN old \cup Tag(g) |-> IF t \in Tag(g) THEN "gpu" ELSE old[t]]
      = new
  <2>1. ASSUME NEW t \in SomeTags(g + 1)
        PROVE  new[t] = IF t \in Tag(g) THEN "gpu" ELSE old[t]
    <3>1. t \in Tag(g) => t[1] = g
      BY TagIs
    <3> QED BY <1>3, <1>4, <3>1 DEF Held
  <2>2. DOMAIN old \cup Tag(g) = SomeTags(g + 1)
    BY <1>4 DEF Held
  <2>3. new = [t \in SomeTags(g + 1) |-> new[t]]
    BY DEF Held
  <2> HIDE DEF old, new
  <2> QED BY <2>1, <2>2, <2>3
<1>6. InBuf(g, From(k)) \cup more = InBuf(g + 1, From(k))
  <2>1. \A t \in Tag(g) : t[1] = g
    BY TagIs
  <2>2. g \in From(k) <=> g < shape.groups
    BY <1>1 DEF From, Offloading
  <2> QED BY <1>4, <2>1, <2>2 DEF InBuf
<1>7. Tag(g) \cap DOMAIN old = {}
  BY <1>4 DEF Held
<1> HIDE DEF old, new, names, more
<1>8. /\ h0.current = g /\ h0.tags = old /\ h0.buf = InBuf(g, From(k))
      /\ h1.buf = InBuf(g, From(k))
  BY DEF HandlerOf
<1>9. [h0 EXCEPT !.tags = new] = h1
  BY HandlerFields
<1>10. [h1 EXCEPT !.buf = InBuf(g + 1, From(k))] = h2
  BY HandlerFields
<1> HIDE DEF h0, h1, h2
<1>11. [h0 EXCEPT
          !.tags = [t \in DOMAIN @ \cup Tag(g) |->
                      IF t \in Tag(g) THEN "gpu" ELSE @[t]],
          !.buf = @ \cup IF g < shape.groups THEN Tag(g) ELSE {}]
       = h2
  <2>1. [h0 EXCEPT
           !.tags = [t \in DOMAIN @ \cup Tag(g) |->
                       IF t \in Tag(g) THEN "gpu" ELSE @[t]],
           !.buf = @ \cup IF g < shape.groups THEN Tag(g) ELSE {}]
        = [[h0 EXCEPT !.tags = [t \in DOMAIN h0.tags \cup Tag(g) |->
                                  IF t \in Tag(g) THEN "gpu"
                                  ELSE h0.tags[t]]]
           EXCEPT !.buf = @ \cup more]
    BY DEF more
  <2>2. [h1 EXCEPT !.buf = @ \cup more] = h2
    BY <1>6, <1>8, <1>10
  <2> QED BY ZenonT(30), <1>5, <1>8, <1>9, <2>1, <2>2
<1>12. handler = h0
  BY <1>2
<1>13. /\ handler' = h2 /\ pass' = "commit"
       /\ streams' = Issue(streams, "compute", ForwardOp(g, h2))
  <2> DEFINE ok == Tag(g) \cap DOMAIN handler.tags = {}
             h == [handler EXCEPT
                     !.tags = [t \in DOMAIN @ \cup Tag(g) |->
                                 IF t \in Tag(g) THEN "gpu" ELSE @[t]],
                     !.buf = @ \cup IF g < shape.groups THEN Tag(g) ELSE {}]
  <2>1. handler.current = g /\ ok
    BY <1>7, <1>8, <1>12
  <2>2. h = h2
    BY <1>11, <1>12
  <2>3. Continue([h |-> h, st |-> Issue(streams, "compute",
                                        [op |-> "forward", group |-> g,
                                         round |-> round,
                                         takes |-> Dropped(h)]),
                  ok |-> ok], "commit")
    BY <2>1 DEF ForwardLayer
  <2> HIDE DEF h, ok
  <2>4. /\ handler' = h /\ pass' = IF ok THEN "commit" ELSE "failed"
        /\ streams' = Issue(streams, "compute",
                            [op |-> "forward", group |-> g, round |-> round,
                             takes |-> Dropped(h)])
    BY <2>3 DEF Continue
  <2> QED BY <2>1, <2>2, <2>4 DEF ForwardOp
<1> QED BY <1>2, <1>13

(* A commit takes the host to the next layer, or to the way back after the *)
(* last one.                                                               *)
LEMMA Commits ==
  ASSUME Shaped, NEW g \in 0..shape.layers - 1, NEW k \in Nat, Passed(k, g),
         handler = Going(g, g + 1, k), CommitForward
  PROVE  LET n == IF Window(k) = g THEN k + 1 ELSE k
         IN /\ IF g + 1 < shape.layers
               THEN handler' = Going(g + 1, g + 1, n) /\ pass' = "forward"
               ELSE /\ handler' = Coming(g + 1, g + 1, n, AtLeastOne(n))
                    /\ pass' = "return"
            /\ streams' = CommitIssued(g, k, streams)
<1> DEFINE n == IF Window(k) = g THEN k + 1 ELSE k
           p == g + 1
           tags == Held(p, EarlyOnes(UpTo(n)), {})
           buf == InBuf(p, From(n))
           names == Names(UpTo(n))
           h1 == HandlerOf(g, n, tags, buf, names)
           h2 == HandlerOf(g + 1, n, tags, buf, names)
           st == CommitIssued(g, k, streams)
           m == OffloadWindow(Now, g)
<1>1. /\ g \in Nat /\ p \in Nat /\ p # 0 /\ shape.groups \in Nat
      /\ shape.groups > 0 /\ Passed(n, g + 1) /\ n \in Nat
      /\ g + 1 <= shape.layers
  BY PassedOn DEF Shaped
<1>2. handler.current = g
  BY FieldsAre DEF Going, HandlerOf
<1>3. Now = Bundle(Going(g, g + 1, k), streams)
  BY DEF Now, Bundle
<1>4. m = Bundle(h1, st)
  <2>1. m = Bundle(Fields(g, n, Held(g + 1, EarlyOnes(UpTo(n)), {}), From(n),
                          UpTo(n)), st)
    BY <1>3, WindowOffloads
  <2>2. Fields(g, n, tags, From(n), UpTo(n)) = h1
    BY FieldsAre
  <2> QED BY <2>1, <2>2
<1>5. g + 1 < shape.layers => Going(g + 1, g + 1, n) = h2
  <2>1. Going(g + 1, g + 1, n)
        = Fields(g + 1, n, Held(p, EarlyOnes(UpTo(n)), {}), From(n), UpTo(n))
    BY <1>1 DEF Going, From, UpTo
  <2>2. Fields(g + 1, n, tags, From(n), UpTo(n)) = h2
    BY FieldsAre
  <2> QED BY <2>1, <2>2
<1>6. ~(g + 1 < shape.layers) => Coming(g + 1, g + 1, n, AtLeastOne(n)) = h2
  <2> SUFFICES ASSUME ~(g + 1 < shape.layers)
               PROVE  Coming(g + 1, g + 1, n, AtLeastOne(n)) = h2
    OBVIOUS
  <2>1. n = shape.groups
    <3>1. g + 1 = shape.layers
      BY <1>1 DEF Shaped
    <3> HIDE DEF n
    <3> QED BY <1>1, <3>1, PassedAll
  <2>2. AtLeastOne(n) = n
    BY <2>1, <1>1 DEF AtLeastOne
  <2>3. UpTo(n) = Before(n) /\ From(n) = {}
    BY <2>1, <1>1 DEF UpTo, Before, From, Offloading
  <2>4. EarlyOnes(Offloading \ Before(n)) = {}
    BY <2>1, <1>1 DEF Before, Offloading, EarlyOnes
  <2>5. Coming(g + 1, g + 1, n, n)
        = HandlerOf(g + 1, n, Held(g + 1, EarlyOnes(Before(n)),
                                   EarlyOnes(Offloading \ Before(n))),
                    InBuf(g + 1, {}), Names(Before(n)))
    <3> HIDE DEF n
    <3> QED BY ComingAre
  <2> HIDE DEF n
  <2> QED BY <2>2, <2>3, <2>4, <2>5
<1> HIDE DEF n, tags, buf, names, st
<1>7. [h1 EXCEPT !.current = g + 1] = h2
  BY HandlerFields
<1> HIDE DEF h1, h2, m
<1>8. [m EXCEPT !.h.current = g + 1] = Bundle(h2, st)
  <2>1. m.h = h1
    BY <1>4 DEF Bundle
  <2>2. [m EXCEPT !.h = h2] = Bundle(h2, st)
    BY <1>4, BundleExcept
  <2>3. [m EXCEPT !.h.current = g + 1]
        = [m EXCEPT !.h = [m.h EXCEPT !.current = g + 1]]
    OBVIOUS
  <2> QED BY <1>7, <2>1, <2>2, <2>3
<1>9. Continue(Bundle(h2, st),
               IF g + 1 < shape.layers THEN "forward" ELSE "return")
  BY <1>2, <1>8 DEF CommitForward, m
<1>10. /\ handler' = h2 /\ streams' = st
       /\ pass' = IF g + 1 < shape.layers THEN "forward" ELSE "return"
  BY <1>9 DEF Continue, Bundle
<1> QED BY <1>5, <1>6, <1>10 DEF st, n

(* Stepping back takes the host to a layer whose tensors are on the GPU. *)
LEMMA Returns ==
  ASSUME Shaped, NEW g \in 0..shape.layers - 1, NEW k \in Nat,
         Passed(k, g + 1),
         handler = Coming(g + 1, g + 1, k, AtLeastOne(k)), CommitBackward
  PROVE  LET left == IF Hit(g, k) THEN k - 1 ELSE k
             before == Coming(g, g + 1, k, AtLeastOne(k))
         IN /\ handler' = Coming(g, g + 1, left,
                                 IF g = 0 THEN 0 ELSE AtLeastOne(left))
            /\ pass' = "backward"
            /\ streams' = ReturnIssued(g, k, streams, Returned(before))
<1> DEFINE n == AtLeastOne(k)
           left == IF Hit(g, k) THEN k - 1 ELSE k
           before == Coming(g, g + 1, k, n)
           h1 == Coming(g, g + 1, left, IF g = 0 THEN 0 ELSE AtLeastOne(left))
           st == ReturnIssued(g, k, streams, Returned(before))
           m == ReloadWindow([Now EXCEPT !.h.current = g], g)
<1>1. g \in Nat /\ g + 1 - 1 = g
  BY DEF Shaped
<1>2. handler.current - 1 = g
  <2>1. handler.current = g + 1
    BY ComingAre DEF HandlerOf
  <2> QED BY <1>1, <2>1
<1>3. [Now EXCEPT !.h.current = g] = Bundle(before, streams)
  <2> DEFINE tags == Held(g + 1, EarlyOnes(Before(k)),
                          EarlyOnes(Offloading \ Before(k)))
             buf == InBuf(g + 1, {})
             names == Names(Before(k))
  <2>1. Now = Bundle(handler, streams)
    BY DEF Now, Bundle
  <2>2. handler = HandlerOf(g + 1, n, tags, buf, names)
    <3> HIDE DEF n
    <3> QED BY ComingAre DEF n
  <2>3. before = HandlerOf(g, n, tags, buf, names)
    <3> HIDE DEF n
    <3> QED BY ComingAre
  <2> HIDE DEF tags, buf, names, before
  <2>4. [handler EXCEPT !.current = g] = before
    BY <2>2, <2>3, HandlerFields
  <2>5. Now.h = handler
    BY <2>1 DEF Bundle
  <2>6. [Now EXCEPT !.h = before] = Bundle(before, streams)
    BY <2>1, BundleExcept
  <2>7. [Now EXCEPT !.h.current = g]
        = [Now EXCEPT !.h = [Now.h EXCEPT !.current = g]]
    OBVIOUS
  <2> QED BY <2>4, <2>5, <2>6, <2>7
<1>4. m = Bundle(h1, st)
  BY <1>3, WindowReloads
<1> HIDE DEF h1, st, m
<1>5. [m EXCEPT !.ok = m.ok /\ g \in Nat] = m
  <2>1. m.ok = TRUE
    BY <1>4 DEF Bundle
  <2>2. (m.ok /\ g \in Nat) = m.ok
    BY <1>1, <2>1
  <2> QED BY <1>4, <2>2 DEF Bundle
<1>6. Continue([m EXCEPT !.ok = m.ok /\ g \in Nat], "backward")
  <2>1. (m.ok /\ g >= 0) = (m.ok /\ g \in Nat)
    BY <1>1
  <2> QED BY <1>2, <2>1 DEF CommitBackward, m
<1>7. handler' = h1 /\ streams' = st /\ pass' = "backward"
  BY <1>4, <1>5, <1>6 DEF Continue, Bundle
<1> QED BY <1>7 DEF h1, st

(* Where the tensors of a layer are when its gradients are computed.       *)
Found(g, k) ==
  IF g \in EarlyOnes(Offloading \ Before(k)) THEN "reloaded" ELSE "gpu"
BackwardOp(g, k) ==
  [op |-> "backward", group |-> g, round |-> round,
   takes |-> Dropped(handler), reads |-> [i \in DOMAIN Saved |-> Found(g, k)]]

(* A layer's backward pass finds every tensor, and takes the host to the   *)
(* layer before.                                                           *)
LEMMA Backwards ==
  ASSUME Shaped, NEW g \in 0..shape.layers - 1, NEW k \in Nat, NEW n,
         Passed(k, g), handler = Coming(g, g + 1, k, n), BackwardLayer
  PROVE  /\ handler' = Coming(g, g, k, n)
         /\ pass' = IF g > 0 THEN "return"
                    ELSE IF round < Rounds THEN "forward" ELSE "done"
         /\ streams' = Issue(streams, "compute", BackwardOp(g, k))
<1> DEFINE cpu == EarlyOnes(Before(k))
           back == EarlyOnes(Offloading \ Before(k))
           old == Held(g + 1, cpu, back)
           new == Held(g, cpu, back)
           names == Names(Before(k))
           h0 == HandlerOf(g, n, old, InBuf(g + 1, {}), names)
           h1 == HandlerOf(g, n, new, InBuf(g + 1, {}), names)
           h2 == HandlerOf(g, n, new, InBuf(g, {}), names)
<1>1. g \in Nat /\ g + 1 \in Nat
  BY DEF Shaped
<1>2. Coming(g, g + 1, k, n) = h0 /\ Coming(g, g, k, n) = h2
  BY ComingAre
<1>3. g \notin cpu
  <2>1. ASSUME g \in cpu PROVE FALSE
    <3>1. g \in Offloading /\ g < k
      BY <2>1 DEF EarlyOnes, Before
    <3>2. g < g
      BY <3>1, NotBehind
    <3> QED BY <1>1, <3>2
  <2> QED BY <2>1
<1>4. /\ \A t \in SomeTags(g) : t \notin Tag(g)
      /\ SomeTags(g + 1) = SomeTags(g) \cup Tag(g)
  <2>1. \A t : t \in Tag(g) <=> /\ t = <<t[1], t[2]>> /\ t[1] = g
                                /\ t[2] \in DOMAIN Saved
    BY TagIs
  <2>2. \A i : i \in 0..g + 1 - 1 <=> i \in 0..g - 1 \/ i = g
    BY <1>1
  <2>3. g \notin 0..g - 1
    BY <1>1
  <2>4. \A t \in SomeTags(g) : t \notin Tag(g)
    BY <1>1, <2>1, <2>3, SomeTagsAre
  <2>5. \A t : t \in SomeTags(g + 1) <=> t \in SomeTags(g) \/ t \in Tag(g)
    BY <1>1, <2>1, <2>2, SomeTagsAre
  <2> QED BY <2>4, <2>5
<1>5. \A t \in Tag(g) : t \in DOMAIN old /\ old[t] = Found(g, k)
  <2> SUFFICES ASSUME NEW t \in Tag(g)
               PROVE  t \in DOMAIN old /\ old[t] = Found(g, k)
    OBVIOUS
  <2>1. t[1] = g /\ t \in SomeTags(g + 1)
    BY <1>4, TagIs
  <2> HIDE DEF cpu
  <2> QED BY <1>3, <2>1 DEF Held, Found
<1>6. [t \in DOMAIN old \ Tag(g) |-> old[t]] = new
  <2>1. DOMAIN old \ Tag(g) = SomeTags(g)
    BY <1>4 DEF Held
  <2>2. \A t \in SomeTags(g) : old[t] = new[t]
    BY <1>4 DEF Held
  <2>3. new = [t \in SomeTags(g) |-> new[t]]
    BY DEF Held
  <2> HIDE DEF old, new
  <2> QED BY <2>1, <2>2, <2>3
<1>7. InBuf(g + 1, {}) \ Tag(g) = InBuf(g, {})
  BY DEF InBuf
<1>8. ASSUME NEW i \in DOMAIN Saved PROVE <<g, i>> \in Tag(g)
  BY TagIs
<1>9. Found(g, k) # "cpu"
  BY DEF Found
<1> HIDE DEF cpu, back, old, new, names
<1>10. h0.current = g /\ h0.tags = old /\ h0.buf = InBuf(g + 1, {})
       /\ h1.buf = InBuf(g + 1, {})
  BY DEF HandlerOf
<1>11. [h0 EXCEPT !.tags = new] = h1
  BY HandlerFields
<1>12. [h1 EXCEPT !.buf = InBuf(g, {})] = h2
  BY HandlerFields
<1>13. handler = h0
  BY <1>2
<1> HIDE DEF h0, h1, h2
<1> DEFINE known == Tag(g) \subseteq DOMAIN handler.tags
           ok == known /\ \A t \in Tag(g) : handler.tags[t] # "cpu"
           reads == IF known THEN [i \in DOMAIN Saved |-> handler.tags[<<g, i>>]]
                    ELSE <<>>
           h == [handler EXCEPT !.tags = [t \in DOMAIN @ \ Tag(g) |-> @[t]],
                                !.buf = @ \ Tag(g)]
           last == IF round < Rounds THEN "forward" ELSE "done"
<1>14. h = h2
  <2>1. h = [[h0 EXCEPT !.tags = [t \in DOMAIN h0.tags \ Tag(g) |-> h0.tags[t]]]
             EXCEPT !.buf = @ \ Tag(g)]
    BY <1>13
  <2>2. [t \in DOMAIN h0.tags \ Tag(g) |-> h0.tags[t]] = new
    BY <1>6, <1>10
  <2>3. h = [h1 EXCEPT !.buf = h1.buf \ Tag(g)]
    BY <1>11, <2>1, <2>2
  <2>4. h1.buf \ Tag(g) = InBuf(g, {})
    BY <1>7, <1>10
  <2> QED BY <1>12, <2>3, <2>4
<1>15. known /\ ok
  BY <1>5, <1>9, <1>10, <1>13
<1>16. reads = [i \in DOMAIN Saved |-> Found(g, k)]
  BY <1>5, <1>8, <1>10, <1>13, <1>15
<1>17. Continue([h |-> h,
                 st |-> Issue(streams, "compute",
                              [op |-> "backward", group |-> g,
                               round |-> round, takes |-> Dropped(handler),
                               reads |-> reads]),
                 ok |-> ok],
                IF g > 0 THEN "return" ELSE last)
  <2>1. handler.current = g
    BY <1>10, <1>13
  <2> QED BY ZenonT(30), <2>1 DEF BackwardLayer
<1> HIDE DEF h, ok, reads, known
<1>18. /\ handler' = h /\ pass' = IF ok THEN (IF g > 0 THEN "return" ELSE last)
                                  ELSE "failed"
       /\ streams' = Issue(streams, "compute",
                           [op |-> "backward", group |-> g, round |-> round,
                            takes |-> Dropped(handler), reads |-> reads])
  BY <1>17 DEF Continue
<1> QED BY <1>2, <1>14, <1>15, <1>16, <1>18 DEF BackwardOp

(* Where the host is after each step.                                      *)
LEMMA ForwardGoes ==
  ASSUME Shaped, NEW g \in 0..shape.layers, NEW k \in Nat,
         HostAt(g, k), ForwardLayer
  PROVE  HostAt(g, k)'
<1>1. /\ g \in 0..shape.layers - 1 /\ Passed(k, g)
      /\ handler = Going(g, g, k) /\ g < shape.layers /\ shape' = shape
  BY DEF HostAt, ForwardLayer, Shaped
<1>2. handler' = Going(g, g + 1, k) /\ pass' = "commit"
  BY <1>1, Forwards
<1>3. handler' = Going(g, g + 1, k)' /\ Passed(k, g)'
  BY <1>1, <1>2, SameModel
<1> QED BY <1>1, <1>2, <1>3 DEF HostAt

(* After a commit the host is one layer further. *)
LEMMA CommitGoes ==
  ASSUME Shaped, NEW g \in 0..shape.layers, NEW k \in Nat,
         HostAt(g, k), CommitForward
  PROVE  /\ g + 1 \in 0..shape.layers
         /\ \E n \in Nat : /\ n = IF Window(k) = g THEN k + 1 ELSE k
                          /\ HostAt(g + 1, n)'
<1> PICK n : n = IF Window(k) = g THEN k + 1 ELSE k
  OBVIOUS
<1>1. /\ g \in 0..shape.layers - 1 /\ Passed(k, g)
      /\ handler = Going(g, g + 1, k) /\ g < shape.layers /\ shape' = shape
  BY DEF HostAt, CommitForward, Shaped
<1>2. Passed(n, g + 1)
  BY <1>1, PassedOn
<1>3. /\ IF g + 1 < shape.layers
         THEN handler' = Going(g + 1, g + 1, n) /\ pass' = "forward"
         ELSE /\ handler' = Coming(g + 1, g + 1, n, AtLeastOne(n))
              /\ pass' = "return"
  BY <1>1, Commits
<1>4. /\ Passed(n, g + 1)'
      /\ Going(g + 1, g + 1, n)' = Going(g + 1, g + 1, n)
      /\ Coming(g + 1, g + 1, n, AtLeastOne(n))'
         = Coming(g + 1, g + 1, n, AtLeastOne(n))
  BY <1>1, <1>2, SameModel
<1>5. g + 1 \in 0..shape.layers /\ g + 1 > 0 /\ n \in Nat
  BY <1>1 DEF Shaped
<1>6. HostAt(g + 1, n)'
  BY <1>1, <1>3, <1>4, <1>5 DEF HostAt
<1> QED BY <1>5, <1>6

(* After stepping back it is one layer nearer to the first. *)
LEMMA ReturnGoes ==
  ASSUME Shaped, NEW g \in 0..shape.layers, NEW k \in Nat,
         HostAt(g, k), CommitBackward
  PROVE  /\ g - 1 \in 0..shape.layers - 1
         /\ \E n \in Nat : /\ n = IF Hit(g - 1, k) THEN k - 1 ELSE k
                          /\ HostAt(g - 1, n)'
<1> PICK n : n = IF Hit(g - 1, k) THEN k - 1 ELSE k
  OBVIOUS
<1> DEFINE f == g - 1
<1>1. /\ f \in 0..shape.layers - 1 /\ f + 1 = g /\ Passed(k, g)
      /\ handler = Coming(g, g, k, AtLeastOne(k)) /\ shape' = shape
  BY DEF HostAt, CommitBackward, Shaped
<1> HIDE DEF f
<1>2. Passed(n, f)
  BY <1>1, PassedBack DEF Hit, f
<1>3. /\ handler' = Coming(f, f + 1, n, IF f = 0 THEN 0 ELSE AtLeastOne(n))
      /\ pass' = "backward"
  BY <1>1, Returns DEF f
<1>4. n \in Nat
  BY DEF Hit
<1> PICK m : m = IF f = 0 THEN 0 ELSE AtLeastOne(n)
  OBVIOUS
<1>5. Passed(n, f)' /\ handler' = Coming(f, f + 1, n, m)'
  BY <1>1, <1>2, <1>3, SameModel
<1>6. f \in (0..shape.layers)' /\ f < shape'.layers
  BY <1>1 DEF Shaped
<1>7. HostAt(f, n)'
  BY <1>1, <1>3, <1>5, <1>6 DEF HostAt
<1> QED BY <1>1, <1>4, <1>7 DEF f

(* After a layer's backward pass it is still at that layer, and has passed *)
(* no window at the first.                                                 *)
LEMMA BackwardGoes ==
  ASSUME Shaped, NEW g \in 0..shape.layers, NEW k \in Nat,
         HostAt(g, k), BackwardLayer
  PROVE  HostAt(g, k)' /\ (g = 0 => k = 0)
<1> DEFINE n == IF g = 0 THEN 0 ELSE AtLeastOne(k)
<1>1. /\ g \in 0..shape.layers - 1 /\ Passed(k, g) /\ g < shape.layers
      /\ handler = Coming(g, g + 1, k, n) /\ shape' = shape
  BY DEF HostAt, BackwardLayer, Shaped
<1>2. /\ handler' = Coming(g, g, k, n)
      /\ pass' = IF g > 0 THEN "return"
                 ELSE IF round < Rounds THEN "forward" ELSE "done"
  BY <1>1, Backwards
<1>3. Passed(k, g)' /\ Coming(g, g, k, n)' = Coming(g, g, k, n)
      /\ Going(g, g, k)' = Going(g, g, k)
  BY <1>1, SameModel
<1>4. CASE g > 0
  BY <1>1, <1>2, <1>3, <1>4 DEF HostAt
<1>5. CASE g = 0
  <2>1. k = 0
    BY <1>1, <1>5, PassedFirst
  <2>2. Coming(0, 0, 0, 0) = Going(0, 0, 0)
    <3> DEFINE no == Held(0, EarlyOnes({}), {})
    <3>1. Going(0, 0, 0) = HandlerOf(0, 0, no, InBuf(0, From(0)), Names({}))
      BY FieldsAre DEF Going, From
    <3>2. /\ Coming(0, 0, 0, 0)
             = HandlerOf(0, 0, Held(0, EarlyOnes(Before(0)),
                                    EarlyOnes(Offloading \ Before(0))),
                         InBuf(0, {}), Names(Before(0)))
      BY ComingAre
    <3>3. SomeTags(0) = {}
      BY SomeTagsAre
    <3>4. Before(0) = {}
      BY DEF Before, Offloading, Shaped
    <3>5. Held(0, EarlyOnes(Before(0)), EarlyOnes(Offloading \ Before(0))) = no
      BY <3>3 DEF Held
    <3>6. InBuf(0, {}) = InBuf(0, From(0))
      BY <3>3 DEF InBuf
    <3> QED BY <3>1, <3>2, <3>4, <3>5, <3>6
  <2> QED BY <1>1, <1>2, <1>3, <1>5, <2>1, <2>2 DEF HostAt, Shaped
<1> QED BY <1>1, <1>4, <1>5

(* The host starts where the invariant says. *)
LEMMA HostStarts == OffloadInit => HostInv
<1> SUFFICES ASSUME OffloadInit PROVE HostInv
  OBVIOUS
<1>1. Shaped /\ shape \in Shapes
  BY ShapedIs DEF OffloadInit
<1>2. round \in 1..Rounds
  BY OffloadAssumption DEF OffloadInit
<1>3. Passed(0, 0)
  <2>1. \A i \in Offloading : ~(i < 0) /\ Window(i) >= 0
    BY <1>1, Windows DEF Offloading, Shaped
  <2> QED BY <1>1, <2>1 DEF Passed, Shaped
<1>4. handler = Going(0, 0, 0)
  <2> DEFINE no == Held(0, EarlyOnes({}), {})
  <2>1. Going(0, 0, 0) = HandlerOf(0, 0, no, InBuf(0, From(0)), Names({}))
    BY FieldsAre DEF Going, From
  <2>2. SomeTags(0) = {}
    BY SomeTagsAre
  <2>3. no = <<>> /\ InBuf(0, From(0)) = {} /\ Names({}) = <<>>
    BY <2>2 DEF Held, InBuf, Names
  <2> QED BY <2>1, <2>3 DEF OffloadInit, HandlerOf
<1>5. HostAt(0, 0)
  BY <1>1, <1>3, <1>4 DEF HostAt, OffloadInit, Shaped
<1> QED BY <1>1, <1>2, <1>5 DEF HostInv, Shaped

(* A step of a stream changes nothing of the host.                         *)
LEMMA HostWaits ==
  ASSUME UNCHANGED <<shape, pass, handler>>, NEW g, NEW k, HostAt(g, k)
  PROVE  HostAt(g, k)'
BY SameModel DEF HostAt

(* No step takes the host anywhere else. *)
LEMMA HostMoves == HostInv /\ [OffloadNext]_offloadVars => HostInv'
<1> SUFFICES ASSUME HostInv, [OffloadNext]_offloadVars PROVE HostInv'
  OBVIOUS
<1>1. PICK g \in 0..shape.layers, k \in 0..shape.groups : HostAt(g, k)
  BY DEF HostInv
<1>2. Shaped /\ k \in Nat
  BY ShapedIs DEF HostInv, Shaped
<1>3. SUFFICES /\ shape' = shape /\ round' \in 1..Rounds
               /\ \E f \in 0..shape.layers, n \in Nat : HostAt(f, n)'
  BY DEF HostInv, HostAt, Passed
<1>4. CASE ForwardLayer
  BY <1>1, <1>2, <1>4, ForwardGoes DEF ForwardLayer, HostInv
<1>5. CASE CommitForward
  <2>1. \E f \in 0..shape.layers, n \in Nat : HostAt(f, n)'
    BY <1>1, <1>2, <1>5, CommitGoes
  <2> QED BY <1>5, <2>1 DEF CommitForward, HostInv
<1>6. CASE CommitBackward
  <2>1. \E f \in 0..shape.layers - 1, n \in Nat : HostAt(f, n)'
    BY <1>1, <1>2, <1>6, ReturnGoes
  <2> QED BY <1>2, <1>6, <2>1 DEF CommitBackward, HostInv, Shaped
<1>7. CASE BackwardLayer
  <2>1. HostAt(g, k)'
    BY <1>1, <1>2, <1>7, BackwardGoes
  <2>2. /\ shape' = shape
        /\ round' = round \/ (round' = round + 1 /\ round < Rounds)
    BY <1>7 DEF BackwardLayer
  <2>3. round' \in 1..Rounds
    BY <2>2, OffloadAssumption DEF HostInv
  <2> QED BY <1>2, <2>1, <2>2, <2>3
<1>8. ASSUME UNCHANGED <<shape, round, pass, handler>>
      PROVE  /\ shape' = shape /\ round' \in 1..Rounds
             /\ \E f \in 0..shape.layers, n \in Nat : HostAt(f, n)'
  BY <1>1, <1>2, <1>8, HostWaits DEF HostInv
<1>9. CASE \E s \in Stream : RunStream(s)
  BY <1>8, <1>9 DEF RunStream
<1>10. CASE Drained \/ UNCHANGED offloadVars
  BY <1>8, <1>10 DEF Drained, offloadVars
<1> QED BY <1>4, <1>5, <1>6, <1>7, <1>9, <1>10 DEF OffloadNext

(* Nothing of the handler fails.                                           *)
LEMMA HostGoesOn == HostInv => pass # "failed"
BY DEF HostInv, HostAt

-----------------------------------------------------------------------------
(* How much is in GPU memory                                               *)

(* With a group for each layer but the last, the window of a group ends    *)
(* with the layer after it.                                                *)
LEMMA NarrowWindows ==
  ASSUME Shaped, shape.layers = shape.groups + 1
  PROVE  \A i \in Offloading : Window(i) = i + 1
<1> DEFINE G == shape.groups
           q == (G + 1) \div G
           r == (G + 1) % G
<1>1. G \in Nat /\ G > 0 /\ G + 1 \in Nat /\ G <= G + 1
  BY DEF Shaped
<1>2. /\ q \in Nat /\ r \in 0..G - 1 /\ G + 1 = q * G + r
      /\ G <= G + 1 => q >= 1
  <2> HIDE DEF G
  <2> QED BY <1>1, Division
<1>3. \A i : Window(i) = q * (i + 1) - 1 + (IF i < r THEN i + 1 ELSE r)
  BY DEF Window
<1> SUFFICES ASSUME NEW i \in Offloading PROVE Window(i) = i + 1
  OBVIOUS
<1>4. i \in 0..G - 1 /\ i \in Nat
  BY <1>1 DEF Offloading
<1> HIDE DEF q, r, G
<1>5. CASE q = 1
  <2>1. r = 1
    BY <1>1, <1>2, <1>5
  <2> QED BY <1>3, <1>4, <1>5, <2>1
<1>6. CASE q >= 2
  <2>1. q * G >= 2 * G
    BY <1>1, <1>2, <1>6
  <2>2. G = 1 /\ r = 0
    BY <1>1, <1>2, <2>1
  <2>3. q = 2
    BY <1>2, <2>2
  <2> QED BY <1>3, <1>4, <2>2, <2>3
<1> QED BY <1>2, <1>1, <1>5, <1>6

(* With such a model the host is one layer past the last window, at most. *)
LEMMA NarrowPassed ==
  ASSUME Shaped, shape.layers = shape.groups + 1, NEW g \in 0..shape.layers,
         NEW k \in Nat, Passed(k, g)
  PROVE  g <= k + 1
<1>1. k \in 0..shape.groups /\ g \in Nat
  BY DEF Passed, Shaped
<1>2. CASE k \in Offloading
  <2>1. Window(k) >= g /\ Window(k) = k + 1
    BY <1>1, <1>2, NarrowWindows DEF Passed
  <2> QED BY <1>1, <2>1
<1>3. CASE k \notin Offloading
  <2>1. k = shape.groups
    BY <1>1, <1>3 DEF Offloading, Shaped
  <2> QED BY <1>1, <2>1 DEF Shaped
<1> QED BY <1>2, <1>3

(* Whatever is in GPU memory is of a layer that has saved it, and of no    *)
(* group before the one whose window is open.                              *)
LEMMA OnGpuIs ==
  ASSUME Shaped, shape.layers = shape.groups + 1, NEW g \in 0..shape.layers,
         NEW k \in Nat, HostAt(g, k)
  PROVE  OnGpu \subseteq k..k + 1
<1>1. /\ g \in Nat /\ g <= k + 1 /\ k \in 0..shape.groups
  BY NarrowPassed DEF HostAt, Passed, Shaped
<1>2. \A j \in Offloading : Early(j)
  <2> SUFFICES ASSUME NEW j \in Offloading, j # 0 PROVE Early(j)
    BY DEF Early
  <2>1. j - 1 \in Offloading /\ j \in Nat
    BY DEF Offloading, Shaped
  <2>2. Window(j - 1) = j - 1 + 1
    BY <2>1, NarrowWindows
  <2> QED BY <2>1, <2>2 DEF Early
<1> SUFFICES ASSUME NEW f \in Group, NEW t \in Tag(f),
                    \/ t \in handler.buf
                    \/ t \in DOMAIN handler.tags /\ handler.tags[t] # "cpu"
             PROVE  f \in k..k + 1
  BY DEF OnGpu
<1>3. t[1] = f /\ f \in Nat
  BY TagIs DEF Group, Shaped
<1>4. ASSUME NEW p \in Nat, p <= k + 2, NEW cpu, NEW back,
             handler.tags = Held(p, cpu, back), Before(k) \subseteq cpu,
             handler.buf \subseteq InBuf(p, From(k))
      PROVE  f \in k..k + 1
  <2>1. t \in SomeTags(p)
    BY <1>4 DEF Held, InBuf
  <2>2. f \in 0..p - 1
    BY <1>3, <1>4, <2>1, SomeTagsAre
  <2>3. f >= k
    <3>1. CASE t \in handler.buf
      BY <1>3, <1>4, <3>1 DEF InBuf, From
    <3>2. CASE handler.tags[t] # "cpu"
      <4>1. f \notin cpu
        BY <1>3, <1>4, <2>1, <3>2 DEF Held
      <4>2. f \notin Offloading => f >= shape.groups
        BY <1>3 DEF Offloading, Shaped
      <4> QED BY <1>1, <1>3, <1>4, <4>1, <4>2 DEF Before, Shaped
    <3> QED BY <3>1, <3>2
  <2> QED BY <1>1, <1>4, <2>2, <2>3
<1>5. ASSUME NEW p \in Nat, p <= k + 2, NEW c \in Nat, c = 0 => k = 0,
             handler = Going(c, p, k)
      PROVE  f \in k..k + 1
  <2> DEFINE out == IF c = 0 THEN {} ELSE {j \in Offloading : j <= k}
             cpu == EarlyOnes(out)
  <2>1. handler = HandlerOf(c, k, Held(p, cpu, {}), InBuf(p, From(k)),
                            Names(out))
    BY <1>5, FieldsAre DEF Going, From
  <2>2. /\ handler.tags = Held(p, cpu, {})
        /\ handler.buf = InBuf(p, From(k))
    BY <2>1 DEF HandlerOf
  <2>3. Before(k) \subseteq cpu
    BY <1>1, <1>2, <1>5 DEF Before, EarlyOnes, Offloading, Shaped
  <2> HIDE DEF cpu
  <2> QED BY <1>4, <1>5, <2>2, <2>3
<1>6. ASSUME NEW p \in Nat, p <= k + 2, NEW c, NEW n,
             handler = Coming(c, p, k, n)
      PROVE  f \in k..k + 1
  <2> DEFINE cpu == EarlyOnes(Before(k))
             back == EarlyOnes(Offloading \ Before(k))
  <2>1. handler = HandlerOf(c, n, Held(p, cpu, back), InBuf(p, {}),
                            Names(Before(k)))
    BY <1>6, ComingAre
  <2>2. handler.tags = Held(p, cpu, back) /\ handler.buf = InBuf(p, {})
    BY <2>1 DEF HandlerOf
  <2>3. Before(k) \subseteq cpu
    BY <1>2 DEF Before, EarlyOnes
  <2>4. InBuf(p, {}) \subseteq InBuf(p, From(k))
    BY DEF InBuf
  <2> HIDE DEF cpu, back
  <2> QED BY <1>4, <1>6, <2>2, <2>3, <2>4
<1>7. g = 0 => k = 0
  BY PassedFirst DEF HostAt
<1>8. /\ g + 1 \in Nat /\ g + 1 <= k + 2 /\ g <= k + 2
      /\ 0 \in Nat /\ 0 <= k + 2
  BY <1>1
<1>9. \/ handler = Going(g, g, k)
      \/ handler = Going(g, g + 1, k)
      \/ handler = Coming(g, g, k, AtLeastOne(k))
      \/ handler = Coming(g, g + 1, k, IF g = 0 THEN 0 ELSE AtLeastOne(k))
  BY DEF HostAt
<1> QED BY <1>1, <1>5, <1>6, <1>7, <1>8, <1>9

(* Where the host is, at most two groups are on the GPU. *)
LEMMA TwoGroups == HostInv => TwoGroupsOnGpu
<1> SUFFICES ASSUME HostInv, shape.layers = shape.groups + 1
             PROVE  Cardinality(OnGpu) <= 2
  BY DEF TwoGroupsOnGpu
<1>1. PICK g \in 0..shape.layers, k \in 0..shape.groups : HostAt(g, k)
  BY DEF HostInv
<1>2. Shaped /\ k \in Nat
  BY ShapedIs DEF HostInv, Shaped
<1>3. OnGpu \subseteq k..k + 1
  BY <1>1, <1>2, OnGpuIs
<1>4. IsFiniteSet(k..k + 1) /\ Cardinality(k..k + 1) = 2
  BY <1>2, FS_Interval
<1> QED BY ZenonT(30), <1>3, <1>4, FS_Subset, FS_CardinalityType

(* At most two groups of layers have activations in GPU memory.            *)
THEOREM TwoGroupsAtMost == OffloadSpec => []TwoGroupsOnGpu
<1>1. OffloadInit => HostInv
  BY HostStarts
<1>2. HostInv /\ [OffloadNext]_offloadVars => HostInv'
  BY HostMoves
<1>3. HostInv => TwoGroupsOnGpu
  BY TwoGroups
<1> QED BY <1>1, <1>2, <1>3, PTL DEF OffloadSpec

-----------------------------------------------------------------------------
(* The log grows                                                           *)

Grows(log, log2, s, e) ==
  /\ s \in Stream
  /\ \A u \in Stream :
       /\ End(log, u) \in Nat \ {0} /\ DOMAIN log[u] = 1..End(log, u) - 1
       /\ DOMAIN log2[u] = 1..End(log2, u) - 1
       /\ End(log2, u) = IF u = s THEN End(log, u) + 1 ELSE End(log, u)
       /\ \A x \in DOMAIN log[u] : log2[u][x] = log[u][x]
  /\ log2[s][End(log, s)] = e

EntryOf(op, r) == [run |-> op, round |-> r]
Plus(log, s, op, r) == [log EXCEPT ![s] = Append(@, EntryOf(op, r))]

(* A log with one entry more is a log. *)
LEMMA Growing ==
  ASSUME NEW log, IsLog(log), NEW s \in Stream, NEW op \in Operation,
         op.op \in Work(s), NEW r \in Nat
  PROVE  /\ IsLog(Plus(log, s, op, r))
         /\ Grows(log, Plus(log, s, op, r), s, EntryOf(op, r))
<1> DEFINE log2 == Plus(log, s, op, r)
           e == EntryOf(op, r)
<1>1. /\ log \in [Stream -> Seq(Entry)] /\ e \in Entry /\ e.run = op
      /\ \A u \in Stream : \A x \in DOMAIN log[u] : log[u][x].run.op \in Work(u)
  BY DEF IsLog, Entry, EntryOf
<1> HIDE DEF e
<1>2. /\ log2 \in [Stream -> Seq(Entry)] /\ log2[s] = Append(log[s], e)
      /\ \A u \in Stream : u # s => log2[u] = log[u]
  BY <1>1 DEF Plus, e
<1> HIDE DEF log2
<1>3. \A u \in Stream : /\ Len(log[u]) \in Nat
                        /\ DOMAIN log[u] = 1..Len(log[u])
                        /\ DOMAIN log2[u] = 1..Len(log2[u])
                        /\ log[u] \in Seq(Entry)
  BY <1>1, <1>2
<1>4. /\ Len(log2[s]) = Len(log[s]) + 1
      /\ \A x \in DOMAIN log[s] : log2[s][x] = log[s][x]
      /\ log2[s][Len(log[s]) + 1] = e
  BY <1>1, <1>2, <1>3
<1>5. Grows(log, log2, s, e)
  <2>1. \A u \in Stream : u # s => /\ Len(log2[u]) = Len(log[u])
                                   /\ \A x \in DOMAIN log[u] :
                                        log2[u][x] = log[u][x]
    BY <1>2
  <2>2. \A u \in Stream : /\ End(log, u) = Len(log[u]) + 1
                          /\ End(log2, u) = Len(log2[u]) + 1
                          /\ End(log, u) - 1 = Len(log[u])
                          /\ End(log2, u) - 1 = Len(log2[u])
    <3> SUFFICES ASSUME NEW u \in Stream
                 PROVE  /\ Len(log[u]) + 1 - 1 = Len(log[u])
                        /\ Len(log2[u]) + 1 - 1 = Len(log2[u])
      BY DEF End
    <3>1. Len(log[u]) \in Nat /\ Len(log2[u]) \in Nat
      BY <1>3, <1>4, <2>1
    <3> QED BY <3>1
  <2>3. \A u \in Stream : /\ End(log, u) \in Nat \ {0}
                          /\ DOMAIN log[u] = 1..End(log, u) - 1
                          /\ DOMAIN log2[u] = 1..End(log2, u) - 1
    BY <1>3, <2>2
  <2>4. \A u \in Stream :
          End(log2, u) = IF u = s THEN End(log, u) + 1 ELSE End(log, u)
    BY <1>4, <2>1, <2>2
  <2>5. \A u \in Stream : \A x \in DOMAIN log[u] : log2[u][x] = log[u][x]
    BY <1>4, <2>1
  <2>6. log2[s][End(log, s)] = e
    BY <1>4, <2>2
  <2> QED BY <2>3, <2>4, <2>5, <2>6 DEF Grows
<1>6. IsLog(log2)
  <2>1. ASSUME NEW u \in Stream, NEW x \in DOMAIN log2[u]
        PROVE  log2[u][x].run.op \in Work(u)
    <3>1. CASE x \in DOMAIN log[u]
      BY <1>1, <1>2, <1>4, <3>1
    <3>2. CASE x \notin DOMAIN log[u]
      <4>1. u = s
        BY <1>2, <3>2
      <4>2. x = Len(log[s]) + 1
        BY <1>3, <1>4, <3>2, <4>1
      <4> QED BY <1>1, <1>4, <4>1, <4>2
    <3> QED BY <3>1, <3>2
  <2> QED BY <1>2, <2>1 DEF IsLog
<1> QED BY <1>5, <1>6 DEF log2, e

(* What has been waited for remains so.                                    *)
LEMMA WaitedStays ==
  ASSUME NEW log, NEW log2, NEW s, NEW e, Grows(log, log2, s, e),
         NEW u \in Stream, NEW x \in 1..End(log, u), NEW on, NEW n
  PROVE  Waited(log2, u, x, on, n) <=> Waited(log, u, x, on, n)
<1>1. \A w \in 1..x - 1 : /\ w \in DOMAIN log[u] /\ w \in DOMAIN log2[u]
                          /\ log2[u][w] = log[u][w]
  BY DEF Grows
<1> QED BY <1>1 DEF Waited, WaitsAt

(* What has been waited for stays so further on. *)
LEMMA WaitedLater ==
  ASSUME NEW log, NEW u, NEW x \in Int, NEW y \in Int, x <= y, NEW on, NEW n,
         Waited(log, u, x, on, n)
  PROVE  Waited(log, u, y, on, n)
BY DEF Waited

(* The same for the end of the stream, when it moves on. *)
LEMMA WaitedAtEnd ==
  ASSUME NEW log, NEW log2, NEW s, NEW e, Grows(log, log2, s, e),
         NEW u \in Stream, NEW on, NEW n, Waited(log, u, End(log, u), on, n)
  PROVE  Waited(log2, u, End(log2, u), on, n)
<1>1. /\ End(log, u) \in 1..End(log, u) /\ End(log, u) \in Int
      /\ End(log2, u) \in Int /\ End(log, u) <= End(log2, u)
  BY DEF Grows
<1>2. Waited(log2, u, End(log, u), on, n)
  BY <1>1, WaitedStays
<1> QED BY <1>1, <1>2, WaitedLater

(* A wait on the log stays there. *)
LEMMA WaitsStay ==
  ASSUME NEW log, NEW log2, NEW s, NEW e, Grows(log, log2, s, e),
         NEW u \in Stream, NEW x \in DOMAIN log[u], NEW on, NEW n
  PROVE  /\ x \in DOMAIN log2[u] /\ x \in 1..End(log, u)
         /\ WaitsAt(log2, u, x, on, n) <=> WaitsAt(log, u, x, on, n)
BY DEF Grows, WaitsAt

(* What comes to be known of the last one.                                 *)
LEMMA LastOf ==
  ASSUME NEW log, NEW log2, NEW s, NEW e, Grows(log, log2, s, e),
         NEW u \in Stream, NEW x \in DOMAIN log2[u]
  PROVE  IF u = s /\ x = End(log, s) THEN log2[u][x] = e
         ELSE x \in DOMAIN log[u] /\ log2[u][x] = log[u][x]
BY DEF Grows

(* The three streams. *)
LEMMA StreamsAre == /\ "compute" \in Stream /\ "d2h" \in Stream
                    /\ "h2d" \in Stream
BY DEF Stream

(* A copy stays in its place, when the entry waits for it before it writes *)
(* over what it copies.                                                    *)
LEMMA CopiedStays ==
  ASSUME NEW log, NEW log2, NEW s, NEW e, Grows(log, log2, s, e),
         NEW o \in DOMAIN log["d2h"], NEW m, Copied(log, o, m),
         s = "compute" /\ Writes(e.run, m) =>
           Waited(log, "compute", End(log, "compute"), "d2h", o)
  PROVE  Copied(log2, o, m)
<1>1. PICK f \in DOMAIN log["compute"] :
        /\ log["compute"][f].run.op = "forward"
        /\ log["compute"][f].run.group = m[1]
        /\ log["compute"][f].run.round = log["d2h"][o].round
        /\ Waited(log, "d2h", o, "compute", f)
        /\ \A x \in DOMAIN log["compute"] :
             x > f /\ Writes(log["compute"][x].run, m)
               => Waited(log, "compute", x, "d2h", o)
  BY DEF Copied
<1>2. /\ f \in DOMAIN log2["compute"] /\ log2["compute"][f] = log["compute"][f]
      /\ log2["d2h"][o] = log["d2h"][o] /\ o \in 1..End(log, "d2h")
  BY StreamsAre DEF Grows
<1>3. Waited(log2, "d2h", o, "compute", f)
  BY <1>1, <1>2, StreamsAre, WaitedStays
<1>4. ASSUME NEW x \in DOMAIN log2["compute"], x > f,
             Writes(log2["compute"][x].run, m)
      PROVE  Waited(log2, "compute", x, "d2h", o)
  <2>1. CASE s = "compute" /\ x = End(log, "compute")
    <3>1. log2["compute"][x] = e /\ x \in 1..End(log, "compute")
      BY <2>1, StreamsAre DEF Grows
    <3>2. Waited(log, "compute", x, "d2h", o)
      BY <1>4, <2>1, <3>1
    <3> QED BY <3>1, <3>2, StreamsAre, WaitedStays
  <2>2. CASE ~(s = "compute" /\ x = End(log, "compute"))
    <3>1. x \in DOMAIN log["compute"] /\ log2["compute"][x] = log["compute"][x]
      BY <2>2, LastOf, StreamsAre
    <3>2. x \in 1..End(log, "compute")
      BY SMTT(30), <3>1, StreamsAre DEF Grows
    <3>3. Waited(log, "compute", x, "d2h", o)
      BY <1>1, <1>4, <3>1
    <3> QED BY <3>2, <3>3, StreamsAre, WaitedStays
  <2> QED BY <2>1, <2>2
<1> QED BY <1>1, <1>2, <1>3, <1>4 DEF Copied

(* A fetch stays in its place, when the next copy of what it fetches comes *)
(* after the computation has seen it done.                                 *)
LEMMA FetchedStays ==
  ASSUME NEW log, NEW log2, NEW s, NEW e, Grows(log, log2, s, e),
         NEW b \in DOMAIN log["h2d"], NEW m, Fetched(log, b, m),
         s = "d2h" /\ Copies(e.run, m) =>
           \E w \in DOMAIN log["compute"] :
             /\ WaitsAt(log, "compute", w, "h2d", b)
             /\ Waited(log, "d2h", End(log, "d2h"), "compute", w)
  PROVE  Fetched(log2, b, m)
<1>1. PICK o \in DOMAIN log["d2h"] :
        /\ Copies(log["d2h"][o].run, m)
        /\ log["d2h"][o].round = log["h2d"][b].round
        /\ \E w \in DOMAIN log["compute"] :
             /\ WaitsAt(log, "compute", w, "d2h", o)
             /\ Waited(log, "h2d", b, "compute", w)
        /\ \A x \in DOMAIN log["d2h"] :
             x > o /\ Copies(log["d2h"][x].run, m) =>
               \E w \in DOMAIN log["compute"] :
                 /\ WaitsAt(log, "compute", w, "h2d", b)
                 /\ Waited(log, "d2h", x, "compute", w)
  BY DEF Fetched
<1>2. PICK v \in DOMAIN log["compute"] :
        /\ WaitsAt(log, "compute", v, "d2h", o)
        /\ Waited(log, "h2d", b, "compute", v)
  BY <1>1
<1>3. /\ o \in DOMAIN log2["d2h"] /\ log2["d2h"][o] = log["d2h"][o]
      /\ log2["h2d"][b] = log["h2d"][b] /\ b \in 1..End(log, "h2d")
  BY SMTT(30), StreamsAre DEF Grows
<1>4. v \in DOMAIN log2["compute"] /\ WaitsAt(log2, "compute", v, "d2h", o)
  BY <1>2, StreamsAre, WaitsStay
<1>5. Waited(log2, "h2d", b, "compute", v)
  BY <1>2, <1>3, StreamsAre, WaitedStays
<1>6. ASSUME NEW x \in DOMAIN log2["d2h"], x > o,
             Copies(log2["d2h"][x].run, m)
      PROVE  \E w \in DOMAIN log2["compute"] :
               /\ WaitsAt(log2, "compute", w, "h2d", b)
               /\ Waited(log2, "d2h", x, "compute", w)
  <2>1. x \in 1..End(log, "d2h")
        /\ \E w \in DOMAIN log["compute"] :
             /\ WaitsAt(log, "compute", w, "h2d", b)
             /\ Waited(log, "d2h", x, "compute", w)
    <3>1. CASE s = "d2h" /\ x = End(log, "d2h")
      <4>1. log2["d2h"][x] = e /\ x \in 1..End(log, "d2h")
        BY <3>1, StreamsAre DEF Grows
      <4> QED BY <1>6, <3>1, <4>1
    <3>2. CASE ~(s = "d2h" /\ x = End(log, "d2h"))
      <4>1. x \in DOMAIN log["d2h"] /\ log2["d2h"][x] = log["d2h"][x]
        BY <3>2, LastOf, StreamsAre
      <4>2. x \in 1..End(log, "d2h")
        BY SMTT(30), <4>1, StreamsAre DEF Grows
      <4> QED BY <1>1, <1>6, <4>1, <4>2
    <3> QED BY <3>1, <3>2
  <2>2. PICK w \in DOMAIN log["compute"] :
          /\ WaitsAt(log, "compute", w, "h2d", b)
          /\ Waited(log, "d2h", x, "compute", w)
    BY <2>1
  <2>3. w \in DOMAIN log2["compute"] /\ WaitsAt(log2, "compute", w, "h2d", b)
    BY <2>2, StreamsAre, WaitsStay
  <2>4. Waited(log2, "d2h", x, "compute", w)
    BY <2>1, <2>2, StreamsAre, WaitedStays
  <2> QED BY <2>3, <2>4
<1> QED BY <1>1, <1>3, <1>4, <1>5, <1>6 DEF Fetched

(* So does a read, when the next fetch waits for it. *)
LEMMA ReadStays ==
  ASSUME NEW log, NEW log2, NEW s, NEW e, Grows(log, log2, s, e),
         NEW c \in DOMAIN log["compute"], Read(log, c),
         s = "h2d" /\ e.run.op = "reload" =>
           Waited(log, "h2d", End(log, "h2d"), "compute", c)
  PROVE  Read(log2, c)
<1> DEFINE op == log["compute"][c].run
<1>1. log2["compute"][c] = log["compute"][c]
  BY StreamsAre DEF Grows
<1>2. \A x \in 1..c : /\ x \in DOMAIN log["compute"]
                      /\ log2["compute"][x] = log["compute"][x]
  BY StreamsAre DEF Grows
<1>3. c \in Int /\ c \in 1..End(log, "compute")
  BY StreamsAre DEF Grows
<1>4. ASSUME NEW m, FromWritten(log, c, m) PROVE FromWritten(log2, c, m)
  <2>1. PICK f \in 1..c - 1 :
          /\ log["compute"][f].run.op = "forward"
          /\ log["compute"][f].run.group = m[1]
          /\ log["compute"][f].run.round = log["compute"][c].run.round
          /\ \A x \in f + 1..c - 1 : ~Writes(log["compute"][x].run, m)
    BY <1>4 DEF FromWritten
  <2>2. log2["compute"][f] = log["compute"][f]
    BY <1>2, <1>3
  <2>3. \A x \in f + 1..c - 1 : log2["compute"][x] = log["compute"][x]
    BY <1>2, <1>3
  <2> QED BY <1>1, <2>1, <2>2, <2>3 DEF FromWritten
<1>5. ASSUME NEW m, FromFetched(log, c, m) PROVE FromFetched(log2, c, m)
  <2>1. PICK b \in DOMAIN log["h2d"] :
          /\ Fetches(log["h2d"][b].run, m)
          /\ log["h2d"][b].round = log["compute"][c].run.round
          /\ Waited(log, "compute", c, "h2d", b)
          /\ \A x \in DOMAIN log["h2d"] :
               x > b /\ Replaces(log["h2d"][x].run, m)
                 => Waited(log, "h2d", x, "compute", c)
    BY <1>5 DEF FromFetched
  <2>2. b \in DOMAIN log2["h2d"] /\ log2["h2d"][b] = log["h2d"][b]
    BY StreamsAre DEF Grows
  <2>3. Waited(log2, "compute", c, "h2d", b)
    BY <1>3, <2>1, StreamsAre, WaitedStays
  <2>4. ASSUME NEW x \in DOMAIN log2["h2d"], x > b,
               Replaces(log2["h2d"][x].run, m)
        PROVE  Waited(log2, "h2d", x, "compute", c)
    <3>1. x \in 1..End(log, "h2d") /\ Waited(log, "h2d", x, "compute", c)
      <4>1. CASE s = "h2d" /\ x = End(log, "h2d")
        <5>1. log2["h2d"][x] = e /\ x \in 1..End(log, "h2d")
          BY <4>1, StreamsAre DEF Grows
        <5>2. e.run.op = "reload"
          BY <2>4, <5>1 DEF Replaces, Fetches
        <5> QED BY <4>1, <5>1, <5>2
      <4>2. CASE ~(s = "h2d" /\ x = End(log, "h2d"))
        <5>1. x \in DOMAIN log["h2d"] /\ log2["h2d"][x] = log["h2d"][x]
          BY <4>2, LastOf, StreamsAre
        <5>2. x \in 1..End(log, "h2d")
          BY SMTT(30), <5>1, StreamsAre DEF Grows
        <5> QED BY <2>1, <2>4, <5>1, <5>2
      <4> QED BY <4>1, <4>2
    <3> QED BY <3>1, StreamsAre, WaitedStays
  <2> QED BY <1>1, <2>1, <2>2, <2>3, <2>4 DEF FromFetched
<1> QED BY <1>1, <1>4, <1>5 DEF Read

(* What the handler knows remains so.                                      *)
LEMMA StaysOn ==
  ASSUME NEW log, NEW log2, NEW s, NEW e, Grows(log, log2, s, e),
         NEW m, NEW r, Stays(log, m, r), s = "compute" => ~Writes(e.run, m)
  PROVE  Stays(log2, m, r)
<1>1. PICK f \in DOMAIN log["compute"] :
        /\ log["compute"][f].run.op = "forward"
        /\ log["compute"][f].run.group = m[1]
        /\ log["compute"][f].run.round = r
        /\ \A x \in DOMAIN log["compute"] :
             x > f => ~Writes(log["compute"][x].run, m)
  BY DEF Stays
<1>2. f \in DOMAIN log2["compute"] /\ log2["compute"][f] = log["compute"][f]
  BY StreamsAre DEF Grows
<1>3. ASSUME NEW x \in DOMAIN log2["compute"], x > f
      PROVE  ~Writes(log2["compute"][x].run, m)
  BY <1>1, <1>3, LastOf, StreamsAre
<1> QED BY <1>1, <1>2, <1>3 DEF Stays

(* What is away stays away until it is copied out again. *)
LEMMA AwayOn ==
  ASSUME NEW log, NEW log2, NEW s, NEW e, Grows(log, log2, s, e),
         NEW m, NEW r, Away(log, m, r), s = "d2h" => ~Copies(e.run, m)
  PROVE  Away(log2, m, r)
<1>1. PICK o \in DOMAIN log["d2h"] :
        /\ Copies(log["d2h"][o].run, m) /\ log["d2h"][o].round = r
        /\ \A x \in DOMAIN log["d2h"] : x > o => ~Copies(log["d2h"][x].run, m)
  BY DEF Away
<1>2. o \in DOMAIN log2["d2h"] /\ log2["d2h"][o] = log["d2h"][o]
  BY StreamsAre DEF Grows
<1>3. ASSUME NEW x \in DOMAIN log2["d2h"], x > o
      PROVE  ~Copies(log2["d2h"][x].run, m)
  BY <1>1, <1>3, LastOf, StreamsAre
<1> QED BY <1>1, <1>2, <1>3 DEF Away

(* What is back stays until something else takes its place. *)
LEMMA BackOn ==
  ASSUME NEW log, NEW log2, NEW s, NEW e, Grows(log, log2, s, e),
         NEW m, NEW r, Back(log, m, r), s = "h2d" => ~Replaces(e.run, m)
  PROVE  Back(log2, m, r)
<1>1. PICK b \in DOMAIN log["h2d"] :
        /\ Fetches(log["h2d"][b].run, m) /\ log["h2d"][b].round = r
        /\ \A x \in DOMAIN log["h2d"] :
             x > b => ~Replaces(log["h2d"][x].run, m)
  BY DEF Back
<1>2. b \in DOMAIN log2["h2d"] /\ log2["h2d"][b] = log["h2d"][b]
  BY StreamsAre DEF Grows
<1>3. ASSUME NEW x \in DOMAIN log2["h2d"], x > b
      PROVE  ~Replaces(log2["h2d"][x].run, m)
  BY <1>1, <1>3, LastOf, StreamsAre
<1> QED BY <1>1, <1>2, <1>3 DEF Back

(* The log stays safe when what is added to it comes after what it         *)
(* replaces.                                                               *)
CopiesKept(log, s, e) ==
  s = "compute" =>
    \A o \in DOMAIN log["d2h"] : \A m \in Cell :
      Copies(log["d2h"][o].run, m) /\ Writes(e.run, m) =>
        Waited(log, "compute", End(log, "compute"), "d2h", o)
FetchesKept(log, s, e) ==
  s = "d2h" =>
    \A b \in DOMAIN log["h2d"] : \A m \in Cell :
      Fetches(log["h2d"][b].run, m) /\ Copies(e.run, m) =>
        \E w \in DOMAIN log["compute"] :
          /\ WaitsAt(log, "compute", w, "h2d", b)
          /\ Waited(log, "d2h", End(log, "d2h"), "compute", w)
ReadsKept(log, s, e) ==
  s = "h2d" /\ e.run.op = "reload" =>
    \A c \in DOMAIN log["compute"] :
      log["compute"][c].run.op = "backward" =>
        Waited(log, "h2d", End(log, "h2d"), "compute", c)

(* A safe log stays safe, when the entry respects what is on it and its    *)
(* own operation has its place.                                            *)
LEMMA SafeStill ==
  ASSUME NEW log, NEW log2, NEW s, NEW e, Grows(log, log2, s, e),
         SafeLog(log), IsLog(log2),
         CopiesKept(log, s, e), FetchesKept(log, s, e),
         ReadsKept(log, s, e),
         s = "d2h" => \A m \in Cell : Copies(e.run, m) =>
                        Copied(log2, End(log, "d2h"), m),
         s = "h2d" => \A m \in Cell : Fetches(e.run, m) =>
                        Fetched(log2, End(log, "h2d"), m),
         s = "compute" /\ e.run.op = "backward" =>
           e.run.round = e.round /\ Read(log2, End(log, "compute"))
  PROVE  SafeLog(log2)
<1>1. SafeCopies(log2)
  <2> SUFFICES ASSUME NEW o \in DOMAIN log2["d2h"], NEW m \in Cell,
                      Copies(log2["d2h"][o].run, m)
               PROVE  Copied(log2, o, m)
    BY DEF SafeCopies
  <2>1. CASE s = "d2h" /\ o = End(log, "d2h")
    BY <2>1, LastOf, StreamsAre
  <2>2. CASE ~(s = "d2h" /\ o = End(log, "d2h"))
    <3>1. o \in DOMAIN log["d2h"] /\ log2["d2h"][o] = log["d2h"][o]
      BY <2>2, LastOf, StreamsAre
    <3>2. Copied(log, o, m)
      BY <3>1 DEF SafeLog, SafeCopies
    <3> QED BY <3>1, <3>2, CopiedStays DEF CopiesKept
  <2> QED BY <2>1, <2>2
<1>2. SafeFetches(log2)
  <2> SUFFICES ASSUME NEW b \in DOMAIN log2["h2d"], NEW m \in Cell,
                      Fetches(log2["h2d"][b].run, m)
               PROVE  Fetched(log2, b, m)
    BY DEF SafeFetches
  <2>1. CASE s = "h2d" /\ b = End(log, "h2d")
    BY <2>1, LastOf, StreamsAre
  <2>2. CASE ~(s = "h2d" /\ b = End(log, "h2d"))
    <3>1. b \in DOMAIN log["h2d"] /\ log2["h2d"][b] = log["h2d"][b]
      BY <2>2, LastOf, StreamsAre
    <3>2. Fetched(log, b, m)
      BY <3>1 DEF SafeLog, SafeFetches
    <3> QED BY <3>1, <3>2, FetchedStays DEF FetchesKept
  <2> QED BY <2>1, <2>2
<1>3. SafeReads(log2)
  <2> SUFFICES ASSUME NEW c \in DOMAIN log2["compute"],
                      log2["compute"][c].run.op = "backward"
               PROVE  /\ log2["compute"][c].run.round
                         = log2["compute"][c].round
                      /\ Read(log2, c)
    BY DEF SafeReads
  <2>1. CASE s = "compute" /\ c = End(log, "compute")
    BY <2>1, LastOf, StreamsAre
  <2>2. CASE ~(s = "compute" /\ c = End(log, "compute"))
    <3>1. c \in DOMAIN log["compute"] /\ log2["compute"][c] = log["compute"][c]
      BY <2>2, LastOf, StreamsAre
    <3>2. /\ log["compute"][c].run.round = log["compute"][c].round
          /\ Read(log, c)
      BY <3>1 DEF SafeLog, SafeReads
    <3> QED BY <3>1, <3>2, ReadStays DEF ReadsKept
  <2> QED BY <2>1, <2>2
<1> QED BY <1>1, <1>2, <1>3 DEF SafeLog

(* What the streams are given goes on the log; nothing has run by that.    *)
RanOf(st, s) == st.issued[s] - Len(st.queue[s])
Ahead(log, st, log2, st2) ==
  \A s \in Stream :
    /\ RanOf(st2, s) = RanOf(st, s)
    /\ \A x \in DOMAIN log[s] : x \in DOMAIN log2[s] /\ log2[s][x] = log[s][x]

(* Two extensions in a row are one. *)
LEMMA AheadOn ==
  ASSUME NEW log, NEW st, NEW log2, NEW st2, NEW log3, NEW st3,
         Ahead(log, st, log2, st2), Ahead(log2, st2, log3, st3)
  PROVE  Ahead(log, st, log3, st3)
BY DEF Ahead

(* A log extends itself. *)
LEMMA AheadSame == \A log, st : Ahead(log, st, log, st)
BY DEF Ahead

(* What a stream is given goes on the log, and has not run. *)
LEMMA Issued ==
  ASSUME NEW log, IsLog(log), NEW st, Given(log, st), NEW s \in Stream,
         NEW op \in Operation, op.op \in Work(s), NEW r \in Nat
  PROVE  /\ Given(Plus(log, s, op, r), Issue(st, s, op))
         /\ Ahead(log, st, Plus(log, s, op, r), Issue(st, s, op))
<1> DEFINE e == EntryOf(op, r)
           log2 == Plus(log, s, op, r)
           st2 == Issue(st, s, op)
<1>1. /\ log \in [Stream -> Seq(Entry)] /\ e \in Entry /\ e.run = op
  BY DEF IsLog, Entry, EntryOf
<1>2. /\ st \in [queue : [Stream -> Seq(Operation)], issued : [Stream -> Nat]]
      /\ \A u \in Stream :
           /\ st.issued[u] = Len(log[u]) /\ Len(st.queue[u]) <= Len(log[u])
           /\ \A i \in 1..Len(st.queue[u]) :
                st.queue[u][i] = log[u][Len(log[u]) - Len(st.queue[u]) + i].run
  BY DEF Given
<1> HIDE DEF e
<1>3. /\ log2[s] = Append(log[s], e)
      /\ \A u \in Stream : u # s => log2[u] = log[u]
  BY <1>1 DEF Plus, e
<1>4. /\ st2 \in [queue : [Stream -> Seq(Operation)], issued : [Stream -> Nat]]
      /\ st2.queue[s] = Append(st.queue[s], op)
      /\ st2.issued[s] = st.issued[s] + 1
      /\ \A u \in Stream : u # s => /\ st2.queue[u] = st.queue[u]
                                    /\ st2.issued[u] = st.issued[u]
  <2> DEFINE q == [st.queue EXCEPT ![s] = Append(@, op)]
             n == [st.issued EXCEPT ![s] = @ + 1]
  <2>1. st2.queue = q /\ st2.issued = n /\ st2 = [queue |-> q, issued |-> n]
    BY DEF Issue
  <2>2. /\ q \in [Stream -> Seq(Operation)] /\ q[s] = Append(st.queue[s], op)
        /\ \A u \in Stream : u # s => q[u] = st.queue[u]
    BY <1>2
  <2>3. /\ n \in [Stream -> Nat] /\ n[s] = st.issued[s] + 1
        /\ \A u \in Stream : u # s => n[u] = st.issued[u]
    BY <1>2
  <2> HIDE DEF q, n, st2
  <2> QED BY <2>1, <2>2, <2>3
<1> HIDE DEF log2, st2
<1>5. \A u \in Stream : st.queue[u] \in Seq(Operation) /\ log[u] \in Seq(Entry)
  BY <1>1, <1>2
<1>6. /\ Len(log2[s]) = Len(log[s]) + 1
      /\ Len(st2.queue[s]) = Len(st.queue[s]) + 1
      /\ Len(log[s]) \in Nat /\ Len(st.queue[s]) \in Nat
      /\ \A x \in 1..Len(log[s]) : log2[s][x] = log[s][x]
      /\ log2[s][Len(log[s]) + 1] = e
      /\ \A i \in 1..Len(st.queue[s]) : st2.queue[s][i] = st.queue[s][i]
      /\ st2.queue[s][Len(st.queue[s]) + 1] = op
      /\ DOMAIN log[s] = 1..Len(log[s]) /\ DOMAIN log2[s] = 1..Len(log2[s])
  BY <1>1, <1>3, <1>4, <1>5
<1>7. Given(log2, st2)
  <2> SUFFICES ASSUME NEW u \in Stream
               PROVE  /\ st2.issued[u] = Len(log2[u])
                      /\ Len(st2.queue[u]) <= Len(log2[u])
                      /\ \A i \in 1..Len(st2.queue[u]) :
                           st2.queue[u][i]
                           = log2[u][Len(log2[u]) - Len(st2.queue[u]) + i].run
    BY <1>4 DEF Given
  <2>1. CASE u # s
    <3>1. /\ st2.queue[u] = st.queue[u] /\ st2.issued[u] = st.issued[u]
          /\ log2[u] = log[u]
      BY <1>3, <1>4, <2>1
    <3> QED BY <1>2, <3>1
  <2>2. CASE u = s
    <3> DEFINE L == Len(log[s])
               Q == Len(st.queue[s])
    <3>3. /\ L \in Nat /\ Q \in Nat /\ Q <= L /\ st.issued[s] = L
          /\ Len(log2[s]) = L + 1 /\ Len(st2.queue[s]) = Q + 1
          /\ st2.issued[s] = st.issued[s] + 1
      <4>1. Q <= L /\ st.issued[s] = L
        BY <1>2
      <4> QED BY <1>4, <1>6, <4>1
    <3>4. \A i \in 1..Q : st.queue[s][i] = log[s][L - Q + i].run
      BY <1>2
    <3>5. /\ \A x \in 1..L : log2[s][x] = log[s][x]
          /\ log2[s][L + 1] = e /\ st2.queue[s][Q + 1] = op
          /\ \A i \in 1..Q : st2.queue[s][i] = st.queue[s][i]
      BY <1>6
    <3> HIDE DEF L, Q
    <3>1. st2.issued[s] = Len(log2[s]) /\ Len(st2.queue[s]) <= Len(log2[s])
      BY <3>3
    <3>2. ASSUME NEW i \in 1..Len(st2.queue[s])
          PROVE  st2.queue[s][i]
                 = log2[s][Len(log2[s]) - Len(st2.queue[s]) + i].run
      <4>1. Len(log2[s]) - Len(st2.queue[s]) + i = L - Q + i
        BY <3>3
      <4>2. CASE i \in 1..Q
        <5>1. L - Q + i \in 1..L
          BY <3>3, <4>2
        <5> QED BY <3>4, <3>5, <4>1, <4>2, <5>1
      <4>3. CASE i = Q + 1
        <5>1. L - Q + i = L + 1
          BY <3>3, <4>3
        <5> QED BY <1>1, <3>5, <4>1, <4>3, <5>1
      <4>4. i \in 1..Q \/ i = Q + 1
        BY <3>3
      <4> QED BY <4>2, <4>3, <4>4
    <3> QED BY <2>2, <3>1, <3>2
  <2> QED BY <2>1, <2>2
<1>8. Ahead(log, st, log2, st2)
  <2> SUFFICES ASSUME NEW u \in Stream
               PROVE  /\ RanOf(st2, u) = RanOf(st, u)
                      /\ \A x \in DOMAIN log[u] :
                           x \in DOMAIN log2[u] /\ log2[u][x] = log[u][x]
    BY DEF Ahead
  <2>1. CASE u # s
    BY <1>3, <1>4, <2>1 DEF RanOf
  <2>2. CASE u = s
    <3>1. st.issued[s] \in Nat
      BY <1>2
    <3>2. st2.issued[s] - Len(st2.queue[s]) = st.issued[s] - Len(st.queue[s])
      <4>1. /\ st2.issued[s] = st.issued[s] + 1
            /\ Len(st2.queue[s]) = Len(st.queue[s]) + 1
            /\ Len(st.queue[s]) \in Nat
        BY <1>4, <1>6
      <4> HIDE DEF st2
      <4> QED BY SMTT(30), <3>1, <4>1
    <3> QED BY SMTT(30), <1>6, <2>2, <3>2 DEF RanOf
  <2> QED BY <2>1, <2>2
<1> QED BY <1>7, <1>8 DEF log2, st2

(* What a stream has seen of the computation, but for its waits for that   *)
(* stream; and the computation of a stream.                                *)
Seen(log, u) ==
  \A x \in DOMAIN log["compute"] :
    \/ Waited(log, u, End(log, u), "compute", x)
    \/ log["compute"][x].run.op = "wait" /\ log["compute"][x].run.on = u
AllSeen(log, u) ==
  \A x \in DOMAIN log[u] :
    Waited(log, "compute", End(log, "compute"), u, x)

(* What the computation has waited for stays so, until the next fetch. *)
LEMMA MetOn ==
  ASSUME NEW log, NEW log2, NEW s, NEW e, Grows(log, log2, s, e),
         NEW k, Met(log, k), e.run.op # "reload"
  PROVE  Met(log2, k)
<1> SUFFICES ASSUME NEW b \in DOMAIN log2["h2d"],
                    log2["h2d"][b].run.op = "reload"
             PROVE  \/ Waited(log2, "compute", End(log2, "compute"), "h2d", b)
                    \/ log2["h2d"][b].run.group = k
  BY DEF Met
<1>1. b \in DOMAIN log["h2d"] /\ log2["h2d"][b] = log["h2d"][b]
  BY LastOf, StreamsAre
<1>2. \/ Waited(log, "compute", End(log, "compute"), "h2d", b)
      \/ log["h2d"][b].run.group = k
  BY <1>1 DEF Met
<1> QED BY <1>1, <1>2, WaitedAtEnd, StreamsAre

(* The tags stay true with an entry that neither writes nor copies. *)
LEMMA TrackedOn ==
  ASSUME NEW log, NEW log2, NEW s, NEW e, Grows(log, log2, s, e),
         NEW h, NEW r, Tracked(log, h, r),
         \A m : ~Writes(e.run, m) /\ ~Copies(e.run, m) /\ ~Replaces(e.run, m)
  PROVE  Tracked(log2, h, r)
BY StaysOn, AwayOn, BackOn DEF Tracked

(* The copies stay guarded with any entry but a copy. *)
LEMMA GuardedOn ==
  ASSUME NEW log, NEW log2, NEW s, NEW e, Grows(log, log2, s, e),
         NEW buf, Guarded(log, buf), s = "d2h" => e.run.op # "offload"
  PROVE  Guarded(log2, buf)
<1> SUFFICES ASSUME NEW o \in DOMAIN log2["d2h"], NEW m \in Cell,
                    Copies(log2["d2h"][o].run, m)
             PROVE  \/ Waited(log2, "compute", End(log2, "compute"), "d2h", o)
                    \/ \E t \in buf : CellOf(t) = m
  BY DEF Guarded
<1>1. o \in DOMAIN log["d2h"] /\ log2["d2h"][o] = log["d2h"][o]
  <2>1. s = "d2h" /\ o = End(log, "d2h") => ~Copies(log2["d2h"][o].run, m)
    BY LastOf, StreamsAre DEF Copies
  <2> QED BY <2>1, LastOf, StreamsAre
<1>2. \/ Waited(log, "compute", End(log, "compute"), "d2h", o)
      \/ \E t \in buf : CellOf(t) = m
  BY <1>1 DEF Guarded
<1> QED BY <1>2, WaitedAtEnd, StreamsAre

(* One stream waits for another.                                           *)
LEMMA AddWait ==
  ASSUME NEW log, NEW st, NEW h, NEW r \in Nat, Sound(log, st, h, r),
         NEW s \in Stream, NEW other \in Stream, s # other
  PROVE  LET st2 == WaitStream(st, s, other)
         IN \E log2 :
              /\ Sound(log2, st2, h, r) /\ Ahead(log, st, log2, st2)
              /\ \A k : Met(log, k) => Met(log2, k)
              /\ other = "compute" => Seen(log2, s)
              /\ s = "compute" => /\ AllSeen(log2, other)
                                  /\ Seen(log, other) => Seen(log2, other)
<1> DEFINE n == Len(log[other])
           op == [op |-> "wait", on |-> other, upto |-> n]
           log2 == Plus(log, s, op, r)
           st2 == WaitStream(st, s, other)
           e == EntryOf(op, r)
<1>1. IsLog(log) /\ Given(log, st) /\ SafeLog(log)
      /\ Tracked(log, h, r) /\ Guarded(log, h.buf)
  BY DEF Sound, SafeLog
<1>2. n \in Nat /\ DOMAIN log[other] = 1..n
  BY <1>1 DEF IsLog
<1>3. st2 = Issue(st, s, op)
  BY <1>1 DEF WaitStream, Given
<1>4. op \in Operation /\ op.op \in Work(s)
  <2>1. op \in [op : {"wait"}, on : Stream, upto : Nat]
    BY <1>2
  <2>2. Work(s) \in {{"forward", "backward", "wait"}, {"offload", "wait"},
                     {"reload", "wait"}}
    BY DEF Work, Stream
  <2> HIDE DEF n
  <2> QED BY <2>1, <2>2 DEF Operation
<1>5. /\ e.run.op = "wait" /\ e.run.on = other /\ e.run.upto = n
      /\ e.run.op \notin {"forward", "backward", "offload", "reload"}
  BY DEF EntryOf
<1> HIDE DEF n, op, st2
<1>6. IsLog(log2) /\ Grows(log, log2, s, e)
  BY <1>1, <1>4, Growing
<1>7. Given(log2, st2) /\ Ahead(log, st, log2, st2)
  BY <1>1, <1>3, <1>4, Issued
<1> HIDE DEF log2, e
<1>8. \A m : /\ ~Writes(e.run, m) /\ ~Copies(e.run, m)
             /\ ~Replaces(e.run, m) /\ ~Fetches(e.run, m)
  BY <1>5 DEF Writes, Copies, Replaces, Fetches
<1>9. SafeLog(log2)
  <2>1. CopiesKept(log, s, e) /\ FetchesKept(log, s, e) /\ ReadsKept(log, s, e)
    BY <1>5, <1>8 DEF CopiesKept, FetchesKept, ReadsKept
  <2> QED BY <1>1, <1>5, <1>6, <1>8, <2>1, SafeStill
<1>10. Tracked(log2, h, r) /\ Guarded(log2, h.buf)
  BY <1>1, <1>5, <1>6, <1>8, TrackedOn, GuardedOn
<1>11. \A k : Met(log, k) => Met(log2, k)
  BY <1>5, <1>6, MetOn
<1>12. ASSUME NEW x \in DOMAIN log[other]
       PROVE  Waited(log2, s, End(log2, s), other, x)
  <2>1. /\ End(log, s) \in 1..End(log2, s) - 1 /\ End(log, s) \in DOMAIN log2[s]
        /\ log2[s][End(log, s)] = e
    BY <1>6 DEF Grows
  <2>2. x <= n
    BY <1>2
  <2>3. WaitsAt(log2, s, End(log, s), other, x)
    BY <1>2, <1>5, <2>1, <2>2 DEF WaitsAt
  <2> QED BY <2>1, <2>3 DEF Waited
<1>13. DOMAIN log2[other] = DOMAIN log[other]
  BY <1>6 DEF Grows
<1>14. other = "compute" => Seen(log2, s)
  BY <1>12, <1>13 DEF Seen
<1>15. s = "compute" => AllSeen(log2, other)
  BY <1>12, <1>13 DEF AllSeen
<1>16. ASSUME s = "compute", Seen(log, other) PROVE Seen(log2, other)
  <2> SUFFICES ASSUME NEW x \in DOMAIN log2["compute"]
               PROVE  \/ Waited(log2, other, End(log2, other), "compute", x)
                      \/ /\ log2["compute"][x].run.op = "wait"
                         /\ log2["compute"][x].run.on = other
    BY DEF Seen
  <2>1. CASE x = End(log, "compute")
    <3>1. log2["compute"][x] = e
      BY <1>6, <1>16, <2>1 DEF Grows
    <3> QED BY <1>5, <3>1
  <2>2. CASE x # End(log, "compute")
    <3>1. x \in DOMAIN log["compute"] /\ log2["compute"][x] = log["compute"][x]
      BY <1>6, <2>2, LastOf, StreamsAre
    <3>2. \/ Waited(log, other, End(log, other), "compute", x)
          \/ /\ log["compute"][x].run.op = "wait"
             /\ log["compute"][x].run.on = other
      BY <1>16, <3>1 DEF Seen
    <3> QED BY <1>6, <3>1, <3>2, WaitedAtEnd
  <2> QED BY <2>1, <2>2
<1>17. Sound(log2, st2, h, r)
  BY <1>7, <1>9, <1>10 DEF Sound
<1> QED BY <1>7, <1>11, <1>14, <1>15, <1>16, <1>17 DEF st2

(* A stream and the computation wait for each other.                       *)
LEMMA AddMeeting ==
  ASSUME NEW log, NEW st, NEW h, NEW r \in Nat, Sound(log, st, h, r),
         NEW u \in {"d2h", "h2d"}
  PROVE  LET st2 == WaitStream(WaitStream(st, u, "compute"), "compute", u)
         IN \E log2 :
              /\ Sound(log2, st2, h, r) /\ Ahead(log, st, log2, st2)
              /\ \A k : Met(log, k) => Met(log2, k)
              /\ Seen(log2, u) /\ AllSeen(log2, u)
<1> DEFINE st1 == WaitStream(st, u, "compute")
           st2 == WaitStream(st1, "compute", u)
<1>1. u \in Stream /\ "compute" \in Stream /\ u # "compute"
  BY DEF Stream
<1>2. PICK log1 :
        /\ Sound(log1, st1, h, r) /\ Ahead(log, st, log1, st1)
        /\ \A k : Met(log, k) => Met(log1, k)
        /\ Seen(log1, u)
  BY <1>1, AddWait
<1> HIDE DEF st1
<1>3. PICK log2 :
        /\ Sound(log2, st2, h, r) /\ Ahead(log1, st1, log2, st2)
        /\ \A k : Met(log1, k) => Met(log2, k)
        /\ AllSeen(log2, u) /\ Seen(log2, u)
  BY <1>1, <1>2, AddWait
<1> HIDE DEF st2
<1>4. Ahead(log, st, log2, st2)
  BY <1>2, <1>3, AheadOn
<1> QED BY <1>2, <1>3, <1>4 DEF st1, st2

(* A group is copied out, when what it saved is still there, after all     *)
(* that was computed and fetched so far.                                   *)
OffloadFits(log, h, h2, r, j, keys) ==
  /\ \A m \in Cell : m[1] = j /\ m[2] \in keys =>
       Stays(log, m, r) /\ \E t \in h.buf : CellOf(t) = m
  /\ DOMAIN h2.tags = DOMAIN h.tags /\ h2.buf = h.buf
  /\ \A t \in DOMAIN h.tags :
       IF t[1] = j
       THEN h2.tags[t] = "cpu" /\ CellOf(t) \in Cell /\ Saved[t[2]] \in keys
       ELSE h2.tags[t] = h.tags[t]

(* With a copy, the log stays safe and the tags say "cpu". *)
LEMMA AddOffload ==
  ASSUME NEW log, NEW st, NEW h, NEW h2, NEW r \in Nat, Sound(log, st, h, r),
         Seen(log, "d2h"), Met(log, -1),
         NEW j \in Group, NEW keys \in SUBSET Storage,
         OffloadFits(log, h, h2, r, j, keys)
  PROVE  LET st2 == Issue(st, "d2h", [op |-> "offload", group |-> j,
                                      keys |-> keys])
         IN \E log2 :
              /\ Sound(log2, st2, h2, r) /\ Ahead(log, st, log2, st2)
              /\ \A k : Met(log, k) => Met(log2, k)
<1> DEFINE op == [op |-> "offload", group |-> j, keys |-> keys]
           e == EntryOf(op, r)
           s == "d2h"
           log2 == Plus(log, s, op, r)
           st2 == Issue(st, s, op)
           o == End(log, s)
<1> /\ \A m \in Cell : m[1] = j /\ m[2] \in keys =>
         Stays(log, m, r) /\ \E t \in h.buf : CellOf(t) = m
    /\ DOMAIN h2.tags = DOMAIN h.tags /\ h2.buf = h.buf
    /\ \A t \in DOMAIN h.tags :
         IF t[1] = j
         THEN h2.tags[t] = "cpu" /\ CellOf(t) \in Cell /\ Saved[t[2]] \in keys
         ELSE h2.tags[t] = h.tags[t]
  BY DEF OffloadFits
<1>1. IsLog(log) /\ Given(log, st) /\ SafeLog(log)
      /\ Tracked(log, h, r) /\ Guarded(log, h.buf)
  BY DEF Sound, SafeLog
<1>2. op \in Operation /\ op.op \in Work(s) /\ s \in Stream
  <2>1. op \in [op : {"offload"}, group : Group, keys : SUBSET Storage]
    OBVIOUS
  <2>2. Work(s) = {"offload", "wait"}
    BY DEF Work
  <2> QED BY <2>1, <2>2, StreamsAre DEF Operation
<1>3. /\ e.run.op = "offload" /\ e.run.group = j /\ e.run.keys = keys
      /\ e.round = r
  BY DEF EntryOf
<1> HIDE DEF op
<1>4. IsLog(log2) /\ Grows(log, log2, s, e)
  BY <1>1, <1>2, Growing
<1>5. Given(log2, st2) /\ Ahead(log, st, log2, st2)
  BY <1>1, <1>2, Issued
<1> HIDE DEF log2, e, st2
<1>6. \A m : /\ ~Writes(e.run, m) /\ ~Replaces(e.run, m)
             /\ ~Fetches(e.run, m)
             /\ Copies(e.run, m) <=> m[1] = j /\ m[2] \in keys
  BY <1>3 DEF Writes, Copies, Replaces, Fetches
<1>7. /\ o \in DOMAIN log2[s] /\ log2[s][o] = e /\ o \in 1..End(log, s)
  BY <1>4 DEF Grows
<1>8. FetchesKept(log, s, e)
  <2> SUFFICES ASSUME NEW b \in DOMAIN log["h2d"], NEW m \in Cell,
                      Fetches(log["h2d"][b].run, m)
               PROVE  \E w \in DOMAIN log["compute"] :
                        /\ WaitsAt(log, "compute", w, "h2d", b)
                        /\ Waited(log, "d2h", End(log, "d2h"), "compute", w)
    BY DEF FetchesKept
  <2>1. log["h2d"][b].run.op = "reload"
    BY DEF Fetches
  <2>2. log["h2d"][b].run.group # -1
    <3>1. m[1] \in Group
      BY DEF Cell
    <3>2. m[1] >= 0
      BY <3>1 DEF Group
    <3> QED BY <3>2 DEF Fetches
  <2>3. Waited(log, "compute", End(log, "compute"), "h2d", b)
    BY <2>1, <2>2 DEF Met
  <2>4. PICK w \in DOMAIN log["compute"] : WaitsAt(log, "compute", w, "h2d", b)
    BY <2>3 DEF Waited
  <2>5. log["compute"][w].run.on # "d2h"
    BY <2>4 DEF WaitsAt
  <2> QED BY <2>4, <2>5 DEF Seen
<1>9. CopiesKept(log, s, e) /\ ReadsKept(log, s, e)
  BY DEF CopiesKept, ReadsKept
<1>10. ASSUME NEW m \in Cell, Copies(e.run, m) PROVE Copied(log2, o, m)
  <2>1. Stays(log, m, r)
    BY <1>6, <1>10
  <2>2. PICK f \in DOMAIN log["compute"] :
          /\ log["compute"][f].run.op = "forward"
          /\ log["compute"][f].run.group = m[1]
          /\ log["compute"][f].run.round = r
          /\ \A x \in DOMAIN log["compute"] :
               x > f => ~Writes(log["compute"][x].run, m)
    BY <2>1 DEF Stays
  <2>3. Waited(log, s, o, "compute", f)
    BY <2>2 DEF Seen
  <2>4. Waited(log2, s, o, "compute", f)
    BY <1>2, <1>4, <1>7, <2>3, WaitedStays
  <2>5. /\ DOMAIN log2["compute"] = DOMAIN log["compute"]
        /\ \A x \in DOMAIN log["compute"] :
             log2["compute"][x] = log["compute"][x]
    BY <1>4, StreamsAre DEF Grows
  <2> QED BY <1>3, <1>7, <2>2, <2>4, <2>5 DEF Copied
<1>11. SafeLog(log2)
  BY <1>1, <1>3, <1>4, <1>6, <1>8, <1>9, <1>10, SafeStill
<1>12. Tracked(log2, h2, r)
  <2> SUFFICES ASSUME NEW t \in DOMAIN h.tags
               PROVE  /\ h2.tags[t] = "gpu" \/ t \in h.buf =>
                           Stays(log2, CellOf(t), r)
                      /\ h2.tags[t] = "cpu" => Away(log2, CellOf(t), r)
                      /\ h2.tags[t] = "reloaded" => Back(log2, CellOf(t), r)
    BY DEF Tracked
  <2>1. h.tags[t] = "gpu" \/ t \in h.buf => Stays(log2, CellOf(t), r)
    <3>1. h.tags[t] = "gpu" \/ t \in h.buf => Stays(log, CellOf(t), r)
      BY <1>1 DEF Tracked
    <3> QED BY <1>4, <1>6, <3>1, StaysOn
  <2>2. CASE t[1] = j
    <3>1. /\ Copies(e.run, CellOf(t)) /\ h2.tags[t] = "cpu"
      <4>1. CellOf(t)[1] = j /\ CellOf(t)[2] = Saved[t[2]]
        BY <2>2 DEF CellOf
      <4> QED BY <1>6, <2>2, <4>1
    <3>2. Away(log2, CellOf(t), r)
      <4>1. \A x \in DOMAIN log2["d2h"] : ~(x > o)
        BY <1>4 DEF Grows
      <4> QED BY <1>3, <1>7, <3>1, <4>1 DEF Away
    <3>3. t \in h.buf => Stays(log2, CellOf(t), r)
      BY <2>1
    <3> QED BY <3>1, <3>2, <3>3
  <2>3. CASE t[1] # j
    <3>1. ~Copies(e.run, CellOf(t)) /\ h2.tags[t] = h.tags[t]
      BY <1>6, <2>3 DEF CellOf
    <3>2. h.tags[t] = "cpu" => Away(log2, CellOf(t), r)
      <4>1. h.tags[t] = "cpu" => Away(log, CellOf(t), r)
        BY <1>1 DEF Tracked
      <4> QED BY <1>4, <3>1, <4>1, AwayOn
    <3>3. h.tags[t] = "reloaded" => Back(log2, CellOf(t), r)
      <4>1. h.tags[t] = "reloaded" => Back(log, CellOf(t), r)
        BY <1>1 DEF Tracked
      <4> QED BY <1>4, <4>1, BackOn
    <3> QED BY <2>1, <3>1, <3>2, <3>3
  <2> QED BY <2>2, <2>3
<1>13. Guarded(log2, h2.buf)
  <2> SUFFICES ASSUME NEW x \in DOMAIN log2["d2h"], NEW m \in Cell,
                      Copies(log2["d2h"][x].run, m)
               PROVE  \/ Waited(log2, "compute", End(log2, "compute"),
                                "d2h", x)
                      \/ \E t \in h.buf : CellOf(t) = m
    BY DEF Guarded
  <2>1. CASE x = o
    BY <1>6, <1>7, <2>1
  <2>2. CASE x # o
    <3>1. x \in DOMAIN log["d2h"] /\ log2["d2h"][x] = log["d2h"][x]
      BY <1>4, <2>2, LastOf, StreamsAre
    <3>2. \/ Waited(log, "compute", End(log, "compute"), "d2h", x)
          \/ \E t \in h.buf : CellOf(t) = m
      BY <1>1, <3>1 DEF Guarded
    <3> QED BY <1>4, <3>2, WaitedAtEnd, StreamsAre
  <2> QED BY <2>1, <2>2
<1>14. \A k : Met(log, k) => Met(log2, k)
  BY <1>3, <1>4, MetOn
<1>15. Sound(log2, st2, h2, r)
  BY <1>5, <1>11, <1>12, <1>13 DEF Sound
<1> QED BY <1>5, <1>14, <1>15 DEF st2, op

(* It is fetched back, after all that was computed and copied so far.      *)
ReloadFits(log, h, h2, r, j, keys, takes) ==
  /\ h.buf = {} /\ h2.buf = {}
  /\ \A m \in Cell : m[1] = j /\ m[2] \in keys => Away(log, m, r)
  /\ DOMAIN h2.tags = DOMAIN h.tags
  /\ \A t \in DOMAIN h.tags :
       /\ CellOf(t) \in Cell
       /\ h.tags[t] = "reloaded" => CellOf(t) \notin takes
       /\ IF t[1] = j /\ h.tags[t] = "cpu"
          THEN h2.tags[t] = "reloaded" /\ Saved[t[2]] \in keys
          ELSE h2.tags[t] = h.tags[t] /\ (t[1] = j => h.tags[t] = "gpu")

(* With a fetch, the log stays safe and the tags say "reloaded". *)
LEMMA AddReload ==
  ASSUME NEW log, NEW st, NEW h, NEW h2, NEW r \in Nat, Sound(log, st, h, r),
         Seen(log, "h2d"), AllSeen(log, "h2d"),
         NEW j \in Group, NEW keys \in SUBSET Storage,
         NEW takes \in SUBSET Cell,
         ReloadFits(log, h, h2, r, j, keys, takes)
  PROVE  LET st2 == Issue(st, "h2d", [op |-> "reload", group |-> j,
                                      keys |-> keys, takes |-> takes])
         IN \E log2 :
              /\ Sound(log2, st2, h2, r) /\ Ahead(log, st, log2, st2)
              /\ Met(log2, j)
<1> DEFINE op == [op |-> "reload", group |-> j, keys |-> keys,
                  takes |-> takes]
           e == EntryOf(op, r)
           s == "h2d"
           log2 == Plus(log, s, op, r)
           st2 == Issue(st, s, op)
           b == End(log, s)
<1> /\ h.buf = {} /\ h2.buf = {}
    /\ \A m \in Cell : m[1] = j /\ m[2] \in keys => Away(log, m, r)
    /\ DOMAIN h2.tags = DOMAIN h.tags
    /\ \A t \in DOMAIN h.tags :
         /\ CellOf(t) \in Cell
         /\ h.tags[t] = "reloaded" => CellOf(t) \notin takes
         /\ IF t[1] = j /\ h.tags[t] = "cpu"
            THEN h2.tags[t] = "reloaded" /\ Saved[t[2]] \in keys
            ELSE h2.tags[t] = h.tags[t] /\ (t[1] = j => h.tags[t] = "gpu")
  BY DEF ReloadFits
<1>1. IsLog(log) /\ Given(log, st) /\ SafeLog(log)
      /\ Tracked(log, h, r) /\ Guarded(log, {})
  BY DEF Sound, SafeLog
<1>2. op \in Operation /\ op.op \in Work(s) /\ s \in Stream
  <2>1. op \in [op : {"reload"}, group : Group, keys : SUBSET Storage,
                takes : SUBSET Cell]
    OBVIOUS
  <2>2. Work(s) = {"reload", "wait"}
    BY DEF Work
  <2> QED BY <2>1, <2>2, StreamsAre DEF Operation
<1>3. /\ e.run.op = "reload" /\ e.run.group = j /\ e.run.keys = keys
      /\ e.run.takes = takes /\ e.round = r
  BY DEF EntryOf
<1> HIDE DEF op
<1>4. IsLog(log2) /\ Grows(log, log2, s, e)
  BY <1>1, <1>2, Growing
<1>5. Given(log2, st2) /\ Ahead(log, st, log2, st2)
  BY <1>1, <1>2, Issued
<1> HIDE DEF log2, e, st2
<1>6. \A m : /\ ~Writes(e.run, m) /\ ~Copies(e.run, m)
             /\ Fetches(e.run, m) <=> m[1] = j /\ m[2] \in keys
             /\ Replaces(e.run, m) <=> Fetches(e.run, m) \/ m \in takes
  BY <1>3 DEF Writes, Copies, Replaces, Fetches
<1>7. b \in DOMAIN log2[s] /\ log2[s][b] = e /\ b \in 1..End(log, s)
  BY <1>4 DEF Grows
<1>8. CopiesKept(log, s, e) /\ FetchesKept(log, s, e)
  BY DEF CopiesKept, FetchesKept
<1>9. ReadsKept(log, s, e)
  BY DEF ReadsKept, Seen
<1>10. ASSUME NEW m \in Cell, Fetches(e.run, m) PROVE Fetched(log2, b, m)
  <2>1. Away(log, m, r)
    BY <1>6, <1>10
  <2>2. PICK o \in DOMAIN log["d2h"] :
          /\ Copies(log["d2h"][o].run, m) /\ log["d2h"][o].round = r
          /\ \A x \in DOMAIN log["d2h"] :
               x > o => ~Copies(log["d2h"][x].run, m)
    BY <2>1 DEF Away
  <2>3. PICK w \in DOMAIN log["compute"] : WaitsAt(log, "compute", w, "d2h", o)
    BY <1>1, <2>2 DEF Guarded, Waited
  <2>4. Waited(log, s, b, "compute", w)
    <3>1. log["compute"][w].run.on # "h2d"
      BY <2>3 DEF WaitsAt
    <3> QED BY <3>1 DEF Seen
  <2>5. Waited(log2, s, b, "compute", w)
    BY <1>2, <1>4, <1>7, <2>4, WaitedStays
  <2>6. w \in DOMAIN log2["compute"] /\ WaitsAt(log2, "compute", w, "d2h", o)
    BY <1>4, <2>3, WaitsStay, StreamsAre
  <2>7. /\ DOMAIN log2["d2h"] = DOMAIN log["d2h"]
        /\ \A x \in DOMAIN log["d2h"] : log2["d2h"][x] = log["d2h"][x]
    BY <1>4, StreamsAre DEF Grows
  <2> QED BY <1>3, <1>7, <2>2, <2>5, <2>6, <2>7 DEF Fetched
<1>11. SafeLog(log2)
  BY <1>1, <1>3, <1>4, <1>6, <1>8, <1>9, <1>10, SafeStill
<1>12. Tracked(log2, h2, r)
  <2> SUFFICES ASSUME NEW t \in DOMAIN h.tags
               PROVE  /\ h2.tags[t] = "gpu" => Stays(log2, CellOf(t), r)
                      /\ h2.tags[t] = "cpu" => Away(log2, CellOf(t), r)
                      /\ h2.tags[t] = "reloaded" => Back(log2, CellOf(t), r)
    BY DEF Tracked
  <2>1. /\ h.tags[t] = "gpu" => Stays(log, CellOf(t), r)
        /\ h.tags[t] = "cpu" => Away(log, CellOf(t), r)
        /\ h.tags[t] = "reloaded" => Back(log, CellOf(t), r)
    BY <1>1 DEF Tracked
  <2>2. CASE t[1] = j /\ h.tags[t] = "cpu"
    <3>1. Fetches(e.run, CellOf(t)) /\ h2.tags[t] = "reloaded"
      <4>1. CellOf(t)[1] = j /\ CellOf(t)[2] = Saved[t[2]]
        BY <2>2 DEF CellOf
      <4> QED BY <1>6, <2>2, <4>1
    <3>2. Back(log2, CellOf(t), r)
      <4>1. \A x \in DOMAIN log2["h2d"] : ~(x > b)
        BY <1>4 DEF Grows
      <4> QED BY <1>3, <1>7, <3>1, <4>1 DEF Back
    <3> QED BY <3>1, <3>2
  <2>3. CASE ~(t[1] = j /\ h.tags[t] = "cpu")
    <3>1. h2.tags[t] = h.tags[t] /\ (t[1] = j => h.tags[t] = "gpu")
      BY <2>3
    <3>2. h.tags[t] = "gpu" => Stays(log2, CellOf(t), r)
      BY <1>4, <2>1, StaysOn
    <3>3. h.tags[t] = "cpu" => Away(log2, CellOf(t), r)
      BY <1>4, <2>1, AwayOn
    <3>4. h.tags[t] = "reloaded" => Back(log2, CellOf(t), r)
      <4>1. h.tags[t] = "reloaded" => ~Replaces(e.run, CellOf(t))
        BY <1>6, <3>1 DEF CellOf
      <4> QED BY <1>4, <2>1, <4>1, BackOn
    <3> QED BY <3>1, <3>2, <3>3, <3>4
  <2> QED BY <2>2, <2>3
<1>13. Guarded(log2, h2.buf)
  BY <1>1, <1>4, GuardedOn
<1>14. Met(log2, j)
  <2> SUFFICES ASSUME NEW x \in DOMAIN log2["h2d"]
               PROVE  \/ Waited(log2, "compute", End(log2, "compute"),
                                "h2d", x)
                      \/ log2["h2d"][x].run.group = j
    BY DEF Met
  <2>1. CASE x = b
    BY <1>3, <1>7, <2>1
  <2>2. CASE x # b
    <3>1. x \in DOMAIN log["h2d"]
      BY <1>4, <2>2, LastOf, StreamsAre
    <3>2. Waited(log, "compute", End(log, "compute"), "h2d", x)
      BY <3>1 DEF AllSeen
    <3> QED BY <1>4, <3>2, WaitedAtEnd, StreamsAre
  <2> QED BY <2>1, <2>2
<1>15. Sound(log2, st2, h2, r)
  BY <1>5, <1>11, <1>12, <1>13 DEF Sound
<1> QED BY <1>5, <1>14, <1>15 DEF st2, op

(* A layer computes, and saves: what it may be put in is nothing that is   *)
(* still to be copied.                                                     *)
ForwardFits(h, h2, g, takes) ==
  /\ h.buf \subseteq DOMAIN h.tags /\ h.buf \subseteq h2.buf
  /\ \A t \in DOMAIN h.tags :
       /\ t[1] # g
       /\ h.tags[t] = "gpu" \/ t \in h.buf => CellOf(t) \notin takes
  /\ \A t \in DOMAIN h2.tags :
       \/ t[1] = g /\ CellOf(t) \in Cell /\ h2.tags[t] = "gpu"
       \/ /\ t \in DOMAIN h.tags /\ h2.tags[t] = h.tags[t]
          /\ t \in h2.buf => t \in h.buf

(* With a layer's forward pass, the log stays safe: what it takes is no    *)
(* longer referred to, and has been copied.                                *)
LEMMA AddForward ==
  ASSUME NEW log, NEW st, NEW h, NEW h2, NEW r \in Nat, Sound(log, st, h, r),
         NEW g \in Group, NEW takes \in SUBSET Cell,
         ForwardFits(h, h2, g, takes)
  PROVE  LET st2 == Issue(st, "compute",
                          [op |-> "forward", group |-> g, round |-> r,
                           takes |-> takes])
         IN \E log2 :
              /\ Sound(log2, st2, h2, r) /\ Ahead(log, st, log2, st2)
              /\ \A k : Met(log, k) => Met(log2, k)
<1> DEFINE op == [op |-> "forward", group |-> g, round |-> r,
                  takes |-> takes]
           e == EntryOf(op, r)
           s == "compute"
           log2 == Plus(log, s, op, r)
           st2 == Issue(st, s, op)
           f == End(log, s)
<1> /\ h.buf \subseteq DOMAIN h.tags /\ h.buf \subseteq h2.buf
    /\ \A t \in DOMAIN h.tags :
         /\ t[1] # g
         /\ h.tags[t] = "gpu" \/ t \in h.buf => CellOf(t) \notin takes
    /\ \A t \in DOMAIN h2.tags :
         \/ t[1] = g /\ CellOf(t) \in Cell /\ h2.tags[t] = "gpu"
         \/ /\ t \in DOMAIN h.tags /\ h2.tags[t] = h.tags[t]
            /\ t \in h2.buf => t \in h.buf
  BY DEF ForwardFits
<1>1. IsLog(log) /\ Given(log, st) /\ SafeLog(log)
      /\ Tracked(log, h, r) /\ Guarded(log, h.buf)
  BY DEF Sound, SafeLog
<1>2. op \in Operation /\ op.op \in Work(s) /\ s \in Stream
  <2>1. op \in [op : {"forward"}, group : Group, round : Nat,
                takes : SUBSET Cell]
    OBVIOUS
  <2>2. Work(s) = {"forward", "backward", "wait"}
    BY DEF Work
  <2> QED BY <2>1, <2>2, StreamsAre DEF Operation
<1>3. /\ e.run.op = "forward" /\ e.run.group = g /\ e.run.round = r
      /\ e.run.takes = takes /\ e.round = r
  BY DEF EntryOf
<1> HIDE DEF op
<1>4. IsLog(log2) /\ Grows(log, log2, s, e)
  BY <1>1, <1>2, Growing
<1>5. Given(log2, st2) /\ Ahead(log, st, log2, st2)
  BY <1>1, <1>2, Issued
<1> HIDE DEF log2, e, st2
<1>6. \A m : /\ ~Copies(e.run, m) /\ ~Fetches(e.run, m)
             /\ ~Replaces(e.run, m)
             /\ Writes(e.run, m) <=> m[1] = g \/ m \in takes
  BY <1>3 DEF Writes, Copies, Replaces, Fetches
<1>7. f \in DOMAIN log2[s] /\ log2[s][f] = e
  BY <1>4 DEF Grows
<1>8. \A t \in DOMAIN h.tags : h.tags[t] = "gpu" \/ t \in h.buf =>
                                 ~Writes(e.run, CellOf(t))
  BY <1>6 DEF CellOf
<1>9. CopiesKept(log, s, e)
  BY <1>1, <1>8 DEF CopiesKept, Guarded
<1>10. FetchesKept(log, s, e) /\ ReadsKept(log, s, e)
  BY DEF FetchesKept, ReadsKept
<1>11. SafeLog(log2)
  BY <1>1, <1>3, <1>4, <1>9, <1>10, SafeStill
<1>12. Tracked(log2, h2, r)
  <2> SUFFICES ASSUME NEW t \in DOMAIN h2.tags
               PROVE  /\ h2.tags[t] = "gpu" \/ t \in h2.buf =>
                           Stays(log2, CellOf(t), r)
                      /\ h2.tags[t] = "cpu" => Away(log2, CellOf(t), r)
                      /\ h2.tags[t] = "reloaded" => Back(log2, CellOf(t), r)
    BY DEF Tracked
  <2>1. CASE t[1] = g /\ CellOf(t) \in Cell /\ h2.tags[t] = "gpu"
    <3>1. Stays(log2, CellOf(t), r)
      <4>1. \A x \in DOMAIN log2["compute"] : ~(x > f)
        BY <1>4 DEF Grows
      <4>2. CellOf(t)[1] = g
        BY <2>1 DEF CellOf
      <4> QED BY <1>3, <1>7, <4>1, <4>2 DEF Stays
    <3> QED BY <2>1, <3>1
  <2>2. CASE /\ t \in DOMAIN h.tags /\ h2.tags[t] = h.tags[t]
             /\ t \in h2.buf => t \in h.buf
    <3>1. /\ h.tags[t] = "gpu" \/ t \in h.buf => Stays(log, CellOf(t), r)
          /\ h.tags[t] = "cpu" => Away(log, CellOf(t), r)
          /\ h.tags[t] = "reloaded" => Back(log, CellOf(t), r)
      BY <1>1, <2>2 DEF Tracked
    <3>2. h.tags[t] = "gpu" \/ t \in h.buf => Stays(log2, CellOf(t), r)
      BY <1>4, <1>8, <2>2, <3>1, StaysOn
    <3>3. h.tags[t] = "cpu" => Away(log2, CellOf(t), r)
      BY <1>4, <3>1, AwayOn
    <3>4. h.tags[t] = "reloaded" => Back(log2, CellOf(t), r)
      BY <1>4, <3>1, BackOn
    <3> QED BY <2>2, <3>2, <3>3, <3>4
  <2> QED BY <2>1, <2>2
<1>13. Guarded(log2, h2.buf)
  <2>1. Guarded(log2, h.buf)
    BY <1>1, <1>4, GuardedOn
  <2> QED BY <2>1 DEF Guarded
<1>14. \A k : Met(log, k) => Met(log2, k)
  BY <1>3, <1>4, MetOn
<1>15. Sound(log2, st2, h2, r)
  BY <1>5, <1>11, <1>12, <1>13 DEF Sound
<1> QED BY <1>5, <1>14, <1>15 DEF st2, op

(* A layer's gradients are computed, from tensors the handler knows the    *)
(* place of.                                                               *)
BackwardFits(log, h, h2, r, g, k, takes, reads) ==
  /\ reads \in [DOMAIN Saved -> {"gpu", "reloaded"}]
  /\ \A i \in DOMAIN Saved :
       /\ reads[i] = "gpu" => Stays(log, <<g, Saved[i]>>, r)
       /\ reads[i] = "reloaded" => Back(log, <<g, Saved[i]>>, r) /\ g # k
  /\ h.buf = {} /\ h2.buf = {}
  /\ \A t \in DOMAIN h2.tags :
       /\ t \in DOMAIN h.tags /\ h2.tags[t] = h.tags[t]
       /\ h.tags[t] = "gpu" => CellOf(t) \notin takes

(* With a layer's backward pass, the log stays safe: it reads what was     *)
(* written or what was fetched in its micro batch.                         *)
LEMMA AddBackward ==
  ASSUME NEW log, NEW st, NEW h, NEW h2, NEW r \in Nat, Sound(log, st, h, r),
         NEW g \in Group, NEW k, Met(log, k), NEW takes \in SUBSET Cell,
         NEW reads, BackwardFits(log, h, h2, r, g, k, takes, reads)
  PROVE  LET st2 == Issue(st, "compute",
                          [op |-> "backward", group |-> g, round |-> r,
                           takes |-> takes, reads |-> reads])
         IN \E log2 :
              /\ Sound(log2, st2, h2, r) /\ Ahead(log, st, log2, st2)
              /\ Met(log2, k)
<1> DEFINE op == [op |-> "backward", group |-> g, round |-> r,
                  takes |-> takes, reads |-> reads]
           e == EntryOf(op, r)
           s == "compute"
           log2 == Plus(log, s, op, r)
           st2 == Issue(st, s, op)
           c == End(log, s)
<1> /\ reads \in [DOMAIN Saved -> {"gpu", "reloaded"}]
    /\ \A i \in DOMAIN Saved :
         /\ reads[i] = "gpu" => Stays(log, <<g, Saved[i]>>, r)
         /\ reads[i] = "reloaded" => Back(log, <<g, Saved[i]>>, r) /\ g # k
    /\ h.buf = {} /\ h2.buf = {}
    /\ \A t \in DOMAIN h2.tags :
         /\ t \in DOMAIN h.tags /\ h2.tags[t] = h.tags[t]
         /\ h.tags[t] = "gpu" => CellOf(t) \notin takes
  BY DEF BackwardFits
<1>1. IsLog(log) /\ Given(log, st) /\ SafeLog(log)
      /\ Tracked(log, h, r) /\ Guarded(log, {})
  BY DEF Sound, SafeLog
<1>2. op \in Operation /\ op.op \in Work(s) /\ s \in Stream
  <2>1. op \in [op : {"backward"}, group : Group, round : Nat,
                takes : SUBSET Cell,
                reads : [DOMAIN Saved -> {"gpu", "reloaded"}]]
    OBVIOUS
  <2>2. Work(s) = {"forward", "backward", "wait"}
    BY DEF Work
  <2> QED BY <2>1, <2>2, StreamsAre DEF Operation
<1>3. /\ e.run.op = "backward" /\ e.run.group = g /\ e.run.round = r
      /\ e.run.takes = takes /\ e.run.reads = reads /\ e.round = r
  BY DEF EntryOf
<1> HIDE DEF op
<1>4. IsLog(log2) /\ Grows(log, log2, s, e)
  BY <1>1, <1>2, Growing
<1>5. Given(log2, st2) /\ Ahead(log, st, log2, st2)
  BY <1>1, <1>2, Issued
<1> HIDE DEF log2, e, st2
<1>6. \A m : /\ ~Copies(e.run, m) /\ ~Fetches(e.run, m)
             /\ ~Replaces(e.run, m)
             /\ Writes(e.run, m) <=> m \in takes
  BY <1>3 DEF Writes, Copies, Replaces, Fetches
<1>7. /\ c \in DOMAIN log2[s] /\ log2[s][c] = e /\ c \in 1..End(log, s)
      /\ c \in Int
  BY <1>4 DEF Grows
<1>8. CopiesKept(log, s, e)
  BY <1>1 DEF CopiesKept, Guarded
<1>9. FetchesKept(log, s, e) /\ ReadsKept(log, s, e)
  BY DEF FetchesKept, ReadsKept
<1>10. Read(log2, c)
  <2> SUFFICES ASSUME NEW i \in DOMAIN Saved
               PROVE  IF reads[i] = "gpu"
                      THEN FromWritten(log2, c, <<g, Saved[i]>>)
                      ELSE FromFetched(log2, c, <<g, Saved[i]>>)
    BY <1>3, <1>7 DEF Read
  <2> DEFINE m == <<g, Saved[i]>>
  <2>1. CASE reads[i] = "gpu"
    <3>1. Stays(log, m, r)
      BY <2>1
    <3> HIDE DEF m
    <3>2. PICK f \in DOMAIN log["compute"] :
            /\ log["compute"][f].run.op = "forward"
            /\ log["compute"][f].run.group = m[1]
            /\ log["compute"][f].run.round = r
            /\ \A x \in DOMAIN log["compute"] :
                 x > f => ~Writes(log["compute"][x].run, m)
      BY <3>1 DEF Stays
    <3>3. /\ f \in 1..c - 1
          /\ \A x \in 1..c - 1 : /\ x \in DOMAIN log["compute"]
                                 /\ log2["compute"][x] = log["compute"][x]
      BY <1>4 DEF Grows
    <3>4. \A x \in f + 1..c - 1 : ~Writes(log2["compute"][x].run, m)
      BY <1>7, <3>2, <3>3
    <3>5. FromWritten(log2, c, m)
      BY <1>3, <1>7, <3>2, <3>3, <3>4 DEF FromWritten
    <3> QED BY <2>1, <3>5 DEF m
  <2>2. CASE reads[i] # "gpu"
    <3>1. Back(log, m, r) /\ g # k
      BY <2>2
    <3>2. m[1] = g
      OBVIOUS
    <3> HIDE DEF m
    <3>3. PICK b \in DOMAIN log["h2d"] :
            /\ Fetches(log["h2d"][b].run, m) /\ log["h2d"][b].round = r
            /\ \A x \in DOMAIN log["h2d"] :
                 x > b => ~Replaces(log["h2d"][x].run, m)
      BY <3>1 DEF Back
    <3>4. Waited(log, s, c, "h2d", b)
      <4>1. /\ log["h2d"][b].run.op = "reload"
            /\ log["h2d"][b].run.group # k
        BY <3>1, <3>2, <3>3 DEF Fetches
      <4> QED BY <4>1 DEF Met
    <3>5. Waited(log2, s, c, "h2d", b)
      BY <1>2, <1>4, <1>7, <3>4, WaitedStays
    <3>6. /\ DOMAIN log2["h2d"] = DOMAIN log["h2d"]
          /\ \A x \in DOMAIN log["h2d"] : log2["h2d"][x] = log["h2d"][x]
      BY <1>4, StreamsAre DEF Grows
    <3>7. FromFetched(log2, c, m)
      BY <1>3, <1>7, <3>3, <3>5, <3>6 DEF FromFetched
    <3> QED BY <2>2, <3>7 DEF m
  <2> QED BY <2>1, <2>2
<1>11. SafeLog(log2)
  BY <1>1, <1>3, <1>4, <1>8, <1>9, <1>10, SafeStill
<1>12. Tracked(log2, h2, r)
  <2> SUFFICES ASSUME NEW t \in DOMAIN h2.tags
               PROVE  /\ h2.tags[t] = "gpu" => Stays(log2, CellOf(t), r)
                      /\ h2.tags[t] = "cpu" => Away(log2, CellOf(t), r)
                      /\ h2.tags[t] = "reloaded" => Back(log2, CellOf(t), r)
    BY DEF Tracked
  <2>1. /\ t \in DOMAIN h.tags /\ h2.tags[t] = h.tags[t]
        /\ h.tags[t] = "gpu" => ~Writes(e.run, CellOf(t))
    BY <1>6
  <2>2. /\ h.tags[t] = "gpu" => Stays(log, CellOf(t), r)
        /\ h.tags[t] = "cpu" => Away(log, CellOf(t), r)
        /\ h.tags[t] = "reloaded" => Back(log, CellOf(t), r)
    BY <1>1, <2>1 DEF Tracked
  <2>3. h.tags[t] = "gpu" => Stays(log2, CellOf(t), r)
    BY <1>4, <2>1, <2>2, StaysOn
  <2>4. h.tags[t] = "cpu" => Away(log2, CellOf(t), r)
    BY <1>4, <2>2, AwayOn
  <2>5. h.tags[t] = "reloaded" => Back(log2, CellOf(t), r)
    BY <1>4, <2>2, BackOn
  <2> QED BY <2>1, <2>3, <2>4, <2>5
<1>13. Guarded(log2, h2.buf)
  BY <1>1, <1>4, GuardedOn
<1>14. Met(log2, k)
  BY <1>3, <1>4, MetOn
<1>15. Sound(log2, st2, h2, r)
  BY <1>5, <1>11, <1>12, <1>13 DEF Sound
<1> QED BY <1>5, <1>14, <1>15 DEF st2, op

-----------------------------------------------------------------------------
(* The streams run                                                         *)

(* The fields of an operation. *)
LEMMA OperationsAre ==
  ASSUME NEW op \in Operation
  PROVE  /\ op.op = "wait" => op.on \in Stream /\ op.upto \in Nat
         /\ op.op = "forward" => op.group \in Group /\ op.round \in Nat
         /\ op.op = "backward" =>
              /\ op.group \in Group /\ op.round \in Nat
              /\ op.reads \in [DOMAIN Saved -> {"gpu", "reloaded"}]
BY DEF Operation

(* An entry of the log. *)
LEMMA EntriesAre ==
  ASSUME NEW log, IsLog(log), NEW s \in Stream, NEW x \in DOMAIN log[s]
  PROVE  /\ log[s][x].run \in Operation /\ log[s][x].round \in Nat
         /\ log[s][x].run.op \in Work(s)
         /\ x \in Nat \ {0}
<1>1. log[s] \in Seq(Entry)
  BY DEF IsLog
<1> DEFINE q == log[s]
<1>2. q \in Seq(Entry) /\ x \in DOMAIN q
  BY <1>1
<1> HIDE DEF q
<1>3. q[x] \in Entry /\ x \in Nat \ {0}
  BY <1>2
<1>4. q[x].run \in Operation /\ q[x].round \in Nat
  BY <1>3 DEF Entry
<1>5. q[x].run.op \in Work(s)
  BY DEF IsLog, q
<1> QED BY <1>3, <1>4, <1>5 DEF q

(* What a stream has waited for has run.                                   *)
LEMMA WaitedRan ==
  ASSUME NEW log, IsLog(log), NEW ran \in [Stream -> Nat],
         \A s \in Stream : 1..ran[s] \subseteq DOMAIN log[s],
         Obeyed(log, ran), NEW u \in Stream, NEW x \in Nat, x <= ran[u] + 1,
         NEW on, NEW n \in Nat, Waited(log, u, x, on, n)
  PROVE  ran[on] >= n
<1>1. PICK w \in 1..x - 1 : w \in DOMAIN log[u] /\ WaitsAt(log, u, w, on, n)
  BY DEF Waited
<1>2. w \in 1..ran[u] /\ log[u][w].run \in Operation
  BY <1>1, EntriesAre
<1>3. /\ log[u][w].run.op = "wait" /\ log[u][w].run.on = on
      /\ log[u][w].run.upto >= n
  BY <1>1 DEF WaitsAt
<1>4. log[u][w].run.upto \in Nat /\ on \in Stream
  BY <1>2, <1>3, OperationsAre
<1>5. ran[on] >= log[u][w].run.upto
  BY <1>2, <1>3 DEF Obeyed
<1> QED BY <1>3, <1>4, <1>5

(* What a copy copies, when its turn comes.                                *)
LEMMA CopyFinds ==
  ASSUME NEW log, SafeLog(log), NEW ran, NEW gpu, NEW host, NEW back,
         Filled(log, ran, gpu, host, back),
         NEW o \in DOMAIN log["d2h"], o = ran["d2h"] + 1, NEW m \in Cell,
         Copies(log["d2h"][o].run, m)
  PROVE  gpu[m] = log["d2h"][o].round
<1>1. /\ IsLog(log) /\ ran \in [Stream -> Nat] /\ Obeyed(log, ran)
      /\ \A s \in Stream : 1..ran[s] \subseteq DOMAIN log[s]
      /\ ran["compute"] \in Nat /\ ran["d2h"] \in Nat /\ o \in Nat
  BY StreamsAre DEF SafeLog, Filled
<1>2. PICK f \in DOMAIN log["compute"] :
        /\ log["compute"][f].run.op = "forward"
        /\ log["compute"][f].run.group = m[1]
        /\ log["compute"][f].run.round = log["d2h"][o].round
        /\ Waited(log, "d2h", o, "compute", f)
        /\ \A x \in DOMAIN log["compute"] :
             x > f /\ Writes(log["compute"][x].run, m)
               => Waited(log, "compute", x, "d2h", o)
  BY DEF SafeLog, SafeCopies, Copied
<1>3. f \in Nat \ {0}
  BY <1>1, EntriesAre, StreamsAre
<1>4. ran["compute"] >= f
  BY <1>1, <1>2, <1>3, WaitedRan, StreamsAre
<1>5. ASSUME NEW x \in f + 1..ran["compute"]
      PROVE  ~Writes(log["compute"][x].run, m)
  <2>1. x \in DOMAIN log["compute"] /\ x > f /\ x \in Nat
        /\ x <= ran["compute"] + 1
    BY <1>1, <1>3, StreamsAre
  <2>2. ~(ran["d2h"] >= o)
    BY <1>1
  <2>3. ~Waited(log, "compute", x, "d2h", o)
    BY <1>1, <2>1, <2>2, WaitedRan, StreamsAre
  <2> QED BY <1>2, <2>1, <2>3
<1>6. f \in 1..ran["compute"]
  BY <1>1, <1>3, <1>4
<1> QED BY <1>2, <1>5, <1>6 DEF Filled, FilledGpu

(* What a fetch fetches.                                                   *)
LEMMA FetchFinds ==
  ASSUME NEW log, SafeLog(log), NEW ran, NEW gpu, NEW host, NEW back,
         Filled(log, ran, gpu, host, back),
         NEW b \in DOMAIN log["h2d"], b = ran["h2d"] + 1, NEW m \in Cell,
         Fetches(log["h2d"][b].run, m)
  PROVE  host[m] = log["h2d"][b].round
<1>1. /\ IsLog(log) /\ ran \in [Stream -> Nat] /\ Obeyed(log, ran)
      /\ \A s \in Stream : 1..ran[s] \subseteq DOMAIN log[s]
      /\ ran["compute"] \in Nat /\ ran["d2h"] \in Nat /\ ran["h2d"] \in Nat
      /\ b \in Nat
  BY StreamsAre DEF SafeLog, Filled
<1>2. PICK o \in DOMAIN log["d2h"] :
        /\ Copies(log["d2h"][o].run, m)
        /\ log["d2h"][o].round = log["h2d"][b].round
        /\ \E w \in DOMAIN log["compute"] :
             /\ WaitsAt(log, "compute", w, "d2h", o)
             /\ Waited(log, "h2d", b, "compute", w)
        /\ \A x \in DOMAIN log["d2h"] :
             x > o /\ Copies(log["d2h"][x].run, m) =>
               \E w \in DOMAIN log["compute"] :
                 /\ WaitsAt(log, "compute", w, "h2d", b)
                 /\ Waited(log, "d2h", x, "compute", w)
  BY DEF SafeLog, SafeFetches, Fetched
<1>3. o \in Nat \ {0}
  BY <1>1, EntriesAre, StreamsAre
<1>4. ASSUME NEW u \in Stream, NEW y \in Nat, y <= ran[u] + 1,
             NEW w \in DOMAIN log["compute"], NEW on \in Stream, NEW n \in Nat,
             WaitsAt(log, "compute", w, on, n), Waited(log, u, y, "compute", w)
      PROVE  ran[on] >= n
  <2>1. w \in Nat \ {0} /\ w + 1 \in Nat
    BY <1>1, EntriesAre, StreamsAre
  <2>2. ran["compute"] >= w
    BY <1>1, <1>4, <2>1, WaitedRan
  <2>3. Waited(log, "compute", w + 1, on, n)
    BY <1>4, <2>1 DEF Waited
  <2> QED BY <1>1, <2>1, <2>2, <2>3, WaitedRan, StreamsAre
<1>5. ran["d2h"] >= o
  BY <1>1, <1>2, <1>3, <1>4, StreamsAre
<1>6. ASSUME NEW x \in o + 1..ran["d2h"]
      PROVE  ~Copies(log["d2h"][x].run, m)
  <2>1. x \in DOMAIN log["d2h"] /\ x > o /\ x \in Nat /\ x <= ran["d2h"] + 1
    BY <1>1, <1>3, StreamsAre
  <2>2. ~(ran["h2d"] >= b)
    BY <1>1
  <2> QED BY <1>1, <1>2, <1>4, <2>1, <2>2, StreamsAre
<1>7. o \in 1..ran["d2h"]
  BY <1>1, <1>3, <1>5
<1> QED BY <1>2, <1>6, <1>7 DEF Filled, FilledPinned

(* What a backward pass reads.                                             *)
LEMMA ReadFinds ==
  ASSUME NEW log, SafeLog(log), NEW ran, NEW gpu, NEW host, NEW back,
         Filled(log, ran, gpu, host, back),
         NEW c \in DOMAIN log["compute"], c = ran["compute"] + 1,
         log["compute"][c].run.op = "backward", NEW i \in DOMAIN Saved
  PROVE  LET op == log["compute"][c].run
             m == <<op.group, Saved[i]>>
         IN op.round = IF op.reads[i] = "gpu" THEN gpu[m] ELSE back[m]
<1> DEFINE op == log["compute"][c].run
           m == <<op.group, Saved[i]>>
<1>1. /\ IsLog(log) /\ ran \in [Stream -> Nat] /\ Obeyed(log, ran)
      /\ \A s \in Stream : 1..ran[s] \subseteq DOMAIN log[s]
      /\ ran["compute"] \in Nat /\ ran["d2h"] \in Nat /\ ran["h2d"] \in Nat
      /\ c \in Nat
  BY StreamsAre DEF SafeLog, Filled
<1>2. Read(log, c)
  BY DEF SafeLog, SafeReads
<1>3. m \in Cell
  <2>1. op \in Operation
    BY <1>1, EntriesAre, StreamsAre
  <2>2. op.group \in Group
    BY <2>1, OperationsAre
  <2>3. Saved[i] \in Storage
    BY DEF Storage
  <2> QED BY <2>2, <2>3 DEF Cell
<1>4. CASE op.reads[i] = "gpu"
  <2>1. FromWritten(log, c, m)
    BY <1>2, <1>4 DEF Read
  <2> HIDE DEF m
  <2>2. PICK f \in 1..c - 1 :
          /\ log["compute"][f].run.op = "forward"
          /\ log["compute"][f].run.group = m[1]
          /\ log["compute"][f].run.round = log["compute"][c].run.round
          /\ \A x \in f + 1..c - 1 : ~Writes(log["compute"][x].run, m)
    BY <2>1 DEF FromWritten
  <2>3. c - 1 = ran["compute"]
    BY <1>1
  <2>4. gpu[m] = log["compute"][f].run.round
    BY <1>3, <2>2, <2>3 DEF Filled, FilledGpu
  <2> QED BY <1>4, <2>2, <2>4 DEF m
<1>5. CASE op.reads[i] # "gpu"
  <2>1. FromFetched(log, c, m)
    BY <1>2, <1>5 DEF Read
  <2> HIDE DEF m
  <2>2. PICK b \in DOMAIN log["h2d"] :
          /\ Fetches(log["h2d"][b].run, m)
          /\ log["h2d"][b].round = log["compute"][c].run.round
          /\ Waited(log, "compute", c, "h2d", b)
          /\ \A x \in DOMAIN log["h2d"] :
               x > b /\ Replaces(log["h2d"][x].run, m)
                 => Waited(log, "h2d", x, "compute", c)
    BY <2>1 DEF FromFetched
  <2>3. b \in Nat \ {0}
    BY <1>1, EntriesAre, StreamsAre
  <2>4. ran["h2d"] >= b
    BY <1>1, <2>2, <2>3, WaitedRan, StreamsAre
  <2>5. ASSUME NEW x \in b + 1..ran["h2d"]
        PROVE  ~Replaces(log["h2d"][x].run, m)
    <3>1. x \in DOMAIN log["h2d"] /\ x > b /\ x \in Nat /\ x <= ran["h2d"] + 1
      BY <1>1, <2>3, StreamsAre
    <3>2. ~(ran["compute"] >= c)
      BY <1>1
    <3>3. ~Waited(log, "h2d", x, "compute", c)
      BY <1>1, <3>1, <3>2, WaitedRan, StreamsAre
    <3> QED BY <2>2, <3>1, <3>3
  <2>6. b \in 1..ran["h2d"]
    BY <1>1, <2>3, <2>4
  <2>7. back[m] = log["h2d"][b].round
    BY <1>3, <2>2, <2>5, <2>6 DEF Filled, FilledBlock
  <2> QED BY <1>5, <2>2, <2>7 DEF m
<1> QED BY <1>4, <1>5

(* One more operation has run, and the waits were obeyed. *)
LEMMA RanFurther ==
  ASSUME NEW log, IsLog(log), NEW ran \in [Stream -> Nat],
         \A s \in Stream : 1..ran[s] \subseteq DOMAIN log[s],
         Obeyed(log, ran), NEW u \in Stream, NEW x \in DOMAIN log[u],
         x = ran[u] + 1,
         log[u][x].run.op = "wait" =>
           ran[log[u][x].run.on] >= log[u][x].run.upto,
         NEW ran2, ran2 = [ran EXCEPT ![u] = x]
  PROVE  /\ ran2 \in [Stream -> Nat] /\ Obeyed(log, ran2)
         /\ \A s \in Stream : 1..ran2[s] \subseteq DOMAIN log[s]
<1>1. /\ ran2 \in [Stream -> Nat] /\ ran2[u] = x
      /\ \A s \in Stream : s # u => ran2[s] = ran[s]
      /\ x \in Nat
  BY EntriesAre
<1>2. \A s \in Stream : ran[s] \in Nat /\ ran2[s] \in Nat /\ ran2[s] >= ran[s]
  BY <1>1
<1>3. \A s \in Stream : \A w \in 1..ran2[s] :
        w \in 1..ran[s] \/ (s = u /\ w = x)
  <2> SUFFICES ASSUME NEW s \in Stream, NEW w \in 1..ran2[s]
               PROVE  w \in 1..ran[s] \/ (s = u /\ w = x)
    OBVIOUS
  <2>1. CASE s = u
    BY <1>1, <1>2, <2>1
  <2>2. CASE s # u
    BY <1>1, <2>2
  <2> QED BY <2>1, <2>2
<1>4. \A s \in Stream : 1..ran2[s] \subseteq DOMAIN log[s]
  BY <1>3
<1>5. ASSUME NEW s \in Stream, NEW w \in 1..ran2[s], log[s][w].run.op = "wait"
      PROVE  ran2[log[s][w].run.on] >= log[s][w].run.upto
  <2>1. w \in DOMAIN log[s]
    BY <1>4
  <2>2. log[s][w].run \in Operation
    BY <2>1, EntriesAre
  <2>3. log[s][w].run.on \in Stream /\ log[s][w].run.upto \in Nat
    BY <1>5, <2>2, OperationsAre
  <2>4. ran[log[s][w].run.on] >= log[s][w].run.upto
    BY <1>3, <1>5 DEF Obeyed
  <2> QED BY <1>2, <2>3, <2>4
<1> QED BY <1>1, <1>4, <1>5 DEF Obeyed

(* The memory of the compute stream, one operation later. *)
LEMMA FilledGpuOn ==
  ASSUME NEW log, NEW n \in Nat, NEW gpu, NEW gpu2, FilledGpu(log, n, gpu),
         \A m \in Cell :
           LET op == log["compute"][n + 1].run
           IN /\ op.op = "forward" /\ m[1] = op.group => gpu2[m] = op.round
              /\ ~Writes(op, m) => gpu2[m] = gpu[m]
  PROVE  FilledGpu(log, n + 1, gpu2)
<1> SUFFICES ASSUME NEW m \in Cell, NEW f \in 1..n + 1,
                    log["compute"][f].run.op = "forward",
                    log["compute"][f].run.group = m[1],
                    \A x \in f + 1..n + 1 : ~Writes(log["compute"][x].run, m)
             PROVE  gpu2[m] = log["compute"][f].run.round
  BY DEF FilledGpu
<1>1. CASE f = n + 1
  BY <1>1
<1>2. CASE f \in 1..n
  <2>1. n + 1 \in f + 1..n + 1 /\ \A x \in f + 1..n : x \in f + 1..n + 1
    BY <1>2
  <2>2. gpu[m] = log["compute"][f].run.round
    BY <1>2, <2>1 DEF FilledGpu
  <2> QED BY <2>1, <2>2
<1> QED BY <1>1, <1>2

(* The pinned memory, one operation later. *)
LEMMA FilledPinnedOn ==
  ASSUME NEW log, NEW n \in Nat, NEW host, NEW host2,
         FilledPinned(log, n, host),
         \A m \in Cell :
           LET op == log["d2h"][n + 1].run
           IN host2[m] = IF Copies(op, m) THEN log["d2h"][n + 1].round
                         ELSE host[m]
  PROVE  FilledPinned(log, n + 1, host2)
<1> SUFFICES ASSUME NEW m \in Cell, NEW o \in 1..n + 1,
                    Copies(log["d2h"][o].run, m),
                    \A x \in o + 1..n + 1 : ~Copies(log["d2h"][x].run, m)
             PROVE  host2[m] = log["d2h"][o].round
  BY DEF FilledPinned
<1>1. CASE o = n + 1
  BY <1>1
<1>2. CASE o \in 1..n
  <2>1. n + 1 \in o + 1..n + 1 /\ \A x \in o + 1..n : x \in o + 1..n + 1
    BY <1>2
  <2>2. host[m] = log["d2h"][o].round
    BY <1>2, <2>1 DEF FilledPinned
  <2> QED BY <2>1, <2>2
<1> QED BY <1>1, <1>2

(* The memory of h2d, one operation later. *)
LEMMA FilledBlockOn ==
  ASSUME NEW log, NEW n \in Nat, NEW back, NEW back2,
         FilledBlock(log, n, back),
         \A m \in Cell :
           LET op == log["h2d"][n + 1].run
           IN /\ Fetches(op, m) => back2[m] = log["h2d"][n + 1].round
              /\ ~Replaces(op, m) => back2[m] = back[m]
  PROVE  FilledBlock(log, n + 1, back2)
<1> SUFFICES ASSUME NEW m \in Cell, NEW b \in 1..n + 1,
                    Fetches(log["h2d"][b].run, m),
                    \A x \in b + 1..n + 1 : ~Replaces(log["h2d"][x].run, m)
             PROVE  back2[m] = log["h2d"][b].round
  BY DEF FilledBlock
<1>1. CASE b = n + 1
  BY <1>1
<1>2. CASE b \in 1..n
  <2>1. n + 1 \in b + 1..n + 1 /\ \A x \in b + 1..n : x \in b + 1..n + 1
    BY <1>2
  <2>2. back[m] = log["h2d"][b].round
    BY <1>2, <2>1 DEF FilledBlock
  <2> QED BY <2>1, <2>2
<1> QED BY <1>1, <1>2

(* A stream runs what is next for it: the memory is then what the log says *)
(* it is.                                                                  *)
LEMMA RunOne ==
  ASSUME NEW log, SafeLog(log), NEW ran, Filled(log, ran, hbm, pinned, block),
         NEW s \in Stream, NEW x \in DOMAIN log[s], x = ran[s] + 1,
         log[s][x].run.op = "wait" =>
           ran[log[s][x].run.on] >= log[s][x].run.upto,
         Effect(log[s][x].run)
  PROVE  Filled(log, [ran EXCEPT ![s] = x], hbm', pinned', block')
<1> DEFINE op == log[s][x].run
<1> PICK ran2 : ran2 = [ran EXCEPT ![s] = x]
  OBVIOUS
<1>1. /\ IsLog(log) /\ ran \in [Stream -> Nat] /\ Obeyed(log, ran)
      /\ \A u \in Stream : 1..ran[u] \subseteq DOMAIN log[u]
  BY DEF SafeLog, Filled
<1>2. /\ ran2 \in [Stream -> Nat] /\ Obeyed(log, ran2)
      /\ \A u \in Stream : 1..ran2[u] \subseteq DOMAIN log[u]
  <2>1. IsLog(log) /\ ran \in [Stream -> Nat] /\ Obeyed(log, ran)
    BY <1>1
  <2>2. \A u \in Stream : 1..ran[u] \subseteq DOMAIN log[u]
    BY <1>1
  <2> QED BY <2>1, <2>2, RanFurther
<1>3. /\ ran2[s] = x /\ \A u \in Stream : u # s => ran2[u] = ran[u]
      /\ \A u \in Stream : ran[u] \in Nat
  BY <1>1
<1>4. /\ op \in Operation /\ op.op \in Work(s) /\ log[s][x].round \in Nat
  BY <1>1, EntriesAre
<1>5. /\ hbm \in [Cell -> Nat] /\ pinned \in [Cell -> Nat]
      /\ block \in [Cell -> Nat]
      /\ FilledGpu(log, ran["compute"], hbm)
      /\ FilledPinned(log, ran["d2h"], pinned)
      /\ FilledBlock(log, ran["h2d"], block)
  BY DEF Filled
<1>6. Effect(op)
  OBVIOUS
<1>7. CASE op.op = "wait"
  <2>1. hbm' = hbm /\ pinned' = pinned /\ block' = block
    BY <1>6, <1>7 DEF Effect, memory
  <2>2. FilledGpu(log, ran2["compute"], hbm)
    <3>1. CASE s # "compute"
      BY <1>3, <1>5, <3>1, StreamsAre
    <3>2. CASE s = "compute"
      <4>1. \A m \in Cell : ~Writes(op, m) /\ op.op # "forward"
        BY <1>7 DEF Writes
      <4>2. ran["compute"] + 1 = ran2["compute"] /\ ran["compute"] \in Nat
        BY <1>3, <3>2
      <4>3. FilledGpu(log, ran["compute"] + 1, hbm)
        BY <1>5, <3>2, <4>1, <4>2, FilledGpuOn
      <4> QED BY <4>2, <4>3
    <3> QED BY <3>1, <3>2
  <2>3. FilledPinned(log, ran2["d2h"], pinned)
    <3>1. CASE s # "d2h"
      BY <1>3, <1>5, <3>1, StreamsAre
    <3>2. CASE s = "d2h"
      <4>1. \A m \in Cell : ~Copies(op, m)
        BY <1>7 DEF Copies
      <4>2. ran["d2h"] + 1 = ran2["d2h"] /\ ran["d2h"] \in Nat
        BY <1>3, <3>2
      <4>3. FilledPinned(log, ran["d2h"] + 1, pinned)
        BY <1>5, <3>2, <4>1, <4>2, FilledPinnedOn
      <4> QED BY <4>2, <4>3
    <3> QED BY <3>1, <3>2
  <2>4. FilledBlock(log, ran2["h2d"], block)
    <3>1. CASE s # "h2d"
      BY <1>3, <1>5, <3>1, StreamsAre
    <3>2. CASE s = "h2d"
      <4>1. \A m \in Cell : ~Fetches(op, m)
        BY <1>7 DEF Fetches
      <4>2. ran["h2d"] + 1 = ran2["h2d"] /\ ran["h2d"] \in Nat
        BY <1>3, <3>2
      <4>3. FilledBlock(log, ran["h2d"] + 1, block)
        BY <1>5, <3>2, <4>1, <4>2, FilledBlockOn
      <4> QED BY <4>2, <4>3
    <3> QED BY <3>1, <3>2
  <2> QED BY <1>2, <1>5, <2>1, <2>2, <2>3, <2>4 DEF Filled
<1>8. CASE op.op \in {"forward", "backward"}
  <2>1. s = "compute"
    BY <1>4, <1>8 DEF Work, Stream
  <2>2. pinned' = pinned /\ block' = block
    BY <1>6, <1>8 DEF Effect
  <2>3. /\ hbm' \in [Cell -> Nat]
        /\ \A m \in Cell :
             /\ op.op = "forward" /\ m[1] = op.group => hbm'[m] = op.round
             /\ ~Writes(op, m) => hbm'[m] = hbm[m]
    <3>1. CASE op.op = "forward"
      <4>1. op.round \in Nat
        BY <1>4, <3>1, OperationsAre
      <4>2. hbm' = [m \in Cell |->
                      IF m[1] = op.group THEN op.round
                      ELSE IF m \in op.takes THEN 0 ELSE hbm[m]]
        BY <1>6, <3>1 DEF Effect, Cell
      <4> HIDE DEF op
      <4> QED BY <1>5, <3>1, <4>1, <4>2 DEF Writes
    <3>2. CASE op.op = "backward"
      <4>1. hbm' = [m \in Cell |-> IF m \in op.takes THEN 0 ELSE hbm[m]]
        BY <1>6, <3>2 DEF Effect, Cell, Wiped
      <4> HIDE DEF op
      <4> QED BY <1>5, <3>2, <4>1 DEF Writes
    <3> QED BY <1>8, <3>1, <3>2
  <2>4. ran["compute"] + 1 = ran2["compute"] /\ ran["compute"] \in Nat
    BY <1>3, <2>1
  <2>5. FilledGpu(log, ran["compute"] + 1, hbm')
    BY ZenonT(30), <1>5, <2>1, <2>3, <2>4, FilledGpuOn
  <2>6. ran2["d2h"] = ran["d2h"] /\ ran2["h2d"] = ran["h2d"]
    BY <1>3, <2>1, StreamsAre
  <2> QED BY <1>2, <1>5, <2>2, <2>3, <2>4, <2>5, <2>6 DEF Filled
<1>9. CASE op.op = "offload"
  <2>1. s = "d2h"
    BY <1>4, <1>9 DEF Work, Stream
  <2>2. hbm' = hbm /\ block' = block
    BY <1>6, <1>9 DEF Effect
  <2>3. pinned' = [m \in Cell |->
                     IF m[1] = op.group /\ m[2] \in op.keys THEN hbm[m]
                     ELSE pinned[m]]
    BY <1>6, <1>9 DEF Effect, Cell
  <2>4. \A m \in Cell : Copies(op, m) => hbm[m] = log["d2h"][x].round
    BY <2>1, CopyFinds
  <2>5. /\ pinned' \in [Cell -> Nat]
        /\ \A m \in Cell :
             pinned'[m] = IF Copies(op, m) THEN log["d2h"][x].round
                          ELSE pinned[m]
    <3>1. \A m \in Cell : Copies(op, m) <=> m[1] = op.group /\ m[2] \in op.keys
      BY <1>9 DEF Copies
    <3> HIDE DEF op
    <3> QED BY <1>5, <2>3, <2>4, <3>1
  <2>6. ran["d2h"] + 1 = ran2["d2h"] /\ ran["d2h"] \in Nat
    BY <1>3, <2>1
  <2>7. FilledPinned(log, ran["d2h"] + 1, pinned')
    BY <1>5, <2>1, <2>5, <2>6, FilledPinnedOn
  <2>8. ran2["compute"] = ran["compute"] /\ ran2["h2d"] = ran["h2d"]
    BY <1>3, <2>1, StreamsAre
  <2> QED BY <1>2, <1>5, <2>2, <2>5, <2>6, <2>7, <2>8 DEF Filled
<1>10. CASE op.op = "reload"
  <2>1. s = "h2d"
    BY <1>4, <1>10 DEF Work, Stream
  <2>2. hbm' = hbm /\ pinned' = pinned
    BY <1>6, <1>10 DEF Effect
  <2>3. block' = [m \in Cell |->
                    IF m[1] = op.group /\ m[2] \in op.keys THEN pinned[m]
                    ELSE IF m \in op.takes THEN 0 ELSE block[m]]
    BY <1>6, <1>10 DEF Effect, Cell
  <2>4. \A m \in Cell : Fetches(op, m) => pinned[m] = log["h2d"][x].round
    BY <2>1, FetchFinds
  <2>5. /\ block' \in [Cell -> Nat]
        /\ \A m \in Cell : /\ Fetches(op, m) => block'[m] = log["h2d"][x].round
                           /\ ~Replaces(op, m) => block'[m] = block[m]
    <3>1. \A m \in Cell :
            /\ Fetches(op, m) <=> m[1] = op.group /\ m[2] \in op.keys
            /\ Replaces(op, m) <=> Fetches(op, m) \/ m \in op.takes
      BY <1>10 DEF Fetches, Replaces
    <3> HIDE DEF op
    <3> QED BY <1>5, <2>3, <2>4, <3>1
  <2>6. ran["h2d"] + 1 = ran2["h2d"] /\ ran["h2d"] \in Nat
    BY <1>3, <2>1
  <2>7. FilledBlock(log, ran["h2d"] + 1, block')
    BY <1>5, <2>1, <2>5, <2>6, FilledBlockOn
  <2>8. ran2["compute"] = ran["compute"] /\ ran2["d2h"] = ran["d2h"]
    BY <1>3, <2>1, StreamsAre
  <2> QED BY <1>2, <1>5, <2>2, <2>5, <2>6, <2>7, <2>8 DEF Filled
<1>11. op.op \in {"wait", "forward", "backward", "offload", "reload"}
  BY <1>4 DEF Work, Stream
<1> QED BY <1>7, <1>8, <1>9, <1>10, <1>11

-----------------------------------------------------------------------------
(* From one state to the next, of the same model                           *)

(* The memory and the operations depend on the model alone. *)
LEMMA SameCells ==
  ASSUME shape' = shape
  PROVE  Cell' = Cell /\ Operation' = Operation /\ Entry' = Entry
<1>1. Group' = Group
  BY DEF Group
<1>2. Cell' = Cell
  BY <1>1 DEF Cell, Storage
<1>3. Operation' = Operation
  BY <1>1, <1>2 DEF Operation, Storage, Stream
<1> QED BY <1>2, <1>3 DEF Entry

(* And so does whether a log is safe. *)
LEMMA SameLog ==
  ASSUME shape' = shape, NEW log
  PROVE  SafeLog(log)' <=> SafeLog(log)
<1>1. IsLog(log)' <=> IsLog(log)
  BY SameCells DEF IsLog
<1>2. SafeCopies(log)' <=> SafeCopies(log)
  BY SameCells DEF SafeCopies
<1>3. SafeFetches(log)' <=> SafeFetches(log)
  BY SameCells DEF SafeFetches
<1>4. SafeReads(log)' <=> SafeReads(log)
  BY DEF SafeReads
<1> QED BY <1>1, <1>2, <1>3, <1>4 DEF SafeLog

(* What is sound for the next state's variables is so in that state. *)
LEMMA SoundNext ==
  ASSUME shape' = shape, NEW log, Sound(log, streams', handler', round')
  PROVE  Sound(log, streams, handler, round)'
<1>1. SafeLog(log)'
  BY SameLog DEF Sound
<1>2. Given(log, streams)'
  BY SameCells DEF Sound, Given
<1>3. Tracked(log, handler, round)'
  BY DEF Sound, Tracked
<1>4. Guarded(log, handler.buf)'
  BY SameCells DEF Sound, Guarded
<1> QED BY <1>1, <1>2, <1>3, <1>4 DEF Sound

(* The same for the memory. *)
LEMMA FilledNext ==
  ASSUME shape' = shape, NEW log, Filled(log, Ran', hbm', pinned', block')
  PROVE  Filled(log, Ran, hbm, pinned, block)'
<1>1. Ran' \in [Stream -> Nat]
      /\ \A s \in Stream : 1..Ran'[s] \subseteq DOMAIN log[s]
  BY DEF Filled
<1>2. hbm' \in [Cell' -> Nat] /\ pinned' \in [Cell' -> Nat]
      /\ block' \in [Cell' -> Nat]
  BY SameCells DEF Filled
<1>3. Obeyed(log, Ran)'
  BY DEF Filled, Obeyed
<1>4. FilledGpu(log, Ran["compute"], hbm)'
  BY SameCells DEF Filled, FilledGpu
<1>5. FilledPinned(log, Ran["d2h"], pinned)'
  BY SameCells DEF Filled, FilledPinned
<1>6. FilledBlock(log, Ran["h2d"], block)'
  BY SameCells DEF Filled, FilledBlock
<1> QED BY <1>1, <1>2, <1>3, <1>4, <1>5, <1>6 DEF Filled

(* What is next on a stream is next on the log.                            *)
LEMMA NextOne ==
  ASSUME NEW log, IsLog(log), NEW st, Given(log, st), NEW s \in Stream,
         st.queue[s] # <<>>
  PROVE  /\ RanOf(st, s) + 1 \in DOMAIN log[s]
         /\ Head(st.queue[s]) = log[s][RanOf(st, s) + 1].run
<1> DEFINE q == st.queue[s]
           L == Len(log[s])
           n == Len(q)
<1>1. /\ q \in Seq(Operation) /\ log[s] \in Seq(Entry)
      /\ st.issued[s] = L /\ n <= L
      /\ \A i \in 1..n : q[i] = log[s][L - n + i].run
  BY DEF Given, IsLog
<1>2. q # <<>>
  OBVIOUS
<1> HIDE DEF q
<1>3. n \in Nat /\ n > 0 /\ L \in Nat /\ Head(q) = q[1]
      /\ DOMAIN log[s] = 1..L
  BY <1>1, <1>2
<1>4. RanOf(st, s) = L - n
  BY <1>1 DEF RanOf, q
<1> HIDE DEF L, n
<1>5. L - n + 1 \in 1..L /\ q[1] = log[s][L - n + 1].run
  BY <1>1, <1>3
<1> QED BY <1>3, <1>4, <1>5 DEF q

(* The place of an entry, when the queue is one shorter. *)
LEMMA Shifted ==
  ASSUME NEW n \in Nat, NEW L \in Nat, NEW i \in 1..n - 1
  PROVE  i + 1 \in 1..n /\ L - (n - 1) + i = (L - n) + (i + 1)
OBVIOUS

(* An operation taken off the queue has run; the log is the same. *)
LEMMA TakenOff ==
  ASSUME NEW log, IsLog(log), NEW st, Given(log, st), NEW s \in Stream,
         st.queue[s] # <<>>,
         NEW st2, st2 = [st EXCEPT !.queue[s] = Tail(@)]
  PROVE  /\ Given(log, st2) /\ RanOf(st2, s) = RanOf(st, s) + 1
         /\ \A u \in Stream : u # s => RanOf(st2, u) = RanOf(st, u)
<1>1. /\ st \in [queue : [Stream -> Seq(Operation)], issued : [Stream -> Nat]]
      /\ \A u \in Stream :
           /\ st.issued[u] = Len(log[u]) /\ Len(st.queue[u]) <= Len(log[u])
           /\ \A i \in 1..Len(st.queue[u]) :
                st.queue[u][i] = log[u][Len(log[u]) - Len(st.queue[u]) + i].run
  BY DEF Given
<1> PICK q : q = st.queue[s]
  OBVIOUS
<1>2. q \in Seq(Operation) /\ q # <<>>
  BY <1>1
<1>3. /\ Tail(q) \in Seq(Operation) /\ Len(Tail(q)) = Len(q) - 1
      /\ \A i \in 1..Len(q) - 1 : Tail(q)[i] = q[i + 1]
      /\ Len(q) \in Nat /\ Len(q) > 0
  BY <1>2
<1>4. /\ st2.queue = [st.queue EXCEPT ![s] = Tail(q)]
      /\ st2.issued = st.issued
      /\ st2 = [queue |-> st2.queue, issued |-> st2.issued]
  BY <1>1
<1>5. /\ st2.queue \in [Stream -> Seq(Operation)]
      /\ st2.queue[s] = Tail(q)
      /\ \A u \in Stream : u # s => st2.queue[u] = st.queue[u]
  BY <1>1, <1>3, <1>4
<1>6. ASSUME NEW u \in Stream
      PROVE  /\ st2.issued[u] = Len(log[u]) /\ Len(st2.queue[u]) <= Len(log[u])
             /\ \A i \in 1..Len(st2.queue[u]) :
                  st2.queue[u][i]
                  = log[u][Len(log[u]) - Len(st2.queue[u]) + i].run
  <2>1. CASE u # s
    BY <1>1, <1>4, <1>5, <2>1
  <2>2. CASE u = s
    <3>1. log[s] \in Seq(Entry)
      BY DEF IsLog
    <3>2. /\ Len(log[s]) \in Nat /\ Len(q) <= Len(log[s])
          /\ st2.issued[s] = Len(log[s])
          /\ \A i \in 1..Len(q) : q[i] = log[s][Len(log[s]) - Len(q) + i].run
      BY <1>1, <1>4, <3>1
    <3> PICK n : n = Len(q)
      OBVIOUS
    <3> PICK L : L = Len(log[s])
      OBVIOUS
    <3>5. /\ n \in Nat /\ n > 0 /\ L \in Nat /\ n <= L
          /\ \A i \in 1..n - 1 : Tail(q)[i] = q[i + 1]
          /\ \A i \in 1..n : q[i] = log[s][L - n + i].run
      BY <1>3, <3>2
    <3>4. Len(st2.queue[s]) = n - 1 /\ st2.issued[s] = L
      BY <1>3, <1>5, <3>2
    <3>3. ASSUME NEW i \in 1..n - 1
          PROVE  st2.queue[s][i] = log[s][L - (n - 1) + i].run
      <4>1. i + 1 \in 1..n /\ L - (n - 1) + i = (L - n) + (i + 1)
        BY <3>5, Shifted
      <4>2. st2.queue[s][i] = q[i + 1]
        BY <1>5, <3>5
      <4> QED BY <3>5, <4>1, <4>2
    <3>6. Len(st2.queue[s]) <= L
      BY <3>4, <3>5
    <3>7. \A i \in 1..Len(st2.queue[s]) :
            st2.queue[s][i] = log[s][L - Len(st2.queue[s]) + i].run
      BY <3>3, <3>4
    <3> QED BY <2>2, <3>4, <3>6, <3>7
  <2> QED BY <2>1, <2>2
<1>7. Given(log, st2)
  <2>1. st2 \in [queue : [Stream -> Seq(Operation)], issued : [Stream -> Nat]]
    BY <1>1, <1>4, <1>5
  <2> QED BY <1>6, <2>1 DEF Given
<1>8. RanOf(st2, s) = RanOf(st, s) + 1
  <2>1. st.issued[s] \in Nat
    BY <1>1
  <2>2. Len(st2.queue[s]) = Len(q) - 1 /\ st2.issued[s] = st.issued[s]
    BY <1>3, <1>4, <1>5
  <2> QED BY <1>3, <2>1, <2>2 DEF RanOf
<1>9. \A u \in Stream : u # s => RanOf(st2, u) = RanOf(st, u)
  BY <1>4, <1>5 DEF RanOf
<1> QED BY <1>7, <1>8, <1>9

(* A step of a stream keeps the log, and the memory as the log has it. *)
LEMMA StreamRuns ==
  ASSUME NEW log, Sound(log, streams, handler, round),
         Filled(log, Ran, hbm, pinned, block), NEW s \in Stream, RunStream(s)
  PROVE  /\ Sound(log, streams, handler, round)'
         /\ Filled(log, Ran, hbm, pinned, block)'
<1> DEFINE x == RanOf(streams, s) + 1
<1>1. /\ SafeLog(log) /\ IsLog(log) /\ Given(log, streams)
      /\ shape' = shape /\ handler' = handler /\ round' = round
      /\ streams.queue[s] # <<>>
      /\ streams' = [streams EXCEPT !.queue[s] = Tail(@)]
  BY DEF Sound, SafeLog, RunStream
<1>2. /\ x \in DOMAIN log[s] /\ Head(streams.queue[s]) = log[s][x].run
  BY <1>1, NextOne
<1>3. /\ Given(log, streams') /\ RanOf(streams', s) = x
      /\ \A u \in Stream : u # s => RanOf(streams', u) = RanOf(streams, u)
  BY <1>1, TakenOff
<1>4. /\ Ran = [u \in Stream |-> RanOf(streams, u)]
      /\ Ran' = [u \in Stream |-> RanOf(streams', u)]
  BY DEF Ran, Completed, RanOf
<1>5. Ran' = [Ran EXCEPT ![s] = x]
  BY <1>3, <1>4
<1>6. /\ x = Ran[s] + 1
      /\ \A u \in Stream : Completed(u) = Ran[u]
  BY <1>4 DEF Ran
<1> HIDE DEF x
<1>7. /\ log[s][x].run.op = "wait"
           => Ran[log[s][x].run.on] >= log[s][x].run.upto
      /\ Effect(log[s][x].run)
  <2>1. log[s][x].run \in Operation
    BY <1>1, <1>2, EntriesAre
  <2>2. log[s][x].run.op = "wait" => log[s][x].run.on \in Stream
    BY <2>1, OperationsAre
  <2> QED BY <1>2, <1>6, <2>2 DEF RunStream
<1>8. Filled(log, Ran', hbm', pinned', block')
  BY <1>1, <1>2, <1>5, <1>6, <1>7, RunOne
<1>9. Sound(log, streams', handler', round')
  BY <1>1, <1>3 DEF Sound
<1> QED BY <1>1, <1>8, <1>9, SoundNext, FilledNext

(* The host alone moves: nothing has run by that.                          *)
LEMMA HostAhead ==
  ASSUME NEW log, NEW log2, NEW st, NEW st2, IsLog(log), IsLog(log2),
         Ahead(log, st, log2, st2), NEW gpu, NEW host, NEW back,
         Filled(log, [s \in Stream |-> RanOf(st, s)], gpu, host, back)
  PROVE  Filled(log2, [s \in Stream |-> RanOf(st2, s)], gpu, host, back)
<1> PICK ran : ran = [s \in Stream |-> RanOf(st, s)]
  OBVIOUS
<1>1. ran = [s \in Stream |-> RanOf(st2, s)]
  BY DEF Ahead
<1>2. Filled(log, ran, gpu, host, back)
  OBVIOUS
<1>3. /\ ran \in [Stream -> Nat]
      /\ {gpu, host, back} \subseteq [Cell -> Nat]
  BY <1>2 DEF Filled
<1>4. \A s \in Stream : \A x \in 1..ran[s] :
        /\ x \in DOMAIN log[s] /\ x \in DOMAIN log2[s]
        /\ log2[s][x] = log[s][x]
  BY <1>2 DEF Filled, Ahead
<1>5. \A s \in Stream : 1..ran[s] \subseteq DOMAIN log2[s]
  BY <1>4
<1>6. Obeyed(log2, ran)
  BY <1>2, <1>4 DEF Filled, Obeyed
<1>7. \A s \in Stream : \A x : \A y \in x + 1..ran[s] :
        x \in 1..ran[s] => y \in 1..ran[s]
  BY <1>3
<1>8. FilledGpu(log2, ran["compute"], gpu)
  <2>1. FilledGpu(log, ran["compute"], gpu)
    BY <1>2 DEF Filled
  <2> QED BY <1>4, <1>7, <2>1, StreamsAre DEF FilledGpu
<1>9. FilledPinned(log2, ran["d2h"], host)
  <2>1. FilledPinned(log, ran["d2h"], host)
    BY <1>2 DEF Filled
  <2> QED BY <1>4, <1>7, <2>1, StreamsAre DEF FilledPinned
<1>10. FilledBlock(log2, ran["h2d"], back)
  <2>1. FilledBlock(log, ran["h2d"], back)
    BY <1>2 DEF Filled
  <2> QED BY <1>4, <1>7, <2>1, StreamsAre DEF FilledBlock
<1> QED BY <1>1, <1>3, <1>5, <1>6, <1>8, <1>9, <1>10 DEF Filled

-----------------------------------------------------------------------------
(* What each step of the host adds to the log                              *)

(* The memory of a tag. *)
LEMMA CellsOf ==
  ASSUME Shaped, NEW p \in 0..shape.layers, NEW t \in SomeTags(p)
  PROVE  /\ CellOf(t) \in Cell /\ Saved[t[2]] \in Storage
         /\ t[1] \in 0..p - 1
<1>1. t = <<t[1], t[2]>> /\ t[1] \in 0..p - 1 /\ t[2] \in DOMAIN Saved
  BY SomeTagsAre
<1>2. Saved[t[2]] \in Storage
  BY <1>1 DEF Storage
<1>3. t[1] \in Group
  BY <1>1 DEF Group, Shaped
<1> QED BY <1>1, <1>2, <1>3 DEF Cell, CellOf

(* All the cells of a saved layer have a tag.                              *)
LEMMA TagFor ==
  ASSUME NEW p \in Nat, NEW m \in Cell, m[1] \in 0..p - 1
  PROVE  \E t \in SomeTags(p) : CellOf(t) = m /\ t[1] = m[1]
<1>1. m = <<m[1], m[2]>> /\ m[2] \in Storage
  BY DEF Cell
<1>2. PICK i \in DOMAIN Saved : Saved[i] = m[2]
  BY <1>1 DEF Storage
<1>3. <<m[1], i>> \in SomeTags(p)
  BY SomeTagsAre
<1>4. CellOf(<<m[1], i>>) = m
  BY <1>1, <1>2 DEF CellOf
<1> QED BY <1>3, <1>4

(* What the handler still refers to is not given away.                     *)
LEMMA NotTaken ==
  ASSUME NEW h, NEW p \in Nat, DOMAIN h.tags = SomeTags(p),
         NEW t \in SomeTags(p)
  PROVE  /\ h.tags[t] = "gpu" \/ t \in h.buf => CellOf(t) \notin Dropped(h)
         /\ h.tags[t] = "reloaded" => CellOf(t) \notin Returned(h)
<1>1. t = <<t[1], t[2]>> /\ t[2] \in DOMAIN Saved
  BY SomeTagsAre
<1>2. /\ CellOf(t)[1] = t[1] /\ CellOf(t)[2] = Saved[t[2]]
      /\ t = <<CellOf(t)[1], t[2]>>
  BY <1>1 DEF CellOf
<1> QED BY <1>1, <1>2 DEF Dropped, Returned

(* Only the tags and the groups in use count for the log.                  *)
Book(p, out, back, held) ==
  [tags |-> Held(p, EarlyOnes(out), EarlyOnes(back)), buf |-> InBuf(p, held)]

(* The tags and the groups in use, one by one. *)
LEMMA BookIs ==
  ASSUME NEW p, NEW out, NEW back, NEW held
  PROVE  LET h == Book(p, out, back, held)
         IN /\ DOMAIN h.tags = SomeTags(p)
            /\ h.buf = {t \in SomeTags(p) : t[1] \in held}
            /\ \A t \in SomeTags(p) :
                 h.tags[t] = IF t[1] \in out /\ Early(t[1]) THEN "cpu"
                             ELSE IF t[1] \in back /\ Early(t[1])
                                  THEN "reloaded" ELSE "gpu"
<1>1. /\ Book(p, out, back, held).tags
         = Held(p, EarlyOnes(out), EarlyOnes(back))
      /\ Book(p, out, back, held).buf = InBuf(p, held)
  BY DEF Book
<1> QED BY <1>1 DEF Held, InBuf, EarlyOnes

(* Those of the handler, on either way. *)
LEMMA Booked ==
  /\ \A c, p, k : LET b == Book(p, IF c = 0 THEN {} ELSE UpTo(k), {}, From(k))
                  IN /\ Going(c, p, k).tags = b.tags
                     /\ Going(c, p, k).buf = b.buf
  /\ \A c, p, k, n : LET b == Book(p, Before(k), Offloading \ Before(k), {})
                     IN /\ Coming(c, p, k, n).tags = b.tags
                        /\ Coming(c, p, k, n).buf = b.buf
<1>1. ASSUME NEW c, NEW p, NEW k
      PROVE  LET b == Book(p, IF c = 0 THEN {} ELSE UpTo(k), {}, From(k))
             IN /\ Going(c, p, k).tags = b.tags
                /\ Going(c, p, k).buf = b.buf
  <2>1. EarlyOnes({}) = {}
    BY DEF EarlyOnes
  <2>2. Going(c, p, k)
        = HandlerOf(c, k,
                    Held(p, EarlyOnes(IF c = 0 THEN {} ELSE UpTo(k)), {}),
                    InBuf(p, From(k)),
                    Names(IF c = 0 THEN {} ELSE UpTo(k)))
    BY FieldsAre DEF Going, UpTo, From
  <2> QED BY <2>1, <2>2 DEF HandlerOf, Book
<1>2. ASSUME NEW c, NEW p, NEW k, NEW n
      PROVE  LET b == Book(p, Before(k), Offloading \ Before(k), {})
             IN /\ Coming(c, p, k, n).tags = b.tags
                /\ Coming(c, p, k, n).buf = b.buf
  BY ComingAre DEF HandlerOf, Book
<1> QED BY <1>1, <1>2

(* Nothing else of the handler counts. *)
LEMMA SoundSame ==
  ASSUME NEW log, NEW st, NEW h, NEW h2, NEW r, Sound(log, st, h, r),
         h2.tags = h.tags, h2.buf = h.buf
  PROVE  Sound(log, st, h2, r)
BY DEF Sound, Tracked, Guarded

(* When all has been waited for, whatever is asked for has been. *)
LEMMA MetAny ==
  ASSUME NEW log, IsLog(log), Met(log, -1), NEW j
  PROVE  Met(log, j)
<1>1. ASSUME NEW b \in DOMAIN log["h2d"], log["h2d"][b].run.op = "reload"
      PROVE  log["h2d"][b].run.group # -1
  <2>1. log["h2d"][b].run \in Operation
    BY EntriesAre, StreamsAre
  <2>2. log["h2d"][b].run.group \in Group
    BY <1>1, <2>1 DEF Operation
  <2>3. Group \subseteq Nat
    BY DEF Group
  <2> QED BY <2>2, <2>3
<1> QED BY <1>1 DEF Met

(* A layer's forward pass goes on the log. *)
LEMMA ForwardLogs ==
  ASSUME Shaped, NEW g \in 0..shape.layers, NEW k \in Nat, HostAt(g, k),
         ForwardLayer, round \in Nat, NEW log,
         Sound(log, streams, handler, round), Met(log, -1)
  PROVE  \E log2 : /\ Sound(log2, streams', handler', round')
                   /\ Ahead(log, streams, log2, streams')
                   /\ Met(log2, -1)
<1> DEFINE out == IF g = 0 THEN {} ELSE UpTo(k)
           b == Book(g, out, {}, From(k))
           b2 == Book(g + 1, out, {}, From(k))
<1> PICK h : h = handler
  OBVIOUS
<1> PICK h2 : h2 = Going(g, g + 1, k)
  OBVIOUS
<1> PICK takes : takes = Dropped(h2)
  OBVIOUS
<1>1. /\ g \in 0..shape.layers - 1 /\ Passed(k, g) /\ g \in Group
      /\ h = Going(g, g, k) /\ g < shape.layers /\ round' = round
      /\ g \in 0..shape.layers /\ g + 1 \in 0..shape.layers
      /\ g \in Nat /\ g + 1 \in Nat
  BY DEF HostAt, ForwardLayer, Shaped, Group
<1>2. handler' = h2 /\ streams' = Issue(streams, "compute", ForwardOp(g, h2))
  BY <1>1, Forwards
<1>3. /\ h.tags = b.tags /\ h.buf = b.buf
      /\ h2.tags = b2.tags /\ h2.buf = b2.buf
  BY <1>1, Booked
<1> PICK cpu : cpu = {j \in out : Early(j)}
  OBVIOUS
<1>4. /\ DOMAIN h.tags = SomeTags(g) /\ DOMAIN h2.tags = SomeTags(g + 1)
      /\ h.buf = {t \in SomeTags(g) : t[1] \in From(k)}
      /\ h2.buf = {t \in SomeTags(g + 1) : t[1] \in From(k)}
      /\ \A t \in SomeTags(g) :
           h.tags[t] = IF t[1] \in cpu THEN "cpu" ELSE "gpu"
      /\ \A t \in SomeTags(g + 1) :
           h2.tags[t] = IF t[1] \in cpu THEN "cpu" ELSE "gpu"
  <2>1. \A t \in SomeTags(g) :
          b.tags[t] = IF t[1] \in cpu THEN "cpu" ELSE "gpu"
    BY BookIs
  <2>2. \A t \in SomeTags(g + 1) :
          b2.tags[t] = IF t[1] \in cpu THEN "cpu" ELSE "gpu"
    BY BookIs
  <2>3. /\ DOMAIN b.tags = SomeTags(g) /\ DOMAIN b2.tags = SomeTags(g + 1)
        /\ b.buf = {t \in SomeTags(g) : t[1] \in From(k)}
        /\ b2.buf = {t \in SomeTags(g + 1) : t[1] \in From(k)}
    BY BookIs
  <2> HIDE DEF b, b2, out
  <2> QED BY <1>3, <2>1, <2>2, <2>3
<1>5. g \notin cpu
  <2>1. ASSUME g \in cpu PROVE FALSE
    <3>1. g # 0 /\ g <= k /\ Early(g)
      BY <2>1 DEF UpTo
    <3>2. k <= g
      BY <1>1, PassedOn
    <3>3. g = k
      BY <1>1, <3>1, <3>2
    <3>4. k < g
      BY <3>1, <3>3, <1>1, NotBehind
    <3> QED BY <1>1, <3>3, <3>4
  <2> QED BY <2>1
<1>6. /\ \A t \in SomeTags(g) : t \in SomeTags(g + 1) /\ t[1] # g
      /\ \A t \in SomeTags(g + 1) : t[1] # g => t \in SomeTags(g)
  <2>1. \A i : i \in 0..g + 1 - 1 <=> i \in 0..g - 1 \/ i = g
    BY <1>1
  <2>2. g \notin 0..g - 1
    BY <1>1
  <2> QED BY <1>1, <2>1, <2>2, SomeTagsAre
<1>7. takes \in SUBSET Cell
  BY DEF Dropped, Cell
<1>8. \A t \in DOMAIN h.tags :
        /\ t[1] # g
        /\ h.tags[t] = "gpu" \/ t \in h.buf => CellOf(t) \notin takes
  <2> SUFFICES ASSUME NEW t \in SomeTags(g), h.tags[t] = "gpu" \/ t \in h.buf
               PROVE  CellOf(t) \notin takes
    BY <1>4, <1>6
  <2>1. t \in SomeTags(g + 1) /\ (h2.tags[t] = "gpu" \/ t \in h2.buf)
    BY <1>4, <1>6
  <2> QED BY <1>1, <1>4, <2>1, NotTaken
<1>9. \A t \in DOMAIN h2.tags :
        \/ t[1] = g /\ CellOf(t) \in Cell /\ h2.tags[t] = "gpu"
        \/ /\ t \in DOMAIN h.tags /\ h2.tags[t] = h.tags[t]
           /\ t \in h2.buf => t \in h.buf
  <2> SUFFICES ASSUME NEW t \in SomeTags(g + 1)
               PROVE  \/ t[1] = g /\ CellOf(t) \in Cell /\ h2.tags[t] = "gpu"
                      \/ /\ t \in DOMAIN h.tags /\ h2.tags[t] = h.tags[t]
                         /\ t \in h2.buf => t \in h.buf
    BY <1>4
  <2>1. CASE t[1] = g
    <3>1. CellOf(t) \in Cell
      BY <1>1, CellsOf
    <3> QED BY <1>4, <1>5, <2>1, <3>1
  <2>2. CASE t[1] # g
    BY <1>4, <1>6, <2>2
  <2> QED BY <2>1, <2>2
<1>10. h.buf \subseteq DOMAIN h.tags /\ h.buf \subseteq h2.buf
  BY <1>4, <1>6
<1> HIDE DEF out, b, b2
<1>11. Sound(log, streams, h, round)
  OBVIOUS
<1>12. \E log2 :
         /\ Sound(log2, Issue(streams, "compute",
                              [op |-> "forward", group |-> g, round |-> round,
                               takes |-> takes]), h2, round)
         /\ Ahead(log, streams, log2,
                  Issue(streams, "compute",
                        [op |-> "forward", group |-> g, round |-> round,
                         takes |-> takes]))
         /\ \A j : Met(log, j) => Met(log2, j)
  <2>1. g \in Group
    BY <1>1
  <2>2. ForwardFits(h, h2, g, takes)
    BY <1>8, <1>9, <1>10 DEF ForwardFits
  <2> QED BY <1>7, <1>11, <2>1, <2>2, AddForward
<1> PICK op : op = [op |-> "forward", group |-> g, round |-> round,
                    takes |-> takes]
  OBVIOUS
<1>13. streams' = Issue(streams, "compute", op)
  BY <1>2 DEF ForwardOp
<1> QED BY <1>1, <1>2, <1>12, <1>13

(* A layer's backward pass goes on the log; after the first layer's no     *)
(* tags are left for the next micro batch.                                 *)
LEMMA BackwardLogs ==
  ASSUME Shaped, NEW g \in 0..shape.layers, NEW k \in Nat, HostAt(g, k),
         BackwardLayer, round \in Nat, NEW log,
         Sound(log, streams, handler, round),
         Met(log, IF g = 0 THEN -1 ELSE k)
  PROVE  \E log2 : /\ Sound(log2, streams', handler', round')
                   /\ Ahead(log, streams, log2, streams')
                   /\ Met(log2, IF g = 0 THEN -1 ELSE k)
<1> DEFINE b == Book(g + 1, Before(k), Offloading \ Before(k), {})
           b2 == Book(g, Before(k), Offloading \ Before(k), {})
           n == IF g = 0 THEN 0 ELSE AtLeastOne(k)
<1> PICK h : h = handler
  OBVIOUS
<1> PICK h2 : h2 = Coming(g, g, k, n)
  OBVIOUS
<1> PICK takes : takes = Dropped(h)
  OBVIOUS
<1> PICK found : found = Found(g, k)
  OBVIOUS
<1> PICK u : u = IF g = 0 THEN -1 ELSE k
  OBVIOUS
<1>1. /\ g \in 0..shape.layers - 1 /\ Passed(k, g) /\ g \in Group
      /\ h = Coming(g, g + 1, k, n) /\ g < shape.layers
      /\ round' = IF g = 0 /\ round < Rounds THEN round + 1 ELSE round
      /\ g \in 0..shape.layers /\ g + 1 \in 0..shape.layers
      /\ g \in Nat /\ g + 1 \in Nat
  <2>1. /\ g \in 0..shape.layers /\ Passed(k, g) /\ g < shape.layers
        /\ h = Coming(g, g + 1, k, n) /\ shape.layers \in Nat
    BY DEF HostAt, BackwardLayer, Shaped
  <2>2. h.current = g
    BY <2>1 DEF Coming, Fields
  <2> QED BY <2>1, <2>2 DEF BackwardLayer, Group
<1>2. handler' = h2 /\ streams' = Issue(streams, "compute", BackwardOp(g, k))
  BY <1>1, Backwards
<1>3. /\ h.tags = b.tags /\ h.buf = b.buf
      /\ h2.tags = b2.tags /\ h2.buf = b2.buf
  BY <1>1, Booked
<1> DEFINE Where(j) == IF j \in Before(k) /\ Early(j) THEN "cpu"
                       ELSE IF j \in Offloading \ Before(k) /\ Early(j)
                            THEN "reloaded" ELSE "gpu"
<1>4. /\ DOMAIN h.tags = SomeTags(g + 1) /\ DOMAIN h2.tags = SomeTags(g)
      /\ h.buf = {} /\ h2.buf = {}
      /\ \A t \in SomeTags(g + 1) : h.tags[t] = Where(t[1])
      /\ \A t \in SomeTags(g) : h2.tags[t] = Where(t[1])
  <2>1. \A t \in SomeTags(g + 1) : b.tags[t] = Where(t[1])
    BY BookIs
  <2>2. \A t \in SomeTags(g) : b2.tags[t] = Where(t[1])
    BY BookIs
  <2>3. /\ DOMAIN b.tags = SomeTags(g + 1) /\ DOMAIN b2.tags = SomeTags(g)
        /\ b.buf = {} /\ b2.buf = {}
    BY BookIs
  <2> HIDE DEF b, b2, Where
  <2> QED BY <1>3, <2>1, <2>2, <2>3
<1>5. Where(g) = found /\ found \in {"gpu", "reloaded"}
  <2>1. g \notin Before(k)
    <3>1. ASSUME g \in Before(k) PROVE FALSE
      <4>1. g \in Offloading /\ g < k
        BY <3>1 DEF Before
      <4>2. g < g
        BY <1>1, <4>1, NotBehind
      <4> QED BY <1>1, <4>2
    <3> QED BY <3>1
  <2>2. Found(g, k) = IF g \in Offloading \ Before(k) /\ Early(g)
                      THEN "reloaded" ELSE "gpu"
    BY DEF Found, EarlyOnes
  <2> QED BY <2>1, <2>2
<1>6. found = "reloaded" => g # u
  <2>1. ASSUME found = "reloaded", g = k, g # 0 PROVE FALSE
    <3>1. Early(k) /\ k > 0
      BY <1>1, <1>5, <2>1
    <3>2. k < g
      BY <1>1, <3>1, NotBehind
    <3> QED BY <1>1, <2>1, <3>2
  <2> QED BY <1>1, <2>1
<1>7. \A t \in SomeTags(g) : t \in SomeTags(g + 1)
  <2>1. \A i \in 0..g - 1 : i \in 0..g + 1 - 1
    BY <1>1
  <2> QED BY <1>1, <2>1, SomeTagsAre
<1> HIDE DEF b, b2, n, Where
<1>8. takes \in SUBSET Cell
  BY DEF Dropped, Cell
<1>9. ASSUME NEW i \in DOMAIN Saved
      PROVE  /\ found = "gpu" => Stays(log, <<g, Saved[i]>>, round)
             /\ found = "reloaded" => Back(log, <<g, Saved[i]>>, round)
  <2> PICK t : t = <<g, i>>
    OBVIOUS
  <2>1. g \in 0..g + 1 - 1
    BY <1>1
  <2>2. t \in SomeTags(g + 1) /\ t[1] = g /\ CellOf(t) = <<g, Saved[i]>>
    BY <1>1, <2>1, SomeTagsAre DEF CellOf
  <2>3. h.tags[t] = found /\ t \in DOMAIN h.tags
    BY <1>4, <1>5, <2>2
  <2>4. Tracked(log, h, round)
    BY DEF Sound
  <2> QED BY <2>2, <2>3, <2>4 DEF Tracked
<1>10. \A t \in DOMAIN h2.tags :
         /\ t \in DOMAIN h.tags /\ h2.tags[t] = h.tags[t]
         /\ h.tags[t] = "gpu" => CellOf(t) \notin takes
  <2> SUFFICES ASSUME NEW t \in SomeTags(g)
               PROVE  /\ t \in DOMAIN h.tags /\ h2.tags[t] = h.tags[t]
                      /\ h.tags[t] = "gpu" => CellOf(t) \notin takes
    BY <1>4
  <2>1. t \in SomeTags(g + 1)
    BY <1>7
  <2>2. h.tags[t] = "gpu" => CellOf(t) \notin takes
    BY <1>1, <1>4, <2>1, NotTaken
  <2> QED BY <1>4, <2>1, <2>2
<1> PICK reads : reads = [i \in DOMAIN Saved |-> found]
  OBVIOUS
<1>11. /\ reads \in [DOMAIN Saved -> {"gpu", "reloaded"}]
       /\ \A i \in DOMAIN Saved :
            /\ reads[i] = "gpu" => Stays(log, <<g, Saved[i]>>, round)
            /\ reads[i] = "reloaded" =>
                 Back(log, <<g, Saved[i]>>, round) /\ g # u
  BY <1>5, <1>6, <1>9
<1>12. Sound(log, streams, h, round) /\ Met(log, u)
  OBVIOUS
<1>13. h.buf = {} /\ h2.buf = {}
  BY <1>4
<1>14. \E log2 :
         /\ Sound(log2, Issue(streams, "compute",
                              [op |-> "backward", group |-> g,
                               round |-> round, takes |-> takes,
                               reads |-> reads]), h2, round)
         /\ Ahead(log, streams, log2,
                  Issue(streams, "compute",
                        [op |-> "backward", group |-> g, round |-> round,
                         takes |-> takes, reads |-> reads]))
         /\ Met(log2, u)
  <2>1. g \in Group
    BY <1>1
  <2>2. BackwardFits(log, h, h2, round, g, u, takes, reads)
    BY <1>10, <1>11, <1>13 DEF BackwardFits
  <2> QED BY <1>8, <1>12, <2>1, <2>2, AddBackward
<1> PICK op : op = [op |-> "backward", group |-> g, round |-> round,
                    takes |-> takes, reads |-> reads]
  OBVIOUS
<1>15. streams' = Issue(streams, "compute", op)
  BY <1>2 DEF BackwardOp
<1>16. ASSUME NEW log2, NEW st, Sound(log2, st, h2, round)
       PROVE  Sound(log2, st, h2, round')
  <2>1. CASE g # 0
    BY <1>1, <1>16, <2>1
  <2>2. CASE g = 0
    <3>1. DOMAIN h2.tags = {}
      BY <1>4, <2>2, SomeTagsAre
    <3>2. Tracked(log2, h2, round')
      BY <3>1 DEF Tracked
    <3> QED BY <1>16, <3>2 DEF Sound
  <2> QED BY <2>1, <2>2
<1> QED BY <1>2, <1>14, <1>15, <1>16

(* The commit of the first layer copies it out. *)
LEMMA FirstLogs ==
  ASSUME Shaped, NEW g \in 0..shape.layers - 1, NEW k \in Nat, Passed(k, g),
         NEW r \in Nat, NEW log, NEW st,
         Sound(log, st, Book(g + 1, IF g = 0 THEN {} ELSE UpTo(k), {}, From(k)),
               r),
         Met(log, -1)
  PROVE  \E log2 :
           /\ Sound(log2, FirstIssued(g, st),
                    Book(g + 1, UpTo(k), {}, From(k)), r)
           /\ Ahead(log, st, log2, FirstIssued(g, st)) /\ Met(log2, -1)
<1>1. CASE g # 0
  BY <1>1, AheadSame DEF FirstIssued
<1>2. CASE g = 0
  <2> PICK h : h = Book(1, {}, {}, From(k))
    OBVIOUS
  <2> PICK h2 : h2 = Book(1, UpTo(k), {}, From(k))
    OBVIOUS
  <2> PICK s1 : s1 = WaitStream(st, "d2h", "compute")
    OBVIOUS
  <2>1. /\ k = 0 /\ 0 \in Group /\ 0 \in Offloading /\ Early(0)
        /\ 1 \in 0..shape.layers /\ g + 1 = 1
    BY <1>2, PassedFirst DEF Group, Shaped, Offloading, Early
  <2>2. PICK log1 :
          /\ Sound(log1, s1, h, r) /\ Ahead(log, st, log1, s1)
          /\ \A j : Met(log, j) => Met(log1, j)
          /\ Seen(log1, "d2h")
    <3>1. Sound(log, st, h, r)
      BY <1>2, <2>1
    <3> QED BY <3>1, AddWait, StreamsAre
  <2>3. 0 \in UpTo(k) /\ 0 \in From(k) /\ Sets(0) = Storage
    BY <2>1 DEF UpTo, From, Sets
  <2>4. /\ DOMAIN h.tags = SomeTags(1) /\ h.buf = SomeTags(1)
        /\ DOMAIN h2.tags = SomeTags(1) /\ h2.buf = SomeTags(1)
        /\ \A t \in SomeTags(1) : h2.tags[t] = "cpu" /\ t[1] = 0
    <3>1. \A t \in SomeTags(1) : t[1] = 0
      BY SomeTagsAre
    <3>2. /\ DOMAIN h.tags = SomeTags(1)
          /\ h.buf = {t \in SomeTags(1) : t[1] \in From(k)}
      BY BookIs
    <3>3. /\ DOMAIN h2.tags = SomeTags(1)
          /\ h2.buf = {t \in SomeTags(1) : t[1] \in From(k)}
          /\ \A t \in SomeTags(1) :
               t[1] \in UpTo(k) /\ Early(t[1]) => h2.tags[t] = "cpu"
      BY BookIs
    <3>4. \A t \in SomeTags(1) :
            t[1] \in From(k) /\ t[1] \in UpTo(k) /\ Early(t[1])
      BY <2>1, <2>3, <3>1
    <3>5. h.buf = SomeTags(1) /\ h2.buf = SomeTags(1)
      BY <3>2, <3>3, <3>4
    <3> QED BY <3>1, <3>2, <3>3, <3>4, <3>5
  <2>5. OffloadFits(log1, h, h2, r, 0, Sets(0))
    <3>1. ASSUME NEW m \in Cell, m[1] = 0
          PROVE  Stays(log1, m, r) /\ \E t \in h.buf : CellOf(t) = m
      <4>1. PICK t \in SomeTags(1) : CellOf(t) = m
        BY <3>1, TagFor
      <4>2. Tracked(log1, h, r)
        BY <2>2 DEF Sound
      <4> QED BY <2>4, <4>1, <4>2 DEF Tracked
    <3>2. \A t \in SomeTags(1) : CellOf(t) \in Cell /\ Saved[t[2]] \in Storage
      BY <2>1, CellsOf
    <3> QED BY <2>3, <2>4, <3>1, <3>2 DEF OffloadFits
  <2>6. Sets(0) \in SUBSET Storage
    BY <2>3
  <2>7. \E log2 :
          /\ Sound(log2, Issue(s1, "d2h", [op |-> "offload", group |-> 0,
                                           keys |-> Sets(0)]), h2, r)
          /\ Ahead(log1, s1, log2,
                   Issue(s1, "d2h", [op |-> "offload", group |-> 0,
                                     keys |-> Sets(0)]))
          /\ \A j : Met(log1, j) => Met(log2, j)
    BY <2>1, <2>2, <2>5, <2>6, AddOffload
  <2>8. FirstIssued(g, st)
        = Issue(s1, "d2h", [op |-> "offload", group |-> 0, keys |-> Sets(0)])
    BY <1>2 DEF FirstIssued, OffloadOp
  <2> QED BY <2>1, <2>2, <2>7, <2>8, AheadOn
<1> QED BY <1>1, <1>2

(* The window's end frees a group, and the next one is copied out.         *)
LEMMA FreedLogs ==
  ASSUME Shaped, NEW p \in 0..shape.layers, NEW k \in Nat,
         NEW r \in Nat, NEW log, NEW st,
         Sound(log, st, Book(p, UpTo(k), {}, From(k)), r), Met(log, -1)
  PROVE  \E log2 :
           /\ Sound(log2, MetIssued(st), Book(p, UpTo(k), {}, From(k + 1)), r)
           /\ Ahead(log, st, log2, MetIssued(st)) /\ Met(log2, -1)
           /\ Seen(log2, "d2h")
<1> PICK h : h = Book(p, UpTo(k), {}, From(k))
  OBVIOUS
<1> PICK h2 : h2 = Book(p, UpTo(k), {}, From(k + 1))
  OBVIOUS
<1> PICK s2 : s2 = MetIssued(st)
  OBVIOUS
<1>1. PICK log2 :
        /\ Sound(log2, s2, h, r) /\ Ahead(log, st, log2, s2)
        /\ \A j : Met(log, j) => Met(log2, j)
        /\ Seen(log2, "d2h") /\ AllSeen(log2, "d2h")
  BY AddMeeting DEF MetIssued
<1>2. From(k + 1) \subseteq From(k)
  BY DEF From, Offloading
<1>3. h2.tags = h.tags /\ h2.buf \subseteq h.buf
  BY <1>2 DEF Book, InBuf
<1>4. Tracked(log2, h2, r)
  BY <1>1, <1>3 DEF Sound, Tracked
<1>5. Guarded(log2, h2.buf)
  BY <1>1 DEF AllSeen, Guarded
<1>6. Sound(log2, s2, h2, r)
  BY <1>1, <1>4, <1>5 DEF Sound
<1> QED BY <1>1, <1>6

(* The next group is copied out when it has saved. *)
LEMMA NextLogs ==
  ASSUME Shaped, NEW g \in 0..shape.layers - 1, NEW k \in Nat,
         Window(k) = g, k < shape.groups - 1, NEW r \in Nat, NEW log, NEW st,
         Sound(log, st, Book(g + 1, UpTo(k), {}, From(k + 1)), r),
         Met(log, -1), Seen(log, "d2h")
  PROVE  LET st2 == Issue(st, "d2h", OffloadOp(k + 1))
         IN \E log2 :
              /\ Sound(log2, st2, Book(g + 1, UpTo(k + 1), {}, From(k + 1)), r)
              /\ Ahead(log, st, log2, st2) /\ Met(log2, -1)
<1> PICK p : p = g + 1
  OBVIOUS
<1> PICK j : j = k + 1
  OBVIOUS
<1> PICK h : h = Book(p, UpTo(k), {}, From(j))
  OBVIOUS
<1> PICK h2 : h2 = Book(p, UpTo(j), {}, From(j))
  OBVIOUS
<1>1. /\ p \in 0..shape.layers /\ p \in Nat /\ g \in Nat
      /\ j \in Group /\ j \in Nat /\ j \in Offloading
      /\ j \in From(j) /\ j \in UpTo(j) /\ j \notin UpTo(k)
      /\ \A i \in UpTo(j) : i = j \/ i \in UpTo(k)
      /\ \A i \in UpTo(k) : i \in UpTo(j)
  BY DEF Shaped, Group, Offloading, From, UpTo
<1>2. Early(j) <=> j \in 0..p - 1
  <2>1. j - 1 = k
    BY <1>1
  <2> QED BY <1>1, <2>1 DEF Early
<1>3. /\ DOMAIN h.tags = SomeTags(p) /\ DOMAIN h2.tags = SomeTags(p)
      /\ h2.buf = h.buf /\ h.buf = {t \in SomeTags(p) : t[1] \in From(j)}
      /\ \A t \in SomeTags(p) :
           /\ h.tags[t] = IF t[1] \in UpTo(k) /\ Early(t[1]) THEN "cpu"
                          ELSE "gpu"
           /\ h2.tags[t] = IF t[1] \in UpTo(j) /\ Early(t[1]) THEN "cpu"
                           ELSE "gpu"
  <2>1. /\ DOMAIN h.tags = SomeTags(p)
        /\ h.buf = {t \in SomeTags(p) : t[1] \in From(j)}
        /\ \A t \in SomeTags(p) :
             h.tags[t] = IF t[1] \in UpTo(k) /\ Early(t[1]) THEN "cpu"
                         ELSE "gpu"
    BY BookIs
  <2>2. /\ DOMAIN h2.tags = SomeTags(p)
        /\ h2.buf = {t \in SomeTags(p) : t[1] \in From(j)}
        /\ \A t \in SomeTags(p) :
             h2.tags[t] = IF t[1] \in UpTo(j) /\ Early(t[1]) THEN "cpu"
                          ELSE "gpu"
    BY BookIs
  <2> QED BY <2>1, <2>2
<1>4. ASSUME NEW m \in Cell, m[1] = j, m[2] \in Sets(j)
      PROVE  Stays(log, m, r) /\ \E t \in h.buf : CellOf(t) = m
  <2>1. m[1] \in 0..p - 1
    BY <1>2, <1>4 DEF Sets
  <2>2. PICK t \in SomeTags(p) : CellOf(t) = m /\ t[1] = j
    BY <1>1, <1>4, <2>1, TagFor
  <2>3. t \in h.buf
    BY <1>1, <1>3, <2>2
  <2>4. Tracked(log, h, r)
    BY DEF Sound
  <2> QED BY <1>3, <2>2, <2>3, <2>4 DEF Tracked
<1>5. ASSUME NEW t \in SomeTags(p)
      PROVE  IF t[1] = j
             THEN /\ h2.tags[t] = "cpu" /\ CellOf(t) \in Cell
                  /\ Saved[t[2]] \in Sets(j)
             ELSE h2.tags[t] = h.tags[t]
  <2>1. CASE t[1] = j
    <3>1. CellOf(t) \in Cell /\ Saved[t[2]] \in Storage /\ j \in 0..p - 1
      BY <1>1, <2>1, CellsOf
    <3>2. Early(j)
      BY <1>2, <3>1
    <3> QED BY <1>1, <1>3, <2>1, <3>1, <3>2 DEF Sets
  <2>2. CASE t[1] # j
    BY <1>1, <1>3, <2>2
  <2> QED BY <2>1, <2>2
<1>6. OffloadFits(log, h, h2, r, j, Sets(j))
  BY <1>3, <1>4, <1>5 DEF OffloadFits
<1>7. Sets(j) \in SUBSET Storage
  BY DEF Sets
<1>8. Sound(log, st, h, r)
  OBVIOUS
<1>9. \E log2 :
        /\ Sound(log2, Issue(st, "d2h", [op |-> "offload", group |-> j,
                                         keys |-> Sets(j)]), h2, r)
        /\ Ahead(log, st, log2,
                 Issue(st, "d2h", [op |-> "offload", group |-> j,
                                   keys |-> Sets(j)]))
        /\ \A i : Met(log, i) => Met(log2, i)
  BY <1>1, <1>6, <1>7, <1>8, AddOffload
<1>10. OffloadOp(j) = [op |-> "offload", group |-> j, keys |-> Sets(j)]
  BY DEF OffloadOp
<1> QED BY <1>9, <1>10

(* A commit goes on the log. *)
LEMMA CommitLogs ==
  ASSUME Shaped, NEW g \in 0..shape.layers, NEW k \in Nat, HostAt(g, k),
         CommitForward, round \in Nat, NEW log,
         Sound(log, streams, handler, round), Met(log, -1)
  PROVE  \E log2 : /\ Sound(log2, streams', handler', round')
                   /\ Ahead(log, streams, log2, streams')
                   /\ Met(log2, -1)
<1> PICK n : n = IF Window(k) = g THEN k + 1 ELSE k
  OBVIOUS
<1> PICK h : h = Book(g + 1, UpTo(n), {}, From(n))
  OBVIOUS
<1>1. /\ g \in 0..shape.layers - 1 /\ Passed(k, g) /\ round' = round
      /\ handler = Going(g, g + 1, k) /\ g < shape.layers
      /\ g + 1 \in 0..shape.layers
  BY DEF HostAt, CommitForward, Shaped
<1>2. /\ streams' = CommitIssued(g, k, streams)
      /\ IF g + 1 < shape.layers THEN handler' = Going(g + 1, g + 1, n)
         ELSE handler' = Coming(g + 1, g + 1, n, AtLeastOne(n))
  BY <1>1, Commits
<1>3. handler'.tags = h.tags /\ handler'.buf = h.buf
  <2>1. CASE g + 1 < shape.layers
    <3>1. g + 1 # 0
      BY <1>1
    <3> QED BY <1>2, <2>1, <3>1, Booked
  <2>2. CASE ~(g + 1 < shape.layers)
    <3>1. g + 1 = shape.layers /\ n \in Nat
      BY <1>1, <2>2 DEF Shaped
    <3>2. Passed(n, g + 1)
      BY <1>1, PassedOn
    <3>3. n = shape.groups
      BY <3>1, <3>2, PassedAll
    <3>4. /\ UpTo(n) = Offloading /\ Before(n) = Offloading
          /\ From(n) = {} /\ Offloading \ Before(n) = {}
      BY <3>3 DEF UpTo, Before, From, Offloading, Shaped
    <3>5. h = Book(g + 1, Before(n), Offloading \ Before(n), {})
      BY <3>4
    <3>6. handler' = Coming(g + 1, g + 1, n, AtLeastOne(n))
      BY <1>2, <2>2
    <3> QED BY <3>5, <3>6, Booked
  <2> QED BY <2>1, <2>2
<1>4. Sound(log, streams,
            Book(g + 1, IF g = 0 THEN {} ELSE UpTo(k), {}, From(k)), round)
  BY <1>1, Booked, SoundSame
<1> PICK s1 : s1 = FirstIssued(g, streams)
  OBVIOUS
<1>5. PICK log1 :
        /\ Sound(log1, s1, Book(g + 1, UpTo(k), {}, From(k)), round)
        /\ Ahead(log, streams, log1, s1) /\ Met(log1, -1)
  BY <1>1, <1>4, FirstLogs
<1>6. SUFFICES \E log2 : /\ Sound(log2, streams', h, round)
                         /\ Ahead(log1, s1, log2, streams')
                         /\ Met(log2, -1)
  BY <1>1, <1>3, <1>5, <1>6, SoundSame, AheadOn
<1>7. CASE Window(k) # g
  <2>1. streams' = s1 /\ n = k
    BY <1>2, <1>7 DEF CommitIssued
  <2> QED BY <1>5, <2>1, AheadSame
<1>8. CASE Window(k) = g
  <2> PICK s2 : s2 = MetIssued(s1)
    OBVIOUS
  <2>1. PICK log2 :
          /\ Sound(log2, s2, Book(g + 1, UpTo(k), {}, From(k + 1)), round)
          /\ Ahead(log1, s1, log2, s2) /\ Met(log2, -1) /\ Seen(log2, "d2h")
    BY <1>1, <1>5, FreedLogs
  <2>2. CASE k < shape.groups - 1
    <3> PICK s3 : s3 = Issue(s2, "d2h", OffloadOp(k + 1))
      OBVIOUS
    <3>1. streams' = s3 /\ n = k + 1
      BY <1>2, <1>8, <2>2 DEF CommitIssued
    <3>2. PICK log3 :
            /\ Sound(log3, s3, Book(g + 1, UpTo(k + 1), {}, From(k + 1)),
                     round)
            /\ Ahead(log2, s2, log3, s3) /\ Met(log3, -1)
      BY <1>1, <1>8, <2>1, <2>2, NextLogs
    <3> QED BY <2>1, <3>1, <3>2, AheadOn
  <2>3. CASE ~(k < shape.groups - 1)
    <3>1. streams' = s2 /\ n = k + 1
      BY <1>2, <1>8, <2>3 DEF CommitIssued
    <3>2. UpTo(k) = UpTo(k + 1)
      BY <2>3 DEF UpTo, Offloading, Shaped
    <3> QED BY <2>1, <3>1, <3>2
  <2> QED BY <2>2, <2>3
<1> QED BY <1>7, <1>8

(* A group is fetched back at the end of a window. *)
LEMMA HitLogs ==
  ASSUME Shaped, NEW g \in 0..shape.layers - 1, NEW k \in Nat,
         Passed(k, g + 1), Hit(g, k), NEW r \in Nat, NEW log, NEW st,
         NEW before, NEW h2,
         Sound(log, st, before, r),
         LET b == Book(g + 1, Before(k), Offloading \ Before(k), {})
         IN before.tags = b.tags /\ before.buf = b.buf,
         h2 = Book(g + 1, Before(k - 1), Offloading \ Before(k - 1), {})
  PROVE  LET st2 == HitIssued(g, k, st, Returned(before))
         IN \E log2 :
              /\ Sound(log2, st2, h2, r)
              /\ Ahead(log, st, log2, st2) /\ Met(log2, k - 1)
<1> PICK p : p = g + 1
  OBVIOUS
<1> PICK j : j = k - 1
  OBVIOUS
<1> PICK takes : takes = Returned(before)
  OBVIOUS
<1> PICK s1 : s1 = MetBackIssued(st)
  OBVIOUS
<1>1. /\ p \in 0..shape.layers /\ p \in Nat /\ g \in Nat
      /\ k \in 0..shape.groups /\ k > 0 /\ Window(j) = g
      /\ j \in Group /\ j \in Nat /\ j \in Offloading
  BY DEF Shaped, Group, Offloading, Passed, Hit
<1>2. /\ j \in Before(k) /\ j \notin Before(j)
      /\ \A i \in Before(k) : i = j \/ i \in Before(j)
      /\ \A i \in Before(j) : i \in Before(k)
  BY <1>1 DEF Before, Offloading
<1>3. j \in 0..p - 1
  <2>1. Window(j) >= j
    BY <1>1, Windows
  <2> QED BY <1>1, <2>1
<1> PICK s2 : s2 = Issue(s1, "h2d", [op |-> "reload", group |-> j,
                                     keys |-> Sets(j), takes |-> takes])
  OBVIOUS
<1>4. PICK log1 :
        /\ Sound(log1, s1, before, r) /\ Ahead(log, st, log1, s1)
        /\ Seen(log1, "h2d") /\ AllSeen(log1, "h2d")
  BY AddMeeting DEF MetBackIssued
<1>5. /\ DOMAIN before.tags = SomeTags(p) /\ before.buf = {}
      /\ DOMAIN h2.tags = SomeTags(p) /\ h2.buf = {}
      /\ \A t \in SomeTags(p) :
           /\ before.tags[t] = IF t[1] \in Before(k) /\ Early(t[1])
                               THEN "cpu"
                               ELSE IF /\ t[1] \in Offloading \ Before(k)
                                       /\ Early(t[1])
                                    THEN "reloaded" ELSE "gpu"
           /\ h2.tags[t] = IF t[1] \in Before(j) /\ Early(t[1]) THEN "cpu"
                           ELSE IF /\ t[1] \in Offloading \ Before(j)
                                   /\ Early(t[1])
                                THEN "reloaded" ELSE "gpu"
  <2>1. /\ DOMAIN before.tags = SomeTags(p)
        /\ before.buf = {t \in SomeTags(p) : t[1] \in {}}
        /\ \A t \in SomeTags(p) :
             before.tags[t] = IF t[1] \in Before(k) /\ Early(t[1])
                              THEN "cpu"
                              ELSE IF /\ t[1] \in Offloading \ Before(k)
                                      /\ Early(t[1])
                                   THEN "reloaded" ELSE "gpu"
    BY BookIs
  <2>2. /\ DOMAIN h2.tags = SomeTags(p)
        /\ h2.buf = {t \in SomeTags(p) : t[1] \in {}}
        /\ \A t \in SomeTags(p) :
             h2.tags[t] = IF t[1] \in Before(j) /\ Early(t[1]) THEN "cpu"
                          ELSE IF /\ t[1] \in Offloading \ Before(j)
                                  /\ Early(t[1])
                               THEN "reloaded" ELSE "gpu"
    BY BookIs
  <2> QED BY <2>1, <2>2
<1>6. ASSUME NEW m \in Cell, m[1] = j, m[2] \in Sets(j)
      PROVE  Away(log1, m, r)
  <2>1. Early(j)
    BY <1>6 DEF Sets
  <2>2. PICK t \in SomeTags(p) : CellOf(t) = m /\ t[1] = j
    BY <1>1, <1>3, <1>6, TagFor
  <2>3. before.tags[t] = "cpu"
    BY <1>2, <1>5, <2>1, <2>2
  <2>4. Tracked(log1, before, r)
    BY <1>4 DEF Sound
  <2> QED BY <1>5, <2>2, <2>3, <2>4 DEF Tracked
<1>7. ASSUME NEW t \in SomeTags(p)
      PROVE  /\ CellOf(t) \in Cell
             /\ before.tags[t] = "reloaded" => CellOf(t) \notin takes
             /\ IF t[1] = j /\ before.tags[t] = "cpu"
                THEN h2.tags[t] = "reloaded" /\ Saved[t[2]] \in Sets(j)
                ELSE /\ h2.tags[t] = before.tags[t]
                     /\ t[1] = j => before.tags[t] = "gpu"
  <2>1. CellOf(t) \in Cell /\ Saved[t[2]] \in Storage
    BY <1>1, CellsOf
  <2>2. before.tags[t] = "reloaded" => CellOf(t) \notin takes
    BY <1>1, <1>5, NotTaken
  <2>3. CASE t[1] = j /\ Early(j)
    <3>1. before.tags[t] = "cpu" /\ h2.tags[t] = "reloaded"
      BY <1>1, <1>2, <1>5, <2>3
    <3> QED BY <2>1, <2>2, <2>3, <3>1 DEF Sets
  <2>4. CASE t[1] = j /\ ~Early(j)
    <3>1. before.tags[t] = "gpu" /\ h2.tags[t] = "gpu"
      BY <1>5, <2>4
    <3> QED BY <2>1, <2>2, <2>4, <3>1
  <2>5. CASE t[1] # j
    <3>1. t[1] \in Before(k) <=> t[1] \in Before(j)
      BY <1>2, <2>5
    <3>2. h2.tags[t] = before.tags[t]
      BY <1>5, <3>1
    <3> QED BY <2>1, <2>2, <2>5, <3>2
  <2> QED BY <2>3, <2>4, <2>5
<1>8. ReloadFits(log1, before, h2, r, j, Sets(j), takes)
  BY <1>5, <1>6, <1>7 DEF ReloadFits
<1>9. Sets(j) \in SUBSET Storage /\ takes \in SUBSET Cell
  BY DEF Sets, Returned, Cell
<1>10. PICK log2 :
         /\ Sound(log2, s2, h2, r) /\ Ahead(log1, s1, log2, s2)
         /\ Met(log2, j)
  BY <1>1, <1>4, <1>8, <1>9, AddReload
<1>11. HitIssued(g, k, st, takes) = s2
  BY DEF HitIssued, ReloadOp
<1> QED BY <1>4, <1>10, <1>11, AheadOn

(* Stepping back goes on the log; at the first layer the computation waits *)
(* for all that was fetched.                                               *)
LEMMA ReturnLogs ==
  ASSUME Shaped, NEW g \in 0..shape.layers, NEW k \in Nat, HostAt(g, k),
         CommitBackward, round \in Nat, NEW log,
         Sound(log, streams, handler, round), Met(log, k)
  PROVE  \E log2 : /\ Sound(log2, streams', handler', round')
                   /\ Ahead(log, streams, log2, streams')
                   /\ Met(log2, IF g - 1 = 0 THEN -1
                                ELSE IF Hit(g - 1, k) THEN k - 1 ELSE k)
<1> PICK f : f = g - 1
  OBVIOUS
<1> PICK n : n = IF Hit(f, k) THEN k - 1 ELSE k
  OBVIOUS
<1> PICK before : before = Coming(f, f + 1, k, AtLeastOne(k))
  OBVIOUS
<1> PICK h : h = Book(f + 1, Before(n), Offloading \ Before(n), {})
  OBVIOUS
<1>1. /\ f \in 0..shape.layers - 1 /\ f + 1 = g /\ Passed(k, f + 1)
      /\ handler = Coming(f + 1, f + 1, k, AtLeastOne(k)) /\ round' = round
  BY DEF HostAt, CommitBackward, Shaped
<1>2. /\ streams' = ReturnIssued(f, k, streams, Returned(before))
      /\ handler' = Coming(f, f + 1, n, IF f = 0 THEN 0 ELSE AtLeastOne(n))
  BY <1>1, Returns
<1>3. handler'.tags = h.tags /\ handler'.buf = h.buf
  BY <1>2, Booked
<1> DEFINE b == Book(f + 1, Before(k), Offloading \ Before(k), {})
<1>4. /\ before.tags = b.tags /\ before.buf = b.buf
      /\ handler.tags = b.tags /\ handler.buf = b.buf
  BY <1>1, Booked
<1>5. Sound(log, streams, before, round) /\ Sound(log, streams, b, round)
  BY <1>4, SoundSame
<1> PICK s1 : s1 = HitIssued(f, k, streams, Returned(before))
  OBVIOUS
<1>6. PICK log1 :
        /\ Sound(log1, s1, h, round)
        /\ Ahead(log, streams, log1, s1) /\ Met(log1, n)
  <2>1. CASE Hit(f, k)
    BY <1>1, <1>4, <1>5, <2>1, HitLogs
  <2>2. CASE ~Hit(f, k)
    <3>1. s1 = streams /\ n = k
      BY <2>2 DEF HitIssued
    <3> QED BY <1>5, <3>1, AheadSame
  <2> QED BY <2>1, <2>2
<1>7. SUFFICES \E log2 : /\ Sound(log2, streams', h, round)
                         /\ Ahead(log, streams, log2, streams')
                         /\ Met(log2, IF f = 0 THEN -1 ELSE n)
  BY <1>1, <1>3, SoundSame
<1>8. CASE f # 0
  <2>1. streams' = s1
    BY <1>1, <1>2, <1>8 DEF ReturnIssued
  <2> QED BY <1>6, <1>8, <2>1
<1>9. CASE f = 0
  <2> PICK s2 : s2 = WaitStream(s1, "compute", "h2d")
    OBVIOUS
  <2>1. streams' = s2
    BY <1>2, <1>9 DEF ReturnIssued
  <2>2. PICK log2 :
          /\ Sound(log2, s2, h, round) /\ Ahead(log1, s1, log2, s2)
          /\ AllSeen(log2, "h2d")
    BY <1>6, AddWait, StreamsAre
  <2>3. Met(log2, -1)
    BY <2>2 DEF AllSeen, Met
  <2> QED BY <1>6, <1>9, <2>1, <2>2, <2>3, AheadOn
<1> QED BY <1>8, <1>9

(* A log of what was issued, as the host and the memory have it.           *)
LogSafe == HostInv /\ \E log : LogInv(log)

(* The log starts empty. *)
LEMMA LogStarts == OffloadInit => LogSafe
<1> SUFFICES ASSUME OffloadInit PROVE \E log : LogInv(log)
  BY HostStarts DEF LogSafe
<1> PICK log : log = [s \in Stream |-> <<>>]
  OBVIOUS
<1>1. \A s \in Stream : log[s] = <<>> /\ DOMAIN log[s] = {} /\ Len(log[s]) = 0
  OBVIOUS
<1>2. PICK g \in 0..shape.layers, k \in 0..shape.groups : HostAt(g, k)
  BY HostStarts DEF HostInv
<1>3. handler.tags = <<>> /\ handler.buf = {} /\ pass = "forward"
  BY DEF OffloadInit
<1>4. IsLog(log)
  BY <1>1 DEF IsLog
<1>5. SafeLog(log)
  BY <1>1, <1>4, StreamsAre DEF SafeLog, SafeCopies, SafeFetches, SafeReads
<1>6. Given(log, streams)
  <2> PICK q : q = [s \in Stream |-> <<>>]
    OBVIOUS
  <2> PICK n : n = [s \in Stream |-> 0]
    OBVIOUS
  <2>1. streams = [queue |-> q, issued |-> n]
    BY DEF OffloadInit
  <2>2. /\ q \in [Stream -> Seq(Operation)] /\ n \in [Stream -> Nat]
        /\ \A s \in Stream : n[s] = 0 /\ Len(q[s]) = 0 /\ 1..Len(q[s]) = {}
    OBVIOUS
  <2> QED BY <1>1, <2>1, <2>2 DEF Given
<1>7. Tracked(log, handler, round) /\ Guarded(log, handler.buf)
  BY <1>1, <1>3, StreamsAre DEF Tracked, Guarded
<1>8. Met(log, -1) /\ Met(log, IF g = 0 THEN -1 ELSE Unmet(k))
  BY <1>1, StreamsAre DEF Met
<1>9. Filled(log, Ran, hbm, pinned, block)
  <2>1. Ran = [s \in Stream |-> 0]
    BY DEF Ran, Completed, OffloadInit
  <2>2. {hbm, pinned, block} \subseteq [Cell -> Nat]
    BY DEF OffloadInit, Cell
  <2>3. /\ Ran \in [Stream -> Nat] /\ \A s \in Stream : 1..Ran[s] = {}
    BY <2>1
  <2> QED BY <2>2, <2>3, StreamsAre
         DEF Filled, Obeyed, FilledGpu, FilledPinned, FilledBlock
<1>10. LogInv(log)
  BY <1>2, <1>5, <1>6, <1>7, <1>8, <1>9 DEF LogInv, Sound
<1> QED BY <1>10

(* Where the host is, the log is as it needs it.                           *)
LEMMA HostLogs ==
  ASSUME LogSafe,
         ForwardLayer \/ CommitForward \/ CommitBackward \/ BackwardLayer
  PROVE  LogSafe'
<1>1. PICK log : LogInv(log)
  BY DEF LogSafe
<1>2. PICK g \in 0..shape.layers, k \in 0..shape.groups :
        HostAt(g, k) /\ Met(log, IF g = 0 THEN -1 ELSE Unmet(k))
  BY <1>1 DEF LogInv
<1>3. /\ Shaped /\ k \in Nat /\ round \in Nat
      /\ Sound(log, streams, handler, round) /\ IsLog(log)
      /\ Filled(log, Ran, hbm, pinned, block)
  BY <1>1, ShapedIs DEF LogSafe, HostInv, Shaped, LogInv, Sound, SafeLog
<1>4. HostInv'
  BY HostMoves DEF LogSafe, OffloadNext
<1>5. /\ shape' = shape /\ hbm' = hbm /\ pinned' = pinned /\ block' = block
  BY DEF ForwardLayer, CommitForward, CommitBackward, BackwardLayer, memory
<1>6. SUFFICES \E log2 :
                 /\ Sound(log2, streams', handler', round')
                 /\ Ahead(log, streams, log2, streams')
                 /\ \E f \in 0..shape.layers, n \in Nat :
                      /\ HostAt(f, n)'
                      /\ Met(log2,
                             IF f = 0 \/ pass' \notin {"return", "backward"}
                             THEN -1 ELSE n)
  <2>9. PICK log2 :
          /\ Sound(log2, streams', handler', round')
          /\ Ahead(log, streams, log2, streams')
          /\ \E f \in 0..shape.layers, n \in Nat :
               /\ HostAt(f, n)'
               /\ Met(log2, IF f = 0 \/ pass' \notin {"return", "backward"}
                            THEN -1 ELSE n)
    BY <1>6
  <2>1. PICK f \in 0..shape.layers, n \in Nat :
          /\ HostAt(f, n)'
          /\ Met(log2, IF f = 0 \/ pass' \notin {"return", "backward"}
                       THEN -1 ELSE n)
    BY <2>9
  <2>2. Sound(log2, streams, handler, round)'
    BY <1>5, <2>9, SoundNext
  <2>3. IsLog(log2)
    BY <2>9 DEF Sound, SafeLog
  <2>4. Filled(log2, Ran', hbm', pinned', block')
    <3>1. /\ Ran = [s \in Stream |-> RanOf(streams, s)]
          /\ Ran' = [s \in Stream |-> RanOf(streams', s)]
      BY DEF Ran, Completed, RanOf
    <3> QED BY <1>3, <1>5, <2>9, <2>3, <3>1, HostAhead
  <2>5. Filled(log2, Ran, hbm, pinned, block)'
    BY <1>5, <2>4, FilledNext
  <2>6. n \in 0..shape'.groups /\ f \in 0..shape'.layers
    BY <1>5, <2>1 DEF HostAt, Passed
  <2>7. Met(log2, IF f = 0 THEN -1 ELSE Unmet(n))'
    BY <2>1 DEF Unmet
  <2>8. LogInv(log2)'
    BY <2>1, <2>2, <2>5, <2>6, <2>7 DEF LogInv
  <2> QED BY <1>4, <2>8 DEF LogSafe
<1>7. CASE ForwardLayer
  <2>1. HostAt(g, k)' /\ pass' = "commit" /\ Unmet(k) = -1
    <3>1. HostAt(g, k)' /\ Unmet(k) = -1
      BY <1>2, <1>3, <1>7, ForwardGoes DEF ForwardLayer, Unmet
    <3>2. /\ g \in 0..shape.layers - 1 /\ Passed(k, g)
          /\ handler = Going(g, g, k)
      BY <1>2, <1>3, <1>7 DEF HostAt, ForwardLayer, Shaped
    <3> QED BY <1>3, <1>7, <3>1, <3>2, Forwards
  <2>2. Met(log, -1)
    BY <1>2, <2>1
  <2>3. PICK log2 : /\ Sound(log2, streams', handler', round')
                    /\ Ahead(log, streams, log2, streams')
                    /\ Met(log2, -1)
    BY <1>2, <1>3, <1>7, <2>2, ForwardLogs
  <2> QED BY <1>3, <2>1, <2>3
<1>8. CASE CommitForward
  <2>1. Unmet(k) = -1
    BY <1>8 DEF CommitForward, Unmet
  <2>2. Met(log, -1)
    BY <1>2, <2>1
  <2>3. PICK log2 : /\ Sound(log2, streams', handler', round')
                    /\ Ahead(log, streams, log2, streams')
                    /\ Met(log2, -1)
    BY <1>2, <1>3, <1>8, <2>2, CommitLogs
  <2>4. PICK n \in Nat : HostAt(g + 1, n)' /\ g + 1 \in 0..shape.layers
    BY <1>2, <1>3, <1>8, CommitGoes
  <2>5. IsLog(log2)
    BY <2>3 DEF Sound, SafeLog
  <2>6. Met(log2, IF g + 1 = 0 \/ pass' \notin {"return", "backward"}
                  THEN -1 ELSE n)
    BY <2>3, <2>5, MetAny
  <2> QED BY <2>3, <2>4, <2>6
<1>9. CASE CommitBackward
  <2>1. Unmet(k) = k /\ g # 0
    BY <1>2, <1>9 DEF CommitBackward, Unmet, HostAt
  <2>2. Met(log, k)
    BY <1>2, <2>1
  <2>3. PICK log2 :
          /\ Sound(log2, streams', handler', round')
          /\ Ahead(log, streams, log2, streams')
          /\ Met(log2, IF g - 1 = 0 THEN -1
                       ELSE IF Hit(g - 1, k) THEN k - 1 ELSE k)
    BY <1>2, <1>3, <1>9, <2>2, ReturnLogs
  <2>4. PICK n \in Nat : /\ n = IF Hit(g - 1, k) THEN k - 1 ELSE k
                         /\ HostAt(g - 1, n)'
    BY <1>2, <1>3, <1>9, ReturnGoes
  <2>5. g - 1 \in 0..shape.layers
    BY <1>2, <1>3, <2>1 DEF Shaped
  <2>6. pass' = "backward"
    <3> PICK f : f = g - 1
      OBVIOUS
    <3>1. /\ f \in 0..shape.layers - 1 /\ g = f + 1 /\ Passed(k, f + 1)
          /\ handler = Coming(f + 1, f + 1, k, AtLeastOne(k))
      BY <1>2, <1>3, <1>9, <2>1 DEF HostAt, CommitBackward, Shaped
    <3> QED BY <1>3, <1>9, <3>1, Returns
  <2>7. Met(log2, IF g - 1 = 0 \/ pass' \notin {"return", "backward"}
                  THEN -1 ELSE n)
    BY <2>3, <2>4, <2>6
  <2> QED BY <2>3, <2>4, <2>5, <2>7
<1>10. CASE BackwardLayer
  <2>1. Unmet(k) = k
    BY <1>10 DEF BackwardLayer, Unmet
  <2>2. Met(log, IF g = 0 THEN -1 ELSE k)
    BY <1>2, <2>1
  <2>3. PICK log2 :
          /\ Sound(log2, streams', handler', round')
          /\ Ahead(log, streams, log2, streams')
          /\ Met(log2, IF g = 0 THEN -1 ELSE k)
    BY <1>2, <1>3, <1>10, <2>2, BackwardLogs
  <2>4. HostAt(g, k)'
    BY <1>2, <1>3, <1>10, BackwardGoes
  <2>5. g # 0 => pass' = "return"
    <3> PICK n : n = IF g = 0 THEN 0 ELSE AtLeastOne(k)
      OBVIOUS
    <3>1. /\ g \in 0..shape.layers - 1 /\ Passed(k, g)
          /\ handler = Coming(g, g + 1, k, n)
      BY <1>2, <1>3, <1>10 DEF HostAt, BackwardLayer, Shaped
    <3> QED BY <1>3, <1>10, <3>1, Backwards
  <2>6. Met(log2, IF g = 0 \/ pass' \notin {"return", "backward"}
                  THEN -1 ELSE k)
    BY <2>3, <2>5
  <2> QED BY <1>3, <2>3, <2>4, <2>6
<1> QED BY <1>7, <1>8, <1>9, <1>10

(* Every step keeps the log, and the memory as the log has it. *)
LEMMA LogMoves == LogSafe /\ [OffloadNext]_offloadVars => LogSafe'
<1> SUFFICES ASSUME LogSafe, [OffloadNext]_offloadVars PROVE LogSafe'
  OBVIOUS
<1>1. CASE ForwardLayer \/ CommitForward \/ CommitBackward \/ BackwardLayer
  BY <1>1, HostLogs
<1>2. HostInv'
  BY HostMoves DEF LogSafe
<1>3. PICK log : LogInv(log)
  BY DEF LogSafe
<1>4. PICK g \in 0..shape.layers, k \in 0..shape.groups :
        HostAt(g, k) /\ Met(log, IF g = 0 THEN -1 ELSE Unmet(k))
  BY <1>3 DEF LogInv
<1>5. ASSUME UNCHANGED <<shape, pass, handler>>,
             Sound(log, streams, handler, round)',
             Filled(log, Ran, hbm, pinned, block)'
      PROVE  LogSafe'
  <2>1. HostAt(g, k)'
    BY <1>4, <1>5, HostWaits
  <2>2. g \in 0..shape'.layers /\ k \in 0..shape'.groups
    BY <1>5
  <2>3. Met(log, IF g = 0 THEN -1 ELSE Unmet(k))'
    BY <1>4, <1>5 DEF Unmet
  <2>4. LogInv(log)'
    BY <1>5, <2>1, <2>2, <2>3 DEF LogInv
  <2> QED BY <1>2, <2>4 DEF LogSafe
<1>6. ASSUME NEW s \in Stream, RunStream(s) PROVE LogSafe'
  <2>1. UNCHANGED <<shape, pass, handler>>
    BY <1>6 DEF RunStream
  <2>2. Sound(log, streams, handler, round)'
        /\ Filled(log, Ran, hbm, pinned, block)'
    BY <1>3, <1>6, StreamRuns DEF LogInv
  <2> QED BY <1>5, <2>1, <2>2
<1>7. CASE UNCHANGED offloadVars
  <2>1. UNCHANGED <<shape, round, pass, handler, streams, hbm, pinned, block>>
    BY <1>7 DEF offloadVars, memory
  <2>2. Sound(log, streams', handler', round')
    BY <1>3, <2>1 DEF LogInv
  <2>3. Ran' = Ran
    BY <2>1 DEF Ran, Completed
  <2>4. Filled(log, Ran', hbm', pinned', block')
    BY <1>3, <2>1, <2>3 DEF LogInv
  <2>5. Sound(log, streams, handler, round)'
        /\ Filled(log, Ran, hbm, pinned, block)'
    BY <2>1, <2>2, <2>4, SoundNext, FilledNext
  <2> QED BY <1>5, <2>1, <2>5
<1> QED BY <1>1, <1>6, <1>7 DEF OffloadNext, Drained

(* What is next for the computation reads what the log says. *)
LEMMA LogSpeaks == LogSafe => BackwardReadsSaved
<1> SUFFICES ASSUME LogSafe PROVE BackwardReadsSaved
  OBVIOUS
<1>1. PICK log : LogInv(log)
  BY DEF LogSafe
<1>2. /\ SafeLog(log) /\ IsLog(log) /\ Given(log, streams)
      /\ Filled(log, Ran, hbm, pinned, block)
  BY <1>1 DEF LogInv, Sound, SafeLog
<1> DEFINE q == streams.queue["compute"]
           op == Head(q)
           c == RanOf(streams, "compute") + 1
<1>3. pass # "failed"
  BY HostGoesOn DEF LogSafe
<1>4. ASSUME q # <<>>, op.op = "backward"
      PROVE  \A i \in DOMAIN op.reads :
               LET m == <<op.group, Saved[i]>>
               IN op.round = IF op.reads[i] = "gpu" THEN hbm[m] ELSE block[m]
  <2>1. c \in DOMAIN log["compute"] /\ op = log["compute"][c].run
    BY <1>2, <1>4, NextOne, StreamsAre
  <2>2. c = Ran["compute"] + 1
    BY StreamsAre DEF Ran, Completed, RanOf
  <2>3. op.reads \in [DOMAIN Saved -> {"gpu", "reloaded"}]
    <3>1. op \in Operation
      BY <1>2, <2>1, EntriesAre, StreamsAre
    <3> QED BY <1>4, <3>1, OperationsAre
  <2> HIDE DEF c
  <2>4. ASSUME NEW i \in DOMAIN op.reads
        PROVE  LET m == <<op.group, Saved[i]>>
               IN op.round = IF op.reads[i] = "gpu" THEN hbm[m] ELSE block[m]
    <3>1. i \in DOMAIN Saved
      BY <2>3
    <3> QED BY SMTT(30), <1>2, <1>4, <2>1, <2>2, <3>1, ReadFinds
  <2> QED BY <2>4
<1> QED BY <1>3, <1>4 DEF BackwardReadsSaved

(* Every tensor a backward pass reads holds what the forward pass of its   *)
(* micro batch saved, and no assertion or lookup of the handler fails.     *)
THEOREM ReadsAlwaysSaved == OffloadSpec => []BackwardReadsSaved
<1>1. OffloadInit => LogSafe
  BY LogStarts
<1>2. LogSafe /\ [OffloadNext]_offloadVars => LogSafe'
  BY LogMoves
<1>3. LogSafe => BackwardReadsSaved
  BY LogSpeaks
<1> QED BY <1>1, <1>2, <1>3, PTL DEF OffloadSpec

=============================================================================
