-------------------------- MODULE ActivationOffload --------------------------
(***************************************************************************)
(* The activations of a model's layers, saved by the forward pass, copied  *)
(* to pinned memory and fetched back before the backward pass reads them.  *)
(* The host runs ahead of three streams: compute, d2h and h2d.  A stream   *)
(* runs its operations in order; one stream waits for another up to what   *)
(* the other had been given when wait_stream was called.                   *)
(*                                                                         *)
(* A layer is a group.  It saves the tensors of Saved, each given by the   *)
(* storage it lives in; two tensors of one storage share a copy.  Memory   *)
(* holds the number of the micro batch it was written in, 0 once another   *)
(* tensor may have been put there: the allocator gives a freed block to    *)
(* the next allocation made on the block's stream.                         *)
(***************************************************************************)
EXTENDS Integers, Sequences, FiniteSets

CONSTANTS
  Shapes,  \* the models: [groups |-> num_offload_group, layers |-> num_layers]
  Saved,   \* the storages of the tensors a layer saves, in order
  Rounds   \* bound: micro batches

ASSUME OffloadAssumption ==
  /\ Shapes \subseteq [groups : Nat \ {0}, layers : Nat \ {0}]
  /\ \A s \in Shapes : s.groups <= s.layers
  /\ Len(Saved) > 0 /\ Rounds \in Nat \ {0}

VARIABLES
  shape,   \* the model of this job
  round,   \* the micro batch under way
  pass,    \* what the host does next
  handler, \* the fields of AsyncDoubleBufferGroupOffloadHandler
  streams, \* what each stream was given: a queue and a count
  hbm,     \* activations where the forward pass wrote them
  pinned,  \* their copies on the host
  block    \* and what was fetched back

memory == <<hbm, pinned, block>>
offloadVars == <<shape, round, pass, handler, streams, memory>>

Stream == {"compute", "d2h", "h2d"}
Group == 0..shape.layers - 1
Storage == {Saved[i] : i \in DOMAIN Saved}
Tag(g) == {<<g, i>> : i \in DOMAIN Saved}

OffloadTypeOK ==
  /\ shape \in Shapes /\ round \in 1..Rounds
  /\ pass \in {"forward", "commit", "return", "backward", "done", "failed"}
  /\ handler.current \in 0..shape.layers
  /\ handler.count \in 0..shape.groups
  /\ \A t \in DOMAIN handler.tags :
       handler.tags[t] \in {"gpu", "cpu", "reloaded"}
  /\ handler.buf \subseteq DOMAIN handler.tags
  /\ \A m \in {hbm, pinned, block} :
       m \in [Group \X Storage -> 0..Rounds]

OffloadInit ==
  /\ shape \in Shapes
  /\ round = 1 /\ pass = "forward"
  /\ handler = [current |-> 0, count |-> 0, tags |-> <<>>, buf |-> {},
                mapping |-> <<>>]
  /\ streams = [queue |-> [s \in Stream |-> <<>>],
                issued |-> [s \in Stream |-> 0]]
  /\ hbm = [m \in Group \X Storage |-> 0]
  /\ pinned = hbm /\ block = hbm

-----------------------------------------------------------------------------
(* Streams *)

Issue(st, s, op) ==
  [queue |-> [st.queue EXCEPT ![s] = Append(@, op)],
   issued |-> [st.issued EXCEPT ![s] = @ + 1]]

\* s.wait_stream(other)
WaitStream(st, s, other) ==
  Issue(st, s, [op |-> "wait", on |-> other, upto |-> st.issued[other]])

Completed(s) == streams.issued[s] - Len(streams.queue[s])

\* What the handler h no longer refers to in the memory of the compute stream,
\* and in that of h2d: an allocation there may take it.
Dropped(h) ==
  {m \in Group \X Storage :
     ~\E i \in DOMAIN Saved :
        /\ Saved[i] = m[2] /\ <<m[1], i>> \in DOMAIN h.tags
        /\ h.tags[<<m[1], i>>] = "gpu" \/ <<m[1], i>> \in h.buf}
Returned(h) ==
  {m \in Group \X Storage :
     ~\E i \in DOMAIN Saved :
        /\ Saved[i] = m[2] /\ <<m[1], i>> \in DOMAIN h.tags
        /\ h.tags[<<m[1], i>>] = "reloaded"}

Wiped(mem, dropped) ==
  [m \in Group \X Storage |-> IF m \in dropped THEN 0 ELSE mem[m]]

-----------------------------------------------------------------------------
(* The handler.  m bundles its fields, the streams, and whether every      *)
(* assertion and lookup so far has succeeded.                              *)

\* Mutant of Window: the remainder is not spread.
WindowUnspread(i) == (shape.layers \div shape.groups) * (i + 1) - 1

\* layer_window_map[i]
Window(i) ==
  LET every == shape.layers \div shape.groups
      more == shape.layers % shape.groups
  IN every * (i + 1) - 1 + (IF i < more THEN i + 1 ELSE more)

Tags(m, g) == {t \in DOMAIN m.h.tags : t[1] = g}

BulkOffload(m, g) ==
  LET tags == Tags(m, g)
      keys == {Saved[t[2]] : t \in tags}
  IN [h |-> [m.h EXCEPT
               !.tags = [t \in DOMAIN @ |->
                           IF t \in tags THEN "cpu" ELSE @[t]],
               !.mapping = [j \in DOMAIN @ \cup {g} |->
                              IF j = g THEN keys ELSE @[j]]],
      st |-> Issue(m.st, "d2h",
                   [op |-> "offload", group |-> g, keys |-> keys]),
      ok |-> m.ok /\ \A t \in tags : m.h.tags[t] # "cpu"]

BulkReload(m, g) ==
  LET tags == {t \in Tags(m, g) : m.h.tags[t] = "cpu"}
      known == g \in DOMAIN m.h.mapping
  IN [h |-> [m.h EXCEPT
               !.tags = [t \in DOMAIN @ |->
                           IF t \in tags THEN "reloaded" ELSE @[t]],
               !.mapping = [f \in DOMAIN @ \ {g} |-> @[f]]],
      st |-> Issue(m.st, "h2d",
                   [op |-> "reload", group |-> g,
                    keys |-> IF known THEN m.h.mapping[g] ELSE {},
                    takes |-> Returned(m.h)]),
      ok |-> m.ok /\ g < shape.groups /\ known]

\* Mutant of MeetD2H: the computation does not wait for the copies.
MeetD2HOneWay(m) == [m EXCEPT !.st = WaitStream(@, "d2h", "compute")]

\* The copies out and the computation wait for each other.
MeetD2H(m) ==
  [m EXCEPT !.st =
     WaitStream(WaitStream(@, "d2h", "compute"), "compute", "d2h")]

\* The copies in and the computation wait for each other.
MeetH2D(m) ==
  [m EXCEPT !.st =
     WaitStream(WaitStream(@, "h2d", "compute"), "compute", "h2d")]

\* synchronize_on_group_commit_forward
OffloadWindow(m, g) ==
  LET computed == [m EXCEPT !.st = WaitStream(@, "d2h", "compute")]
      first == IF g = 0 THEN BulkOffload(computed, 0) ELSE m
      n == m.h.count
      freed == [MeetD2H(first) EXCEPT !.h.buf = {t \in @ : t[1] # n}]
      next == IF n < shape.groups - 1 THEN BulkOffload(freed, n + 1) ELSE freed
  IN IF n >= shape.groups THEN [first EXCEPT !.ok = FALSE]
     ELSE IF Window(n) = g THEN [next EXCEPT !.h.count = n + 1]
     ELSE first

\* on_group_commit_backward, for the group g it has stepped back to
ReloadWindow(m, g) ==
  LET n == m.h.count
      next == BulkReload(MeetH2D(m), n - 1)
      hit == IF n \in 1..shape.groups /\ Window(n - 1) = g
               THEN [next EXCEPT !.h.count = IF n > 1 THEN n - 1 ELSE n]
               ELSE [m EXCEPT !.ok = @ /\ n \in 1..shape.groups]
  IN IF g > 0 THEN hit
     ELSE [hit EXCEPT !.st = WaitStream(@, "compute", "h2d"), !.h.count = 0]

-----------------------------------------------------------------------------
(* The host *)

Now == [h |-> handler, st |-> streams, ok |-> TRUE]

\* The host goes on with m, or an assertion stops it.
Continue(m, then) ==
  /\ handler' = m.h /\ streams' = m.st
  /\ pass' = IF m.ok THEN then ELSE "failed"

\* A layer computes; tensor_push of all it saves
ForwardLayer ==
  /\ pass = "forward"
  /\ LET g == handler.current
         h == [handler EXCEPT
                 !.tags = [t \in DOMAIN @ \cup Tag(g) |->
                             IF t \in Tag(g) THEN "gpu" ELSE @[t]],
                 !.buf = @ \cup IF g < shape.groups THEN Tag(g) ELSE {}]
     IN Continue([h |-> h,
                  st |-> Issue(streams, "compute",
                               [op |-> "forward", group |-> g, round |-> round,
                                takes |-> Dropped(h)]),
                  ok |-> Tag(g) \cap DOMAIN handler.tags = {}],
                 "commit")
  /\ UNCHANGED <<shape, round, memory>>

CommitForward ==
  /\ pass = "commit"
  /\ LET g == handler.current
         m == OffloadWindow(Now, g)
     IN Continue([m EXCEPT !.h.current = g + 1],
                 IF g + 1 < shape.layers THEN "forward" ELSE "return")
  /\ UNCHANGED <<shape, round, memory>>

CommitBackward ==
  /\ pass = "return"
  /\ LET g == handler.current - 1
         m == ReloadWindow([Now EXCEPT !.h.current = g], g)
     IN Continue([m EXCEPT !.ok = @ /\ g >= 0], "backward")
  /\ UNCHANGED <<shape, round, memory>>

\* tensor_pop of all the layer saved; the gradients are computed
BackwardLayer ==
  /\ pass = "backward"
  /\ LET g == handler.current
         known == Tag(g) \subseteq DOMAIN handler.tags
         op == [op |-> "backward", group |-> g, round |-> round,
                takes |-> Dropped(handler),
                reads |-> IF known THEN [i \in DOMAIN Saved |->
                                           handler.tags[<<g, i>>]]
                          ELSE <<>>]
         h == [handler EXCEPT
                 !.tags = [t \in DOMAIN @ \ Tag(g) |-> @[t]],
                 !.buf = @ \ Tag(g)]
         last == IF round < Rounds THEN "forward" ELSE "done"
     IN /\ Continue([h |-> h, st |-> Issue(streams, "compute", op),
                     ok |-> known /\ \A t \in Tag(g) :
                                       handler.tags[t] # "cpu"],
                    IF g > 0 THEN "return" ELSE last)
        /\ round' = IF g = 0 /\ round < Rounds THEN round + 1 ELSE round
  /\ UNCHANGED <<shape, memory>>

-----------------------------------------------------------------------------
(* The streams *)

\* What running op does to the memory.
Effect(op) ==
  CASE op.op = "forward" ->
         /\ hbm' = [m \in Group \X Storage |->
                      IF m[1] = op.group THEN op.round
                      ELSE IF m \in op.takes THEN 0 ELSE hbm[m]]
         /\ UNCHANGED <<pinned, block>>
    [] op.op = "backward" ->
         hbm' = Wiped(hbm, op.takes) /\ UNCHANGED <<pinned, block>>
    [] op.op = "offload" ->
         /\ pinned' = [m \in Group \X Storage |->
                         IF m[1] = op.group /\ m[2] \in op.keys THEN hbm[m]
                         ELSE pinned[m]]
         /\ UNCHANGED <<hbm, block>>
    [] op.op = "reload" ->
         /\ block' = [m \in Group \X Storage |->
                        IF m[1] = op.group /\ m[2] \in op.keys THEN pinned[m]
                        ELSE IF m \in op.takes THEN 0 ELSE block[m]]
         /\ UNCHANGED <<hbm, pinned>>
    [] op.op = "wait" -> UNCHANGED memory

RunStream(s) ==
  /\ streams.queue[s] # <<>>
  /\ LET op == Head(streams.queue[s])
     IN /\ op.op = "wait" => Completed(op.on) >= op.upto
        /\ Effect(op)
  /\ streams' = [streams EXCEPT !.queue[s] = Tail(@)]
  /\ UNCHANGED <<shape, round, pass, handler>>

Drained ==
  /\ pass = "done" /\ \A s \in Stream : streams.queue[s] = <<>>
  /\ UNCHANGED offloadVars

OffloadNext ==
  \/ ForwardLayer \/ CommitForward \/ CommitBackward \/ BackwardLayer
  \/ \E s \in Stream : RunStream(s)
  \/ Drained

OffloadSpec == OffloadInit /\ [][OffloadNext]_offloadVars

-----------------------------------------------------------------------------
(* What holds *)

(* When a layer's backward pass runs, every tensor it reads holds what the *)
(* forward pass of this micro batch saved, wherever it has been since:     *)
(* nothing was freed before it was copied, read before it was fetched, or  *)
(* overwritten by the next copy while in use.  No assertion and no lookup  *)
(* of the handler fails on the way: nothing is left behind that the next   *)
(* micro batch would push again.                                           *)
BackwardReadsSaved ==
  LET q == streams.queue["compute"]
      op == Head(q)
  IN /\ pass # "failed"
     /\ q # <<>> /\ op.op = "backward" =>
          \A i \in DOMAIN op.reads :
            LET m == <<op.group, Saved[i]>>
            IN op.round = IF op.reads[i] = "gpu" THEN hbm[m] ELSE block[m]

\* The groups with activations in GPU memory.
OnGpu ==
  {g \in Group : \E t \in Tag(g) :
     \/ t \in handler.buf
     \/ t \in DOMAIN handler.tags /\ handler.tags[t] # "cpu"}

(* "there are at most two activation groups in GPU memory"                 *)
(* (activation_offload.py:504), as enable_activation_offloading uses   *)
(* it: all layers but the last are offloaded.                              *)
TwoGroupsOnGpu ==
  shape.layers = shape.groups + 1 => Cardinality(OnGpu) <= 2
=============================================================================
