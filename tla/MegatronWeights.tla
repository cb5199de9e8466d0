--------------------------- MODULE MegatronWeights ---------------------------
(***************************************************************************)
(* The weights of a model on Megatron: how a Hugging Face checkpoint is    *)
(* cut into the shards of every rank, how the shards are put together      *)
(* again for the inference engine, and how they are exported, by the job   *)
(* itself and by the merger that reads its checkpoint later.               *)
(*                                                                         *)
(* A tensor is a sequence along the dimension it is cut in, and what it    *)
(* holds is where it came from: <<entry, i>> is row (or column) i of a     *)
(* tensor of the checkpoint.  An entry is <<part, layer, expert>>, -1      *)
(* where there is none; a parameter of a rank is <<chunk, name, layer,     *)
(* expert>> with the numbers local to the rank.  Loading and saving are    *)
(* sequences of collectives; a step is one tensor's.                       *)
(***************************************************************************)
EXTENDS Integers, Sequences, FiniteSets, SequencesExt, FiniteSetsExt, TLC

CONSTANTS
  Jobs,      \* model and parallel layout of each job, see MCMegatronWeights
  HeadDim,   \* rows of an attention head
  Inter,     \* intermediate_size
  Vocab,     \* vocab_size
  Bucket     \* bucket_bytes, in rows

VARIABLES
  job,       \* the job that runs
  phase,     \* load, sync, save, merge, done; failed; refused by the merger
  step,      \* the next tensor of the phase
  param,     \* the parameters of every rank
  bucket,    \* tensors every rank has gathered and not handed over
  fed,       \* what every rank has handed to the inference engine
  exported   \* the state dicts of the saver and of the offline merger

weightVars == <<job, phase, step, param, bucket, fed, exported>>

Rank == [tp : 0..job.tp - 1, pp : 0..job.pp - 1,
         dp : 0..job.dp - 1, cp : 0..job.cp - 1]
Moe == job.experts > 0
ExpertsPerRank == job.experts \div job.ep

Flat(s) == FlattenSeq(s)
Part(s, n, i) == SubSeq(s, i * (Len(s) \div n) + 1, (i + 1) * (Len(s) \div n))

\* torch.chunk
Chunk(s, n) ==
  LET size == (Len(s) + n - 1) \div n
      pieces == (Len(s) + size - 1) \div size
  IN [i \in 1..pieces |->
        SubSeq(s, (i - 1) * size + 1, Min({i * size, Len(s)}))]

-----------------------------------------------------------------------------
(* The checkpoint *)

Size(part) ==
  CASE part \in {"q", "q_bias", "o"} -> job.heads * HeadDim
    [] part \in {"k", "v", "k_bias", "v_bias"} -> job.kv * HeadDim
    [] part \in {"gate", "up", "down"} -> Inter
    [] part = "embed" -> Vocab
    [] part = "lm_head" -> IF job.head = 1 THEN 1 ELSE Vocab
    [] OTHER -> 1

Tensor(part, layer, expert) ==
  [i \in 1..Size(part) |-> <<<<part, layer, expert>>, i>>]

Opt(cond, s) == IF cond THEN s ELSE <<>>

LayerParts ==
  {"input_norm", "q", "k", "v", "o", "post_norm"}
  \cup (IF job.bias THEN {"q_bias", "k_bias", "v_bias"} ELSE {})
  \cup (IF job.qknorm THEN {"q_norm", "k_norm"} ELSE {})
  \cup (IF Moe THEN {"router"} ELSE {"gate", "up", "down"})

Entries ==
  {<<p, -1, -1>> : p \in {"embed", "norm", "lm_head"}}
  \cup {<<p, l, -1>> : p \in LayerParts, l \in 0..job.layers - 1}
  \cup {<<p, l, e>> : p \in {"gate", "up", "down"}, l \in 0..job.layers - 1,
                      e \in 0..job.experts - 1}

-----------------------------------------------------------------------------
(* Megatron's own model *)

\* How many of the two end stages have a size of their own
Ends(j) == Cardinality({e \in {"first", "last"} : j[e] > 0})

\* Layers of chunk v of stage p of a layout j
LayersIn(j, p, v) ==
  LET ends == Ends(j)
      stage == IF p = 0 /\ j.first > 0 THEN j.first
               ELSE IF p = j.pp - 1 /\ j.last > 0 THEN j.last
               ELSE (j.layers - j.first - j.last) \div (j.pp - ends)
      slots == j.layers + j.forEmbed + j.forLoss
  IN IF ends > 0 THEN stage \div j.vpp
     ELSE (slots \div j.pp) \div j.vpp
          - (IF p = 0 /\ v = 0 THEN j.forEmbed ELSE 0)
          - (IF p = j.pp - 1 /\ v = j.vpp - 1 THEN j.forLoss ELSE 0)

\* The loader and the saver assert that all chunks have the same size.
EvenLayout(j) ==
  LET per == (j.layers \div j.pp) \div j.vpp
  IN /\ per * j.pp * j.vpp = j.layers
     /\ \A p \in 0..j.pp - 1, v \in 0..j.vpp - 1 : LayersIn(j, p, v) = per

\* The layer of the model that layer i of chunk v of stage p is: a micro batch
\* passes chunk 0 of all stages, then chunk 1 of all stages...
Placed(j, p, v, i) ==
  LET before == {c \in (0..j.pp - 1) \X (0..j.vpp - 1) :
                   c[2] < v \/ (c[2] = v /\ c[1] < p)}
      Layers(c) == LayersIn(j, c[1], c[2])
  IN MapThenSumSet(Layers, before) + i

\* named_parameters of a chunk, in order
Named(j, p, v) ==
  LET first == p = 0 /\ v = 0
      last == p = j.pp - 1 /\ v = j.vpp - 1
      names ==
        <<"proj", "qkv_norm", "qkv">> \o Opt(j.bias, <<"qkv_bias">>)
        \o Opt(j.qknorm, <<"q_layernorm", "k_layernorm">>)
        \o (IF j.experts > 0 THEN <<"pre_mlp_layernorm", "router">>
            ELSE <<"fc1_norm", "fc1", "fc2">>)
      Layer(i) ==
        [n \in 1..Len(names) |-> <<v, names[n], i, -1>>]
        \o Flat([e \in 1..(j.experts \div j.ep) |->
                   <<<<v, "expert_fc1", i, e - 1>>,
                     <<v, "expert_fc2", i, e - 1>>>>])
  IN Opt(first, <<<<v, "word_embeddings", -1, -1>>>>)
     \o Flat([i \in 1..LayersIn(j, p, v) |-> Layer(i - 1)])
     \o Opt(last, <<<<v, "final_layernorm", -1, -1>>>>)
     \o Opt(last /\ ~(j.tied /\ j.pp = 1), <<<<v, "output_layer", -1, -1>>>>)

\* Where rank r is in the grid of the experts
ExpertSeat(r) ==
  LET n == (r.dp * job.cp + r.cp) * job.tp + r.tp
  IN [etp |-> n % job.etp, ep |-> (n \div job.etp) % job.ep,
      edp |-> n \div (job.etp * job.ep)]

Unset == <<<<<<"init", -1, -1>>, 1>>>>

\* What the parallel layers of rank r compute with under key: its part of the
\* columns or rows, q, k and v by query group, gate before up.
Held(r, key) ==
  LET l == IF key[3] = -1 THEN -1 ELSE Placed(job, r.pp, key[1], key[3])
      seat == ExpertSeat(r)
      e == seat.ep * ExpertsPerRank + key[4]
      T(part) == Tensor(part, l, -1)
      Mine(part) == Part(T(part), job.tp, r.tp)
      Expert(part) == Part(Tensor(part, l, e), job.etp, seat.etp)
      Group(parts, g) == Flat([n \in 1..3 |-> Part(T(parts[n]), job.kv, g)])
      Groups(parts) ==
        LET per == job.kv \div job.tp
        IN Flat([g \in 1..per |-> Group(parts, r.tp * per + g - 1)])
      Output ==
        IF ~job.value THEN Mine("lm_head")
        ELSE IF job.head = 1 /\ job.from = "hf" THEN T("lm_head") ELSE Unset
  IN CASE key[2] = "word_embeddings" -> Mine("embed")
       [] key[2] = "output_layer" -> Output
       [] key[2] = "final_layernorm" -> T("norm")
       [] key[2] = "qkv_norm" -> T("input_norm")
       [] key[2] = "qkv" -> Groups(<<"q", "k", "v">>)
       [] key[2] = "qkv_bias" -> Groups(<<"q_bias", "k_bias", "v_bias">>)
       [] key[2] = "q_layernorm" -> T("q_norm")
       [] key[2] = "k_layernorm" -> T("k_norm")
       [] key[2] = "proj" -> Mine("o")
       [] key[2] \in {"fc1_norm", "pre_mlp_layernorm"} -> T("post_norm")
       [] key[2] = "fc1" -> Mine("gate") \o Mine("up")
       [] key[2] = "fc2" -> Mine("down")
       [] key[2] = "router" -> T("router")
       [] key[2] = "expert_fc1" -> Expert("gate") \o Expert("up")
       [] key[2] = "expert_fc2" -> Expert("down")

Keys(p) == UNION {ToSet(Named(job, p, v)) : v \in 0..job.vpp - 1}
Holding == [r \in Rank |-> [k \in Keys(r.pp) |-> Held(r, k)]]

\* Before anything is loaded: the shapes, and no value.
Blank ==
  [r \in Rank |-> [k \in Keys(r.pp) |->
     [i \in DOMAIN Held(r, k) |-> Unset[1]]]]

-----------------------------------------------------------------------------
(* The jobs that start *)

Positive == Nat \ {0}

JobType ==
  [tp : Positive, pp : Positive, vpp : Positive, cp : Positive, dp : Positive,
   ep : Positive, etp : Positive, layers : Positive, first : Nat, last : Nat,
   forEmbed : {0, 1}, forLoss : {0, 1}, heads : Positive, kv : Positive,
   experts : Nat, bias : BOOLEAN, qknorm : BOOLEAN, tied : BOOLEAN,
   value : BOOLEAN, head : {0, 1}, from : {"hf", "dist"}, merger : Positive]

\* Megatron divides what it cuts without a rest, gives every layer to a chunk
\* and has virtual chunks only with a pipeline.  Only a critic's checkpoint has a
\* head for values; the loader of a checkpoint of Hugging Face knows no experts
\* and no chunks of different sizes.
Launchable(j) ==
  /\ j \in JobType
  /\ j.heads % j.kv = 0 /\ j.kv % j.tp = 0
  /\ Inter % j.tp = 0 /\ Vocab % j.tp = 0
  /\ j.head = 1 => j.value
  /\ \A p \in 0..j.pp - 1, v \in 0..j.vpp - 1 : LayersIn(j, p, v) \in Nat
  /\ Placed(j, 0, j.vpp, 0) = j.layers /\ (j.pp = 1 => j.vpp = 1)
  /\ j.from = "hf" => j.experts = 0 /\ EvenLayout(j)
  /\ j.experts > 0 =>
       /\ j.experts % j.ep = 0 /\ Inter % j.etp = 0
       /\ (j.dp * j.cp * j.tp) % (j.etp * j.ep) = 0

ASSUME WeightsAssumption ==
  /\ {HeadDim, Inter, Vocab, Bucket} \subseteq Positive
  /\ \A j \in Jobs : Launchable(j)

-----------------------------------------------------------------------------
(* Ranks *)

\* _megatron_calc_global_rank
GlobalRank(tp, dp, pp, cp) ==
  ((pp * job.dp + dp) * job.cp + cp) * job.tp + tp

\* Megatron's numbering, in the order tp-cp-ep-dp-pp
RankAt(n) ==
  [tp |-> n % job.tp, cp |-> (n \div job.tp) % job.cp,
   dp |-> (n \div (job.tp * job.cp)) % job.dp,
   pp |-> n \div (job.tp * job.cp * job.dp)]

SameModelGroup(r, s) == r.dp = s.dp /\ r.cp = s.cp

\* Mutant of LayerMap: the chunks of a stage follow one another.
LayerMapByStage ==
  LET per == (job.layers \div job.pp) \div job.vpp
  IN [l \in 0..job.layers - 1 |->
        [pp |-> l \div (job.vpp * per),
         vpp |-> (l \div per) % job.vpp, idx |-> l % per]]

\* _megatron_calc_layer_map
LayerMap ==
  LET per == (job.layers \div job.pp) \div job.vpp
      Offset(p, v) == v * (job.layers \div job.vpp) + p * per
  IN [l \in 0..job.layers - 1 |->
        CHOOSE s \in [pp : 0..job.pp - 1, vpp : 0..job.vpp - 1,
                      idx : 0..per - 1] :
          l = Offset(s.pp, s.vpp) + s.idx]

\* Experts have no saver.
Saveable == ~Moe /\ EvenLayout(job)

-----------------------------------------------------------------------------
(* Loading a checkpoint: load_state_dict_to_megatron_gptmodel *)

Item(from, to, layer) == [from |-> from, to |-> to, layer |-> layer]

\* The order of the tensors, of the loader and of the saver
Items(head) ==
  LET Layer(l) ==
        <<Item(<<"input_norm">>, "qkv_norm", l)>>
        \o Opt(job.qknorm, <<Item(<<"q_norm">>, "q_layernorm", l),
                             Item(<<"k_norm">>, "k_layernorm", l)>>)
        \o <<Item(<<"q", "k", "v">>, "qkv", l)>>
        \o Opt(job.bias, <<Item(<<"q_bias", "k_bias", "v_bias">>,
                                "qkv_bias", l)>>)
        \o <<Item(<<"o">>, "proj", l), Item(<<"post_norm">>, "fc1_norm", l),
             Item(<<"gate", "up">>, "fc1", l), Item(<<"down">>, "fc2", l)>>
  IN <<Item(<<"embed">>, "word_embeddings", -1)>>
     \o Flat([l \in 1..job.layers |-> Layer(l - 1)])
     \o <<Item(<<"norm">>, "final_layernorm", -1)>>
     \o Opt(head, <<Item(<<"lm_head">>, "output_layer", -1)>>)

LoadProgram == Items(TRUE)

\* _broadcast_tp_shard_tensor_qkv, for kv heads on every rank
CutQkv(q, k, v) ==
  LET groups == job.kv \div job.tp
      Of(s, i) == Chunk(Part(s, job.tp, i), groups)
      Cut(i) == Flat([j \in 1..groups |->
                          Of(q, i)[j] \o Of(k, i)[j] \o Of(v, i)[j]])
  IN Chunk(Flat([i \in 1..job.tp |-> Cut(i - 1)]), job.tp)

\* _broadcast_tp_shard_tensor_gate_up
CutGateUp(gate, up) ==
  Chunk(Flat([i \in 1..job.tp |-> Part(gate, job.tp, i - 1)
                                  \o Part(up, job.tp, i - 1)]), job.tp)

\* The tensors broadcast for an item, one for everybody or one per tp rank;
\* none if a value model finds no head of its own.
Sent(item) ==
  LET T(n) == Tensor(item.from[n], item.layer, -1)
  IN CASE item.to \in {"qkv", "qkv_bias"} -> CutQkv(T(1), T(2), T(3))
       [] item.to = "fc1" -> CutGateUp(T(1), T(2))
       [] item.to = "output_layer" /\ job.value ->
            IF job.head = 1 THEN <<T(1)>> ELSE <<>>
       [] \/ item.to \in {"word_embeddings", "proj", "fc2"}
          \/ item.to = "output_layer" /\ ~job.value -> Chunk(T(1), job.tp)
       [] OTHER -> <<T(1)>>

\* The stage, chunk and index an item belongs to
Seat(item) ==
  IF item.layer # -1 THEN LayerMap[item.layer]
  ELSE IF item.to = "word_embeddings" THEN [pp |-> 0, vpp |-> 0, idx |-> -1]
  ELSE [pp |-> job.pp - 1, vpp |-> job.vpp - 1, idx |-> -1]

\* The rank that holds the state dict, and is the source of every broadcast
Source(r) == RankAt(GlobalRank(0, 0, 0, r.cp))

Fail ==
  /\ phase' = "failed"
  /\ UNCHANGED <<step, param, bucket, fed, exported>>

LoadItem ==
  /\ phase = "load" /\ job.from = "hf" /\ step <= Len(LoadProgram)
  /\ LET item == LoadProgram[step]
         sent == Sent(item)
         seat == Seat(item)
         key == <<seat.vpp, item.to, seat.idx, -1>>
         Receives(r) ==
           r.dp = 0 /\ r.pp = seat.pp /\ key \in Keys(r.pp) /\ sent # <<>>
         Piece(r) == sent[IF Len(sent) = 1 THEN 1 ELSE r.tp + 1]
     IN IF \A r \in Rank :
             /\ r.dp = 0 => SameModelGroup(r, Source(r))
             /\ Receives(r) => Len(Piece(r)) = Len(param[r][key])
          THEN /\ param' = [r \in Rank |->
                              IF Receives(r)
                                THEN [param[r] EXCEPT ![key] = Piece(r)]
                                ELSE param[r]]
               /\ step' = step + 1
               /\ UNCHANGED <<phase, bucket, fed, exported>>
          ELSE Fail
  /\ UNCHANGED job

\* broadcast_params, after the barrier
SpreadParams ==
  /\ phase = "load" /\ job.from = "hf" /\ step > Len(LoadProgram)
  /\ param' = [r \in Rank |-> param[[r EXCEPT !.dp = 0]]]
  /\ phase' = IF job.value THEN "save" ELSE "sync"
  /\ step' = 1
  /\ UNCHANGED <<job, bucket, fed, exported>>

\* load_mcore_dist_weights: Megatron restores what each rank holds.
LoadDist ==
  /\ phase = "load" /\ job.from = "dist"
  /\ param' = Holding
  /\ phase' = IF job.value THEN "save" ELSE "sync"
  /\ step' = 1
  /\ UNCHANGED <<job, bucket, fed, exported>>

-----------------------------------------------------------------------------
(* Feeding the inference engine: per_tensor_generator                      *)

\* Mutant of LayerOffset: the chunk is not counted.
LayerOffsetOfStage(p, v) ==
  IF job.pp = 1 THEN 0 ELSE p * (job.layers \div job.pp)

\* get_transformer_layer_offset
LayerOffset(p, v) ==
  LET ends == Ends(job)
      between == job.pp - ends
      middle == job.layers - job.first - job.last
      inTurn == job.first \div job.vpp + middle \div job.vpp
                + job.last \div job.vpp
      slots == job.layers + job.forEmbed + job.forLoss
      start == IF p = 0 /\ v = 0 THEN 0 ELSE job.forEmbed
  IN IF job.pp = 1 THEN 0
     ELSE IF ends > 0 /\ job.vpp > 1 THEN
       v * inTurn + (IF p = 0 THEN 0
                     ELSE job.first \div job.vpp
                          + (p - 1) * ((middle \div job.vpp) \div between))
     ELSE IF ends > 0 THEN
       IF p = 0 THEN 0
       ELSE (IF job.first = 0 THEN p ELSE p - 1)
              * (IF between > 0 THEN middle \div between ELSE 0) + job.first
     ELSE v * (slots \div job.vpp)
          + p * ((slots \div job.pp) \div job.vpp) - start

\* The jobs whose layers and experts are numbered right: with virtual chunks, a
\* last stage of a size of its own needs a first one too and a stage between
\* them; experts that no rank shares are gathered in the tensor parallel group.
Feedable(j) ==
  /\ j.vpp > 1 /\ Ends(j) > 0 => j.first > 0 /\ Ends(j) < j.pp
  /\ j.experts > 0 /\ j.ep = 1 => j.etp = j.tp

\* layer_list_meta: what every stage has, gathered by every rank
Meta ==
  Flat([p \in 1..job.pp |->
    Flat([v \in 1..job.vpp |->
      LET names == Named(job, p - 1, v - 1)
      IN [n \in 1..Len(names) |-> [pp |-> p - 1, key |-> names[n]]]])])

\* "output_layers" is not a part of any name
SkipsTied(name) == job.tied /\ name = "output_layers"

\* broadcast_from_megatron_pp: the tensor and whether it is tensor parallel
FromPp(r, at) ==
  [rows |-> param[[r EXCEPT !.pp = at.pp]][at.key],
   parallel |-> at.key[2] \in
                  {"word_embeddings", "output_layer", "qkv", "qkv_bias",
                   "proj", "fc1", "fc2", "expert_fc1", "expert_fc2"}]

\* Splits a query group of n rows
SplitGroup(s, n) ==
  LET kv == n \div (job.heads \div job.kv + 2)
      q == n - 2 * kv
  IN <<SubSeq(s, 1, q), SubSeq(s, q + 1, q + kv), SubSeq(s, q + kv + 1, n)>>

\* The n-th parts of a sequence of splits, put together
Joined(splits, n) == Flat([i \in 1..Len(splits) |-> splits[i][n]])

\* q, k and v of a sequence of query groups
Ungrouped(groups) ==
  LET splits == [g \in 1..Len(groups) |->
                   SplitGroup(groups[g], Len(groups[g]))]
  IN <<Joined(splits, 1), Joined(splits, 2), Joined(splits, 3)>>

\* default_tp_concat_fn
TpConcat(name, pieces) ==
  IF name \in {"qkv", "qkv_bias"} THEN
    Ungrouped(Flat([i \in 1..Len(pieces) |->
                      Chunk(pieces[i], job.kv \div job.tp)]))
  ELSE IF name \in {"fc1", "expert_fc1"} THEN
    LET halves == [i \in 1..Len(pieces) |-> Chunk(pieces[i], 2)]
    IN <<Joined(halves, 1), Joined(halves, 2)>>
  ELSE <<Flat(pieces)>>

\* convert_param: the entries a parameter becomes
HfParts(name) ==
  CASE name = "word_embeddings" -> <<"embed">>
    [] name = "final_layernorm" -> <<"norm">>
    [] name = "output_layer" -> <<"lm_head">>
    [] name = "qkv" -> <<"q", "k", "v">>
    [] name = "qkv_bias" -> <<"q_bias", "k_bias", "v_bias">>
    [] name = "proj" -> <<"o">>
    [] name = "qkv_norm" -> <<"input_norm">>
    [] name = "q_layernorm" -> <<"q_norm">>
    [] name = "k_layernorm" -> <<"k_norm">>
    [] name \in {"fc1_norm", "pre_mlp_layernorm"} -> <<"post_norm">>
    [] name \in {"fc1", "expert_fc1"} -> <<"gate", "up">>
    [] name \in {"fc2", "expert_fc2"} -> <<"down">>
    [] name = "router" -> <<"router">>

Converted(name, layer, expert, tensors) ==
  LET parts == HfParts(name)
  IN [ok |-> Len(parts) = Len(tensors),
      pairs |-> [n \in 1..Min({Len(parts), Len(tensors)}) |->
                   <<<<parts[n], layer, expert>>, tensors[n]>>]]

\* The tensors of one parameter on the ranks of r's tensor parallel group
TpGathered(r, at) ==
  [t \in 1..job.tp |-> FromPp([r EXCEPT !.tp = t - 1], at).rows]

\* The same expert slot on the ranks of one expert, for each ep rank
ExpertsGathered(r, at) ==
  LET mine == ExpertSeat(r)
      Peer(ep, etp) ==
        CHOOSE s \in Rank :
          /\ s.pp = r.pp
          /\ ExpertSeat(s) = [mine EXCEPT !.ep = ep, !.etp = etp]
  IN [ep \in 1..job.ep |-> [etp \in 1..job.etp |->
        FromPp(Peer(ep - 1, etp - 1), at).rows]]

GlobalExpert(ep, e) == ExpertsPerRank * ep + e

\* What rank r yields for one parameter
Yielded(r, at) ==
  LET name == at.key[2]
      layer == IF at.key[3] = -1 THEN -1
               ELSE at.key[3] + LayerOffset(at.pp, at.key[1])
      isExpert == name \in {"expert_fc1", "expert_fc2"}
      byExpert == ExpertsGathered(r, at)
      each == [ep \in 1..job.ep |->
                 Converted(name, layer, GlobalExpert(ep - 1, at.key[4]),
                           TpConcat(name, byExpert[ep]))]
  IN IF isExpert /\ job.ep > 1 THEN
       [ok |-> \A ep \in 1..job.ep : each[ep].ok,
        pairs |-> Flat([ep \in 1..job.ep |-> each[ep].pairs])]
     ELSE IF FromPp(r, at).parallel THEN
       Converted(name, layer, at.key[4], TpConcat(name, TpGathered(r, at)))
     ELSE Converted(name, layer, at.key[4], <<FromPp(r, at).rows>>)

\* The engine loads a batch of named tensors.
Fed(engine, pairs) ==
  LET new == {p[1] : p \in pairs}
  IN [e \in new \cup DOMAIN engine |->
        IF e \in new THEN (CHOOSE p \in pairs : p[1] = e)[2] ELSE engine[e]]

\* get_named_tensor_buckets: one more tensor; what is handed over is in out.
Bucketed(b, pair) ==
  LET held == FoldLeft(LAMBDA n, p : n + Len(p[2]), 0, b.open)
  IN IF held + Len(pair[2]) > Bucket
       THEN [open |-> <<pair>>, out |-> b.out \o b.open]
       ELSE [open |-> Append(b.open, pair), out |-> b.out]

SyncParam ==
  /\ phase = "sync" /\ step <= Len(Meta)
  /\ LET at == Meta[step]
         got == [r \in Rank |-> Yielded(r, at)]
         next == [r \in Rank |->
                    FoldLeft(Bucketed, [open |-> bucket[r], out |-> <<>>],
                             got[r].pairs)]
     IN IF SkipsTied(at.key[2])
          THEN step' = step + 1 /\ UNCHANGED <<phase, bucket, fed>>
        ELSE IF \A r \in Rank : got[r].ok
          THEN /\ bucket' = [r \in Rank |-> next[r].open]
               /\ fed' = [r \in Rank |-> Fed(fed[r], ToSet(next[r].out))]
               /\ step' = step + 1 /\ phase' = phase
          ELSE phase' = "failed" /\ UNCHANGED <<step, bucket, fed>>
  /\ UNCHANGED <<job, param, exported>>

\* The last bucket
SyncEnd ==
  /\ phase = "sync" /\ step > Len(Meta)
  /\ fed' = [r \in Rank |-> Fed(fed[r], ToSet(bucket[r]))]
  /\ bucket' = [r \in Rank |-> <<>>]
  /\ phase' = IF Saveable THEN "save" ELSE "merge"
  /\ step' = 1
  /\ UNCHANGED <<job, param, exported>>

-----------------------------------------------------------------------------
(* Saving in the format of Hugging Face: merge_megatron_ckpt_gptmodel      *)

SaveProgram == Items(~job.tied)

\* Mutant of JoinQkv: one group per rank.
JoinQkvOneGroup(full) == Ungrouped(Chunk(full, job.tp))

\* _broadcast_tp_shard_tensor_qkv of the saver
JoinQkv(full) ==
  Ungrouped(Flat([i \in 1..job.tp |->
    Chunk(Part(full, job.tp, i - 1), job.kv \div job.tp)]))

\* _broadcast_tp_shard_tensor_gate_up of the saver
JoinGateUp(full) ==
  LET splits == [i \in 1..job.tp |-> Chunk(Part(full, job.tp, i - 1), 2)]
  IN <<Joined(splits, 1), Joined(splits, 2)>>

\* What rank 0 puts into the state dict
SaveItem ==
  /\ phase = "save" /\ step <= Len(SaveProgram)
  /\ LET item == SaveProgram[step]
         seat == Seat(item)
         key == <<seat.vpp, item.to, seat.idx, -1>>
         From(t) == param[RankAt(GlobalRank(t, 0, seat.pp, 0))][key]
         full == Flat([t \in 1..job.tp |-> From(t - 1)])
         tensors ==
           CASE item.to \in {"qkv", "qkv_bias"} -> JoinQkv(full)
             [] item.to = "fc1" -> JoinGateUp(full)
             [] item.to \in {"word_embeddings", "proj", "fc2"} -> <<full>>
             [] item.to = "output_layer" /\ ~job.value -> <<full>>
             [] OTHER -> <<From(0)>>
     IN exported' = [exported EXCEPT !.saver =
          Fed(@, {<<<<item.from[n], item.layer, -1>>, tensors[n]>> :
                    n \in DOMAIN item.from})]
  /\ step' = step + 1
  /\ UNCHANGED <<job, phase, param, bucket, fed>>

SaveEnd ==
  /\ phase = "save" /\ step > Len(SaveProgram)
  /\ phase' = IF job.value THEN "done" ELSE "merge"
  /\ step' = 1
  /\ UNCHANGED <<job, param, bucket, fed, exported>>

-----------------------------------------------------------------------------
(* The offline merger, on job.merger ranks, one stage each                 *)

\* What is left for the ends if each of the stages between them has m layers
LeftForEnds(j, m) == j.layers - m * (j.merger - 2)

\* The m that leave both ends some layers, and at most m
Fits(j) ==
  {m \in 0..j.layers - 1 :
     LET rest == LeftForEnds(j, m)
     IN rest \div 2 \in 1..m /\ rest - rest \div 2 \in 1..m}

\* The layers can be shared out among the ranks of the merger.
Mergeable(j) == j.layers >= j.merger /\ (j.merger > 2 => Fits(j) # {})

\* get_dynamic_pipeline_shards: layers of each rank, as even as possible
PipelineShards ==
  LET n == job.layers
      w == job.merger
      Off(m) == m - LeftForEnds(job, m) \div 2
      best == Min({m \in Fits(job) : \A k \in Fits(job) : Off(m) <= Off(k)})
      ends == LeftForEnds(job, best)
  IN IF w = 1 THEN <<n>>
     ELSE IF w = 2 THEN <<n \div 2, n - n \div 2>>
     ELSE <<ends \div 2>> \o [i \in 1..w - 2 |-> best] \o <<ends - ends \div 2>>

MergeLayout ==
  [job EXCEPT !.pp = job.merger, !.vpp = 1, !.tp = 1, !.ep = 1, !.etp = 1,
     !.first = IF job.merger > 1 THEN PipelineShards[1] ELSE 0,
     !.last = IF job.merger > 2 THEN PipelineShards[job.merger] ELSE 0,
     !.forEmbed = 0, !.forLoss = 0]

\* Megatron's checkpoint knows a parameter by its layer in the whole model
\* and its offset; a reader gets it whole.
Whole(key, layer, expert) ==
  LET sharers ==
        {s \in [r : Rank, k : UNION {Keys(p) : p \in 0..job.pp - 1}] :
           /\ s.k \in Keys(s.r.pp) /\ s.k[2] = key[2]
           /\ s.k[3] # -1 => Placed(job, s.r.pp, s.k[1], s.k[3]) = layer
           /\ expert # -1 =>
                ExpertSeat(s.r).ep * ExpertsPerRank + s.k[4] = expert}
      At(i) == CHOOSE s \in sharers :
                 IF expert = -1 THEN s.r.tp = i - 1
                 ELSE ExpertSeat(s.r).etp = i - 1
      shards == [i \in 1..(IF expert = -1 THEN job.tp ELSE job.etp) |->
                   LET s == At(i) IN param[s.r][s.k]]
      halves == [i \in 1..Len(shards) |-> Chunk(shards[i], 2)]
  IN IF key[2] \in {"fc1", "expert_fc1"}
       THEN Joined(halves, 1) \o Joined(halves, 2)
     ELSE IF key[2] \in {"word_embeddings", "output_layer", "qkv", "qkv_bias",
                         "proj", "fc2", "expert_fc2"} THEN Flat(shards)
     ELSE shards[1]

\* _split_tensors
SplitTensors(name, tensor) ==
  IF name \in {"fc1", "expert_fc1"} THEN Chunk(tensor, 2)
  ELSE IF name \in {"qkv", "qkv_bias"} THEN Ungrouped(Chunk(tensor, job.kv))
  ELSE <<tensor>>

\* The sum of the shards of the ranks before w
LayersBefore(w) ==
  LET Shard(i) == PipelineShards[i] IN MapThenSumSet(Shard, 1..w)

\* _merge_state_dicts, on rank step - 1
MergeRank ==
  /\ phase = "merge" /\ step <= job.merger /\ Mergeable(job)
  /\ LET w == step - 1
         names == {k \in ToSet(Named(MergeLayout, w, 0)) :
                     ~(job.tied /\ k[2] = "output_layer")}
         Layer(k) == IF k[3] = -1 THEN -1
                     ELSE Placed(MergeLayout, w, 0, k[3])
         Number(k) == IF k[3] = -1 THEN -1 ELSE k[3] + LayersBefore(w)
         Pairs(k) ==
           LET tensors == SplitTensors(k[2], Whole(k, Layer(k), k[4]))
               parts == HfParts(k[2])
           IN {<<<<parts[n], Number(k), k[4]>>, tensors[n]>> :
                 n \in 1..Len(parts)}
     IN exported' = [exported EXCEPT !.merger =
          Fed(@, UNION {Pairs(k) : k \in names})]
  /\ step' = step + 1
  /\ phase' = IF step = job.merger THEN "done" ELSE phase
  /\ UNCHANGED <<job, param, bucket, fed>>

\* Every rank raises: fewer layers than ranks, or no element of Fits.
MergeRefused ==
  /\ phase = "merge" /\ ~Mergeable(job)
  /\ phase' = "refused"
  /\ UNCHANGED <<job, step, param, bucket, fed, exported>>

-----------------------------------------------------------------------------

WeightsInit ==
  /\ job \in Jobs
  /\ phase = "load" /\ step = 1
  /\ param = Blank
  /\ bucket = [r \in Rank |-> <<>>]
  /\ fed = [r \in Rank |-> <<>>]
  /\ exported = [saver |-> <<>>, merger |-> <<>>]

WeightsNext ==
  \/ LoadItem \/ SpreadParams \/ LoadDist
  \/ SyncParam \/ SyncEnd \/ SaveItem \/ SaveEnd
  \/ MergeRank \/ MergeRefused

WeightsSpec == WeightsInit /\ [][WeightsNext]_weightVars

-----------------------------------------------------------------------------
(* What holds *)

(* When the weights are loaded, every rank, of every stage, chunk and data  *)
(* parallel replica, holds the rows its parallel layers compute with:       *)
(* q, k and v interleaved by query group, gate before up, and the layer     *)
(* that the pipeline runs there.  No broadcast has a source outside its     *)
(* group, and no shape differs.                                             *)
LoadedAsComputed ==
  /\ phase # "failed"
  /\ phase # "load" => param = Holding

\* Every entry of the checkpoint, with its rows; the head may be left out.
IsCheckpoint(sd, head) ==
  /\ DOMAIN sd \cup {<<"lm_head", -1, -1>>} = Entries
  /\ head => <<"lm_head", -1, -1>> \in DOMAIN sd
  /\ \A e \in DOMAIN sd :
       sd[e] = IF e[1] = "lm_head" /\ job.value
                 THEN (IF job.head = 1 /\ job.from = "hf"
                         THEN Tensor("lm_head", -1, -1) ELSE Unset)
               ELSE Tensor(e[1], e[2], e[3])

(* When an update of the engine ends, every rank has handed over the whole  *)
(* checkpoint under the names it had, whatever stage, chunk, tensor or      *)
(* expert rank each part came from; a tied head may or may not be among it. *)
EngineFedWhole ==
  /\ phase # "failed"
  /\ phase \in {"save", "merge", "refused", "done"} /\ ~job.value =>
       \A r \in Rank : IsCheckpoint(fed[r], ~job.tied)

(* What is exported is what was loaded, by the saver of the running job and *)
(* by the merger, which cuts the model into stages of its own.              *)
ExportsWhole ==
  /\ phase \in {"merge", "refused", "done"} /\ Saveable =>
       IsCheckpoint(exported.saver, ~job.tied)
  /\ phase = "done" /\ ~job.value =>
       IsCheckpoint(exported.merger, ~job.tied)

(* The merger refuses what its message says, fewer layers than ranks; the   *)
(* function promises the number of layers of each rank otherwise.           *)
RefusesTooFewLayers == phase = "refused" => job.layers < job.merger
=============================================================================
