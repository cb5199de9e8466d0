---------------------------- MODULE TrainingBatch ----------------------------
(***************************************************************************)
(* One training batch on its way through RayPPOTrainer.fit: prompts are    *)
(* repeated and answered, the rows are balanced over the ranks, groups     *)
(* without a signal are dropped, every rank computes log probabilities on  *)
(* its share in micro batches of its own making, critic and reward model   *)
(* their values and scores, the driver computes the advantages, and the    *)
(* ranks train on mini and micro batches.                                  *)
(*                                                                         *)
(* What a row holds is kept as where it came from: an answer is the prompt *)
(* it was generated for and the slot it was generated in, and the response *)
(* drawn for a slot never changes.  What a model computes is what it has   *)
(* seen, as ModelForward puts it.                                          *)
(***************************************************************************)
EXTENDS BatchProto, SeqlenBalance, Advantages, ModelForward

CONSTANTS
    Layouts,       \* jobs: [prompts, n, rollout, actor, responses, dynamic,
                   \*   mini, model, rm]; mini is ppo_mini_batch_size of
                   \*   one rank; a mesh is [dp |-> ranks -> dp ranks,
                   \*   mask |-> ranks -> BOOLEAN], that of the actor also has
                   \*   the stage and the shard of every rank; a model is
                   \*   [kind, heads, fused, tp, divisor]; rm is "none" or
                   \*   whose tokenizer the reward model has
    MaxTokens,     \* ppo_max_token_len_per_gpu
    MicroBatch,    \* ppo_micro_batch_size_per_gpu
    DropZeroSignal,\* algorithm.drop_zero_signal
    RewardExtras   \* the reward function returns extra columns

(* Mini batches of fixed micro batches are whole numbers of them           *)
(* (fsdp_workers.py:205-224).                                              *)
ASSUME LayoutsAssumption ==
    \A l \in Layouts :
        l.mini \in Nat \ {0} /\ (~l.dynamic => l.mini % MicroBatch = 0)

VARIABLES phase, layout, draws, batch,
          reward,    \* the reward tensor, a value of its own until "adv"
          extras,    \* reward_extra_infos_dict
          validated, \* the validation batch after its union
          trained    \* per rank: mini batches of micro batches of slots

vars == <<phase, layout, draws, batch, reward, extras, validated, trained>>

World == Len(layout.actor.dp)
Shards == Max(ToSet(layout.actor.shard))
DpSize(mesh) == Max(ToSet(mesh.dp)) + 1
Slots == 1..(layout.prompts * layout.n)
Response(slot) == layout.responses[draws[slot]]
Tokens(slot) == Response(slot).prompt + Len(Response(slot).mask)

(* The row of a slot, and in the words of another tokenizer.               *)
Width == [prompt |-> Max({r.prompt : r \in ToSet(layout.responses)}),
          response |-> Max({Len(r.mask) : r \in ToSet(layout.responses)})]
RowOf(slot) ==
    PaddedRow(slot, Response(slot).prompt, Len(Response(slot).mask), Width)

RmTokens(slot) == Tokens(slot) + Len(Response(slot).mask)
RmRowOf(slot) ==
    LET seqlen == Width.prompt + Width.response
    IN CASE layout.rm = "same" -> RowOf(slot)
         [] layout.rm = "other" /\ layout.model.kind # "megatron" ->
              SwitchChatTemplate(slot, RmTokens(slot), seqlen)
         [] layout.rm = "other" /\ layout.model.kind = "megatron" ->
              ReEncodeByRmTokenizer(slot, RmTokens(slot), seqlen)
ValidLen(row) == Cardinality({k \in DOMAIN row : row[k].on})

SlotsOf(b) == [i \in 1..BatchSize(b) |-> b.tensors.answer[i].slot]
Lengths(b) == [i \in 1..BatchSize(b) |-> Tokens(SlotsOf(b)[i])]

(* The rows of a dataset batch; every prompt gets a uid of its own.        *)
Loaded(count) ==
    [tensors |-> [prompt |-> [p \in 1..count |-> p]],
     others  |-> [uid |-> [p \in 1..count |-> p],
                  truth |-> [p \in 1..count |-> p]]]

(* Repeated requests; the slot only names the row.                         *)
Requests(b, times) ==
    LET gen == Repeat(Popped(b, {"prompt"}), times, TRUE)
    IN [gen EXCEPT !.others = [slot |-> [i \in 1..BatchSize(gen) |-> i]]]

(* generate_sequences: every rank answers the piece of its dp rank.        *)
GenerateSequences(gen, mesh) ==
    LET pieces == NdDispatch(gen, mesh.dp)
        Answer(r) ==
            [tensors |->
               [answer |-> [i \in 1..BatchSize(pieces[r]) |->
                              [prompt |-> pieces[r].tensors.prompt[i],
                               slot |-> pieces[r].others.slot[i]]]],
             others |-> << >>]
    IN NdCollect([r \in DOMAIN mesh.dp |-> Answer(r)], mesh.mask)

(* reward_fn scores an answer against the ground truth of its row.         *)
RewardTensor(b) ==
    [i \in 1..BatchSize(b) |->
        [slot |-> SlotsOf(b)[i],
         at |-> Len(Response(SlotsOf(b)[i]).mask),
         score |-> IF b.others.truth[i] = b.tensors.answer[i].prompt
                   THEN Response(SlotsOf(b)[i]).score ELSE -1]]

Scores == [i \in DOMAIN reward |-> reward[i].score]

Init ==
    /\ layout \in Layouts
    /\ draws \in [Slots -> DOMAIN layout.responses]
    /\ phase = "start"
    /\ batch = Loaded(layout.prompts)
    /\ reward = << >> /\ extras = << >>
    /\ validated = << >> /\ trained = << >>

(* _validate pads to the size of the world, generates, and unpads.         *)
Validate ==
    /\ phase = "start"
    /\ phase' = "loaded"
    /\ LET test == Loaded(layout.prompts)
           gen == Requests(test, 1)
           padded == PadToDivisor(gen, World)
           output == GenerateSequences(padded, layout.rollout)
           kept == Unpad(output, BatchSize(padded) - BatchSize(gen))
       IN validated' = Union(PopRest(test, {"prompt"}), kept)
    /\ UNCHANGED <<layout, draws, batch, reward, extras, trained>>

(* The rest of the batch, repeated for its answers.                        *)
Rest == Repeat(PopRest(batch, {"prompt"}), layout.n, TRUE)
Answers == GenerateSequences(Requests(batch, layout.n), layout.rollout)

Generate ==
    /\ phase = "loaded"
    /\ phase' = "generated"
    /\ batch' = Union(Rest, Answers)
    /\ UNCHANGED <<layout, draws, reward, extras, validated, trained>>

BalanceBatch ==
    /\ phase = "generated"
    /\ phase' = "balanced"
    /\ batch' = Reorder(batch, BalancedOrder(Lengths(batch), World))
    /\ UNCHANGED <<layout, draws, reward, extras, validated, trained>>

\* Mutant of MicroIdx: every rank counts for itself.
MicroIdxOwn(rankLens) ==
    [r \in DOMAIN rankLens |->
        RearrangeMicroBatches(rankLens[r],
                              OwnCount(rankLens[r], MaxTokens * Shards))]

(* The micro batches of every rank, as indices into its own rows.          *)
MicroIdx(rankLens) ==
    [r \in DOMAIN rankLens |->
        IF layout.dynamic
        THEN RearrangeMicroBatches(rankLens[r],
                 AgreedCount(rankLens, MaxTokens * Shards, 1,
                             layout.model.divisor))
        ELSE LET n == Len(rankLens[r])
             IN [m \in 1..PieceSize(n, MicroBatch) |->
                   [i \in 1..Min({MicroBatch, n - (m - 1) * MicroBatch}) |->
                      (m - 1) * MicroBatch + i]]]

(* The forward pass of one micro batch on the ranks of a group.            *)
Forward(rowsOf) ==
    LET model == layout.model
    IN CASE model.kind = "padded" ->
              Each(Len(rowsOf), LAMBDA s :
                     PaddedForward(rowsOf[s], model.heads))
         [] model.kind = "fsdp" ->
              FsdpForward(rowsOf, model.heads, model.fused)
         [] model.kind = "megatron" ->
              GptModelForward(rowsOf, [tp |-> model.tp, cp |-> Shards],
                              Width.response)

(* The forward passes of every data-parallel group, one micro batch after  *)
(* the other, on the ranks of its last pipeline stage.                     *)
ForwardGroups(micros) ==
    LET mesh == layout.actor
        last == Max(ToSet(mesh.stage))
        RankOf(d, s) == CHOOSE r \in 1..World :
            mesh.dp[r] = d /\ mesh.stage[r] = last /\ mesh.shard[r] = s
    IN Each(DpSize(mesh), LAMBDA d :
         Each(Len(micros[RankOf(d - 1, 1)]), LAMBDA m :
           Forward([s \in 1..Shards |-> micros[RankOf(d - 1, s)][m]])))

(* What a rank has of the outputs of its group, broadcast to all stages,   *)
(* in the order of its rows again.                                         *)
Restored(output, shard, idx) ==
    LET flat == FlattenSeq([m \in DOMAIN output |-> output[m][shard]])
    IN IF layout.dynamic THEN RestoreDynamicBatch(flat, idx) ELSE flat

ForwardMicros(rows, idx) ==
    LET micros == Each(World, LAMBDA r : PrepareDynamicBatch(rows[r], idx[r]))
        mesh == layout.actor
        Back(outputs) == Each(World, LAMBDA r :
            Restored(outputs[mesh.dp[r] + 1], mesh.shard[r], idx[r]))
    IN Back(ForwardGroups(micros))

(* What every rank has after a forward pass over all its rows.             *)
ForwardAll(rows) ==
    ForwardMicros(rows, MicroIdx([r \in DOMAIN rows |->
        Each(Len(rows[r]), LAMBDA i : ValidLen(rows[r][i]))]))

(* A worker's method on the batch: dispatched, run over the rows a model   *)
(* is given, and collected as one column.                                  *)
Collected(slots, outputs, column, Result(_, _)) ==
    NdCollect(Each(World, LAMBDA r :
                 [tensors |-> column :> Result(slots[r], outputs[r]),
                  others |-> << >>]),
              layout.actor.mask)

OnMesh(b, Row(_), column, Result(_, _)) ==
    LET pieces == NdDispatch(b, layout.actor.dp)
        On(slots) ==
          Collected(slots,
                    ForwardAll(Each(World, LAMBDA r :
                      Each(Len(slots[r]), LAMBDA i : Row(slots[r][i])))),
                    column, Result)
    IN On(Each(World, LAMBDA r : SlotsOf(pieces[r])))

(* compute_rm_score: what the reward model says at the last valid token,   *)
(* seen from the response.                                                 *)
RmScores(slots, outputs) ==
    LET Score(i) ==
          LET row == RmRowOf(slots[i])
              end == IF layout.model.kind = "megatron" THEN MaskEnd(row)
                     ELSE EosIndex(row)
          IN outputs[i][end].seen
    IN ExpandToTokenLevel(Each(Len(slots), LAMBDA i : RowOf(slots[i])),
                          Each(Len(slots), Score), Width.response)

(* The reward of a row whose scores the reward model has given.            *)
ModelReward(scores) ==
    LET at == Max({0} \cup {t \in DOMAIN scores : scores[t] # Nothing})
        slot == IF at = 0 THEN 0 ELSE scores[at][1].query[1][1]
    IN [slot |-> slot, at |-> at,
        score |-> IF slot \in Slots THEN Response(slot).score ELSE -1]

(* The reward model, and compute_reward, which returns its scores if they  *)
(* are there.                                                              *)
ComputeReward ==
    /\ phase = "balanced"
    /\ phase' = "scored"
    /\ IF layout.rm = "none"
       THEN /\ reward' = RewardTensor(batch)
            /\ UNCHANGED batch
       ELSE /\ batch' = Union(batch, OnMesh(batch, RmRowOf, "rmScores",
                                            RmScores))
            /\ reward' = [i \in 1..BatchSize(batch) |->
                            ModelReward(batch'.tensors.rmScores[i])]
    /\ extras' = IF RewardExtras THEN SlotsOf(batch) ELSE << >>
    /\ UNCHANGED <<layout, draws, validated, trained>>

\* Mutants of FilterGroups: only one half of the batch, or only the batch and
\* not the reward tensor, is filtered.
FilterGroupsTensors ==
    /\ phase = "scored" /\ phase' = "filtered"
    /\ LET found == FilterZeroSignalGroups(batch.others.uid, Scores, World)
       IN batch' = [batch EXCEPT !.tensors =
                        SelectIdxs(batch, found.keep).tensors]
    /\ UNCHANGED <<layout, draws, reward, extras, validated, trained>>
FilterGroupsKeepsReward ==
    /\ phase = "scored" /\ phase' = "filtered"
    /\ LET found == FilterZeroSignalGroups(batch.others.uid, Scores, World)
       IN batch' = SelectIdxs(batch, found.keep)
    /\ UNCHANGED <<layout, draws, reward, extras, validated, trained>>

(* A batch without any signal ends the step before anything is computed;   *)
(* the reward's extra columns are left as they are.                        *)
FilterGroups ==
    /\ phase = "scored"
    /\ LET found == FilterZeroSignalGroups(batch.others.uid, Scores, World)
       IN \/ /\ ~DropZeroSignal \/ found.dropped = 0
             /\ phase' = "filtered"
             /\ UNCHANGED <<batch, reward>>
          \/ /\ DropZeroSignal /\ found.dropped = -1
             /\ phase' = "skipped"
             /\ UNCHANGED <<batch, reward>>
          \/ /\ DropZeroSignal /\ found.dropped > 0
             /\ phase' = "filtered"
             /\ batch' = SelectIdxs(batch, found.keep)
             /\ reward' = [i \in DOMAIN found.keep |->
                              reward[found.keep[i]]]
    /\ UNCHANGED <<layout, draws, extras, validated, trained>>

(* compute_log_prob and compute_values: what is said of the tokens of the  *)
(* response; values only where the mask of the response is on, which in    *)
(* Megatron's critic is the attention mask.                                *)
LogProbs(slots, outputs) == ResponsePart(outputs, Width.response)

Values(slots, outputs) ==
    LET part == ResponsePart(outputs, Width.response)
        On(slot, t) ==
          LET mask == Response(slot).mask
          IN t \in DOMAIN mask
             /\ (mask[t] = 1 \/ layout.model.kind = "megatron")
    IN Each(Len(slots), LAMBDA i : Each(Width.response, LAMBDA t :
         IF On(slots[i], t) THEN part[i][t].seen ELSE Nothing))

ComputeLogProb ==
    /\ phase = "filtered"
    /\ phase' = "computed"
    /\ batch' = Union(batch, OnMesh(batch, RowOf, "oldLogProb", LogProbs))
    /\ UNCHANGED <<layout, draws, reward, extras, validated, trained>>

ComputeValues ==
    /\ phase = "computed"
    /\ phase' = "valued"
    /\ batch' = Union(batch, OnMesh(batch, RowOf, "values", Values))
    /\ UNCHANGED <<layout, draws, reward, extras, validated, trained>>

OutcomeEstimators == {"grpo", "rloo", "opo", "passk"}

OutcomeAdvantage(estimator, group, score, len, i) ==
    CASE estimator = "grpo" -> GrpoAdvantage(group, score, i)
      [] estimator = "rloo" -> RlooAdvantage(group, score, i)
      [] estimator = "opo" -> OpoAdvantage(group, score, len, i)
      [] estimator = "passk" -> PasskAdvantage(group, score, i)

ResponseLen(slot) == SumSeq(Response(slot).mask)

(* The scores join the batch, and the advantages of every estimator.       *)
ComputeAdvantage ==
    /\ phase = "valued"
    /\ phase' = "estimated"
    /\ LET lens == [i \in 1..BatchSize(batch) |->
                       ResponseLen(SlotsOf(batch)[i])]
           new == [tensors |->
                     [scores |-> reward,
                      advantages |->
                        [i \in 1..BatchSize(batch) |->
                           [e \in OutcomeEstimators |->
                              OutcomeAdvantage(e, batch.others.uid, Scores,
                                               lens, i)]]],
                   others |-> IF RewardExtras THEN [extra |-> extras]
                              ELSE << >>]
       IN batch' = Union(batch, new)
    /\ UNCHANGED <<layout, draws, reward, extras, validated, trained>>

(* update_policy: mini batches in the order of the rank's rows, and the    *)
(* micro batches of each.                                                  *)
UpdateActor ==
    /\ phase = "estimated"
    /\ phase' = "trained"
    /\ LET pieces == NdDispatch(batch, layout.actor.dp)
           minis == [r \in DOMAIN pieces |-> Split(pieces[r], layout.mini)]
           micros(m) == MicroIdx([r \in DOMAIN pieces |->
                                    Lengths(minis[r][m])])
       IN trained' =
            [r \in DOMAIN pieces |->
               [m \in DOMAIN minis[r] |->
                  PrepareDynamicBatch(SlotsOf(minis[r][m]), micros(m)[r])]]
    /\ UNCHANGED <<layout, draws, batch, reward, extras, validated>>

(* A fraction is <<above, below>>.                                         *)
Plus(f, g) == <<f[1] * g[2] + g[1] * f[2], f[2] * g[2]>>
SameFraction(f, g) == f[1] * g[2] = g[1] * f[2]

(* The loss of the rows of some slots; the values stand for the losses of  *)
(* the tokens.                                                             *)
LossOf(mode, slots) ==
    AggLoss(mode, [i \in DOMAIN slots |-> Response(slots[i]).values],
            [i \in DOMAIN slots |-> Response(slots[i]).mask])

(* loss_scale_factor: the rows' share of a mini batch of full size, or one *)
(* over gradient_accumulation.                                             *)
ScaledLoss(mode, slots) ==
    LET l == LossOf(mode, slots)
    IN IF layout.dynamic THEN <<l[1] * Len(slots), l[2] * layout.mini>>
       ELSE <<l[1], l[2] * (layout.mini \div MicroBatch)>>

\* Mutant of AccumulatedLoss: the micro batches count alike.
AccumulatedAlike(mode, micros) ==
    FoldSeq(LAMBDA slots, acc :
              LET l == LossOf(mode, slots)
              IN Plus(<<l[1] * Len(FlattenSeq(micros)),
                        l[2] * Len(micros) * layout.mini>>, acc),
            <<0, 1>>, micros)

(* What backward() adds up over the micro batches of one mini batch.       *)
AccumulatedLoss(mode, micros) ==
    FoldSeq(LAMBDA slots, acc : Plus(ScaledLoss(mode, slots), acc),
            <<0, 1>>, micros)

Next ==
    \/ Validate \/ Generate \/ BalanceBatch \/ ComputeReward \/ FilterGroups
    \/ ComputeLogProb \/ ComputeValues \/ ComputeAdvantage \/ UpdateActor

Spec == Init /\ [][Next]_vars

-----------------------------------------------------------------------------
(* What holds *)

Answered == "answer" \in DOMAIN batch.tensors

(* None of the assertions along the way stops a step: all columns of the   *)
(* batch have its size, the answers unite with what they answer, whatever  *)
(* the balancing and the filter leave can be split over the ranks, and     *)
(* every rank has a row for each micro batch the ranks have agreed on, and *)
(* every row fits a micro batch and the chunks it is cut into, and         *)
(* Megatron's mini batches come out even (protocol.py:384-408, 670-687,    *)
(* 705, 764-768; seqlen_balancing.py:274-292; mcore/util.py:80-95).        *)
BatchConsistent ==
    /\ CheckConsistency(batch)
    /\ phase = "loaded" => UnionDefined(Rest, Answers)
    /\ phase \in {"filtered", "estimated"} =>
         LET pieces == NdDispatch(batch, layout.actor.dp)
             lens == [r \in DOMAIN pieces |-> Lengths(pieces[r])]
         IN /\ ChunkDefined(batch, DpSize(layout.actor), FALSE)
            /\ \A r \in DOMAIN lens :
                 /\ layout.dynamic =>
                      /\ MaxTokens * Shards >= Width.prompt + Width.response
                      /\ RearrangeDefined(lens[r],
                           AgreedCount(lens, MaxTokens * Shards, 1,
                                       layout.model.divisor))
                 /\ layout.model.kind = "megatron" =>
                      Len(lens[r]) % layout.mini = 0
                 /\ layout.model.kind = "megatron" => \A i \in DOMAIN lens[r] :
                      PackDefined(lens[r][i], [tp |-> layout.model.tp,
                                               cp |-> Shards])

(* What a model of this layout sees when it predicts from token k of a row *)
(* of its own on: the row up to that token, through the key head that each *)
(* query head shares.                                                      *)
Prefix(slot, k) ==
    LET heads == layout.model.heads
    IN [h \in 1..heads.q |->
          [query |-> <<<<slot, k>>, h>>,
           keys |-> LET shared == ((h - 1) * heads.kv) \div heads.q + 1
                    IN [j \in 1..k |-> <<<<slot, j>>, shared>>]]]

(* Every token of a response is judged as the token it is, given what      *)
(* stands before it and nothing else; the values are where the policy, or  *)
(* for Megatron anyone, has written; the reward model has seen the whole   *)
(* answer and speaks on its last token.                                    *)
PredictionsInPlace(i) ==
    LET slot == SlotsOf(batch)[i]
        resp == Response(slot)
        columns == batch.tensors
        Before(t) == Prefix(slot, resp.prompt + t - 1)
        limit == Len(RmRowOf(slot))
    IN /\ "oldLogProb" \in DOMAIN columns =>
            \A t \in DOMAIN resp.mask : columns.oldLogProb[i][t] =
                [seen |-> Before(t), label |-> <<slot, resp.prompt + t>>]
       /\ "values" \in DOMAIN columns =>
            \A t \in 1..Width.response : columns.values[i][t] =
                IF t <= Len(resp.mask)
                   /\ (resp.mask[t] = 1 \/ layout.model.kind = "megatron")
                THEN Before(t) ELSE Nothing
       /\ "rmScores" \in DOMAIN columns =>
            \A t \in 1..Width.response : columns.rmScores[i][t] =
                IF t # Len(resp.mask) THEN Nothing
                ELSE Prefix(slot, IF layout.rm = "same" THEN Tokens(slot)
                                  ELSE Min({RmTokens(slot), limit}))

(* Whatever has been repeated, dispatched to the ranks of two meshes, cut  *)
(* into micro batches, stripped of padding, cut over the ranks of a group, *)
(* gathered, restored, collected, reordered and filtered, every column     *)
(* still speaks about the answer in its row and the token in its place,    *)
(* and every answer about the prompt it was asked with.  The validation    *)
(* batch loses its padding and nothing else.                               *)
RowsAligned ==
    /\ Answered =>
         \A i \in 1..BatchSize(batch) :
            LET slot == SlotsOf(batch)[i]
                origin == (slot - 1) \div layout.n + 1
            IN /\ batch.tensors.answer[i].prompt = origin
               /\ batch.others.uid[i] = origin
               /\ batch.others.truth[i] = origin
               /\ reward # << >> =>
                    /\ reward[i].slot = slot
                    /\ reward[i].at = Len(Response(slot).mask)
               /\ PredictionsInPlace(i)
    /\ phase # "start" =>
         /\ SlotsOf(validated) = [i \in 1..layout.prompts |-> i]
         /\ \A i \in 1..layout.prompts :
               validated.tensors.answer[i].prompt = validated.others.uid[i]

(* The advantage of an answer is that of its group as it was drawn: the    *)
(* balancing and the filter in between change nothing, as the note at      *)
(* ray_trainer.py:1252-1255 says of the balancing.                         *)
AdvantagesOfTheDraw ==
    phase \in {"estimated", "trained"} =>
        LET rows == layout.prompts * layout.n
            group == [s \in 1..rows |-> (s - 1) \div layout.n + 1]
            score == [s \in 1..rows |-> Response(s).score]
            lens == [s \in 1..rows |-> ResponseLen(s)]
        IN \A i \in 1..BatchSize(batch), e \in OutcomeEstimators :
              batch.tensors.advantages[i][e]
                = OutcomeAdvantage(e, group, score, lens, SlotsOf(batch)[i])

(* The filter keeps groups whole, keeps only groups with a signal, leaves  *)
(* a size every rank count divides, gives up less than one more group than *)
(* that needs, and drops no row whose advantage is not zero on its own     *)
(* account (filter_zero_signal_groups, ray_trainer.py:299-362).            *)
FilterExact ==
    phase \in {"filtered", "skipped"} /\ DropZeroSignal =>
        LET group == [s \in Slots |-> (s - 1) \div layout.n + 1]
            score == [s \in Slots |-> Response(s).score]
            lens == [s \in Slots |-> ResponseLen(s)]
            live == {s \in Slots : \E t \in Slots :
                        group[t] = group[s] /\ score[t] # score[s]}
            kept == IF phase = "skipped" THEN {}
                    ELSE {SlotsOf(batch)[i] : i \in 1..BatchSize(batch)}
            spare == Cardinality(live) - Cardinality(kept)
        IN /\ \A s \in kept, t \in Slots :
                 group[s] = group[t] => t \in kept
           /\ kept \subseteq live
           /\ BatchSize(batch) % World = 0
           /\ \A extra \in SUBSET (live \ kept) :
                 (Cardinality(kept) + Cardinality(extra)) % World = 0
                 /\ (\A s \in extra, t \in Slots :
                       group[s] = group[t] => t \in extra)
                 => extra = {}
           /\ \A s \in Slots \ live, e \in OutcomeEstimators :
                 OutcomeAdvantage(e, group, score, lens, s) = 0

(* All ranks make the same number of optimizer steps and of forward passes *)
(* per step, whatever the lengths of their rows, so that their collectives *)
(* meet; every rank sees its rows once; and together the ranks of distinct *)
(* shares train on the whole batch once (dp_actor.py:460-585).             *)
CollectivesMatch ==
    phase = "trained" =>
        /\ \A r, q \in DOMAIN trained :
              /\ Len(trained[r]) = Len(trained[q])
              /\ \A m \in DOMAIN trained[r] :
                    Len(trained[r][m]) = Len(trained[q][m])
        /\ LET share(r) == FlattenSeq(FlattenSeq(trained[r]))
               collected == {r \in DOMAIN trained : layout.actor.mask[r]}
           IN /\ \A r \in DOMAIN trained : IsInjective(share(r))
              /\ \A r, q \in collected :
                    r # q => ToSet(share(r)) \cap ToSet(share(q)) = {}
              /\ UNION {ToSet(share(r)) : r \in collected}
                   = ToSet(SlotsOf(batch))

(* Differencing bounds the imbalance: parts of equal size differ by no     *)
(* more than two neighbours k apart in sorted order do, free parts by no   *)
(* more than the longest sequence; the greedy alternative keeps the same   *)
(* bound (seqlen_balancing.py:26-147).                                     *)
SpreadBounded ==
    phase = "generated" =>
        LET lens == Lengths(batch)
            n == Len(lens)
            worst == Max(ToSet(lens))
            sorted == SortSeq(lens, <)
            step == Max({sorted[g * World + World] - sorted[g * World + 1] :
                            g \in 0..(n \div World - 1)})
            gap(parts) == LET u == Unbalance(lens, parts)
                          IN u.greatest - u.least
            equal == GetSeqlenBalancedPartitions(lens, World, TRUE)
            free == GetSeqlenBalancedPartitions(lens, World, FALSE)
        IN /\ CoversOnce(equal, n) /\ EqualSizes(equal, n)
           /\ gap(equal) <= step
           /\ CoversOnce(free, n)
           /\ gap(free) <= worst
           /\ gap(GreedyPartition(lens, World, FALSE)) <= worst

(* Accumulating over micro batches, whose sizes differ when they are       *)
(* balanced by tokens, gives the loss of the mini batch as a whole when    *)
(* the loss is averaged over sequences first; the scale of a short last    *)
(* mini batch stays that of a full one (dp_actor.py:499-564).              *)
AccumulationExact ==
    phase = "trained" /\ layout.model.kind # "megatron" =>
        \A r \in DOMAIN trained : \A m \in DOMAIN trained[r] :
          \A mode \in {"seq-mean-token-sum", "seq-mean-token-mean"} :
            LET rows == FlattenSeq(trained[r][m])
                whole == LossOf(mode, rows)
            IN SameFraction(AccumulatedLoss(mode, trained[r][m]),
                            <<whole[1] * Len(rows), whole[2] * layout.mini>>)

(* The tokens of a row as the estimators see them: the score stands where  *)
(* the reward tensor has it, on the last valid token, whoever wrote it.    *)
Sample(i) ==
    LET resp == Response(SlotsOf(batch)[i])
        given == batch.tensors.scores[i]
        seen == batch.tensors.values[i]
        tokens == DOMAIN resp.mask
    IN [mask |-> resp.mask,
        values |-> [t \in tokens |->
                      IF seen[t] = Nothing THEN 0 ELSE resp.values[t]],
        rewards |-> [t \in tokens |->
                       IF t = given.at THEN 7 * given.score ELSE 0]]

(* GAE and ReMax credit the policy's own tokens with what is rewarded on   *)
(* tokens of its own and with nothing else, as in the response without     *)
(* what a tool wrote into it.  The score therefore reaches every one of    *)
(* them undiminished when the policy wrote the last valid token, on which  *)
(* naive.py:100 puts it, and none of them when a tool did.  REINFORCE++    *)
(* does so for responses without a tool's tokens only (core_algos.py:      *)
(* 235-250, 575-583, 606-618).                                             *)
OwnTokensCredited ==
    phase = "estimated" =>
        \A i \in 1..BatchSize(batch) :
            LET sample == Sample(i)
                tokens == [t \in DOMAIN sample.mask |-> t]
                own == SelectSeq(tokens, LAMBDA t : sample.mask[t] = 1)
                At(s) == [k \in DOMAIN own |-> s[own[k]]]
                alone == [mask |-> At(sample.mask),
                          values |-> At(sample.values),
                          rewards |-> At(sample.rewards)]
                credit == IF Last(sample.mask) = 1
                          THEN 7 * batch.tensors.scores[i].score ELSE 0
            IN /\ \A gamma, lam \in {1, 2} :
                    /\ At(GaeFrom(sample, gamma, lam))
                         = GaeFrom(alone, gamma, lam)
                    /\ At(GaeReturns(sample, gamma, lam))
                         = GaeReturns(alone, gamma, lam)
               /\ At(RemaxAdvantage(sample, 3)) = RemaxAdvantage(alone, 3)
               /\ \A k \in DOMAIN own :
                    /\ At(GaeReturns(sample, 1, 1))[k] = credit
                    /\ At(RemaxReturns(sample))[k] = credit
               /\ ReinforceReturns(alone, 1) = RemaxReturns(alone)

(* The clipped objective is flat in the ratio exactly where the step has   *)
(* gone far enough in the direction of its advantage, and, for a negative  *)
(* advantage, beyond the dual clip; everywhere else it is the plain policy *)
(* gradient.  The clipped value loss never gets better by moving away from *)
(* the old value (core_algos.py:740-889, 1230-1268).                       *)
ClipRegions ==
    phase = "estimated" =>
        LET advs == {batch.tensors.advantages[i]["grpo"] :
                        i \in 1..BatchSize(batch)}
            low == 2  high == 3  dual == 30
        IN /\ \A adv \in advs, ratio \in 0..40 :
                LET loss == PolicyLoss(adv, ratio, low, high, dual)
                    far == IF adv > 0 THEN Unit + high
                           ELSE IF ratio < Unit THEN Unit - low ELSE dual
                    gone == \/ adv > 0 /\ ratio > Unit + high
                            \/ adv < 0 /\ ratio < Unit - low
                            \/ adv < 0 /\ ratio > dual
                IN loss = -adv * (IF gone THEN far ELSE ratio)
           /\ \A value, return \in advs, d \in 0..6 :
                /\ ValueLoss(value + d, return, value, 2)
                     >= ValueLoss(value + Min({d, 2}), return, value, 2)
                /\ ValueLoss(value - d, return, value, 2)
                     >= ValueLoss(value - Min({d, 2}), return, value, 2)

(* What the update is driven by is right from end to end, wherever the     *)
(* score falls: the credit of the policy's tokens, the gradient it is      *)
(* turned into (core_algos.py) and its accumulation (dp_actor.py).         *)
ObjectiveSound == OwnTokensCredited /\ ClipRegions /\ AccumulationExact

(* Ways of rearranging a batch that the code takes to be one another's     *)
(* inverses, or to agree: splitting and concatenating with and without     *)
(* padding, popping and uniting, folding and unfolding, gathering over a   *)
(* group and keeping one's own, repeating rows alike (protocol.py:70-1072) *)
ContainerLaws ==
    phase = "estimated" =>
        LET n == BatchSize(batch)
            twice == [i \in 1..n |-> 2]
        IN /\ \A k \in 1..5 :
                /\ DpRoundTrip(batch, k) = batch
                /\ n % k = 0 => Concat(Chunk(batch, k)) = batch
                /\ n % k = 0 =>
                     UnfoldBatchDim(FoldBatchDim(batch, k)) = batch
                /\ Concat(Split(batch, k)) = batch
           /\ Union(PopRest(batch, {"answer", "uid"}),
                    Popped(batch, {"answer", "uid"})) = batch
           /\ SampleLevelRepeat(batch, twice) = Repeat(batch, 2, TRUE)
           /\ Chunk(Repeat(batch, 2, FALSE), 2) = <<batch, batch>>
           /\ LET parts == Chunk(batch, World)
              IN KeepOwn(AllGather(parts)) = parts
           /\ LET lists == [tensors |-> [v |-> [i \in 1..n |-> <<i, -i>>]],
                            others |-> batch.others]
              IN /\ FlattenSeq(UnfoldColumnChunks(lists, 2, {"v"}).tensors.v)
                      = FlattenSeq(lists.tensors.v)
                 /\ UnfoldColumnChunks(lists, 2, {"v"}).others
                      = Repeat(lists, 2, TRUE).others

-----------------------------------------------------------------------------
(* What the code says and does not do *)

(* protocol.py:401: every column of a batch has as many rows as the batch. *)
(* The extra columns of a reward function are not filtered with their      *)
(* batch (ray_trainer.py:1336-1341, 1425-1426).                            *)
ExtrasFiltered ==
    \A k \in DOMAIN batch.others : Len(batch.others[k]) = BatchSize(batch)
=============================================================================
