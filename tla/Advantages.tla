------------------------------ MODULE Advantages ------------------------------
(***************************************************************************)
(* From scores to the numbers the policy is trained on: the filter that    *)
(* drops groups without a signal, the advantage estimators, and the        *)
(* clipped losses.                                                         *)
(*                                                                         *)
(* Scores, rewards and values are integers.  A mean is kept as a product   *)
(* with the size of its group, so that every operator here is exact; the   *)
(* final whitening and the division by a standard deviation, both affine   *)
(* over a batch or a group, are left out.  A sample is a record            *)
(*   [group, rewards, mask, values]                                        *)
(* whose last three fields are sequences over the tokens of the response;  *)
(* mask is 0 at the tokens a tool or the environment wrote.                *)
(***************************************************************************)
EXTENDS Integers, Sequences, FiniteSets, SequencesExt, FiniteSetsExt

SumSeq(s) == FoldSeq(LAMBDA x, acc : x + acc, 0, s)

(* The rows of one group, and the groups in the order they first appear.   *)
RowsOf(group, g) == {i \in DOMAIN group : group[i] = g}
GroupsOf(group) == {group[i] : i \in DOMAIN group}

(***************************************************************************)
(* filter_zero_signal_groups: group and score of every row give the rows   *)
(* that stay, ascending, and how many groups went.                         *)
(***************************************************************************)
HasSignal(group, score, g) ==
    \E i, j \in RowsOf(group, g) : score[i] # score[j]

FirstRow(group, g) == Min(RowsOf(group, g))

RECURSIVE TrimToAlign(_, _, _)
TrimToAlign(group, kept, align) ==
    LET rows == {i \in DOMAIN group : group[i] \in kept}
    IN IF kept = {} \/ Cardinality(rows) % align = 0 THEN kept
       ELSE LET victim == CHOOSE g \in kept : \A h \in kept :
                              FirstRow(group, h) <= FirstRow(group, g)
            IN TrimToAlign(group, kept \ {victim}, align)

\* Mutant of KeptGroups: whatever has a signal stays.
KeptUnaligned(group, score, align) ==
    {g \in GroupsOf(group) : HasSignal(group, score, g)}

KeptGroups(group, score, align) ==
    TrimToAlign(group,
                {g \in GroupsOf(group) : HasSignal(group, score, g)}, align)

FilterZeroSignalGroups(group, score, align) ==
    LET kept == KeptGroups(group, score, align)
        rows == [i \in DOMAIN group |-> i]
    IN IF kept = {} THEN [keep |-> rows, dropped |-> -1]
       ELSE [keep |-> SelectSeq(rows, LAMBDA i : group[i] \in kept),
             dropped |-> Cardinality(GroupsOf(group) \ kept)]

(***************************************************************************)
(* Token-level estimators, from the last token to the first.               *)
(***************************************************************************)

\* Mutant of GaeFrom: the mask is not consulted.
GaeThroughMask(sample, gamma, lam) ==
    LET n == Len(sample.rewards)
        acc[t \in 1..(n + 1)] ==
          IF t = n + 1 THEN [next |-> 0, gae |-> 0]
          ELSE [next |-> sample.values[t],
                gae |-> sample.rewards[t] + gamma * acc[t + 1].next
                          - sample.values[t] + gamma * lam * acc[t + 1].gae]
    IN [t \in 1..n |-> acc[t].gae]

(* compute_gae_advantage_return: the running values pass over the tokens   *)
(* that the mask excludes.                                                 *)
GaeFrom(sample, gamma, lam) ==
    LET n == Len(sample.rewards)
        acc[t \in 1..(n + 1)] ==
          IF t = n + 1 THEN [next |-> 0, gae |-> 0]
          ELSE LET later == acc[t + 1]
                   delta == sample.rewards[t] + gamma * later.next
                              - sample.values[t]
               IN IF sample.mask[t] = 1
                  THEN [next |-> sample.values[t],
                        gae |-> delta + gamma * lam * later.gae]
                  ELSE later
    IN [t \in 1..n |-> acc[t].gae]

GaeReturns(sample, gamma, lam) ==
    LET adv == GaeFrom(sample, gamma, lam)
    IN [t \in DOMAIN adv |-> adv[t] + sample.values[t]]

(* compute_reinforce_plus_plus_outcome_advantage: the running return is    *)
(* multiplied by the mask after every token.                               *)
ReinforceReturns(sample, gamma) ==
    LET n == Len(sample.rewards)
        carried[t \in 1..(n + 1)] ==
          IF t = n + 1 THEN 0
          ELSE (sample.rewards[t] + gamma * carried[t + 1]) * sample.mask[t]
    IN [t \in 1..n |-> sample.rewards[t] + gamma * carried[t + 1]]

(* compute_remax_outcome_advantage: masked rewards to go, less the score   *)
(* of the greedy answer.                                                   *)
RemaxReturns(sample) ==
    [t \in DOMAIN sample.rewards |->
        SumSeq([u \in t..Len(sample.rewards) |->
                  sample.rewards[u] * sample.mask[u]])]

RemaxAdvantage(sample, baseline) ==
    [t \in DOMAIN sample.rewards |->
        RemaxReturns(sample)[t] - baseline * sample.mask[t]]

(***************************************************************************)
(* Outcome estimators: one number per row, from the scores of its group.   *)
(* Each is multiplied by what the code divides by.                         *)
(***************************************************************************)
GroupScores(group, score, i) ==
    SumSeq([j \in DOMAIN group |->
              IF group[j] = group[i] THEN score[j] ELSE 0])
GroupSize(group, i) == Cardinality(RowsOf(group, group[i]))

(* compute_grpo_outcome_advantage, times the size of the group: a lone row *)
(* keeps its score.                                                        *)
GrpoAdvantage(group, score, i) ==
    IF GroupSize(group, i) = 1 THEN score[i]
    ELSE score[i] * GroupSize(group, i) - GroupScores(group, score, i)

(* compute_rloo_outcome_advantage, times the size of the rest of the group *)
RlooAdvantage(group, score, i) ==
    LET n == GroupSize(group, i)
    IN IF n = 1 THEN score[i]
       ELSE score[i] * n - GroupScores(group, score, i)

(* compute_opo_outcome_advantage, times the tokens of the group.           *)
OpoAdvantage(group, score, len, i) ==
    LET Weighted(f(_)) == SumSeq([j \in DOMAIN group |->
                              IF group[j] = group[i] THEN f(j) ELSE 0])
    IN IF GroupSize(group, i) = 1 THEN score[i]
       ELSE score[i] * Weighted(LAMBDA j : len[j])
              - Weighted(LAMBDA j : len[j] * score[j])

(* compute_grpo_passk_outcome_advantage: the best row of a group gets its  *)
(* lead over the second, all others nothing.                               *)
PasskAdvantage(group, score, i) ==
    LET rows == RowsOf(group, group[i])
        best == Max({score[j] : j \in rows})
        lead == CHOOSE j \in rows : score[j] = best
        second == Max({score[j] : j \in rows \ {lead}})
    IN IF i = lead THEN best - second ELSE 0

(***************************************************************************)
(* Losses.  Ratios are integers in units of 1 / Unit.                      *)
(***************************************************************************)
Unit == 10
Clamp(x, low, high) == Max({low, Min({x, high})})

\* Mutant of PolicyLoss: the dual clip bounds every loss.
PolicyLossDualAlways(adv, ratio, low, high, c) ==
    Min({Max({adv, -adv}) * c,
         Max({-adv * ratio, -adv * Clamp(ratio, Unit, Unit + high)})})

(* compute_policy_loss_vanilla, one token, times Unit; low, high and c in  *)
(* the same unit.                                                          *)
PolicyLoss(adv, ratio, low, high, c) ==
    LET clipped == Max({-adv * ratio,
                        -adv * Clamp(ratio, Unit - low, Unit + high)})
    IN IF adv < 0 THEN Min({-adv * c, clipped}) ELSE clipped

(* compute_value_loss, one token, without the factor one half.             *)
ValueLoss(vpred, return, value, range) ==
    LET clippedPred == Clamp(vpred, value - range, value + range)
    IN Max({(vpred - return) * (vpred - return),
            (clippedPred - return) * (clippedPred - return)})

(* agg_loss over rows of token losses: a fraction <<above, below>>, whose  *)
(* lower part is 0 where the code divides by zero.                         *)
MaskedSum(losses, mask) ==
    SumSeq([t \in DOMAIN losses |-> losses[t] * mask[t]])
AggLoss(mode, losses, masks) ==
    LET rows == DOMAIN losses
        sums == [i \in rows |-> MaskedSum(losses[i], masks[i])]
        counts == [i \in rows |-> SumSeq(masks[i])]
        all == FoldSeq(LAMBDA c, acc : c * acc, 1, counts)
    IN CASE mode = "token-mean" -> <<SumSeq(sums), SumSeq(counts)>>
         [] mode = "seq-mean-token-sum" -> <<SumSeq(sums), Len(losses)>>
         [] mode = "seq-mean-token-mean" ->
              <<IF all = 0 THEN 0
                ELSE SumSeq([i \in rows |-> sums[i] * (all \div counts[i])]),
                all * Len(losses)>>
         [] mode = "seq-mean-token-sum-norm" ->
              <<SumSeq(sums), Len(losses[1])>>
=============================================================================
