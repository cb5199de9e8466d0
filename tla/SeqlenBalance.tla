---------------------------- MODULE SeqlenBalance ----------------------------
(***************************************************************************)
(* Balancing sequences by length: the Karmarkar-Karp partition that evens  *)
(* out the tokens of the data-parallel ranks and of the micro batches of a *)
(* dynamic batch, and the way back to the original order.                  *)
(*                                                                         *)
(* Lengths are a sequence of naturals; indices count from 1 here and from  *)
(* 0 in the code.                                                          *)
(***************************************************************************)
EXTENDS Integers, Sequences, FiniteSets, SequencesExt, FiniteSetsExt

Total(lens) == FoldSeq(LAMBDA x, acc : x + acc, 0, lens)

(***************************************************************************)
(* A set of the algorithm is [sum, items], an item <<index, length>>, and  *)
(* a state a sequence of k sets in decreasing order.                       *)
(***************************************************************************)
EmptySet == [sum |-> 0, items |-> << >>]
Joined(s, t) == [sum |-> s.sum + t.sum, items |-> s.items \o t.items]

(* Python compares lists of pairs item by item.                            *)
ItemsLess(s, t) ==
    \E i \in 1..Len(s) :
        /\ \A j \in 1..(i - 1) : s[j] = t[j]
        /\ \/ s[i][1] < t[i][1]
           \/ s[i][1] = t[i][1] /\ s[i][2] < t[i][2]

(* Sums first, then the number of items, then the items.                   *)
SetLess(s, t) ==
    \/ s.sum < t.sum
    \/ s.sum = t.sum /\ Len(s.items) < Len(t.items)
    \/ /\ s.sum = t.sum /\ Len(s.items) = Len(t.items)
       /\ ItemsLess(s.items, t.items)

Decreasing(sets) == SortSeq(sets, LAMBDA s, t : SetLess(t, s))

Spread(state) == state[1].sum - state[Len(state)].sum

(* The heap hands out the state of largest spread, at equal spread the one *)
(* with the largest set.                                                   *)
PoppedBefore(x, y) ==
    \/ Spread(x) > Spread(y)
    \/ Spread(x) = Spread(y) /\ SetLess(y[1], x[1])

PopState(states) ==
    CHOOSE x \in states : \A y \in states \ {x} : PoppedBefore(x, y)

\* Mutant of MergeStates: the largest sets join.
MergeLikeEnds(x, y) ==
    Decreasing([i \in DOMAIN x |-> Joined(x[i], y[i])])

(* The largest set of one state joins the smallest of the other.           *)
MergeStates(x, y) ==
    Decreasing([i \in DOMAIN x |-> Joined(x[i], y[Len(x) + 1 - i])])

StateOf(items, k) ==
    Decreasing([i \in 1..k |->
                  IF i <= Len(items)
                  THEN [sum |-> items[i][2], items |-> <<items[i]>>]
                  ELSE EmptySet])

(* One state per sequence, or, for parts of equal size, one per k          *)
(* sequences of neighbouring length.                                       *)
FirstStates(lens, k, equalSize) ==
    LET item(i) == <<i, lens[i]>>
        sorted == SortSeq([i \in DOMAIN lens |-> i],
                          LAMBDA i, j : \/ lens[i] < lens[j]
                                        \/ lens[i] = lens[j] /\ i < j)
    IN IF equalSize
       THEN {StateOf([i \in 1..k |-> item(sorted[g * k + i])], k) :
                g \in 0..(Len(lens) \div k - 1)}
       ELSE {StateOf(<<item(i)>>, k) : i \in DOMAIN lens}

RECURSIVE MergeAll(_)
MergeAll(states) ==
    IF Cardinality(states) = 1 THEN PopState(states)
    ELSE LET x == PopState(states)
             y == PopState(states \ {x})
         IN MergeAll((states \ {x, y}) \cup {MergeStates(x, y)})

KarmarkarKarp(lens, k, equalSize) ==
    LET final == MergeAll(FirstStates(lens, k, equalSize))
    IN [p \in 1..k |->
          [i \in DOMAIN final[p].items |-> final[p].items[i][1]]]

(* The alternative that puts each sequence where least has been put, the   *)
(* bias making the number of items decide first.                           *)
GreedyPartition(lens, k, equalSize) ==
    LET bias == IF equalSize THEN Total(lens) + 1 ELSE 0
        Least(sums) == CHOOSE j \in 1..k :
            \A i \in 1..k : sums[j] < sums[i] \/ (sums[j] = sums[i] /\ j <= i)
        Put(acc, i) == LET j == Least(acc.sums)
                       IN [parts |-> [acc.parts EXCEPT ![j] = Append(@, i)],
                           sums |-> [acc.sums EXCEPT
                                         ![j] = @ + lens[i] + bias]]
        empty == [parts |-> [j \in 1..k |-> << >>],
                  sums |-> [j \in 1..k |-> 0]]
    IN FoldLeft(Put, empty, [i \in DOMAIN lens |-> i]).parts

(***************************************************************************)
(* What the code asserts of a partition, and the partition it returns.     *)
(***************************************************************************)
CoversOnce(parts, n) ==
    /\ \A p \in DOMAIN parts : Len(parts[p]) > 0
    /\ UNION {ToSet(parts[p]) : p \in DOMAIN parts} = 1..n
EqualSizes(parts, n) == \A p \in DOMAIN parts : Len(parts[p]) * Len(parts) = n

Ascending(s) == SortSeq(s, LAMBDA a, b : a < b)

GetSeqlenBalancedPartitions(lens, k, equalSize) ==
    LET parts == KarmarkarKarp(lens, k, equalSize)
    IN [p \in 1..k |-> Ascending(parts[p])]

(* The driver reorders the batch so that equal chunks are balanced parts.  *)
BalancedOrder(lens, worldSize) ==
    FlattenSeq(GetSeqlenBalancedPartitions(lens, worldSize, TRUE))

(* What the balance metrics report: least and greatest sum per rank.       *)
Unbalance(lens, parts) ==
    LET sums == {Total([i \in DOMAIN parts[p] |-> lens[parts[p][i]]]) :
                    p \in DOMAIN parts}
    IN [least |-> Min(sums), greatest |-> Max(sums)]

(***************************************************************************)
(* Dynamic micro batches.                                                  *)
(***************************************************************************)
CeilDiv(a, b) == (a + b - 1) \div b
RoundUpDivisible(a, b) == CeilDiv(a, b) * b

(* The number one rank asks for, and the number all ranks of the group     *)
(* settle on: the greatest, so that their collectives match.               *)
OwnCount(lens, maxTokens) ==
    Min({Len(lens), CeilDiv(Total(lens), maxTokens)})
AgreedCount(ranks, maxTokens, minCount, divisor) ==
    RoundUpDivisible(
        Max({Max({OwnCount(ranks[r], maxTokens), minCount}) :
                r \in DOMAIN ranks}),
        divisor)

(* The assertion that stops the step when a rank has too few sequences.    *)
RearrangeDefined(lens, count) == count <= Len(lens)

Workload(lens, part) ==
    Total([i \in DOMAIN part |-> lens[part[i]] * lens[part[i]]])

(* Heaviest micro batch first.                                             *)
RearrangeMicroBatches(lens, count) ==
    SortSeq(GetSeqlenBalancedPartitions(lens, count, FALSE),
            LAMBDA p, q : \/ Workload(lens, p) > Workload(lens, q)
                          \/ /\ Workload(lens, p) = Workload(lens, q)
                             /\ p[1] > q[1])

ReverseIdx(idx) == [j \in DOMAIN idx |-> CHOOSE i \in DOMAIN idx : idx[i] = j]

(* Rows cut into micro batches, and rows put back in their first order.    *)
PrepareDynamicBatch(rows, microIdx) ==
    [m \in DOMAIN microIdx |->
        [i \in DOMAIN microIdx[m] |-> rows[microIdx[m][i]]]]

\* Mutant of RestoreDynamicBatch: the order is applied again, not reversed.
RestoreForward(rows, microIdx) ==
    LET idx == FlattenSeq(microIdx)
    IN [j \in DOMAIN idx |-> rows[idx[j]]]

RestoreDynamicBatch(rows, microIdx) ==
    LET back == ReverseIdx(FlattenSeq(microIdx))
    IN [j \in DOMAIN back |-> rows[back[j]]]
=============================================================================
