----------------------------- MODULE BatchProto -----------------------------
(***************************************************************************)
(* DataProto, the container that carries every batch between the driver    *)
(* and the workers: rows of tensors and rows of plain objects that must    *)
(* stay aligned while they are repeated, reordered, filtered, split over   *)
(* data-parallel ranks and put together again.                             *)
(*                                                                         *)
(* A batch is [tensors, others]: two functions from keys to sequences of   *)
(* rows.  What a row holds is left to the caller.                          *)
(***************************************************************************)
EXTENDS Integers, Sequences, FiniteSets, SequencesExt, FiniteSetsExt

(* The batch size is that of the tensors; without tensors it is the length *)
(* of any object column.                                                   *)
BatchSize(b) ==
    IF b.tensors # << >>
    THEN Len(b.tensors[CHOOSE k \in DOMAIN b.tensors : TRUE])
    ELSE IF b.others # << >>
         THEN Len(b.others[CHOOSE k \in DOMAIN b.others : TRUE])
         ELSE 0

CheckConsistency(b) ==
    /\ \A k \in DOMAIN b.tensors : Len(b.tensors[k]) = BatchSize(b)
    /\ b.tensors # << >> =>
         \A k \in DOMAIN b.others : Len(b.others[k]) = BatchSize(b)

(* Every row operation acts on both kinds of columns alike.                *)
MapColumns(b, Op(_)) ==
    [tensors |-> [k \in DOMAIN b.tensors |-> Op(b.tensors[k])],
     others  |-> [k \in DOMAIN b.others |-> Op(b.others[k])]]

(* Rows chosen by 1-based indices, in the order of the indices.            *)
SelectIdxs(b, idxs) ==
    MapColumns(b, LAMBDA rows : [i \in 1..Len(idxs) |-> rows[idxs[i]]])

Reorder(b, idxs) == SelectIdxs(b, idxs)

(* b[from:to], cut at the end of the batch as a Python slice is.           *)
Slice(b, from, to) ==
    MapColumns(b, LAMBDA rows : SubSeq(rows, from, Min({to, Len(rows)})))

(* Interleaved, the copies of a row are neighbours; stacked, the batch     *)
(* follows itself.                                                         *)
Repeat(b, times, interleave) ==
    MapColumns(b, LAMBDA rows :
        [i \in 1..(Len(rows) * times) |->
            IF interleave THEN rows[(i - 1) \div times + 1]
            ELSE rows[((i - 1) % Len(rows)) + 1]])

\* Mutant of SampleLevelRepeat: every row is repeated like the first.
SampleRepeatStacked(b, times) == Repeat(b, times[1], FALSE)

SampleLevelRepeat(b, times) ==
    MapColumns(b, LAMBDA rows :
        FlattenSeq([i \in 1..Len(rows) |->
                       [j \in 1..times[i] |-> rows[i]]]))

(* Rows of a split key are cut into pieces that become rows of their own;  *)
(* the other keys are repeated.  A row of a split key is a sequence.       *)
UnfoldColumnChunks(b, n, split) ==
    LET Cut(row) == LET w == Len(row) \div n
                    IN [j \in 1..n |-> SubSeq(row, (j - 1) * w + 1, j * w)]
        Unfold(k, rows) ==
            IF k \in split
            THEN FlattenSeq([i \in 1..Len(rows) |-> Cut(rows[i])])
            ELSE [i \in 1..(Len(rows) * n) |-> rows[(i - 1) \div n + 1]]
    IN [tensors |-> [k \in DOMAIN b.tensors |-> Unfold(k, b.tensors[k])],
        others  |-> [k \in DOMAIN b.others |-> Unfold(k, b.others[k])]]

(* (bs, ...) becomes (n, bs / n, ...) and back: each new row is the        *)
(* sequence of the rows it folds.                                          *)
FoldBatchDim(b, n) ==
    MapColumns(b, LAMBDA rows :
        LET w == Len(rows) \div n
        IN [i \in 1..n |-> SubSeq(rows, (i - 1) * w + 1, i * w)])

UnfoldBatchDim(b) == MapColumns(b, FlattenSeq)

Restricted(f, keys) == [k \in DOMAIN f \ keys |-> f[k]]
Only(f, keys)       == [k \in DOMAIN f \cap keys |-> f[k]]

(* pop: what stays and what is handed out.                                 *)
PopRest(b, keys) ==
    [tensors |-> Restricted(b.tensors, keys),
     others  |-> Restricted(b.others, keys)]
Popped(b, keys) ==
    [tensors |-> Only(b.tensors, keys), others |-> Only(b.others, keys)]

(* union asserts the same batch size and equal values under a common key.  *)
UnionDefined(a, b) ==
    /\ b.tensors # << >> => BatchSize(a) = BatchSize(b)
    /\ \A k \in DOMAIN a.tensors \cap DOMAIN b.tensors :
          a.tensors[k] = b.tensors[k]
    /\ \A k \in DOMAIN a.others \cap DOMAIN b.others :
          a.others[k] = b.others[k]

(* The values of g are stored over those of f.                             *)
Updated(f, g) ==
    [k \in DOMAIN f \cup DOMAIN g |-> IF k \in DOMAIN g THEN g[k] ELSE f[k]]

Union(a, b) == [tensors |-> Updated(a.tensors, b.tensors),
                others  |-> Updated(a.others, b.others)]

(* The keys of the first part decide.                                      *)
Concat(parts) ==
    LET Joined(f, Pick(_)) ==
            [k \in DOMAIN f |->
                FlattenSeq([i \in 1..Len(parts) |-> Pick(parts[i])[k]])]
    IN [tensors |-> Joined(parts[1].tensors, LAMBDA p : p.tensors),
        others  |-> Joined(parts[1].others, LAMBDA p : p.others)]

(***************************************************************************)
(* Splitting over ranks.                                                   *)
(***************************************************************************)

(* torch.chunk makes pieces of ceil(n / k) rows: with a size that k does   *)
(* not divide it may return fewer than k pieces, and chunk then fails.     *)
PieceSize(n, k) == (n + k - 1) \div k
ChunkDefined(b, k, padding) ==
    LET n == BatchSize(b)
    IN \/ n % k = 0
       \/ padding /\ n > 0 /\ PieceSize(n, PieceSize(n, k)) = k
Chunk(b, k) ==
    LET w == PieceSize(BatchSize(b), k)
    IN [i \in 1..k |-> Slice(b, (i - 1) * w + 1, i * w)]

(* make_iterator without shuffling, split: consecutive mini batches.       *)
Split(b, size) ==
    [i \in 1..PieceSize(BatchSize(b), size) |->
        Slice(b, (i - 1) * size + 1, i * size)]

(* pad_dataproto_to_divisor copies rows from the front, in several turns   *)
(* when the batch is shorter than the padding.                             *)
PadSize(n, divisor) == IF n % divisor = 0 THEN 0 ELSE divisor - (n % divisor)
PadToDivisor(b, divisor) ==
    LET n == BatchSize(b)
    IN SelectIdxs(b, [i \in 1..(n + PadSize(n, divisor)) |->
                         IF i <= n THEN i ELSE ((i - n - 1) % n) + 1])
Unpad(b, pad) == Slice(b, 1, BatchSize(b) - pad)

(* The padding of the dispatcher repeats the last row.                     *)
AutoPad(b, chunks) ==
    LET n == BatchSize(b)
    IN SelectIdxs(b, [i \in 1..(n + PadSize(n, chunks)) |-> Min({i, n})])

(* dispatch_dp_compute_data_proto, the call on every rank, and the collect *)
(* with its padding removed, for a call that keeps its rows.               *)
DpRoundTrip(b, world) ==
    LET padded == AutoPad(b, world)
    IN Unpad(Concat(Chunk(padded, world)),
             BatchSize(padded) - BatchSize(b))

(* dispatch_nd_compute: rank r works on the piece of its data-parallel     *)
(* rank; the collect mask keeps one answer per data-parallel rank, in the  *)
(* order of the global ranks.                                              *)
NdDispatch(b, dpRank) ==
    LET pieces == Chunk(b, Max({dpRank[r] : r \in DOMAIN dpRank}) + 1)
    IN [r \in DOMAIN dpRank |-> pieces[dpRank[r] + 1]]

NdCollect(outputs, mask) ==
    Concat([i \in 1..Cardinality({r \in DOMAIN outputs : mask[r]}) |->
              outputs[CHOOSE r \in DOMAIN outputs :
                        /\ mask[r]
                        /\ Cardinality({q \in 1..r : mask[q]}) = i]])

(* preprocess_data gathers the rows of the tensor-parallel group on each   *)
(* of its ranks, postprocess_data keeps the rank's own piece again.        *)
AllGather(parts) == [r \in DOMAIN parts |-> Concat(parts)]
KeepOwn(gathered) ==
    [r \in DOMAIN gathered |-> Chunk(gathered[r], Len(gathered))[r]]
=============================================================================
