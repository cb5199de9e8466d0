----------------------------- MODULE ModelForward -----------------------------
(***************************************************************************)
(* What a worker does around the forward pass of its model: rows padded on *)
(* both sides lose their padding, are joined into one sequence, cut over   *)
(* the ranks of a sequence-parallel (Ulysses) or context-parallel          *)
(* (Megatron) group, and what the model says of each token is gathered and *)
(* put back where the token was.                                           *)
(*                                                                         *)
(* A token is <<slot, k>>, the k-th of the row it came from.  A value      *)
(* computed by the model is what it was computed from: for every attention *)
(* head the token that asked and the tokens it saw.  Attention itself is   *)
(* external.                                                               *)
(***************************************************************************)
EXTENDS Integers, Sequences, FiniteSets, SequencesExt, FiniteSetsExt

PadToken == <<0, 0>>
Nothing == << >>

(* <<Of(1), ..., Of(n)>>, computed once: TLC would evaluate a function     *)
(* anew at each of its uses.                                               *)
Each(n, Of(_)) == [i \in 1..n |-> Of(i)] \o << >>

(***************************************************************************)
(* Rows, sequences of cells.                                               *)
(***************************************************************************)

(* prompts are padded on the left and responses on the right; positions    *)
(* run on over the padding of the response.                                *)
PaddedRow(slot, prompt, response, width) ==
    LET left == width.prompt - prompt
    IN [k \in 1..(width.prompt + width.response) |->
          LET on == k > left /\ k <= width.prompt + response
          IN [token |-> IF on THEN <<slot, k - left>> ELSE PadToken,
              on |-> on,
              pos |-> Max({0, k - left - 1})]]

(* compute_position_id_with_mask *)
MaskPosition(mask, k) ==
    Max({0, Cardinality({j \in 1..k : mask[j]}) - 1})

(* The conversation in the words of another tokenizer, n tokens of them,   *)
(* padded and cut on the right.                                            *)
SwitchChatTemplate(slot, n, maxLength) ==
    LET mask == [k \in 1..maxLength |-> k <= n]
    IN [k \in 1..maxLength |->
          [token |-> IF mask[k] THEN <<slot, k>> ELSE PadToken,
           on |-> mask[k],
           pos |-> MaskPosition(mask, k)]]

(* The same for a reward model on Megatron: 128 more places than the row   *)
(* of the policy has, here Spare, and positions over all of them.          *)
Spare == 2
ReEncodeByRmTokenizer(slot, n, seqlen) ==
    [k \in 1..(seqlen + Spare) |->
        [token |-> IF k <= n THEN <<slot, k>> ELSE PadToken,
         on |-> k <= n,
         pos |-> k - 1]]

(* The part of an output that predicts the response: one place earlier.    *)
ResponsePart(output, len) ==
    [i \in DOMAIN output |->
        LET w == Len(output[i]) IN SubSeq(output[i], w - len, w - 1)]

(* The place of the last valid token, by its position.                     *)
EosIndex(row) ==
    LET value(k) == IF row[k].on THEN row[k].pos ELSE 0
        best == Max({value(k) : k \in DOMAIN row})
    IN Min({k \in DOMAIN row : value(k) = best})

(* The same by counting the mask, for rows with positions on padding.      *)
MaskEnd(row) ==
    LET count(k) == Cardinality({j \in 1..k : row[j].on})
    IN Min({k \in DOMAIN row : count(k) = count(Len(row))})

(* A score per row becomes a score on the last valid token of the row the  *)
(* policy wrote, seen from its response.                                   *)
ExpandToTokenLevel(rows, scores, len) ==
    [i \in DOMAIN rows |->
        LET w == Len(rows[i])
        IN SubSeq([k \in 1..w |-> IF k = EosIndex(rows[i]) THEN scores[i]
                                  ELSE Nothing], w - len + 1, w)]

(***************************************************************************)
(* Removing padding.                                                       *)
(***************************************************************************)
UnpadInput(rows) ==
    LET Cells(i) == [k \in DOMAIN rows[i] |->
                        [cell |-> rows[i][k], at |-> <<i, k>>]]
    IN SelectSeq(FlattenSeq([i \in DOMAIN rows |-> Cells(i)]),
                 LAMBDA e : e.cell.on)

PadInput(values, packed, rows) ==
    Each(Len(rows), LAMBDA i : Each(Len(rows[i]), LAMBDA k :
        LET from == {j \in DOMAIN packed : packed[j].at = <<i, k>>}
        IN IF from = {} THEN Nothing ELSE values[CHOOSE j \in from : TRUE]))

CellsOf(packed) == Each(Len(packed), LAMBDA j : packed[j].cell)
TokensOf(cells) == Each(Len(cells), LAMBDA j : cells[j].token)

(* torch.roll by -1: the next token, and the first one after the last.     *)
Roll(s) == Tail(s) \o <<Head(s)>>

(***************************************************************************)
(* Ulysses: ranks share sequences, and heads during attention.             *)
(***************************************************************************)
PadSizeFor(n, sp) == (sp - (n % sp)) % sp

UlyssesPad(s, sp, Filler(_)) ==
    s \o [j \in 1..PadSizeFor(Len(s), sp) |-> Filler(j - 1)]

SliceInput(s, n, r) ==
    LET w == Len(s) \div n IN SubSeq(s, (r - 1) * w + 1, r * w)

(* The padding starts a sequence of its own.                               *)
UlyssesPadAndSlice(cells, sp, r) ==
    SliceInput(UlyssesPad(cells, sp, LAMBDA j :
                   [token |-> PadToken, on |-> FALSE, pos |-> j]), sp, r)

SliceLabels(labels, sp, r) ==
    SliceInput(UlyssesPad(labels, sp, LAMBDA j : PadToken), sp, r)

RepeatKv(heads, times) ==
    [h \in 1..(Len(heads) * times) |-> heads[(h - 1) \div times + 1]]

(* The two all-to-all exchanges, as rank r sees them: x[s] is what rank s  *)
(* holds, a row of heads per token.                                        *)
GatherSeqScatterHeads(x, r) ==
    FlattenSeq([s \in DOMAIN x |->
        [k \in DOMAIN x[s] |-> SliceInput(x[s][k], Len(x), r)]])

GatherHeadsScatterSeq(x, r) ==
    LET w == Len(x[1]) \div Len(x)
    IN [k \in 1..w |->
          FlattenSeq([s \in DOMAIN x |-> x[s][(r - 1) * w + k]])]

(* Attention over a joined sequence: a sequence starts where the position  *)
(* is 0, and query heads share the key heads in their order (external).    *)
FlashAttention(q, kv, pos) ==
    LET From(i) == Max({1} \cup {j \in 1..i : pos[j] = 0})
        Shared(i, h) == ((h - 1) * Len(kv[i])) \div Len(q[i]) + 1
    IN Each(Len(q), LAMBDA i : Each(Len(q[i]), LAMBDA h :
         [query |-> q[i][h],
          keys |-> Each(i - From(i) + 1,
                        LAMBDA j : kv[From(i) + j - 1][Shared(i, h)])]))

(* What every rank of the group computes from the cells it holds; key     *)
(* heads are repeated until there is one for every rank.                   *)
UlyssesAttention(local, heads) ==
    LET sp == Len(local)
        HeadsOf(cell, n) == Each(n, LAMBDA h : <<cell.token, h>>)
        q == Each(sp, LAMBDA s : Each(Len(local[s]), LAMBDA k :
                 HeadsOf(local[s][k], heads.q)))
        kv == Each(sp, LAMBDA s : Each(Len(local[s]), LAMBDA k :
                 RepeatKv(HeadsOf(local[s][k], heads.kv),
                          Max({sp \div heads.kv, 1}))))
        cells == FlattenSeq(local)
        pos == Each(Len(cells), LAMBDA j : cells[j].pos)
        out == Each(sp, LAMBDA s :
                 FlashAttention(GatherSeqScatterHeads(q, s),
                                GatherSeqScatterHeads(kv, s), pos))
    IN Each(sp, LAMBDA s : GatherHeadsScatterSeq(out, s))

GatherOutputsAndUnpad(x, padSize) ==
    LET all == FlattenSeq(x) IN SubSeq(all, 1, Len(all) - padSize)

(* The labels of rank s.  The fused kernel rolls the tokens the rank has;  *)
(* without it all tokens are rolled and then cut.                          *)
LabelsOf(fused, packed, local, s) ==
    IF fused THEN Roll(TokensOf(local[s]))
    ELSE SliceLabels(Roll(TokensOf(CellsOf(packed[s]))), Len(local), s)

(* _forward_micro_batch of actor, critic and reward model on the ranks of  *)
(* one group, each with the rows it was given.                             *)
FsdpForward(rowsOf, heads, fused) ==
    LET sp == Len(rowsOf)
        packed == Each(sp, LAMBDA s : UnpadInput(rowsOf[s]))
        local == Each(sp, LAMBDA s :
                   UlyssesPadAndSlice(CellsOf(packed[s]), sp, s))
        hidden == UlyssesAttention(local, heads)
        labels == Each(sp, LAMBDA s : LabelsOf(fused, packed, local, s))
        values == Each(sp, LAMBDA s : Each(Len(local[s]), LAMBDA k :
                    [seen |-> hidden[s][k], label |-> labels[s][k]]))
    IN Each(sp, LAMBDA s :
         PadInput(GatherOutputsAndUnpad(values,
                                        PadSizeFor(Len(packed[s]), sp)),
                  packed[s], rowsOf[s]))

(* Without use_remove_padding the model gets the rows as they are, with    *)
(* their mask, and the labels are the responses.                           *)
PaddedForward(rows, heads) ==
    LET ForwardRow(row) ==
          LET valid == UnpadInput(<<row>>)
              Keys(k, h) ==
                Each(Cardinality({m \in 1..k : row[m].on}), LAMBDA j :
                  <<valid[j].cell.token,
                    ((h - 1) * heads.kv) \div heads.q + 1>>)
          IN Each(Len(row), LAMBDA k :
               IF ~row[k].on THEN Nothing
               ELSE [seen |-> Each(heads.q, LAMBDA h :
                                [query |-> <<row[k].token, h>>,
                                 keys |-> Keys(k, h)]),
                     label |-> IF k = Len(row) THEN PadToken
                               ELSE row[k + 1].token])
    IN Each(Len(rows), LAMBDA i : ForwardRow(rows[i]))

(***************************************************************************)
(* Megatron: packed sequences, each aligned and cut into two chunks per    *)
(* context-parallel rank, one from either end.                             *)
(***************************************************************************)
AlignSize(mesh) == IF mesh.cp > 1 THEN mesh.tp * mesh.cp * 2 ELSE mesh.tp

PaddedLen(n, mesh) == n + PadSizeFor(n, AlignSize(mesh))

(* The first chunk of a rank is copied without regard to the end of the    *)
(* sequence: a row shorter than that does not fit, unless a single token   *)
(* of it is left, which then fills the chunk.                              *)
PackDefined(n, mesh) ==
    LET half == PaddedLen(n, mesh) \div (2 * mesh.cp)
    IN mesh.cp > 1 => \A c \in 1..mesh.cp :
                         n >= half * c \/ n = half * (c - 1) + 1

\* Mutant of PackedPart: both chunks of a rank come from its own end.
PackedPartInOrder(d, empty, mesh, c) ==
    LET w == PaddedLen(Len(d), mesh) \div mesh.cp
    IN Each(w, LAMBDA j : LET m == (c - 1) * w + j
                          IN IF m <= Len(d) THEN d[m] ELSE empty)

(* What rank c holds of one sequence d.                                    *)
PackedPart(d, empty, mesh, c) ==
    LET padded == PaddedLen(Len(d), mesh)
        w == padded \div mesh.cp
        half == w \div 2
        Chunk1(j) == d[Min({half * (c - 1) + j, Len(d)})]
        At(m) == IF m <= Len(d) THEN d[m] ELSE empty
    IN Each(w, LAMBDA j :
         CASE mesh.cp = 1 -> At(j)
           [] mesh.cp > 1 /\ j <= half -> Chunk1(j)
           [] mesh.cp > 1 /\ j > half -> At(padded - half * c + (j - half)))

(* Where every padded sequence starts, and where the last one ends.        *)
CuSeqlens(rows, mesh) ==
    Each(Len(rows) + 1, LAMBDA i :
        FoldSeq(LAMBDA row, sum :
                    sum + PaddedLen(Len(UnpadInput(<<row>>)), mesh),
                0, SubSeq(rows, 1, i - 1)))

(* The piece of sequence i in what one rank holds.                         *)
Piece(x, cu, cp, i) == SubSeq(x, cu[i] \div cp + 1, cu[i + 1] \div cp)

(* preprocess_packed_seqs, for any value per cell of the rows.             *)
PreprocessPackedSeqs(values, rows, empty, mesh, c) ==
    LET Kept(i) == LET at == UnpadInput(<<rows[i]>>)
                   IN Each(Len(at), LAMBDA j : values[i][at[j].at[2]])
    IN FlattenSeq(Each(Len(rows), LAMBDA i :
                         PackedPart(Kept(i), empty, mesh, c)))

(* Where the attention of Megatron takes place m of a sequence to be: the  *)
(* rank and its place there (external).                                    *)
PlaceOf(m, width, cp) ==
    IF cp = 1 THEN <<1, m>>
    ELSE LET half == width \div 2
             chunk == (m - 1) \div half
             at == ((m - 1) % half) + 1
         IN IF chunk < cp THEN <<chunk + 1, at>>
            ELSE <<2 * cp - chunk, half + at>>

(* What rank c computes for one sequence: causal attention over the places *)
(* of all ranks (external).                                                *)
ContextAttention(parts, c) ==
    LET cp == Len(parts)
        width == Len(parts[1])
        At(m) == parts[PlaceOf(m, width, cp)[1]][PlaceOf(m, width, cp)[2]]
        Index(j) == CHOOSE m \in 1..(cp * width) :
                       PlaceOf(m, width, cp) = <<c, j>>
    IN Each(width, LAMBDA j :
         <<[query |-> <<parts[c][j], 1>>,
            keys |-> Each(Index(j), LAMBDA m : <<At(m), 1>>)]>>)

(* postprocess_packed_seqs of one sequence of n tokens: the chunks of all  *)
(* ranks in their places.                                                  *)
Unchunk(parts, n) ==
    LET cp == Len(parts)
        w == Len(parts[1])
        half == w \div 2
        all == IF cp = 1 THEN parts[1]
               ELSE FlattenSeq(Each(cp, LAMBDA j : SubSeq(parts[j], 1, half)))
                    \o FlattenSeq(Each(cp, LAMBDA j :
                          SubSeq(parts[cp + 1 - j], half + 1, w)))
    IN SubSeq(all, 1, n)

PostprocessPackedSeqs(outputs, rows, mesh) ==
    LET cu == CuSeqlens(rows, mesh)
        Sequence(i) == Unchunk(Each(mesh.cp, LAMBDA c :
                                      Piece(outputs[c], cu, mesh.cp, i)),
                               Len(UnpadInput(<<rows[i]>>)))
    IN PadInput(FlattenSeq(Each(Len(rows), Sequence)), UnpadInput(rows), rows)

(* forward_step: the response shifted by one place is the label, and only  *)
(* places that predict a token of the response keep theirs.                *)
LabelRow(row, len) ==
    LET w == Len(row)
    IN [k \in 1..w |-> IF k >= w - len /\ k < w THEN row[k + 1].token
                       ELSE PadToken]
LabelMask(row, len) ==
    LET w == Len(row)
    IN [k \in 1..w |-> row[k].on /\ k >= w - len /\ k < w]

(* gptmodel_forward on the ranks of one context-parallel group.  A value   *)
(* without a label is a log probability of 0.                              *)
GptModelForward(rowsOf, mesh, len) ==
    LET rows == rowsOf[1]
        cu == CuSeqlens(rows, mesh)
        Packed(Value(_), empty) ==
          Each(mesh.cp, LAMBDA c :
            PreprocessPackedSeqs(Each(Len(rows), LAMBDA i :
                                        Value(rowsOf[c][i])),
                                 rowsOf[c], empty, mesh, c))
        tokens == Packed(TokensOf, PadToken)
        labels == Packed(LAMBDA row : LabelRow(row, len), PadToken)
        masks == Packed(LAMBDA row : LabelMask(row, len), FALSE)
        Sequence(i) == Each(mesh.cp, LAMBDA s :
                              Piece(tokens[s], cu, mesh.cp, i))
        hidden == Each(mesh.cp, LAMBDA c :
                    FlattenSeq(Each(Len(rows), LAMBDA i :
                                      ContextAttention(Sequence(i), c))))
        outputs == Each(mesh.cp, LAMBDA c : Each(Len(tokens[c]), LAMBDA j :
                      [seen |-> hidden[c][j],
                       label |-> IF masks[c][j] THEN labels[c][j]
                                 ELSE PadToken]))
    IN Each(mesh.cp, LAMBDA c :
         PostprocessPackedSeqs(outputs, rowsOf[c], mesh))
=============================================================================
