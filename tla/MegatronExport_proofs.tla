------------------------ MODULE MegatronExport_proofs -------------------------
(***************************************************************************)
(* Proofs about exporting Megatron's weights, by the saver of the running  *)
(* job and by the offline merger.                                          *)
(*                                                                         *)
(* The saver goes through the loader's program from the other side and     *)
(* asks the ranks that hold each item for it; it writes the entries of     *)
(* that item (SavedIs).  The merger numbers the layers of the files that   *)
(* the ranks have stored by its own shares of them (LayersBeforeIs) and    *)
(* joins the tensors of all files (MergesAt, MergedIs).  Both dictionaries *)
(* are so far the part of the checkpoint that they have come to            *)
(* (ExportInv), and at the end all of it (ExportedWhole).                  *)
(***************************************************************************)
EXTENDS MegatronWeights_proofs

-----------------------------------------------------------------------------
(* The pieces of a tensor, put together.                                  *)

\* Pieces of one length put together are its parts.
LEMMA PartOfGrid ==
  ASSUME NEW S, NEW s, NEW n, NEW w, Grid(S, s, n, w)
  PROVE  /\ \A i \in 1..n : Part(Flat(s), n, i - 1) = s[i]
         /\ Cuts(S, Flat(s), n, w)
<1>1. s \in Seq(Seq(S)) /\ n \in Nat \ {0} /\ Len(s) = n /\ w \in Nat /\ Len(s) # 0
      /\ \A i \in 1..Len(s) : Len(s[i]) = w
  BY DEF Grid
<1>2. ASSUME NEW i \in 1..n PROVE Part(Flat(s), n, i - 1) = s[i]
  <2>1. i - 1 \in 0..Len(s) - 1 /\ (i - 1) + 1 = i
    BY <1>1
  <2>2. Part(Flat(s), Len(s), i - 1) = s[(i - 1) + 1]
    BY <1>1, <2>1, PartOfFlat
  <2> QED BY <1>1, <2>1, <2>2
<1> QED BY <1>2, ChunkOfFlat

\* Each of m sequences, cut into n
Pieced(s, m, n) == [i \in 1..m |-> Chunk(s[i], n)]

PiecesOf(S, s, m, n, d) ==
  n \in Nat \ {0} /\ d \in Nat \ {0} /\ Grid(S, s, m, n * d)

\* Whether pieces are cut again or the whole at once, the same is left.
LEMMA ChunkOfJoined ==
  ASSUME NEW S, NEW s, NEW m, NEW n, NEW d, PiecesOf(S, s, m, n, d)
  PROVE  Flat(Pieced(s, m, n)) = Chunk(Flat(s), m * n)
<1> DEFINE x == Flat(s)
           f == [i \in 1..m |-> Chunk(s[i], n)]
           w == n * d
<1>0. /\ n \in Nat \ {0} /\ d \in Nat \ {0} /\ m \in Nat \ {0} /\ w \in Nat \ {0}
      /\ Grid(S, s, m, w) /\ s \in Seq(Seq(S)) /\ Len(s) = m
      /\ \A i \in 1..m : Len(s[i]) = w /\ s[i] \in Seq(S)
  <2>1. n \in Nat \ {0} /\ d \in Nat \ {0} /\ Grid(S, s, m, w)
    BY DEF PiecesOf
  <2>2. /\ m \in Nat \ {0} /\ w \in Nat \ {0} /\ s \in Seq(Seq(S)) /\ Len(s) = m
        /\ \A i \in 1..m : Len(s[i]) = w
    BY <2>1 DEF Grid
  <2> HIDE DEF w
  <2> QED BY <2>1, <2>2
<1>1. Cuts(S, x, m, w) /\ \A i \in 1..m : Part(x, m, i - 1) = s[i]
  <2> HIDE DEF w
  <2> QED BY <1>0, PartOfGrid
<1>2. m * n \in Nat \ {0} /\ Cuts(S, x, m * n, d)
  <2>1. m * n \in Nat \ {0} /\ m * w = (m * n) * d
    BY <1>0
  <2> HIDE DEF w
  <2> QED BY <1>0, <1>1, <2>1 DEF Cuts
<1> DEFINE g == Chunk(x, m * n)
<1>3. /\ g \in Seq(Seq(S)) /\ Len(g) = m * n
      /\ \A i \in 1..m * n : g[i] = Part(x, m * n, i - 1)
  <2> DEFINE k == m * n
  <2>1. Cuts(S, x, k, d) /\ d # 0
    BY <1>0, <1>2
  <2> HIDE DEF k
  <2>2. /\ Chunk(x, k) \in Seq(Seq(S)) /\ Len(Chunk(x, k)) = k
        /\ \A i \in 1..k : Chunk(x, k)[i] = Part(x, k, i - 1)
    BY <2>1, ChunkAt
  <2> QED BY <2>2 DEF k
<1>4. ASSUME NEW i \in 1..m
      PROVE  /\ f[i] \in Seq(Seq(S)) /\ Len(f[i]) = n
             /\ \A j \in 1..n : f[i][j] = Part(s[i], n, j - 1)
  <2>1. Cuts(S, s[i], n, d)
    BY <1>0 DEF Cuts
  <2>2. f[i] = Chunk(s[i], n)
    OBVIOUS
  <2> DEFINE y == s[i]
  <2>3. /\ Chunk(y, n) \in Seq(Seq(S)) /\ Len(Chunk(y, n)) = n
        /\ \A j \in 1..n : Chunk(y, n)[j] = Part(y, n, j - 1)
    <3>1. Cuts(S, y, n, d) /\ d # 0
      BY <1>0, <2>1
    <3> HIDE DEF y
    <3> QED BY <3>1, ChunkAt
  <2> HIDE DEF f
  <2> QED BY <2>2, <2>3
<1>5. f \in Seq(Seq(Seq(S))) /\ Len(f) = m
  <2> DEFINE T == Seq(Seq(S))
  <2>1. DOMAIN f = 1..m /\ f = [i \in 1..m |-> f[i]] /\ \A i \in 1..m : f[i] \in T
    BY <1>4
  <2> HIDE DEF f, T
  <2>2. f \in Seq(T) /\ Len(f) = m
    BY <1>0, <2>1, MakeSeq
  <2> QED BY <2>2 DEF T
<1> HIDE DEF f, g, x
<1>6. /\ Flat(f) \in Seq(Seq(S)) /\ Len(Flat(f)) = m * n
      /\ \A i \in 1..m, j \in 1..n : Flat(f)[(i - 1) * n + j] = f[i][j]
  <2> DEFINE T == Seq(S)
  <2>1. (\A i \in 1..Len(f) : Len(f[i]) = n) /\ f \in Seq(Seq(T)) /\ n \in Nat
    BY <1>0, <1>4, <1>5
  <2> HIDE DEF T
  <2>2. /\ Flat(f) \in Seq(T) /\ Len(Flat(f)) = Len(f) * n
        /\ \A i \in 1..Len(f), j \in 1..n : Flat(f)[(i - 1) * n + j] = f[i][j]
    BY <2>1, FlatUniform
  <2> QED BY <1>5, <2>2 DEF T
<1>7. ASSUME NEW i \in 1..m, NEW j \in 1..n
      PROVE  Flat(f)[(i - 1) * n + j] = g[(i - 1) * n + j]
  <2> DEFINE a == i - 1
             b == j - 1
  <2>1. a \in 0..m - 1 /\ b \in 0..n - 1 /\ a + 1 = i /\ b + 1 = j
    BY <1>0
  <2>2. Nested(S, x, m, n, d, a, b)
    BY <1>0, <1>2, <2>1 DEF Nested
  <2>3. a * n + b \in 0..m * n - 1 /\ Part(Part(x, m, a), n, b) = Part(x, m * n, a * n + b)
    BY <2>2, PartOfPart
  <2>4. Part(s[i], n, b) = Part(x, m * n, a * n + b)
    BY <1>1, <2>3
  <2>5. a * n + j \in 1..m * n /\ (a * n + j) - 1 = a * n + b /\ a * n \in Int
    <3>1. a * n \in Int /\ m * n \in Nat
      BY <1>0, <1>2, <2>1
    <3> DEFINE p == a * n
               q == m * n
    <3>2. p \in Int /\ q \in Nat /\ p + b \in 0..q - 1 /\ b + 1 = j /\ b \in Int
      BY <1>0, <2>1, <2>3, <3>1
    <3> HIDE DEF p, q, a, b
    <3>3. p + j \in 1..q /\ (p + j) - 1 = p + b
      BY <3>2
    <3> QED BY <3>2, <3>3 DEF p, q
  <2>6. g[a * n + j] = Part(x, m * n, a * n + b)
    BY <1>3, <2>5
  <2>7. Flat(f)[a * n + j] = Part(s[i], n, b)
    BY <1>4, <1>6
  <2> QED BY <2>4, <2>6, <2>7
<1>8. \A k \in 1..m * n : Flat(f)[k] = g[k]
  <2> SUFFICES ASSUME NEW k \in 1..m * n PROVE Flat(f)[k] = g[k]
    OBVIOUS
  <2>0. m \in Nat /\ n \in Nat /\ k \in 1..m * n
    BY <1>0
  <2>1. PICK a \in 0..m - 1, j \in 1..n : k = a * n + j
    BY ONLY <2>0, PlacePart
  <2>2. a + 1 \in 1..m /\ (a + 1) - 1 = a
    BY <1>0
  <2>3. Flat(f)[((a + 1) - 1) * n + j] = g[((a + 1) - 1) * n + j]
    BY <1>7, <2>2
  <2> QED BY <2>1, <2>2, <2>3
<1>9. Flat(f) = g
  <2> DEFINE T == Seq(S)
             y == Flat(f)
  <2>1. y \in Seq(T) /\ g \in Seq(T) /\ Len(y) = Len(g) /\ \A k \in 1..Len(y) : y[k] = g[k]
    BY <1>3, <1>6, <1>8
  <2> HIDE DEF T, y
  <2>2. y = g
    BY <2>1, SeqEq
  <2> QED BY <2>2 DEF y
<1> QED BY <1>9 DEF f, g, x, Pieced

-----------------------------------------------------------------------------
(* The tensors that the saver writes and the merger joins.                *)

\* What the saver makes of the shards of a parameter, joined
Parted(name, full) ==
  IF name \in {"qkv", "qkv_bias"} THEN JoinQkv(full)
  ELSE IF name = "fc1" THEN JoinGateUp(full) ELSE <<full>>

\* The saver, which takes the shards from one sequence, gets the tensors too.
LEMMA SavedTensors ==
  ASSUME NEW r, NEW at, Reads(r, at), at.key[2] \in Parallel, at.key[2] \notin ExpertNames
  PROVE  Parted(at.key[2], Flat(TpGathered(r, at))) = TensorsOf(at.key[2], Where(at), -1)
<1> DEFINE name == at.key[2]
           s == TpGathered(r, at)
           full == Flat(s)
<1>1. TpConcat(name, s) = TensorsOf(name, Where(at), -1) /\ Shards(s, Pieces(name))
  BY GatheredDense
<1>2. PICK d \in Nat \ {0} : Grid(Row, s, job.tp, Pieces(name) * d)
  BY <1>1 DEF Shards
<1> HIDE DEF s
<1>3. /\ \A i \in 1..job.tp : Part(full, job.tp, i - 1) = s[i]
      /\ Len(s) = job.tp
  <2> DEFINE w == Pieces(name) * d
  <2>1. Grid(Row, s, job.tp, w)
    BY <1>2
  <2> HIDE DEF w
  <2>2. \A i \in 1..job.tp : Part(Flat(s), job.tp, i - 1) = s[i]
    BY <2>1, PartOfGrid
  <2>3. Len(s) = job.tp
    BY <2>1 DEF Grid
  <2> QED BY <2>2, <2>3
<1> HIDE DEF full
<1>4. CASE name \in {"qkv", "qkv_bias"}
  <2>1. [i \in 1..job.tp |-> Chunk(Part(full, job.tp, i - 1), job.kv \div job.tp)]
          = [i \in 1..Len(s) |-> Chunk(s[i], job.kv \div job.tp)]
    BY <1>3
  <2>2. JoinQkv(full) = Ungrouped(Flat(
                 [i \in 1..job.tp |-> Chunk(Part(full, job.tp, i - 1), job.kv \div job.tp)]))
    BY DEF JoinQkv
  <2>3. TpConcat(name, s)
          = Ungrouped(Flat([i \in 1..Len(s) |-> Chunk(s[i], job.kv \div job.tp)]))
    BY <1>4 DEF TpConcat
  <2>4. JoinQkv(full) = TpConcat(name, s)
    BY <2>1, <2>2, <2>3
  <2> QED BY <1>1, <1>4, <2>4 DEF Parted, full, s
<1>5. CASE name = "fc1"
  <2>1. [i \in 1..job.tp |-> Chunk(Part(full, job.tp, i - 1), 2)]
          = [i \in 1..Len(s) |-> Chunk(s[i], 2)]
    BY <1>3
  <2>2. JoinGateUp(full) = TpConcat(name, s)
    BY <1>5, <2>1 DEF JoinGateUp, TpConcat
  <2> QED BY <1>1, <1>5, <2>2 DEF Parted, full, s
<1>6. CASE name \notin {"qkv", "qkv_bias", "fc1"}
  <2>1. <<full>> = TpConcat(name, s)
    BY <1>6 DEF TpConcat, ExpertNames, full
  <2> QED BY <1>1, <1>6, <2>1 DEF Parted, full, s
<1> QED BY <1>4, <1>5, <1>6

\* A parameter of Megatron's checkpoint, read whole
WholeOf(name, shards) ==
  LET halves == [i \in 1..Len(shards) |-> Chunk(shards[i], 2)]
  IN IF name \in {"fc1", "expert_fc1"} THEN Joined(halves, 1) \o Joined(halves, 2)
     ELSE IF name \in Parallel THEN Flat(shards)
     ELSE shards[1]

\* Gate and up, joined, are taken apart in the middle.
LEMMA HalvesApart ==
  ASSUME NEW S, NEW x, NEW y, NEW w, OfLen(S, x, w), OfLen(S, y, w), w # 0
  PROVE  Chunk(x \o y, 2) = <<x, y>>
<1> DEFINE c == Chunk(x \o y, 2)
           a == x \o y
<1>1. c[1] = x /\ c[2] = y /\ Len(c) = 2
  BY ChunkHalves
<1>2. c \in Seq(Seq(S))
  <2>1. OfLen(S, a, w + w) /\ w \in Nat /\ 2 * w = w + w
    BY Append2 DEF OfLen
  <2>2. Cuts(S, a, 2, w)
    BY <2>1 DEF Cuts, OfLen
  <2> HIDE DEF a
  <2>3. Chunk(a, 2) \in Seq(Seq(S))
    BY <2>2, ChunkAt
  <2> QED BY <2>3 DEF a
<1>3. <<x, y>> \in Seq(Seq(S)) /\ Len(<<x, y>>) = 2
  BY DEF OfLen
<1> HIDE DEF c
<1> DEFINE T == Seq(S)
           p == <<x, y>>
<1>4. p[1] = x /\ p[2] = y /\ p \in Seq(T) /\ Len(p) = 2 /\ c \in Seq(T)
  BY <1>2, <1>3
<1> HIDE DEF T, p
<1>5. Len(c) = Len(p) /\ \A i \in 1..Len(c) : c[i] = p[i]
  BY <1>1, <1>4
<1>6. c = p
  BY <1>4, <1>5, SeqEq
<1> QED BY <1>6 DEF c, p

\* The tensors of gate and up have one length.
LEMMA GateUpAlike ==
  ASSUME Launchable(job), NEW l \in Int, NEW e \in Int
  PROVE  Chunk(Tensor("gate", l, e) \o Tensor("up", l, e), 2)
           = <<Tensor("gate", l, e), Tensor("up", l, e)>>
<1>1. SizesOk(job.kv \div job.tp, job.heads \div job.kv)
  BY SizesAre
<1>2. /\ OfLen(Row, Tensor("gate", l, e), Size("gate"))
      /\ OfLen(Row, Tensor("up", l, e), Size("up"))
  BY <1>1, TensorIs DEF PartNames
<1>3. Size("gate") = Inter /\ Size("up") = Inter /\ Inter # 0
  BY <1>1, SizeIs DEF SizesOk
<1> QED BY <1>2, <1>3, HalvesApart

\* The merger, which reads them whole, gets the tensors.
LEMMA MergedTensors ==
  ASSUME NEW r, NEW at, Reads(r, at), at.key[2] \in Parallel, at.key[2] \notin ExpertNames
  PROVE  SplitTensors(at.key[2], WholeOf(at.key[2], TpGathered(r, at)))
           = TensorsOf(at.key[2], Where(at), -1)
<1> DEFINE name == at.key[2]
           s == TpGathered(r, at)
           l == Where(at)
<1>1. TpConcat(name, s) = TensorsOf(name, l, -1) /\ Shards(s, Pieces(name))
  BY GatheredDense
<1>2. PICK d \in Nat \ {0} : Grid(Row, s, job.tp, Pieces(name) * d)
  BY <1>1 DEF Shards
<1>3. Launchable(job) /\ l \in Int /\ Len(s) = job.tp
  <2>1. Launchable(job)
    BY JobIs DEF Reads
  <2>2. l \in Int
    BY ReadsIs
  <2> QED BY <1>2, <2>1, <2>2 DEF Grid
<1> HIDE DEF s, l
<1>4. CASE name \in {"qkv", "qkv_bias"}
  <2> DEFINE groups == job.kv \div job.tp
  <2>1. groups \in Nat \ {0} /\ job.kv = job.tp * groups
    BY <1>3, SizesAre DEF SizesOk
  <2>2. Grid(Row, s, job.tp, groups * d)
    BY <1>2, <1>4 DEF Pieces
  <2> HIDE DEF groups
  <2>3. Flat([i \in 1..job.tp |-> Chunk(s[i], groups)]) = Chunk(Flat(s), job.kv)
    <3>1. PiecesOf(Row, s, job.tp, groups, d)
      BY <2>1, <2>2 DEF PiecesOf
    <3>2. Flat(Pieced(s, job.tp, groups)) = Chunk(Flat(s), job.tp * groups)
      BY <3>1, ChunkOfJoined
    <3> QED BY <2>1, <3>2 DEF Pieced
  <2>4. WholeOf(name, s) = Flat(s)
    BY <1>4 DEF WholeOf, Parallel
  <2>5. SplitTensors(name, Flat(s)) = TpConcat(name, s)
    <3>1. SplitTensors(name, Flat(s)) = Ungrouped(Chunk(Flat(s), job.kv))
      BY <1>4 DEF SplitTensors
    <3>2. TpConcat(name, s) = Ungrouped(Flat([i \in 1..Len(s) |-> Chunk(s[i], groups)]))
      BY <1>4 DEF TpConcat, groups
    <3> QED BY <1>3, <2>3, <3>1, <3>2
  <2> QED BY <1>1, <2>4, <2>5 DEF s, l
<1>5. CASE name = "fc1"
  <2> DEFINE halves == [i \in 1..Len(s) |-> Chunk(s[i], 2)]
  <2>1. TpConcat(name, s) = <<Joined(halves, 1), Joined(halves, 2)>>
        /\ WholeOf(name, s) = Joined(halves, 1) \o Joined(halves, 2)
    BY <1>5 DEF TpConcat, WholeOf
  <2>2. TensorsOf(name, l, -1) = <<Tensor("gate", l, -1), Tensor("up", l, -1)>>
    BY <1>5 DEF TensorsOf, HfParts
  <2> HIDE DEF halves
  <2>3. WholeOf(name, s) = Tensor("gate", l, -1) \o Tensor("up", l, -1)
    BY <1>1, <2>1, <2>2
  <2>4. SplitTensors(name, WholeOf(name, s)) = Chunk(WholeOf(name, s), 2)
    BY <1>5 DEF SplitTensors
  <2>5. Chunk(Tensor("gate", l, -1) \o Tensor("up", l, -1), 2)
          = <<Tensor("gate", l, -1), Tensor("up", l, -1)>>
    BY <1>3, GateUpAlike
  <2>6. SplitTensors(name, WholeOf(name, s)) = TensorsOf(name, l, -1)
    BY <2>2, <2>3, <2>4, <2>5
  <2> QED BY <2>6 DEF s, l
<1>6. CASE name \notin {"qkv", "qkv_bias", "fc1"}
  <2>1. WholeOf(name, s) = Flat(s) /\ SplitTensors(name, Flat(s)) = <<Flat(s)>>
        /\ TpConcat(name, s) = <<Flat(s)>>
    BY <1>6 DEF WholeOf, SplitTensors, TpConcat, ExpertNames
  <2> QED BY <1>1, <2>1 DEF s, l
<1> QED BY <1>4, <1>5, <1>6

-----------------------------------------------------------------------------
(* The ranks that the saver saves from.                                   *)

\* The rank that holds the first shard of an item, and where it is
SaverRank(item) == [tp |-> 0, pp |-> Seat(item).pp, dp |-> 0, cp |-> 0]
SaverAt(item) == At(Seat(item).pp, KeyOf(item))

\* What is known of an item at a seat
Seated(item, p, v, i, l) ==
  /\ p \in 0..job.pp - 1 /\ v \in 0..job.vpp - 1
  /\ Seat(item) = [pp |-> p, vpp |-> v, idx |-> i]
  /\ <<v, item.to, i, -1>> \in NamedKeys(job, p, v)
  /\ i = -1 => l = -1
  /\ i # -1 => Placed(job, p, v, i) = l
  /\ item.layer = l /\ l \in Int /\ i \in Int
  /\ item.from = HfParts(item.to) /\ item.to \in Names /\ item.to \notin ExpertNames

\* The items of a layer that is not of experts are its parameters.
LEMMA LayerItem ==
  ASSUME job.experts = 0, NEW l \in Nat, NEW item \in LayerItems(l)
  PROVE  /\ item.layer = l /\ item.from = HfParts(item.to)
         /\ item.to \in LayerNames(job) /\ item.to \in Names /\ item.to \notin ExpertNames
<1>1. ASSUME NEW f, NEW n, item = Item(f, n, l), n \in LayerNames(job), f = HfParts(n),
             n \in Names, n \notin ExpertNames
      PROVE  /\ item.layer = l /\ item.from = HfParts(item.to)
             /\ item.to \in LayerNames(job) /\ item.to \in Names /\ item.to \notin ExpertNames
  BY <1>1 DEF Item
<1>2. CASE item = Item(<<"input_norm">>, "qkv_norm", l)
  <2>1. /\ "qkv_norm" \in LayerNames(job) /\ <<"input_norm">> = HfParts("qkv_norm")
        /\ "qkv_norm" \in Names /\ "qkv_norm" \notin ExpertNames
    BY DEF LayerNames, HfParts, Names, ExpertNames
  <2> QED BY <1>1, <1>2, <2>1
<1>3. CASE job.qknorm /\ item = Item(<<"q_norm">>, "q_layernorm", l)
  <2>1. /\ "q_layernorm" \in LayerNames(job) /\ <<"q_norm">> = HfParts("q_layernorm")
        /\ "q_layernorm" \in Names /\ "q_layernorm" \notin ExpertNames
    BY <1>3 DEF LayerNames, HfParts, Names, ExpertNames
  <2> QED BY <1>1, <1>3, <2>1
<1>4. CASE job.qknorm /\ item = Item(<<"k_norm">>, "k_layernorm", l)
  <2>1. /\ "k_layernorm" \in LayerNames(job) /\ <<"k_norm">> = HfParts("k_layernorm")
        /\ "k_layernorm" \in Names /\ "k_layernorm" \notin ExpertNames
    BY <1>4 DEF LayerNames, HfParts, Names, ExpertNames
  <2> QED BY <1>1, <1>4, <2>1
<1>5. CASE item = Item(<<"q", "k", "v">>, "qkv", l)
  <2>1. /\ "qkv" \in LayerNames(job) /\ <<"q", "k", "v">> = HfParts("qkv")
        /\ "qkv" \in Names /\ "qkv" \notin ExpertNames
    BY DEF LayerNames, HfParts, Names, ExpertNames
  <2> QED BY <1>1, <1>5, <2>1
<1>6. CASE job.bias /\ item = Item(<<"q_bias", "k_bias", "v_bias">>, "qkv_bias", l)
  <2>1. /\ "qkv_bias" \in LayerNames(job)
        /\ <<"q_bias", "k_bias", "v_bias">> = HfParts("qkv_bias")
        /\ "qkv_bias" \in Names /\ "qkv_bias" \notin ExpertNames
    BY <1>6 DEF LayerNames, HfParts, Names, ExpertNames
  <2> QED BY <1>1, <1>6, <2>1
<1>7. CASE item = Item(<<"o">>, "proj", l)
  <2>1. /\ "proj" \in LayerNames(job) /\ <<"o">> = HfParts("proj")
        /\ "proj" \in Names /\ "proj" \notin ExpertNames
    BY DEF LayerNames, HfParts, Names, ExpertNames
  <2> QED BY <1>1, <1>7, <2>1
<1>8. CASE item = Item(<<"post_norm">>, "fc1_norm", l)
  <2>1. /\ "fc1_norm" \in LayerNames(job) /\ <<"post_norm">> = HfParts("fc1_norm")
        /\ "fc1_norm" \in Names /\ "fc1_norm" \notin ExpertNames
    BY DEF LayerNames, HfParts, Names, ExpertNames
  <2> QED BY <1>1, <1>8, <2>1
<1>9. CASE item = Item(<<"gate", "up">>, "fc1", l)
  <2>1. /\ "fc1" \in LayerNames(job) /\ <<"gate", "up">> = HfParts("fc1")
        /\ "fc1" \in Names /\ "fc1" \notin ExpertNames
    BY DEF LayerNames, HfParts, Names, ExpertNames
  <2> QED BY <1>1, <1>9, <2>1
<1>10. CASE item = Item(<<"down">>, "fc2", l)
  <2>1. /\ "fc2" \in LayerNames(job) /\ <<"down">> = HfParts("fc2")
        /\ "fc2" \in Names /\ "fc2" \notin ExpertNames
    BY DEF LayerNames, HfParts, Names, ExpertNames
  <2> QED BY <1>1, <1>10, <2>1
<1> QED BY <1>2, <1>3, <1>4, <1>5, <1>6, <1>7, <1>8, <1>9, <1>10 DEF LayerItems

\* Every item of the saver has a seat, and a parameter there.
LEMMA SeatOfItem ==
  ASSUME job \in Jobs, Saveable, NEW item \in AllItems(~job.tied)
  PROVE  \E p, v, i, l : Seated(item, p, v, i, l)
<1>0. /\ job.pp \in Nat \ {0} /\ job.vpp \in Nat \ {0} /\ job.layers \in Nat \ {0}
      /\ job.experts = 0 /\ EvenLayout(job)
      /\ job.pp - 1 \in 0..job.pp - 1 /\ job.vpp - 1 \in 0..job.vpp - 1
      /\ 0 \in 0..job.pp - 1 /\ 0 \in 0..job.vpp - 1
  BY JobIs DEF Saveable, Moe
<1>1. CASE item = Item(<<"embed">>, "word_embeddings", -1)
  <2>1. /\ item.from = <<"embed">> /\ item.to = "word_embeddings" /\ item.layer = -1
    BY <1>1 DEF Item
  <2>2. Seat(item) = [pp |-> 0, vpp |-> 0, idx |-> -1]
    BY <2>1 DEF Seat
  <2>3. <<0, "word_embeddings", -1, -1>> \in NamedKeys(job, 0, 0)
    BY NamedCases
  <2>4. HfParts("word_embeddings") = <<"embed">> /\ "word_embeddings" \in Names
        /\ "word_embeddings" \notin ExpertNames
    BY DEF HfParts, Names, ExpertNames
  <2>5. Seated(item, 0, 0, -1, -1)
    BY <1>0, <2>1, <2>2, <2>3, <2>4 DEF Seated
  <2> QED BY <2>5
<1>2. CASE item = Item(<<"norm">>, "final_layernorm", -1)
  <2>1. /\ item.from = <<"norm">> /\ item.to = "final_layernorm" /\ item.layer = -1
    BY <1>2 DEF Item
  <2>2. Seat(item) = [pp |-> job.pp - 1, vpp |-> job.vpp - 1, idx |-> -1]
    BY <2>1 DEF Seat
  <2>3. <<job.vpp - 1, "final_layernorm", -1, -1>> \in NamedKeys(job, job.pp - 1, job.vpp - 1)
    BY NamedCases DEF IsLast
  <2>4. HfParts("final_layernorm") = <<"norm">> /\ "final_layernorm" \in Names
        /\ "final_layernorm" \notin ExpertNames
    BY DEF HfParts, Names, ExpertNames
  <2>5. Seated(item, job.pp - 1, job.vpp - 1, -1, -1)
    BY <1>0, <2>1, <2>2, <2>3, <2>4 DEF Seated
  <2> QED BY <2>5
<1>3. CASE ~job.tied /\ item = Item(<<"lm_head">>, "output_layer", -1)
  <2>1. /\ item.from = <<"lm_head">> /\ item.to = "output_layer" /\ item.layer = -1
    BY <1>3 DEF Item
  <2>2. Seat(item) = [pp |-> job.pp - 1, vpp |-> job.vpp - 1, idx |-> -1]
    BY <2>1 DEF Seat
  <2>3. <<job.vpp - 1, "output_layer", -1, -1>> \in NamedKeys(job, job.pp - 1, job.vpp - 1)
    BY <1>3, NamedCases DEF IsLast
  <2>4. HfParts("output_layer") = <<"lm_head">> /\ "output_layer" \in Names
        /\ "output_layer" \notin ExpertNames
    BY DEF HfParts, Names, ExpertNames
  <2>5. Seated(item, job.pp - 1, job.vpp - 1, -1, -1)
    BY <1>0, <2>1, <2>2, <2>3, <2>4 DEF Seated
  <2> QED BY <2>5
<1>4. CASE \E l \in 0..job.layers - 1 : item \in LayerItems(l)
  <2>1. PICK l \in 0..job.layers - 1 : item \in LayerItems(l)
    BY <1>4
  <2>2. l \in Nat /\ l # -1
    BY <1>0
  <2>3. /\ item.layer = l /\ item.from = HfParts(item.to)
        /\ item.to \in LayerNames(job) /\ item.to \in Names /\ item.to \notin ExpertNames
    BY <1>0, <2>1, <2>2, LayerItem
  <2>4. EvenFacts(job, Per(job))
    BY <1>0, EvenIs
  <2> DEFINE p == LayerMap[l].pp
             v == LayerMap[l].vpp
             i == LayerMap[l].idx
  <2>5. p \in 0..job.pp - 1 /\ v \in 0..job.vpp - 1 /\ i \in 0..Per(job) - 1
        /\ Placed(job, p, v, i) = l
    BY <2>4, LayerMapIs
  <2>6. Seat(item) = [pp |-> p, vpp |-> v, idx |-> i]
    <3>1. Seat(item) = LayerMap[l]
      BY <2>2, <2>3 DEF Seat
    <3>2. LayerMap[Placed(job, p, v, i)] = [pp |-> p, vpp |-> v, idx |-> i]
      BY <2>4, <2>5, LayerMapIs
    <3> QED BY <2>5, <3>1, <3>2
  <2> HIDE DEF p, v, i
  <2>7. LayersIn(job, p, v) = Per(job) /\ Per(job) \in Nat
    BY <2>4, <2>5 DEF EvenFacts
  <2>8. <<v, item.to, i, -1>> \in NamedKeys(job, p, v)
    <3>1. i \in 0..LayersIn(job, p, v) - 1
      BY <2>5, <2>7
    <3> QED BY <2>3, <3>1, NamedCases
  <2>9. i \in Int /\ i # -1 /\ l \in Int
    BY <2>5, <2>7
  <2>10. Seated(item, p, v, i, l)
    BY <2>3, <2>5, <2>6, <2>8, <2>9 DEF Seated
  <2> QED BY <2>10
<1> QED BY <1>1, <1>2, <1>3, <1>4 DEF AllItems

-----------------------------------------------------------------------------
(* What the saver gathers, layer by layer.                                *)

SavedFrom(item, t) == param[RankAt(GlobalRank(t, 0, Seat(item).pp, 0))][KeyOf(item)]
SavedFull(item) == Flat([t \in 1..job.tp |-> SavedFrom(item, t - 1)])
TensorsSaved(item) ==
  CASE item.to \in {"qkv", "qkv_bias"} -> JoinQkv(SavedFull(item))
    [] item.to = "fc1" -> JoinGateUp(SavedFull(item))
    [] item.to \in {"word_embeddings", "proj", "fc2"} -> <<SavedFull(item)>>
    [] item.to = "output_layer" /\ ~job.value -> <<SavedFull(item)>>
    [] OTHER -> <<SavedFrom(item, 0)>>
SavedPairs(item) ==
  {<<<<item.from[n], item.layer, -1>>, TensorsSaved(item)[n]>> : n \in DOMAIN item.from}

\* What the checkpoint holds under an entry: no head for values but that of a
\* checkpoint which has one
Truth ==
  [e \in Entry |->
     IF e[1] = "lm_head" /\ job.value
       THEN (IF job.head = 1 /\ job.from = "hf" THEN Tensor("lm_head", -1, -1) ELSE Unset)
     ELSE Tensor(e[1], e[2], e[3])]
Pairs(E) == {<<e, Truth[e]>> : e \in E}
SavedAt(item) == PartsAt(item.to, item.layer, -1)

\* The ranks that the saver hears are those of one tensor parallel group.
LEMMA SavedFromIs ==
  ASSUME job \in Jobs, NEW item, Seat(item).pp \in Nat
  PROVE  /\ [t \in 1..job.tp |-> SavedFrom(item, t - 1)]
              = TpGathered(SaverRank(item), SaverAt(item))
         /\ SavedFrom(item, 0) = FromPp(SaverRank(item), SaverAt(item)).rows
         /\ SavedFrom(item, 0) = param[SaverRank(item)][KeyOf(item)]
<1> DEFINE p == Seat(item).pp
           k == KeyOf(item)
           r == SaverRank(item)
           at == SaverAt(item)
<1>0. /\ job.tp \in Nat \ {0} /\ job.cp \in Nat \ {0} /\ job.dp \in Nat \ {0}
      /\ 0 \in 0..job.cp - 1 /\ 0 \in 0..job.dp - 1
  BY JobIs
<1>1. ASSUME NEW t \in 0..job.tp - 1
      PROVE  SavedFrom(item, t) = param[[tp |-> t, pp |-> p, dp |-> 0, cp |-> 0]][k]
  <2>1. RankAt(GlobalRank(t, 0, p, 0)) = [tp |-> t, cp |-> 0, dp |-> 0, pp |-> p]
    BY <1>0, RankAtIs
  <2>2. [tp |-> t, cp |-> 0, dp |-> 0, pp |-> p] = [tp |-> t, pp |-> p, dp |-> 0, cp |-> 0]
    OBVIOUS
  <2> QED BY <2>1, <2>2 DEF SavedFrom
<1>2. r = [tp |-> 0, pp |-> p, dp |-> 0, cp |-> 0] /\ at.pp = p /\ at.key = k
  BY DEF SaverRank, SaverAt, At
<1>3. ASSUME NEW t
      PROVE  /\ [[r EXCEPT !.tp = t] EXCEPT !.pp = at.pp]
                  = [tp |-> t, pp |-> p, dp |-> 0, cp |-> 0]
             /\ [r EXCEPT !.pp = at.pp] = [tp |-> 0, pp |-> p, dp |-> 0, cp |-> 0]
  <2> DEFINE z == [tp |-> 0, pp |-> p, dp |-> 0, cp |-> 0]
             y == [tp |-> t, pp |-> p, dp |-> 0, cp |-> 0]
  <2> HIDE DEF p, r, at, k
  <2>1. [z EXCEPT !.tp = t] = y
    OBVIOUS
  <2>2. [y EXCEPT !.pp = p] = y /\ [z EXCEPT !.pp = p] = z
    OBVIOUS
  <2>3. r = z /\ at.pp = p
    BY <1>2
  <2> HIDE DEF y, z
  <2>4. [[r EXCEPT !.tp = t] EXCEPT !.pp = at.pp] = y /\ [r EXCEPT !.pp = at.pp] = z
    BY <2>1, <2>2, <2>3
  <2> QED BY <2>4 DEF y, z
<1>4. 0 \in 0..job.tp - 1 /\ \A t \in 1..job.tp : t - 1 \in 0..job.tp - 1
  BY <1>0
<1> HIDE DEF p, k, r, at
<1>5. ASSUME NEW t \in 1..job.tp
      PROVE  SavedFrom(item, t - 1) = FromPp([r EXCEPT !.tp = t - 1], at).rows
  <2>1. SavedFrom(item, t - 1) = param[[tp |-> t - 1, pp |-> p, dp |-> 0, cp |-> 0]][k]
    BY <1>1, <1>4
  <2>2. [[r EXCEPT !.tp = t - 1] EXCEPT !.pp = at.pp]
          = [tp |-> t - 1, pp |-> p, dp |-> 0, cp |-> 0]
    BY <1>3
  <2> QED BY <1>2, <2>1, <2>2 DEF FromPp
<1>6. [t \in 1..job.tp |-> SavedFrom(item, t - 1)] = TpGathered(r, at)
  BY <1>5 DEF TpGathered
<1>7. SavedFrom(item, 0) = FromPp(r, at).rows /\ SavedFrom(item, 0) = param[r][k]
  <2>1. SavedFrom(item, 0) = param[[tp |-> 0, pp |-> p, dp |-> 0, cp |-> 0]][k]
    BY <1>1, <1>4
  <2> QED BY <1>2, <1>3, <2>1 DEF FromPp
<1> QED BY <1>6, <1>7 DEF k, r, at

\* What an item finds at its seat, if it is not the head of a value model, is
\* the tensors it has in the checkpoint.
LEMMA ItemTensors ==
  ASSUME job \in Jobs, param = Holding, NEW item, NEW p, NEW v, NEW i, NEW l,
         Seated(item, p, v, i, l), job.value => item.to # "output_layer"
  PROVE  TensorsSaved(item) = TensorsOf(item.to, l, -1)
<1> DEFINE r == SaverRank(item)
           at == SaverAt(item)
<1>0. /\ p \in 0..job.pp - 1 /\ v \in 0..job.vpp - 1 /\ Seat(item).pp = p
      /\ KeyOf(item) = <<v, item.to, i, -1>> /\ <<v, item.to, i, -1>> \in NamedKeys(job, p, v)
      /\ item.to \in Names /\ item.to \notin ExpertNames
  BY DEF Seated, KeyOf
<1>1. at.pp = p /\ at.key = <<v, item.to, i, -1>> /\ at = At(p, <<v, item.to, i, -1>>)
  BY <1>0 DEF SaverAt, At
<1>2. at.key[1] = v /\ at.key[2] = item.to /\ at.key[3] = i
  BY <1>1
<1>3. Where(at) = l
  <2> HIDE DEF at
  <2> QED BY <1>1, <1>2 DEF Where, Seated
<1>4. Reads(r, at)
  <2>1. r \in Rank
    <3>1. /\ job.tp \in Nat \ {0} /\ job.cp \in Nat \ {0} /\ job.dp \in Nat \ {0}
      BY JobIs
    <3> QED BY <1>0, <3>1 DEF SaverRank, Rank
  <2>2. at.key \in Keys(p) /\ at.key \in Key
    <3> HIDE DEF at
    <3> QED BY <1>0, <1>1, KeysAre
  <2>3. at \in MetaEntry
    <3>1. at = [pp |-> p, key |-> at.key]
      BY <1>1 DEF At
    <3> HIDE DEF at
    <3> QED BY <1>0, <2>2, <3>1 DEF MetaEntry
  <2> HIDE DEF r, at
  <2> QED BY <1>1, <1>2, <2>1, <2>2, <2>3 DEF Reads
<1>5. Seat(item).pp \in Nat
  BY <1>0
<1>6. SavedFull(item) = Flat(TpGathered(r, at)) /\ SavedFrom(item, 0) = FromPp(r, at).rows
  BY <1>5, SavedFromIs DEF SavedFull
<1> HIDE DEF r, at
<1>7. CASE item.to \in Parallel
  <2>1. Parted(item.to, SavedFull(item)) = TensorsOf(item.to, l, -1)
    BY <1>0, <1>2, <1>3, <1>4, <1>6, <1>7, SavedTensors
  <2>2. TensorsSaved(item) = Parted(item.to, SavedFull(item))
    BY <1>0, <1>7 DEF TensorsSaved, Parted, Parallel, ExpertNames
  <2> QED BY <2>1, <2>2
<1>8. CASE item.to \notin Parallel
  <2>1. <<SavedFrom(item, 0)>> = TensorsOf(item.to, l, -1)
    BY <1>2, <1>3, <1>4, <1>6, <1>8, ReadWhole
  <2>2. TensorsSaved(item) = <<SavedFrom(item, 0)>>
    BY <1>8 DEF TensorsSaved, Parallel
  <2> QED BY <2>1, <2>2
<1> QED BY <1>7, <1>8

\* The head of a value model is the one it was given, or the one it was made with.
LEMMA HeadSaved ==
  ASSUME job \in Jobs, param = Holding, job.value, NEW item, NEW p, NEW v, NEW i, NEW l,
         Seated(item, p, v, i, l), item.to = "output_layer"
  PROVE  /\ TensorsSaved(item) = <<Truth[<<"lm_head", l, -1>>]>>
         /\ item.from = <<"lm_head">> /\ l = -1
<1>0. /\ p \in 0..job.pp - 1 /\ v \in 0..job.vpp - 1 /\ Seat(item).pp = p
      /\ KeyOf(item) = <<v, item.to, i, -1>> /\ <<v, item.to, i, -1>> \in NamedKeys(job, p, v)
      /\ item.from = HfParts("output_layer") /\ l \in Int /\ (i = -1 => l = -1)
  BY DEF Seated, KeyOf
<1>1. item.from = <<"lm_head">>
  BY <1>0 DEF HfParts
<1>2. i = -1
  <2>1. "output_layer" \notin LayerNames(job) /\ "output_layer" \notin ExpertNames
    BY DEF LayerNames, ExpertNames
  <2> QED BY <1>0, <2>1, NamedCases
<1> DEFINE r == SaverRank(item)
           k == KeyOf(item)
<1>3. r \in Rank /\ r.pp = p
  <2>1. /\ job.tp \in Nat \ {0} /\ job.cp \in Nat \ {0} /\ job.dp \in Nat \ {0}
    BY JobIs
  <2> QED BY <1>0, <2>1 DEF SaverRank, Rank
<1>4. k \in Keys(p)
  BY <1>0, KeysAre
<1> HIDE DEF r
<1>5. SavedFrom(item, 0) = Held(r, k)
  <2>1. Seat(item).pp \in Nat
    BY <1>0
  <2>2. SavedFrom(item, 0) = param[r][k]
    BY <2>1, SavedFromIs DEF r
  <2> HIDE DEF k
  <2> QED BY <1>3, <1>4, <2>2 DEF Holding
<1>6. k[1] = v /\ k[2] = "output_layer" /\ k[3] = -1
  BY <1>0, <1>2
<1> HIDE DEF k
<1>7. Held(r, k) = (IF job.head = 1 /\ job.from = "hf" THEN Tensor("lm_head", -1, -1) ELSE Unset)
  <2>1. LayerAt(r, k[1], k[3]) = -1
    BY <1>6 DEF LayerAt
  <2> QED BY <1>6, <2>1, HeldIs
<1>8. TensorsSaved(item) = <<SavedFrom(item, 0)>>
  BY DEF TensorsSaved
<1>9. Truth[<<"lm_head", -1, -1>>]
        = (IF job.head = 1 /\ job.from = "hf" THEN Tensor("lm_head", -1, -1) ELSE Unset)
  <2>1. <<"lm_head", -1, -1>> \in Entry
    BY DEF Entry, PartNames
  <2> QED BY <2>1 DEF Truth
<1> QED BY <1>0, <1>1, <1>2, <1>5, <1>7, <1>8, <1>9

-----------------------------------------------------------------------------
(* The whole state dict of the saver.                                     *)

\* A state dict with the entries E of the checkpoint
Recalled(E) == [e \in E |-> Truth[e]]

\* A dictionary that gets more entries of the checkpoint has those too.
LEMMA FedTruth ==
  ASSUME NEW E, NEW F
  PROVE  Fed(Recalled(E), Pairs(F)) = Recalled(E \cup F)
<1> DEFINE P == Pairs(F)
           Got(e) == (CHOOSE p \in P : p[1] = e)[2]
<1>0. \A e \in F : \E p \in P : p[1] = e
  <2> SUFFICES ASSUME NEW e \in F PROVE \E p \in P : p[1] = e
    OBVIOUS
  <2>1. <<e, Truth[e]>> \in P /\ <<e, Truth[e]>>[1] = e
    BY DEF Pairs
  <2> QED BY <2>1
<1>1. ASSUME NEW e \in F PROVE Got(e) = Truth[e]
  <2> DEFINE q == CHOOSE p \in P : p[1] = e
  <2>1. q \in P /\ q[1] = e
    BY <1>0
  <2> HIDE DEF q
  <2>2. PICK d \in F : q = <<d, Truth[d]>>
    BY <2>1 DEF Pairs
  <2>3. q[2] = Truth[e]
    BY <2>1, <2>2
  <2> QED BY <2>3 DEF q
<1>2. DOMAIN Recalled(E) = E /\ \A e \in E : Recalled(E)[e] = Truth[e]
  BY DEF Recalled
<1>3. Fed(Recalled(E), P) = [e \in F \cup E |-> IF e \in F THEN Got(e) ELSE Recalled(E)[e]]
  <2>1. {p[1] : p \in P} = F
    <3>1. \A p \in P : p[1] \in F
      BY DEF Pairs
    <3> QED BY <1>0, <3>1
  <2> QED BY <1>2, <2>1 DEF Fed
<1>4. Recalled(E \cup F) = [e \in F \cup E |-> Truth[e]]
  <2>1. E \cup F = F \cup E
    OBVIOUS
  <2> QED BY <2>1 DEF Recalled
<1> HIDE DEF P, Got
<1>5. \A e \in F \cup E : (IF e \in F THEN Got(e) ELSE Recalled(E)[e]) = Truth[e]
  BY <1>1, <1>2
<1> QED BY <1>3, <1>4, <1>5 DEF P

\* Only the output layer becomes the head.
LEMMA HeadPart ==
  ASSUME NEW name \in Names, NEW n \in 1..Len(HfParts(name)), HfParts(name)[n] = "lm_head"
  PROVE  name = "output_layer"
<1>1. "lm_head" \in PartSet(name)
  BY DEF PartSet
<1> HIDE DEF PartSet
<1> QED BY <1>1, PartSets DEF Names

\* An item puts into the state dict the entries that its parameter becomes.
LEMMA ItemSaved ==
  ASSUME job \in Jobs, param = Holding, Saveable, NEW item \in AllItems(~job.tied)
  PROVE  SavedPairs(item) = Pairs(SavedAt(item))
<1>1. PICK p, v, i, l : Seated(item, p, v, i, l)
  BY SeatOfItem
<1> DEFINE parts == HfParts(item.to)
<1>2. item.from = parts /\ item.layer = l /\ l \in Int /\ item.to \in Names
  BY <1>1 DEF Seated
<1>3. parts \in Seq(PartNames) /\ Len(parts) \in {1, 2, 3}
  BY <1>2, HfPartsIs
<1>4. ASSUME NEW n \in 1..Len(parts)
      PROVE  TensorsSaved(item)[n] = Truth[<<parts[n], l, -1>>]
  <2>1. parts[n] \in PartNames
    BY <1>3
  <2>2. <<parts[n], l, -1>> \in Entry
    BY <1>2, <2>1 DEF Entry
  <2>3. CASE job.value /\ item.to = "output_layer"
    <3>1. TensorsSaved(item) = <<Truth[<<"lm_head", l, -1>>]>> /\ parts = <<"lm_head">>
      BY <1>1, <1>2, <2>3, HeadSaved
    <3> HIDE DEF parts
    <3>2. n = 1 /\ parts[n] = "lm_head"
      BY <3>1
    <3> QED BY <3>1, <3>2
  <2>4. CASE ~(job.value /\ item.to = "output_layer")
    <3>1. TensorsSaved(item) = TensorsOf(item.to, l, -1)
      BY <1>1, <2>4, ItemTensors
    <3>2. TensorsSaved(item)[n] = Tensor(parts[n], l, -1)
      BY <3>1 DEF TensorsOf
    <3>3. ~(parts[n] = "lm_head" /\ job.value)
      BY <1>2, <2>4, HeadPart
    <3> HIDE DEF parts
    <3>4. Truth[<<parts[n], l, -1>>] = Tensor(parts[n], l, -1)
      BY <2>2, <3>3 DEF Truth
    <3> QED BY <3>2, <3>4
  <2> QED BY <2>3, <2>4
<1>5. DOMAIN item.from = 1..Len(parts)
  BY <1>2, <1>3
<1> DEFINE N == 1..Len(parts)
           E == {<<parts[n], l, -1>> : n \in N}
<1>6. SavedAt(item) = E
  BY <1>2 DEF SavedAt, PartsAt
<1>7. SavedPairs(item) = {<<<<parts[n], l, -1>>, TensorsSaved(item)[n]>> : n \in N}
  BY <1>2, <1>5 DEF SavedPairs
<1> HIDE DEF parts, N
<1>8. SavedPairs(item) = {<<<<parts[n], l, -1>>, Truth[<<parts[n], l, -1>>]>> : n \in N}
  BY <1>4, <1>7 DEF N
<1>9. Pairs(E) = {<<<<parts[n], l, -1>>, Truth[<<parts[n], l, -1>>]>> : n \in N}
  BY DEF Pairs
<1> QED BY <1>6, <1>8, <1>9

\* The saver goes through items that it knows only, and through each of them.
LEMMA SaveProgramIs ==
  ASSUME job \in Jobs
  PROVE  /\ Len(SaveProgram) \in Nat
         /\ \A n \in 1..Len(SaveProgram) : SaveProgram[n] \in AllItems(~job.tied)
         /\ \A item \in AllItems(~job.tied) : \E n \in 1..Len(SaveProgram) : SaveProgram[n] = item
<1>1. Lists(AnyItem, Items(~job.tied), AllItems(~job.tied))
  <2>1. (~job.tied) \in BOOLEAN
    OBVIOUS
  <2> QED BY <2>1, JobIs, ItemsIs
<1> DEFINE s == Items(~job.tied)
<1>2. s \in Seq(AnyItem) /\ ToSet(s) = AllItems(~job.tied) /\ SaveProgram = s
  BY <1>1 DEF Lists, SaveProgram
<1> HIDE DEF s
<1>3. Len(s) \in Nat /\ DOMAIN s = 1..Len(s)
  BY <1>2
<1> QED BY <1>2, <1>3 DEF ToSet

\* The entries of the first n items, and of all
SavedUpto(n) == UNION {SavedAt(SaveProgram[i]) : i \in 1..n}
SavedAll == SavedUpto(Len(SaveProgram))

\* Nothing is saved at the start, and one item more by each step.
LEMMA SavedNext ==
  /\ SavedUpto(0) = {}
  /\ \A n \in Nat : SavedUpto(n + 1) = SavedUpto(n) \cup SavedAt(SaveProgram[n + 1])
<1>1. SavedUpto(0) = {}
  <2>1. 1..0 = {}
    OBVIOUS
  <2> QED BY <2>1 DEF SavedUpto
<1>2. ASSUME NEW n \in Nat
      PROVE  SavedUpto(n + 1) = SavedUpto(n) \cup SavedAt(SaveProgram[n + 1])
  <2>1. 1..n + 1 = (1..n) \cup {n + 1}
    OBVIOUS
  <2> QED BY <2>1 DEF SavedUpto
<1> QED BY <1>1, <1>2

\* The items of a layer are all of its parameters.
LEMMA LayerSaved ==
  ASSUME job.experts = 0, NEW l \in Nat
  PROVE  UNION {SavedAt(item) : item \in LayerItems(l)} = LayerEntries(l)
<1>1. ASSUME NEW item \in LayerItems(l)
      PROVE  item.to \in LayerNames(job) /\ SavedAt(item) = {<<q, l, -1>> : q \in PartSet(item.to)}
  BY LayerItem, PartsAre DEF SavedAt
<1>2. ASSUME NEW n \in LayerNames(job) PROVE \E item \in LayerItems(l) : item.to = n
  <2>1. \A f, m : Item(f, m, l).to = m
    BY DEF Item
  <2>2. \/ n \in {"proj", "qkv_norm", "qkv", "fc1_norm", "fc1", "fc2"}
        \/ (job.bias /\ n = "qkv_bias") \/ (job.qknorm /\ n \in {"q_layernorm", "k_layernorm"})
    <3>1. ~(job.experts > 0)
      OBVIOUS
    <3> QED BY <3>1 DEF LayerNames
  <2> QED BY <2>1, <2>2 DEF LayerItems
<1>3. LayerEntries(l) = {<<q, l, -1>> : q \in LayerParts}
  <2>1. 0..job.experts - 1 = {}
    OBVIOUS
  <2> QED BY <2>1 DEF LayerEntries
<1>4. LayerParts = UNION {PartSet(n) : n \in LayerNames(job)}
  BY LayerPartsAre
<1>5. UNION {SavedAt(item) : item \in LayerItems(l)} \subseteq LayerEntries(l)
  BY <1>1, <1>3, <1>4
<1>6. ASSUME NEW e \in LayerEntries(l)
      PROVE  e \in UNION {SavedAt(item) : item \in LayerItems(l)}
  <2>1. PICK n \in LayerNames(job) : \E q \in PartSet(n) : e = <<q, l, -1>>
    BY <1>3, <1>4
  <2>2. PICK item \in LayerItems(l) : item.to = n
    BY <1>2
  <2>3. e \in SavedAt(item)
    BY <1>1, <2>1, <2>2
  <2> QED BY <2>3
<1> QED BY <1>5, <1>6

\* The saver leaves out nothing but a head that is tied.
LEMMA SavedIs ==
  ASSUME job \in Jobs, Saveable
  PROVE  SavedAll \cup {HeadEntry} = Entries /\ (~job.tied => HeadEntry \in SavedAll)
<1> DEFINE A == AllItems(~job.tied)
           a == Item(<<"embed">>, "word_embeddings", -1)
           b == Item(<<"norm">>, "final_layernorm", -1)
           c == Item(<<"lm_head">>, "output_layer", -1)
           L == UNION {LayerEntries(l) : l \in 0..job.layers - 1}
<1>1. SavedAll = UNION {SavedAt(item) : item \in A}
  <2>1. \A n \in 1..Len(SaveProgram) : SaveProgram[n] \in A
    BY SaveProgramIs
  <2>2. \A item \in A : \E n \in 1..Len(SaveProgram) : SaveProgram[n] = item
    BY SaveProgramIs
  <2> HIDE DEF A
  <2> QED BY <2>1, <2>2 DEF SavedAll, SavedUpto
<1>2. /\ SavedAt(a) = {<<"embed", -1, -1>>} /\ SavedAt(b) = {<<"norm", -1, -1>>}
      /\ SavedAt(c) = {HeadEntry}
  <2>1. /\ a.to = "word_embeddings" /\ a.layer = -1 /\ b.to = "final_layernorm"
        /\ b.layer = -1 /\ c.to = "output_layer" /\ c.layer = -1
    BY DEF Item
  <2>2. /\ SavedAt(a) = {<<q, -1, -1>> : q \in PartSet("word_embeddings")}
        /\ SavedAt(b) = {<<q, -1, -1>> : q \in PartSet("final_layernorm")}
        /\ SavedAt(c) = {<<q, -1, -1>> : q \in PartSet("output_layer")}
    BY <2>1, PartsAre DEF SavedAt
  <2> QED BY <2>2, PartSets DEF HeadEntry
<1>3. A = ({a} \cup (UNION {LayerItems(l) : l \in 0..job.layers - 1}) \cup {b})
          \cup (IF ~job.tied THEN {c} ELSE {})
  BY DEF AllItems
<1>4. ASSUME NEW l \in 0..job.layers - 1
      PROVE  UNION {SavedAt(item) : item \in LayerItems(l)} = LayerEntries(l)
  <2>1. job.experts = 0 /\ l \in Nat
    BY JobIs DEF Saveable, Moe
  <2> QED BY <2>1, LayerSaved
<1> HIDE DEF A, a, b, c
<1>5. UNION {SavedAt(item) : item \in UNION {LayerItems(l) : l \in 0..job.layers - 1}} = L
  <2>1. UNION {SavedAt(item) : item \in UNION {LayerItems(l) : l \in 0..job.layers - 1}}
          = UNION {UNION {SavedAt(item) : item \in LayerItems(l)} : l \in 0..job.layers - 1}
    OBVIOUS
  <2> QED BY <1>4, <2>1
<1> HIDE DEF L
<1>6. SavedAll = (SavedAt(a) \cup L \cup SavedAt(b))
                 \cup (IF ~job.tied THEN SavedAt(c) ELSE {})
  BY <1>1, <1>3, <1>5
<1>7. Entries = {<<"embed", -1, -1>>, <<"norm", -1, -1>>, HeadEntry} \cup L
  BY EntriesAre DEF L
<1> QED BY <1>2, <1>6, <1>7

-----------------------------------------------------------------------------
(* The layers that the merger gives to each of its ranks.                 *)

\* Some element has the least number.
LEMMA Least ==
  ASSUME NEW S, S # {}, NEW f, \A x \in S : f[x] \in Nat
  PROVE  \E x \in S : \A y \in S : f[x] <= f[y]
<1> SUFFICES ASSUME ~ \E x \in S : \A y \in S : f[x] <= f[y] PROVE FALSE
  OBVIOUS
<1> DEFINE T == {n \in Nat : \A x \in S : f[x] >= n}
<1>1. 0 \in T
  OBVIOUS
<1>2. ASSUME NEW n \in Nat, n \in T PROVE n + 1 \in T
  <2>1. \A x \in S : f[x] >= n
    BY <1>2
  <2>2. ASSUME NEW x \in S PROVE f[x] >= n + 1
    <3>1. PICK y \in S : ~(f[x] <= f[y])
      OBVIOUS
    <3>2. f[y] >= n /\ f[x] \in Nat /\ f[y] \in Nat
      BY <2>1
    <3> QED BY <3>1, <3>2
  <2> QED BY <2>2
<1> HIDE DEF T
<1>3. Nat \subseteq T
  BY <1>1, <1>2, Induct
<1>4. PICK x \in S : TRUE
  OBVIOUS
<1>5. f[x] + 1 \in Nat /\ f[x] \in Nat
  OBVIOUS
<1>6. f[x] + 1 \in T
  BY <1>3, <1>5
<1>7. f[x] >= f[x] + 1
  BY <1>6 DEF T
<1> QED BY <1>5, <1>7

\* The least of some numbers is one of them.
LEMMA LeastNumber ==
  ASSUME NEW S, S # {}, S \subseteq Nat PROVE Min(S) \in S
<1> DEFINE f == [x \in S |-> x]
<1>1. \A x \in S : f[x] \in Nat
  OBVIOUS
<1>2. PICK x \in S : \A y \in S : f[x] <= f[y]
  <2> HIDE DEF f
  <2> QED BY <1>1, Least
<1>3. \A y \in S : x <= y
  BY <1>2
<1> QED BY <1>3 DEF Min

\* The stages of the merger: the first has a layers, the last b, and those
\* between them m each.
Shared(s, n, w, a, m, b) ==
  /\ a \in Nat /\ m \in Nat /\ b \in Nat
  /\ \A p \in 0..w - 1 : s[p + 1] = IF p = 0 THEN a ELSE IF p = w - 1 THEN b ELSE m
  /\ IF w = 1 THEN a = n ELSE (a + (w - 2) * m) + b = n
  /\ w > 1 => a > 0
  /\ w > 2 => b > 0

\* The shares of the ranks: a and b layers for the ends, m for each between them.
LEMMA ShardsAre ==
  ASSUME job \in Jobs, Mergeable(job)
  PROVE  \E a, m, b : Shared(PipelineShards, job.layers, job.merger, a, m, b)
<1> DEFINE n == job.layers
           w == job.merger
<1>0. n \in Nat \ {0} /\ w \in Nat \ {0} /\ w <= n
  BY JobIs DEF Mergeable, Launchable, JobType, Positive
<1>1. CASE w = 1
  <2>1. PipelineShards = <<n>>
    BY <1>1 DEF PipelineShards
  <2>2. \A p \in 0..w - 1 : p = 0
    BY <1>1
  <2>3. Shared(PipelineShards, n, w, n, 0, 0)
    BY <1>0, <1>1, <2>1, <2>2 DEF Shared
  <2> QED BY <2>3
<1>2. CASE w = 2
  <2> DEFINE a == n \div 2
             b == n - n \div 2
  <2>1. PipelineShards = <<a, b>>
    BY <1>2 DEF PipelineShards
  <2>2. \A p \in 0..w - 1 : p = 0 \/ p = 1
    BY <1>2
  <2>3. a \in Nat /\ b \in Nat /\ a > 0 /\ b > 0 /\ a + b = n
    BY <1>0, <1>2
  <2> HIDE DEF a, b
  <2>4. Shared(PipelineShards, n, w, a, 0, b)
    BY <1>0, <1>2, <2>1, <2>2, <2>3 DEF Shared
  <2> QED BY <2>4
<1>3. CASE w > 2
  <2> DEFINE F == Fits(job)
             Off(m) == m - LeftForEnds(job, m) \div 2
             f == [m \in F |-> Off(m)]
             B == {m \in F : \A k \in F : Off(m) <= Off(k)}
             m == Min(B)
             r == LeftForEnds(job, m)
             a == r \div 2
             b == r - r \div 2
  <2>1. F # {}
    BY <1>3 DEF Mergeable
  <2>2. ASSUME NEW k \in F
        PROVE  /\ k \in 0..n - 1 /\ LeftForEnds(job, k) \div 2 \in 1..k
               /\ LeftForEnds(job, k) - LeftForEnds(job, k) \div 2 \in 1..k
    BY DEF Fits
  <2> HIDE DEF F
  <2>3. \A k \in F : Off(k) \in Nat
    <3> SUFFICES ASSUME NEW k \in F PROVE Off(k) \in Nat
      OBVIOUS
    <3> DEFINE h == LeftForEnds(job, k) \div 2
    <3>1. k \in 0..n - 1 /\ h \in 1..k
      BY <2>2
    <3> HIDE DEF h
    <3>2. k - h \in Nat
      BY <1>0, <3>1
    <3> QED BY <3>2 DEF h
  <2> HIDE DEF Off
  <2>4. PICK x \in F : \A k \in F : f[x] <= f[k]
    <3>1. \A k \in F : f[k] \in Nat
      BY <2>3
    <3> HIDE DEF f
    <3> QED BY <2>1, <3>1, Least
  <2>5. x \in B
    BY <2>4
  <2>6. B \subseteq Nat
    BY <1>0, <2>2
  <2>7. m \in F
    <3> HIDE DEF B
    <3>1. m \in B
      BY <2>5, <2>6, LeastNumber
    <3> QED BY <3>1 DEF B
  <2>8. PipelineShards = (<<a>> \o [i \in 1..w - 2 |-> m]) \o <<b>>
    <3>1. w # 1 /\ w # 2
      BY <1>3
    <3> HIDE DEF w
    <3>2. PipelineShards = IF w = 1 THEN <<n>>
                           ELSE IF w = 2 THEN <<n \div 2, n - n \div 2>>
                           ELSE (<<a>> \o [i \in 1..w - 2 |-> m]) \o <<b>>
      BY DEF PipelineShards, F, Off, w
    <3> QED BY <3>1, <3>2
  <2> HIDE DEF m
  <2>9. m \in 0..n - 1 /\ a \in 1..m /\ b \in 1..m
    BY <2>2, <2>7
  <2>10. r = n - m * (w - 2)
    BY DEF LeftForEnds
  <2>11. (w - 2) * m \in Nat /\ m * (w - 2) = (w - 2) * m
    <3>1. w - 2 \in Nat /\ m \in Nat
      BY <1>0, <1>3, <2>9
    <3> QED BY <3>1, MulPos
  <2> DEFINE y == (w - 2) * m
  <2>12. r = n - y /\ y \in Nat
    BY <2>10, <2>11
  <2> HIDE DEF y, r
  <2>13. r \in Int /\ a \in Int
    BY <1>0, <2>12
  <2>14. (a + y) + b = n
    BY <1>0, <2>12, <2>13
  <2> DEFINE s == [i \in 1..w - 2 |-> m]
  <2> HIDE DEF a, b
  <2>15. s \in Seq(Nat) /\ Len(s) = w - 2 /\ \A i \in 1..w - 2 : s[i] = m
    BY <1>0, <1>3, <2>9
  <2> HIDE DEF s
  <2>16. /\ <<a>> \in Seq(Nat) /\ Len(<<a>>) = 1 /\ <<a>>[1] = a
         /\ <<b>> \in Seq(Nat) /\ Len(<<b>>) = 1 /\ <<b>>[1] = b
    BY <2>9
  <2> DEFINE u == <<a>> \o s
             z == u \o <<b>>
  <2>17. u \in Seq(Nat) /\ Len(u) = w - 1 /\ u[1] = a /\ \A i \in 1..w - 2 : u[1 + i] = m
    BY <1>0, <1>3, <2>15, <2>16, Concat
  <2> HIDE DEF u
  <2>18. z[1] = a /\ (\A i \in 1..w - 2 : z[1 + i] = m) /\ z[w] = b
    <3>1. /\ \A i \in 1..Len(u) : z[i] = u[i]
          /\ \A i \in 1..Len(<<b>>) : z[Len(u) + i] = <<b>>[i]
      BY <2>16, <2>17, Concat
    <3>2. 1 \in 1..Len(u) /\ (\A i \in 1..w - 2 : 1 + i \in 1..Len(u)) /\ 1 \in 1..Len(<<b>>)
      BY <1>0, <1>3, <2>16, <2>17
    <3>3. Len(u) + 1 = w
      BY <1>0, <2>17
    <3> QED BY <2>16, <2>17, <3>1, <3>2, <3>3
  <2> HIDE DEF z
  <2>19. ASSUME NEW p \in 0..w - 1
         PROVE  z[p + 1] = IF p = 0 THEN a ELSE IF p = w - 1 THEN b ELSE m
    <3>1. CASE p = 0
      BY <2>18, <3>1
    <3>2. CASE p # 0 /\ p = w - 1
      <4>1. p + 1 = w
        BY <1>0, <3>2
      <4> QED BY <2>18, <3>2, <4>1
    <3>3. CASE p # 0 /\ p # w - 1
      <4>1. p \in 1..w - 2 /\ p + 1 = 1 + p
        BY <1>0, <3>3
      <4> QED BY <2>18, <3>3, <4>1
    <3> QED BY <3>1, <3>2, <3>3
  <2>20. PipelineShards = z
    BY <2>8 DEF z, u, s
  <2>21. Shared(PipelineShards, n, w, a, m, b)
    <3>1. a \in Nat /\ m \in Nat /\ b \in Nat /\ a > 0 /\ b > 0
      BY <1>0, <2>9
    <3>2. (a + (w - 2) * m) + b = n
      BY <2>14 DEF y
    <3> HIDE DEF n, w
    <3> QED BY <1>3, <2>19, <2>20, <3>1, <3>2 DEF Shared
  <2> QED BY <2>21
<1> QED BY <1>0, <1>1, <1>2, <1>3

-----------------------------------------------------------------------------
(* The program of the merger.                                             *)

\* The layout of the merger, of the model of the job
Merging(M) ==
  /\ M.pp = job.merger /\ M.vpp = 1 /\ M.ep = 1 /\ M.forEmbed = 0 /\ M.forLoss = 0
  /\ M.layers = job.layers /\ M.bias = job.bias /\ M.qknorm = job.qknorm
  /\ M.experts = job.experts /\ M.tied = job.tied

\* The shares as a layout, whose ends have sizes of their own
LEMMA MergeLayoutIs ==
  ASSUME job \in Jobs
  PROVE  /\ Merging(MergeLayout)
         /\ MergeLayout.first = IF job.merger > 1 THEN PipelineShards[1] ELSE 0
         /\ MergeLayout.last = IF job.merger > 2 THEN PipelineShards[job.merger] ELSE 0
<1>1. job \in JobType
  BY JobIs DEF Launchable
<1> QED BY <1>1 DEF MergeLayout, Merging, JobType

\* Its stages have the layers that were shared out.
LEMMA MergeSizes ==
  ASSUME job \in Jobs, NEW a, NEW m, NEW b,
         Shared(PipelineShards, job.layers, job.merger, a, m, b)
  PROVE  /\ Counted(MergeLayout) /\ Sizes(MergeLayout, a, m, b)
         /\ \A p \in 0..job.merger - 1 : LayersIn(MergeLayout, p, 0) = PipelineShards[p + 1]
<1> DEFINE M == MergeLayout
           n == job.layers
           w == job.merger
           s == PipelineShards
<1>0. n \in Nat \ {0} /\ w \in Nat \ {0}
  BY JobIs DEF Launchable, JobType, Positive
<1>1. Merging(M) /\ M.first = (IF w > 1 THEN s[1] ELSE 0) /\ M.last = (IF w > 2 THEN s[w] ELSE 0)
  BY MergeLayoutIs
<1> HIDE DEF M, s
<1>2. /\ a \in Nat /\ m \in Nat /\ b \in Nat
      /\ \A p \in 0..w - 1 : s[p + 1] = IF p = 0 THEN a ELSE IF p = w - 1 THEN b ELSE m
      /\ w = 1 => a = n
      /\ w # 1 => (a + (w - 2) * m) + b = n
      /\ w > 1 => a > 0
      /\ w > 2 => b > 0
  BY DEF Shared, s
<1>3. s[1] = a /\ (w > 1 => s[w] = b)
  <2>1. 0 \in 0..w - 1 /\ w - 1 \in 0..w - 1 /\ 0 + 1 = 1 /\ (w - 1) + 1 = w
    BY <1>0
  <2>2. s[0 + 1] = a
    BY <1>2, <2>1
  <2>3. w > 1 => s[(w - 1) + 1] = b
    BY <1>0, <1>2, <2>1
  <2> QED BY <2>1, <2>2, <2>3
<1>4. /\ M.pp = w /\ M.vpp = 1 /\ M.forEmbed = 0 /\ M.forLoss = 0 /\ M.layers = n
      /\ M.first = (IF w > 1 THEN a ELSE 0) /\ M.last = (IF w > 2 THEN b ELSE 0)
  BY <1>0, <1>1, <1>3 DEF Merging
<1>5. Ends(M) = IF w > 2 THEN 2 ELSE IF w > 1 THEN 1 ELSE 0
  <2>1. M.first \in Nat /\ M.last \in Nat
    BY <1>2, <1>4
  <2>2. Ends(M) = IF M.first > 0 THEN (IF M.last > 0 THEN 2 ELSE 1)
                  ELSE (IF M.last > 0 THEN 1 ELSE 0)
    BY <2>1, EndsIs
  <2> QED BY <1>0, <1>2, <1>4, <2>2
<1>6. ASSUME NEW p \in 0..w - 1
      PROVE  LayersIn(M, p, 0) = IF p = 0 THEN a ELSE IF p = w - 1 THEN b ELSE m
  <2>1. CASE w = 1
    <3>1. p = 0 /\ Ends(M) = 0 /\ a = n /\ M.vpp - 1 = 0 /\ M.pp - 1 = 0
      BY <1>2, <1>4, <1>5, <2>1
    <3>2. LayersIn(M, p, 0) = (((n + 0 + 0) \div 1) \div 1 - 0) - 0
      BY <1>4, <2>1, <3>1 DEF LayersIn
    <3> QED BY <1>0, <3>1, <3>2
  <2>2. CASE w > 1
    <3> DEFINE x == (n - M.first) - M.last
               y == M.pp - Ends(M)
               stage == IF p = 0 THEN a ELSE IF p = w - 1 /\ w > 2 THEN b ELSE x \div y
    <3>1. LayersIn(M, p, 0) = stage \div 1
      BY <1>0, <1>2, <1>4, <1>5, <2>2 DEF LayersIn
    <3>2. stage = IF p = 0 THEN a ELSE IF p = w - 1 THEN b ELSE m
      <4>1. CASE p = 0
        BY <4>1
      <4>2. CASE p # 0 /\ p = w - 1 /\ w > 2
        BY <4>2
      <4>3. CASE p # 0 /\ p = w - 1 /\ w = 2
        <5>1. (w - 2) * m = 0
          BY <1>2, <4>3
        <5>2. x = b /\ y = 1
          BY <1>0, <1>2, <1>4, <1>5, <4>3, <5>1
        <5>3. b \div 1 = b
          BY <1>2
        <5> HIDE DEF x, y
        <5> QED BY <4>3, <5>2, <5>3
      <4>4. CASE p # 0 /\ p # w - 1
        <5> DEFINE z == (w - 2) * m
        <5>1. w > 2 /\ w - 2 \in Nat \ {0}
          BY <1>0, <4>4
        <5>2. z \in Nat /\ z \div (w - 2) = m
          <6> DEFINE d == w - 2
          <6> HIDE DEF d
          <6>1. d \in Nat \ {0} /\ m \in Nat
            BY <1>2, <5>1 DEF d
          <6>2. (d * m) \div d = m /\ d * m \in Nat
            BY <6>1, DivExact
          <6> QED BY <6>2 DEF d
        <5>3. (a + z) + b = n
          BY <1>2, <5>1
        <5> HIDE DEF z
        <5>4. x = z /\ y = w - 2
          BY <1>0, <1>2, <1>4, <1>5, <5>1, <5>2, <5>3
        <5> HIDE DEF x, y
        <5> QED BY <4>4, <5>2, <5>4
      <4> QED BY <1>0, <2>2, <4>1, <4>2, <4>3, <4>4
    <3> HIDE DEF stage
    <3>3. stage \in Int
      BY <1>2, <3>2
    <3> QED BY <3>1, <3>2, <3>3
  <2> QED BY <1>0, <2>1, <2>2
<1>7. \A p \in 0..M.pp - 1, v \in 0..M.vpp - 1 : p \in 0..w - 1 /\ v = 0
  BY <1>4
<1>8. Counted(M)
  BY <1>0, <1>2, <1>4, <1>6, <1>7 DEF Counted
<1>9. Sizes(M, a, m, b)
  BY <1>2, <1>4, <1>6, <1>7 DEF Sizes
<1> QED BY <1>2, <1>6, <1>8, <1>9 DEF M, s

\* They make up the model.
LEMMA MergeTotal ==
  ASSUME job \in Jobs, Mergeable(job)
  PROVE  /\ Counted(MergeLayout) /\ Start(MergeLayout, 0, 1) = job.layers
         /\ \A p \in 0..job.merger - 1 : LayersIn(MergeLayout, p, 0) = PipelineShards[p + 1]
<1> DEFINE M == MergeLayout
           w == job.merger
<1>0. w \in Nat \ {0} /\ job.layers \in Nat
  BY JobIs DEF Launchable, JobType, Positive
<1>1. PICK a, m, b : Shared(PipelineShards, job.layers, w, a, m, b)
  BY ShardsAre
<1>2. /\ Counted(M) /\ Sizes(M, a, m, b)
      /\ \A p \in 0..w - 1 : LayersIn(M, p, 0) = PipelineShards[p + 1]
  BY <1>1, MergeSizes
<1>3. M.pp = w /\ M.vpp = 1
  BY MergeLayoutIs DEF Merging
<1>4. a \in Int /\ m \in Int /\ b \in Int
  BY <1>2 DEF Sizes
<1>5. (w = 1 => a = job.layers) /\ (w # 1 => (a + (w - 2) * m) + b = job.layers)
  BY <1>1 DEF Shared
<1> HIDE DEF M
<1> DEFINE p == w - 1
           F == SizesForm(M, a, m, b)
<1>6. p \in 0..M.pp - 1 /\ 0 \in 0..M.vpp - 1
  BY <1>0, <1>3
<1>7. Start(M, p, 0) = F[<<p, 0>>]
  <2>1. Grows(M, F)
    BY <1>2, SizesGrow
  <2> HIDE DEF F, p
  <2> QED BY <1>2, <1>6, <2>1, StartForm
<1>8. F[<<p, 0>>] = UpTo(a, m, p) /\ UpTo(a, m, p) \in Int
  <2> HIDE DEF p
  <2>1. /\ Round(M, a, m, b) \in Int /\ (p - 1) * m \in Int
        /\ F[<<p, 0>>] = 0 * Round(M, a, m, b) + UpTo(a, m, p)
    BY <1>2, <1>6, SizesFormAt
  <2>2. UpTo(a, m, p) \in Int
    BY <1>4, <2>1 DEF UpTo
  <2> QED BY <2>1, <2>2
<1>9. Start(M, 0, 1) = Start(M, p, 0) + LayersIn(M, p, 0)
  <2>1. Start(M, 0, 0 + 1) = Start(M, M.pp - 1, 0) + LayersIn(M, M.pp - 1, 0)
    BY <1>2, <1>6, StartNext
  <2> QED BY <1>3, <2>1
<1>10. LayersIn(M, p, 0) = IF p = 0 THEN a ELSE b
  <2>1. LayersIn(M, p, 0) = IF p = 0 THEN a ELSE IF p = M.pp - 1 THEN b ELSE m
    BY <1>2, <1>6 DEF Sizes
  <2> QED BY <1>3, <2>1
<1>11. UpTo(a, m, p) + (IF p = 0 THEN a ELSE b) = job.layers
  <2>1. CASE w = 1
    BY <1>4, <1>5, <2>1 DEF UpTo
  <2>2. CASE w # 1
    <3>1. p # 0 /\ p - 1 = w - 2
      BY <1>0, <2>2
    <3>2. UpTo(a, m, p) = a + (w - 2) * m
      BY <3>1 DEF UpTo
    <3> QED BY <1>5, <2>2, <3>1, <3>2
  <2> QED BY <2>1, <2>2
<1>12. Start(M, 0, 1) = job.layers
  <2> HIDE DEF p, F
  <2> QED BY <1>7, <1>8, <1>9, <1>10, <1>11
<1> QED BY <1>2, <1>12 DEF M

\* The sum over the ranks before a rank is where its layers start.
LEMMA BeforeSum ==
  ASSUME NEW k \in Nat
  PROVE  \E g : Sums(g, PipelineShards, 1..k) /\ LayersBefore(k) = g[1..k]
<1> DEFINE S == 1..k
           f == PipelineShards
           iter == CHOOSE g : g = [s \in SUBSET S |->
              IF s = {} THEN 0
              ELSE LET x == CHOOSE x \in s : TRUE IN f[x] + g[s \ {x}]]
<1>1. LayersBefore(k) = iter[S]
  BY DEF LayersBefore, MapThenSumSet, MapThenFoldSet
<1>2. IsFiniteSet(S)
  BY FS_Interval
<1>3. \E g : Sums(g, f, S)
  BY <1>2, SumsExist
<1>4. Sums(iter, f, S)
  BY <1>3 DEF Sums
<1> HIDE DEF iter
<1> QED BY <1>1, <1>4

\* The merger numbers the layers of a rank from where the rank's chunk starts.
LEMMA LayersBeforeIs ==
  ASSUME job \in Jobs, Mergeable(job), NEW k \in 0..job.merger - 1
  PROVE  LayersBefore(k) = Start(MergeLayout, k, 0)
<1> DEFINE M == MergeLayout
           f == PipelineShards
           w == job.merger
<1>0. w \in Nat \ {0} /\ k \in Nat /\ k < w
  BY JobIs DEF Launchable, JobType, Positive
<1>1. /\ Counted(M) /\ \A p \in 0..w - 1 : LayersIn(M, p, 0) = f[p + 1]
  BY MergeTotal
<1>2. M.pp = w /\ M.vpp = 1
  BY MergeLayoutIs DEF Merging
<1> HIDE DEF M
<1>3. PICK g : Sums(g, f, 1..k) /\ LayersBefore(k) = g[1..k]
  BY <1>0, BeforeSum
<1> HIDE DEF f
<1>4. IsFiniteSet(1..k) /\ \A x \in 1..k : f[x] \in Int
  <2>1. IsFiniteSet(1..k)
    BY <1>0, FS_Interval
  <2>2. ASSUME NEW x \in 1..k PROVE f[x] \in Int
    <3>1. x - 1 \in 0..w - 1 /\ (x - 1) + 1 = x /\ x - 1 \in 0..M.pp - 1 /\ 0 \in 0..M.vpp - 1
      BY <1>0, <1>2
    <3>2. LayersIn(M, x - 1, 0) = f[x]
      BY <1>1, <3>1
    <3>3. LayersIn(M, x - 1, 0) \in Nat
      BY <1>1, <3>1 DEF Counted
    <3> QED BY <3>2, <3>3
  <2> QED BY <2>1, <2>2
<1>5. \A s \in SUBSET (1..k) : g[s] \in Int /\ \A y \in (1..k) \ s : g[s \cup {y}] = g[s] + f[y]
  <2> DEFINE S == 1..k
  <2>1. Sums(g, f, S)
    BY <1>3
  <2>2. IsFiniteSet(S) /\ \A x \in S : f[x] \in Int
    BY <1>4
  <2> HIDE DEF S
  <2>3. \A s \in SUBSET S : g[s] \in Int /\ \A y \in S \ s : g[s \cup {y}] = g[s] + f[y]
    BY ONLY <2>1, <2>2, SumsAdd
  <2> QED BY <2>3 DEF S
<1> DEFINE T == {i \in Nat : i <= k => g[1..i] = Start(M, i, 0)}
<1>6. 0 \in T
  <2>1. 1..0 = {}
    OBVIOUS
  <2>2. g[{}] = 0
    BY <1>3, SumsAt
  <2>3. Start(M, 0, 0) = 0
    BY <1>1, PlacedFirst
  <2> QED BY <2>1, <2>2, <2>3
<1>7. ASSUME NEW i \in Nat, i \in T PROVE i + 1 \in T
  <2> SUFFICES ASSUME i + 1 <= k PROVE g[1..i + 1] = Start(M, i + 1, 0)
    OBVIOUS
  <2>1. /\ 1..i \in SUBSET (1..k) /\ i + 1 \in (1..k) \ (1..i) /\ 1..i + 1 = (1..i) \cup {i + 1}
        /\ i <= k
    BY <1>0
  <2>2. g[1..i + 1] = g[1..i] + f[i + 1]
    BY <1>5, <2>1
  <2>3. i \in 0..w - 1 /\ i \in 0..M.pp - 2 /\ 0 \in 0..M.vpp - 1
    BY <1>0, <1>2
  <2>4. Start(M, i + 1, 0) = Start(M, i, 0) + LayersIn(M, i, 0)
    BY <1>1, <2>3, StartNext
  <2>5. LayersIn(M, i, 0) = f[i + 1]
    BY <1>1, <2>3
  <2> QED BY <1>7, <2>1, <2>2, <2>4, <2>5
<1> HIDE DEF T
<1>8. k \in T
  BY <1>0, <1>6, <1>7, Induct
<1>9. g[1..k] = Start(M, k, 0)
  BY <1>0, <1>8 DEF T
<1> QED BY <1>3, <1>9 DEF M

-----------------------------------------------------------------------------
(* The shards that the merger finds for a parameter.                      *)

\* Rank s.r has under s.k a shard of this parameter of the whole model.
Sharers(name, layer, expert) ==
  {s \in [r : Rank, k : UNION {Keys(p) : p \in 0..job.pp - 1}] :
     /\ s.k \in Keys(s.r.pp) /\ s.k[2] = name
     /\ s.k[3] # -1 => Placed(job, s.r.pp, s.k[1], s.k[3]) = layer
     /\ expert # -1 => ExpertSeat(s.r).ep * ExpertsPerRank + s.k[4] = expert}
Sharer(name, layer, expert, i) ==
  CHOOSE s \in Sharers(name, layer, expert) :
    IF expert = -1 THEN s.r.tp = i - 1 ELSE ExpertSeat(s.r).etp = i - 1
ShardsOf(name, layer, expert) ==
  [i \in 1..(IF expert = -1 THEN job.tp ELSE job.etp) |->
     param[Sharer(name, layer, expert, i).r][Sharer(name, layer, expert, i).k]]

\* What the merger makes of a key of some layer and expert
LEMMA WholeIs ==
  ASSUME NEW key, NEW layer, NEW expert
  PROVE  Whole(key, layer, expert) = WholeOf(key[2], ShardsOf(key[2], layer, expert))
<1> DEFINE name == key[2]
           s == ShardsOf(name, layer, expert)
           halves == [i \in 1..Len(s) |-> Chunk(s[i], 2)]
<1>1. Whole(key, layer, expert) =
        IF name \in {"fc1", "expert_fc1"} THEN Joined(halves, 1) \o Joined(halves, 2)
        ELSE IF name \in {"word_embeddings", "output_layer", "qkv", "qkv_bias",
                          "proj", "fc2", "expert_fc2"} THEN Flat(s)
        ELSE s[1]
  BY DEF Whole, ShardsOf, Sharer, Sharers
<1> HIDE DEF s, halves
<1>2. name \notin {"fc1", "expert_fc1"} =>
        (name \in {"word_embeddings", "output_layer", "qkv", "qkv_bias",
                   "proj", "fc2", "expert_fc2"} <=> name \in Parallel)
  BY DEF Parallel
<1>3. WholeOf(name, s) =
        IF name \in {"fc1", "expert_fc1"} THEN Joined(halves, 1) \o Joined(halves, 2)
        ELSE IF name \in Parallel THEN Flat(s) ELSE s[1]
  BY DEF WholeOf, halves
<1> HIDE DEF name
<1> QED BY <1>1, <1>2, <1>3 DEF name, s

\* These parameters are of no layer, the others of one.
EndNames == {"word_embeddings", "final_layernorm", "output_layer"}

\* Only the keys of the ends have no layer.
LEMMA KeyLevel ==
  ASSUME job \in Jobs, NEW p \in 0..job.pp - 1, NEW k \in Keys(p)
  PROVE  /\ k[3] \in Int /\ (k[3] = -1 <=> k[2] \in EndNames)
         /\ k[1] \in 0..job.vpp - 1 /\ k[2] \in Names
<1>1. PICK v \in 0..job.vpp - 1 : k \in NamedKeys(job, p, v)
  BY KeysAre
<1>2. "word_embeddings" \notin LayerNames(job) /\ "final_layernorm" \notin LayerNames(job)
      /\ "output_layer" \notin LayerNames(job) /\ LayerNames(job) \subseteq Names
  BY DEF LayerNames, Names
<1>3. CASE k[3] = -1 /\ k[1] = v /\ k[2] \in EndNames
  BY <1>3 DEF EndNames, Names
<1>4. CASE k[3] \in Nat /\ k[1] = v /\ k[2] \in LayerNames(job) \cup ExpertNames
  BY <1>2, <1>4 DEF EndNames, ExpertNames, Names
<1>5. \/ k[3] = -1 /\ k[1] = v /\ k[2] \in EndNames
      \/ k[3] \in Nat /\ k[1] = v /\ k[2] \in LayerNames(job) \cup ExpertNames
  <2>1. CASE \E n \in LayerNames(job), i \in 0..LayersIn(job, p, v) - 1 : k = <<v, n, i, -1>>
    BY <2>1
  <2>2. CASE \E n \in ExpertNames, i \in 0..LayersIn(job, p, v) - 1,
                e \in 0..ExpertsPerRank - 1 : k = <<v, n, i, e>>
    BY <2>2
  <2>3. CASE \E n \in EndNames : k = <<v, n, -1, -1>>
    BY <2>3
  <2> QED BY <1>1, <2>1, <2>2, <2>3, NamedCases DEF EndNames
<1> QED BY <1>3, <1>4, <1>5

\* Where there is a parameter of a name at a layer of the model
Found(p, k, name, l) ==
  p \in 0..job.pp - 1 /\ k \in Keys(p) /\ k[2] = name /\ Where(At(p, k)) = l

\* The parameter that a sharer has is of the layer.
LEMMA SharerReads ==
  ASSUME job \in Jobs, ~job.value, param = Holding, NEW p, NEW k, NEW name, NEW l,
         Found(p, k, name, l), NEW e, NEW s \in Sharers(name, l, e)
  PROVE  /\ Reads(s.r, At(s.r.pp, s.k)) /\ Where(At(s.r.pp, s.k)) = l
         /\ LayerAt(s.r, s.k[1], s.k[3]) = l /\ s.k[2] = name
         /\ param[s.r][s.k] = Held(s.r, s.k) /\ s.r \in Rank
         /\ e # -1 => ExpertSeat(s.r).ep * ExpertsPerRank + s.k[4] = e
<1> DEFINE r == s.r
           m == s.k
<1>1. /\ r \in Rank /\ m \in Keys(r.pp) /\ m[2] = name
      /\ m[3] # -1 => Placed(job, r.pp, m[1], m[3]) = l
      /\ e # -1 => ExpertSeat(r).ep * ExpertsPerRank + m[4] = e
  BY DEF Sharers
<1> HIDE DEF r, m
<1>2. r.pp \in 0..job.pp - 1
  BY <1>1 DEF Rank
<1>3. /\ p \in 0..job.pp - 1 /\ k \in Keys(p) /\ k[2] = name
      /\ l = IF k[3] = -1 THEN -1 ELSE Placed(job, p, k[1], k[3])
  BY DEF Found, Where, At
<1>4. m[3] = -1 => l = -1
  <2>1. (m[3] = -1 <=> name \in EndNames) /\ (k[3] = -1 <=> name \in EndNames)
    BY <1>1, <1>2, <1>3, KeyLevel
  <2> QED BY <1>3, <2>1
<1>5. LayerAt(r, m[1], m[3]) = l
  BY <1>1, <1>4 DEF LayerAt
<1>6. Where(At(r.pp, m)) = l
  BY <1>1, <1>4 DEF Where, At
<1>7. At(r.pp, m) \in MetaEntry /\ At(r.pp, m).key = m /\ At(r.pp, m).pp = r.pp
  <2>1. m \in Key
    BY <1>1, <1>2, KeysAre
  <2> QED BY <1>2, <2>1 DEF At, MetaEntry
<1>8. Reads(r, At(r.pp, m))
  BY <1>1, <1>7 DEF Reads
<1>9. param[r][m] = Held(r, m)
  BY <1>1 DEF Holding
<1> QED BY <1>1, <1>5, <1>6, <1>8, <1>9 DEF r, m

\* What is held of a parameter that is not an expert's depends on the place of
\* the rank in its tensor parallel group, and on the layer of the model.
LEMMA SameHeld ==
  ASSUME NEW a, NEW b, NEW k, NEW m, k[2] = m[2], k[2] \in Names, k[2] \notin ExpertNames,
         a.tp = b.tp, LayerAt(a, k[1], k[3]) = LayerAt(b, m[1], m[3])
  PROVE  Held(a, k) = Held(b, m)
<1> DEFINE l == LayerAt(a, k[1], k[3])
           n == k[2]
           t == a.tp
<1>1. LayerAt(b, m[1], m[3]) = l /\ m[2] = n /\ b.tp = t
  OBVIOUS
<1> HIDE DEF l, n, t
<1>2. CASE n \in {"word_embeddings", "output_layer", "final_layernorm", "qkv_norm"}
  BY <1>1, <1>2, HeldIs DEF l, n, t
<1>3. CASE n \in {"qkv", "qkv_bias"}
  BY <1>1, <1>3, HeldIs DEF l, n, t
<1>4. CASE n \in {"q_layernorm", "k_layernorm", "proj", "fc1_norm", "pre_mlp_layernorm"}
  BY <1>1, <1>4, HeldIs DEF l, n, t
<1>5. CASE n \in {"fc1", "fc2", "router"}
  BY <1>1, <1>5, HeldIs DEF l, n, t
<1>6. n \in Names /\ n \notin ExpertNames
  BY DEF n
<1> QED BY <1>2, <1>3, <1>4, <1>5, <1>6 DEF Names, ExpertNames

-----------------------------------------------------------------------------
(* What is stored of a dense parameter.                                   *)

\* A language model of which the merger reads the parameter name at layer l
Stored(p, k, name, l) ==
  /\ job \in Jobs /\ ~job.value /\ param = Holding
  /\ Found(p, k, name, l) /\ name \in Names

\* Every rank of a tensor parallel group has a shard.
LEMMA DenseSharer ==
  ASSUME NEW p, NEW k, NEW name, NEW l, Stored(p, k, name, l), NEW i \in 1..job.tp
  PROVE  /\ Sharer(name, l, -1, i) \in Sharers(name, l, -1)
         /\ Sharer(name, l, -1, i).r.tp = i - 1
<1>1. job \in Jobs /\ p \in 0..job.pp - 1 /\ k \in Keys(p) /\ k[2] = name
  BY DEF Stored, Found
<1>2. k[3] # -1 => Placed(job, p, k[1], k[3]) = l
  BY DEF Stored, Found, Where, At
<1> DEFINE r == [tp |-> i - 1, pp |-> p, dp |-> 0, cp |-> 0]
           s == [r |-> r, k |-> k]
<1>3. r \in Rank
  <2>1. /\ job.tp \in Nat \ {0} /\ job.cp \in Nat \ {0} /\ job.dp \in Nat \ {0}
    BY <1>1, JobIs
  <2>2. i - 1 \in 0..job.tp - 1 /\ 0 \in 0..job.dp - 1 /\ 0 \in 0..job.cp - 1
    BY <2>1
  <2> QED BY <1>1, <2>2 DEF Rank
<1>4. r.pp = p /\ r.tp = i - 1
  OBVIOUS
<1> HIDE DEF r
<1>5. s.r = r /\ s.k = k
  OBVIOUS
<1>6. s \in [r : Rank, k : UNION {Keys(q) : q \in 0..job.pp - 1}]
  BY <1>1, <1>3
<1> HIDE DEF s
<1>7. s \in Sharers(name, l, -1) /\ s.r.tp = i - 1
  BY <1>1, <1>2, <1>4, <1>5, <1>6 DEF Sharers
<1>8. Sharer(name, l, -1, i) = CHOOSE x \in Sharers(name, l, -1) : x.r.tp = i - 1
  BY DEF Sharer
<1> QED BY <1>7, <1>8

\* The shards that are read are those of a tensor parallel group.
LEMMA DenseShards ==
  ASSUME NEW p, NEW k, NEW name, NEW l, Stored(p, k, name, l), name \notin ExpertNames
  PROVE  \E r, at : /\ Reads(r, at) /\ Where(at) = l /\ at.key[2] = name
                    /\ ShardsOf(name, l, -1) = TpGathered(r, at)
                    /\ ShardsOf(name, l, -1)[1] = FromPp(r, at).rows
<1>1. job \in Jobs /\ ~job.value /\ param = Holding /\ Found(p, k, name, l) /\ name \in Names
  BY DEF Stored
<1>2. job.tp \in Nat \ {0}
  BY <1>1, JobIs
<1> DEFINE S(i) == Sharer(name, l, -1, i)
           r == S(1).r
           at == At(S(1).r.pp, S(1).k)
<1>3. \A i \in 1..job.tp : S(i) \in Sharers(name, l, -1) /\ S(i).r.tp = i - 1
  BY DenseSharer
<1> HIDE DEF S
<1>4. ASSUME NEW i \in 1..job.tp
      PROVE  /\ Reads(S(i).r, At(S(i).r.pp, S(i).k)) /\ Where(At(S(i).r.pp, S(i).k)) = l
             /\ LayerAt(S(i).r, S(i).k[1], S(i).k[3]) = l /\ S(i).k[2] = name
             /\ param[S(i).r][S(i).k] = Held(S(i).r, S(i).k)
  BY <1>1, <1>3, SharerReads
<1>5. Reads(r, at) /\ Where(at) = l
  <2>1. 1 \in 1..job.tp
    BY <1>2
  <2> QED BY <1>4, <2>1
<1>6. at.key = S(1).k /\ at.key[2] = name
  <2>1. 1 \in 1..job.tp
    BY <1>2
  <2> QED BY <1>4, <2>1 DEF At
<1> HIDE DEF r, at
<1>7. ShardsOf(name, l, -1) = [i \in 1..job.tp |-> param[S(i).r][S(i).k]]
  BY DEF ShardsOf, S
<1>8. TpGathered(r, at) = [i \in 1..job.tp |-> Held(On([r EXCEPT !.tp = i - 1], at), at.key)]
  BY <1>5, GatheredIs
<1>9. ASSUME NEW i \in 1..job.tp
      PROVE  param[S(i).r][S(i).k] = Held(On([r EXCEPT !.tp = i - 1], at), at.key)
  <2> DEFINE o == On([r EXCEPT !.tp = i - 1], at)
  <2>1. Reads([r EXCEPT !.tp = i - 1], at) /\ [r EXCEPT !.tp = i - 1].tp = i - 1
    BY <1>5, GatheredIs
  <2>2. o.tp = i - 1 /\ LayerAt(o, at.key[1], at.key[3]) = Where(at)
    BY <2>1, ReadsIs
  <2> HIDE DEF o
  <2> DEFINE a == S(i).r
             m == S(i).k
  <2>3. a.tp = i - 1 /\ LayerAt(a, m[1], m[3]) = l /\ m[2] = name
    BY <1>3, <1>4
  <2>4. param[a][m] = Held(a, m)
    BY <1>4
  <2> HIDE DEF a, m
  <2>5. Held(a, m) = Held(o, at.key)
    BY <1>1, <1>5, <1>6, <2>2, <2>3, SameHeld
  <2> QED BY <2>4, <2>5 DEF a, m, o
<1>10. ShardsOf(name, l, -1) = TpGathered(r, at)
  BY <1>7, <1>8, <1>9
<1>11. ShardsOf(name, l, -1)[1] = FromPp(r, at).rows
  <2>1. 1 \in 1..job.tp /\ S(1).r.tp = 0 /\ 1 - 1 = 0
    BY <1>2, <1>3
  <2>2. ShardsOf(name, l, -1)[1] = param[r][at.key]
    BY <1>6, <1>7, <2>1 DEF r
  <2>3. [r EXCEPT !.pp = at.pp] = r
    <3>1. at.pp = r.pp
      BY DEF at, r, At
    <3>2. r \in Rank
      BY <1>5 DEF Reads
    <3> QED BY <3>1, <3>2 DEF Rank
  <2> QED BY <2>2, <2>3 DEF FromPp
<1> QED BY <1>5, <1>6, <1>10, <1>11

\* The merger takes what it reads of a parameter apart into the tensors of the
\* checkpoint.
LEMMA DenseMerged ==
  ASSUME NEW p, NEW k, NEW key, NEW l, Stored(p, k, key[2], l), key[2] \notin ExpertNames
  PROVE  SplitTensors(key[2], Whole(key, l, -1)) = TensorsOf(key[2], l, -1)
<1> DEFINE name == key[2]
           s == ShardsOf(name, l, -1)
<1>1. PICK r, at : /\ Reads(r, at) /\ Where(at) = l /\ at.key[2] = name
                   /\ s = TpGathered(r, at) /\ s[1] = FromPp(r, at).rows
  BY DenseShards
<1>2. Whole(key, l, -1) = WholeOf(name, s)
  BY WholeIs
<1> HIDE DEF name, s
<1>3. CASE name \in Parallel
  <2>1. SplitTensors(name, WholeOf(name, TpGathered(r, at))) = TensorsOf(name, l, -1)
    <3>1. at.key[2] \in Parallel /\ at.key[2] \notin ExpertNames
      BY <1>1, <1>3 DEF name
    <3> QED BY <1>1, <3>1, MergedTensors
  <2> QED BY <1>1, <1>2, <2>1 DEF name
<1>4. CASE name \notin Parallel
  <2>1. WholeOf(name, s) = s[1]
    BY <1>4 DEF WholeOf, Parallel
  <2>2. SplitTensors(name, s[1]) = <<s[1]>>
    BY <1>4 DEF SplitTensors, Parallel
  <2>3. <<FromPp(r, at).rows>> = TensorsOf(name, l, -1)
    BY <1>1, <1>4, ReadWhole
  <2> QED BY <1>1, <1>2, <2>1, <2>2, <2>3 DEF name
<1> QED BY <1>3, <1>4

-----------------------------------------------------------------------------
(* What is stored of an expert, and who stores it.                        *)

\* A language model of which the merger reads expert e at layer l
ExpertStored(name, l, e) ==
  /\ job \in Jobs /\ ~job.value /\ param = Holding /\ job.experts > 0
  /\ name \in ExpertNames /\ l \in 0..job.layers - 1 /\ e \in 0..job.experts - 1

\* An expert is at place k[4] of the ranks of experts f.
ExpertIn(p, k, name, l, e, f) ==
  /\ Found(p, k, name, l) /\ k[3] # -1 /\ f \in 0..job.ep - 1
  /\ f * ExpertsPerRank + k[4] = e

\* An expert that is stored is held by a rank of its stage.
LEMMA ExpertFound ==
  ASSUME NEW name, NEW l, NEW e, ExpertStored(name, l, e)
  PROVE  \E p, k, f : ExpertIn(p, k, name, l, e, f)
<1>1. /\ job \in Jobs /\ job.experts > 0 /\ name \in ExpertNames
      /\ l \in 0..job.layers - 1 /\ e \in 0..job.experts - 1
  BY DEF ExpertStored
<1>2. PICK p \in 0..job.pp - 1, v \in 0..job.vpp - 1 :
        \E i \in 0..LayersIn(job, p, v) - 1 : Placed(job, p, v, i) = l
  BY <1>1, JobCovered
<1>3. PICK i \in 0..LayersIn(job, p, v) - 1 : Placed(job, p, v, i) = l
  BY <1>2
<1>4. PICK f \in 0..job.ep - 1, x \in 0..ExpertsPerRank - 1 : GlobalExpert(f, x) = e
  BY <1>1, ExpertNumbers
<1> DEFINE k == <<v, name, i, x>>
<1>5. k \in Keys(p)
  <2>1. k \in NamedKeys(job, p, v)
    BY <1>1, NamedCases
  <2> QED BY <1>1, <2>1, KeysAre
<1>6. k[1] = v /\ k[2] = name /\ k[3] = i /\ k[4] = x
  OBVIOUS
<1> HIDE DEF k
<1>7. i # -1
  <2>1. LayersIn(job, p, v) \in Nat
    BY <1>1, JobIs DEF Counted
  <2> QED BY <2>1
<1>8. Found(p, k, name, l)
  BY <1>3, <1>5, <1>6, <1>7 DEF Found, Where, At
<1>9. f * ExpertsPerRank + x = e
  <2> DEFINE w == ExpertsPerRank
  <2>1. w \in Nat /\ f \in Nat
    BY <1>1, JobIs DEF ExpertsPerRank
  <2>2. w * f + x = e
    BY <1>4 DEF GlobalExpert
  <2> HIDE DEF w
  <2>3. w * f = f * w
    BY <2>1
  <2>4. f * w + x = e
    BY <2>2, <2>3
  <2> QED BY <2>4 DEF w
<1> QED BY <1>6, <1>7, <1>8, <1>9 DEF ExpertIn

\* Every rank that shares the expert has a shard.
LEMMA ExpertSharer ==
  ASSUME NEW name, NEW l, NEW e, ExpertStored(name, l, e), NEW i \in 1..job.etp
  PROVE  /\ Sharer(name, l, e, i) \in Sharers(name, l, e)
         /\ ExpertSeat(Sharer(name, l, e, i).r).etp = i - 1
<1>1. job \in Jobs /\ job.experts > 0 /\ e # -1
  BY DEF ExpertStored
<1>2. PICK p, k, f : ExpertIn(p, k, name, l, e, f)
  BY ExpertFound
<1>3. /\ p \in 0..job.pp - 1 /\ k \in Keys(p) /\ k[2] = name /\ f \in 0..job.ep - 1
      /\ Placed(job, p, k[1], k[3]) = l /\ f * ExpertsPerRank + k[4] = e
  BY <1>2 DEF ExpertIn, Found, Where, At
<1> DEFINE q == [tp |-> 0, pp |-> p, dp |-> 0, cp |-> 0]
<1>4. q \in Rank /\ q.pp = p /\ i - 1 \in 0..job.etp - 1
  <2>1. /\ job.tp \in Nat \ {0} /\ job.cp \in Nat \ {0} /\ job.dp \in Nat \ {0}
        /\ job.etp \in Nat
    BY <1>1, JobIs DEF Launchable, JobType, Positive
  <2>2. 0 \in 0..job.tp - 1 /\ 0 \in 0..job.dp - 1 /\ 0 \in 0..job.cp - 1
    BY <2>1
  <2> QED BY <1>3, <2>1, <2>2 DEF Rank
<1> HIDE DEF q
<1>5. PICK r \in Rank : IsPeer(r, q, f, i - 1)
  BY <1>1, <1>3, <1>4, PeerIs
<1>6. r.pp = p /\ ExpertSeat(r).ep = f /\ ExpertSeat(r).etp = i - 1
  <2>1. r.pp = q.pp /\ ExpertSeat(r) = [ExpertSeat(q) EXCEPT !.ep = f, !.etp = i - 1]
    BY <1>5 DEF IsPeer
  <2> QED BY <1>4, <2>1 DEF ExpertSeat
<1> DEFINE s == [r |-> r, k |-> k]
<1>7. s.r = r /\ s.k = k
  OBVIOUS
<1>8. s \in [r : Rank, k : UNION {Keys(z) : z \in 0..job.pp - 1}]
  BY <1>3, <1>5
<1> HIDE DEF s
<1>9. s \in Sharers(name, l, e) /\ ExpertSeat(s.r).etp = i - 1
  BY <1>3, <1>6, <1>7, <1>8 DEF Sharers
<1>10. Sharer(name, l, e, i) = CHOOSE x \in Sharers(name, l, e) : ExpertSeat(x.r).etp = i - 1
  BY <1>1 DEF Sharer
<1> QED BY <1>9, <1>10

\* The shards that are read are those of the expert, in order.
LEMMA ExpertShards ==
  ASSUME NEW name, NEW l, NEW e, ExpertStored(name, l, e)
  PROVE  ShardsOf(name, l, e) = [h \in 1..job.etp |-> ExpertShard(name, l, e, h - 1)]
<1>1. job \in Jobs /\ ~job.value /\ param = Holding /\ name \in ExpertNames /\ e # -1
  BY DEF ExpertStored
<1>2. PICK p, k, f : ExpertIn(p, k, name, l, e, f)
  BY ExpertFound
<1>3. Found(p, k, name, l)
  BY <1>2 DEF ExpertIn
<1> DEFINE S(i) == Sharer(name, l, e, i)
<1>4. ShardsOf(name, l, e) = [i \in 1..job.etp |-> param[S(i).r][S(i).k]]
  BY <1>1 DEF ShardsOf
<1>5. \A i \in 1..job.etp : S(i) \in Sharers(name, l, e) /\ ExpertSeat(S(i).r).etp = i - 1
  BY ExpertSharer
<1> HIDE DEF S
<1>6. ASSUME NEW i \in 1..job.etp
      PROVE  param[S(i).r][S(i).k] = ExpertShard(name, l, e, i - 1)
  <2> DEFINE r == S(i).r
             m == S(i).k
  <2>1. /\ LayerAt(r, m[1], m[3]) = l /\ m[2] = name /\ param[r][m] = Held(r, m)
        /\ ExpertSeat(r).ep * ExpertsPerRank + m[4] = e
    BY <1>1, <1>3, <1>5, SharerReads
  <2>2. ExpertSeat(r).etp = i - 1
    BY <1>5
  <2> HIDE DEF r, m
  <2>3. Held(r, m) = ExpertShard(name, LayerAt(r, m[1], m[3]),
                                 ExpertSeat(r).ep * ExpertsPerRank + m[4], ExpertSeat(r).etp)
    BY <1>1, <2>1, HeldOfExpert
  <2> QED BY <2>1, <2>2, <2>3 DEF r, m
<1> QED BY <1>4, <1>6

\* The merger takes what it reads of an expert apart into its tensors.
LEMMA ExpertMerged ==
  ASSUME NEW key, NEW l, NEW e, ExpertStored(key[2], l, e)
  PROVE  SplitTensors(key[2], Whole(key, l, e)) = TensorsOf(key[2], l, e)
<1> DEFINE name == key[2]
           s == [h \in 1..job.etp |-> ExpertShard(name, l, e, h - 1)]
           halves == [i \in 1..Len(s) |-> Chunk(s[i], 2)]
<1>1. Launchable(job) /\ job.experts > 0 /\ name \in ExpertNames /\ l \in Int /\ e \in Int
  BY JobIs DEF ExpertStored
<1>2. Whole(key, l, e) = WholeOf(name, s)
  BY ExpertShards, WholeIs
<1>3. TpConcat(name, s) = TensorsOf(name, l, e)
  BY <1>1, ExpertJoined
<1>4. Whole(key, l, e) = IF name = "expert_fc1" THEN Joined(halves, 1) \o Joined(halves, 2)
                         ELSE Flat(s)
  BY <1>1, <1>2 DEF WholeOf, ExpertNames, Parallel
<1>5. TpConcat(name, s) = IF name = "expert_fc1" THEN <<Joined(halves, 1), Joined(halves, 2)>>
                          ELSE <<Flat(s)>>
  BY <1>1 DEF TpConcat, ExpertNames
<1> HIDE DEF name, s, halves
<1>6. CASE name = "expert_fc1"
  <2> DEFINE g == Tensor("gate", l, e)
             u == Tensor("up", l, e)
  <2>1. TensorsOf(name, l, e) = <<g, u>>
    <3>1. HfParts(name) = <<"gate", "up">>
      BY <1>6 DEF HfParts
    <3> QED BY <3>1 DEF TensorsOf
  <2>2. Chunk(g \o u, 2) = <<g, u>>
    BY <1>1, GateUpAlike
  <2> HIDE DEF g, u
  <2>3. Joined(halves, 1) = g /\ Joined(halves, 2) = u
    <3> DEFINE a == Joined(halves, 1)
               b == Joined(halves, 2)
    <3>1. TpConcat(name, s) = <<a, b>>
      BY <1>5, <1>6
    <3>2. TpConcat(name, s) = <<g, u>>
      BY <1>3, <2>1
    <3> HIDE DEF a, b
    <3>3. a = g /\ b = u
      BY ONLY <3>1, <3>2
    <3> QED BY <3>3 DEF a, b
  <2>4. Whole(key, l, e) = g \o u
    BY <1>4, <1>6, <2>3
  <2>5. SplitTensors(name, g \o u) = Chunk(g \o u, 2)
    BY <1>6 DEF SplitTensors
  <2> QED BY <2>1, <2>2, <2>4, <2>5 DEF name
<1>7. CASE name # "expert_fc1"
  <2>1. SplitTensors(name, Whole(key, l, e)) = <<Whole(key, l, e)>>
    BY <1>1, <1>7 DEF SplitTensors, ExpertNames
  <2> QED BY <1>3, <1>4, <1>5, <1>7, <2>1 DEF name
<1> QED BY <1>6, <1>7

-----------------------------------------------------------------------------
(* What the merger meets: the parameters of its ranks.                    *)

\* A rank of the merger, of a job whose layers it can share out
MergesAt(w) == job \in Jobs /\ Mergeable(job) /\ w \in 0..job.merger - 1

\* What the merger has on rank w, less a head that is tied, the layers of the
\* model these are, and what is saved of one
MergeKeys(w) ==
  {k \in ToSet(Named(MergeLayout, w, 0)) : ~(job.tied /\ k[2] = "output_layer")}
MergeLayer(w, k) == IF k[3] = -1 THEN -1 ELSE Placed(MergeLayout, w, 0, k[3])
MergeNumber(w, k) == IF k[3] = -1 THEN -1 ELSE k[3] + LayersBefore(w)
MergeTensors(w, k) == SplitTensors(k[2], Whole(k, MergeLayer(w, k), k[4]))
MergePairs(w, k) ==
  {<<<<HfParts(k[2])[n], MergeNumber(w, k), k[4]>>, MergeTensors(w, k)[n]>> :
     n \in 1..Len(HfParts(k[2]))}
MergeSlots(w) == 0..LayersIn(MergeLayout, w, 0) - 1

\* What is known of a rank of the merger and of its slots for layers
LEMMA MergeFacts ==
  ASSUME NEW w, MergesAt(w)
  PROVE  /\ Merging(MergeLayout) /\ Counted(MergeLayout) /\ w \in Nat
         /\ LayersIn(MergeLayout, w, 0) \in Nat /\ job.merger \in Nat \ {0}
         /\ \A i \in MergeSlots(w) : /\ i \in Nat
                                     /\ Placed(MergeLayout, w, 0, i) \in 0..job.layers - 1
<1> DEFINE M == MergeLayout
<1>1. job \in Jobs /\ Mergeable(job) /\ w \in 0..job.merger - 1
  BY DEF MergesAt
<1>2. job.merger \in Nat \ {0} /\ job.layers \in Nat
  BY <1>1, JobIs DEF Launchable, JobType, Positive
<1>3. Counted(M) /\ Start(M, 0, 1) = job.layers
  BY <1>1, MergeTotal
<1>4. Merging(M)
  BY <1>1, MergeLayoutIs
<1>5. M.pp = job.merger /\ M.vpp = 1 /\ M.layers = job.layers
  BY <1>4 DEF Merging
<1> HIDE DEF M
<1>6. w \in 0..M.pp - 1 /\ 0 \in 0..M.vpp - 1
  BY <1>1, <1>5
<1>7. LayersIn(M, w, 0) \in Nat
  BY <1>3, <1>6 DEF Counted
<1>8. \A i \in 0..LayersIn(M, w, 0) - 1 : Placed(M, w, 0, i) \in 0..M.layers - 1
  <2>1. Start(M, 0, M.vpp) = M.layers /\ M.layers \in Nat
    BY <1>2, <1>3, <1>5
  <2> QED BY <1>3, <1>6, <2>1, LayersCovered
<1> QED BY <1>1, <1>2, <1>3, <1>4, <1>5, <1>7, <1>8 DEF M, MergeSlots

\* What the merger finds in the state dict of a rank, one by one
LEMMA MergeCases ==
  ASSUME NEW w, MergesAt(w), NEW k
  PROVE  k \in MergeKeys(w) <=>
           \/ w = 0 /\ k = <<0, "word_embeddings", -1, -1>>
           \/ \E n \in LayerNames(job), i \in MergeSlots(w) : k = <<0, n, i, -1>>
           \/ \E n \in ExpertNames, i \in MergeSlots(w), e \in 0..job.experts - 1 :
                k = <<0, n, i, e>>
           \/ w = job.merger - 1 /\ k = <<0, "final_layernorm", -1, -1>>
           \/ w = job.merger - 1 /\ ~job.tied /\ k = <<0, "output_layer", -1, -1>>
<1> DEFINE M == MergeLayout
           L == 0..LayersIn(M, w, 0) - 1
           A == w = 0 /\ k = <<0, "word_embeddings", -1, -1>>
           B == \E n \in LayerNames(job), i \in L : k = <<0, n, i, -1>>
           C == \E n \in ExpertNames, i \in L, e \in 0..job.experts - 1 : k = <<0, n, i, e>>
           D == w = job.merger - 1 /\ k = <<0, "final_layernorm", -1, -1>>
           E == w = job.merger - 1 /\ k = <<0, "output_layer", -1, -1>>
           U == ~(job.tied /\ job.merger = 1)
<1>1. /\ Merging(M) /\ LayersIn(M, w, 0) \in Nat /\ job.experts \in Nat
      /\ job.bias \in BOOLEAN /\ job.qknorm \in BOOLEAN
  <2>1. job \in Jobs
    BY DEF MergesAt
  <2> QED BY <2>1, MergeFacts, JobIs
<1> HIDE DEF M
<1>2. M.experts \div M.ep = job.experts
  BY <1>1 DEF Merging
<1>3. ToSet(Named(M, w, 0)) = NamedKeys(M, w, 0)
  <2>1. M.experts \div M.ep \in Nat /\ M.bias \in BOOLEAN /\ M.qknorm \in BOOLEAN
    BY <1>1, <1>2 DEF Merging
  <2>2. 0 \in Nat
    OBVIOUS
  <2>3. Lists(Key, Named(M, w, 0), NamedKeys(M, w, 0))
    BY <1>1, <2>1, <2>2, NamedIs
  <2> QED BY <2>3 DEF Lists
<1>4. LayerNames(M) = LayerNames(job)
  BY <1>1 DEF LayerNames, Merging
<1>5. k \in NamedKeys(M, w, 0) <=> A \/ B \/ C \/ D \/ (E /\ U)
  <2> DEFINE a == IF w = 0 /\ 0 = 0 THEN {<<0, "word_embeddings", -1, -1>>} ELSE {}
             b == {<<0, n, i, -1>> : n \in LayerNames(M), i \in 0..LayersIn(M, w, 0) - 1}
             c == {<<0, n, i, e>> : n \in {"expert_fc1", "expert_fc2"},
                     i \in 0..LayersIn(M, w, 0) - 1, e \in 0..(M.experts \div M.ep) - 1}
             d == IF w = M.pp - 1 /\ 0 = M.vpp - 1 THEN {<<0, "final_layernorm", -1, -1>>} ELSE {}
             f == IF (w = M.pp - 1 /\ 0 = M.vpp - 1) /\ ~(M.tied /\ M.pp = 1)
                    THEN {<<0, "output_layer", -1, -1>>} ELSE {}
  <2>1. NamedKeys(M, w, 0) = ((a \cup (b \cup c)) \cup d) \cup f
    BY DEF NamedKeys
  <2>2. M.pp = job.merger /\ M.tied = job.tied /\ M.vpp = 1 /\ 0 = 1 - 1
    BY <1>1 DEF Merging
  <2>3. k \in a <=> A
    OBVIOUS
  <2>4. k \in b <=> B
    BY <1>4
  <2>5. k \in c <=> C
    BY <1>2 DEF ExpertNames
  <2>6. k \in d <=> D
    BY <2>2
  <2>7. k \in f <=> E /\ U
    BY <2>2
  <2> HIDE DEF a, b, c, d, f, A, B, C, D, E, U
  <2> QED BY <2>1, <2>3, <2>4, <2>5, <2>6, <2>7
<1>6. MergeKeys(w) = {x \in ToSet(Named(M, w, 0)) : ~(job.tied /\ x[2] = "output_layer")}
  BY DEF MergeKeys, M
<1>7. A => k[2] # "output_layer"
  OBVIOUS
<1>8. B => k[2] # "output_layer"
  BY DEF LayerNames
<1>9. C => k[2] # "output_layer"
  BY DEF ExpertNames
<1>10. D => k[2] # "output_layer"
  OBVIOUS
<1>11. E => k[2] = "output_layer"
  OBVIOUS
<1>12. MergeSlots(w) = L
  BY DEF MergeSlots, M
<1>13. k \in MergeKeys(w) <=> A \/ B \/ C \/ D \/ (E /\ ~job.tied)
  <2> HIDE DEF A, B, C, D, E
  <2> QED BY <1>3, <1>5, <1>6, <1>7, <1>8, <1>9, <1>10, <1>11 DEF U
<1> QED BY <1>12, <1>13

-----------------------------------------------------------------------------
(* Each parameter of a shard is merged into the tensors of one key.       *)

\* The loaded language model, of which rank w of the merger saves its part
Merges(w) == MergesAt(w) /\ ~job.value /\ param = Holding

\* What a key of the merger stands for
LEMMA MergeKeyIs ==
  ASSUME NEW w, MergesAt(w), NEW k \in MergeKeys(w)
  PROVE  \/ /\ k[2] \in EndNames /\ k[3] = -1 /\ k[4] = -1
            /\ k[2] = "output_layer" => ~job.tied
         \/ k[2] \in LayerNames(job) /\ k[3] \in MergeSlots(w) /\ k[4] = -1
         \/ k[2] \in ExpertNames /\ k[3] \in MergeSlots(w) /\ k[4] \in 0..job.experts - 1
<1>1. CASE k = <<0, "word_embeddings", -1, -1>> \/ k = <<0, "final_layernorm", -1, -1>>
  BY <1>1 DEF EndNames
<1>2. CASE \E n \in LayerNames(job), i \in MergeSlots(w) : k = <<0, n, i, -1>>
  BY <1>2
<1>3. CASE \E n \in ExpertNames, i \in MergeSlots(w), e \in 0..job.experts - 1 :
             k = <<0, n, i, e>>
  BY <1>3
<1>4. CASE ~job.tied /\ k = <<0, "output_layer", -1, -1>>
  BY <1>4 DEF EndNames
<1> QED BY <1>1, <1>2, <1>3, <1>4, MergeCases

\* The parameters that are not of a layer are at the ends of the job.
LEMMA EndFound ==
  ASSUME job \in Jobs, NEW name \in EndNames, name = "output_layer" => ~job.tied
  PROVE  \E p, k : Found(p, k, name, -1)
<1> DEFINE p == IF name = "word_embeddings" THEN 0 ELSE job.pp - 1
           v == IF name = "word_embeddings" THEN 0 ELSE job.vpp - 1
           k == <<v, name, -1, -1>>
<1>1. p \in 0..job.pp - 1 /\ v \in 0..job.vpp - 1
  BY JobIs
<1>2. k \in NamedKeys(job, p, v)
  <2>1. CASE name = "word_embeddings"
    <3>1. p = 0 /\ v = 0 /\ k = <<v, "word_embeddings", -1, -1>>
      BY <2>1
    <3> HIDE DEF p, v, k
    <3> QED BY <3>1, NamedCases
  <2>2. CASE name = "final_layernorm"
    <3>1. IsLast(p, v) /\ k = <<v, "final_layernorm", -1, -1>>
      BY <2>2 DEF IsLast
    <3> HIDE DEF p, v, k
    <3> QED BY <3>1, NamedCases
  <2>3. CASE name = "output_layer"
    <3>1. IsLast(p, v) /\ k = <<v, "output_layer", -1, -1>> /\ ~(job.tied /\ job.pp = 1)
      BY <2>3 DEF IsLast
    <3> HIDE DEF p, v, k
    <3> QED BY <3>1, NamedCases
  <2> QED BY <2>1, <2>2, <2>3 DEF EndNames
<1>3. k[2] = name /\ k[3] = -1
  OBVIOUS
<1> HIDE DEF p, v, k
<1>4. k \in Keys(p)
  BY <1>1, <1>2, KeysAre
<1> QED BY <1>1, <1>3, <1>4 DEF Found, Where, At

\* Those of a layer are where the job has the layer.
LEMMA LayerFound ==
  ASSUME job \in Jobs, NEW name \in LayerNames(job), NEW l \in 0..job.layers - 1
  PROVE  \E p, k : Found(p, k, name, l)
<1>1. PICK p \in 0..job.pp - 1, v \in 0..job.vpp - 1 :
        \E i \in 0..LayersIn(job, p, v) - 1 : Placed(job, p, v, i) = l
  BY JobCovered
<1>2. PICK i \in 0..LayersIn(job, p, v) - 1 : Placed(job, p, v, i) = l
  BY <1>1
<1> DEFINE k == <<v, name, i, -1>>
<1>3. k \in Keys(p)
  <2>1. k \in NamedKeys(job, p, v)
    BY NamedCases
  <2> QED BY <2>1, KeysAre
<1>4. k[1] = v /\ k[2] = name /\ k[3] = i
  OBVIOUS
<1> HIDE DEF k
<1>5. i # -1
  <2>1. LayersIn(job, p, v) \in Nat
    BY JobIs DEF Counted
  <2> QED BY <2>1
<1>6. Found(p, k, name, l)
  BY <1>2, <1>3, <1>4, <1>5 DEF Found, Where, At
<1> QED BY <1>6

\* What is saved under a key of the merger is the tensors of the checkpoint.
LEMMA MergeTensorsIs ==
  ASSUME NEW w, Merges(w), NEW k \in MergeKeys(w)
  PROVE  /\ MergeTensors(w, k) = TensorsOf(k[2], MergeLayer(w, k), k[4])
         /\ k[2] \in Names /\ MergeLayer(w, k) \in Int /\ k[4] \in Int
<1> DEFINE name == k[2]
           l == MergeLayer(w, k)
           e == k[4]
<1>1. job \in Jobs /\ ~job.value /\ param = Holding /\ MergesAt(w)
  BY DEF Merges, MergesAt
<1>2. ASSUME NEW p, NEW q, Found(p, q, name, l), name \in Names \ ExpertNames, e = -1, l \in Int
      PROVE  MergeTensors(w, k) = TensorsOf(name, l, e) /\ name \in Names /\ l \in Int /\ e \in Int
  <2>1. Stored(p, q, name, l)
    BY <1>1, <1>2 DEF Stored
  <2>2. SplitTensors(k[2], Whole(k, l, -1)) = TensorsOf(k[2], l, -1)
    <3> HIDE DEF l
    <3> QED BY <1>2, <2>1, DenseMerged
  <2>3. -1 \in Int
    OBVIOUS
  <2> QED BY <1>2, <2>2, <2>3 DEF MergeTensors
<1>3. CASE name \in EndNames /\ k[3] = -1 /\ e = -1 /\ (name = "output_layer" => ~job.tied)
  <2>1. l = -1
    BY <1>3 DEF MergeLayer
  <2>2. PICK p, q : Found(p, q, name, -1)
    BY <1>1, <1>3, EndFound
  <2>3. name \in Names \ ExpertNames
    BY <1>3 DEF EndNames, Names, ExpertNames
  <2> HIDE DEF l, name, e
  <2>4. Found(p, q, name, l) /\ l \in Int /\ e = -1
    BY <1>3, <2>1, <2>2
  <2> QED BY <1>2, <2>3, <2>4 DEF name, l, e
<1>4. k[3] \in MergeSlots(w) => l \in 0..job.layers - 1 /\ l \in Int
  <2> SUFFICES ASSUME k[3] \in MergeSlots(w) PROVE l \in 0..job.layers - 1 /\ l \in Int
    OBVIOUS
  <2>1. k[3] \in Nat /\ Placed(MergeLayout, w, 0, k[3]) \in 0..job.layers - 1
    BY <1>1, MergeFacts
  <2>2. l = Placed(MergeLayout, w, 0, k[3])
    BY <2>1 DEF MergeLayer
  <2> HIDE DEF l
  <2> QED BY <2>1, <2>2
<1>5. CASE name \in LayerNames(job) /\ k[3] \in MergeSlots(w) /\ e = -1
  <2>1. name \in Names \ ExpertNames
    BY <1>5 DEF LayerNames, Names, ExpertNames
  <2>2. l \in 0..job.layers - 1 /\ l \in Int
    BY <1>4, <1>5
  <2> HIDE DEF l
  <2>3. PICK p, q : Found(p, q, name, l)
    BY <1>1, <1>5, <2>2, LayerFound
  <2> HIDE DEF name, e
  <2> QED BY <1>2, <1>5, <2>1, <2>2, <2>3 DEF name, l, e
<1>6. CASE name \in ExpertNames /\ k[3] \in MergeSlots(w) /\ e \in 0..job.experts - 1
  <2>1. l \in 0..job.layers - 1 /\ l \in Int
    BY <1>4, <1>6
  <2>2. name \in Names /\ e \in Int
    BY <1>6 DEF ExpertNames, Names
  <2>3. job.experts > 0
    <3>1. job.experts \in Nat
      BY <1>1, JobIs
    <3> HIDE DEF e
    <3> QED BY <1>6, <3>1
  <2> HIDE DEF l
  <2>4. ExpertStored(k[2], l, e)
    BY <1>1, <1>6, <2>1, <2>3 DEF ExpertStored
  <2>5. SplitTensors(k[2], Whole(k, l, e)) = TensorsOf(k[2], l, e)
    BY <2>4, ExpertMerged
  <2> QED BY <2>1, <2>2, <2>5 DEF MergeTensors, l
<1> QED BY <1>1, <1>3, <1>5, <1>6, MergeKeyIs

\* The sum of the shards before a rank numbers its layers as they run.
LEMMA MergeNumberIs ==
  ASSUME NEW w, MergesAt(w), NEW k \in MergeKeys(w)
  PROVE  MergeNumber(w, k) = MergeLayer(w, k)
<1>1. job \in Jobs /\ Mergeable(job) /\ w \in 0..job.merger - 1
  BY DEF MergesAt
<1>2. CASE k[3] = -1
  BY <1>2 DEF MergeNumber, MergeLayer
<1>3. CASE k[3] # -1
  <2> DEFINE M == MergeLayout
  <2>1. k[3] \in MergeSlots(w)
    BY <1>3, MergeKeyIs
  <2>2. k[3] \in Int /\ Counted(M)
    BY <2>1, MergeFacts
  <2> HIDE DEF M
  <2>3. Start(M, w, 0) \in Int /\ Placed(M, w, 0, k[3]) = Start(M, w, 0) + k[3]
    BY <2>2, PlacedIs
  <2>4. LayersBefore(w) = Start(M, w, 0)
    BY <1>1, LayersBeforeIs DEF M
  <2>5. k[3] + LayersBefore(w) = Placed(M, w, 0, k[3])
    BY <2>2, <2>3, <2>4
  <2> QED BY <1>3, <2>5 DEF MergeNumber, MergeLayer, M
<1> QED BY <1>2, <1>3

-----------------------------------------------------------------------------
(* The merged state dict.                                                 *)

\* The entries that a parameter of the merger becomes, and all of rank w
MergedOf(w, k) == PartsAt(k[2], MergeLayer(w, k), k[4])
MergedAt(w) == UNION {MergedOf(w, k) : k \in MergeKeys(w)}

\* A parameter is merged into the entries it becomes.
LEMMA MergePairsIs ==
  ASSUME NEW w, Merges(w), NEW k \in MergeKeys(w)
  PROVE  MergePairs(w, k) = Pairs(MergedOf(w, k))
<1> DEFINE parts == HfParts(k[2])
           l == MergeLayer(w, k)
           e == k[4]
           N == 1..Len(parts)
<1>1. /\ MergeTensors(w, k) = TensorsOf(k[2], l, e) /\ k[2] \in Names /\ l \in Int /\ e \in Int
      /\ MergeNumber(w, k) = l /\ ~job.value
  BY MergeTensorsIs, MergeNumberIs DEF Merges
<1>2. parts \in Seq(PartNames) /\ Len(parts) \in {1, 2, 3}
  BY <1>1, HfPartsIs
<1>3. ASSUME NEW n \in N PROVE MergeTensors(w, k)[n] = Truth[<<parts[n], l, e>>]
  <2>1. parts[n] \in PartNames
    BY <1>2
  <2>2. MergeTensors(w, k)[n] = Tensor(parts[n], l, e)
    BY <1>1 DEF TensorsOf
  <2> HIDE DEF parts, l, e
  <2>3. <<parts[n], l, e>> \in Entry
    BY <1>1, <2>1 DEF Entry
  <2>4. Truth[<<parts[n], l, e>>] = Tensor(parts[n], l, e)
    BY <1>1, <2>3 DEF Truth
  <2> QED BY <2>2, <2>4
<1>4. MergePairs(w, k) = {<<<<parts[n], l, e>>, MergeTensors(w, k)[n]>> : n \in N}
  BY <1>1 DEF MergePairs
<1> DEFINE E == {<<parts[n], l, e>> : n \in N}
<1>5. MergedOf(w, k) = E
  BY DEF MergedOf, PartsAt
<1> HIDE DEF parts, N, l, e
<1>6. MergePairs(w, k) = {<<<<parts[n], l, e>>, Truth[<<parts[n], l, e>>]>> : n \in N}
  BY <1>3, <1>4
<1>7. Pairs(E) = {<<<<parts[n], l, e>>, Truth[<<parts[n], l, e>>]>> : n \in N}
  BY DEF Pairs
<1> QED BY <1>5, <1>6, <1>7

\* A rank is merged into the entries of all its parameters.
LEMMA MergedPairs ==
  ASSUME NEW w, Merges(w)
  PROVE  UNION {MergePairs(w, k) : k \in MergeKeys(w)} = Pairs(MergedAt(w))
<1> DEFINE K == MergeKeys(w)
<1>1. \A k \in K : MergePairs(w, k) = Pairs(MergedOf(w, k))
  BY MergePairsIs
<1> HIDE DEF K
<1>2. UNION {MergePairs(w, k) : k \in K} = UNION {Pairs(MergedOf(w, k)) : k \in K}
  BY <1>1
<1>3. UNION {Pairs(MergedOf(w, k)) : k \in K} = Pairs(UNION {MergedOf(w, k) : k \in K})
  BY DEF Pairs
<1> QED BY <1>2, <1>3 DEF K, MergedAt

\* The entries of the first n ranks
MergedUpto(n) == UNION {MergedAt(w) : w \in 0..n - 1}

\* Nothing is merged at the start, and one rank more by each step.
LEMMA MergedNext ==
  /\ MergedUpto(0) = {}
  /\ \A n \in Nat : MergedUpto(n + 1) = MergedUpto(n) \cup MergedAt(n)
<1>1. MergedUpto(0) = {}
  <2>1. 0..0 - 1 = {}
    OBVIOUS
  <2> QED BY <2>1 DEF MergedUpto
<1>2. ASSUME NEW n \in Nat
      PROVE  MergedUpto(n + 1) = MergedUpto(n) \cup MergedAt(n)
  <2>1. 0..(n + 1) - 1 = (0..n - 1) \cup {n}
    OBVIOUS
  <2> QED BY <2>1 DEF MergedUpto
<1> QED BY <1>1, <1>2

\* Whatever the merger saves is of the checkpoint.
LEMMA MergedIsEntry ==
  ASSUME NEW w, MergesAt(w) PROVE MergedAt(w) \subseteq Entries
<1> SUFFICES ASSUME NEW k \in MergeKeys(w) PROVE MergedOf(w, k) \subseteq Entries
  BY DEF MergedAt
<1>1. MergedOf(w, k) = {<<q, MergeLayer(w, k), k[4]>> : q \in PartSet(k[2])}
  BY PartsAre DEF MergedOf
<1>2. k[3] \in MergeSlots(w) => MergeLayer(w, k) \in 0..job.layers - 1
  <2> SUFFICES ASSUME k[3] \in MergeSlots(w) PROVE MergeLayer(w, k) \in 0..job.layers - 1
    OBVIOUS
  <2>1. k[3] \in Nat /\ Placed(MergeLayout, w, 0, k[3]) \in 0..job.layers - 1
    BY MergeFacts
  <2>2. k[3] # -1
    BY <2>1
  <2> QED BY <2>1, <2>2 DEF MergeLayer
<1>3. CASE k[2] \in EndNames /\ k[3] = -1 /\ k[4] = -1
  <2>1. MergedOf(w, k) = {<<q, -1, -1>> : q \in PartSet(k[2])}
    BY <1>1, <1>3 DEF MergeLayer
  <2>2. \A q \in PartSet(k[2]) : q \in {"embed", "norm", "lm_head"}
    BY <1>3, PartSets DEF EndNames
  <2>3. \A q \in {"embed", "norm", "lm_head"} : <<q, -1, -1>> \in Entries
    BY EntriesAre DEF HeadEntry
  <2> QED BY <2>1, <2>2, <2>3
<1>4. CASE k[2] \in LayerNames(job) /\ k[3] \in MergeSlots(w) /\ k[4] = -1
  <2> DEFINE l == MergeLayer(w, k)
  <2>1. MergedOf(w, k) = {<<q, l, -1>> : q \in PartSet(k[2])} /\ l \in 0..job.layers - 1
    BY <1>1, <1>2, <1>4
  <2> HIDE DEF l
  <2>2. PartSet(k[2]) \subseteq LayerParts
    BY <1>4, LayerPartsAre
  <2>3. MergedOf(w, k) \subseteq LayerEntries(l)
    BY <2>1, <2>2 DEF LayerEntries
  <2> QED BY <2>1, <2>3, EntriesAre
<1>5. CASE k[2] \in ExpertNames /\ k[3] \in MergeSlots(w) /\ k[4] \in 0..job.experts - 1
  <2> DEFINE l == MergeLayer(w, k)
             e == k[4]
  <2>1. MergedOf(w, k) = {<<q, l, e>> : q \in PartSet(k[2])} /\ l \in 0..job.layers - 1
        /\ e \in 0..job.experts - 1
    BY <1>1, <1>2, <1>5
  <2> HIDE DEF l, e
  <2>2. PartSet(k[2]) \subseteq {"gate", "up", "down"}
    BY <1>5, PartSets DEF ExpertNames
  <2>3. MergedOf(w, k) \subseteq LayerEntries(l)
    BY <2>1, <2>2 DEF LayerEntries
  <2> QED BY <2>1, <2>3, EntriesAre
<1> QED BY <1>3, <1>4, <1>5, MergeKeyIs

\* The ranks together save every entry, but a head that is tied.
LEMMA EntryIsMerged ==
  ASSUME job \in Jobs, Mergeable(job), NEW U,
         \A w \in 0..job.merger - 1 : MergedAt(w) \subseteq U
  PROVE  Entries \ {HeadEntry} \subseteq U /\ (~job.tied => HeadEntry \in U)
<1>0. job.merger \in Nat \ {0} /\ 0 \in 0..job.merger - 1
      /\ job.merger - 1 \in 0..job.merger - 1
  BY JobIs DEF Launchable, JobType, Positive
<1>1. ASSUME NEW w \in 0..job.merger - 1, NEW k \in MergeKeys(w)
      PROVE  \A q \in PartSet(k[2]) : <<q, MergeLayer(w, k), k[4]>> \in U
  <2>1. MergedOf(w, k) = {<<q, MergeLayer(w, k), k[4]>> : q \in PartSet(k[2])}
    BY PartsAre DEF MergedOf
  <2>2. MergedOf(w, k) \subseteq MergedAt(w)
    BY DEF MergedAt
  <2> QED BY <2>1, <2>2
<1>2. ASSUME NEW w \in 0..job.merger - 1, NEW n, <<0, n, -1, -1>> \in MergeKeys(w)
      PROVE  \A q \in PartSet(n) : <<q, -1, -1>> \in U
  <2> DEFINE k == <<0, n, -1, -1>>
  <2>1. MergeLayer(w, k) = -1
    BY DEF MergeLayer
  <2>2. k[2] = n /\ k[4] = -1
    OBVIOUS
  <2>3. k \in MergeKeys(w)
    BY <1>2
  <2> HIDE DEF k
  <2> QED BY <1>1, <2>1, <2>2, <2>3
<1>3. \A w \in 0..job.merger - 1 : MergesAt(w)
  BY DEF MergesAt
<1>4. <<"embed", -1, -1>> \in U
  <2>1. <<0, "word_embeddings", -1, -1>> \in MergeKeys(0)
    BY <1>0, <1>3, MergeCases
  <2>2. "embed" \in PartSet("word_embeddings")
    BY PartSets
  <2> QED BY <1>0, <1>2, <2>1, <2>2
<1>5. <<"norm", -1, -1>> \in U
  <2> DEFINE w == job.merger - 1
  <2>1. <<0, "final_layernorm", -1, -1>> \in MergeKeys(w)
    BY <1>0, <1>3, MergeCases
  <2>2. "norm" \in PartSet("final_layernorm")
    BY PartSets
  <2> QED BY <1>0, <1>2, <2>1, <2>2
<1>6. ~job.tied => HeadEntry \in U
  <2> SUFFICES ASSUME ~job.tied PROVE HeadEntry \in U
    OBVIOUS
  <2> DEFINE w == job.merger - 1
  <2>1. <<0, "output_layer", -1, -1>> \in MergeKeys(w)
    BY <1>0, <1>3, MergeCases
  <2>2. "lm_head" \in PartSet("output_layer")
    BY PartSets
  <2> QED BY <1>0, <1>2, <2>1, <2>2 DEF HeadEntry
<1>7. ASSUME NEW l \in 0..job.layers - 1 PROVE LayerEntries(l) \subseteq U
  <2> DEFINE M == MergeLayout
  <2>1. /\ Counted(M) /\ Start(M, 0, 1) = job.layers /\ M.pp = job.merger /\ M.vpp = 1
        /\ M.layers = job.layers /\ job.layers \in Nat
    BY MergeTotal, MergeLayoutIs, JobIs DEF Merging
  <2> HIDE DEF M
  <2>2. PICK w \in 0..job.merger - 1 : \E i \in 0..LayersIn(M, w, 0) - 1 : Placed(M, w, 0, i) = l
    <3>1. Start(M, 0, M.vpp) = M.layers /\ M.layers \in Nat /\ l \in 0..M.layers - 1
      BY <2>1
    <3>2. PICK p \in 0..M.pp - 1, v \in 0..M.vpp - 1 :
            \E i \in 0..LayersIn(M, p, v) - 1 : Placed(M, p, v, i) = l
      BY <2>1, <3>1, LayersCovered
    <3>3. p \in 0..job.merger - 1 /\ v = 0
      BY <2>1
    <3> QED BY <3>2, <3>3
  <2>3. PICK i \in 0..LayersIn(M, w, 0) - 1 : Placed(M, w, 0, i) = l
    BY <2>2
  <2>4. MergesAt(w) /\ i \in MergeSlots(w)
    BY <1>3 DEF MergeSlots, M
  <2>5. i \in Nat
    BY <2>4, MergeFacts
  <2>6. i # -1
    BY <2>5
  <2>7. \A k : k[3] = i => MergeLayer(w, k) = l
    BY <2>3, <2>6 DEF MergeLayer, M
  <2>8. ASSUME NEW q \in LayerParts PROVE <<q, l, -1>> \in U
    <3>1. PICK n \in LayerNames(job) : q \in PartSet(n)
      BY LayerPartsAre
    <3> DEFINE k == <<0, n, i, -1>>
    <3>2. k \in MergeKeys(w)
      BY <2>4, MergeCases
    <3>3. k[2] = n /\ k[3] = i /\ k[4] = -1
      OBVIOUS
    <3> HIDE DEF k
    <3> QED BY <1>1, <2>7, <3>1, <3>2, <3>3
  <2>9. ASSUME NEW q \in {"gate", "up", "down"}, NEW e \in 0..job.experts - 1
        PROVE  <<q, l, e>> \in U
    <3>1. PICK n \in ExpertNames : q \in PartSet(n)
      BY PartSets DEF ExpertNames
    <3> DEFINE k == <<0, n, i, e>>
    <3>2. k \in MergeKeys(w)
      BY <2>4, MergeCases
    <3>3. k[2] = n /\ k[3] = i /\ k[4] = e
      OBVIOUS
    <3> HIDE DEF k
    <3> QED BY <1>1, <2>7, <3>1, <3>2, <3>3
  <2> QED BY <2>8, <2>9 DEF LayerEntries
<1> QED BY <1>4, <1>5, <1>6, <1>7, EntriesAre

\* The merger leaves out nothing but a head that is tied.
LEMMA MergedIs ==
  ASSUME job \in Jobs, Mergeable(job)
  PROVE  /\ MergedUpto(job.merger) \cup {HeadEntry} = Entries
         /\ ~job.tied => HeadEntry \in MergedUpto(job.merger)
<1> DEFINE U == MergedUpto(job.merger)
<1>1. \A w \in 0..job.merger - 1 : MergedAt(w) \subseteq U /\ MergesAt(w)
  BY DEF MergedUpto, MergesAt
<1>2. U \subseteq Entries
  BY <1>1, MergedIsEntry DEF MergedUpto
<1> HIDE DEF U
<1>3. Entries \ {HeadEntry} \subseteq U /\ (~job.tied => HeadEntry \in U)
  BY <1>1, EntryIsMerged
<1>4. HeadEntry \in Entries
  BY EntriesAre
<1> QED BY <1>2, <1>3, <1>4 DEF U

-----------------------------------------------------------------------------
(* The invariant: the exporters have written a part of the whole.         *)

\* Both state dicts, and how far the saver and the merger have come
Dicts(s, m) == [saver |-> s, merger |-> m]
SavedFirst(n) ==
  /\ n <= Len(SaveProgram)
  /\ exported = Dicts(Recalled(SavedUpto(n)), Recalled({}))
MergedFirst(n) ==
  /\ n < job.merger
  /\ exported = Dicts(Recalled(IF Saveable THEN SavedAll ELSE {}), Recalled(MergedUpto(n)))

ExportInv ==
  /\ LoadInv
  /\ phase \in {"load", "sync"} => exported = Dicts(Recalled({}), Recalled({}))
  /\ phase = "sync" => ~job.value
  /\ phase = "save" =>
       /\ job.value \/ Saveable
       /\ Saveable => \A n \in Nat : n + 1 = step => SavedFirst(n)
  /\ phase = "merge" => ~job.value /\ \A n \in Nat : n + 1 = step => MergedFirst(n)
  /\ phase \in {"refused", "done"} /\ Saveable => exported.saver = Recalled(SavedAll)
  /\ phase = "done" /\ ~job.value =>
       Mergeable(job) /\ exported.merger = Recalled(MergedUpto(job.merger))

\* What a job is to export depends on nothing else.
LEMMA SameExport ==
  ASSUME job' = job
  PROVE  /\ \A n : SavedUpto(n)' = SavedUpto(n)
         /\ \A n : MergedUpto(n)' = MergedUpto(n)
         /\ SavedAll' = SavedAll /\ Truth' = Truth /\ SaveProgram' = SaveProgram
         /\ Saveable' = Saveable /\ Mergeable(job)' = Mergeable(job)
<1>1. SaveProgram' = SaveProgram
  BY DEF SaveProgram, Items
<1>2. ASSUME NEW n PROVE SavedUpto(n)' = SavedUpto(n)
  BY <1>1 DEF SavedUpto, SavedAt, PartsAt
<1>3. SavedAll' = SavedAll
  BY <1>1 DEF SavedAll, SavedUpto, SavedAt, PartsAt
<1>4. Truth' = Truth
  BY DEF Truth, Tensor, Size, Entry
<1>5. Saveable' = Saveable
  BY DEF Saveable, Moe
<1>6. Mergeable(job)' = Mergeable(job)
  BY DEF Mergeable
<1>7. PipelineShards' = PipelineShards
  BY DEF PipelineShards, LeftForEnds, Fits
<1>8. MergeLayout' = MergeLayout
  BY <1>7 DEF MergeLayout
<1>9. ASSUME NEW w PROVE MergedAt(w)' = MergedAt(w)
  <2>1. MergeKeys(w)' = MergeKeys(w)
    BY <1>8 DEF MergeKeys
  <2>2. ASSUME NEW k PROVE MergedOf(w, k)' = MergedOf(w, k)
    BY <1>8 DEF MergedOf, MergeLayer, PartsAt
  <2> QED BY <2>1, <2>2 DEF MergedAt
<1>10. ASSUME NEW n PROVE MergedUpto(n)' = MergedUpto(n)
  BY <1>9 DEF MergedUpto
<1> QED BY <1>1, <1>2, <1>3, <1>4, <1>5, <1>6, <1>10

\* A dictionary of no entries is empty.
LEMMA RecalledNone == <<>> = Recalled({})
BY DEF Recalled

\* The state dict with one more item, and with one more rank
LEMMA SaveItemIs ==
  ASSUME SaveItem
  PROVE  exported' = [exported EXCEPT !.saver = Fed(@, SavedPairs(SaveProgram[step]))]
BY DEF SaveItem, SavedPairs, TensorsSaved, SavedFull, SavedFrom, KeyOf

\* ...and the one of the merger
LEMMA MergeRankIs ==
  ASSUME MergeRank
  PROVE  exported' = [exported EXCEPT !.merger =
                        Fed(@, UNION {MergePairs(step - 1, k) : k \in MergeKeys(step - 1)})]
BY DEF MergeRank, MergePairs, MergeKeys, MergeTensors, MergeLayer, MergeNumber

-----------------------------------------------------------------------------
(* A step of the saver adds what it is at.                                *)

\* One state dict, with the other left alone
LEMMA FedDicts ==
  ASSUME NEW s, NEW m, exported = Dicts(s, m), NEW P
  PROVE  /\ [exported EXCEPT !.saver = Fed(@, P)] = Dicts(Fed(s, P), m)
         /\ [exported EXCEPT !.merger = Fed(@, P)] = Dicts(s, Fed(m, P))
<1>1. exported = [saver |-> s, merger |-> m]
  BY DEF Dicts
<1>2. ASSUME NEW x PROVE [[saver |-> s, merger |-> m] EXCEPT !.saver = x] = Dicts(x, m)
                         /\ [[saver |-> s, merger |-> m] EXCEPT !.merger = x] = Dicts(s, x)
  BY DEF Dicts
<1>3. exported.saver = s /\ exported.merger = m
  BY <1>1
<1> QED BY <1>1, <1>2, <1>3

\* Steps are counted from 1.
LEMMA StepFrom ==
  ASSUME LoadInv
  PROVE  \E n \in Nat : n + 1 = step
<1>1. step - 1 \in Nat /\ (step - 1) + 1 = step
  BY DEF LoadInv, Positive
<1> QED BY <1>1

\* One more item of the saver
LEMMA ExportItem == ExportInv /\ SaveItem => ExportInv'
<1> SUFFICES ASSUME ExportInv, SaveItem PROVE ExportInv'
  OBVIOUS
<1>1. /\ LoadInv /\ job \in Jobs /\ param = Holding
      /\ phase = "save" /\ (job.value \/ Saveable) /\ step <= Len(SaveProgram)
      /\ step' = step + 1 /\ job' = job /\ phase' = phase
  BY DEF ExportInv, LoadInv, SaveItem
<1>2. LoadInv'
  BY <1>1, LoadNext DEF WeightsNext
<1>3. PICK n \in Nat : n + 1 = step
  BY <1>1, StepFrom
<1>4. ASSUME Saveable
      PROVE  exported' = Dicts(Recalled(SavedUpto(n + 1)), Recalled({}))
  <2> DEFINE item == SaveProgram[step]
             P == SavedPairs(item)
             s == Recalled(SavedUpto(n))
             m == Recalled({})
  <2>1. SavedFirst(n)
    BY <1>1, <1>3, <1>4 DEF ExportInv
  <2>2. exported = Dicts(s, m)
    BY <2>1 DEF SavedFirst
  <2>3. exported' = [exported EXCEPT !.saver = Fed(@, P)]
    BY SaveItemIs
  <2>4. P = Pairs(SavedAt(item))
    <3>1. step \in 1..Len(SaveProgram)
      BY <1>1, <1>3, SaveProgramIs
    <3>2. item \in AllItems(~job.tied)
      BY <1>1, <3>1, SaveProgramIs
    <3> HIDE DEF item
    <3> QED BY <1>1, <1>4, <3>2, ItemSaved
  <2>5. SavedUpto(n + 1) = SavedUpto(n) \cup SavedAt(item)
    BY <1>3, SavedNext
  <2>6. Fed(s, Pairs(SavedAt(item))) = Recalled(SavedUpto(n) \cup SavedAt(item))
    BY FedTruth
  <2> HIDE DEF P, s, m
  <2>7. exported' = Dicts(Fed(s, P), m)
    BY <2>2, <2>3, FedDicts
  <2> QED BY <2>4, <2>5, <2>6, <2>7 DEF m
<1>5. /\ \A k : SavedUpto(k)' = SavedUpto(k)
      /\ Truth' = Truth /\ SaveProgram' = SaveProgram
      /\ Saveable' = Saveable /\ Mergeable(job)' = Mergeable(job)
  BY <1>1, SameExport
<1>6. ASSUME Saveable, NEW k \in Nat, k + 1 = step' PROVE SavedFirst(k)'
  <2>1. k = n + 1 /\ k <= Len(SaveProgram')
    BY <1>1, <1>3, <1>5, <1>6
  <2>2. exported' = Dicts(Recalled(SavedUpto(k)), Recalled({}))
    BY <1>4, <1>6, <2>1
  <2>3. Recalled(SavedUpto(k))' = Recalled(SavedUpto(k)) /\ Recalled({})' = Recalled({})
    BY <1>5 DEF Recalled
  <2> QED BY <2>1, <2>2, <2>3 DEF SavedFirst, Dicts
<1> QED BY <1>1, <1>2, <1>5, <1>6 DEF ExportInv

\* The saver is through.
LEMMA ExportSaved == ExportInv /\ SaveEnd => ExportInv'
<1> SUFFICES ASSUME ExportInv, SaveEnd PROVE ExportInv'
  OBVIOUS
<1>1. /\ LoadInv /\ job \in Jobs
      /\ phase = "save" /\ (job.value \/ Saveable) /\ step > Len(SaveProgram)
      /\ step' = 1 /\ job' = job /\ phase' = (IF job.value THEN "done" ELSE "merge")
      /\ exported' = exported
  BY DEF ExportInv, LoadInv, SaveEnd
<1>2. LoadInv'
  BY <1>1, LoadNext DEF WeightsNext
<1>3. PICK n \in Nat : n + 1 = step
  BY <1>1, StepFrom
<1>4. ASSUME Saveable PROVE exported = Dicts(Recalled(SavedAll), Recalled({}))
  <2>1. SavedFirst(n)
    BY <1>1, <1>3, <1>4 DEF ExportInv
  <2>2. n = Len(SaveProgram)
    <3>1. Len(SaveProgram) \in Nat /\ n <= Len(SaveProgram)
      BY <1>1, <2>1, SaveProgramIs DEF SavedFirst
    <3> QED BY <1>1, <1>3, <3>1
  <2> QED BY <2>1, <2>2 DEF SavedFirst, SavedAll
<1>5. /\ \A k : MergedUpto(k)' = MergedUpto(k)
      /\ SavedAll' = SavedAll /\ Truth' = Truth
      /\ Saveable' = Saveable /\ Mergeable(job)' = Mergeable(job)
  BY <1>1, SameExport
<1>6. CASE job.value
  <2>1. phase' = "done"
    BY <1>1, <1>6
  <2>2. Saveable' => (exported.saver)' = Recalled(SavedAll)'
    <3> SUFFICES ASSUME Saveable PROVE (exported.saver)' = Recalled(SavedAll)'
      BY <1>5
    <3>1. exported.saver = Recalled(SavedAll)
      BY <1>4 DEF Dicts
    <3>2. Recalled(SavedAll)' = Recalled(SavedAll)
      BY <1>5 DEF Recalled
    <3> QED BY <1>1, <3>1, <3>2
  <2> QED BY <1>1, <1>2, <1>5, <1>6, <2>1, <2>2 DEF ExportInv
<1>7. CASE ~job.value
  <2>1. phase' = "merge" /\ Saveable
    BY <1>1, <1>7
  <2>2. MergedUpto(0) = {} /\ job.merger > 0
    BY <1>1, MergedNext, JobIs DEF Launchable, JobType, Positive
  <2>3. ASSUME NEW k \in Nat, k + 1 = step' PROVE MergedFirst(k)'
    <3>1. k = 0
      BY <1>1, <2>3
    <3>2. exported' = Dicts(Recalled(SavedAll), Recalled(MergedUpto(k)))
      BY <1>1, <1>4, <2>1, <2>2, <3>1
    <3>3. Recalled(SavedAll)' = Recalled(SavedAll)
          /\ Recalled(MergedUpto(k))' = Recalled(MergedUpto(k))
      BY <1>5 DEF Recalled
    <3>4. Recalled(IF Saveable THEN SavedAll ELSE {})' = Recalled(SavedAll)
      BY <1>5, <2>1, <3>3 DEF Recalled
    <3> QED BY <1>1, <2>2, <3>1, <3>2, <3>3, <3>4 DEF MergedFirst, Dicts
  <2> QED BY <1>1, <1>2, <1>5, <1>7, <2>1, <2>3 DEF ExportInv
<1> QED BY <1>6, <1>7

-----------------------------------------------------------------------------
(* Saver and merger keep it, and the whole of it is the checkpoint.       *)

\* One more rank of the merger
LEMMA ExportRank == ExportInv /\ MergeRank => ExportInv'
<1> SUFFICES ASSUME ExportInv, MergeRank PROVE ExportInv'
  OBVIOUS
<1>1. /\ LoadInv /\ Mergeable(job) /\ job \in Jobs /\ param = Holding /\ ~job.value
      /\ phase = "merge" /\ step <= job.merger
      /\ step' = step + 1 /\ job' = job
      /\ phase' = (IF step = job.merger THEN "done" ELSE phase)
  BY DEF ExportInv, LoadInv, MergeRank
<1>2. LoadInv'
  BY <1>1, LoadNext DEF WeightsNext
<1>3. PICK n \in Nat : n + 1 = step
  BY <1>1, StepFrom
<1> DEFINE S == IF Saveable THEN SavedAll ELSE {}
           s == Recalled(S)
           m == Recalled(MergedUpto(n))
           P == UNION {MergePairs(n, k) : k \in MergeKeys(n)}
<1>4. job.merger \in Nat \ {0}
  BY <1>1, JobIs DEF Launchable, JobType, Positive
<1>5. exported' = Dicts(s, Recalled(MergedUpto(n + 1)))
  <2>1. exported = Dicts(s, m)
    BY <1>1, <1>3 DEF ExportInv, MergedFirst
  <2>2. step - 1 = n
    BY <1>3
  <2>3. exported' = [exported EXCEPT !.merger = Fed(@, P)]
    BY <2>2, MergeRankIs
  <2>4. P = Pairs(MergedAt(n))
    <3>1. Merges(n)
      BY <1>1, <1>3, <1>4 DEF Merges, MergesAt
    <3> QED BY <3>1, MergedPairs
  <2>5. MergedUpto(n + 1) = MergedUpto(n) \cup MergedAt(n)
    BY <1>3, MergedNext
  <2>6. Fed(m, Pairs(MergedAt(n))) = Recalled(MergedUpto(n) \cup MergedAt(n))
    BY FedTruth
  <2> HIDE DEF P, s, m
  <2>7. exported' = Dicts(s, Fed(m, P))
    BY <2>1, <2>3, FedDicts
  <2> QED BY <2>4, <2>5, <2>6, <2>7
<1>6. /\ \A k : MergedUpto(k)' = MergedUpto(k)
      /\ SavedAll' = SavedAll /\ Truth' = Truth
      /\ Saveable' = Saveable /\ Mergeable(job)' = Mergeable(job)
  BY <1>1, SameExport
<1>7. CASE step # job.merger
  <2>1. phase' = "merge" /\ n + 1 < job.merger
    BY <1>1, <1>3, <1>4, <1>7
  <2>2. ASSUME NEW k \in Nat, k + 1 = step' PROVE MergedFirst(k)'
    <3>1. k = n + 1
      BY <1>1, <1>3, <2>2
    <3>2. exported' = Dicts(s, Recalled(MergedUpto(k)))
      BY <1>5, <3>1
    <3>3. Recalled(MergedUpto(k))' = Recalled(MergedUpto(k))
      BY <1>6 DEF Recalled
    <3>4. Recalled(IF Saveable THEN SavedAll ELSE {})' = s
      BY <1>6 DEF Recalled
    <3>5. k < job'.merger
      BY <1>1, <2>1, <3>1
    <3> HIDE DEF s
    <3> QED BY <3>2, <3>3, <3>4, <3>5 DEF MergedFirst, Dicts
  <2> QED BY <1>1, <1>2, <1>6, <2>1, <2>2 DEF ExportInv
<1>8. CASE step = job.merger
  <2>1. phase' = "done" /\ n + 1 = job.merger
    BY <1>1, <1>3, <1>8
  <2>2. exported'.saver = s /\ exported'.merger = Recalled(MergedUpto(job.merger))
    <3> HIDE DEF s
    <3> QED BY <1>5, <2>1 DEF Dicts
  <2>3. Saveable' => exported'.saver = Recalled(SavedAll)'
    <3> SUFFICES ASSUME Saveable PROVE exported'.saver = Recalled(SavedAll)'
      BY <1>6
    <3>1. Recalled(SavedAll)' = Recalled(SavedAll)
      BY <1>6 DEF Recalled
    <3> QED BY <2>2, <3>1
  <2>4. exported'.merger = Recalled(MergedUpto(job.merger))'
    <3>1. Recalled(MergedUpto(job.merger))' = Recalled(MergedUpto(job.merger))
      <4>1. MergedUpto(job.merger)' = MergedUpto(job.merger)
        BY <1>1, <1>6 DEF MergedUpto
      <4> QED BY <1>6, <4>1 DEF Recalled
    <3> QED BY <2>2, <3>1
  <2> QED BY <1>1, <1>2, <1>6, <2>1, <2>3, <2>4 DEF ExportInv
<1> QED BY <1>7, <1>8

\* The merger does not start.
LEMMA ExportRefused == ExportInv /\ MergeRefused => ExportInv'
<1> SUFFICES ASSUME ExportInv, MergeRefused PROVE ExportInv'
  OBVIOUS
<1>1. /\ LoadInv /\ job' = job /\ exported' = exported
      /\ phase = "merge" /\ phase' = "refused"
  BY DEF ExportInv, MergeRefused
<1>2. LoadInv'
  BY <1>1, LoadNext DEF WeightsNext
<1>3. SavedAll' = SavedAll /\ Truth' = Truth /\ Saveable' = Saveable
  BY <1>1, SameExport
<1>4. ASSUME Saveable PROVE exported'.saver = Recalled(SavedAll)'
  <2>1. PICK n \in Nat : n + 1 = step
    BY <1>1, StepFrom
  <2>2. MergedFirst(n)
    BY <1>1, <2>1 DEF ExportInv
  <2>3. exported.saver = Recalled(SavedAll)
    BY <1>4, <2>2 DEF MergedFirst, Dicts
  <2>4. Recalled(SavedAll)' = Recalled(SavedAll)
    BY <1>3 DEF Recalled
  <2> QED BY <1>1, <2>3, <2>4
<1> QED BY <1>1, <1>2, <1>3, <1>4 DEF ExportInv

\* Loading and feeding the engine leave both state dicts empty.
LEMMA ExportBefore ==
  /\ ExportInv /\ (LoadItem \/ SpreadParams \/ LoadDist \/ SyncParam \/ SyncEnd) => ExportInv'
  /\ ExportInv /\ UNCHANGED weightVars => ExportInv'
<1> SUFFICES ASSUME ExportInv,
                    \/ LoadItem \/ SpreadParams \/ LoadDist \/ SyncParam \/ SyncEnd
                    \/ UNCHANGED weightVars
             PROVE  ExportInv'
  OBVIOUS
<1>1. /\ LoadInv /\ job \in Jobs /\ job' = job
      /\ exported' = exported
  BY DEF ExportInv, LoadInv, LoadItem, Fail, SpreadParams, LoadDist, SyncParam, SyncEnd,
         weightVars
<1>2. LoadInv'
  BY <1>1, LoadNext DEF WeightsNext
<1>3. /\ \A n : SavedUpto(n)' = SavedUpto(n)
      /\ \A n : MergedUpto(n)' = MergedUpto(n)
      /\ SavedAll' = SavedAll /\ Truth' = Truth /\ SaveProgram' = SaveProgram
      /\ Saveable' = Saveable /\ Mergeable(job)' = Mergeable(job)
  BY <1>1, SameExport
<1>4. Recalled({})' = Recalled({})
  BY DEF Recalled
<1>5. /\ \A n : Recalled(SavedUpto(n))' = Recalled(SavedUpto(n))
      /\ \A n : Recalled(MergedUpto(n))' = Recalled(MergedUpto(n))
      /\ Recalled(SavedAll)' = Recalled(SavedAll)
      /\ Recalled(IF Saveable THEN SavedAll ELSE {})' = Recalled(IF Saveable THEN SavedAll ELSE {})
  BY <1>3 DEF Recalled
<1>6. \A n : /\ SavedFirst(n)' <=> SavedFirst(n)
             /\ MergedFirst(n)' <=> MergedFirst(n)
  BY <1>1, <1>3, <1>4, <1>5 DEF SavedFirst, MergedFirst, Dicts
<1>7. exported = Dicts(Recalled({}), Recalled({})) =>
        exported' = Dicts(Recalled({}), Recalled({}))'
  BY <1>1, <1>4 DEF Dicts
<1>8. CASE phase' \in {"load", "sync"} /\ phase \in {"load", "sync"} /\ (phase' = "sync" => ~job.value)
  BY <1>1, <1>2, <1>3, <1>7, <1>8 DEF ExportInv
<1>9. CASE /\ phase \in {"load", "sync"} /\ phase' \in {"save", "merge"} /\ step' = 1
           /\ phase' = "save" => job.value \/ Saveable
           /\ phase' = "merge" => ~job.value /\ ~Saveable
  <2>1. exported = Dicts(Recalled({}), Recalled({}))
    BY <1>9 DEF ExportInv
  <2>2. SavedUpto(0) = {} /\ MergedUpto(0) = {}
    BY SavedNext, MergedNext
  <2>3. Len(SaveProgram) \in Nat /\ job.merger \in Nat \ {0}
    BY <1>1, SaveProgramIs, JobIs DEF Launchable, JobType, Positive
  <2>4. SavedFirst(0)
    <3>1. 0 <= Len(SaveProgram)
      BY <2>3
    <3>2. exported = Dicts(Recalled(SavedUpto(0)), Recalled({}))
      BY <2>1, <2>2
    <3> QED BY <3>1, <3>2 DEF SavedFirst
  <2>5. ~Saveable => MergedFirst(0)
    BY <2>1, <2>2, <2>3 DEF MergedFirst
  <2>6. \A n \in Nat : n + 1 = step' => n = 0
    BY <1>9
  <2> QED BY <1>1, <1>2, <1>3, <1>6, <1>9, <2>4, <2>5, <2>6 DEF ExportInv
<1>10. CASE UNCHANGED weightVars
  <2>1. phase' = phase /\ step' = step
    BY <1>10 DEF weightVars
  <2>2. Recalled(MergedUpto(job.merger))' = Recalled(MergedUpto(job.merger))
    <3>1. MergedUpto(job.merger)' = MergedUpto(job.merger)
      BY <1>1, <1>3 DEF MergedUpto
    <3> QED BY <1>3, <3>1 DEF Recalled
  <2>3. /\ phase \in {"refused", "done"} /\ Saveable' => exported'.saver = Recalled(SavedAll)'
        /\ phase = "done" /\ ~job'.value =>
             Mergeable(job)' /\ exported'.merger = Recalled(MergedUpto(job.merger))'
    BY <1>1, <1>3, <1>5, <2>2 DEF ExportInv
  <2> QED BY <1>1, <1>2, <1>3, <1>6, <1>7, <2>1, <2>3 DEF ExportInv
<1>11. CASE LoadItem
  <2>1. phase = "load" /\ phase' \in {"load", "failed"}
    BY <1>11 DEF LoadItem, Fail
  <2>2. phase' # "failed"
    BY <1>2 DEF LoadInv
  <2> QED BY <1>8, <2>1, <2>2
<1>12. CASE SpreadParams \/ LoadDist
  <2>1. phase = "load" /\ phase' = (IF job.value THEN "save" ELSE "sync") /\ step' = 1
    BY <1>12 DEF SpreadParams, LoadDist
  <2> QED BY <1>8, <1>9, <2>1
<1>13. CASE SyncParam
  <2>1. phase = "sync" /\ phase' \in {"sync", "failed"}
    BY <1>13 DEF SyncParam
  <2>2. phase' # "failed" /\ ~job.value
    BY <1>2, <2>1 DEF LoadInv, ExportInv
  <2> QED BY <1>8, <2>1, <2>2
<1>14. CASE SyncEnd
  <2>1. phase = "sync" /\ phase' = (IF Saveable THEN "save" ELSE "merge") /\ step' = 1
    BY <1>14 DEF SyncEnd
  <2>2. ~job.value
    BY <2>1 DEF ExportInv
  <2> QED BY <1>9, <2>1, <2>2
<1> QED BY <1>10, <1>11, <1>12, <1>13, <1>14

\* Nothing is exported at the start.
LEMMA ExportInit == WeightsInit => ExportInv
<1> SUFFICES ASSUME WeightsInit PROVE ExportInv
  OBVIOUS
<1>1. LoadInv
  BY LoadInit
<1>2. phase = "load" /\ exported = Dicts(Recalled({}), Recalled({}))
  BY RecalledNone DEF WeightsInit, Dicts
<1> QED BY <1>1, <1>2 DEF ExportInv

\* No step disturbs the invariant of exporting.
LEMMA ExportNext == ExportInv /\ [WeightsNext]_weightVars => ExportInv'
BY ExportItem, ExportSaved, ExportRank, ExportRefused, ExportBefore DEF WeightsNext

\* A state dict with all entries but a tied head is the checkpoint.
LEMMA CheckpointIs ==
  ASSUME NEW E, E \cup {HeadEntry} = Entries, ~job.tied => HeadEntry \in E, E \subseteq Entry
  PROVE  IsCheckpoint(Recalled(E), ~job.tied)
<1>1. DOMAIN Recalled(E) = E /\ \A e \in E : Recalled(E)[e] = Truth[e]
  BY DEF Recalled
<1>2. \A e \in E : Truth[e] =
        IF e[1] = "lm_head" /\ job.value
          THEN (IF job.head = 1 /\ job.from = "hf" THEN Tensor("lm_head", -1, -1) ELSE Unset)
        ELSE Tensor(e[1], e[2], e[3])
  BY DEF Truth
<1> QED BY <1>1, <1>2 DEF IsCheckpoint, HeadEntry

\* The entries of a checkpoint are entries.
LEMMA EntriesIn ==
  ASSUME job \in Jobs PROVE Entries \subseteq Entry
<1>1. LayerParts \subseteq PartNames
  BY DEF LayerParts, PartNames
<1>2. {"embed", "norm", "lm_head", "gate", "up", "down"} \subseteq PartNames
  BY DEF PartNames
<1>3. \A l \in 0..job.layers - 1 : LayerEntries(l) \subseteq Entry
  BY <1>1, <1>2 DEF LayerEntries, Entry
<1>4. {<<"embed", -1, -1>>, <<"norm", -1, -1>>, HeadEntry} \subseteq Entry
  BY <1>2 DEF HeadEntry, Entry
<1> QED BY <1>3, <1>4, EntriesAre

\* The invariant is what was to be shown.
LEMMA ExportedWhole == ExportInv => ExportsWhole
<1> SUFFICES ASSUME ExportInv PROVE ExportsWhole
  OBVIOUS
<1>1. job \in Jobs /\ LoadInv
  BY DEF ExportInv, LoadInv
<1>2. ASSUME phase \in {"merge", "refused", "done"}, Saveable
      PROVE  IsCheckpoint(exported.saver, ~job.tied)
  <2>1. exported.saver = Recalled(SavedAll)
    <3>1. CASE phase = "merge"
      <4>1. PICK n \in Nat : n + 1 = step
        BY <1>1, StepFrom
      <4>2. MergedFirst(n)
        BY <3>1, <4>1 DEF ExportInv
      <4> QED BY <1>2, <4>2 DEF MergedFirst, Dicts
    <3>2. CASE phase \in {"refused", "done"}
      BY <1>2, <3>2 DEF ExportInv
    <3> QED BY <1>2, <3>1, <3>2
  <2>2. SavedAll \cup {HeadEntry} = Entries /\ (~job.tied => HeadEntry \in SavedAll)
    BY <1>1, <1>2, SavedIs
  <2>3. SavedAll \subseteq Entry
    BY <1>1, <2>2, EntriesIn
  <2> QED BY <2>1, <2>2, <2>3, CheckpointIs
<1>3. ASSUME phase = "done", ~job.value
      PROVE  IsCheckpoint(exported.merger, ~job.tied)
  <2> DEFINE E == MergedUpto(job.merger)
  <2>1. exported.merger = Recalled(E) /\ Mergeable(job)
    BY <1>3 DEF ExportInv
  <2>2. E \cup {HeadEntry} = Entries /\ (~job.tied => HeadEntry \in E)
    BY <1>1, <2>1, MergedIs
  <2>3. E \subseteq Entry
    BY <1>1, <2>2, EntriesIn
  <2> HIDE DEF E
  <2> QED BY <2>1, <2>2, <2>3, CheckpointIs
<1> QED BY <1>2, <1>3 DEF ExportsWhole

\* ExportsWhole: the state dicts that the saver and the offline merger end with
\* are the checkpoint, every tensor whole and under the name and the number of its
\* layer and expert, for every grid of ranks, every number of ranks of the
\* merger and every model that can be launched; unless the merger refuses it, or
\* the saver does not know the layout.
THEOREM Exporting == WeightsSpec => []ExportsWhole
BY ExportInit, ExportNext, ExportedWhole, PTL DEF WeightsSpec

=============================================================================
