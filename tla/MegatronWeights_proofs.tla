------------------------ MODULE MegatronWeights_proofs ------------------------
(***************************************************************************)
(* Proofs about the loading of Megatron's weights, and about feeding them  *)
(* to the inference engine: for every grid of ranks and every model that   *)
(* can be launched on it.                                                  *)
(*                                                                         *)
(* The program of the loader has an item for every parameter (EveryKeyIs-  *)
(* Brought); what is sent for an item is, on each rank of the stage that   *)
(* the layer map finds, what Held says the rank computes with              *)
(* (ItemDelivers).  So what has arrived is right and the rest is blank     *)
(* (LoadInv), until the first replicas have it all and the others copy it  *)
(* from them (HeldSpreads).                                                *)
(*                                                                         *)
(* For the engine every rank goes through the parameters of all stages     *)
(* (MetaIs).  The offset of a chunk is the layer it starts with (OffsetIs) *)
(* and the parts of the ranks, joined, are the tensors of the checkpoint   *)
(* (GatheredDense, GatheredExperts), so each parameter yields exactly the  *)
(* entries it becomes (YieldedIs).  Buckets lose none of them (FoldHas);   *)
(* all parameters together become all entries (FedIsEntry, EntryIsFed).    *)
(***************************************************************************)
EXTENDS MegatronWeights, FiniteSetTheorems, SequenceTheorems,
        WellFoundedInduction, TLAPS

-----------------------------------------------------------------------------
(* Numbers, and sequences joined.                                         *)

\* Induction over numbers, as a fact about sets
LEMMA Induct ==
  ASSUME NEW T, 0 \in T, \A n \in Nat : n \in T => n + 1 \in T
  PROVE  Nat \subseteq T
<1> DEFINE R == {ss \in Nat \X Nat : ss[1] < ss[2]}
<1>1. IsWellFoundedOn(R, Nat)
  BY NatLessThanWellFounded, Zenon DEF OpToRel
<1> DEFINE B == Nat \ T
<1>2. SUFFICES ASSUME B # {} PROVE FALSE
  OBVIOUS
<1>3. PICK m \in B : \A n \in B : <<n, m>> \notin R
  <2>1. B \subseteq Nat
    OBVIOUS
  <2> QED BY <1>1, <1>2, <2>1, WFMin, Zenon
<1>4. m # 0 /\ m \in Nat
  BY <1>3
<1>5. m - 1 \in Nat /\ m - 1 < m
  BY <1>4
<1>6. m - 1 \notin B
  BY <1>3, <1>4, <1>5
<1>7. m - 1 \in T
  BY <1>5, <1>6
<1> QED BY <1>3, <1>4, <1>5, <1>7

\* Products of numbers are numbers.
LEMMA MulPos ==
  ASSUME NEW a \in Nat, NEW b \in Nat PROVE a * b \in Nat
OBVIOUS

\* Products grow with their factors.
LEMMA MulMono ==
  ASSUME NEW a \in Nat, NEW b \in Nat, NEW w \in Nat, a <= b
  PROVE a * w <= b * w
OBVIOUS

\* One more, or one less, of a factor
LEMMA MulNext ==
  ASSUME NEW a \in Int, NEW w \in Int
  PROVE /\ (a + 1) * w = a * w + w
        /\ (a - 1) * w = a * w - w
        /\ a * w \in Int
OBVIOUS

\* Division and rest of a number written with both
LEMMA DivIs ==
  ASSUME NEW q \in Nat, NEW d \in Nat \ {0}, NEW r \in 0..d-1
  PROVE /\ (q * d + r) \div d = q
        /\ (q * d + r) % d = r
OBVIOUS

\* A number is its division and its rest.
LEMMA DivMod ==
  ASSUME NEW n \in Nat, NEW d \in Nat \ {0}
  PROVE /\ n \div d \in Nat /\ n % d \in 0..d-1
        /\ n = (n \div d) * d + (n % d)
OBVIOUS

\* A number below k times d, divided by d, is below k.
LEMMA DivBound ==
  ASSUME NEW n \in Nat, NEW d \in Nat \ {0}, NEW k \in Nat, n < k * d
  PROVE n \div d < k
OBVIOUS

(* Sequences joined *)
Joins(s, n, f) ==
  f = [i \in 1..n |-> IF i = 1 THEN s[i] ELSE f[i-1] \o s[i]]

\* The fold of Flat goes over the sequence in order; the function exists.
LEMMA JoinsExists ==
  ASSUME NEW s, NEW n \in Nat PROVE \E f : Joins(s, n, f)
<1> DEFINE T == {m \in Nat : \E f : Joins(s, m, f)}
<1>1. 0 \in T
  <2>1. Joins(s, 0, [i \in {} |-> i])
    BY DEF Joins
  <2> QED BY <2>1
<1>2. ASSUME NEW m \in Nat, m \in T PROVE m + 1 \in T
  <2>1. PICK f : Joins(s, m, f)
    BY <1>2
  <2> DEFINE g == [i \in 1..m+1 |-> IF i \in 1..m THEN f[i]
                     ELSE IF i = 1 THEN s[i] ELSE f[i-1] \o s[i]]
  <2>2. ASSUME NEW i \in 1..m+1
        PROVE  g[i] = IF i = 1 THEN s[i] ELSE g[i-1] \o s[i]
    <3>1. CASE i \in 1..m
      <4>1. g[i] = f[i]
        BY <3>1
      <4>2. i # 1 => i - 1 \in 1..m /\ g[i-1] = f[i-1]
        BY <3>1
      <4>3. f[i] = IF i = 1 THEN s[i] ELSE f[i-1] \o s[i]
        BY <2>1, <3>1 DEF Joins
      <4> QED BY <4>1, <4>2, <4>3
    <3>2. CASE i = m + 1
      <4>1. g[i] = IF i = 1 THEN s[i] ELSE f[i-1] \o s[i]
        BY <3>2
      <4>2. i # 1 => i - 1 \in 1..m /\ g[i-1] = f[i-1]
        BY <3>2
      <4> QED BY <4>1, <4>2
    <3> QED BY <3>1, <3>2
  <2>3. g = [i \in 1..m+1 |-> IF i = 1 THEN s[i] ELSE g[i-1] \o s[i]]
    BY <2>2
  <2> HIDE DEF g
  <2>4. Joins(s, m + 1, g)
    BY <2>3 DEF Joins
  <2> QED BY <2>4
<1> HIDE DEF T
<1>3. n \in T
  BY <1>1, <1>2, Induct
<1> QED BY <1>3 DEF T

\* ...and every value of it is the one before with one more sequence.
LEMMA JoinsStep ==
  ASSUME NEW s, NEW n \in Nat, NEW f, Joins(s, n, f)
  PROVE  /\ n > 0 => f[1] = s[1]
         /\ \A k \in 1..n-1 : f[k+1] = f[k] \o s[k+1]
<1>1. \A i \in 1..n : f[i] = IF i = 1 THEN s[i] ELSE f[i-1] \o s[i]
  BY DEF Joins
<1>2. ASSUME NEW k \in 1..n-1 PROVE f[k+1] = f[k] \o s[k+1]
  <2>1. k + 1 \in 1..n /\ k + 1 # 1 /\ (k + 1) - 1 = k
    OBVIOUS
  <2>2. f[k+1] = f[(k+1)-1] \o s[k+1]
    BY <1>1, <2>1, Zenon
  <2> QED BY <2>1, <2>2
<1>3. n > 0 => f[1] = s[1]
  <2>1. n > 0 => 1 \in 1..n
    OBVIOUS
  <2> QED BY <1>1, <2>1, Zenon
<1> QED BY <1>2, <1>3

\* Flat appends the sequences one by one.
LEMMA FlatIs ==
  ASSUME NEW s, Len(s) \in Nat \ {0}
  PROVE  \E f : /\ Flat(s) = f[Len(s)] /\ f[1] = s[1]
                /\ \A k \in 1..Len(s)-1 : f[k+1] = f[k] \o s[k+1]
<1> DEFINE F == CHOOSE f : f = [i \in 1..Len(s) |->
                  IF i = 1 THEN s[i] ELSE f[i-1] \o s[i]]
<1>1. Flat(s) = F[Len(s)]
  BY DEF Flat, FlattenSeq
<1>2. \E f : f = [i \in 1..Len(s) |->
                  IF i = 1 THEN s[i] ELSE f[i-1] \o s[i]]
  BY JoinsExists DEF Joins
<1>3. F = [i \in 1..Len(s) |-> IF i = 1 THEN s[i] ELSE F[i-1] \o s[i]]
  BY <1>2
<1> HIDE DEF F
<1>4. Joins(s, Len(s), F)
  BY <1>3 DEF Joins
<1>5. /\ Len(s) > 0 => F[1] = s[1]
      /\ \A k \in 1..Len(s)-1 : F[k+1] = F[k] \o s[k+1]
  <2>1. Len(s) \in Nat
    OBVIOUS
  <2> QED BY <1>4, <2>1, JoinsStep, Zenon
<1>6. Len(s) > 0
  OBVIOUS
<1> QED BY <1>1, <1>5, <1>6

\* Flat of no sequences is empty.
LEMMA FlatNone ==
  ASSUME NEW s, Len(s) = 0 PROVE Flat(s) = s
BY DEF Flat, FlattenSeq

\* The elements of two sequences joined
LEMMA Concat ==
  ASSUME NEW S, NEW a \in Seq(S), NEW b \in Seq(S)
  PROVE  /\ a \o b \in Seq(S) /\ Len(a \o b) = Len(a) + Len(b)
         /\ \A i \in 1..Len(a) : (a \o b)[i] = a[i]
         /\ \A j \in 1..Len(b) : (a \o b)[Len(a) + j] = b[j]
OBVIOUS

\* The members of two sequences joined
LEMMA ToSetConcat ==
  ASSUME NEW S, NEW a \in Seq(S), NEW b \in Seq(S)
  PROVE  ToSet(a \o b) = ToSet(a) \cup ToSet(b)
<1>1. /\ a \o b \in Seq(S) /\ Len(a \o b) = Len(a) + Len(b)
      /\ \A i \in 1..Len(a) : (a \o b)[i] = a[i]
      /\ \A j \in 1..Len(b) : (a \o b)[Len(a) + j] = b[j]
  OBVIOUS
<1> DEFINE c == a \o b
<1>2. ASSUME NEW i \in DOMAIN c
      PROVE  c[i] \in {a[k] : k \in DOMAIN a} \cup {b[k] : k \in DOMAIN b}
  <2>1. CASE i \in 1..Len(a)
    BY <1>1, <2>1
  <2>2. CASE i \notin 1..Len(a)
    <3>1. i - Len(a) \in 1..Len(b) /\ i = Len(a) + (i - Len(a))
      BY <1>1, <1>2, <2>2
    <3>2. c[i] = b[i - Len(a)] /\ DOMAIN b = 1..Len(b)
      BY <1>1, <3>1
    <3> QED BY <3>1, <3>2
  <2> QED BY <2>1, <2>2
<1>3. ASSUME NEW i \in DOMAIN a PROVE a[i] \in {c[k] : k \in DOMAIN c}
  <2>1. i \in DOMAIN c /\ c[i] = a[i]
    BY <1>1, <1>3
  <2> QED BY <2>1
<1>4. ASSUME NEW i \in DOMAIN b PROVE b[i] \in {c[k] : k \in DOMAIN c}
  <2>1. Len(a) + i \in DOMAIN c /\ c[Len(a) + i] = b[i]
    BY <1>1, <1>4
  <2> QED BY <2>1
<1> HIDE DEF c
<1>5. {c[i] : i \in DOMAIN c} =
         {a[i] : i \in DOMAIN a} \cup {b[i] : i \in DOMAIN b}
  BY <1>2, <1>3, <1>4
<1> QED BY <1>5, Zenon DEF c, ToSet

(* What holds for the joined sequence so far holds for all of it. *)
LEMMA FlatInto ==
  ASSUME NEW S, NEW s \in Seq(Seq(S))
  PROVE  /\ Flat(s) \in Seq(S)
         /\ ToSet(Flat(s)) = UNION {ToSet(s[i]) : i \in DOMAIN s}
<1>0. CASE Len(s) = 0
  <2>1. s = << >>
    BY <1>0
  <2>2. Flat(s) = << >>
    BY <1>0, <2>1, FlatNone
  <2>3. ToSet(<< >>) = {} /\ UNION {ToSet(s[i]) : i \in DOMAIN s} = {}
    BY <2>1 DEF ToSet
  <2> QED BY <2>2, <2>3
<1>1. CASE Len(s) # 0
  <2>1. Len(s) \in Nat \ {0} /\ DOMAIN s = 1..Len(s)
        /\ \A i \in 1..Len(s) : s[i] \in Seq(S)
    BY <1>1
  <2>2. PICK f : /\ Flat(s) = f[Len(s)] /\ f[1] = s[1]
                 /\ \A k \in 1..Len(s)-1 : f[k+1] = f[k] \o s[k+1]
    BY <2>1, FlatIs
  <2> DEFINE Good(k) == /\ f[k] \in Seq(S)
                        /\ ToSet(f[k]) = UNION {ToSet(s[i]) : i \in 1..k}
  <2> DEFINE T == {k \in Nat : k \in 1..Len(s) => Good(k)}
  <2>3. 0 \in T
    OBVIOUS
  <2>4. ASSUME NEW k \in Nat, k \in T PROVE k + 1 \in T
    <3>1. SUFFICES ASSUME k + 1 \in 1..Len(s) PROVE Good(k + 1)
      BY SMT
    <3>2. CASE k = 0
      <4>1. UNION {ToSet(s[i]) : i \in 1..k + 1} = ToSet(s[1])
        BY <3>2
      <4> QED BY <2>1, <2>2, <3>2, <4>1
    <3>3. CASE k # 0
      <4>1. k \in 1..Len(s)-1 /\ Good(k) /\ s[k + 1] \in Seq(S)
        BY <2>1, <2>4, <3>1, <3>3
      <4>2. f[k + 1] = f[k] \o s[k + 1]
        BY <2>2, <4>1
      <4> HIDE <2>2
      <4>3. /\ f[k + 1] \in Seq(S)
            /\ ToSet(f[k + 1]) = ToSet(f[k]) \cup ToSet(s[k + 1])
        <5> DEFINE a == f[k]
                   b == s[k + 1]
        <5>1. a \in Seq(S) /\ b \in Seq(S) /\ f[k + 1] = a \o b
          BY <4>1, <4>2
        <5> HIDE DEF a, b
        <5>2. a \o b \in Seq(S) /\ ToSet(a \o b) = ToSet(a) \cup ToSet(b)
          BY <5>1, ToSetConcat
        <5> QED BY <5>1, <5>2 DEF a, b
      <4>4. UNION {ToSet(s[i]) : i \in 1..k + 1} =
              (UNION {ToSet(s[i]) : i \in 1..k}) \cup ToSet(s[k + 1])
        <5>1. 1..k + 1 = (1..k) \cup {k + 1}
          OBVIOUS
        <5> QED BY <5>1
      <4> QED BY <4>1, <4>3, <4>4
    <3> QED BY <3>2, <3>3
  <2>5. \A k \in Nat : k \in T
    <3> HIDE DEF T
    <3> QED BY <2>3, <2>4, Induct
  <2>6. Good(Len(s))
    <3> HIDE DEF Good
    <3>1. Len(s) \in T
      <4> HIDE DEF T
      <4> QED BY <2>1, <2>5
    <3>2. Len(s) \in 1..Len(s)
      BY <2>1
    <3> QED BY <3>1, <3>2
  <2>7. 1..Len(s) = DOMAIN s
    BY <2>1
  <2> QED BY <2>2, <2>6, <2>7
<1> QED BY <1>0, <1>1

\* Where the elements of joined sequences of one length are
LEMMA FlatUniform ==
  ASSUME NEW S, NEW s \in Seq(Seq(S)), NEW w \in Nat,
         \A i \in 1..Len(s) : Len(s[i]) = w
  PROVE  /\ Flat(s) \in Seq(S) /\ Len(Flat(s)) = Len(s) * w
         /\ \A i \in 1..Len(s), j \in 1..w : Flat(s)[(i - 1) * w + j] = s[i][j]
<1>0. CASE Len(s) = 0
  <2>1. s = << >>
    BY <1>0
  <2>2. Flat(s) = << >>
    BY <1>0, <2>1, FlatNone
  <2> QED BY <1>0, <2>2
<1>1. CASE Len(s) # 0
  <2>1. Len(s) \in Nat \ {0} /\ DOMAIN s = 1..Len(s)
        /\ \A i \in 1..Len(s) : s[i] \in Seq(S)
    BY <1>1
  <2>2. PICK f : /\ Flat(s) = f[Len(s)] /\ f[1] = s[1]
                 /\ \A k \in 1..Len(s)-1 : f[k+1] = f[k] \o s[k+1]
    BY <2>1, FlatIs
  <2> DEFINE Good(k) == /\ f[k] \in Seq(S) /\ Len(f[k]) = k * w
                        /\ \A i \in 1..k, j \in 1..w : f[k][(i - 1) * w + j] = s[i][j]
  <2> DEFINE T == {k \in Nat : k \in 1..Len(s) => Good(k)}
  <2>3. 0 \in T
    OBVIOUS
  <2>4. ASSUME NEW k \in Nat, k \in T PROVE k + 1 \in T
    <3>1. SUFFICES ASSUME k + 1 \in 1..Len(s) PROVE Good(k + 1)
      BY SMT
    <3>2. CASE k = 0
      BY <2>1, <2>2, <3>2
    <3>3. CASE k # 0
      <4>1. k \in 1..Len(s)-1 /\ Good(k) /\ s[k + 1] \in Seq(S) /\ Len(s[k + 1]) = w
        BY <2>1, <2>4, <3>1, <3>3
      <4>2. f[k + 1] = f[k] \o s[k + 1]
        BY <2>2, <4>1
      <4> DEFINE kw == k * w
      <4>3. kw \in Nat /\ (k + 1) * w = kw + w
        BY MulNext, MulPos
      <4> HIDE <2>2 DEF kw
      <4>4. f[k] \in Seq(S) /\ Len(f[k]) = kw
        BY <4>1 DEF kw
      <4>5. /\ f[k + 1] \in Seq(S) /\ Len(f[k + 1]) = kw + w
            /\ \A i \in 1..kw : f[k + 1][i] = f[k][i]
            /\ \A j \in 1..w : f[k + 1][kw + j] = s[k + 1][j]
        <5> DEFINE a == f[k]
                   b == s[k + 1]
        <5>1. a \in Seq(S) /\ b \in Seq(S) /\ f[k + 1] = a \o b
              /\ Len(a) = kw /\ Len(b) = w
          BY <4>1, <4>2, <4>4
        <5> HIDE DEF a, b
        <5>2. /\ a \o b \in Seq(S) /\ Len(a \o b) = Len(a) + Len(b)
              /\ \A i \in 1..Len(a) : (a \o b)[i] = a[i]
              /\ \A j \in 1..Len(b) : (a \o b)[Len(a) + j] = b[j]
          <6>1. a \in Seq(S) /\ b \in Seq(S)
            BY <5>1
          <6> QED BY ONLY <6>1, Concat
        <5> QED BY <5>1, <5>2 DEF a, b
      <4>6. ASSUME NEW i \in 1..k + 1, NEW j \in 1..w
            PROVE f[k + 1][(i - 1) * w + j] = s[i][j]
        <5>1. CASE i = k + 1
          <6>1. (i - 1) * w = kw
            BY <5>1 DEF kw
          <6> QED BY <4>5, <5>1, <6>1
        <5>2. CASE i # k + 1
          <6>1. i \in 1..k
            BY <5>2
          <6>2. i * w <= kw /\ (i - 1) * w = i * w - w /\ (i - 1) * w \in Nat
            BY <6>1, MulMono, MulNext, MulPos DEF kw
          <6>3. (i - 1) * w + j \in 1..kw
            BY <4>3, <6>2
          <6>4. f[k][(i - 1) * w + j] = s[i][j]
            BY <4>1, <6>1
          <6> QED BY <4>5, <6>3, <6>4
        <5> QED BY <5>1, <5>2
      <4> QED BY <4>3, <4>5, <4>6
    <3> QED BY <3>2, <3>3
  <2>5. \A k \in Nat : k \in T
    <3> HIDE DEF T
    <3> QED BY <2>3, <2>4, Induct
  <2>6. Good(Len(s))
    <3> HIDE DEF Good
    <3>1. Len(s) \in T
      <4> HIDE DEF T
      <4> QED BY <2>1, <2>5
    <3>2. Len(s) \in 1..Len(s)
      BY <2>1
    <3> QED BY <3>1, <3>2
  <2> QED BY <2>2, <2>6
<1> QED BY <1>0, <1>1

-----------------------------------------------------------------------------
(* Tensors in pieces: what torch.chunk and torch.cat do to rows.          *)

\* A product is divided exactly by its factors.
LEMMA DivExact ==
  ASSUME NEW n \in Nat \ {0}, NEW w \in Nat
  PROVE  /\ (n * w) \div n = w /\ n * w \in Nat /\ w * n = n * w
         /\ (n * w) % n = 0
<1>1. w * n = n * w /\ n * w \in Nat
  OBVIOUS
<1>2. (w * n + 0) \div n = w /\ (w * n + 0) % n = 0
  BY DivIs
<1> QED BY <1>1, <1>2

\* The elements of a piece of a sequence
LEMMA SubSeqLaws ==
  ASSUME NEW S, NEW s \in Seq(S), NEW a \in Nat, NEW w \in Nat, a + w <= Len(s)
  PROVE  /\ SubSeq(s, a + 1, a + w) \in Seq(S)
         /\ Len(SubSeq(s, a + 1, a + w)) = w
         /\ \A j \in 1..w : SubSeq(s, a + 1, a + w)[j] = s[a + j]
OBVIOUS

\* Sequences are equal when their elements are.
LEMMA SeqEq ==
  ASSUME NEW S, NEW a \in Seq(S), NEW b \in Seq(S), Len(a) = Len(b),
         \A i \in 1..Len(a) : a[i] = b[i]
  PROVE  a = b
OBVIOUS

\* A function of the numbers from 1 is a sequence.
LEMMA MakeSeq ==
  ASSUME NEW S, NEW n \in Nat, NEW f, DOMAIN f = 1..n,
         f = [i \in 1..n |-> f[i]],
         \A i \in 1..n : f[i] \in S
  PROVE  f \in Seq(S) /\ Len(f) = n
OBVIOUS

\* Where element j of part i is.
LEMMA PartPlace ==
  ASSUME NEW n \in Nat, NEW w \in Nat, NEW i \in 0..n-1, NEW j \in 1..w
  PROVE  /\ i * w + j \in 1..n * w
         /\ i * w \in Nat /\ (i + 1) * w = i * w + w
         /\ i * w + w <= n * w
<1>1. i * w \in Nat /\ (i + 1) * w = i * w + w
  BY MulNext, MulPos
<1>2. (i + 1) * w <= n * w
  BY MulMono
<1> DEFINE a == i * w
           b == n * w
<1>3. b \in Nat
  BY MulPos
<1> HIDE DEF a, b
<1>4. a \in Nat /\ a + w <= b
  BY <1>1, <1>2 DEF a, b
<1>5. a + j \in 1..b
  BY <1>3, <1>4
<1> QED BY <1>1, <1>4, <1>5 DEF a, b

\* ...and every element is in some part.
LEMMA PlacePart ==
  ASSUME NEW n \in Nat, NEW w \in Nat, NEW x \in 1..n * w
  PROVE  \E i \in 0..n-1, j \in 1..w : x = i * w + j
<1>1. w # 0
  <2>1. n * 0 = 0
    OBVIOUS
  <2> QED BY <2>1
<1> DEFINE q == (x - 1) \div w
           r == (x - 1) % w
<1>0. n * w \in Nat /\ x - 1 < n * w
  BY MulPos
<1>2. q \in Nat /\ r \in 0..w-1 /\ x - 1 = q * w + r
  <2>1. x - 1 \in Nat
    BY <1>0
  <2> QED BY <1>1, <2>1, DivMod
<1>3. q < n
  BY <1>0, <1>1, DivBound
<1> HIDE DEF q, r
<1>4. q * w \in Nat
  BY <1>2, MulPos
<1> DEFINE a == q * w
<1> HIDE DEF a
<1>5. x = a + (r + 1) /\ r + 1 \in 1..w
  BY <1>0, <1>2, <1>4 DEF a
<1> QED BY <1>2, <1>3, <1>5 DEF a

\* s is n pieces of length w.
Cuts(S, s, n, w) ==
  s \in Seq(S) /\ n \in Nat \ {0} /\ w \in Nat /\ Len(s) = n * w

\* p is piece i of length w of s.
Slice(S, s, w, i, p) ==
  /\ p \in Seq(S) /\ Len(p) = w
  /\ \A j \in 1..w : p[j] = s[i * w + j]

\* Part i of a sequence that can be cut is its piece i.
LEMMA PartIs ==
  ASSUME NEW S, NEW s, NEW n, NEW w, Cuts(S, s, n, w), NEW i \in 0..n-1
  PROVE  Slice(S, s, w, i, Part(s, n, i))
<1>0. s \in Seq(S) /\ n \in Nat \ {0} /\ w \in Nat /\ Len(s) = n * w
  BY DEF Cuts
<1>1. Part(s, n, i) = SubSeq(s, i * w + 1, (i + 1) * w)
  BY <1>0, DivExact DEF Part
<1>2. i * w \in Nat /\ (i + 1) * w = i * w + w
  BY <1>0, MulNext, MulPos
<1>3. (i + 1) * w <= n * w
  BY <1>0, MulMono
<1> DEFINE a == i * w
<1> HIDE DEF a
<1>4. a \in Nat /\ a + w <= Len(s) /\ Part(s, n, i) = SubSeq(s, a + 1, a + w)
  BY <1>0, <1>1, <1>2, <1>3 DEF a
<1>5. /\ Part(s, n, i) \in Seq(S) /\ Len(Part(s, n, i)) = w
      /\ \A j \in 1..w : Part(s, n, i)[j] = s[a + j]
  BY <1>0, <1>4, SubSeqLaws
<1> QED BY <1>5 DEF a, Slice

\* m times n pieces, of which those of part i are n in turn
Nested(S, s, m, n, w, i, j) ==
  /\ m \in Nat \ {0} /\ n \in Nat \ {0} /\ Cuts(S, s, m * n, w)
  /\ i \in 0..m-1 /\ j \in 0..n-1

\* A part of a part is a part.
LEMMA PartOfPart ==
  ASSUME NEW S, NEW s, NEW m, NEW n, NEW w, NEW i, NEW j, Nested(S, s, m, n, w, i, j)
  PROVE  /\ i * n + j \in 0..m * n - 1
         /\ Part(Part(s, m, i), n, j) = Part(s, m * n, i * n + j)
<1>0. /\ s \in Seq(S) /\ w \in Nat /\ Len(s) = (m * n) * w
      /\ m \in Nat \ {0} /\ n \in Nat \ {0} /\ i \in 0..m-1 /\ j \in 0..n-1
  BY DEF Cuts, Nested
<1>1. m * n \in Nat \ {0} /\ n * w \in Nat /\ (m * n) * w = m * (n * w)
      /\ (i * n + j) * w = i * (n * w) + j * w
  BY <1>0
<1>2. i * n + j \in 0..m * n - 1
  <2>1. j + 1 \in 1..n
    BY <1>0
  <2>2. i * n + (j + 1) \in 1..m * n
    BY <1>0, <2>1, PartPlace
  <2> QED BY <1>0, <2>2, MulNext
<1> DEFINE p == Part(s, m, i)
           q == Part(p, n, j)
           t == Part(s, m * n, i * n + j)
           mn == m * n
           k == i * n + j
           nw == n * w
<1>3. Slice(S, s, nw, i, p)
  <2>1. Cuts(S, s, m, nw)
    BY <1>0, <1>1 DEF Cuts
  <2> QED BY <1>0, <2>1, PartIs, Zenon
<1>4. Slice(S, p, w, j, q)
  <2>1. Cuts(S, p, n, w)
    BY <1>0, <1>3 DEF Cuts, Slice
  <2> HIDE DEF p
  <2> QED BY <1>0, <2>1, PartIs, Zenon
<1>5. Slice(S, s, w, k, t)
  <2>1. Cuts(S, s, mn, w)
    BY <1>0, <1>1 DEF Cuts
  <2> QED BY <1>0, <1>2, <2>1, PartIs, Zenon
<1>6. ASSUME NEW x \in 1..w PROVE q[x] = t[x]
  <2>1. j * w + x \in 1..nw
    BY <1>0, PartPlace
  <2>2. q[x] = s[i * nw + (j * w + x)]
    BY <1>0, <1>3, <1>4, <2>1 DEF Slice
  <2>3. i * nw + (j * w + x) = k * w + x
    BY <1>0, <1>1
  <2> QED BY <1>5, <2>2, <2>3 DEF Slice
<1>7. q = t
  <2> HIDE DEF q, t
  <2>1. q \in Seq(S) /\ t \in Seq(S) /\ Len(q) = w /\ Len(t) = w
    BY <1>0, <1>4, <1>5 DEF Slice
  <2> QED BY ONLY <1>0, <2>1, <1>6, SeqEq
<1> QED BY <1>2, <1>7

\* The parts of joined sequences of one length are those sequences...
LEMMA PartOfFlat ==
  ASSUME NEW S, NEW s \in Seq(Seq(S)), NEW w \in Nat, Len(s) # 0,
         \A i \in 1..Len(s) : Len(s[i]) = w,
         NEW i \in 0..Len(s)-1
  PROVE  Part(Flat(s), Len(s), i) = s[i + 1]
<1> DEFINE n == Len(s)
           t == Flat(s)
           p == Part(t, n, i)
<1>1. n \in Nat \ {0} /\ i + 1 \in 1..n /\ s[i + 1] \in Seq(S) /\ Len(s[i + 1]) = w
  OBVIOUS
<1>2. /\ t \in Seq(S) /\ Len(t) = n * w
      /\ \A k \in 1..n, j \in 1..w : t[(k - 1) * w + j] = s[k][j]
  BY FlatUniform
<1> HIDE DEF t, n
<1>3. Slice(S, t, w, i, p)
  <2>1. Cuts(S, t, n, w) /\ i \in 0..n-1
    BY <1>1, <1>2 DEF Cuts, n
  <2> QED BY <2>1, PartIs, Zenon
<1>4. ASSUME NEW j \in 1..w PROVE p[j] = s[i + 1][j]
  <2>1. t[((i + 1) - 1) * w + j] = s[i + 1][j]
    BY <1>1, <1>2, Zenon
  <2>2. (i + 1) - 1 = i
    OBVIOUS
  <2> QED BY <1>3, <2>1, <2>2 DEF Slice
<1> HIDE DEF p
<1>5. p = s[i + 1]
  BY <1>1, <1>3, <1>4, SeqEq DEF Slice
<1> QED BY <1>5 DEF p, n, t

\* ...and a sequence is its parts joined.
LEMMA FlatOfParts ==
  ASSUME NEW S, NEW s \in Seq(S), NEW n \in Nat \ {0}, NEW w \in Nat,
         Len(s) = n * w
  PROVE  Flat([i \in 1..n |-> Part(s, n, i - 1)]) = s
<1> DEFINE ps == [i \in 1..n |-> Part(s, n, i - 1)]
           t == Flat(ps)
<1>1. ASSUME NEW i \in 1..n
      PROVE  /\ ps[i] \in Seq(S) /\ Len(ps[i]) = w
             /\ \A j \in 1..w : ps[i][j] = s[(i - 1) * w + j]
  <2>1. i - 1 \in 0..n-1 /\ Cuts(S, s, n, w)
    BY DEF Cuts
  <2>2. Slice(S, s, w, i - 1, Part(s, n, i - 1))
    BY <2>1, PartIs, Zenon
  <2>3. ps[i] = Part(s, n, i - 1)
    OBVIOUS
  <2> HIDE DEF ps
  <2> QED BY <2>2, <2>3 DEF Slice
<1>2. ps \in Seq(Seq(S)) /\ Len(ps) = n
  <2>1. DOMAIN ps = 1..n /\ ps = [i \in 1..n |-> ps[i]]
    OBVIOUS
  <2>2. \A i \in 1..n : ps[i] \in Seq(S)
    BY <1>1
  <2> HIDE DEF ps
  <2> QED BY <2>1, <2>2, MakeSeq
<1> HIDE DEF ps
<1>3. /\ t \in Seq(S) /\ Len(t) = n * w
      /\ \A i \in 1..n, j \in 1..w : t[(i - 1) * w + j] = ps[i][j]
  <2>1. \A i \in 1..Len(ps) : Len(ps[i]) = w
    BY <1>1, <1>2
  <2>2. /\ Flat(ps) \in Seq(S) /\ Len(Flat(ps)) = Len(ps) * w
        /\ \A i \in 1..Len(ps), j \in 1..w : Flat(ps)[(i - 1) * w + j] = ps[i][j]
    BY <1>2, <2>1, FlatUniform, Zenon
  <2> QED BY <1>2, <2>2
<1> HIDE DEF t
<1>4. ASSUME NEW x \in 1..n * w PROVE t[x] = s[x]
  <2>1. PICK i \in 0..n-1, j \in 1..w : x = i * w + j
    BY PlacePart
  <2>2. i + 1 \in 1..n /\ (i + 1) - 1 = i
    OBVIOUS
  <2>3. t[i * w + j] = ps[i + 1][j] /\ ps[i + 1][j] = s[i * w + j]
    BY <1>1, <1>3, <2>2
  <2> QED BY <2>1, <2>3
<1>5. t = s
  BY <1>3, <1>4, SeqEq
<1> QED BY <1>5 DEF t, ps

\* The smaller of two numbers
LEMMA MinOf ==
  ASSUME NEW a \in Nat, NEW b \in Nat, a <= b
  PROVE  Min({a, b}) = a
BY DEF Min

\* torch.chunk of a tensor whose length n divides
LEMMA ChunkIs ==
  ASSUME NEW S, NEW s \in Seq(S), NEW n \in Nat \ {0}, NEW w \in Nat \ {0},
         Len(s) = n * w
  PROVE  Chunk(s, n) = [i \in 1..n |-> Part(s, n, i - 1)]
<1> DEFINE size == (Len(s) + n - 1) \div n
           pieces == (Len(s) + size - 1) \div size
<1>1. size = w
  <2>1. n * w = w * n /\ w * n \in Nat
    OBVIOUS
  <2>2. Len(s) + n - 1 = w * n + (n - 1)
    BY <2>1
  <2>3. n - 1 \in 0..n-1
    OBVIOUS
  <2>4. (w * n + (n - 1)) \div n = w
    BY <2>3, DivIs
  <2> QED BY <2>2, <2>4
<1>2. pieces = n
  <2>1. n * w \in Nat
    OBVIOUS
  <2>2. Len(s) + w - 1 = n * w + (w - 1)
    BY <2>1
  <2>3. w - 1 \in 0..w-1
    OBVIOUS
  <2>4. (n * w + (w - 1)) \div w = n
    BY <2>3, DivIs
  <2> QED BY <1>1, <2>2, <2>4
<1>3. ASSUME NEW i \in 1..n
      PROVE  SubSeq(s, (i - 1) * w + 1, Min({i * w, Len(s)})) = Part(s, n, i - 1)
  <2>1. i * w \in Nat /\ n * w \in Nat /\ i * w <= n * w
    BY MulMono, MulPos
  <2>2. Min({i * w, Len(s)}) = i * w
    BY <2>1, MinOf
  <2>3. Part(s, n, i - 1) = SubSeq(s, (i - 1) * w + 1, ((i - 1) + 1) * w)
    BY DivExact DEF Part
  <2>4. (i - 1) + 1 = i
    OBVIOUS
  <2> QED BY <2>2, <2>3, <2>4
<1>4. Chunk(s, n) = [i \in 1..pieces |->
        SubSeq(s, (i - 1) * size + 1, Min({i * size, Len(s)}))]
  BY DEF Chunk
<1> HIDE DEF size, pieces
<1> QED BY <1>1, <1>2, <1>3, <1>4

-----------------------------------------------------------------------------
(* The parameters of a rank, by name.                                     *)

Names ==
  {"word_embeddings", "output_layer", "final_layernorm", "qkv_norm", "qkv",
   "qkv_bias", "q_layernorm", "k_layernorm", "proj", "fc1_norm",
   "pre_mlp_layernorm", "fc1", "fc2", "router", "expert_fc1", "expert_fc2"}

Key == Int \X Names \X Int \X Int

LayerNames(j) ==
  {"proj", "qkv_norm", "qkv"} \cup (IF j.bias THEN {"qkv_bias"} ELSE {})
  \cup (IF j.qknorm THEN {"q_layernorm", "k_layernorm"} ELSE {})
  \cup (IF j.experts > 0 THEN {"pre_mlp_layernorm", "router"}
        ELSE {"fc1_norm", "fc1", "fc2"})

NamedKeys(j, p, v) ==
  (IF p = 0 /\ v = 0 THEN {<<v, "word_embeddings", -1, -1>>} ELSE {})
  \cup ({<<v, n, i, -1>> : n \in LayerNames(j), i \in 0..LayersIn(j, p, v) - 1}
        \cup {<<v, n, i, e>> : n \in {"expert_fc1", "expert_fc2"},
                               i \in 0..LayersIn(j, p, v) - 1,
                               e \in 0..(j.experts \div j.ep) - 1})
  \cup (IF p = j.pp - 1 /\ v = j.vpp - 1 THEN {<<v, "final_layernorm", -1, -1>>} ELSE {})
  \cup (IF (p = j.pp - 1 /\ v = j.vpp - 1) /\ ~(j.tied /\ j.pp = 1)
        THEN {<<v, "output_layer", -1, -1>>} ELSE {})

\* s is a sequence over S of exactly the members of X.
Lists(S, s, X) == s \in Seq(S) /\ ToSet(s) = X

\* Nothing is listed by the empty sequence.
LEMMA ListsNone ==
  ASSUME NEW S PROVE Lists(S, << >>, {})
BY DEF Lists, ToSet

\* A sequence of one lists it.
LEMMA ListsOne ==
  ASSUME NEW S, NEW a \in S PROVE Lists(S, <<a>>, {a})
BY DEF Lists, ToSet

\* A sequence of two lists both.
LEMMA ListsTwo ==
  ASSUME NEW S, NEW a \in S, NEW b \in S PROVE Lists(S, <<a, b>>, {a, b})
<1> DEFINE s == <<a, b>>
<1>1. s \in Seq(S) /\ DOMAIN s = {1, 2} /\ s[1] = a /\ s[2] = b
  OBVIOUS
<1> HIDE DEF s
<1>2. {s[i] : i \in DOMAIN s} = {a, b}
  BY <1>1
<1> QED BY <1>1, <1>2 DEF Lists, ToSet, s

\* A sequence of three lists the three.
LEMMA ListsThree ==
  ASSUME NEW S, NEW a \in S, NEW b \in S, NEW c \in S
  PROVE  Lists(S, <<a, b, c>>, {a, b, c})
<1> DEFINE s == <<a, b, c>>
<1>1. s \in Seq(S) /\ DOMAIN s = {1, 2, 3} /\ s[1] = a /\ s[2] = b /\ s[3] = c
  OBVIOUS
<1> HIDE DEF s
<1>2. {s[i] : i \in DOMAIN s} = {a, b, c}
  BY <1>1
<1> QED BY <1>1, <1>2 DEF Lists, ToSet, s

\* Two sequences joined list what either lists.
LEMMA ListsConcat ==
  ASSUME NEW S, NEW a, NEW A, NEW b, NEW B, Lists(S, a, A), Lists(S, b, B)
  PROVE  Lists(S, a \o b, A \cup B)
<1>1. a \in Seq(S) /\ b \in Seq(S) /\ ToSet(a) = A /\ ToSet(b) = B
  BY DEF Lists
<1>2. a \o b \in Seq(S)
  BY <1>1
<1>3. ToSet(a \o b) = ToSet(a) \cup ToSet(b)
  BY <1>1, ToSetConcat
<1> QED BY <1>1, <1>2, <1>3 DEF Lists

\* What is listed on a condition
LEMMA ListsOpt ==
  ASSUME NEW S, NEW c \in BOOLEAN, NEW s, NEW X, Lists(S, s, X)
  PROVE  Lists(S, Opt(c, s), IF c THEN X ELSE {})
<1>1. CASE c
  BY <1>1 DEF Opt
<1>2. CASE ~c
  BY <1>2, ListsNone DEF Opt
<1> QED BY <1>1, <1>2

\* A sequence, a set for each of n numbers from 0; a function of each member
FlatFrom(F, n) == Flat([i \in 1..n |-> F[i - 1]])
UnionFrom(X, n) == UNION {X[i] : i \in 0..n-1}
Mapped(g, s) == [n \in 1..Len(s) |-> g[s[n]]]
Image(g, X) == {g[x] : x \in X}

\* Joins a sequence for each of n numbers from 0.
LEMMA ListsFlat ==
  ASSUME NEW S, NEW n \in Nat, NEW F, NEW X,
         \A i \in 0..n-1 : Lists(S, F[i], X[i])
  PROVE  Lists(S, FlatFrom(F, n), UnionFrom(X, n))
<1> DEFINE G == [i \in 1..n |-> F[i - 1]]
<1>1. ASSUME NEW i \in 1..n PROVE G[i] \in Seq(S) /\ ToSet(G[i]) = X[i - 1]
  <2>1. i - 1 \in 0..n-1
    OBVIOUS
  <2>2. Lists(S, F[i - 1], X[i - 1])
    BY <2>1
  <2> QED BY <2>2 DEF Lists
<1>2. G \in Seq(Seq(S)) /\ DOMAIN G = 1..n
  <2>1. G \in [1..n -> Seq(S)] /\ DOMAIN G = 1..n
    BY <1>1
  <2> HIDE DEF G
  <2> QED BY <2>1
<1> HIDE DEF G
<1>3. /\ Flat(G) \in Seq(S)
      /\ ToSet(Flat(G)) = UNION {ToSet(G[i]) : i \in DOMAIN G}
  BY <1>2, FlatInto, Zenon
<1>4. UNION {ToSet(G[i]) : i \in DOMAIN G} = UNION {X[i] : i \in 0..n-1}
  <2>1. ASSUME NEW i \in 0..n-1 PROVE i + 1 \in 1..n /\ ToSet(G[i + 1]) = X[i]
    <3>1. i + 1 \in 1..n /\ (i + 1) - 1 = i
      OBVIOUS
    <3> QED BY <1>1, <3>1
  <2>2. ASSUME NEW i \in 1..n PROVE i - 1 \in 0..n-1 /\ ToSet(G[i]) = X[i - 1]
    BY <1>1
  <2>3. \A x : (\E i \in 1..n : x \in ToSet(G[i])) <=> (\E i \in 0..n-1 : x \in X[i])
    BY <2>1, <2>2
  <2> QED BY <1>2, <2>3, Zenon
<1> QED BY <1>3, <1>4 DEF G, Lists, FlatFrom, UnionFrom

\* A function of each member
LEMMA ListsMap ==
  ASSUME NEW D, NEW S, NEW s, NEW X, Lists(D, s, X),
         NEW g, \A x \in X : g[x] \in S
  PROVE  Lists(S, Mapped(g, s), Image(g, X))
<1>1. s \in Seq(D) /\ Len(s) \in Nat /\ DOMAIN s = 1..Len(s)
  BY DEF Lists
<1>2. X = {s[n] : n \in 1..Len(s)}
  BY <1>1, Zenon DEF Lists, ToSet
<1> DEFINE t == [n \in 1..Len(s) |-> g[s[n]]]
<1>3. DOMAIN t = 1..Len(s) /\ \A n \in 1..Len(s) : t[n] = g[s[n]] /\ t[n] \in S
  BY <1>2
<1>4. t \in Seq(S)
  BY <1>1, <1>3
<1> HIDE DEF t
<1>5. {t[n] : n \in DOMAIN t} = {g[x] : x \in X}
  BY <1>2, <1>3
<1> QED BY <1>4, <1>5 DEF Lists, ToSet, t, Mapped, Image

\* named_parameters of a chunk names its keys and no others.
LEMMA NamedIs ==
  ASSUME NEW j, NEW p, NEW v \in Nat, LayersIn(j, p, v) \in Nat,
         j.experts \div j.ep \in Nat, j.bias \in BOOLEAN, j.qknorm \in BOOLEAN
  PROVE  Lists(Key, Named(j, p, v), NamedKeys(j, p, v))
<1> DEFINE
      n1 == <<"proj", "qkv_norm", "qkv">>
      n2 == Opt(j.bias, <<"qkv_bias">>)
      n3 == Opt(j.qknorm, <<"q_layernorm", "k_layernorm">>)
      n4 == IF j.experts > 0 THEN <<"pre_mlp_layernorm", "router">>
            ELSE <<"fc1_norm", "fc1", "fc2">>
      names == n1 \o n2 \o n3 \o n4
      k == LayersIn(j, p, v)
      E == j.experts \div j.ep
      Dense(i) == [n \in 1..Len(names) |-> <<v, names[n], i, -1>>]
      Sparse(i) == Flat([e \in 1..E |-> <<<<v, "expert_fc1", i, e - 1>>,
                                          <<v, "expert_fc2", i, e - 1>>>>])
      Layer(i) == Dense(i) \o Sparse(i)
      Layers == Flat([i \in 1..k |-> Layer(i - 1)])
      emb == <<<<v, "word_embeddings", -1, -1>>>>
      norm == <<<<v, "final_layernorm", -1, -1>>>>
      out == <<<<v, "output_layer", -1, -1>>>>
      first == p = 0 /\ v = 0
      last == p = j.pp - 1 /\ v = j.vpp - 1
      head == last /\ ~(j.tied /\ j.pp = 1)
      DenseKeys(i) == {<<v, n, i, -1>> : n \in LayerNames(j)}
      SparseKeys(i) == {<<v, n, i, e>> : n \in {"expert_fc1", "expert_fc2"}, e \in 0..E-1}
<1>1. Named(j, p, v) = Opt(first, emb) \o Layers \o Opt(last, norm) \o Opt(head, out)
  BY DEF Named
<1>2. Lists(Names, names, LayerNames(j))
  <2>1. Lists(Names, n1, {"proj", "qkv_norm", "qkv"})
    BY ListsThree DEF Names
  <2>2. Lists(Names, n2, IF j.bias THEN {"qkv_bias"} ELSE {})
    <3>1. Lists(Names, <<"qkv_bias">>, {"qkv_bias"})
      BY ListsOne DEF Names
    <3> QED BY <3>1, ListsOpt, Zenon
  <2>3. Lists(Names, n3, IF j.qknorm THEN {"q_layernorm", "k_layernorm"} ELSE {})
    <3>1. Lists(Names, <<"q_layernorm", "k_layernorm">>, {"q_layernorm", "k_layernorm"})
      BY ListsTwo DEF Names
    <3> QED BY <3>1, ListsOpt, Zenon
  <2>4. Lists(Names, n4, IF j.experts > 0 THEN {"pre_mlp_layernorm", "router"}
                          ELSE {"fc1_norm", "fc1", "fc2"})
    BY ListsTwo, ListsThree DEF Names
  <2> HIDE DEF n1, n2, n3, n4
  <2> DEFINE A == {"proj", "qkv_norm", "qkv"}
             B == IF j.bias THEN {"qkv_bias"} ELSE {}
             C == IF j.qknorm THEN {"q_layernorm", "k_layernorm"} ELSE {}
             D == IF j.experts > 0 THEN {"pre_mlp_layernorm", "router"}
                  ELSE {"fc1_norm", "fc1", "fc2"}
  <2> HIDE DEF A, B, C, D
  <2>5. Lists(Names, n1 \o n2, A \cup B)
    BY <2>1, <2>2, ListsConcat, Zenon DEF A, B
  <2>6. Lists(Names, n1 \o n2 \o n3, (A \cup B) \cup C)
    BY <2>3, <2>5, ListsConcat, Zenon DEF C
  <2>7. Lists(Names, n1 \o n2 \o n3 \o n4, ((A \cup B) \cup C) \cup D)
    BY <2>4, <2>6, ListsConcat, Zenon DEF D
  <2>8. LayerNames(j) = ((A \cup B) \cup C) \cup D
    BY Zenon DEF LayerNames, A, B, C, D
  <2> QED BY <2>7, <2>8
<1> HIDE DEF names
<1>3. k \in Nat /\ E \in Nat
  OBVIOUS
<1> HIDE DEF k, E
<1>4. ASSUME NEW i \in Int PROVE Lists(Key, Dense(i), DenseKeys(i))
  <2> DEFINE g == [n \in LayerNames(j) |-> <<v, n, i, -1>>]
  <2>1. LayerNames(j) \subseteq Names
    BY DEF LayerNames, Names
  <2>2. \A n \in LayerNames(j) : g[n] \in Key /\ g[n] = <<v, n, i, -1>>
    BY <2>1 DEF Key
  <2>3. Lists(Key, Mapped(g, names), Image(g, LayerNames(j)))
    <3> HIDE DEF g
    <3> QED BY <1>2, <2>2, ListsMap, Zenon
  <2>4. Mapped(g, names) = Dense(i)
    <3>1. \A n \in 1..Len(names) : names[n] \in LayerNames(j)
      BY <1>2 DEF Lists, ToSet
    <3> QED BY <2>2, <3>1 DEF Mapped
  <2>5. Image(g, LayerNames(j)) = DenseKeys(i)
    BY <2>2 DEF Image
  <2> QED BY <2>3, <2>4, <2>5
<1>5. ASSUME NEW i \in Int PROVE Lists(Key, Sparse(i), SparseKeys(i))
  <2> DEFINE F == [e \in 0..E-1 |-> <<<<v, "expert_fc1", i, e>>, <<v, "expert_fc2", i, e>>>>]
             X == [e \in 0..E-1 |-> {<<v, "expert_fc1", i, e>>, <<v, "expert_fc2", i, e>>}]
  <2>1. ASSUME NEW e \in 0..E-1 PROVE Lists(Key, F[e], X[e])
    <3>1. <<v, "expert_fc1", i, e>> \in Key /\ <<v, "expert_fc2", i, e>> \in Key
      BY DEF Key, Names
    <3>2. Lists(Key, <<<<v, "expert_fc1", i, e>>, <<v, "expert_fc2", i, e>>>>,
                {<<v, "expert_fc1", i, e>>, <<v, "expert_fc2", i, e>>})
      BY <3>1, ListsTwo, Zenon
    <3> QED BY <3>2
  <2>2. Lists(Key, FlatFrom(F, E), UnionFrom(X, E))
    <3> HIDE DEF F, X
    <3> QED BY <1>3, <2>1, ListsFlat, Zenon
  <2>3. Sparse(i) = FlatFrom(F, E)
    <3>1. \A e \in 1..E : e - 1 \in 0..E-1
      BY <1>3
    <3>2. [e \in 1..E |-> F[e - 1]] =
            [e \in 1..E |-> <<<<v, "expert_fc1", i, e - 1>>, <<v, "expert_fc2", i, e - 1>>>>]
      BY <3>1
    <3> QED BY <3>2 DEF FlatFrom
  <2>4. UnionFrom(X, E) = SparseKeys(i)
    BY DEF UnionFrom
  <2> HIDE DEF F, X, Sparse, SparseKeys
  <2> QED BY <2>2, <2>3, <2>4, Zenon
<1> HIDE DEF Dense, Sparse, DenseKeys, SparseKeys
<1>6. ASSUME NEW i \in Int PROVE Lists(Key, Layer(i), DenseKeys(i) \cup SparseKeys(i))
  BY <1>4, <1>5, ListsConcat, Zenon
<1> DEFINE LK == {<<v, n, i, -1>> : n \in LayerNames(j), i \in 0..k - 1}
                 \cup {<<v, n, i, e>> : n \in {"expert_fc1", "expert_fc2"},
                                        i \in 0..k - 1, e \in 0..E - 1}
<1> HIDE DEF Layer
<1>7. Lists(Key, Layers, LK)
  <2> DEFINE F == [i \in 0..k-1 |-> Layer(i)]
             X == [i \in 0..k-1 |-> DenseKeys(i) \cup SparseKeys(i)]
  <2>1. ASSUME NEW i \in 0..k-1 PROVE Lists(Key, F[i], X[i])
    <3>1. Lists(Key, Layer(i), DenseKeys(i) \cup SparseKeys(i))
      BY <1>6
    <3> QED BY <3>1
  <2>2. Lists(Key, FlatFrom(F, k), UnionFrom(X, k))
    <3> HIDE DEF F, X
    <3> QED BY <1>3, <2>1, ListsFlat, Zenon
  <2>3. Layers = FlatFrom(F, k)
    <3>1. \A i \in 1..k : i - 1 \in 0..k-1
      BY <1>3
    <3>2. [i \in 1..k |-> F[i - 1]] = [i \in 1..k |-> Layer(i - 1)]
      BY <3>1
    <3> QED BY <3>2 DEF FlatFrom
  <2>4. UnionFrom(X, k) = LK
    BY DEF UnionFrom, LK, DenseKeys, SparseKeys
  <2> HIDE DEF LK
  <2> QED BY <2>2, <2>3, <2>4
<1> HIDE DEF Layers
<1> DEFINE A == IF first THEN {<<v, "word_embeddings", -1, -1>>} ELSE {}
           B == IF last THEN {<<v, "final_layernorm", -1, -1>>} ELSE {}
           C == IF head THEN {<<v, "output_layer", -1, -1>>} ELSE {}
<1>8. /\ Lists(Key, Opt(first, emb), A)
      /\ Lists(Key, Opt(last, norm), B)
      /\ Lists(Key, Opt(head, out), C)
  <2>1. first \in BOOLEAN /\ last \in BOOLEAN /\ head \in BOOLEAN
    OBVIOUS
  <2>2. /\ <<v, "word_embeddings", -1, -1>> \in Key
        /\ <<v, "final_layernorm", -1, -1>> \in Key
        /\ <<v, "output_layer", -1, -1>> \in Key
    BY DEF Key, Names
  <2>3. /\ Lists(Key, emb, {<<v, "word_embeddings", -1, -1>>})
        /\ Lists(Key, norm, {<<v, "final_layernorm", -1, -1>>})
        /\ Lists(Key, out, {<<v, "output_layer", -1, -1>>})
    BY <2>2, ListsOne, Zenon
  <2> HIDE DEF first, last, head, emb, norm, out
  <2> QED BY <2>1, <2>3, ListsOpt, Zenon
<1> HIDE DEF A, B, C, LK
<1>9. Lists(Key, Opt(first, emb) \o Layers, A \cup LK)
  BY <1>7, <1>8, ListsConcat, Zenon
<1>10. Lists(Key, Opt(first, emb) \o Layers \o Opt(last, norm), (A \cup LK) \cup B)
  BY <1>8, <1>9, ListsConcat, Zenon
<1>11. Lists(Key, Opt(first, emb) \o Layers \o Opt(last, norm) \o Opt(head, out),
             ((A \cup LK) \cup B) \cup C)
  BY <1>8, <1>10, ListsConcat, Zenon
<1>12. NamedKeys(j, p, v) = ((A \cup LK) \cup B) \cup C
  BY DEF NamedKeys, A, LK, B, C, k, E
<1> QED BY <1>1, <1>11, <1>12, Zenon

-----------------------------------------------------------------------------
(* The program of the loader.                                             *)

Froms ==
  {<<"embed">>, <<"norm">>, <<"lm_head">>, <<"input_norm">>, <<"q_norm">>,
   <<"k_norm">>, <<"q", "k", "v">>, <<"q_bias", "k_bias", "v_bias">>, <<"o">>,
   <<"post_norm">>, <<"gate", "up">>, <<"down">>}

AnyItem == [from : Froms, to : Names, layer : Int]

LayerItems(l) ==
  {Item(<<"input_norm">>, "qkv_norm", l)}
  \cup (IF job.qknorm THEN {Item(<<"q_norm">>, "q_layernorm", l),
                            Item(<<"k_norm">>, "k_layernorm", l)} ELSE {})
  \cup {Item(<<"q", "k", "v">>, "qkv", l)}
  \cup (IF job.bias THEN {Item(<<"q_bias", "k_bias", "v_bias">>, "qkv_bias", l)} ELSE {})
  \cup {Item(<<"o">>, "proj", l), Item(<<"post_norm">>, "fc1_norm", l),
        Item(<<"gate", "up">>, "fc1", l), Item(<<"down">>, "fc2", l)}

AllItems(head) ==
  {Item(<<"embed">>, "word_embeddings", -1)}
  \cup (UNION {LayerItems(l) : l \in 0..job.layers - 1})
  \cup {Item(<<"norm">>, "final_layernorm", -1)}
  \cup (IF head THEN {Item(<<"lm_head">>, "output_layer", -1)} ELSE {})

\* A sequence of four lists the four.
LEMMA ListsFour ==
  ASSUME NEW S, NEW a \in S, NEW b \in S, NEW c \in S, NEW d \in S
  PROVE  Lists(S, <<a, b, c, d>>, {a, b, c, d})
<1> DEFINE s == <<a, b, c, d>>
<1>1. s \in Seq(S) /\ DOMAIN s = {1, 2, 3, 4} /\ s[1] = a /\ s[2] = b /\ s[3] = c
      /\ s[4] = d
  OBVIOUS
<1> HIDE DEF s
<1>2. {s[i] : i \in DOMAIN s} = {a, b, c, d}
  BY <1>1
<1> QED BY <1>1, <1>2 DEF Lists, ToSet, s

\* The fields of an item
LEMMA ItemIn ==
  ASSUME NEW f \in Froms, NEW n \in Names, NEW l \in Int
  PROVE  /\ Item(f, n, l) \in AnyItem
         /\ Item(f, n, l).from = f /\ Item(f, n, l).to = n /\ Item(f, n, l).layer = l
BY DEF Item, AnyItem

\* The program of the loader is made of the items of AllItems.
LEMMA ItemsIs ==
  ASSUME job.bias \in BOOLEAN, job.qknorm \in BOOLEAN, job.layers \in Nat,
         NEW head \in BOOLEAN
  PROVE  Lists(AnyItem, Items(head), AllItems(head))
<1> DEFINE
      s1(l) == <<Item(<<"input_norm">>, "qkv_norm", l)>>
      s2(l) == <<Item(<<"q_norm">>, "q_layernorm", l), Item(<<"k_norm">>, "k_layernorm", l)>>
      s3(l) == <<Item(<<"q", "k", "v">>, "qkv", l)>>
      s4(l) == <<Item(<<"q_bias", "k_bias", "v_bias">>, "qkv_bias", l)>>
      s5(l) == <<Item(<<"o">>, "proj", l), Item(<<"post_norm">>, "fc1_norm", l),
                 Item(<<"gate", "up">>, "fc1", l), Item(<<"down">>, "fc2", l)>>
      Layer(l) == s1(l) \o Opt(job.qknorm, s2(l)) \o s3(l) \o Opt(job.bias, s4(l)) \o s5(l)
      n == job.layers
      Layers == Flat([l \in 1..n |-> Layer(l - 1)])
      emb == <<Item(<<"embed">>, "word_embeddings", -1)>>
      norm == <<Item(<<"norm">>, "final_layernorm", -1)>>
      out == <<Item(<<"lm_head">>, "output_layer", -1)>>
<1>1. Items(head) = emb \o Layers \o norm \o Opt(head, out)
  BY DEF Items
<1>2. ASSUME NEW l \in Int PROVE Lists(AnyItem, Layer(l), LayerItems(l))
  <2> DEFINE
        A == {Item(<<"input_norm">>, "qkv_norm", l)}
        b == {Item(<<"q_norm">>, "q_layernorm", l), Item(<<"k_norm">>, "k_layernorm", l)}
        B == IF job.qknorm THEN b ELSE {}
        C == {Item(<<"q", "k", "v">>, "qkv", l)}
        d == {Item(<<"q_bias", "k_bias", "v_bias">>, "qkv_bias", l)}
        D == IF job.bias THEN d ELSE {}
        E == {Item(<<"o">>, "proj", l), Item(<<"post_norm">>, "fc1_norm", l),
              Item(<<"gate", "up">>, "fc1", l), Item(<<"down">>, "fc2", l)}
  <2>1. \A f \in Froms, m \in Names : Item(f, m, l) \in AnyItem
    BY ItemIn
  <2>2. Lists(AnyItem, s1(l), A)
    BY <2>1, ListsOne DEF Froms, Names
  <2>3. Lists(AnyItem, s2(l), b)
    BY <2>1, ListsTwo DEF Froms, Names
  <2>4. Lists(AnyItem, s3(l), C)
    BY <2>1, ListsOne DEF Froms, Names
  <2>5. Lists(AnyItem, s4(l), d)
    BY <2>1, ListsOne DEF Froms, Names
  <2>6. Lists(AnyItem, s5(l), E)
    BY <2>1, ListsFour DEF Froms, Names
  <2> HIDE DEF s1, s2, s3, s4, s5, A, b, C, d, E
  <2>7. Lists(AnyItem, Opt(job.qknorm, s2(l)), B)
    BY <2>3, ListsOpt, Zenon
  <2>8. Lists(AnyItem, Opt(job.bias, s4(l)), D)
    BY <2>5, ListsOpt, Zenon
  <2> HIDE DEF B, D
  <2>9. Lists(AnyItem, s1(l) \o Opt(job.qknorm, s2(l)), A \cup B)
    BY <2>2, <2>7, ListsConcat, Zenon
  <2>10. Lists(AnyItem, s1(l) \o Opt(job.qknorm, s2(l)) \o s3(l), A \cup B \cup C)
    BY <2>4, <2>9, ListsConcat, Zenon
  <2>11. Lists(AnyItem, s1(l) \o Opt(job.qknorm, s2(l)) \o s3(l) \o Opt(job.bias, s4(l)),
               A \cup B \cup C \cup D)
    BY <2>8, <2>10, ListsConcat, Zenon
  <2>12. Lists(AnyItem, s1(l) \o Opt(job.qknorm, s2(l)) \o s3(l) \o Opt(job.bias, s4(l)) \o s5(l),
               A \cup B \cup C \cup D \cup E)
    BY <2>6, <2>11, ListsConcat, Zenon
  <2>13. LayerItems(l) = A \cup B \cup C \cup D \cup E
    BY DEF LayerItems, A, b, B, C, d, D, E
  <2> QED BY <2>12, <2>13
<1> HIDE DEF Layer
<1>3. Lists(AnyItem, Layers, UNION {LayerItems(l) : l \in 0..n - 1})
  <2> DEFINE F == [l \in 0..n-1 |-> Layer(l)]
             X == [l \in 0..n-1 |-> LayerItems(l)]
  <2>1. ASSUME NEW l \in 0..n-1 PROVE Lists(AnyItem, F[l], X[l])
    BY <1>2
  <2>2. Lists(AnyItem, FlatFrom(F, n), UnionFrom(X, n))
    <3> HIDE DEF F, X
    <3> QED BY <2>1, ListsFlat, Zenon
  <2>3. Layers = FlatFrom(F, n)
    <3>1. \A l \in 1..n : l - 1 \in 0..n-1
      OBVIOUS
    <3>2. [l \in 1..n |-> F[l - 1]] = [l \in 1..n |-> Layer(l - 1)]
      BY <3>1
    <3> QED BY <3>2 DEF FlatFrom
  <2>4. UnionFrom(X, n) = UNION {LayerItems(l) : l \in 0..n - 1}
    BY DEF UnionFrom
  <2> HIDE DEF F, X, Layers, n
  <2> QED BY <2>2, <2>3, <2>4
<1> HIDE DEF Layers
<1> DEFINE A == {Item(<<"embed">>, "word_embeddings", -1)}
           B == UNION {LayerItems(l) : l \in 0..n - 1}
           C == {Item(<<"norm">>, "final_layernorm", -1)}
           d == {Item(<<"lm_head">>, "output_layer", -1)}
           D == IF head THEN d ELSE {}
<1>4. /\ Lists(AnyItem, emb, A) /\ Lists(AnyItem, norm, C) /\ Lists(AnyItem, out, d)
  <2>1. \A f \in Froms, m \in Names : Item(f, m, -1) \in AnyItem
    BY ItemIn
  <2> QED BY <2>1, ListsOne DEF Froms, Names
<1> HIDE DEF emb, norm, out, A, C, d
<1>5. Lists(AnyItem, Opt(head, out), D)
  BY <1>4, ListsOpt, Zenon
<1>6. Lists(AnyItem, Layers, B)
  BY <1>3
<1> HIDE DEF B, D
<1>7. Lists(AnyItem, emb \o Layers, A \cup B)
  BY <1>4, <1>6, ListsConcat, Zenon
<1>8. Lists(AnyItem, emb \o Layers \o norm, A \cup B \cup C)
  BY <1>4, <1>7, ListsConcat, Zenon
<1>9. Lists(AnyItem, emb \o Layers \o norm \o Opt(head, out), A \cup B \cup C \cup D)
  BY <1>5, <1>8, ListsConcat, Zenon
<1>10. AllItems(head) = A \cup B \cup C \cup D
  BY DEF AllItems, A, B, C, d, D, n
<1> QED BY <1>1, <1>9, <1>10, Zenon

-----------------------------------------------------------------------------
(* Layers are counted by adding up chunks, in any order.                  *)

\* g adds up f over every subset of U, an element at a time.
Sums(g, f, U) ==
  g = [s \in SUBSET U |->
         IF s = {} THEN 0
         ELSE LET x == CHOOSE y \in s : TRUE IN f[x] + g[s \ {x}]]

AnyOf(s) == CHOOSE y \in s : TRUE

\* A sum over no elements, and over one more
LEMMA SumsAt ==
  ASSUME NEW g, NEW f, NEW U, Sums(g, f, U)
  PROVE  /\ g[{}] = 0
         /\ \A s \in SUBSET U : s # {} =>
              AnyOf(s) \in s /\ g[s] = f[AnyOf(s)] + g[s \ {AnyOf(s)}]
<1>1. \A s \in SUBSET U : g[s] = IF s = {} THEN 0
         ELSE f[AnyOf(s)] + g[s \ {AnyOf(s)}]
  BY DEF Sums, AnyOf
<1>2. \A s : s # {} => AnyOf(s) \in s
  BY DEF AnyOf
<1> QED BY <1>1, <1>2

\* There is a sum over every finite set.
LEMMA SumsExist ==
  ASSUME NEW f, NEW U, IsFiniteSet(U) PROVE \E g : Sums(g, f, U)
<1> DEFINE Body(g, s) == IF s = {} THEN 0
             ELSE f[CHOOSE y \in s : TRUE] + g[s \ {CHOOSE y \in s : TRUE}]
           Upto(g, m) == \A s \in SUBSET U : Cardinality(s) <= m => g[s] = Body(g, s)
           T == {m \in Nat : \E g : Upto(g, m)}
<1>1. \A s \in SUBSET U : IsFiniteSet(s) /\ Cardinality(s) \in Nat
                          /\ Cardinality(s) <= Cardinality(U) /\ Cardinality(U) \in Nat
  BY FS_Subset, FS_CardinalityType
<1>2. \A s \in SUBSET U : s # {} => LET x == CHOOSE y \in s : TRUE
        IN x \in s /\ s \ {x} \in SUBSET U /\ Cardinality(s \ {x}) = Cardinality(s) - 1
  <2> SUFFICES ASSUME NEW s \in SUBSET U, s # {}
               PROVE LET x == CHOOSE y \in s : TRUE
        IN x \in s /\ s \ {x} \in SUBSET U /\ Cardinality(s \ {x}) = Cardinality(s) - 1
    OBVIOUS
  <2> DEFINE x == CHOOSE y \in s : TRUE
  <2>1. x \in s
    OBVIOUS
  <2> HIDE DEF x
  <2>2. Cardinality(s \ {x}) = Cardinality(s) - 1
    BY <1>1, <2>1, FS_RemoveElement
  <2> QED BY <2>1, <2>2 DEF x
<1>3. 0 \in T
  <2> DEFINE g == [s \in SUBSET U |-> 0]
  <2>1. \A s \in SUBSET U : Cardinality(s) <= 0 => s = {}
    BY <1>1, FS_EmptySet
  <2>2. Upto(g, 0)
    BY <2>1
  <2> QED BY <2>2
<1>4. ASSUME NEW m \in Nat, m \in T PROVE m + 1 \in T
  <2>1. PICK g : Upto(g, m)
    BY <1>4
  <2> DEFINE h == [s \in SUBSET U |-> IF Cardinality(s) <= m THEN g[s] ELSE Body(g, s)]
  <2>2. ASSUME NEW s \in SUBSET U, Cardinality(s) <= m + 1 PROVE h[s] = Body(h, s)
    <3>1. CASE s = {}
      BY <2>1, <3>1
    <3>2. CASE s # {}
      <4> DEFINE x == CHOOSE y \in s : TRUE
      <4>1. s \ {x} \in SUBSET U /\ Cardinality(s \ {x}) = Cardinality(s) - 1
        BY <1>2, <3>2
      <4>2. h[s] = f[x] + g[s \ {x}]
        BY <2>1, <3>2
      <4>3. Cardinality(s \ {x}) <= m
        BY <1>1, <2>2, <4>1
      <4>4. h[s \ {x}] = g[s \ {x}]
        BY <4>1, <4>3
      <4> QED BY <3>2, <4>2, <4>4
    <3> QED BY <3>1, <3>2
  <2> HIDE DEF h
  <2>3. Upto(h, m + 1)
    BY <2>2
  <2> HIDE DEF Upto
  <2> QED BY <2>3
<1> HIDE DEF T
<1>5. Cardinality(U) \in T
  BY <1>1, <1>3, <1>4, Induct
<1>6. PICK g : Upto(g, Cardinality(U))
  BY <1>5 DEF T
<1> DEFINE h == [s \in SUBSET U |-> g[s]]
<1>7. ASSUME NEW s \in SUBSET U PROVE h[s] = Body(h, s)
  <2>1. g[s] = Body(g, s)
    BY <1>1, <1>6
  <2>2. CASE s = {}
    BY <2>1, <2>2
  <2>3. CASE s # {}
    <3> DEFINE x == CHOOSE y \in s : TRUE
    <3>1. s \ {x} \in SUBSET U
      BY <1>2, <2>3
    <3> QED BY <2>1, <2>3, <3>1
  <2> QED BY <2>2, <2>3
<1>8. h = [s \in SUBSET U |-> Body(h, s)]
  BY <1>7
<1> HIDE DEF h
<1>9. Sums(h, f, U)
  BY <1>8 DEF Sums
<1> QED BY <1>9

\* The order does not matter.
LEMMA SumsAdd ==
  ASSUME NEW f, NEW U, IsFiniteSet(U), \A x \in U : f[x] \in Int,
         NEW g, Sums(g, f, U)
  PROVE  \A s \in SUBSET U : g[s] \in Int /\ \A y \in U \ s : g[s \cup {y}] = g[s] + f[y]
<1> DEFINE Good(s) == g[s] \in Int /\ \A y \in U \ s : g[s \cup {y}] = g[s] + f[y]
           T == {m \in Nat : \A s \in SUBSET U : Cardinality(s) = m => Good(s)}
<1>0. \A s \in SUBSET U : s # {} =>
         AnyOf(s) \in s /\ g[s] = f[AnyOf(s)] + g[s \ {AnyOf(s)}]
  BY SumsAt, Zenon
<1>1. \A s \in SUBSET U : IsFiniteSet(s) /\ Cardinality(s) \in Nat
  BY FS_Subset, FS_CardinalityType
<1>2. ASSUME NEW s \in SUBSET U, NEW x \in s
      PROVE  s \ {x} \in SUBSET U /\ Cardinality(s \ {x}) = Cardinality(s) - 1
  BY <1>1, FS_RemoveElement
<1>3. 0 \in T
  <2> SUFFICES ASSUME NEW s \in SUBSET U, Cardinality(s) = 0 PROVE Good(s)
    OBVIOUS
  <2>1. s = {}
    BY <1>1, FS_EmptySet
  <2>2. g[{}] = 0
    BY SumsAt
  <2>3. ASSUME NEW y \in U PROVE g[{} \cup {y}] = f[y]
    <3>1. {y} \in SUBSET U /\ {y} # {}
      OBVIOUS
    <3>2. AnyOf({y}) \in {y} /\ g[{y}] = f[AnyOf({y})] + g[{y} \ {AnyOf({y})}]
      BY <3>1, SumsAt
    <3>3. AnyOf({y}) = y /\ {y} \ {y} = {} /\ {} \cup {y} = {y}
      BY <3>2
    <3>4. g[{y}] = f[y] + 0 /\ f[y] \in Int
      BY <2>2, <3>2, <3>3
    <3> QED BY <3>3, <3>4
  <2> QED BY <2>1, <2>2, <2>3
<1>4. ASSUME NEW m \in Nat, m \in T PROVE m + 1 \in T
  <2> SUFFICES ASSUME NEW s \in SUBSET U, Cardinality(s) = m + 1 PROVE Good(s)
    OBVIOUS
  <2>0. \A t \in SUBSET U : Cardinality(t) = m => Good(t)
    BY <1>4
  <2> HIDE DEF T
  <2>1. s # {}
    BY FS_EmptySet
  <2>2. PICK z \in s : g[s] = f[z] + g[s \ {z}]
    <3>1. AnyOf(s) \in s /\ g[s] = f[AnyOf(s)] + g[s \ {AnyOf(s)}]
      BY <1>0, <2>1
    <3> QED BY <3>1, Zenon
  <2>3. g[s] \in Int
    <3>1. s \ {z} \in SUBSET U /\ Cardinality(s \ {z}) = m
      BY <1>2
    <3>2. g[s \ {z}] \in Int
      BY <2>0, <3>1
    <3> QED BY <2>2, <3>2
  <2>4. ASSUME NEW y \in U \ s PROVE g[s \cup {y}] = g[s] + f[y]
    <3>1. PICK x \in s \cup {y} : g[s \cup {y}] = f[x] + g[(s \cup {y}) \ {x}]
      <4>1. s \cup {y} \in SUBSET U /\ s \cup {y} # {}
        OBVIOUS
      <4> DEFINE t == s \cup {y}
      <4>2. AnyOf(t) \in t /\ g[t] = f[AnyOf(t)] + g[t \ {AnyOf(t)}]
        BY <1>0, <4>1
      <4> HIDE DEF t
      <4>3. \E x \in t : g[t] = f[x] + g[t \ {x}]
        BY <4>2, Zenon
      <4> QED BY <4>3 DEF t
    <3>2. CASE x = y
      <4>1. (s \cup {y}) \ {x} = s
        BY <2>4, <3>2
      <4>2. f[y] \in Int /\ g[s \cup {y}] = f[y] + g[s]
        BY <3>1, <3>2, <4>1
      <4> QED BY <2>3, <4>2
    <3>3. CASE x # y
      <4> DEFINE t == s \ {x}
      <4>1. x \in s /\ x \in U
        BY <3>3
      <4>2. t \in SUBSET U /\ Cardinality(t) = m
        BY <1>2, <4>1
      <4>3. Good(t)
        BY <2>0, <4>2
      <4>4. (s \cup {y}) \ {x} = t \cup {y} /\ t \cup {x} = s /\ y \in U \ t /\ x \in U \ t
        BY <2>4, <3>3, <4>1
      <4>5. g[t \cup {y}] = g[t] + f[y] /\ g[s] = g[t] + f[x] /\ g[t] \in Int
        BY <4>3, <4>4
      <4> HIDE DEF t
      <4>6. g[s \cup {y}] = f[x] + g[t \cup {y}]
        BY <3>1, <4>4
      <4> QED BY <4>1, <4>5, <4>6
    <3> QED BY <3>2, <3>3
  <2> QED BY <2>3, <2>4
<1> HIDE DEF T
<1>5. \A m \in Nat : m \in T
  BY <1>3, <1>4, Induct
<1> QED BY <1>1, <1>5 DEF T

\* Sums of functions that agree are equal.
LEMMA SumsAgree ==
  ASSUME NEW f, NEW U, IsFiniteSet(U), NEW g, Sums(g, f, U),
         NEW k, NEW W, W \subseteq U, NEW h, Sums(h, k, W), \A x \in W : f[x] = k[x]
  PROVE  \A s \in SUBSET W : g[s] = h[s]
<1> DEFINE T == {m \in Nat : \A s \in SUBSET W : Cardinality(s) = m => g[s] = h[s]}
<1>1. \A s \in SUBSET W : IsFiniteSet(s) /\ Cardinality(s) \in Nat
  BY FS_Subset, FS_CardinalityType
<1>2. 0 \in T
  BY <1>1, FS_EmptySet, SumsAt
<1>3. ASSUME NEW m \in Nat, m \in T PROVE m + 1 \in T
  <2> SUFFICES ASSUME NEW s \in SUBSET W, Cardinality(s) = m + 1 PROVE g[s] = h[s]
    OBVIOUS
  <2>1. s # {} /\ s \in SUBSET U
    BY FS_EmptySet
  <2> DEFINE x == AnyOf(s)
  <2>2. g[s] = f[x] + g[s \ {x}]
    BY <2>1, SumsAt
  <2>3. h[s] = k[x] + h[s \ {x}]
    BY <2>1, SumsAt
  <2>4. x \in s
    BY <2>1, SumsAt
  <2> HIDE DEF x
  <2>5. Cardinality(s \ {x}) = m /\ s \ {x} \in SUBSET W
    BY <1>1, <2>4, FS_RemoveElement
  <2>6. g[s \ {x}] = h[s \ {x}]
    BY <1>3, <2>5
  <2> QED BY <2>2, <2>3, <2>4, <2>6
<1> HIDE DEF T
<1>4. \A m \in Nat : m \in T
  BY <1>2, <1>3, Induct
<1> QED BY <1>1, <1>4 DEF T

Cell(j) == (0..j.pp - 1) \X (0..j.vpp - 1)

Before(j, p, v) ==
  {c \in Cell(j) : c[2] < v \/ (c[2] = v /\ c[1] < p)}

LayerCount(j) == [c \in Cell(j) |-> LayersIn(j, c[1], c[2])]

\* What Placed adds up
LEMMA PlacedSum ==
  ASSUME NEW j, NEW p, NEW v, NEW i, j.pp \in Nat, j.vpp \in Nat
  PROVE  \E g : Sums(g, LayerCount(j), Before(j, p, v))
                /\ Placed(j, p, v, i) = g[Before(j, p, v)] + i
<1> DEFINE S == Before(j, p, v)
           f == LayerCount(j)
           Body(g, s) == IF s = {} THEN 0
              ELSE LET x == CHOOSE x \in s : TRUE
                   IN LayersIn(j, x[1], x[2]) + g[s \ {x}]
           iter == CHOOSE g : g = [s \in SUBSET S |->
              IF s = {} THEN 0
              ELSE LET x == CHOOSE x \in s : TRUE
                   IN LayersIn(j, x[1], x[2]) + g[s \ {x}]]
<1>1. Placed(j, p, v, i) = iter[S] + i
  BY DEF Placed, MapThenSumSet, MapThenFoldSet, Before, Cell
<1>2. IsFiniteSet(S)
  <2>1. IsFiniteSet(0..j.pp - 1) /\ IsFiniteSet(0..j.vpp - 1)
    <3>1. 0 \in Int /\ j.pp - 1 \in Int /\ j.vpp - 1 \in Int
      OBVIOUS
    <3> QED BY <3>1, FS_Interval, Zenon
  <2>2. IsFiniteSet(Cell(j))
    BY <2>1, FS_Product DEF Cell
  <2>3. S \subseteq Cell(j)
    BY DEF Before
  <2> QED BY <2>2, <2>3, FS_Subset
<1>3. PICK g : Sums(g, f, S)
  BY <1>2, SumsExist
<1>4. ASSUME NEW h, NEW s \in SUBSET S
      PROVE  Body(h, s) = IF s = {} THEN 0
                          ELSE LET x == CHOOSE y \in s : TRUE IN f[x] + h[s \ {x}]
  <2>1. CASE s = {}
    BY <2>1
  <2>2. CASE s # {}
    <3> DEFINE x == CHOOSE x \in s : TRUE
    <3>1. x \in s
      BY <2>2
    <3>2. x \in Cell(j)
      BY <3>1 DEF Before
    <3>3. f[x] = LayersIn(j, x[1], x[2])
      BY <3>2 DEF LayerCount
    <3> QED BY <2>2, <3>3
  <2> QED BY <2>1, <2>2
<1>5. g = [s \in SUBSET S |-> Body(g, s)]
  BY <1>3, <1>4 DEF Sums
<1>6. iter = [s \in SUBSET S |-> Body(iter, s)]
  BY <1>5
<1> HIDE DEF iter
<1>7. Sums(iter, f, S)
  BY <1>4, <1>6 DEF Sums
<1> QED BY <1>1, <1>7

-----------------------------------------------------------------------------
(* Where a chunk starts.                                                  *)

Start(j, p, v) == Placed(j, p, v, 0)

\* A layout: every chunk has a number of layers.
Counted(j) ==
  /\ j.pp \in Nat \ {0} /\ j.vpp \in Nat \ {0}
  /\ \A p \in 0..j.pp - 1, v \in 0..j.vpp - 1 : LayersIn(j, p, v) \in Nat

\* The chunks before a chunk are finitely many, with a number of layers each.
LEMMA BeforeFinite ==
  ASSUME NEW j, Counted(j), NEW p, NEW v
  PROVE  /\ IsFiniteSet(Before(j, p, v)) /\ Before(j, p, v) \subseteq Cell(j)
         /\ \A c \in Cell(j) : LayerCount(j)[c] \in Nat /\ LayerCount(j)[c] = LayersIn(j, c[1], c[2])
<1>1. IsFiniteSet(0..j.pp - 1) /\ IsFiniteSet(0..j.vpp - 1)
  <2>1. 0 \in Int /\ j.pp - 1 \in Int /\ j.vpp - 1 \in Int
    BY DEF Counted
  <2> QED BY <2>1, FS_Interval, Zenon
<1>2. IsFiniteSet(Cell(j))
  BY <1>1, FS_Product DEF Cell
<1>3. Before(j, p, v) \subseteq Cell(j)
  BY DEF Before
<1>4. IsFiniteSet(Before(j, p, v))
  BY <1>2, <1>3, FS_Subset
<1>5. ASSUME NEW c \in Cell(j)
      PROVE  LayerCount(j)[c] \in Nat /\ LayerCount(j)[c] = LayersIn(j, c[1], c[2])
  <2>1. c[1] \in 0..j.pp - 1 /\ c[2] \in 0..j.vpp - 1
    BY DEF Cell
  <2> QED BY <2>1 DEF Counted, LayerCount
<1> QED BY <1>3, <1>4, <1>5

\* A layer is placed as far from the first of its chunk as it is there.
LEMMA PlacedIs ==
  ASSUME NEW j, Counted(j), NEW p, NEW v, NEW i \in Int
  PROVE  /\ Start(j, p, v) \in Int /\ Placed(j, p, v, i) = Start(j, p, v) + i
<1> DEFINE S == Before(j, p, v)
           f == LayerCount(j)
<1>1. IsFiniteSet(S) /\ \A x \in S : f[x] \in Int
  BY BeforeFinite
<1>2. PICK g : Sums(g, f, S) /\ Placed(j, p, v, 0) = g[S] + 0
  <2>1. j.pp \in Nat /\ j.vpp \in Nat
    BY DEF Counted
  <2> QED BY <2>1, PlacedSum, Zenon
<1>3. PICK h : Sums(h, f, S) /\ Placed(j, p, v, i) = h[S] + i
  <2>1. j.pp \in Nat /\ j.vpp \in Nat
    BY DEF Counted
  <2> QED BY <2>1, PlacedSum, Zenon
<1> HIDE DEF S, f
<1>4. S \in SUBSET S
  OBVIOUS
<1>5. g[S] \in Int
  BY <1>1, <1>2, <1>4, SumsAdd, Zenon
<1>6. g[S] = h[S]
  <2>1. \A s \in SUBSET S : g[s] = h[s]
    <3>1. S \subseteq S /\ \A x \in S : f[x] = f[x]
      OBVIOUS
    <3> QED BY <1>1, <1>2, <1>3, <3>1, SumsAgree
  <2> QED BY <1>4, <2>1
<1> QED BY <1>2, <1>3, <1>5, <1>6 DEF Start

\* The first chunk starts at layer 0.
LEMMA PlacedFirst ==
  ASSUME NEW j, Counted(j) PROVE Start(j, 0, 0) = 0
<1>1. Before(j, 0, 0) = {}
  BY DEF Before, Cell, Counted
<1>2. PICK g : Sums(g, LayerCount(j), Before(j, 0, 0))
               /\ Placed(j, 0, 0, 0) = g[Before(j, 0, 0)] + 0
  <2>1. j.pp \in Nat /\ j.vpp \in Nat
    BY DEF Counted
  <2> QED BY <2>1, PlacedSum, Zenon
<1>3. g[{}] = 0
  BY <1>2, SumsAt, Zenon
<1> QED BY <1>1, <1>2, <1>3 DEF Start

\* The chunk after a chunk starts where that ends.
LEMMA StartAdd ==
  ASSUME NEW j, Counted(j), NEW p \in 0..j.pp - 1, NEW v \in 0..j.vpp - 1,
         NEW q, NEW u, Before(j, q, u) = Before(j, p, v) \cup {<<p, v>>}
  PROVE  Start(j, q, u) = Start(j, p, v) + LayersIn(j, p, v)
<1> DEFINE S == Before(j, p, v)
           W == Before(j, q, u)
           c == <<p, v>>
           f == LayerCount(j)
<1>0. j.pp \in Nat /\ j.vpp \in Nat
  BY DEF Counted
<1>1. PICK g : Sums(g, f, S) /\ Placed(j, p, v, 0) = g[S] + 0
  BY <1>0, PlacedSum, Zenon
<1>2. PICK h : Sums(h, f, W) /\ Placed(j, q, u, 0) = h[W] + 0
  BY <1>0, PlacedSum, Zenon
<1>3. IsFiniteSet(W) /\ \A x \in W : f[x] \in Int
  BY BeforeFinite
<1>4. c \notin S /\ c \in W /\ S \subseteq W
  BY DEF Before, Counted
<1>5. f[c] = LayersIn(j, p, v) /\ LayersIn(j, p, v) \in Nat
  <2>1. c \in Cell(j)
    BY DEF Cell
  <2>2. f[c] = LayersIn(j, c[1], c[2]) /\ f[c] \in Nat
    BY <2>1, BeforeFinite, Zenon
  <2> QED BY <2>2
<1>6. S \in SUBSET W /\ c \in W \ S /\ W = S \cup {c}
  BY <1>4
<1> HIDE DEF S, W, c, f
<1>7. h[S] \in Int /\ h[S \cup {c}] = h[S] + f[c]
  <2>1. \A s \in SUBSET W : h[s] \in Int /\ \A y \in W \ s : h[s \cup {y}] = h[s] + f[y]
    BY ONLY <1>2, <1>3, SumsAdd
  <2> QED BY <1>6, <2>1, Zenon
<1>8. h[S] = g[S]
  <2>1. \A s \in SUBSET S : h[s] = g[s]
    <3>1. \A x \in S : f[x] = f[x]
      OBVIOUS
    <3> QED BY <1>1, <1>2, <1>3, <1>4, <3>1, SumsAgree
  <2> QED BY <2>1
<1> QED BY <1>1, <1>2, <1>5, <1>6, <1>7, <1>8 DEF Start

\* A micro batch goes on with the next stage, and after the last with the next
\* chunk of the first.
LEMMA BeforeNext ==
  ASSUME NEW j, Counted(j), NEW v \in 0..j.vpp - 1
  PROVE  /\ \A p \in 0..j.pp - 2 :
              Before(j, p + 1, v) = Before(j, p, v) \cup {<<p, v>>}
         /\ Before(j, 0, v + 1) = Before(j, j.pp - 1, v) \cup {<<j.pp - 1, v>>}
<1>0. j.pp \in Nat \ {0} /\ j.vpp \in Nat \ {0}
  BY DEF Counted
<1>1. ASSUME NEW p \in 0..j.pp - 2
      PROVE Before(j, p + 1, v) = Before(j, p, v) \cup {<<p, v>>}
  <2>1. p \in 0..j.pp - 1
    BY <1>0
  <2>2. ASSUME NEW c \in Cell(j)
        PROVE (c[2] < v \/ (c[2] = v /\ c[1] < p + 1)) <=>
              ((c[2] < v \/ (c[2] = v /\ c[1] < p)) \/ c = <<p, v>>)
    <3>1. c = <<c[1], c[2]>> /\ c[1] \in 0..j.pp - 1 /\ c[2] \in 0..j.vpp - 1
      BY DEF Cell
    <3> QED BY <1>0, <3>1
  <2>3. <<p, v>> \in Cell(j)
    BY <2>1 DEF Cell
  <2> QED BY <2>2, <2>3 DEF Before
<1>2. Before(j, 0, v + 1) = Before(j, j.pp - 1, v) \cup {<<j.pp - 1, v>>}
  <2> DEFINE p == j.pp - 1
  <2>1. p \in 0..j.pp - 1
    BY <1>0
  <2>2. ASSUME NEW c \in Cell(j)
        PROVE (c[2] < v + 1 \/ (c[2] = v + 1 /\ c[1] < 0)) <=>
              ((c[2] < v \/ (c[2] = v /\ c[1] < p)) \/ c = <<p, v>>)
    <3>1. c = <<c[1], c[2]>> /\ c[1] \in 0..j.pp - 1 /\ c[2] \in 0..j.vpp - 1
      BY DEF Cell
    <3> QED BY <1>0, <3>1
  <2>3. <<p, v>> \in Cell(j)
    BY <2>1 DEF Cell
  <2> QED BY <2>2, <2>3 DEF Before
<1> QED BY <1>1, <1>2

\* So each chunk starts where the one before it ends.
LEMMA StartNext ==
  ASSUME NEW j, Counted(j), NEW v \in 0..j.vpp - 1
  PROVE  /\ \A p \in 0..j.pp - 2 :
              Start(j, p + 1, v) = Start(j, p, v) + LayersIn(j, p, v)
         /\ Start(j, 0, v + 1) = Start(j, j.pp - 1, v) + LayersIn(j, j.pp - 1, v)
<1>0. j.pp \in Nat \ {0} /\ j.vpp \in Nat \ {0}
  BY DEF Counted
<1>1. ASSUME NEW p \in 0..j.pp - 2
      PROVE Start(j, p + 1, v) = Start(j, p, v) + LayersIn(j, p, v)
  <2>1. p \in 0..j.pp - 1
    BY <1>0
  <2> QED BY <2>1, BeforeNext, StartAdd
<1>2. Start(j, 0, v + 1) = Start(j, j.pp - 1, v) + LayersIn(j, j.pp - 1, v)
  <2> DEFINE p == j.pp - 1
  <2>1. p \in 0..j.pp - 1
    BY <1>0
  <2>2. Before(j, 0, v + 1) = Before(j, p, v) \cup {<<p, v>>}
    BY BeforeNext
  <2> HIDE DEF p
  <2>3. Start(j, 0, v + 1) = Start(j, p, v) + LayersIn(j, p, v)
    BY <2>1, <2>2, StartAdd
  <2> QED BY <2>3 DEF p
<1> QED BY <1>1, <1>2

\* F grows as the chunks are passed.
Grows(j, F) ==
  /\ F[<<0, 0>>] = 0
  /\ \A p \in 0..j.pp - 1, v \in 0..j.vpp - 1 : F[<<p, v>>] \in Int
  /\ \A p \in 0..j.pp - 2, v \in 0..j.vpp - 1 :
       F[<<p + 1, v>>] = F[<<p, v>>] + LayersIn(j, p, v)
  /\ \A v \in 0..j.vpp - 2 :
       F[<<0, v + 1>>] = F[<<j.pp - 1, v>>] + LayersIn(j, j.pp - 1, v)

\* A closed form that grows as they do is where the chunks start.
LEMMA StartForm ==
  ASSUME NEW j, Counted(j), NEW F, Grows(j, F)
  PROVE  \A p \in 0..j.pp - 1, v \in 0..j.vpp - 1 : Start(j, p, v) = F[<<p, v>>]
<1>0. j.pp \in Nat \ {0} /\ j.vpp \in Nat \ {0}
  BY DEF Counted
<1> DEFINE R(v) == \A p \in 0..j.pp - 1 : Start(j, p, v) = F[<<p, v>>]
           T == {v \in Nat : v \in 0..j.vpp - 1 => R(v)}
<1>1. ASSUME NEW v \in 0..j.vpp - 1, Start(j, 0, v) = F[<<0, v>>] PROVE R(v)
  <2> DEFINE Q == {p \in Nat : p \in 0..j.pp - 1 => Start(j, p, v) = F[<<p, v>>]}
  <2>1. 0 \in Q
    BY <1>1
  <2>2. ASSUME NEW p \in Nat, p \in Q PROVE p + 1 \in Q
    <3>1. SUFFICES ASSUME p + 1 \in 0..j.pp - 1 PROVE Start(j, p + 1, v) = F[<<p + 1, v>>]
      OBVIOUS
    <3>2. p \in 0..j.pp - 1 /\ p \in 0..j.pp - 2
      BY <1>0, <3>1
    <3>3. Start(j, p, v) = F[<<p, v>>]
      BY <2>2, <3>2
    <3>4. Start(j, p + 1, v) = Start(j, p, v) + LayersIn(j, p, v)
      BY <3>2, StartNext
    <3>5. F[<<p + 1, v>>] = F[<<p, v>>] + LayersIn(j, p, v)
      BY <3>2 DEF Grows
    <3> QED BY <3>3, <3>4, <3>5
  <2> HIDE DEF Q
  <2>3. \A p \in Nat : p \in Q
    BY <2>1, <2>2, Induct
  <2> QED BY <2>3 DEF Q
<1>2. 0 \in T
  <2>1. Start(j, 0, 0) = F[<<0, 0>>]
    BY PlacedFirst DEF Grows
  <2>2. 0 \in 0..j.vpp - 1
    BY <1>0
  <2>3. R(0)
    BY <1>1, <2>1, <2>2
  <2> QED BY <2>3
<1>3. ASSUME NEW v \in Nat, v \in T PROVE v + 1 \in T
  <2>1. SUFFICES ASSUME v + 1 \in 0..j.vpp - 1 PROVE R(v + 1)
    OBVIOUS
  <2>2. v \in 0..j.vpp - 1 /\ v \in 0..j.vpp - 2 /\ j.pp - 1 \in 0..j.pp - 1
    BY <1>0, <2>1
  <2>3. Start(j, j.pp - 1, v) = F[<<j.pp - 1, v>>]
    BY <1>3, <2>2
  <2>4. Start(j, 0, v + 1) = Start(j, j.pp - 1, v) + LayersIn(j, j.pp - 1, v)
    BY <2>2, StartNext
  <2>5. F[<<0, v + 1>>] = F[<<j.pp - 1, v>>] + LayersIn(j, j.pp - 1, v)
    BY <2>2 DEF Grows
  <2>6. Start(j, 0, v + 1) = F[<<0, v + 1>>]
    BY <2>3, <2>4, <2>5
  <2> QED BY <1>1, <2>1, <2>6
<1> HIDE DEF T
<1>4. \A v \in Nat : v \in T
  BY <1>2, <1>3, Induct
<1>5. ASSUME NEW v \in 0..j.vpp - 1 PROVE R(v)
  <2> HIDE DEF R
  <2>1. v \in Nat
    BY <1>0
  <2> QED BY <1>4, <2>1 DEF T
<1> QED BY <1>5

-----------------------------------------------------------------------------
(* Layouts the loader asserts.                                            *)

Per(j) == (j.layers \div j.pp) \div j.vpp

\* A number has one division by w and one rest.
LEMMA Radix ==
  ASSUME NEW w \in Nat, NEW a \in Nat, NEW b \in Nat,
         NEW i \in 0..w-1, NEW k \in 0..w-1, a * w + i = b * w + k
  PROVE  a = b /\ i = k
<1>1. w \in Nat \ {0}
  OBVIOUS
<1>2. (a * w + i) \div w = a /\ (a * w + i) % w = i
  BY <1>1, DivIs
<1>3. (b * w + k) \div w = b /\ (b * w + k) % w = k
  BY <1>1, DivIs
<1> QED BY ONLY <1>2, <1>3, a * w + i = b * w + k

\* What is known of the sizes of a layout that is even
EvenFacts(j, per) ==
  /\ j.pp \in Nat \ {0} /\ j.vpp \in Nat \ {0} /\ per \in Nat \ {0}
  /\ j.layers = (per * j.pp) * j.vpp /\ j.layers \div j.vpp = per * j.pp
  /\ Counted(j)
  /\ \A p \in 0..j.pp - 1, v \in 0..j.vpp - 1 : LayersIn(j, p, v) = per

\* All that the assertions of the loader say of a layout
LEMMA EvenIs ==
  ASSUME NEW j, EvenLayout(j), j.pp \in Nat \ {0}, j.vpp \in Nat \ {0},
         j.layers \in Nat \ {0}
  PROVE  EvenFacts(j, Per(j))
<1> DEFINE per == Per(j)
<1>1. per \in Nat
  <2>1. j.layers \div j.pp \in Nat
    BY DivMod
  <2> QED BY <2>1, DivMod DEF Per
<1>2. j.layers = (per * j.pp) * j.vpp
  BY DEF EvenLayout, Per
<1> HIDE DEF per
<1>3. per # 0
  <2>1. (0 * j.pp) * j.vpp = 0
    OBVIOUS
  <2> QED BY <1>2, <2>1
<1>4. j.layers \div j.vpp = per * j.pp
  <2>1. per * j.pp \in Nat
    BY <1>1, MulPos
  <2> DEFINE a == per * j.pp
             b == j.vpp
  <2> HIDE DEF a, b
  <2>2. a \in Nat /\ b \in Nat \ {0}
    BY <2>1 DEF a, b
  <2>3. (b * a) \div b = a /\ a * b = b * a
    BY <2>2, DivExact
  <2>4. j.layers = a * b
    BY <1>2 DEF a, b
  <2> QED BY <2>3, <2>4 DEF a, b
<1>5. \A p \in 0..j.pp - 1, v \in 0..j.vpp - 1 : LayersIn(j, p, v) = per
  BY DEF EvenLayout, per, Per
<1> QED BY <1>1, <1>2, <1>3, <1>4, <1>5 DEF EvenFacts, Counted, per

\* Where the layers of an even layout are
LEMMA EvenStart ==
  ASSUME NEW j, NEW per, EvenFacts(j, per)
  PROVE  \A p \in 0..j.pp - 1, v \in 0..j.vpp - 1, i \in Int :
           Placed(j, p, v, i) = (v * (per * j.pp) + p * per) + i
<1>0. j.pp \in Nat \ {0} /\ j.vpp \in Nat \ {0} /\ per \in Nat \ {0} /\ Counted(j)
  BY DEF EvenFacts
<1> DEFINE w == per * j.pp
           F == [c \in Cell(j) |-> c[2] * w + c[1] * per]
<1>1. w \in Nat
  BY <1>0, MulPos
<1>2. ASSUME NEW p \in 0..j.pp - 1, NEW v \in 0..j.vpp - 1
      PROVE F[<<p, v>>] = v * w + p * per /\ v * w + p * per \in Nat
                 /\ v * w \in Nat /\ p * per \in Nat
  <2>1. <<p, v>> \in Cell(j)
    BY DEF Cell
  <2>2. v \in Nat /\ p \in Nat
    BY <1>0
  <2>3. v * w \in Nat /\ p * per \in Nat
    BY <1>0, <1>1, <2>2, MulPos
  <2>4. v * w + p * per \in Nat
    BY <2>3
  <2> HIDE DEF w
  <2> QED BY <2>1, <2>3, <2>4
<1> HIDE DEF F
<1>3. F[<<0, 0>>] = 0
  <2>1. F[<<0, 0>>] = 0 * w + 0 * per
    BY <1>0, <1>2
  <2>2. 0 * w = 0 /\ 0 * per = 0
    BY <1>0, <1>1
  <2> QED BY <2>1, <2>2
<1>4. ASSUME NEW p \in 0..j.pp - 2, NEW v \in 0..j.vpp - 1
      PROVE  F[<<p + 1, v>>] = F[<<p, v>>] + LayersIn(j, p, v)
  <2>1. p \in 0..j.pp - 1 /\ p + 1 \in 0..j.pp - 1
    BY <1>0
  <2>2. (p + 1) * per = p * per + per
    BY <1>0, MulNext
  <2>3. F[<<p + 1, v>>] = v * w + (p + 1) * per /\ F[<<p, v>>] = v * w + p * per
    BY <1>2, <2>1
  <2>4. LayersIn(j, p, v) = per
    BY <2>1 DEF EvenFacts
  <2>5. v * w \in Nat /\ p * per \in Nat
    BY <1>2, <2>1
  <2> DEFINE a == v * w
             b == p * per
             c == (p + 1) * per
  <2> HIDE DEF a, b, c
  <2>6. c = b + per /\ F[<<p + 1, v>>] = a + c /\ F[<<p, v>>] = a + b /\ a \in Nat /\ b \in Nat
    BY <2>2, <2>3, <2>5 DEF a, b, c
  <2> QED BY <1>0, <2>4, <2>6
<1>5. ASSUME NEW v \in 0..j.vpp - 2
      PROVE  F[<<0, v + 1>>] = F[<<j.pp - 1, v>>] + LayersIn(j, j.pp - 1, v)
  <2>1. v \in 0..j.vpp - 1 /\ v + 1 \in 0..j.vpp - 1 /\ j.pp - 1 \in 0..j.pp - 1 /\ 0 \in 0..j.pp - 1
    BY <1>0
  <2>2. (v + 1) * w = v * w + w /\ (j.pp - 1) * per = j.pp * per - per /\ j.pp * per = w
    BY <1>0, <1>1, MulNext
  <2>3. F[<<0, v + 1>>] = (v + 1) * w + 0 * per /\ F[<<j.pp - 1, v>>] = v * w + (j.pp - 1) * per
    BY <1>2, <2>1
  <2>4. LayersIn(j, j.pp - 1, v) = per /\ 0 * per = 0
    BY <1>0, <2>1 DEF EvenFacts
  <2>5. v * w \in Nat
    BY <1>2, <2>1
  <2> DEFINE a == v * w
             b == (j.pp - 1) * per
             c == (v + 1) * w
  <2> HIDE DEF a, b, c
  <2>6. c = a + w /\ b = w - per /\ F[<<0, v + 1>>] = c + 0 /\ F[<<j.pp - 1, v>>] = a + b /\ a \in Nat
    BY <2>2, <2>3, <2>4, <2>5 DEF a, b, c
  <2> HIDE DEF w
  <2> QED BY <1>0, <1>1, <2>4, <2>6
<1>6. \A p \in 0..j.pp - 1, v \in 0..j.vpp - 1 : F[<<p, v>>] \in Int
  <2>1. ASSUME NEW p \in 0..j.pp - 1, NEW v \in 0..j.vpp - 1 PROVE F[<<p, v>>] \in Int
    BY <1>2
  <2> QED BY <2>1
<1>7. \A p \in 0..j.pp - 1, v \in 0..j.vpp - 1 : Start(j, p, v) = F[<<p, v>>]
  <2> HIDE DEF w
  <2>1. Grows(j, F)
    BY <1>3, <1>4, <1>5, <1>6, Zenon DEF Grows
  <2> QED BY <1>0, <2>1, StartForm, Zenon
<1>8. ASSUME NEW p \in 0..j.pp - 1, NEW v \in 0..j.vpp - 1, NEW i \in Int
      PROVE  Placed(j, p, v, i) = (v * w + p * per) + i
  <2>1. Placed(j, p, v, i) = Start(j, p, v) + i
    BY <1>0, PlacedIs
  <2> HIDE DEF w
  <2> QED BY <1>2, <1>7, <2>1
<1> QED BY <1>8

-----------------------------------------------------------------------------
(* The loader finds the place of every layer.                             *)

\* Layer i of chunk v of stage p, counted from the first
Position(j, per, p, v, i) == (v * (per * j.pp) + p * per) + i

\* In an even layout every layer is in exactly one place.
LEMMA PositionIs ==
  ASSUME NEW j, NEW per, EvenFacts(j, per)
  PROVE  /\ \A p \in 0..j.pp - 1, v \in 0..j.vpp - 1, i \in 0..per - 1 :
              Position(j, per, p, v, i) \in 0..j.layers - 1
         /\ \A l \in 0..j.layers - 1 :
              \E p \in 0..j.pp - 1, v \in 0..j.vpp - 1, i \in 0..per - 1 :
                l = Position(j, per, p, v, i)
         /\ \A p \in 0..j.pp - 1, v \in 0..j.vpp - 1, i \in 0..per - 1,
               q \in 0..j.pp - 1, u \in 0..j.vpp - 1, k \in 0..per - 1 :
              Position(j, per, p, v, i) = Position(j, per, q, u, k) =>
                p = q /\ v = u /\ i = k
<1> DEFINE w == per * j.pp
<1>0. /\ j.pp \in Nat \ {0} /\ j.vpp \in Nat \ {0} /\ per \in Nat \ {0}
      /\ j.layers = w * j.vpp
  BY DEF EvenFacts
<1>1. w \in Nat /\ w = j.pp * per /\ w * j.vpp = j.vpp * w /\ j.layers \in Nat
  BY <1>0
<1>2. ASSUME NEW p \in 0..j.pp - 1, NEW i \in 0..per - 1
      PROVE  p * per + i \in 0..w - 1 /\ p * per \in Nat
  <2>1. i + 1 \in 1..per
    BY <1>0
  <2>2. p * per + (i + 1) \in 1..j.pp * per /\ p * per \in Nat
    BY <1>0, <2>1, PartPlace
  <2> DEFINE a == p * per
             b == j.pp * per
  <2> HIDE DEF a, b, w
  <2>3. w = b /\ a \in Nat /\ a + (i + 1) \in 1..b
    BY <1>1, <2>2 DEF a, b
  <2>4. a + i \in 0..w - 1
    BY <1>1, <2>3
  <2> QED BY <2>3, <2>4 DEF a
<1>3. ASSUME NEW p \in 0..j.pp - 1, NEW v \in 0..j.vpp - 1, NEW i \in 0..per - 1
      PROVE  /\ Position(j, per, p, v, i) = v * w + (p * per + i)
             /\ Position(j, per, p, v, i) \in 0..j.layers - 1
  <2> DEFINE y == p * per + i
             a == v * w
             b == j.vpp * w
  <2>1. y \in 0..w - 1 /\ p * per \in Nat
    BY <1>2
  <2>2. v \in Nat
    BY <1>0
  <2>3. a \in Nat
    BY <1>1, <2>2, MulPos
  <2>4. Position(j, per, p, v, i) = a + y
    <3> DEFINE c == p * per
    <3> HIDE DEF a, c
    <3>1. (a + c) + i = a + (c + i)
      BY <1>0, <2>1, <2>3 DEF c
    <3> QED BY <3>1 DEF a, c, Position
  <2>5. a + (y + 1) \in 1..b
    <3>1. y + 1 \in 1..w
      BY <1>1, <2>1
    <3> HIDE DEF y, w
    <3> QED BY <1>0, <1>1, <3>1, PartPlace
  <2>6. j.layers = b
    BY <1>0, <1>1
  <2> HIDE DEF y, a, b, w
  <2>7. a + y \in 0..j.layers - 1
    BY <1>1, <2>1, <2>3, <2>5, <2>6
  <2> QED BY <2>4, <2>7 DEF a, y
<1>4. ASSUME NEW l \in 0..j.layers - 1
      PROVE  \E p \in 0..j.pp - 1, v \in 0..j.vpp - 1, i \in 0..per - 1 :
                l = Position(j, per, p, v, i)
  <2>1. l + 1 \in 1..j.vpp * w
    BY <1>0, <1>1
  <2>2. PICK v \in 0..j.vpp - 1, y \in 1..w : l + 1 = v * w + y
    <3>1. j.vpp \in Nat /\ w \in Nat
      BY <1>0, <1>1
    <3> HIDE DEF w
    <3> QED BY ONLY <2>1, <3>1, PlacePart
  <2>a. y \in 1..j.pp * per
    <3> DEFINE x == j.pp * per
    <3> HIDE DEF w, x
    <3>1. w = x
      BY <1>1 DEF x
    <3> QED BY <3>1 DEF x
  <2>3. PICK p \in 0..j.pp - 1, z \in 1..per : y = p * per + z
    <3>1. j.pp \in Nat /\ per \in Nat
      BY <1>0
    <3> QED BY ONLY <2>a, <3>1, PlacePart
  <2>4. z - 1 \in 0..per - 1 /\ v \in Nat /\ p \in Nat
    BY <1>0
  <2>5. v * w \in Nat /\ p * per \in Nat
    BY <1>0, <1>1, <2>4, MulPos
  <2>6. l = v * w + (p * per + (z - 1))
    <3> DEFINE a == v * w
               b == p * per
    <3>1. l \in Int /\ z \in Int /\ y \in Int /\ a \in Int /\ b \in Int
      BY <1>0, <1>1, <2>5
    <3>2. l + 1 = a + y /\ y = b + z
      BY <2>2, <2>3
    <3> HIDE DEF a, b
    <3>3. l = a + (b + (z - 1))
      BY ONLY <3>1, <3>2
    <3> QED BY <3>3 DEF a, b
  <2> QED BY <1>3, <2>4, <2>6
<1>5. ASSUME NEW p \in 0..j.pp - 1, NEW v \in 0..j.vpp - 1, NEW i \in 0..per - 1,
             NEW q \in 0..j.pp - 1, NEW u \in 0..j.vpp - 1, NEW k \in 0..per - 1,
             Position(j, per, p, v, i) = Position(j, per, q, u, k)
      PROVE  p = q /\ v = u /\ i = k
  <2>1. v * w + (p * per + i) = u * w + (q * per + k)
    BY <1>3, <1>5
  <2>2. p * per + i \in 0..w - 1 /\ q * per + k \in 0..w - 1
    BY <1>2
  <2>3. v \in Nat /\ u \in Nat /\ p \in Nat /\ q \in Nat
    BY <1>0
  <2>4. v = u /\ p * per + i = q * per + k
    <3> DEFINE a == p * per + i
               b == q * per + k
    <3>1. w \in Nat \ {0}
      BY <1>0, MulPos DEF w
    <3>2. a \in 0..w - 1 /\ b \in 0..w - 1 /\ v * w + a = u * w + b
      BY <2>1, <2>2
    <3> HIDE DEF a, b, w
    <3>3. v = u /\ a = b
      BY ONLY <2>3, <3>1, <3>2, Radix
    <3> QED BY <3>3 DEF a, b
  <2>5. p = q /\ i = k
    BY <1>0, <2>3, <2>4, Radix
  <2> QED BY <2>4, <2>5
<1> QED BY <1>3, <1>4, <1>5

\* _megatron_calc_layer_map finds where each layer is.
LEMMA LayerMapIs ==
  ASSUME EvenFacts(job, Per(job))
  PROVE  /\ \A l \in 0..job.layers - 1 :
              /\ LayerMap[l].pp \in 0..job.pp - 1 /\ LayerMap[l].vpp \in 0..job.vpp - 1
              /\ LayerMap[l].idx \in 0..Per(job) - 1
              /\ Placed(job, LayerMap[l].pp, LayerMap[l].vpp, LayerMap[l].idx) = l
         /\ \A p \in 0..job.pp - 1, v \in 0..job.vpp - 1, i \in 0..Per(job) - 1 :
              /\ Placed(job, p, v, i) \in 0..job.layers - 1
              /\ LayerMap[Placed(job, p, v, i)] = [pp |-> p, vpp |-> v, idx |-> i]
<1> DEFINE per == Per(job)
           Seats == [pp : 0..job.pp - 1, vpp : 0..job.vpp - 1, idx : 0..per - 1]
           At(s) == (s.vpp * (job.layers \div job.vpp) + s.pp * per) + s.idx
<1>1. LayerMap = [l \in 0..job.layers - 1 |-> CHOOSE s \in Seats : l = At(s)]
  BY DEF LayerMap, Per
<1>2. ASSUME NEW s \in Seats
      PROVE  /\ At(s) = Position(job, per, s.pp, s.vpp, s.idx)
             /\ s.pp \in 0..job.pp - 1 /\ s.vpp \in 0..job.vpp - 1 /\ s.idx \in 0..per - 1
  BY DEF EvenFacts, Position
<1>3. ASSUME NEW p \in 0..job.pp - 1, NEW v \in 0..job.vpp - 1, NEW i \in 0..per - 1
      PROVE  Placed(job, p, v, i) = Position(job, per, p, v, i)
  <2>1. i \in Int
    BY DEF EvenFacts
  <2>2. Placed(job, p, v, i) = (v * (per * job.pp) + p * per) + i
    BY <2>1, EvenStart
  <2> QED BY <2>2 DEF Position
<1> HIDE DEF per, At
<1>4. ASSUME NEW l \in 0..job.layers - 1
      PROVE  \E s \in Seats : l = At(s)
  <2>1. PICK p \in 0..job.pp - 1, v \in 0..job.vpp - 1, i \in 0..per - 1 :
           l = Position(job, per, p, v, i)
    BY PositionIs DEF per
  <2> DEFINE s == [pp |-> p, vpp |-> v, idx |-> i]
  <2>2. s \in Seats /\ s.pp = p /\ s.vpp = v /\ s.idx = i
    OBVIOUS
  <2>3. l = At(s)
    BY <1>2, <2>1, <2>2
  <2> QED BY <2>2, <2>3
<1>5. ASSUME NEW l \in 0..job.layers - 1
      PROVE  LayerMap[l] \in Seats /\ l = At(LayerMap[l])
  <2>1. LayerMap[l] = CHOOSE s \in Seats : l = At(s)
    BY <1>1
  <2> QED BY <1>4, <2>1
<1>6. ASSUME NEW l \in 0..job.layers - 1
      PROVE  /\ LayerMap[l].pp \in 0..job.pp - 1 /\ LayerMap[l].vpp \in 0..job.vpp - 1
             /\ LayerMap[l].idx \in 0..per - 1
             /\ Placed(job, LayerMap[l].pp, LayerMap[l].vpp, LayerMap[l].idx) = l
  BY <1>2, <1>3, <1>5
<1>7. ASSUME NEW p \in 0..job.pp - 1, NEW v \in 0..job.vpp - 1, NEW i \in 0..per - 1
      PROVE  /\ Placed(job, p, v, i) \in 0..job.layers - 1
             /\ LayerMap[Placed(job, p, v, i)] = [pp |-> p, vpp |-> v, idx |-> i]
  <2> DEFINE l == Placed(job, p, v, i)
             s == LayerMap[l]
  <2>1. l = Position(job, per, p, v, i) /\ l \in 0..job.layers - 1
    BY <1>3, PositionIs DEF per
  <2>2. s \in Seats /\ l = At(s)
    BY <1>5, <2>1
  <2>3. s.pp \in 0..job.pp - 1 /\ s.vpp \in 0..job.vpp - 1 /\ s.idx \in 0..per - 1
        /\ Position(job, per, p, v, i) = Position(job, per, s.pp, s.vpp, s.idx)
    BY <1>2, <2>1, <2>2
  <2>4. p = s.pp /\ v = s.vpp /\ i = s.idx
    <3> HIDE DEF s
    <3> QED BY <2>3, PositionIs DEF per
  <2>5. s = [pp |-> p, vpp |-> v, idx |-> i]
    <3> HIDE DEF s
    <3> QED BY <2>2, <2>4
  <2> QED BY <2>1, <2>5
<1> QED BY <1>6, <1>7 DEF per

\* Two divisions are one by the product.
LEMMA DivDiv ==
  ASSUME NEW n \in Nat, NEW a \in Nat \ {0}, NEW b \in Nat \ {0}
  PROVE  (n \div a) \div b = n \div (a * b)
<1> DEFINE q == n \div a
           r == n % a
           x == q \div b
           y == q % b
<1>1. q \in Nat /\ r \in 0..a-1 /\ n = q * a + r
  BY DivMod
<1> HIDE DEF q, r
<1>2. x \in Nat /\ y \in 0..b-1 /\ q = x * b + y
  BY <1>1, DivMod
<1> HIDE DEF x, y
<1>3. y * a + r \in 0..a * b - 1
  <2>1. r + 1 \in 1..a /\ b * a = a * b /\ a * b \in Nat
    BY <1>1
  <2>2. y * a + (r + 1) \in 1..b * a /\ y * a \in Nat
    BY <1>2, <2>1, PartPlace
  <2> DEFINE c == y * a
             d == a * b
  <2>3. c \in Nat /\ d \in Nat /\ c + (r + 1) \in 1..d
    BY <2>1, <2>2
  <2> HIDE DEF c, d
  <2>4. c + r \in 0..d - 1
    BY <1>1, <2>3
  <2> QED BY <2>4 DEF c, d
<1>4. n = x * (a * b) + (y * a + r)
  <2>1. (x * b + y) * a = x * (a * b) + y * a
    BY <1>2
  <2>2. x * (a * b) \in Int /\ y * a \in Int
    BY <1>2
  <2> DEFINE c == x * (a * b)
             d == y * a
  <2> HIDE DEF c, d
  <2>3. n = (c + d) + r
    BY <1>1, <1>2, <2>1 DEF c, d
  <2>4. n = c + (d + r)
    BY <1>1, <2>2, <2>3 DEF c, d
  <2> QED BY <2>4 DEF c, d
<1>5. a * b \in Nat \ {0}
  OBVIOUS
<1>6. n \div (a * b) = x
  BY <1>2, <1>3, <1>4, <1>5, DivIs
<1> QED BY <1>6 DEF x, q

\* Megatron's numbers of ranks are what _megatron_calc_global_rank computes.
LEMMA RankAtIs ==
  ASSUME job.tp \in Nat \ {0}, job.cp \in Nat \ {0}, job.dp \in Nat \ {0},
         NEW t \in 0..job.tp - 1, NEW c \in 0..job.cp - 1, NEW d \in 0..job.dp - 1,
         NEW p \in Nat
  PROVE  RankAt(GlobalRank(t, d, p, c)) = [tp |-> t, cp |-> c, dp |-> d, pp |-> p]
<1> DEFINE a == p * job.dp + d
           b == a * job.cp + c
           n == b * job.tp + t
<1>1. a \in Nat /\ b \in Nat
  <2>1. p * job.dp \in Nat
    BY MulPos
  <2>2. a \in Nat
    BY <2>1
  <2>3. a * job.cp \in Nat
    <3> HIDE DEF a
    <3> QED BY <2>2, MulPos
  <2> HIDE DEF a
  <2> QED BY <2>2, <2>3
<1>2. a \div job.dp = p /\ a % job.dp = d
  BY DivIs
<1> HIDE DEF a
<1>3. b \div job.cp = a /\ b % job.cp = c
  BY <1>1, DivIs
<1>4. n \div job.tp = b /\ n % job.tp = t
  <2> HIDE DEF b
  <2> QED BY <1>1, DivIs
<1>5. n \in Nat
  <2> HIDE DEF b
  <2>1. b * job.tp \in Nat
    BY <1>1, MulPos
  <2> QED BY <2>1
<1> HIDE DEF b
<1>6. n \div (job.tp * job.cp) = a
  <2> HIDE DEF n
  <2>1. (n \div job.tp) \div job.cp = n \div (job.tp * job.cp)
    BY <1>5, DivDiv
  <2> QED BY <1>3, <1>4, <2>1
<1>7. n \div (job.tp * job.cp * job.dp) = p
  <2>1. job.tp * job.cp \in Nat \ {0}
    OBVIOUS
  <2> HIDE DEF n
  <2>2. (n \div (job.tp * job.cp)) \div job.dp = n \div ((job.tp * job.cp) * job.dp)
    BY <1>5, <2>1, DivDiv
  <2> QED BY <1>2, <1>6, <2>2
<1>8. GlobalRank(t, d, p, c) = n
  BY DEF GlobalRank, a, b
<1> HIDE DEF n
<1> QED BY <1>2, <1>3, <1>4, <1>6, <1>7, <1>8 DEF RankAt

-----------------------------------------------------------------------------
(* Query groups, and gate and up, are cut at the same places as they are held. *)

\* n sequences of length w each
Grid(S, s, n, w) ==
  /\ s \in Seq(Seq(S)) /\ n \in Nat \ {0} /\ w \in Nat \ {0} /\ Len(s) = n
  /\ \A i \in 1..n : Len(s[i]) = w

\* torch.chunk of a tensor whose length n divides gives its parts.
LEMMA ChunkAt ==
  ASSUME NEW S, NEW s, NEW n, NEW w, Cuts(S, s, n, w), w # 0
  PROVE  /\ Chunk(s, n) \in Seq(Seq(S)) /\ Len(Chunk(s, n)) = n
         /\ \A i \in 1..n : Chunk(s, n)[i] = Part(s, n, i - 1)
         /\ Grid(S, Chunk(s, n), n, w)
<1>1. s \in Seq(S) /\ n \in Nat \ {0} /\ w \in Nat \ {0} /\ Len(s) = n * w
  BY DEF Cuts
<1>2. Chunk(s, n) = [i \in 1..n |-> Part(s, n, i - 1)]
  BY <1>1, ChunkIs
<1>3. ASSUME NEW i \in 1..n
      PROVE  Part(s, n, i - 1) \in Seq(S) /\ Len(Part(s, n, i - 1)) = w
  <2>1. i - 1 \in 0..n - 1
    BY <1>1
  <2>2. Slice(S, s, w, i - 1, Part(s, n, i - 1))
    BY <2>1, PartIs
  <2> QED BY <2>2 DEF Slice
<1>4. Chunk(s, n) \in Seq(Seq(S)) /\ Len(Chunk(s, n)) = n
  <2> DEFINE c == [i \in 1..n |-> Part(s, n, i - 1)]
  <2>1. \A i \in 1..n : c[i] \in Seq(S)
    BY <1>3
  <2>2. DOMAIN c = 1..n /\ c = [i \in 1..n |-> c[i]]
    OBVIOUS
  <2> HIDE DEF c
  <2>3. c \in Seq(Seq(S)) /\ Len(c) = n
    BY <1>1, <2>1, <2>2, MakeSeq
  <2> QED BY <1>2, <2>3 DEF c
<1>5. \A i \in 1..n : Chunk(s, n)[i] = Part(s, n, i - 1)
  BY <1>2
<1>6. \A i \in 1..n : Len(Chunk(s, n)[i]) = w
  BY <1>3, <1>5
<1> QED BY <1>1, <1>4, <1>5, <1>6 DEF Grid

\* Equal pieces put together are cut at the same places.
LEMMA ChunkOfFlat ==
  ASSUME NEW S, NEW s, NEW n, NEW w, Grid(S, s, n, w)
  PROVE  /\ Chunk(Flat(s), n) = s
         /\ Cuts(S, Flat(s), n, w)
<1>1. s \in Seq(Seq(S)) /\ n \in Nat \ {0} /\ w \in Nat \ {0} /\ Len(s) = n
      /\ \A i \in 1..n : Len(s[i]) = w
  BY DEF Grid
<1>2. Flat(s) \in Seq(S) /\ Len(Flat(s)) = n * w
  BY <1>1, FlatUniform
<1>3. Cuts(S, Flat(s), n, w)
  BY <1>1, <1>2 DEF Cuts
<1>4. /\ Chunk(Flat(s), n) \in Seq(Seq(S)) /\ Len(Chunk(Flat(s), n)) = n
      /\ \A i \in 1..n : Chunk(Flat(s), n)[i] = Part(Flat(s), n, i - 1)
  BY <1>1, <1>3, ChunkAt
<1>5. ASSUME NEW i \in 1..n PROVE Part(Flat(s), n, i - 1) = s[i]
  <2>1. i - 1 \in 0..Len(s) - 1 /\ (i - 1) + 1 = i
    BY <1>1
  <2>2. Part(Flat(s), Len(s), i - 1) = s[(i - 1) + 1]
    BY <1>1, <2>1, PartOfFlat
  <2> QED BY <1>1, <2>1, <2>2
<1>6. \A i \in 1..n : Chunk(Flat(s), n)[i] = s[i]
  BY <1>4, <1>5
<1>7. Chunk(Flat(s), n) = s
  <2> DEFINE c == Chunk(Flat(s), n)
  <2> HIDE DEF c
  <2> QED BY <1>1, <1>4, <1>6, SeqEq DEF c
<1> QED BY <1>3, <1>7

\* Three sequences joined
LEMMA FlatThree ==
  ASSUME NEW s, Len(s) = 3
  PROVE  Flat(s) = (s[1] \o s[2]) \o s[3]
<1>0. /\ Len(s) \in Nat \ {0} /\ 1 \in 1..Len(s)-1 /\ 2 \in 1..Len(s)-1
      /\ 1 + 1 = 2 /\ 2 + 1 = 3
  OBVIOUS
<1>1. PICK f : /\ Flat(s) = f[Len(s)] /\ f[1] = s[1]
               /\ \A k \in 1..Len(s)-1 : f[k+1] = f[k] \o s[k+1]
  BY <1>0, FlatIs, Zenon
<1>2. f[1 + 1] = f[1] \o s[1 + 1] /\ f[2 + 1] = f[2] \o s[2 + 1]
  BY <1>0, <1>1, Zenon
<1> QED BY <1>0, <1>1, <1>2

\* Rows of q, k and v of query group g
QkvGroup(q, k, v, g) ==
  (Part(q, job.kv, g) \o Part(k, job.kv, g)) \o Part(v, job.kv, g)

QkvOf(q, k, v, t) ==
  Flat([g \in 1..job.kv \div job.tp |->
          QkvGroup(q, k, v, (t * (job.kv \div job.tp) + g) - 1)])

QkvOk(S, q, k, v, groups, a, b) ==
  /\ job.tp \in Nat \ {0} /\ groups \in Nat \ {0} /\ job.kv = job.tp * groups
  /\ job.kv \div job.tp = groups
  /\ a \in Nat \ {0} /\ b \in Nat \ {0}
  /\ Cuts(S, q, job.kv, a) /\ Cuts(S, k, job.kv, b) /\ Cuts(S, v, job.kv, b)

\* Groups of one rank, out of the whole tensor
LEMMA GroupOfPart ==
  ASSUME NEW S, NEW s, NEW m, NEW n, NEW w, NEW x, NEW y,
         Nested(S, s, m, n, w, x, y), w # 0
  PROVE  /\ Chunk(Part(s, m, x), n)[y + 1] = Part(s, m * n, (x * n + (y + 1)) - 1)
         /\ (x * n + (y + 1)) - 1 \in 0..m * n - 1
<1>1. /\ s \in Seq(S) /\ Len(s) = (m * n) * w /\ w \in Nat \ {0}
      /\ m \in Nat \ {0} /\ n \in Nat \ {0} /\ x \in 0..m-1 /\ y \in 0..n-1
  BY DEF Cuts, Nested
<1>2. y + 1 \in 1..n /\ (y + 1) - 1 = y
  BY <1>1
<1>3. x * n + y \in 0..m * n - 1 /\ Part(Part(s, m, x), n, y) = Part(s, m * n, x * n + y)
  BY PartOfPart
<1>4. x * n + y = (x * n + (y + 1)) - 1
  <2> DEFINE z == x * n
  <2>1. z \in Int
    BY <1>1
  <2> HIDE DEF z
  <2>2. z + y = (z + (y + 1)) - 1
    BY <1>1, <2>1
  <2> QED BY <2>2 DEF z
<1>5. Cuts(S, Part(s, m, x), n, w)
  <2> DEFINE u == n * w
  <2>1. u \in Nat /\ (m * n) * w = m * u
    BY <1>1
  <2> HIDE DEF u
  <2>2. Cuts(S, s, m, u)
    BY <1>1, <2>1 DEF Cuts
  <2>3. Slice(S, s, u, x, Part(s, m, x))
    BY <1>1, <2>2, PartIs
  <2> QED BY <1>1, <2>3 DEF u, Slice, Cuts
<1>6. \A k \in 1..n : Chunk(Part(s, m, x), n)[k] = Part(Part(s, m, x), n, k - 1)
  BY <1>1, <1>5, ChunkAt, Zenon
<1>7. Chunk(Part(s, m, x), n)[y + 1] = Part(Part(s, m, x), n, y)
  BY <1>2, <1>6
<1> QED BY <1>3, <1>4, <1>7

OfLen(S, x, m) == x \in Seq(S) /\ m \in Nat /\ Len(x) = m

\* Two sequences of known length joined
LEMMA Append2 ==
  ASSUME NEW S, NEW x, NEW y, NEW m, NEW n, OfLen(S, x, m), OfLen(S, y, n)
  PROVE  OfLen(S, x \o y, m + n)
BY DEF OfLen

\* The rows of a query group are a of q and b each of k and v.
LEMMA GroupIs ==
  ASSUME NEW S, NEW q, NEW k, NEW v, NEW groups, NEW a, NEW b,
         QkvOk(S, q, k, v, groups, a, b), NEW g \in 0..job.kv - 1
  PROVE  QkvGroup(q, k, v, g) \in Seq(S) /\ Len(QkvGroup(q, k, v, g)) = (a + b) + b
<1>1. Cuts(S, q, job.kv, a) /\ Cuts(S, k, job.kv, b) /\ Cuts(S, v, job.kv, b)
      /\ a \in Nat /\ b \in Nat
  BY DEF QkvOk
<1>2. /\ Slice(S, q, a, g, Part(q, job.kv, g)) /\ Slice(S, k, b, g, Part(k, job.kv, g))
      /\ Slice(S, v, b, g, Part(v, job.kv, g))
  BY <1>1, PartIs, Zenon
<1>3. /\ Part(q, job.kv, g) \in Seq(S) /\ Len(Part(q, job.kv, g)) = a
      /\ Part(k, job.kv, g) \in Seq(S) /\ Len(Part(k, job.kv, g)) = b
      /\ Part(v, job.kv, g) \in Seq(S) /\ Len(Part(v, job.kv, g)) = b
  BY <1>2 DEF Slice
<1>4. OfLen(S, Part(q, job.kv, g), a) /\ OfLen(S, Part(k, job.kv, g), b)
      /\ OfLen(S, Part(v, job.kv, g), b)
  BY <1>1, <1>3 DEF OfLen
<1>5. OfLen(S, (Part(q, job.kv, g) \o Part(k, job.kv, g)) \o Part(v, job.kv, g), (a + b) + b)
  BY <1>4, Append2, Zenon
<1> QED BY <1>5 DEF QkvGroup, OfLen

\* The groups of one rank, and of all
LEMMA QkvOfIs ==
  ASSUME NEW S, NEW q, NEW k, NEW v, NEW groups, NEW a, NEW b,
         QkvOk(S, q, k, v, groups, a, b), NEW t \in 0..job.tp - 1
  PROVE  /\ QkvOf(q, k, v, t) \in Seq(S)
         /\ Len(QkvOf(q, k, v, t)) = groups * ((a + b) + b)
         /\ (a + b) + b \in Nat \ {0}
<1> DEFINE row == [g \in 1..groups |-> QkvGroup(q, k, v, (t * groups + g) - 1)]
           w == (a + b) + b
<1>0. /\ job.tp \in Nat \ {0} /\ groups \in Nat \ {0} /\ job.kv = job.tp * groups
      /\ job.kv \div job.tp = groups /\ w \in Nat \ {0}
  BY DEF QkvOk
<1>1. ASSUME NEW g \in 1..groups
      PROVE  (t * groups + g) - 1 \in 0..job.kv - 1
  <2> DEFINE x == t * groups
             y == job.tp * groups
  <2>1. x + g \in 1..y /\ x \in Nat /\ y \in Nat
    BY <1>0, PartPlace
  <2> HIDE DEF x, y
  <2>2. (x + g) - 1 \in 0..y - 1
    BY <2>1
  <2> QED BY <1>0, <2>2 DEF x, y
<1>2. ASSUME NEW g \in 1..groups
      PROVE  row[g] \in Seq(S) /\ Len(row[g]) = w
  BY <1>1, GroupIs
<1>3. row \in Seq(Seq(S)) /\ Len(row) = groups
  <2>1. DOMAIN row = 1..groups /\ row = [g \in 1..groups |-> row[g]]
        /\ \A g \in 1..groups : row[g] \in Seq(S)
    BY <1>2
  <2>2. groups \in Nat
    BY <1>0
  <2> HIDE DEF row
  <2> QED BY <2>1, <2>2, MakeSeq
<1>4. Grid(S, row, groups, w)
  BY <1>0, <1>2, <1>3 DEF Grid
<1>5. QkvOf(q, k, v, t) = Flat(row)
  BY <1>0 DEF QkvOf
<1>6. Flat(row) \in Seq(S) /\ Len(Flat(row)) = groups * w
  <2> HIDE DEF row, w
  <2> QED BY <1>4, ChunkOfFlat DEF Cuts
<1> QED BY <1>0, <1>5, <1>6

\* _broadcast_tp_shard_tensor_qkv cuts query groups.
LEMMA CutQkvIs ==
  ASSUME NEW S, NEW q, NEW k, NEW v, NEW groups, NEW a, NEW b,
         QkvOk(S, q, k, v, groups, a, b)
  PROVE  /\ Len(CutQkv(q, k, v)) = job.tp
         /\ \A t \in 0..job.tp - 1 : CutQkv(q, k, v)[t + 1] = QkvOf(q, k, v, t)
<1> DEFINE Of(s, i) == Chunk(Part(s, job.tp, i), groups)
           Cut(i) == Flat([j \in 1..groups |->
                              (Of(q, i)[j] \o Of(k, i)[j]) \o Of(v, i)[j]])
           cuts == [i \in 1..job.tp |-> Cut(i - 1)]
           w == groups * ((a + b) + b)
<1>0. /\ job.tp \in Nat \ {0} /\ groups \in Nat \ {0} /\ job.kv = job.tp * groups
      /\ job.kv \div job.tp = groups
      /\ a \in Nat \ {0} /\ b \in Nat \ {0}
      /\ Cuts(S, q, job.kv, a) /\ Cuts(S, k, job.kv, b) /\ Cuts(S, v, job.kv, b)
  BY DEF QkvOk
<1>1. CutQkv(q, k, v) = Chunk(Flat(cuts), job.tp)
  BY <1>0 DEF CutQkv
<1>2. ASSUME NEW s, NEW c \in Nat \ {0}, Cuts(S, s, job.kv, c),
             NEW i \in 1..job.tp, NEW j \in 1..groups
      PROVE  Of(s, i - 1)[j] = Part(s, job.kv, ((i - 1) * groups + j) - 1)
  <2> DEFINE x == i - 1
             y == j - 1
  <2>0. x + 1 = i /\ y + 1 = j
    BY <1>0
  <2>1. Nested(S, s, job.tp, groups, c, x, y) /\ c # 0
    BY <1>0, <1>2 DEF Nested
  <2> HIDE DEF x, y
  <2>2. Chunk(Part(s, job.tp, x), groups)[y + 1]
          = Part(s, job.tp * groups, (x * groups + (y + 1)) - 1)
    BY <2>1, GroupOfPart
  <2> QED BY <1>0, <2>0, <2>2 DEF x
<1>3. ASSUME NEW i \in 1..job.tp
      PROVE  Cut(i - 1) = QkvOf(q, k, v, i - 1)
  <2>1. ASSUME NEW j \in 1..groups
        PROVE  (Of(q, i - 1)[j] \o Of(k, i - 1)[j]) \o Of(v, i - 1)[j]
                 = QkvGroup(q, k, v, ((i - 1) * groups + j) - 1)
    <3>1. /\ Of(q, i - 1)[j] = Part(q, job.kv, ((i - 1) * groups + j) - 1)
          /\ Of(k, i - 1)[j] = Part(k, job.kv, ((i - 1) * groups + j) - 1)
          /\ Of(v, i - 1)[j] = Part(v, job.kv, ((i - 1) * groups + j) - 1)
      <4> HIDE DEF Of
      <4> QED BY <1>0, <1>2
    <3> HIDE DEF Of
    <3> QED BY <3>1 DEF QkvGroup
  <2> HIDE DEF Of
  <2>2. [j \in 1..groups |-> (Of(q, i - 1)[j] \o Of(k, i - 1)[j]) \o Of(v, i - 1)[j]]
          = [j \in 1..groups |-> QkvGroup(q, k, v, ((i - 1) * groups + j) - 1)]
    BY <2>1
  <2> QED BY <1>0, <2>2 DEF QkvOf
<1> HIDE DEF Cut
<1>4. ASSUME NEW i \in 1..job.tp
      PROVE  cuts[i] \in Seq(S) /\ Len(cuts[i]) = w
  <2>1. i - 1 \in 0..job.tp - 1
    BY <1>0
  <2>2. QkvOf(q, k, v, i - 1) \in Seq(S) /\ Len(QkvOf(q, k, v, i - 1)) = w
    BY <2>1, QkvOfIs
  <2> QED BY <1>3, <2>2
<1>5. cuts \in Seq(Seq(S)) /\ Len(cuts) = job.tp
  <2>1. DOMAIN cuts = 1..job.tp /\ cuts = [i \in 1..job.tp |-> cuts[i]]
        /\ \A i \in 1..job.tp : cuts[i] \in Seq(S)
    BY <1>4
  <2> HIDE DEF cuts
  <2> QED BY <1>0, <2>1, MakeSeq
<1>6. w \in Nat \ {0}
  <2>1. (a + b) + b \in Nat \ {0}
    BY <1>0
  <2> QED BY <1>0, <2>1
<1>7. Grid(S, cuts, job.tp, w)
  <2> HIDE DEF cuts, w
  <2> QED BY <1>0, <1>4, <1>5, <1>6 DEF Grid
<1>8. Chunk(Flat(cuts), job.tp) = cuts
  <2> HIDE DEF cuts, w
  <2> QED BY <1>7, ChunkOfFlat
<1>9. ASSUME NEW t \in 0..job.tp - 1
      PROVE  cuts[t + 1] = QkvOf(q, k, v, t)
  <2>1. t + 1 \in 1..job.tp /\ (t + 1) - 1 = t
    BY <1>0
  <2>2. cuts[t + 1] = Cut((t + 1) - 1) /\ Cut((t + 1) - 1) = QkvOf(q, k, v, (t + 1) - 1)
    BY <1>3, <2>1
  <2> QED BY <2>1, <2>2
<1> HIDE DEF cuts
<1> QED BY <1>1, <1>5, <1>8, <1>9

\* _broadcast_tp_shard_tensor_gate_up cuts gate and up alike.
LEMMA CutGateUpIs ==
  ASSUME NEW S, NEW gate, NEW up, NEW w, Cuts(S, gate, job.tp, w),
         Cuts(S, up, job.tp, w), w # 0
  PROVE  /\ Len(CutGateUp(gate, up)) = job.tp
         /\ \A t \in 0..job.tp - 1 :
              CutGateUp(gate, up)[t + 1] = Part(gate, job.tp, t) \o Part(up, job.tp, t)
<1> DEFINE Cut(t) == Part(gate, job.tp, t) \o Part(up, job.tp, t)
           cuts == [i \in 1..job.tp |-> Cut(i - 1)]
<1>0. job.tp \in Nat \ {0} /\ w \in Nat \ {0} /\ w + w \in Nat \ {0}
  BY DEF Cuts
<1>1. CutGateUp(gate, up) = Chunk(Flat(cuts), job.tp)
  BY DEF CutGateUp
<1>2. ASSUME NEW t \in 0..job.tp - 1
      PROVE  Cut(t) \in Seq(S) /\ Len(Cut(t)) = w + w
  <2>1. Slice(S, gate, w, t, Part(gate, job.tp, t)) /\ Slice(S, up, w, t, Part(up, job.tp, t))
    BY PartIs
  <2> QED BY <2>1, Concat DEF Slice
<1> HIDE DEF Cut
<1>3. ASSUME NEW i \in 1..job.tp
      PROVE  cuts[i] \in Seq(S) /\ Len(cuts[i]) = w + w
  <2>1. i - 1 \in 0..job.tp - 1
    BY <1>0
  <2> QED BY <1>2, <2>1
<1>4. cuts \in Seq(Seq(S)) /\ Len(cuts) = job.tp
  <2>1. DOMAIN cuts = 1..job.tp /\ cuts = [i \in 1..job.tp |-> cuts[i]]
        /\ \A i \in 1..job.tp : cuts[i] \in Seq(S)
    BY <1>3
  <2> HIDE DEF cuts
  <2> QED BY <1>0, <2>1, MakeSeq
<1>5. ASSUME NEW t \in 0..job.tp - 1 PROVE cuts[t + 1] = Cut(t)
  <2>1. t + 1 \in 1..job.tp /\ (t + 1) - 1 = t
    BY <1>0
  <2> QED BY <2>1
<1> HIDE DEF cuts
<1>6. Grid(S, cuts, job.tp, w + w)
  BY <1>0, <1>3, <1>4 DEF Grid
<1>7. Chunk(Flat(cuts), job.tp) = cuts
  BY <1>6, ChunkOfFlat
<1> QED BY <1>1, <1>4, <1>5, <1>7 DEF Cut

-----------------------------------------------------------------------------
(* The tensors of the checkpoint.                                         *)

PartNames ==
  {"init", "embed", "norm", "lm_head", "input_norm", "q", "k", "v", "o",
   "q_bias", "k_bias", "v_bias", "q_norm", "k_norm", "post_norm", "gate", "up",
   "down", "router"}

Row == (PartNames \X Int \X Int) \X Int

\* What divides without a rest
LEMMA DivideExactly ==
  ASSUME NEW n \in Nat \ {0}, NEW d \in Nat \ {0}, n % d = 0
  PROVE  n \div d \in Nat \ {0} /\ n = d * (n \div d)
<1>1. n \div d \in Nat /\ n = (n \div d) * d + (n % d)
  BY DivMod
<1> DEFINE q == n \div d
<1> HIDE DEF q
<1>2. q \in Nat /\ n = q * d
  BY <1>1 DEF q
<1>3. q # 0
  BY <1>2
<1>4. q * d = d * q
  BY <1>2
<1> QED BY <1>2, <1>3, <1>4 DEF q

\* What is known of the sizes of the job
SizesOk(groups, per) ==
  /\ job.tp \in Nat \ {0} /\ groups \in Nat \ {0} /\ per \in Nat \ {0}
  /\ job.kv \in Nat \ {0} /\ job.kv = job.tp * groups /\ job.kv \div job.tp = groups
  /\ job.heads \in Nat \ {0} /\ job.heads = job.kv * per /\ job.heads \div job.kv = per
  /\ HeadDim \in Nat \ {0} /\ Inter \in Nat \ {0} /\ Vocab \in Nat \ {0}
  /\ Inter % job.tp = 0 /\ Vocab % job.tp = 0 /\ job.head \in {0, 1}

\* Megatron starts only if its sizes divide.
LEMMA SizesAre ==
  ASSUME Launchable(job)
  PROVE  SizesOk(job.kv \div job.tp, job.heads \div job.kv)
<1>1. /\ job.tp \in Nat \ {0} /\ job.kv \in Nat \ {0} /\ job.heads \in Nat \ {0}
      /\ job.head \in {0, 1}
      /\ job.heads % job.kv = 0 /\ job.kv % job.tp = 0
      /\ Inter % job.tp = 0 /\ Vocab % job.tp = 0
  BY DEF Launchable, JobType, Positive
<1>2. HeadDim \in Nat \ {0} /\ Inter \in Nat \ {0} /\ Vocab \in Nat \ {0}
  BY WeightsAssumption DEF Positive
<1>3. job.kv \div job.tp \in Nat \ {0} /\ job.kv = job.tp * (job.kv \div job.tp)
  BY <1>1, DivideExactly, Zenon
<1>4. job.heads \div job.kv \in Nat \ {0} /\ job.heads = job.kv * (job.heads \div job.kv)
  BY <1>1, DivideExactly, Zenon
<1> QED BY <1>1, <1>2, <1>3, <1>4, Zenon DEF SizesOk

\* The rows of every tensor
LEMMA SizeIs ==
  ASSUME NEW groups, NEW per, SizesOk(groups, per)
  PROVE  /\ Size("embed") = Vocab
         /\ \A p \in {"gate", "up", "down"} : Size(p) = Inter
         /\ \A p \in {"q", "q_bias", "o"} : Size(p) = job.kv * (per * HeadDim)
         /\ \A p \in {"k", "k_bias", "v", "v_bias"} : Size(p) = job.kv * HeadDim
         /\ \A p \in PartNames : Size(p) \in Nat \ {0}
<1>1. /\ job.kv \in Nat \ {0} /\ per \in Nat \ {0} /\ HeadDim \in Nat \ {0}
      /\ Inter \in Nat \ {0} /\ Vocab \in Nat \ {0} /\ job.head \in {0, 1}
      /\ job.heads = job.kv * per
  BY DEF SizesOk
<1>2. (job.kv * per) * HeadDim = job.kv * (per * HeadDim)
      /\ job.heads * HeadDim = (job.kv * per) * HeadDim
      /\ (job.kv * per) * HeadDim \in Nat \ {0} /\ job.kv * HeadDim \in Nat \ {0}
  BY <1>1
<1>3. /\ Size("embed") = Vocab
      /\ \A p \in {"gate", "up", "down"} : Size(p) = Inter
      /\ \A p \in {"q", "q_bias", "o"} : Size(p) = job.heads * HeadDim
      /\ \A p \in {"k", "k_bias", "v", "v_bias"} : Size(p) = job.kv * HeadDim
      /\ Size("lm_head") \in {1, Vocab}
      /\ \A p \in {"init", "norm", "input_norm", "q_norm", "k_norm", "post_norm", "router"} :
           Size(p) = 1
  BY DEF Size
<1> DEFINE a == job.heads * HeadDim
           b == job.kv * HeadDim
<1>4. a \in Nat \ {0} /\ b \in Nat \ {0}
  BY <1>2
<1>5. /\ \A p \in {"q", "q_bias", "o"} : Size(p) = a
      /\ \A p \in {"k", "k_bias", "v", "v_bias"} : Size(p) = b
  BY <1>3
<1> HIDE DEF a, b
<1>6. \A p \in PartNames : Size(p) \in Nat \ {0}
  BY <1>1, <1>3, <1>4, <1>5 DEF PartNames
<1> QED BY <1>2, <1>3, <1>6

\* A tensor of the checkpoint has as many rows as its part.
LEMMA TensorIs ==
  ASSUME NEW groups, NEW per, SizesOk(groups, per),
         NEW part \in PartNames, NEW l \in Int, NEW e \in Int
  PROVE  OfLen(Row, Tensor(part, l, e), Size(part))
<1> DEFINE n == Size(part)
           t == [i \in 1..n |-> <<<<part, l, e>>, i>>]
<1>1. n \in Nat
  BY SizeIs
<1> HIDE DEF n
<1>2. \A i \in 1..n : t[i] \in Row
  BY <1>1 DEF Row
<1>3. DOMAIN t = 1..n /\ t = [i \in 1..n |-> t[i]]
  OBVIOUS
<1> HIDE DEF t
<1>4. t \in Seq(Row) /\ Len(t) = n
  BY <1>1, <1>2, <1>3, MakeSeq
<1>5. Tensor(part, l, e) = t
  BY DEF Tensor, t, n
<1> QED BY <1>1, <1>4, <1>5 DEF OfLen, n

\* A tensor is cut in n pieces if its size can be.
LEMMA TensorCuts ==
  ASSUME NEW groups, NEW per, SizesOk(groups, per),
         NEW part \in PartNames, NEW l \in Int, NEW e \in Int,
         NEW n \in Nat \ {0}, NEW w \in Nat \ {0}, Size(part) = n * w
  PROVE  Cuts(Row, Tensor(part, l, e), n, w)
BY TensorIs DEF OfLen, Cuts

\* The tensors that are cut among the ranks can be.
LEMMA TensorDivides ==
  ASSUME NEW groups, NEW per, SizesOk(groups, per),
         NEW part \in {"embed", "o", "gate", "up", "down"}, NEW l \in Int, NEW e \in Int
  PROVE  /\ Cuts(Row, Tensor(part, l, e), job.tp, Size(part) \div job.tp)
         /\ Size(part) \div job.tp \in Nat \ {0}
<1>1. part \in PartNames
  BY DEF PartNames
<1>2. /\ job.tp \in Nat \ {0} /\ groups \in Nat \ {0} /\ per \in Nat \ {0}
      /\ job.kv = job.tp * groups /\ HeadDim \in Nat \ {0}
      /\ Inter \in Nat \ {0} /\ Vocab \in Nat \ {0}
      /\ Inter % job.tp = 0 /\ Vocab % job.tp = 0
  BY DEF SizesOk
<1>3. Size(part) \in Nat \ {0} /\ Size(part) % job.tp = 0
  <2>1. CASE part = "o"
    <3>1. Size(part) = job.kv * (per * HeadDim)
      BY <2>1, SizeIs
    <3>2. (job.tp * groups) * (per * HeadDim) = job.tp * (groups * (per * HeadDim))
          /\ groups * (per * HeadDim) \in Nat
      BY <1>2
    <3> DEFINE w == groups * (per * HeadDim)
    <3> HIDE DEF w
    <3>3. Size(part) = job.tp * w /\ w \in Nat
      BY <1>2, <3>1, <3>2 DEF w
    <3>4. (job.tp * w) % job.tp = 0
      BY <1>2, <3>3, DivExact
    <3> QED BY <1>1, <3>3, <3>4, SizeIs
  <2>2. CASE part # "o"
    BY <1>2, <2>2, SizeIs
  <2> QED BY <2>1, <2>2
<1>4. /\ Size(part) \div job.tp \in Nat \ {0}
      /\ Size(part) = job.tp * (Size(part) \div job.tp)
  BY <1>2, <1>3, DivideExactly, Zenon
<1>5. Cuts(Row, Tensor(part, l, e), job.tp, Size(part) \div job.tp)
  BY <1>1, <1>2, <1>4, TensorCuts, Zenon
<1> QED BY <1>4, <1>5

-----------------------------------------------------------------------------
(* What is sent is what is to be held.                                    *)

\* The layer of key number i of chunk v of rank r
LayerAt(r, v, i) == IF i = -1 THEN -1 ELSE Placed(job, r.pp, v, i)

PieceOf(sent, r) == sent[IF Len(sent) = 1 THEN 1 ELSE r.tp + 1]

Delivers(item, r, key) ==
  /\ Sent(item) # <<>> /\ PieceOf(Sent(item), r) = Held(r, key)
  /\ Held(r, key) \in Seq(Row)

\* A tensor sent in one piece is there for every rank.
LEMMA OnePiece ==
  ASSUME NEW x, NEW r PROVE PieceOf(<<x>>, r) = x /\ <<x>> # <<>>
BY DEF PieceOf

\* Of a tensor in as many pieces as ranks, each rank takes its own.
LEMMA RankPiece ==
  ASSUME NEW sent, NEW r \in Rank, job.tp \in Nat \ {0}, Len(sent) = job.tp
  PROVE  PieceOf(sent, r) = sent[r.tp + 1] /\ sent # <<>> /\ r.tp \in 0..job.tp - 1
<1>1. r.tp \in 0..job.tp - 1
  BY DEF Rank
<1>2. sent # <<>>
  OBVIOUS
<1>3. CASE Len(sent) = 1
  BY <1>1, <1>2, <1>3 DEF PieceOf
<1>4. CASE Len(sent) # 1
  BY <1>1, <1>2, <1>4 DEF PieceOf
<1> QED BY <1>3, <1>4

Plain ==
  {<<"input_norm", "qkv_norm">>, <<"q_norm", "q_layernorm">>,
   <<"k_norm", "k_layernorm">>, <<"post_norm", "fc1_norm">>,
   <<"norm", "final_layernorm">>}

Split == {<<"embed", "word_embeddings">>, <<"o", "proj">>, <<"down", "fc2">>}

\* A tensor that every rank has whole
LEMMA PlainDelivers ==
  ASSUME Launchable(job), NEW c \in Plain, NEW r \in Rank, NEW v, NEW i,
         NEW l \in Int, LayerAt(r, v, i) = l
  PROVE  Delivers(Item(<<c[1]>>, c[2], l), r, <<v, c[2], i, -1>>)
<1> DEFINE item == Item(<<c[1]>>, c[2], l)
           key == <<v, c[2], i, -1>>
           T == Tensor(c[1], l, -1)
<1>1. item.from = <<c[1]>> /\ item.to = c[2] /\ item.layer = l /\ item.from[1] = c[1]
  BY DEF Item
<1>2. key[1] = v /\ key[2] = c[2] /\ key[3] = i /\ key[4] = -1
  OBVIOUS
<1>3. c[1] \in PartNames
  BY DEF Plain, PartNames
<1>4. T \in Seq(Row)
  BY <1>3, SizesAre, TensorIs DEF OfLen
<1> HIDE DEF item, key
<1>5. Sent(item) = <<T>>
  BY <1>1 DEF Sent, Plain
<1>6. Held(r, key) = T
  BY <1>2 DEF Held, LayerAt, Plain
<1>7. PieceOf(<<T>>, r) = T /\ <<T>> # <<>>
  BY OnePiece
<1> HIDE DEF T
<1>8. Delivers(item, r, key)
  BY <1>4, <1>5, <1>6, <1>7 DEF Delivers
<1> QED BY <1>8 DEF item, key

\* A tensor that is cut among the ranks
LEMMA SplitPiece ==
  ASSUME NEW part, NEW l, NEW r \in Rank, NEW w,
         Cuts(Row, Tensor(part, l, -1), job.tp, w), w # 0
  PROVE  /\ Chunk(Tensor(part, l, -1), job.tp) # <<>>
         /\ PieceOf(Chunk(Tensor(part, l, -1), job.tp), r) = Part(Tensor(part, l, -1), job.tp, r.tp)
         /\ Part(Tensor(part, l, -1), job.tp, r.tp) \in Seq(Row)
<1> DEFINE T == Tensor(part, l, -1)
           sent == Chunk(T, job.tp)
<1> HIDE DEF T
<1>0. Cuts(Row, T, job.tp, w) /\ job.tp \in Nat \ {0}
  BY DEF T, Cuts
<1>1. /\ Len(sent) = job.tp
      /\ \A k \in 1..job.tp : sent[k] = Part(T, job.tp, k - 1)
  BY <1>0, ChunkAt
<1> HIDE DEF sent
<1>2. PieceOf(sent, r) = sent[r.tp + 1] /\ sent # <<>> /\ r.tp \in 0..job.tp - 1
  BY <1>0, <1>1, RankPiece
<1>3. r.tp + 1 \in 1..job.tp /\ (r.tp + 1) - 1 = r.tp
  BY <1>0, <1>2
<1>4. PieceOf(sent, r) = Part(T, job.tp, r.tp)
  BY <1>1, <1>2, <1>3
<1>5. Slice(Row, T, w, r.tp, Part(T, job.tp, r.tp))
  BY <1>0, <1>2, PartIs
<1> QED BY <1>2, <1>4, <1>5 DEF T, sent, Slice

\* An embedding, output or down projection arrives cut by rows.
LEMMA SplitDelivers ==
  ASSUME Launchable(job), NEW c \in Split, NEW r \in Rank, NEW v, NEW i,
         NEW l \in Int, LayerAt(r, v, i) = l
  PROVE  Delivers(Item(<<c[1]>>, c[2], l), r, <<v, c[2], i, -1>>)
<1> DEFINE item == Item(<<c[1]>>, c[2], l)
           key == <<v, c[2], i, -1>>
           T == Tensor(c[1], l, -1)
           mine == Part(T, job.tp, r.tp)
<1>1. item.from = <<c[1]>> /\ item.to = c[2] /\ item.layer = l /\ item.from[1] = c[1]
  BY DEF Item
<1>2. key[1] = v /\ key[2] = c[2] /\ key[3] = i /\ key[4] = -1
  OBVIOUS
<1>3. c[1] \in {"embed", "o", "gate", "up", "down"}
  BY DEF Split
<1>4. /\ Cuts(Row, T, job.tp, Size(c[1]) \div job.tp)
      /\ Size(c[1]) \div job.tp # 0
  BY <1>3, SizesAre, TensorDivides
<1>5. /\ Chunk(T, job.tp) # <<>> /\ PieceOf(Chunk(T, job.tp), r) = mine
      /\ mine \in Seq(Row)
  BY <1>4, SplitPiece
<1> HIDE DEF item, key
<1>6. Sent(item) = Chunk(T, job.tp)
  BY <1>1 DEF Sent, Split
<1>7. Held(r, key) = mine
  BY <1>2 DEF Held, LayerAt, Split
<1> HIDE DEF T, mine
<1>8. Delivers(item, r, key)
  BY <1>5, <1>6, <1>7 DEF Delivers
<1> QED BY <1>8 DEF item, key

\* The head of a language model is cut, the head of a critic is not.
LEMMA HeadDelivers ==
  ASSUME Launchable(job), job.from = "hf", NEW r \in Rank, NEW v,
         ~job.value \/ job.head = 1
  PROVE  Delivers(Item(<<"lm_head">>, "output_layer", -1), r, <<v, "output_layer", -1, -1>>)
<1> DEFINE item == Item(<<"lm_head">>, "output_layer", -1)
           key == <<v, "output_layer", -1, -1>>
           T == Tensor("lm_head", -1, -1)
           mine == Part(T, job.tp, r.tp)
<1>1. item.from = <<"lm_head">> /\ item.to = "output_layer" /\ item.layer = -1
      /\ item.from[1] = "lm_head"
  BY DEF Item
<1>2. key[1] = v /\ key[2] = "output_layer" /\ key[3] = -1 /\ key[4] = -1
  OBVIOUS
<1>3. "lm_head" \in PartNames /\ -1 \in Int
  BY DEF PartNames
<1>4. T \in Seq(Row)
  BY <1>3, SizesAre, TensorIs DEF OfLen
<1>5. job.head \in {0, 1} /\ (job.head = 1 => job.value)
  BY DEF Launchable, JobType
<1>6. CASE ~job.value
  <2>1. SizesOk(job.kv \div job.tp, job.heads \div job.kv)
    BY SizesAre
  <2>2. Size("lm_head") = Vocab
    BY <1>5, <1>6 DEF Size
  <2>3. /\ job.tp \in Nat \ {0} /\ Vocab \div job.tp \in Nat \ {0}
        /\ Vocab = job.tp * (Vocab \div job.tp)
    BY <2>1, DivideExactly, Zenon DEF SizesOk
  <2>4. Cuts(Row, T, job.tp, Vocab \div job.tp)
    BY <1>3, <2>1, <2>2, <2>3, TensorCuts
  <2>5. /\ Chunk(T, job.tp) # <<>> /\ PieceOf(Chunk(T, job.tp), r) = mine
        /\ mine \in Seq(Row)
    BY <2>3, <2>4, SplitPiece
  <2> HIDE DEF item, key
  <2>6. Sent(item) = Chunk(T, job.tp)
    BY <1>1, <1>6 DEF Sent
  <2>7. Held(r, key) = mine
    BY <1>2, <1>6 DEF Held
  <2> HIDE DEF T, mine
  <2>8. Delivers(item, r, key)
    BY <2>5, <2>6, <2>7 DEF Delivers
  <2> QED BY <2>8 DEF item, key
<1>7. CASE job.value /\ job.head = 1
  <2> HIDE DEF item, key
  <2>1. Sent(item) = <<T>>
    BY <1>1, <1>7 DEF Sent
  <2>2. Held(r, key) = T
    BY <1>2, <1>7 DEF Held
  <2>3. PieceOf(<<T>>, r) = T /\ <<T>> # <<>>
    BY OnePiece
  <2> HIDE DEF T
  <2>4. Delivers(item, r, key)
    BY <1>4, <2>1, <2>2, <2>3 DEF Delivers
  <2> QED BY <2>4 DEF item, key
<1> QED BY <1>6, <1>7

\* A critic whose checkpoint has no head keeps the one it was made with.
LEMMA NoHead ==
  ASSUME job.value, job.head = 0, NEW r, NEW v
  PROVE  /\ Sent(Item(<<"lm_head">>, "output_layer", -1)) = <<>>
         /\ Held(r, <<v, "output_layer", -1, -1>>) = Unset
<1> DEFINE item == Item(<<"lm_head">>, "output_layer", -1)
           key == <<v, "output_layer", -1, -1>>
<1>1. item.from = <<"lm_head">> /\ item.to = "output_layer" /\ item.layer = -1
  BY DEF Item
<1>2. key[2] = "output_layer"
  OBVIOUS
<1> HIDE DEF item, key
<1>3. Sent(item) = <<>>
  BY <1>1 DEF Sent
<1>4. Held(r, key) = Unset
  BY <1>2 DEF Held
<1> QED BY <1>3, <1>4 DEF item, key

-----------------------------------------------------------------------------
(* ...for the tensors of attention and of the dense layers.               *)

QkvParts == {<<"q", "k", "v">>, <<"q_bias", "k_bias", "v_bias">>}

QkvName(parts) == IF parts = <<"q", "k", "v">> THEN "qkv" ELSE "qkv_bias"

\* q, k and v of the checkpoint can be cut by query groups.
LEMMA QkvTensors ==
  ASSUME Launchable(job), NEW parts \in QkvParts, NEW l \in Int
  PROVE  QkvOk(Row, Tensor(parts[1], l, -1), Tensor(parts[2], l, -1),
               Tensor(parts[3], l, -1), job.kv \div job.tp,
               (job.heads \div job.kv) * HeadDim, HeadDim)
<1> DEFINE groups == job.kv \div job.tp
           per == job.heads \div job.kv
           a == per * HeadDim
<1>0. SizesOk(groups, per)
  BY SizesAre
<1> HIDE DEF groups, per
<1>1. /\ job.tp \in Nat \ {0} /\ groups \in Nat \ {0} /\ job.kv = job.tp * groups
      /\ job.kv \div job.tp = groups /\ job.kv \in Nat \ {0}
      /\ per \in Nat \ {0} /\ HeadDim \in Nat \ {0}
  BY <1>0 DEF SizesOk
<1>2. a \in Nat \ {0}
  BY <1>1
<1>3. /\ parts[1] \in {"q", "q_bias", "o"} /\ parts[2] \in {"k", "k_bias", "v", "v_bias"}
      /\ parts[3] \in {"k", "k_bias", "v", "v_bias"}
      /\ parts[1] \in PartNames /\ parts[2] \in PartNames /\ parts[3] \in PartNames
  BY DEF QkvParts, PartNames
<1>4. Size(parts[1]) = job.kv * a /\ Size(parts[2]) = job.kv * HeadDim
      /\ Size(parts[3]) = job.kv * HeadDim
  BY <1>0, <1>3, SizeIs
<1> HIDE DEF a
<1>5. -1 \in Int
  OBVIOUS
<1>6. /\ Cuts(Row, Tensor(parts[1], l, -1), job.kv, a)
      /\ Cuts(Row, Tensor(parts[2], l, -1), job.kv, HeadDim)
      /\ Cuts(Row, Tensor(parts[3], l, -1), job.kv, HeadDim)
  BY <1>0, <1>1, <1>2, <1>3, <1>4, <1>5, TensorCuts
<1> QED BY <1>1, <1>2, <1>6 DEF QkvOk, groups, per, a

QkvThree(parts, l, g) == [n \in 1..3 |-> Part(Tensor(parts[n], l, -1), job.kv, g)]

QkvHeld(parts, l, t) ==
  Flat([g \in 1..job.kv \div job.tp |->
          Flat(QkvThree(parts, l, (t * (job.kv \div job.tp) + g) - 1))])

\* What a rank holds, with its layer and the rows of q, k and v named
LEMMA HeldIs ==
  ASSUME NEW r, NEW key
  PROVE  Held(r, key) =
    LET l == LayerAt(r, key[1], key[3])
        e == ExpertSeat(r).ep * ExpertsPerRank + key[4]
        T(part) == Tensor(part, l, -1)
        Mine(part) == Part(T(part), job.tp, r.tp)
        Expert(part) == Part(Tensor(part, l, e), job.etp, ExpertSeat(r).etp)
    IN CASE key[2] = "word_embeddings" -> Mine("embed")
         [] key[2] = "output_layer" ->
              IF ~job.value THEN Mine("lm_head")
              ELSE IF job.head = 1 /\ job.from = "hf" THEN T("lm_head") ELSE Unset
         [] key[2] = "final_layernorm" -> T("norm")
         [] key[2] = "qkv_norm" -> T("input_norm")
         [] key[2] = "qkv" -> QkvHeld(<<"q", "k", "v">>, l, r.tp)
         [] key[2] = "qkv_bias" -> QkvHeld(<<"q_bias", "k_bias", "v_bias">>, l, r.tp)
         [] key[2] = "q_layernorm" -> T("q_norm")
         [] key[2] = "k_layernorm" -> T("k_norm")
         [] key[2] = "proj" -> Mine("o")
         [] key[2] \in {"fc1_norm", "pre_mlp_layernorm"} -> T("post_norm")
         [] key[2] = "fc1" -> Mine("gate") \o Mine("up")
         [] key[2] = "fc2" -> Mine("down")
         [] key[2] = "router" -> T("router")
         [] key[2] = "expert_fc1" -> Expert("gate") \o Expert("up")
         [] key[2] = "expert_fc2" -> Expert("down")
BY DEF Held, LayerAt, QkvHeld, QkvThree

\* The rows under qkv of a rank are what the loader cuts for it.
LEMMA QkvDelivers ==
  ASSUME Launchable(job), NEW parts \in QkvParts, NEW r \in Rank, NEW v, NEW i,
         NEW l \in Int, LayerAt(r, v, i) = l
  PROVE  Delivers(Item(parts, QkvName(parts), l), r, <<v, QkvName(parts), i, -1>>)
<1> DEFINE name == QkvName(parts)
           item == Item(parts, name, l)
           key == <<v, name, i, -1>>
           q == Tensor(parts[1], l, -1)
           k == Tensor(parts[2], l, -1)
           w == Tensor(parts[3], l, -1)
           groups == job.kv \div job.tp
           three(g) == QkvThree(parts, l, g)
<1>0. QkvOk(Row, q, k, w, groups, (job.heads \div job.kv) * HeadDim, HeadDim)
  BY QkvTensors
<1>1. item.from = parts /\ item.to = name /\ item.layer = l /\ name \in {"qkv", "qkv_bias"}
      /\ (name = "qkv" => parts = <<"q", "k", "v">>)
      /\ (name = "qkv_bias" => parts = <<"q_bias", "k_bias", "v_bias">>)
  BY DEF Item, QkvName, QkvParts
<1>2. key[1] = v /\ key[2] = name /\ key[3] = i /\ key[4] = -1
  OBVIOUS
<1> HIDE DEF item, key, name
<1>3. Sent(item) = CutQkv(q, k, w)
  BY <1>1 DEF Sent
<1>4. ASSUME NEW g PROVE Flat(three(g)) = QkvGroup(q, k, w, g)
  <2>1. Len(three(g)) = 3 /\ three(g)[1] = Part(q, job.kv, g)
        /\ three(g)[2] = Part(k, job.kv, g) /\ three(g)[3] = Part(w, job.kv, g)
    BY DEF QkvThree
  <2> HIDE DEF q, k, w
  <2> HIDE DEF three
  <2> QED BY <2>1, FlatThree DEF QkvGroup
<1>5. Held(r, key) = QkvHeld(parts, l, r.tp)
  <2>0. LayerAt(r, key[1], key[3]) = l
    BY <1>2
  <2>1. CASE name = "qkv"
    <3>1. Held(r, key) = QkvHeld(<<"q", "k", "v">>, LayerAt(r, key[1], key[3]), r.tp)
      BY <1>2, <2>1, HeldIs
    <3> QED BY <1>1, <2>0, <2>1, <3>1
  <2>2. CASE name = "qkv_bias"
    <3>1. Held(r, key) = QkvHeld(<<"q_bias", "k_bias", "v_bias">>, LayerAt(r, key[1], key[3]), r.tp)
      BY <1>2, <2>2, HeldIs
    <3> QED BY <1>1, <2>0, <2>2, <3>1
  <2> QED BY <1>1, <2>1, <2>2
<1> HIDE DEF three, q, k, w
<1>6. Held(r, key) = QkvOf(q, k, w, r.tp)
  BY <1>4, <1>5 DEF QkvOf, QkvHeld, three
<1>7. job.tp \in Nat \ {0}
  BY <1>0 DEF QkvOk
<1>8. Len(CutQkv(q, k, w)) = job.tp
      /\ \A t \in 0..job.tp - 1 : CutQkv(q, k, w)[t + 1] = QkvOf(q, k, w, t)
  BY <1>0, CutQkvIs
<1> DEFINE sent == CutQkv(q, k, w)
<1> HIDE DEF sent, groups
<1>9. PieceOf(sent, r) = sent[r.tp + 1] /\ sent # <<>> /\ r.tp \in 0..job.tp - 1
  BY <1>7, <1>8, RankPiece DEF sent
<1>10. PieceOf(sent, r) = Held(r, key)
  BY <1>6, <1>8, <1>9 DEF sent
<1>11. Held(r, key) \in Seq(Row)
  BY <1>0, <1>6, <1>9, QkvOfIs
<1>12. Delivers(item, r, key)
  BY <1>3, <1>9, <1>10, <1>11 DEF Delivers, sent
<1> QED BY <1>12 DEF item, key, name

\* The gate and the up projection arrive cut alike, one after the other.
LEMMA GateUpDelivers ==
  ASSUME Launchable(job), NEW r \in Rank, NEW v, NEW i,
         NEW l \in Int, LayerAt(r, v, i) = l
  PROVE  Delivers(Item(<<"gate", "up">>, "fc1", l), r, <<v, "fc1", i, -1>>)
<1> DEFINE item == Item(<<"gate", "up">>, "fc1", l)
           key == <<v, "fc1", i, -1>>
           g == Tensor("gate", l, -1)
           u == Tensor("up", l, -1)
           w == Inter \div job.tp
           sent == CutGateUp(g, u)
<1>0. SizesOk(job.kv \div job.tp, job.heads \div job.kv) /\ -1 \in Int
  BY SizesAre
<1>1. Size("gate") = Inter /\ Size("up") = Inter /\ job.tp \in Nat \ {0}
  BY <1>0, SizeIs DEF SizesOk
<1>2. Cuts(Row, g, job.tp, w) /\ Cuts(Row, u, job.tp, w) /\ w \in Nat \ {0}
  BY <1>0, <1>1, TensorDivides
<1>3. item.from = <<"gate", "up">> /\ item.to = "fc1" /\ item.layer = l
  BY DEF Item
<1>4. key[1] = v /\ key[2] = "fc1" /\ key[3] = i /\ key[4] = -1
  OBVIOUS
<1> HIDE DEF item, key
<1>5. Sent(item) = sent
  BY <1>3 DEF Sent
<1>6. Held(r, key) = Part(g, job.tp, r.tp) \o Part(u, job.tp, r.tp)
  BY <1>4 DEF Held, LayerAt
<1> HIDE DEF g, u, w
<1>7. Len(sent) = job.tp
      /\ \A t \in 0..job.tp - 1 : sent[t + 1] = Part(g, job.tp, t) \o Part(u, job.tp, t)
  BY <1>2, CutGateUpIs
<1> HIDE DEF sent
<1>8. PieceOf(sent, r) = sent[r.tp + 1] /\ sent # <<>> /\ r.tp \in 0..job.tp - 1
  BY <1>1, <1>7, RankPiece
<1>9. PieceOf(sent, r) = Held(r, key)
  BY <1>6, <1>7, <1>8
<1>10. Slice(Row, g, w, r.tp, Part(g, job.tp, r.tp)) /\ Slice(Row, u, w, r.tp, Part(u, job.tp, r.tp))
  BY <1>2, <1>8, PartIs
<1>11. OfLen(Row, Part(g, job.tp, r.tp), w) /\ OfLen(Row, Part(u, job.tp, r.tp), w)
  BY <1>2, <1>10 DEF Slice, OfLen
<1>12. OfLen(Row, Held(r, key), w + w)
  BY <1>6, <1>11, Append2
<1>13. Delivers(item, r, key)
  BY <1>5, <1>8, <1>9, <1>12 DEF Delivers, OfLen
<1> QED BY <1>13 DEF item, key

\* The key an item is for, on the ranks of its stage
KeyOf(item) == <<Seat(item).vpp, item.to, Seat(item).idx, -1>>

NoHeadOf(item) == item.to = "output_layer" /\ job.value /\ job.head = 0

\* Whatever item the loader is at, the ranks of its stage get what they are
\* to hold, or nothing where there is no head.
LEMMA ItemDelivers ==
  ASSUME Launchable(job), job.from = "hf", NEW item \in AllItems(TRUE), NEW r \in Rank,
         r.pp = Seat(item).pp
  PROVE  IF NoHeadOf(item)
           THEN Sent(item) = <<>> /\ Held(r, KeyOf(item)) = Unset
           ELSE Delivers(item, r, KeyOf(item))
<1> DEFINE v == Seat(item).vpp
           i == Seat(item).idx
           key == <<v, item.to, i, -1>>
<1>0. EvenFacts(job, Per(job)) /\ job.layers \in Nat \ {0}
      /\ job.head \in {0, 1}
  BY EvenIs DEF Launchable, JobType, Positive
<1>1. CASE \E l \in 0..job.layers - 1 : item \in LayerItems(l)
  <2>1. PICK l \in 0..job.layers - 1 : item \in LayerItems(l)
    BY <1>1
  <2>2. item.layer = l /\ item.layer # -1 /\ l \in Int /\ item.to # "output_layer"
    BY <1>0, <2>1 DEF LayerItems, Item
  <2>3. Seat(item) = LayerMap[l]
    BY <2>2 DEF Seat
  <2>4. /\ LayerMap[l].idx \in 0..Per(job) - 1
        /\ Placed(job, LayerMap[l].pp, LayerMap[l].vpp, LayerMap[l].idx) = l
    BY <1>0, LayerMapIs
  <2>5. LayerAt(r, v, i) = l
    <3>1. i # -1
      BY <1>0, <2>3, <2>4 DEF EvenFacts
    <3> QED BY <2>3, <2>4, <3>1 DEF LayerAt
  <2> HIDE DEF v, i
  <2>6. \A c \in Plain : Delivers(Item(<<c[1]>>, c[2], l), r, <<v, c[2], i, -1>>)
    BY <2>2, <2>5, PlainDelivers
  <2>7. \A c \in Split : Delivers(Item(<<c[1]>>, c[2], l), r, <<v, c[2], i, -1>>)
    BY <2>2, <2>5, SplitDelivers
  <2>8. \A p \in QkvParts : Delivers(Item(p, QkvName(p), l), r, <<v, QkvName(p), i, -1>>)
    BY <2>2, <2>5, QkvDelivers
  <2>9. Delivers(Item(<<"gate", "up">>, "fc1", l), r, <<v, "fc1", i, -1>>)
    BY <2>2, <2>5, GateUpDelivers
  <2>10. Delivers(item, r, <<v, item.to, i, -1>>)
    <3>1. /\ Delivers(Item(<<"input_norm">>, "qkv_norm", l), r, <<v, "qkv_norm", i, -1>>)
          /\ Delivers(Item(<<"q_norm">>, "q_layernorm", l), r, <<v, "q_layernorm", i, -1>>)
          /\ Delivers(Item(<<"k_norm">>, "k_layernorm", l), r, <<v, "k_layernorm", i, -1>>)
          /\ Delivers(Item(<<"post_norm">>, "fc1_norm", l), r, <<v, "fc1_norm", i, -1>>)
      <4>1. /\ <<"input_norm", "qkv_norm">> \in Plain /\ <<"q_norm", "q_layernorm">> \in Plain
            /\ <<"k_norm", "k_layernorm">> \in Plain /\ <<"post_norm", "fc1_norm">> \in Plain
        BY DEF Plain
      <4> QED BY <2>6, <4>1
    <3>2. /\ Delivers(Item(<<"o">>, "proj", l), r, <<v, "proj", i, -1>>)
          /\ Delivers(Item(<<"down">>, "fc2", l), r, <<v, "fc2", i, -1>>)
      <4>1. <<"o", "proj">> \in Split /\ <<"down", "fc2">> \in Split
        BY DEF Split
      <4> QED BY <2>7, <4>1
    <3>3. /\ Delivers(Item(<<"q", "k", "v">>, "qkv", l), r, <<v, "qkv", i, -1>>)
          /\ Delivers(Item(<<"q_bias", "k_bias", "v_bias">>, "qkv_bias", l), r, <<v, "qkv_bias", i, -1>>)
      <4>1. /\ <<"q", "k", "v">> \in QkvParts /\ <<"q_bias", "k_bias", "v_bias">> \in QkvParts
            /\ QkvName(<<"q", "k", "v">>) = "qkv"
            /\ QkvName(<<"q_bias", "k_bias", "v_bias">>) = "qkv_bias"
        BY DEF QkvParts, QkvName
      <4> QED BY <2>8, <4>1
    <3>4. /\ Item(<<"input_norm">>, "qkv_norm", l).to = "qkv_norm"
          /\ Item(<<"q_norm">>, "q_layernorm", l).to = "q_layernorm"
          /\ Item(<<"k_norm">>, "k_layernorm", l).to = "k_layernorm"
          /\ Item(<<"post_norm">>, "fc1_norm", l).to = "fc1_norm"
          /\ Item(<<"o">>, "proj", l).to = "proj"
          /\ Item(<<"down">>, "fc2", l).to = "fc2"
          /\ Item(<<"q", "k", "v">>, "qkv", l).to = "qkv"
          /\ Item(<<"q_bias", "k_bias", "v_bias">>, "qkv_bias", l).to = "qkv_bias"
          /\ Item(<<"gate", "up">>, "fc1", l).to = "fc1"
      BY DEF Item
    <3> QED BY <2>1, <2>9, <3>1, <3>2, <3>3, <3>4 DEF LayerItems
  <2> QED BY <2>2, <2>10 DEF KeyOf, NoHeadOf, v, i
<1>2. CASE item = Item(<<"embed">>, "word_embeddings", -1)
  <2>1. item.to = "word_embeddings" /\ item.layer = -1
    BY <1>2 DEF Item
  <2>2. i = -1 /\ -1 \in Int
    BY <2>1 DEF Seat
  <2>3. LayerAt(r, v, i) = -1
    BY <2>2 DEF LayerAt
  <2> HIDE DEF v, i
  <2>4. <<"embed", "word_embeddings">> \in Split
    BY DEF Split
  <2>5. \A c \in Split : Delivers(Item(<<c[1]>>, c[2], -1), r, <<v, c[2], i, -1>>)
    BY <2>2, <2>3, SplitDelivers
  <2>6. Delivers(item, r, <<v, item.to, i, -1>>)
    BY <1>2, <2>1, <2>4, <2>5
  <2> QED BY <2>1, <2>6 DEF KeyOf, NoHeadOf, v, i
<1>3. CASE item = Item(<<"norm">>, "final_layernorm", -1)
  <2>1. item.to = "final_layernorm" /\ item.layer = -1
    BY <1>3 DEF Item
  <2>2. i = -1 /\ -1 \in Int
    BY <2>1 DEF Seat
  <2>3. LayerAt(r, v, i) = -1
    BY <2>2 DEF LayerAt
  <2> HIDE DEF v, i
  <2>4. <<"norm", "final_layernorm">> \in Plain
    BY DEF Plain
  <2>5. \A c \in Plain : Delivers(Item(<<c[1]>>, c[2], -1), r, <<v, c[2], i, -1>>)
    BY <2>2, <2>3, PlainDelivers
  <2>6. Delivers(item, r, <<v, item.to, i, -1>>)
    BY <1>3, <2>1, <2>4, <2>5
  <2> QED BY <2>1, <2>6 DEF KeyOf, NoHeadOf, v, i
<1>4. CASE item = Item(<<"lm_head">>, "output_layer", -1)
  <2>1. item.to = "output_layer" /\ item.layer = -1
    BY <1>4 DEF Item
  <2>2. i = -1
    BY <2>1 DEF Seat
  <2> HIDE DEF v, i
  <2>3. CASE NoHeadOf(item)
    <3>1. job.value /\ job.head = 0
      BY <2>3 DEF NoHeadOf
    <3>2. Sent(item) = <<>> /\ Held(r, <<v, "output_layer", -1, -1>>) = Unset
      BY <1>4, <3>1, NoHead
    <3> QED BY <2>1, <2>2, <2>3, <3>2 DEF KeyOf, v, i
  <2>4. CASE ~NoHeadOf(item)
    <3>1. ~job.value \/ job.head = 1
      BY <1>0, <2>1, <2>4 DEF NoHeadOf
    <3>2. \/ job.value = TRUE \/ job.value = FALSE
      BY DEF Launchable, JobType
    <3>3. Delivers(item, r, <<v, "output_layer", -1, -1>>)
      BY <1>4, <3>1, HeadDelivers
    <3> QED BY <2>1, <2>2, <2>4, <3>3 DEF KeyOf, v, i
  <2> QED BY <2>3, <2>4
<1> QED BY <1>1, <1>2, <1>3, <1>4 DEF AllItems

-----------------------------------------------------------------------------
(* The invariant: what has arrived is right, what has not is blank.       *)

\* Item n of the loader brings the tensor under key k of rank r.
Brings(n, r, k) ==
  LET item == LoadProgram[n]
  IN /\ n \in 1..Len(LoadProgram) /\ Seat(item).pp = r.pp
     /\ KeyOf(item) = k /\ ~NoHeadOf(item)

LoadingInv ==
  /\ param = [r \in Rank |-> [k \in Keys(r.pp) |-> param[r][k]]]
  /\ \A r \in Rank : \A k \in Keys(r.pp) :
       param[r][k] = Blank[r][k] \/ param[r][k] = Held(r, k)
  /\ \A r \in Rank : \A k \in Keys(r.pp) : \A n \in 1..step - 1 :
       r.dp = 0 /\ Brings(n, r, k) => param[r][k] = Held(r, k)

LoadInv ==
  /\ job \in Jobs /\ step \in Positive
  /\ phase \in {"load", "sync", "save", "merge", "refused", "done"}
  /\ phase = "load" => LoadingInv
  /\ phase # "load" => param = Holding

\* What the assumption says of a job
LEMMA JobIs ==
  ASSUME job \in Jobs
  PROVE  /\ Launchable(job) /\ Counted(job) /\ job.experts \div job.ep \in Nat
         /\ job.bias \in BOOLEAN /\ job.qknorm \in BOOLEAN /\ job.layers \in Nat \ {0}
         /\ job.pp \in Nat \ {0} /\ job.vpp \in Nat \ {0} /\ job.tp \in Nat \ {0}
         /\ job.cp \in Nat \ {0} /\ job.dp \in Nat \ {0} /\ job.ep \in Nat \ {0}
         /\ job.experts \in Nat /\ job.from \in {"hf", "dist"} /\ job.value \in BOOLEAN
<1>1. Launchable(job)
  BY WeightsAssumption
<1>2. /\ job.bias \in BOOLEAN /\ job.qknorm \in BOOLEAN /\ job.layers \in Nat \ {0}
      /\ job.pp \in Nat \ {0} /\ job.vpp \in Nat \ {0} /\ job.tp \in Nat \ {0}
      /\ job.cp \in Nat \ {0} /\ job.dp \in Nat \ {0} /\ job.ep \in Nat \ {0}
      /\ job.experts \in Nat /\ job.from \in {"hf", "dist"} /\ job.value \in BOOLEAN
  BY <1>1 DEF Launchable, JobType, Positive
<1>3. Counted(job)
  BY <1>1, <1>2 DEF Launchable, Counted
<1>4. job.experts \div job.ep \in Nat
  BY <1>2, DivMod
<1> QED BY <1>1, <1>2, <1>3, <1>4

\* The keys of a stage are what named_parameters gives for its chunks.
LEMMA KeysAre ==
  ASSUME job \in Jobs, NEW p \in 0..job.pp - 1
  PROVE  /\ Keys(p) = UNION {NamedKeys(job, p, v) : v \in 0..job.vpp - 1}
         /\ \A v \in 0..job.vpp - 1 : Lists(Key, Named(job, p, v), NamedKeys(job, p, v))
         /\ Keys(p) \subseteq Key
<1>1. ASSUME NEW v \in 0..job.vpp - 1
      PROVE  Lists(Key, Named(job, p, v), NamedKeys(job, p, v))
  <2>1. v \in Nat /\ LayersIn(job, p, v) \in Nat
    BY JobIs DEF Counted
  <2> QED BY <2>1, JobIs, NamedIs
<1>2. \A v \in 0..job.vpp - 1 : /\ ToSet(Named(job, p, v)) = NamedKeys(job, p, v)
                                 /\ Named(job, p, v) \in Seq(Key)
  BY <1>1 DEF Lists
<1>3. Keys(p) = UNION {NamedKeys(job, p, v) : v \in 0..job.vpp - 1}
  BY <1>2 DEF Keys
<1>4. ASSUME NEW v \in 0..job.vpp - 1 PROVE NamedKeys(job, p, v) \subseteq Key
  <2> DEFINE s == Named(job, p, v)
  <2> HIDE DEF s
  <2>1. s \in Seq(Key) /\ ToSet(s) = NamedKeys(job, p, v)
    BY <1>2 DEF s
  <2>2. ToSet(s) \subseteq Key
    BY <2>1 DEF ToSet
  <2> QED BY <2>1, <2>2
<1>5. Keys(p) \subseteq Key
  BY <1>3, <1>4
<1> QED BY <1>1, <1>3, <1>5

\* Every parameter has a tensor of the checkpoint.
LEMMA EveryKeyIsBrought ==
  ASSUME job \in Jobs, job.from = "hf", NEW r \in Rank, NEW k \in Keys(r.pp)
  PROVE  \E item \in AllItems(TRUE) : Seat(item).pp = r.pp /\ KeyOf(item) = k
<1>0. /\ r.pp \in 0..job.pp - 1 /\ Launchable(job) /\ job.pp \in Nat \ {0}
      /\ job.layers \in Nat \ {0} /\ job.vpp \in Nat \ {0}
      /\ job.ep \in Nat \ {0} /\ job.experts = 0
  BY JobIs DEF Rank, Launchable
<1>1. EvenFacts(job, Per(job))
  BY <1>0, EvenIs DEF Launchable
<1>2. PICK v \in 0..job.vpp - 1 : k \in NamedKeys(job, r.pp, v)
  BY <1>0, KeysAre
<1>3. job.experts \div job.ep = 0
  BY <1>0
<1>4. CASE r.pp = 0 /\ v = 0 /\ k = <<v, "word_embeddings", -1, -1>>
  <2> DEFINE item == Item(<<"embed">>, "word_embeddings", -1)
  <2>1. item.to = "word_embeddings" /\ item.layer = -1 /\ item \in AllItems(TRUE)
    BY DEF Item, AllItems
  <2> HIDE DEF item
  <2>2. Seat(item) = [pp |-> 0, vpp |-> 0, idx |-> -1]
    BY <2>1 DEF Seat
  <2>3. KeyOf(item) = k /\ Seat(item).pp = r.pp
    BY <1>4, <2>1, <2>2 DEF KeyOf
  <2> QED BY <2>1, <2>3
<1>5. CASE r.pp = job.pp - 1 /\ v = job.vpp - 1 /\ k = <<v, "final_layernorm", -1, -1>>
  <2> DEFINE item == Item(<<"norm">>, "final_layernorm", -1)
  <2>1. item.to = "final_layernorm" /\ item.layer = -1 /\ item \in AllItems(TRUE)
    BY DEF Item, AllItems
  <2> HIDE DEF item
  <2>2. Seat(item) = [pp |-> job.pp - 1, vpp |-> job.vpp - 1, idx |-> -1]
    BY <2>1 DEF Seat
  <2>3. KeyOf(item) = k /\ Seat(item).pp = r.pp
    BY <1>5, <2>1, <2>2 DEF KeyOf
  <2> QED BY <2>1, <2>3
<1>6. CASE r.pp = job.pp - 1 /\ v = job.vpp - 1 /\ k = <<v, "output_layer", -1, -1>>
  <2> DEFINE item == Item(<<"lm_head">>, "output_layer", -1)
  <2>1. item.to = "output_layer" /\ item.layer = -1 /\ item \in AllItems(TRUE)
    BY DEF Item, AllItems
  <2> HIDE DEF item
  <2>2. Seat(item) = [pp |-> job.pp - 1, vpp |-> job.vpp - 1, idx |-> -1]
    BY <2>1 DEF Seat
  <2>3. KeyOf(item) = k /\ Seat(item).pp = r.pp
    BY <1>6, <2>1, <2>2 DEF KeyOf
  <2> QED BY <2>1, <2>3
<1>7. ASSUME NEW n \in LayerNames(job), NEW i \in 0..LayersIn(job, r.pp, v) - 1,
             k = <<v, n, i, -1>>
      PROVE  \E item \in AllItems(TRUE) : Seat(item).pp = r.pp /\ KeyOf(item) = k
  <2> DEFINE l == Placed(job, r.pp, v, i)
  <2>1. i \in 0..Per(job) - 1
    BY <1>0, <1>1 DEF EvenFacts
  <2>2. l \in 0..job.layers - 1 /\ LayerMap[l] = [pp |-> r.pp, vpp |-> v, idx |-> i]
    BY <1>0, <1>1, <2>1, LayerMapIs
  <2> HIDE DEF l
  <2>3. PICK item \in LayerItems(l) : item.to = n /\ item.layer = l
    <3>1. /\ Item(<<"input_norm">>, "qkv_norm", l) \in LayerItems(l)
          /\ job.qknorm => /\ Item(<<"q_norm">>, "q_layernorm", l) \in LayerItems(l)
                           /\ Item(<<"k_norm">>, "k_layernorm", l) \in LayerItems(l)
          /\ Item(<<"q", "k", "v">>, "qkv", l) \in LayerItems(l)
          /\ job.bias => Item(<<"q_bias", "k_bias", "v_bias">>, "qkv_bias", l) \in LayerItems(l)
          /\ Item(<<"o">>, "proj", l) \in LayerItems(l)
          /\ Item(<<"post_norm">>, "fc1_norm", l) \in LayerItems(l)
          /\ Item(<<"gate", "up">>, "fc1", l) \in LayerItems(l)
          /\ Item(<<"down">>, "fc2", l) \in LayerItems(l)
      BY DEF LayerItems
    <3>2. \A f, t : Item(f, t, l).to = t /\ Item(f, t, l).layer = l
      BY DEF Item
    <3>3. \/ n \in {"proj", "qkv_norm", "qkv", "fc1_norm", "fc1", "fc2"}
          \/ job.bias /\ n = "qkv_bias"
          \/ job.qknorm /\ n \in {"q_layernorm", "k_layernorm"}
      BY <1>0 DEF LayerNames
    <3> QED BY <3>1, <3>2, <3>3
  <2>4. item \in AllItems(TRUE)
    BY <2>2, <2>3 DEF AllItems
  <2>5. Seat(item) = LayerMap[l]
    BY <1>0, <2>2, <2>3 DEF Seat
  <2>6. Seat(item).pp = r.pp /\ KeyOf(item) = k
    BY <1>7, <2>2, <2>3, <2>5 DEF KeyOf
  <2> QED BY <2>4, <2>6
<1>8. 0..(job.experts \div job.ep) - 1 = {}
  BY <1>3
<1>9. \/ r.pp = 0 /\ v = 0 /\ k = <<v, "word_embeddings", -1, -1>>
      \/ r.pp = job.pp - 1 /\ v = job.vpp - 1 /\ k = <<v, "final_layernorm", -1, -1>>
      \/ r.pp = job.pp - 1 /\ v = job.vpp - 1 /\ k = <<v, "output_layer", -1, -1>>
      \/ \E n \in LayerNames(job), i \in 0..LayersIn(job, r.pp, v) - 1 : k = <<v, n, i, -1>>
  <2> DEFINE A == IF r.pp = 0 /\ v = 0 THEN {<<v, "word_embeddings", -1, -1>>} ELSE {}
             B == {<<v, n, i, -1>> : n \in LayerNames(job), i \in 0..LayersIn(job, r.pp, v) - 1}
             C == {<<v, n, i, e>> : n \in {"expert_fc1", "expert_fc2"},
                     i \in 0..LayersIn(job, r.pp, v) - 1, e \in 0..(job.experts \div job.ep) - 1}
             D == IF r.pp = job.pp - 1 /\ v = job.vpp - 1
                    THEN {<<v, "final_layernorm", -1, -1>>} ELSE {}
             E == IF (r.pp = job.pp - 1 /\ v = job.vpp - 1) /\ ~(job.tied /\ job.pp = 1)
                    THEN {<<v, "output_layer", -1, -1>>} ELSE {}
  <2>1. NamedKeys(job, r.pp, v) = ((A \cup (B \cup C)) \cup D) \cup E
    BY DEF NamedKeys
  <2>2. C = {}
    BY <1>8
  <2>3. k \in A => r.pp = 0 /\ v = 0 /\ k = <<v, "word_embeddings", -1, -1>>
    OBVIOUS
  <2>4. k \in B => \E n \in LayerNames(job), i \in 0..LayersIn(job, r.pp, v) - 1 :
                       k = <<v, n, i, -1>>
    OBVIOUS
  <2>5. k \in D => r.pp = job.pp - 1 /\ v = job.vpp - 1 /\ k = <<v, "final_layernorm", -1, -1>>
    OBVIOUS
  <2>6. k \in E => r.pp = job.pp - 1 /\ v = job.vpp - 1 /\ k = <<v, "output_layer", -1, -1>>
    OBVIOUS
  <2> HIDE DEF A, B, C, D, E
  <2>7. k \in A \/ k \in B \/ k \in D \/ k \in E
    BY <1>2, <2>1, <2>2
  <2> QED BY <2>3, <2>4, <2>5, <2>6, <2>7
<1> QED BY <1>4, <1>5, <1>6, <1>7, <1>9

\* The loader goes through items of AllItems only, and through each of them.
LEMMA ProgramIs ==
  ASSUME job \in Jobs
  PROVE  /\ Len(LoadProgram) \in Nat
         /\ \A n \in 1..Len(LoadProgram) : LoadProgram[n] \in AllItems(TRUE)
         /\ \A item \in AllItems(TRUE) : \E n \in 1..Len(LoadProgram) : LoadProgram[n] = item
<1>1. Lists(AnyItem, LoadProgram, AllItems(TRUE))
  BY JobIs, ItemsIs DEF LoadProgram
<1> DEFINE s == LoadProgram
<1> HIDE DEF s
<1>2. s \in Seq(AnyItem) /\ ToSet(s) = AllItems(TRUE)
  BY <1>1 DEF Lists, s
<1>3. Len(s) \in Nat /\ DOMAIN s = 1..Len(s)
  BY <1>2
<1>4. AllItems(TRUE) = {s[n] : n \in 1..Len(s)}
  BY <1>2, <1>3 DEF ToSet
<1> QED BY <1>3, <1>4 DEF s

\* A parameter that is not loaded has no rows, and keeps them.
LEMMA HeldIsSeq ==
  ASSUME job \in Jobs, job.from = "hf", NEW r \in Rank, NEW k \in Keys(r.pp)
  PROVE  /\ Len(Blank[r][k]) = Len(Held(r, k))
         /\ Held(r, k) = Unset => Blank[r][k] = Held(r, k)
<1>1. PICK item \in AllItems(TRUE) : Seat(item).pp = r.pp /\ KeyOf(item) = k
  BY EveryKeyIsBrought
<1>2. IF NoHeadOf(item) THEN Held(r, k) = Unset ELSE Held(r, k) \in Seq(Row)
  BY <1>1, ItemDelivers, JobIs DEF Delivers
<1>3. Blank[r][k] = [i \in DOMAIN Held(r, k) |-> Unset[1]]
  BY DEF Blank
<1> DEFINE h == Held(r, k)
           b == Blank[r][k]
           u == <<<<"init", -1, -1>>, 1>>
<1> HIDE DEF h, b, u
<1>4. Unset = <<u>> /\ Unset[1] = u
  BY DEF Unset, u
<1>5. b = [i \in DOMAIN h |-> u]
  BY <1>3, <1>4 DEF b, h
<1>6. h = <<u>> => b = h
  BY <1>5
<1>7. h \in Seq(Row) => Len(b) = Len(h)
  BY <1>5
<1>8. Len(b) = Len(h)
  BY <1>2, <1>4, <1>6, <1>7 DEF h
<1>9. h = Unset => b = h
  BY <1>4, <1>6
<1> QED BY <1>8, <1>9 DEF h, b

-----------------------------------------------------------------------------
(* Loading keeps it.                                                      *)

\* The job stays, and with it all that is defined by it.
LEMMA SameJob ==
  ASSUME job' = job
  PROVE  /\ Rank' = Rank /\ \A p : Keys(p)' = Keys(p)
         /\ \A r, k : Held(r, k)' = Held(r, k)
         /\ Blank' = Blank /\ Holding' = Holding
         /\ \A n, r, k : Brings(n, r, k)' = Brings(n, r, k)
<1>1. Rank' = Rank
  BY DEF Rank
<1>2. ASSUME NEW p PROVE Keys(p)' = Keys(p)
  BY DEF Keys
<1>3. ASSUME NEW r, NEW k PROVE Held(r, k)' = Held(r, k)
  BY DEF Held, Tensor, Size, ExpertSeat, ExpertsPerRank
<1>4. Blank' = Blank
  BY <1>3 DEF Blank, Keys, Rank
<1>5. Holding' = Holding
  BY <1>3 DEF Holding, Keys, Rank
<1>6. LoadProgram' = LoadProgram
  BY DEF LoadProgram, Items
<1>7. ASSUME NEW i PROVE Seat(i)' = Seat(i)
  BY DEF Seat, LayerMap
<1>8. ASSUME NEW n, NEW r, NEW k PROVE Brings(n, r, k)' = Brings(n, r, k)
  BY <1>6, <1>7 DEF Brings, KeyOf, NoHeadOf
<1> QED BY <1>1, <1>2, <1>3, <1>4, <1>5, <1>8

\* Replicas are to hold what the first of them is.
LEMMA HeldSpreads ==
  ASSUME job \in Jobs, job.from = "hf", NEW r \in Rank, NEW k \in Keys(r.pp)
  PROVE  /\ [r EXCEPT !.dp = 0] \in Rank /\ [r EXCEPT !.dp = 0].pp = r.pp
         /\ [r EXCEPT !.dp = 0].dp = 0
         /\ Held([r EXCEPT !.dp = 0], k) = Held(r, k)
<1> DEFINE s == [r EXCEPT !.dp = 0]
<1>1. s \in Rank /\ s.pp = r.pp /\ s.tp = r.tp /\ s.dp = 0
  BY JobIs DEF Rank
<1> HIDE DEF s
<1>2. PICK item \in AllItems(TRUE) : Seat(item).pp = r.pp /\ KeyOf(item) = k
  BY EveryKeyIsBrought
<1>3. k[2] = item.to
  BY <1>2 DEF KeyOf
<1>4. item.to # "expert_fc1" /\ item.to # "expert_fc2" /\ item.to \in Names
  BY DEF AllItems, LayerItems, Item, Names
<1>5. LayerAt(s, k[1], k[3]) = LayerAt(r, k[1], k[3])
  BY <1>1 DEF LayerAt
<1>6. Held(s, k) = Held(r, k)
  BY <1>1, <1>3, <1>4, <1>5, HeldIs DEF Names
<1> QED BY <1>1, <1>6 DEF s

\* The state dict of every replica comes from its own group.
LEMMA SourceIs ==
  ASSUME job \in Jobs, NEW r \in Rank, r.dp = 0
  PROVE  SameModelGroup(r, Source(r))
<1>1. /\ job.tp \in Nat \ {0} /\ job.cp \in Nat \ {0} /\ job.dp \in Nat \ {0}
      /\ job.pp \in Nat \ {0}
  BY JobIs
<1>2. r.cp \in 0..job.cp - 1 /\ 0 \in 0..job.tp - 1 /\ 0 \in 0..job.dp - 1 /\ 0 \in Nat
  BY <1>1 DEF Rank
<1>3. Source(r) = [tp |-> 0, cp |-> r.cp, dp |-> 0, pp |-> 0]
  BY <1>1, <1>2, RankAtIs DEF Source
<1> QED BY <1>3 DEF SameModelGroup

\* A job starts with blank parameters, before the first item.
LEMMA LoadInit == WeightsInit => LoadInv
<1> SUFFICES ASSUME WeightsInit PROVE LoadInv
  OBVIOUS
<1>1. job \in Jobs /\ phase = "load" /\ step = 1 /\ param = Blank
  BY DEF WeightsInit
<1>2. Blank = [r \in Rank |-> [k \in Keys(r.pp) |-> Blank[r][k]]]
  BY DEF Blank
<1>3. 1..step - 1 = {}
  BY <1>1
<1>4. LoadingInv
  BY <1>1, <1>2, <1>3 DEF LoadingInv
<1> QED BY <1>1, <1>4 DEF LoadInv, Positive

\* A step of the loader: the tensor goes to every rank that has a place for it,
\* in the shape it has there.
LEMMA LoadStep == LoadInv /\ LoadItem => LoadInv'
<1> SUFFICES ASSUME LoadInv, LoadItem PROVE LoadInv'
  OBVIOUS
<1> DEFINE item == LoadProgram[step]
           sent == Sent(item)
           seat == Seat(item)
           key == <<seat.vpp, item.to, seat.idx, -1>>
           Receives(r) ==
             r.dp = 0 /\ r.pp = seat.pp /\ key \in Keys(r.pp) /\ sent # <<>>
           Piece(r) == sent[IF Len(sent) = 1 THEN 1 ELSE r.tp + 1]
           Good == \A r \in Rank :
                     /\ r.dp = 0 => SameModelGroup(r, Source(r))
                     /\ Receives(r) => Len(Piece(r)) = Len(param[r][key])
<1>1. /\ phase = "load" /\ job.from = "hf" /\ step <= Len(LoadProgram) /\ job \in Jobs
      /\ step \in Positive /\ LoadingInv /\ job' = job
  BY DEF LoadInv, LoadItem
<1>2. IF Good
        THEN /\ param' = [r \in Rank |-> IF Receives(r)
                            THEN [param[r] EXCEPT ![key] = Piece(r)] ELSE param[r]]
             /\ step' = step + 1 /\ phase' = phase
        ELSE Fail
  BY DEF LoadItem
<1>3. step \in 1..Len(LoadProgram) /\ item \in AllItems(TRUE)
  <2>1. /\ Len(LoadProgram) \in Nat
        /\ \A n \in 1..Len(LoadProgram) : LoadProgram[n] \in AllItems(TRUE)
    BY <1>1, ProgramIs
  <2>2. step \in 1..Len(LoadProgram)
    BY <1>1, <2>1 DEF Positive
  <2> QED BY <2>1, <2>2
<1>4. key = KeyOf(item)
  BY DEF KeyOf
<1>5. ASSUME NEW r \in Rank, Receives(r)
      PROVE  /\ Piece(r) = Held(r, key) /\ ~NoHeadOf(item)
             /\ Len(param[r][key]) = Len(Held(r, key))
  <2>1. IF NoHeadOf(item) THEN Sent(item) = <<>> ELSE Delivers(item, r, KeyOf(item))
    BY <1>1, <1>3, <1>5, ItemDelivers, JobIs
  <2>2. ~NoHeadOf(item) /\ Delivers(item, r, key)
    BY <1>4, <1>5, <2>1
  <2>3. Piece(r) = Held(r, key)
    BY <2>2 DEF Delivers, PieceOf
  <2>4. param[r][key] = Blank[r][key] \/ param[r][key] = Held(r, key)
    BY <1>1, <1>5 DEF LoadingInv
  <2>5. Len(Blank[r][key]) = Len(Held(r, key))
    BY <1>1, <1>5, HeldIsSeq
  <2> QED BY <2>2, <2>3, <2>4, <2>5
<1> HIDE DEF item, seat, key
<1>6. Good
  BY <1>1, <1>5, SourceIs
<1> DEFINE after == [r \in Rank |-> IF Receives(r)
                       THEN [param[r] EXCEPT ![key] = Piece(r)] ELSE param[r]]
<1>7. param' = after /\ step' = step + 1 /\ phase' = phase
  BY <1>2, <1>6
<1>8. \A r \in Rank : DOMAIN param[r] = Keys(r.pp)
  <2>1. param = [r \in Rank |-> [k \in Keys(r.pp) |-> param[r][k]]]
    BY <1>1 DEF LoadingInv
  <2> DEFINE g(r) == [k \in Keys(r.pp) |-> param[r][k]]
  <2>2. \A r \in Rank : param[r] = g(r)
    BY <2>1
  <2>3. \A r \in Rank : DOMAIN g(r) = Keys(r.pp)
    OBVIOUS
  <2> HIDE DEF g
  <2> QED BY <2>2, <2>3
<1>9. ASSUME NEW r \in Rank, NEW k \in Keys(r.pp)
      PROVE  after[r][k] = IF Receives(r) /\ k = key THEN Held(r, k) ELSE param[r][k]
  <2>1. CASE Receives(r)
    <3> DEFINE x == Piece(r)
    <3>1. after[r] = [param[r] EXCEPT ![key] = x] /\ x = Held(r, key)
      BY <1>5, <2>1
    <3> HIDE DEF x, after
    <3> QED BY <1>8, <2>1, <3>1
  <2>2. CASE ~Receives(r)
    BY <2>2
  <2> QED BY <2>1, <2>2
<1>10. after = [r \in Rank |-> [k \in Keys(r.pp) |-> after[r][k]]]
  <2>1. ASSUME NEW r \in Rank
        PROVE  after[r] = [k \in Keys(r.pp) |-> after[r][k]]
    <3>1. param[r] = [k \in Keys(r.pp) |-> param[r][k]]
      BY <1>1 DEF LoadingInv
    <3>2. CASE Receives(r)
      <4> DEFINE x == Piece(r)
      <4>1. after[r] = [param[r] EXCEPT ![key] = x]
        BY <3>2
      <4> HIDE DEF x, after
      <4> QED BY <1>8, <3>1, <4>1
    <3>3. CASE ~Receives(r)
      <4>1. after[r] = param[r]
        BY <3>3
      <4> HIDE DEF after
      <4> QED BY <3>1, <4>1
    <3> QED BY <3>2, <3>3
  <2>2. DOMAIN after = Rank /\ after = [r \in Rank |-> after[r]]
    OBVIOUS
  <2> HIDE DEF after
  <2> QED BY <2>1, <2>2
<1> HIDE DEF after
<1>11. \A r \in Rank : \A k \in Keys(r.pp) :
          after[r][k] = Blank[r][k] \/ after[r][k] = Held(r, k)
  BY <1>1, <1>9 DEF LoadingInv
<1>12. ASSUME NEW r \in Rank, NEW k \in Keys(r.pp), NEW n \in 1..(step + 1) - 1,
              r.dp = 0, Brings(n, r, k)
       PROVE  after[r][k] = Held(r, k)
  <2>1. CASE n = step
    <3>1. k = key /\ seat.pp = r.pp /\ ~NoHeadOf(item)
      BY <1>4, <1>12, <2>1 DEF Brings, item, seat
    <3>2. Delivers(item, r, KeyOf(item))
      BY <1>1, <1>3, <3>1, ItemDelivers, JobIs DEF seat
    <3>3. sent # <<>>
      BY <3>2 DEF Delivers
    <3>4. Receives(r)
      BY <1>12, <3>1, <3>3
    <3> QED BY <1>9, <3>1, <3>4
  <2>2. CASE n # step
    <3>1. n \in 1..step - 1
      BY <1>1, <2>2 DEF Positive
    <3>2. param[r][k] = Held(r, k)
      BY <1>1, <1>12, <3>1 DEF LoadingInv
    <3> QED BY <1>9, <3>2
  <2> QED BY <2>1, <2>2
<1>13. LoadingInv'
  <2>1. /\ Rank' = Rank /\ Blank' = Blank /\ \A p : Keys(p)' = Keys(p)
        /\ \A r, k : Held(r, k)' = Held(r, k)
        /\ \A n, r, k : Brings(n, r, k)' = Brings(n, r, k)
    BY <1>1, SameJob
  <2> QED BY <1>7, <1>10, <1>11, <1>12, <2>1 DEF LoadingInv
<1> QED BY <1>1, <1>7, <1>13 DEF LoadInv, Positive

\* After the last tensor every rank has its own, and gives it to the replicas.
LEMMA SpreadStep == LoadInv /\ SpreadParams => LoadInv'
<1> SUFFICES ASSUME LoadInv, SpreadParams PROVE LoadInv'
  OBVIOUS
<1>1. /\ phase = "load" /\ job.from = "hf" /\ step > Len(LoadProgram)
      /\ job' = job /\ step' = 1 /\ phase' \in {"save", "sync"}
      /\ param' = [r \in Rank |-> param[[r EXCEPT !.dp = 0]]]
      /\ job \in Jobs /\ LoadingInv /\ step \in Positive
  BY DEF LoadInv, SpreadParams
<1>2. ASSUME NEW s \in Rank, NEW k \in Keys(s.pp), s.dp = 0
      PROVE  param[s][k] = Held(s, k)
  <2>1. PICK item \in AllItems(TRUE) : Seat(item).pp = s.pp /\ KeyOf(item) = k
    BY <1>1, EveryKeyIsBrought
  <2>2. PICK n \in 1..Len(LoadProgram) : LoadProgram[n] = item
    BY <1>1, ProgramIs
  <2>3. CASE NoHeadOf(item)
    <3>1. Held(s, KeyOf(item)) = Unset
      BY <1>1, <2>1, <2>3, ItemDelivers, JobIs
    <3>2. Held(s, k) = Unset
      BY <2>1, <3>1
    <3>3. Blank[s][k] = Held(s, k)
      BY <1>1, <3>2, HeldIsSeq
    <3> QED BY <1>1, <3>3 DEF LoadingInv
  <2>4. CASE ~NoHeadOf(item)
    <3>1. Brings(n, s, k)
      BY <2>1, <2>2, <2>4 DEF Brings
    <3>2. n \in 1..step - 1
      <4>1. Len(LoadProgram) \in Nat
        BY <1>1, ProgramIs
      <4> QED BY <1>1, <4>1 DEF Positive
    <3> QED BY <1>1, <1>2, <3>1, <3>2 DEF LoadingInv
  <2> QED BY <2>3, <2>4
<1>3. ASSUME NEW r \in Rank
      PROVE  param[[r EXCEPT !.dp = 0]] = [k \in Keys(r.pp) |-> Held(r, k)]
  <2> DEFINE s == [r EXCEPT !.dp = 0]
  <2>0. job.dp \in Nat \ {0}
    BY <1>1, JobIs
  <2>1. s \in Rank /\ s.pp = r.pp /\ s.dp = 0
    BY ONLY <2>0, r \in Rank DEF Rank
  <2>2. \A k \in Keys(r.pp) : Held(s, k) = Held(r, k)
    BY <1>1, HeldSpreads
  <2> HIDE DEF s
  <2>3. param[s] = [k \in Keys(s.pp) |-> param[s][k]]
    <3>1. param = [q \in Rank |-> [k \in Keys(q.pp) |-> param[q][k]]]
      BY <1>1 DEF LoadingInv
    <3> QED BY <2>1, <3>1
  <2>4. \A k \in Keys(s.pp) : param[s][k] = Held(s, k)
    BY <1>2, <2>1
  <2>5. param[s] = [k \in Keys(r.pp) |-> Held(r, k)]
    BY <2>1, <2>2, <2>3, <2>4
  <2> QED BY <2>5 DEF s
<1>4. param' = Holding
  BY <1>1, <1>3 DEF Holding
<1>5. Holding' = Holding
  BY <1>1, SameJob
<1>6. step' \in Positive
  BY <1>1 DEF Positive
<1> QED BY <1>1, <1>4, <1>5, <1>6 DEF LoadInv

-----------------------------------------------------------------------------
(* Exporting, saving and feeding the engine keep it.                      *)

MetaEntry == [pp : 0..job.pp - 1, key : Key]

\* The metadata gathered over the stages lists every parameter of each.
LEMMA MetaIs ==
  ASSUME job \in Jobs
  PROVE  /\ Meta \in Seq(MetaEntry)
         /\ ToSet(Meta) = {x \in MetaEntry : x.key \in Keys(x.pp)}
<1> DEFINE Each(p, v) == LET names == Named(job, p - 1, v - 1)
                         IN [n \in 1..Len(names) |-> [pp |-> p - 1, key |-> names[n]]]
           Stage(p) == Flat([v \in 1..job.vpp |-> Each(p, v)])
           all == [p \in 1..job.pp |-> Stage(p)]
<1>0. job.pp \in Nat \ {0} /\ job.vpp \in Nat \ {0}
  BY JobIs
<1>1. ASSUME NEW p \in 1..job.pp, NEW v \in 1..job.vpp
      PROVE  /\ Each(p, v) \in Seq(MetaEntry)
             /\ ToSet(Each(p, v)) = {x \in MetaEntry :
                  x.pp = p - 1 /\ x.key \in NamedKeys(job, p - 1, v - 1)}
  <2>1. p - 1 \in 0..job.pp - 1 /\ v - 1 \in 0..job.vpp - 1
    BY <1>0
  <2> DEFINE names == Named(job, p - 1, v - 1)
             q == p - 1
  <2>2. names \in Seq(Key) /\ ToSet(names) = NamedKeys(job, p - 1, v - 1)
    BY <2>1, KeysAre DEF Lists
  <2> DEFINE s == [n \in 1..Len(names) |-> [pp |-> q, key |-> names[n]]]
  <2> HIDE DEF names, q
  <2>3. q \in 0..job.pp - 1
    BY <2>1 DEF q
  <2>4. Len(names) \in Nat /\ \A n \in 1..Len(names) : names[n] \in Key
    BY <2>2
  <2>5. \A n \in 1..Len(names) : s[n] \in MetaEntry /\ s[n].pp = q /\ s[n].key = names[n]
    BY <2>3, <2>4 DEF MetaEntry
  <2>6. DOMAIN s = 1..Len(names) /\ s = [n \in 1..Len(names) |-> s[n]]
    OBVIOUS
  <2> HIDE DEF s
  <2>7. s \in Seq(MetaEntry)
    BY <2>4, <2>5, <2>6, MakeSeq
  <2>8. ToSet(s) = {x \in MetaEntry : x.pp = q /\ x.key \in ToSet(names)}
    <3>1. ToSet(s) = {s[n] : n \in 1..Len(names)}
      BY <2>6 DEF ToSet
    <3>2. ToSet(names) = {names[n] : n \in 1..Len(names)}
      BY <2>2 DEF ToSet
    <3>3. ASSUME NEW x \in MetaEntry, NEW n \in 1..Len(names), x.pp = q, x.key = names[n]
          PROVE  x = s[n]
      BY <2>5, <3>3 DEF MetaEntry
    <3> QED BY <2>5, <3>1, <3>2, <3>3
  <2> QED BY <2>2, <2>7, <2>8 DEF s, q, names
<1> HIDE DEF Each
<1>2. ASSUME NEW p \in 1..job.pp
      PROVE  /\ Stage(p) \in Seq(MetaEntry)
             /\ ToSet(Stage(p)) = {x \in MetaEntry : x.pp = p - 1 /\ x.key \in Keys(p - 1)}
  <2> DEFINE s == [v \in 1..job.vpp |-> Each(p, v)]
  <2>1. DOMAIN s = 1..job.vpp /\ s = [v \in 1..job.vpp |-> s[v]]
        /\ \A v \in 1..job.vpp : s[v] \in Seq(MetaEntry) /\ s[v] = Each(p, v)
    BY <1>1
  <2>2. job.vpp \in Nat
    BY <1>0
  <2> HIDE DEF s
  <2>3. s \in Seq(Seq(MetaEntry))
    BY <2>1, <2>2, MakeSeq
  <2>4. /\ Flat(s) \in Seq(MetaEntry)
        /\ ToSet(Flat(s)) = UNION {ToSet(s[v]) : v \in DOMAIN s}
    BY <2>3, FlatInto
  <2>5. p - 1 \in 0..job.pp - 1
    BY <1>0
  <2>6. Keys(p - 1) = UNION {NamedKeys(job, p - 1, v) : v \in 0..job.vpp - 1}
    BY <2>5, KeysAre
  <2>7. ASSUME NEW x \in ToSet(Flat(s))
        PROVE  x \in MetaEntry /\ x.pp = p - 1 /\ x.key \in Keys(p - 1)
    <3>1. PICK v \in 1..job.vpp : x \in ToSet(s[v])
      BY <2>1, <2>4
    <3>2. x \in MetaEntry /\ x.pp = p - 1 /\ x.key \in NamedKeys(job, p - 1, v - 1)
      BY <1>1, <2>1, <3>1
    <3>3. v - 1 \in 0..job.vpp - 1
      BY <1>0
    <3> QED BY <2>6, <3>2, <3>3
  <2>8. ASSUME NEW x \in MetaEntry, x.pp = p - 1, x.key \in Keys(p - 1)
        PROVE  x \in ToSet(Flat(s))
    <3>1. PICK v \in 0..job.vpp - 1 : x.key \in NamedKeys(job, p - 1, v)
      BY <2>6, <2>8
    <3>2. v + 1 \in 1..job.vpp /\ (v + 1) - 1 = v
      BY <1>0
    <3>3. PICK u \in 1..job.vpp : u - 1 = v
      BY <3>2
    <3>4. x \in ToSet(Each(p, u))
      BY <1>1, <2>8, <3>1, <3>3
    <3> QED BY <2>1, <2>4, <3>4
  <2> QED BY <2>4, <2>7, <2>8 DEF s
<1> HIDE DEF Stage
<1>3. DOMAIN all = 1..job.pp /\ all = [p \in 1..job.pp |-> all[p]]
      /\ \A p \in 1..job.pp : all[p] \in Seq(MetaEntry) /\ all[p] = Stage(p)
  BY <1>2
<1>4. Meta = Flat(all)
  BY DEF Meta, Each, Stage
<1>5. job.pp \in Nat
  BY <1>0
<1> HIDE DEF all
<1>6. all \in Seq(Seq(MetaEntry))
  BY <1>3, <1>5, MakeSeq
<1>7. /\ Meta \in Seq(MetaEntry)
      /\ ToSet(Meta) = UNION {ToSet(all[p]) : p \in DOMAIN all}
  BY <1>4, <1>6, FlatInto
<1>8. ASSUME NEW x \in ToSet(Meta) PROVE x \in MetaEntry /\ x.key \in Keys(x.pp)
  BY <1>2, <1>3, <1>7
<1>9. ASSUME NEW x \in MetaEntry, x.key \in Keys(x.pp) PROVE x \in ToSet(Meta)
  <2>1. x.pp + 1 \in 1..job.pp /\ (x.pp + 1) - 1 = x.pp
    BY <1>0 DEF MetaEntry
  <2>2. x \in ToSet(all[x.pp + 1])
    BY <1>2, <1>3, <1>9, <2>1
  <2> QED BY <1>3, <1>7, <2>1, <2>2
<1> QED BY <1>7, <1>8, <1>9

Parallel ==
  {"word_embeddings", "output_layer", "qkv", "qkv_bias", "proj", "fc1", "fc2",
   "expert_fc1", "expert_fc2"}

\* Concatenation and conversion agree on the number of tensors of a name.
LEMMA ConvertedOk ==
  ASSUME NEW name \in Names, NEW l, NEW e, NEW pieces
  PROVE  /\ Converted(name, l, e, TpConcat(name, pieces)).ok
         /\ name \notin Parallel => \A x : Converted(name, l, e, <<x>>).ok
<1>1. ASSUME NEW ts, Len(HfParts(name)) = Len(ts) PROVE Converted(name, l, e, ts).ok
  BY <1>1 DEF Converted
<1>2. Len(TpConcat(name, pieces)) =
        IF name \in {"qkv", "qkv_bias"} THEN 3
        ELSE IF name \in {"fc1", "expert_fc1"} THEN 2 ELSE 1
  BY DEF TpConcat, Ungrouped
<1>3. Len(HfParts(name)) =
        IF name \in {"qkv", "qkv_bias"} THEN 3
        ELSE IF name \in {"fc1", "expert_fc1"} THEN 2 ELSE 1
  BY DEF HfParts, Names
<1>4. name \notin Parallel => Len(HfParts(name)) = 1
  BY <1>3 DEF Parallel
<1>5. \A x : Len(<<x>>) = 1
  OBVIOUS
<1> QED BY <1>1, <1>2, <1>3, <1>4, <1>5

\* The conversion of a parameter to the names of the engine never fails.
LEMMA YieldedOk ==
  ASSUME job \in Jobs, NEW r, NEW at \in MetaEntry
  PROVE  Yielded(r, at).ok
<1> DEFINE name == at.key[2]
           layer == IF at.key[3] = -1 THEN -1 ELSE at.key[3] + LayerOffset(at.pp, at.key[1])
           byExpert == ExpertsGathered(r, at)
           each == [ep \in 1..job.ep |->
                      Converted(name, layer, GlobalExpert(ep - 1, at.key[4]),
                                TpConcat(name, byExpert[ep]))]
<1>1. name \in Names
  BY DEF MetaEntry, Key
<1>2. Yielded(r, at) =
        IF name \in {"expert_fc1", "expert_fc2"} /\ job.ep > 1
          THEN [ok |-> \A ep \in 1..job.ep : each[ep].ok,
                pairs |-> Flat([ep \in 1..job.ep |-> each[ep].pairs])]
        ELSE IF FromPp(r, at).parallel
          THEN Converted(name, layer, at.key[4], TpConcat(name, TpGathered(r, at)))
        ELSE Converted(name, layer, at.key[4], <<FromPp(r, at).rows>>)
  BY DEF Yielded
<1>3. FromPp(r, at).parallel <=> name \in Parallel
  BY DEF FromPp, Parallel
<1> HIDE DEF name, layer, byExpert
<1>4. ASSUME NEW ep \in 1..job.ep PROVE each[ep].ok
  <2>1. each[ep] = Converted(name, layer, GlobalExpert(ep - 1, at.key[4]),
                             TpConcat(name, byExpert[ep]))
    OBVIOUS
  <2> QED BY <1>1, <2>1, ConvertedOk
<1> HIDE DEF each
<1>5. Converted(name, layer, at.key[4], TpConcat(name, TpGathered(r, at))).ok
  BY <1>1, ConvertedOk
<1>6. name \notin Parallel => Converted(name, layer, at.key[4], <<FromPp(r, at).rows>>).ok
  BY <1>1, ConvertedOk
<1>7. CASE name \in {"expert_fc1", "expert_fc2"} /\ job.ep > 1
  <2> DEFINE b == \A ep \in 1..job.ep : each[ep].ok
             pr == Flat([ep \in 1..job.ep |-> each[ep].pairs])
  <2>1. Yielded(r, at) = [ok |-> b, pairs |-> pr]
    BY <1>2, <1>7
  <2>2. b = TRUE
    BY <1>4
  <2> HIDE DEF b, pr
  <2>3. Yielded(r, at) = [ok |-> TRUE, pairs |-> pr]
    BY <2>1, <2>2
  <2> QED BY <2>3
<1>8. CASE ~(name \in {"expert_fc1", "expert_fc2"} /\ job.ep > 1) /\ name \in Parallel
  <2>1. Yielded(r, at) = Converted(name, layer, at.key[4], TpConcat(name, TpGathered(r, at)))
    BY <1>2, <1>3, <1>8
  <2> QED BY <1>5, <2>1
<1>9. CASE ~(name \in {"expert_fc1", "expert_fc2"} /\ job.ep > 1) /\ name \notin Parallel
  <2>1. Yielded(r, at) = Converted(name, layer, at.key[4], <<FromPp(r, at).rows>>)
    BY <1>2, <1>3, <1>9
  <2> QED BY <1>6, <1>9, <2>1
<1> QED BY <1>7, <1>8, <1>9

\* Sending a parameter to the engine leaves the weights alone.
LEMMA SyncParamStep == LoadInv /\ SyncParam => LoadInv'
<1> SUFFICES ASSUME LoadInv, SyncParam PROVE LoadInv'
  OBVIOUS
<1>1. /\ phase = "sync" /\ step <= Len(Meta) /\ step \in Positive /\ job \in Jobs
      /\ job' = job /\ param' = param /\ param = Holding
  BY DEF LoadInv, SyncParam
<1>2. Meta[step] \in MetaEntry
  <2> DEFINE m == Meta
  <2>1. m \in Seq(MetaEntry)
    BY <1>1, MetaIs
  <2> HIDE DEF m
  <2>2. step \in 1..Len(m)
    BY <1>1, <2>1 DEF Positive, m
  <2> QED BY <2>1, <2>2 DEF m
<1>3. \A r \in Rank : Yielded(r, Meta[step]).ok
  BY <1>1, <1>2, YieldedOk
<1>4. step' = step + 1 /\ phase' = phase
  BY <1>3 DEF SyncParam
<1>5. Holding' = Holding
  BY <1>1, SameJob
<1> QED BY <1>1, <1>4, <1>5 DEF LoadInv, Positive

\* No step disturbs the invariant.
LEMMA LoadNext == LoadInv /\ [WeightsNext]_weightVars => LoadInv'
<1> SUFFICES ASSUME LoadInv, [WeightsNext]_weightVars PROVE LoadInv'
  OBVIOUS
<1>1. CASE LoadItem
  BY <1>1, LoadStep
<1>2. CASE SpreadParams
  BY <1>2, SpreadStep
<1>3. CASE LoadDist
  <2>1. /\ job' = job /\ param' = Holding /\ phase' \in {"save", "sync"} /\ step' = 1
        /\ job \in Jobs
    BY <1>3 DEF LoadDist, LoadInv
  <2>2. Holding' = Holding
    BY <2>1, SameJob
  <2> QED BY <2>1, <2>2 DEF LoadInv, Positive
<1>4. CASE SyncParam
  BY <1>4, SyncParamStep
<1>5. CASE SyncEnd \/ SaveItem \/ SaveEnd \/ MergeRank \/ MergeRefused
  <2>1. /\ phase # "load" /\ phase' \in {"sync", "save", "merge", "refused", "done"}
        /\ step' \in {1, step, step + 1} /\ job' = job /\ param' = param
        /\ job \in Jobs /\ step \in Positive /\ param = Holding
    BY <1>5 DEF SyncEnd, SaveItem, SaveEnd, MergeRank, MergeRefused, LoadInv
  <2>2. Holding' = Holding
    BY <2>1, SameJob
  <2> QED BY <2>1, <2>2 DEF LoadInv, Positive
<1>6. CASE UNCHANGED weightVars
  <2>1. job' = job /\ phase' = phase /\ step' = step /\ param' = param
    BY <1>6 DEF weightVars
  <2>2. Holding' = Holding
    BY <2>1, SameJob
  <2>3. phase = "load" => LoadingInv'
    <3>1. /\ Rank' = Rank /\ Blank' = Blank /\ \A p : Keys(p)' = Keys(p)
          /\ \A r, k : Held(r, k)' = Held(r, k)
          /\ \A n, r, k : Brings(n, r, k)' = Brings(n, r, k)
      BY <2>1, SameJob
    <3> QED BY <2>1, <3>1 DEF LoadingInv, LoadInv
  <2> QED BY <2>1, <2>2, <2>3 DEF LoadInv
<1> QED BY <1>1, <1>2, <1>3, <1>4, <1>5, <1>6 DEF WeightsNext

\* LoadedAsComputed: no load fails, and once the weights are loaded every rank
\* holds, under every parameter of its chunks, the rows that its place in the
\* grid of ranks computes with, whatever the numbers of ranks, stages, chunks,
\* layers, heads and experts are.  No later phase disturbs them.
THEOREM Loading == WeightsSpec => []LoadedAsComputed
<1>1. LoadInv => LoadedAsComputed
  BY DEF LoadInv, LoadedAsComputed
<1> QED BY <1>1, LoadInit, LoadNext, PTL DEF WeightsSpec

-----------------------------------------------------------------------------
(* Every layer is in a chunk, whatever the sizes of the chunks.           *)

\* What is handed from each chunk to the next reaches all of them.
LEMMA ChunkByChunk ==
  ASSUME NEW j, Counted(j), NEW R, <<0, 0>> \in R,
         \A v \in 0..j.vpp - 1, p \in 0..j.pp - 2 : <<p, v>> \in R => <<p + 1, v>> \in R,
         \A v \in 0..j.vpp - 1 : <<j.pp - 1, v>> \in R => <<0, v + 1>> \in R
  PROVE  /\ <<0, j.vpp>> \in R
         /\ \A p \in 0..j.pp - 1, v \in 0..j.vpp - 1 : <<p, v>> \in R
<1>0. j.pp \in Nat \ {0} /\ j.vpp \in Nat \ {0}
  BY DEF Counted
<1> DEFINE T == {v \in Nat : v <= j.vpp => <<0, v>> \in R}
<1>1. ASSUME NEW v \in 0..j.vpp - 1, <<0, v>> \in R
      PROVE  \A p \in 0..j.pp - 1 : <<p, v>> \in R
  <2> DEFINE Q == {p \in Nat : p \in 0..j.pp - 1 => <<p, v>> \in R}
  <2>1. 0 \in Q
    BY <1>1
  <2>2. ASSUME NEW p \in Nat, p \in Q PROVE p + 1 \in Q
    BY <1>0, <2>2
  <2> HIDE DEF Q
  <2>3. \A p \in Nat : p \in Q
    BY <2>1, <2>2, Induct
  <2> QED BY <1>0, <2>3 DEF Q
<1>2. 0 \in T
  OBVIOUS
<1>3. ASSUME NEW v \in Nat, v \in T PROVE v + 1 \in T
  <2>1. SUFFICES ASSUME v + 1 <= j.vpp PROVE <<0, v + 1>> \in R
    OBVIOUS
  <2>2. v \in 0..j.vpp - 1 /\ j.pp - 1 \in 0..j.pp - 1 /\ <<0, v>> \in R
    BY <1>0, <1>3, <2>1
  <2>3. <<j.pp - 1, v>> \in R
    BY <1>1, <2>2
  <2> QED BY <2>2, <2>3
<1> HIDE DEF T
<1>4. \A v \in Nat : v \in T
  BY <1>2, <1>3, Induct
<1>5. ASSUME NEW v \in 0..j.vpp PROVE <<0, v>> \in R
  <2>1. v \in Nat /\ v <= j.vpp
    BY <1>0
  <2>2. v \in T
    BY <1>4, <2>1
  <2> QED BY <2>1, <2>2 DEF T
<1>6. j.vpp \in 0..j.vpp /\ \A v \in 0..j.vpp - 1 : v \in 0..j.vpp
  BY <1>0
<1> QED BY <1>1, <1>5, <1>6

\* The layers of chunk c
LayersOf(j, c) ==
  Start(j, c[1], c[2])..(Start(j, c[1], c[2]) + LayersIn(j, c[1], c[2]) - 1)

\* The chunks before a chunk have all layers below its first one.
Filled(j, c) ==
  /\ Start(j, c[1], c[2]) \in Nat
  /\ UNION {LayersOf(j, b) : b \in Before(j, c[1], c[2])} = 0..Start(j, c[1], c[2]) - 1

\* What is filled before a chunk, and the chunk, is filled before the next.
LEMMA FilledStep ==
  ASSUME NEW j, Counted(j), NEW p \in 0..j.pp - 1, NEW v \in 0..j.vpp - 1,
         NEW q, NEW u, Before(j, q, u) = Before(j, p, v) \cup {<<p, v>>},
         Start(j, q, u) = Start(j, p, v) + LayersIn(j, p, v), Filled(j, <<p, v>>)
  PROVE  Filled(j, <<q, u>>)
<1> DEFINE c == <<p, v>>
           B == Before(j, p, v)
           L(b) == LayersOf(j, b)
<1>1. LayersIn(j, p, v) \in Nat
  BY DEF Counted
<1>2. UNION {L(b) : b \in B \cup {c}} = (UNION {L(b) : b \in B}) \cup L(c)
  <2> HIDE DEF L, B, c
  <2> QED OBVIOUS
<1>3. L(c) = Start(j, p, v)..(Start(j, p, v) + LayersIn(j, p, v) - 1)
  BY DEF LayersOf
<1>4. Start(j, p, v) \in Nat /\ UNION {L(b) : b \in B} = 0..Start(j, p, v) - 1
  BY DEF Filled
<1> HIDE DEF L, B, c
<1>5. UNION {L(b) : b \in B \cup {c}} = 0..Start(j, q, u) - 1 /\ Start(j, q, u) \in Nat
  <2>1. (0..Start(j, p, v) - 1) \cup (Start(j, p, v)..(Start(j, p, v) + LayersIn(j, p, v) - 1))
          = 0..(Start(j, p, v) + LayersIn(j, p, v)) - 1
    BY <1>1, <1>4
  <2> QED BY <1>1, <1>2, <1>3, <1>4, <2>1
<1> QED BY <1>5 DEF Filled, L, B, c

\* All chunks together have the layers below where a further one would start.
LEMMA AllFilled ==
  ASSUME NEW j, Counted(j) PROVE Filled(j, <<0, j.vpp>>)
<1> DEFINE R == {c \in (0..j.pp - 1) \X (0..j.vpp) : Filled(j, c)}
<1>0. j.pp \in Nat \ {0} /\ j.vpp \in Nat \ {0}
  BY DEF Counted
<1>1. <<0, 0>> \in R
  <2>1. Before(j, 0, 0) = {}
    BY DEF Before, Cell, Counted
  <2>2. Start(j, 0, 0) = 0
    BY PlacedFirst
  <2>3. Filled(j, <<0, 0>>)
    BY <2>1, <2>2 DEF Filled
  <2> QED BY <1>0, <2>3
<1>2. ASSUME NEW v \in 0..j.vpp - 1, NEW p \in 0..j.pp - 2, <<p, v>> \in R
      PROVE  <<p + 1, v>> \in R
  <2>1. p \in 0..j.pp - 1 /\ <<p + 1, v>> \in (0..j.pp - 1) \X (0..j.vpp)
    BY <1>0
  <2>2. Filled(j, <<p, v>>)
    BY <1>2
  <2>3. Filled(j, <<p + 1, v>>)
    BY <2>1, <2>2, BeforeNext, StartNext, FilledStep
  <2> QED BY <2>1, <2>3
<1>3. ASSUME NEW v \in 0..j.vpp - 1, <<j.pp - 1, v>> \in R PROVE <<0, v + 1>> \in R
  <2> DEFINE p == j.pp - 1
  <2>1. p \in 0..j.pp - 1 /\ <<0, v + 1>> \in (0..j.pp - 1) \X (0..j.vpp)
    BY <1>0
  <2>2. Filled(j, <<p, v>>)
    BY <1>3
  <2>3. /\ Before(j, 0, v + 1) = Before(j, p, v) \cup {<<p, v>>}
        /\ Start(j, 0, v + 1) = Start(j, p, v) + LayersIn(j, p, v)
    BY BeforeNext, StartNext
  <2> HIDE DEF p
  <2>4. Filled(j, <<0, v + 1>>)
    BY <2>1, <2>2, <2>3, FilledStep
  <2> QED BY <2>1, <2>4
<1> HIDE DEF R
<1>4. <<0, j.vpp>> \in R
  BY <1>1, <1>2, <1>3, ChunkByChunk
<1> QED BY <1>4 DEF R

\* So every layer is in a chunk, and every chunk has layers of the model.
LEMMA LayersCovered ==
  ASSUME NEW j, Counted(j), Start(j, 0, j.vpp) = j.layers, j.layers \in Nat
  PROVE  /\ \A l \in 0..j.layers - 1 :
              \E p \in 0..j.pp - 1, v \in 0..j.vpp - 1 :
                \E i \in 0..LayersIn(j, p, v) - 1 : Placed(j, p, v, i) = l
         /\ \A p \in 0..j.pp - 1, v \in 0..j.vpp - 1 :
              \A i \in 0..LayersIn(j, p, v) - 1 : Placed(j, p, v, i) \in 0..j.layers - 1
<1>0. j.pp \in Nat \ {0} /\ j.vpp \in Nat \ {0}
  BY DEF Counted
<1>1. Before(j, 0, j.vpp) = Cell(j)
  <2>1. ASSUME NEW c \in Cell(j) PROVE c[2] < j.vpp
    <3>1. c[2] \in 0..j.vpp - 1
      BY DEF Cell
    <3> QED BY <1>0, <3>1
  <2> QED BY <2>1 DEF Before
<1>2. UNION {LayersOf(j, c) : c \in Cell(j)} = 0..j.layers - 1
  BY <1>1, AllFilled DEF Filled
<1>3. ASSUME NEW p \in 0..j.pp - 1, NEW v \in 0..j.vpp - 1
      PROVE  /\ <<p, v>> \in Cell(j) /\ LayersIn(j, p, v) \in Nat /\ Start(j, p, v) \in Int
             /\ LayersOf(j, <<p, v>>) = Start(j, p, v)..(Start(j, p, v) + LayersIn(j, p, v) - 1)
             /\ \A i \in Int : Placed(j, p, v, i) = Start(j, p, v) + i
  <2>1. LayersIn(j, p, v) \in Nat
    BY DEF Counted
  <2>2. Start(j, p, v) \in Int
    <3>1. 0 \in Int
      OBVIOUS
    <3> QED BY <3>1, PlacedIs
  <2>3. \A i \in Int : Placed(j, p, v, i) = Start(j, p, v) + i
    BY PlacedIs
  <2> QED BY <2>1, <2>2, <2>3 DEF Cell, LayersOf
<1>4. ASSUME NEW l \in 0..j.layers - 1
      PROVE  \E p \in 0..j.pp - 1, v \in 0..j.vpp - 1 :
                \E i \in 0..LayersIn(j, p, v) - 1 : Placed(j, p, v, i) = l
  <2>1. PICK c \in Cell(j) : l \in LayersOf(j, c)
    BY <1>2
  <2>2. PICK p \in 0..j.pp - 1, v \in 0..j.vpp - 1 : c = <<p, v>>
    BY DEF Cell
  <2> DEFINE s == Start(j, p, v)
             n == LayersIn(j, p, v)
  <2>3. n \in Nat /\ s \in Int /\ l \in s..(s + n - 1) /\ \A i \in Int : Placed(j, p, v, i) = s + i
    BY <1>3, <2>1, <2>2
  <2> HIDE DEF s, n
  <2>4. l - s \in 0..n - 1 /\ Placed(j, p, v, l - s) = l
    BY <2>3
  <2> QED BY <2>4 DEF n
<1>5. ASSUME NEW p \in 0..j.pp - 1, NEW v \in 0..j.vpp - 1, NEW i \in 0..LayersIn(j, p, v) - 1
      PROVE  Placed(j, p, v, i) \in 0..j.layers - 1
  <2> DEFINE s == Start(j, p, v)
             n == LayersIn(j, p, v)
  <2>1. /\ n \in Nat /\ s \in Int /\ LayersOf(j, <<p, v>>) = s..(s + n - 1)
        /\ \A k \in Int : Placed(j, p, v, k) = s + k
    BY <1>3
  <2>2. i \in 0..n - 1
    OBVIOUS
  <2> HIDE DEF s, n
  <2>3. Placed(j, p, v, i) = s + i /\ s + i \in LayersOf(j, <<p, v>>)
    BY <2>1, <2>2
  <2> QED BY <1>2, <1>3, <2>3
<1> QED BY <1>4, <1>5

-----------------------------------------------------------------------------
(* Closed forms of where a chunk starts.                                  *)

\* A closed form that grows as the chunks do is where the layers are counted.
LEMMA FormTotal ==
  ASSUME NEW j, Counted(j), NEW F, Grows(j, F), Start(j, 0, j.vpp) = j.layers
  PROVE  F[<<j.pp - 1, j.vpp - 1>>] + LayersIn(j, j.pp - 1, j.vpp - 1) = j.layers
<1>0. j.pp \in Nat \ {0} /\ j.vpp \in Nat \ {0}
  BY DEF Counted
<1> DEFINE v == j.vpp - 1
           p == j.pp - 1
<1>1. v \in 0..j.vpp - 1 /\ v + 1 = j.vpp /\ p \in 0..j.pp - 1
  BY <1>0
<1>2. Start(j, 0, v + 1) = Start(j, p, v) + LayersIn(j, p, v)
  BY <1>1, StartNext
<1>3. Start(j, p, v) = F[<<p, v>>]
  BY <1>1, StartForm
<1> HIDE DEF v, p
<1>4. F[<<p, v>>] + LayersIn(j, p, v) = j.layers
  BY <1>1, <1>2, <1>3
<1> QED BY <1>4 DEF p, v

\* How many end stages have a size of their own
LEMMA EndsIs ==
  ASSUME NEW j, j.first \in Nat, j.last \in Nat
  PROVE  Ends(j) = IF j.first > 0 THEN (IF j.last > 0 THEN 2 ELSE 1)
                   ELSE (IF j.last > 0 THEN 1 ELSE 0)
<1> DEFINE S == {e \in {"first", "last"} : j[e] > 0}
<1>1. CASE j.first > 0 /\ j.last > 0
  <2>1. S = {"first", "last"} /\ "first" # "last"
    BY <1>1
  <2>2. Cardinality({"first", "last"}) = 2
    <3>1. IsFiniteSet({"first"}) /\ Cardinality({"first"}) = 1 /\ "last" \notin {"first"}
      BY FS_Singleton
    <3>2. Cardinality({"first"} \cup {"last"}) = Cardinality({"first"}) + 1
      BY <3>1, FS_AddElement
    <3>3. {"first"} \cup {"last"} = {"first", "last"}
      OBVIOUS
    <3> QED BY <3>1, <3>2, <3>3
  <2> QED BY <1>1, <2>1, <2>2 DEF Ends
<1>2. CASE j.first > 0 /\ ~(j.last > 0)
  <2>1. S = {"first"}
    BY <1>2
  <2> QED BY <1>2, <2>1, FS_Singleton DEF Ends
<1>3. CASE ~(j.first > 0) /\ j.last > 0
  <2>1. S = {"last"}
    BY <1>3
  <2> QED BY <1>3, <2>1, FS_Singleton DEF Ends
<1>4. CASE ~(j.first > 0) /\ ~(j.last > 0)
  <2>1. S = {}
    BY <1>4
  <2> QED BY <1>4, <2>1, FS_EmptySet DEF Ends
<1> QED BY <1>1, <1>2, <1>3, <1>4

\* The sizes of a layout: of the first stages' chunks a layers, of the last
\* ones' b, of those in between m
Sizes(j, a, m, b) ==
  /\ a \in Int /\ m \in Int /\ b \in Int
  /\ \A p \in 0..j.pp - 1, v \in 0..j.vpp - 1 :
       LayersIn(j, p, v) = IF p = 0 THEN a ELSE IF p = j.pp - 1 THEN b ELSE m

\* Where the chunks of such a layout start
Round(j, a, m, b) == IF j.pp = 1 THEN a ELSE (a + (j.pp - 2) * m) + b
UpTo(a, m, p) == IF p = 0 THEN 0 ELSE a + (p - 1) * m
SizesForm(j, a, m, b) ==
  [c \in Cell(j) |-> c[2] * Round(j, a, m, b) + UpTo(a, m, c[1])]

\* The closed form is made of integers.
LEMMA SizesFormAt ==
  ASSUME NEW j, Counted(j), NEW a, NEW m, NEW b, Sizes(j, a, m, b),
         NEW p \in 0..j.pp - 1, NEW v \in 0..j.vpp - 1
  PROVE  /\ Round(j, a, m, b) \in Int /\ v * Round(j, a, m, b) \in Int
         /\ (p - 1) * m \in Int
         /\ SizesForm(j, a, m, b)[<<p, v>>] =
              v * Round(j, a, m, b) + UpTo(a, m, p)
<1>0. j.pp \in Nat \ {0} /\ j.vpp \in Nat \ {0} /\ a \in Int /\ m \in Int /\ b \in Int
  BY DEF Counted, Sizes
<1>1. Round(j, a, m, b) \in Int
  <2>1. j.pp - 2 \in Int
    BY <1>0
  <2>2. (j.pp - 2) * m \in Int
    BY <1>0, <2>1, MulNext
  <2> QED BY <1>0, <2>2 DEF Round
<1>2. v \in Int /\ p - 1 \in Int
  BY <1>0
<1>3. v * Round(j, a, m, b) \in Int /\ (p - 1) * m \in Int
  BY <1>0, <1>1, <1>2, MulNext
<1>4. <<p, v>> \in Cell(j)
  BY DEF Cell
<1> HIDE DEF Round
<1> QED BY <1>1, <1>3, <1>4, Zenon DEF SizesForm

\* ...and grows from chunk to chunk by the layers of the chunk.
LEMMA SizesGrow ==
  ASSUME NEW j, Counted(j), NEW a, NEW m, NEW b, Sizes(j, a, m, b)
  PROVE  Grows(j, SizesForm(j, a, m, b))
<1>0. j.pp \in Nat \ {0} /\ j.vpp \in Nat \ {0} /\ a \in Int /\ m \in Int /\ b \in Int
  BY DEF Counted, Sizes
<1> DEFINE F == SizesForm(j, a, m, b)
           w == Round(j, a, m, b)
           G(p) == UpTo(a, m, p)
<1>1. ASSUME NEW p \in 0..j.pp - 1, NEW v \in 0..j.vpp - 1
      PROVE  /\ w \in Int /\ v * w \in Int /\ (p - 1) * m \in Int
             /\ F[<<p, v>>] = v * w + G(p) /\ G(p) \in Int
             /\ LayersIn(j, p, v) = IF p = 0 THEN a ELSE IF p = j.pp - 1 THEN b ELSE m
  <2>1. /\ w \in Int /\ v * w \in Int /\ (p - 1) * m \in Int
        /\ F[<<p, v>>] = v * w + G(p)
    BY SizesFormAt
  <2>2. G(p) \in Int
    BY <1>0, <2>1 DEF UpTo
  <2>3. LayersIn(j, p, v) = IF p = 0 THEN a ELSE IF p = j.pp - 1 THEN b ELSE m
    BY DEF Sizes
  <2> QED BY <2>1, <2>2, <2>3
<1>2. F[<<0, 0>>] = 0
  <2>1. 0 \in 0..j.pp - 1 /\ 0 \in 0..j.vpp - 1 /\ G(0) = 0
    BY <1>0 DEF UpTo
  <2>2. w \in Int /\ F[<<0, 0>>] = 0 * w + G(0)
    BY <1>1, <2>1
  <2> HIDE DEF F, w, G
  <2> QED BY <2>1, <2>2
<1>3. ASSUME NEW p \in 0..j.pp - 2, NEW v \in 0..j.vpp - 1
      PROVE  F[<<p + 1, v>>] = F[<<p, v>>] + LayersIn(j, p, v)
  <2>1. p \in 0..j.pp - 1 /\ p + 1 \in 0..j.pp - 1 /\ p # j.pp - 1 /\ p + 1 # 0
    BY <1>0
  <2>2. F[<<p + 1, v>>] = v * w + G(p + 1) /\ F[<<p, v>>] = v * w + G(p)
        /\ v * w \in Int /\ G(p) \in Int
    BY <1>1, <2>1
  <2>3. LayersIn(j, p, v) = IF p = 0 THEN a ELSE m
    BY <1>1, <2>1
  <2>4. G(p + 1) = a + p * m
    BY <1>0, <2>1 DEF UpTo
  <2>5. CASE p = 0
    <3>1. G(p) = 0 /\ p * m = 0
      BY <1>0, <2>5 DEF UpTo
    <3> HIDE DEF F, w, G
    <3> QED BY <1>0, <2>2, <2>3, <2>4, <2>5, <3>1
  <2>6. CASE p # 0
    <3>1. G(p) = a + (p - 1) * m /\ (p - 1) * m = p * m - m /\ p * m \in Int
      BY <1>0, <2>1, <2>6, MulNext DEF UpTo
    <3> DEFINE x == p * m
               y == v * w
    <3>2. x \in Int /\ y \in Int /\ G(p) = a + (x - m) /\ G(p + 1) = a + x
          /\ F[<<p + 1, v>>] = y + G(p + 1) /\ F[<<p, v>>] = y + G(p)
      BY <2>2, <2>4, <3>1
    <3> HIDE DEF F, w, G, x, y
    <3> QED BY <1>0, <2>3, <2>6, <3>2
  <2> QED BY <2>5, <2>6
<1>4. ASSUME NEW v \in 0..j.vpp - 2
      PROVE  F[<<0, v + 1>>] = F[<<j.pp - 1, v>>] + LayersIn(j, j.pp - 1, v)
  <2> DEFINE p == j.pp - 1
  <2>1. v \in 0..j.vpp - 1 /\ v + 1 \in 0..j.vpp - 1 /\ 0 \in 0..j.pp - 1 /\ p \in 0..j.pp - 1
    BY <1>0
  <2>2. /\ F[<<0, v + 1>>] = (v + 1) * w + G(0) /\ F[<<p, v>>] = v * w + G(p)
        /\ v * w \in Int /\ w \in Int /\ G(p) \in Int
    BY <1>1, <2>1
  <2>3. LayersIn(j, p, v) = IF p = 0 THEN a ELSE b
    BY <1>1, <2>1
  <2>4. (v + 1) * w = v * w + w
    <3>1. w \in Int /\ v \in Int
      BY <1>0, <2>2
    <3> HIDE DEF w
    <3> QED BY <3>1, MulNext
  <2>5. w = G(p) + LayersIn(j, p, v)
    <3>1. CASE j.pp = 1
      <4>1. p = 0 /\ w = a /\ G(0) = 0
        BY <3>1 DEF Round, UpTo
      <4> QED BY <1>0, <2>3, <4>1
    <3>2. CASE j.pp # 1
      <4>1. p # 0 /\ p - 1 = j.pp - 2
        BY <1>0, <3>2
      <4>2. w = (a + (j.pp - 2) * m) + b
        BY <3>2 DEF Round
      <4>3. G(p) = a + (j.pp - 2) * m
        BY <4>1 DEF UpTo
      <4> HIDE DEF w, G, p
      <4> QED BY <2>3, <4>1, <4>2, <4>3
    <3> QED BY <3>1, <3>2
  <2>6. G(0) = 0
    BY DEF UpTo
  <2> DEFINE x == v * w
             y == (v + 1) * w
  <2>7. x \in Int /\ y = x + w /\ F[<<0, v + 1>>] = y + G(0) /\ F[<<p, v>>] = x + G(p)
    BY <2>2, <2>4
  <2>8. LayersIn(j, p, v) \in Int
    BY <1>0, <2>3
  <2> HIDE DEF F, w, G, x, y, p
  <2>9. F[<<0, v + 1>>] = F[<<p, v>>] + LayersIn(j, p, v)
    BY <2>2, <2>5, <2>6, <2>7, <2>8
  <2> QED BY <2>9 DEF p
<1>5. \A p \in 0..j.pp - 1, v \in 0..j.vpp - 1 : F[<<p, v>>] \in Int
  <2>1. ASSUME NEW p \in 0..j.pp - 1, NEW v \in 0..j.vpp - 1 PROVE F[<<p, v>>] \in Int
    <3>1. F[<<p, v>>] = v * w + G(p) /\ v * w \in Int /\ G(p) \in Int
      BY <1>1
    <3> HIDE DEF F, w, G
    <3> QED BY <3>1
  <2> QED BY <2>1
<1> HIDE DEF F
<1>6. Grows(j, F)
  BY <1>2, <1>3, <1>4, <1>5, Zenon DEF Grows
<1> QED BY <1>6 DEF F

-----------------------------------------------------------------------------
(* ...for stages of which the first or the last has a size of its own.    *)

\* An integer is its division and its rest.
LEMMA DivModInt ==
  ASSUME NEW n \in Int, NEW d \in Nat \ {0}
  PROVE /\ n \div d \in Int /\ n % d \in 0..d-1
        /\ n = (n \div d) * d + (n % d)
OBVIOUS

\* Integers too are divided exactly by their factors.
LEMMA DivIsInt ==
  ASSUME NEW q \in Int, NEW d \in Nat \ {0}
  PROVE (q * d) \div d = q /\ (d * q) \div d = q
OBVIOUS

\* Division by one
LEMMA DivOne ==
  ASSUME NEW q \in Int PROVE q \div 1 = q
OBVIOUS

\* Chunks of a, n times m and b layers, w together; d of each are all layers.
InChunks(d, n, first, middle, last, a, m, b, w) ==
  /\ d \in Nat \ {0} /\ n \in Nat \ {0}
  /\ first \in Int /\ middle \in Int /\ last \in Int
  /\ a \in Int /\ m \in Int /\ b \in Int /\ w \in Int
  /\ a = first \div d /\ m = (middle \div n) \div d /\ b = last \div d
  /\ w = (a + n * m) + b /\ d * w = (first + middle) + last

\* Rests that add up to nothing are none.
LEMMA NoRests ==
  ASSUME NEW d, NEW n, NEW first, NEW middle, NEW last, NEW a, NEW m, NEW b, NEW w,
         InChunks(d, n, first, middle, last, a, m, b, w)
  PROVE  middle \div d = n * m /\ (middle \div d) \div n = m
<1>0. /\ d \in Nat \ {0} /\ n \in Nat \ {0}
      /\ first \in Int /\ middle \in Int /\ last \in Int
      /\ a \in Int /\ m \in Int /\ b \in Int /\ w \in Int
      /\ a = first \div d /\ m = (middle \div n) \div d /\ b = last \div d
      /\ w = (a + n * m) + b /\ d * w = (first + middle) + last
  BY DEF InChunks
<1>1. a * d <= first /\ b * d <= last
  BY <1>0, DivModInt
<1>2. (n * m) * d <= middle
  <2> DEFINE q == middle \div n
  <2>1. q \in Int /\ q * n <= middle /\ m * d <= q
    BY <1>0, DivModInt
  <2>2. (m * d) * n <= q * n
    <3> DEFINE x == m * d
    <3>1. x \in Int /\ x <= q
      BY <1>0, <2>1
    <3> HIDE DEF x, q
    <3> QED BY <1>0, <3>1, <2>1 DEF x
  <2>3. (m * d) * n = (n * m) * d /\ (n * m) * d \in Int /\ q * n \in Int
    BY <1>0, <2>1
  <2> DEFINE x == q * n
             y == (n * m) * d
             z == (m * d) * n
  <2>4. x <= middle /\ z <= x /\ z = y /\ x \in Int /\ y \in Int
    BY <2>1, <2>2, <2>3
  <2> HIDE DEF x, y, z
  <2>5. y <= middle
    BY <1>0, <2>4
  <2> QED BY <2>5 DEF y
<1>3. d * w = (a * d + (n * m) * d) + b * d
  <2> DEFINE x == n * m
  <2>1. x \in Int /\ w = (a + x) + b
    BY <1>0
  <2> HIDE DEF x
  <2>2. d * w = (a * d + x * d) + b * d
    BY <1>0, <2>1
  <2> QED BY <2>2 DEF x
<1>4. (n * m) * d = middle
  <2> DEFINE x == a * d
             y == (n * m) * d
             z == b * d
  <2>1. x \in Int /\ y \in Int /\ z \in Int
    BY <1>0
  <2>2. x <= first /\ y <= middle /\ z <= last /\ (x + y) + z = (first + middle) + last
    BY <1>0, <1>1, <1>2, <1>3
  <2> HIDE DEF x, y, z
  <2>3. y = middle
    BY <1>0, <2>1, <2>2
  <2> QED BY <2>3 DEF y
<1>5. n * m \in Int
  BY <1>0
<1>6. middle \div d = n * m
  <2> DEFINE x == n * m
  <2> HIDE DEF x
  <2>1. x \in Int /\ x * d = middle
    BY <1>4, <1>5 DEF x
  <2>2. middle \div d = x
    BY <1>0, <2>1, DivIsInt
  <2> QED BY <2>2 DEF x
<1>7. (n * m) \div n = m
  BY <1>0, DivIsInt
<1> QED BY <1>6, <1>7

Middle(j) == j.layers - j.first - j.last
Between(j) == j.pp - Ends(j)

\* The layers of a chunk of a stage in between, or of an end without a size
InBetween(j) ==
  IF Between(j) > 0 THEN (Middle(j) \div Between(j)) \div j.vpp ELSE 0
OfFirst(j) ==
  IF j.first > 0 THEN j.first \div j.vpp
  ELSE IF j.pp = 1 THEN j.last \div j.vpp ELSE InBetween(j)
OfLast(j) == IF j.last > 0 THEN j.last \div j.vpp ELSE InBetween(j)

\* The sizes of a layout whose ends have their own
LEMMA EndsSizes ==
  ASSUME NEW j, j \in JobType, Ends(j) > 0
  PROVE  Sizes(j, OfFirst(j), InBetween(j), OfLast(j))
<1>0. /\ j.pp \in Nat \ {0} /\ j.vpp \in Nat \ {0} /\ j.first \in Nat /\ j.last \in Nat
      /\ j.layers \in Nat \ {0}
  BY DEF JobType, Positive
<1>1. /\ Ends(j) = IF j.first > 0 THEN (IF j.last > 0 THEN 2 ELSE 1)
                   ELSE (IF j.last > 0 THEN 1 ELSE 0)
      /\ Between(j) \in Int /\ Middle(j) \in Int
  BY <1>0, EndsIs DEF Between, Middle
<1>2. InBetween(j) \in Int
  <2>1. CASE Between(j) > 0
    <3>1. Between(j) \in Nat \ {0}
      BY <1>1, <2>1
    <3>2. Middle(j) \div Between(j) \in Int
      BY <1>1, <3>1, DivModInt
    <3>3. (Middle(j) \div Between(j)) \div j.vpp \in Int
      BY <1>0, <3>2, DivModInt
    <3> QED BY <2>1, <3>3 DEF InBetween
  <2>2. CASE ~(Between(j) > 0)
    BY <2>2 DEF InBetween
  <2> QED BY <2>1, <2>2
<1>3. j.first \div j.vpp \in Int /\ j.last \div j.vpp \in Int
  BY <1>0
<1>4. OfFirst(j) \in Int /\ OfLast(j) \in Int
  BY <1>2, <1>3 DEF OfFirst, OfLast
<1>5. ASSUME NEW p \in 0..j.pp - 1, NEW v \in 0..j.vpp - 1
      PROVE  LayersIn(j, p, v) =
               IF p = 0 THEN OfFirst(j) ELSE IF p = j.pp - 1 THEN OfLast(j) ELSE InBetween(j)
  <2>1. LayersIn(j, p, v) =
          (IF p = 0 /\ j.first > 0 THEN j.first
           ELSE IF p = j.pp - 1 /\ j.last > 0 THEN j.last
           ELSE Middle(j) \div Between(j)) \div j.vpp
    BY DEF LayersIn, Middle, Between
  <2>2. CASE p = 0 /\ j.first > 0
    BY <2>1, <2>2 DEF OfFirst
  <2>3. CASE p = 0 /\ ~(j.first > 0) /\ j.pp = 1
    <3>1. j.last > 0
      BY <1>1, <2>3
    <3> QED BY <2>1, <2>3, <3>1 DEF OfFirst
  <2>4. CASE p = 0 /\ ~(j.first > 0) /\ j.pp # 1
    <3>1. p # j.pp - 1 /\ Between(j) > 0
      BY <1>0, <1>1, <2>4 DEF Between
    <3> QED BY <2>1, <2>4, <3>1 DEF OfFirst, InBetween
  <2>5. CASE p # 0 /\ p = j.pp - 1 /\ j.last > 0
    BY <2>1, <2>5 DEF OfLast
  <2>6. CASE p # 0 /\ p = j.pp - 1 /\ ~(j.last > 0)
    <3>1. Between(j) > 0
      BY <1>0, <1>1, <2>6 DEF Between
    <3> QED BY <2>1, <2>6, <3>1 DEF OfLast, InBetween
  <2>7. CASE p # 0 /\ p # j.pp - 1
    <3>1. Between(j) > 0
      BY <1>0, <1>1, <2>7 DEF Between
    <3> QED BY <2>1, <2>7, <3>1 DEF InBetween
  <2> QED BY <2>2, <2>3, <2>4, <2>5, <2>6, <2>7
<1> QED BY <1>2, <1>4, <1>5 DEF Sizes

\* Where the chunks of such a layout start
LEMMA EndsStart ==
  ASSUME NEW j, j \in JobType, Counted(j), Ends(j) > 0, Start(j, 0, j.vpp) = j.layers
  PROVE  /\ \A p \in 0..j.pp - 1, v \in 0..j.vpp - 1 :
              Start(j, p, v) = v * Round(j, OfFirst(j), InBetween(j), OfLast(j))
                               + UpTo(OfFirst(j), InBetween(j), p)
         /\ j.vpp * Round(j, OfFirst(j), InBetween(j), OfLast(j)) = j.layers
         /\ Round(j, OfFirst(j), InBetween(j), OfLast(j)) \in Int
<1> DEFINE a == OfFirst(j)
           m == InBetween(j)
           b == OfLast(j)
           F == SizesForm(j, a, m, b)
           w == Round(j, a, m, b)
<1>0. /\ j.pp \in Nat \ {0} /\ j.vpp \in Nat \ {0}
  BY DEF JobType, Positive
<1>1. Sizes(j, a, m, b)
  BY EndsSizes
<1>2. a \in Int /\ m \in Int /\ b \in Int
  BY <1>1 DEF Sizes
<1> HIDE DEF a, m, b
<1>3. ASSUME NEW p \in 0..j.pp - 1, NEW v \in 0..j.vpp - 1
      PROVE  w \in Int /\ v * w \in Int /\ F[<<p, v>>] = v * w + UpTo(a, m, p)
  BY <1>1, SizesFormAt
<1>4. Grows(j, F)
  BY <1>1, SizesGrow
<1> HIDE DEF F
<1>5. \A p \in 0..j.pp - 1, v \in 0..j.vpp - 1 : Start(j, p, v) = F[<<p, v>>]
  BY <1>4, StartForm
<1>6. F[<<j.pp - 1, j.vpp - 1>>] + LayersIn(j, j.pp - 1, j.vpp - 1) = j.layers
  BY <1>4, FormTotal
<1>7. w \in Int /\ j.vpp * w = j.layers
  <2>1. j.pp - 1 \in 0..j.pp - 1 /\ j.vpp - 1 \in 0..j.vpp - 1
    BY <1>0
  <2>2. w \in Int /\ F[<<j.pp - 1, j.vpp - 1>>] = (j.vpp - 1) * w + UpTo(a, m, j.pp - 1)
        /\ (j.vpp - 1) * w \in Int
    BY <1>3, <2>1
  <2>3. LayersIn(j, j.pp - 1, j.vpp - 1) = IF j.pp - 1 = 0 THEN a ELSE b
    BY <1>1, <2>1 DEF Sizes
  <2>4. UpTo(a, m, j.pp - 1) + LayersIn(j, j.pp - 1, j.vpp - 1) = w
        /\ UpTo(a, m, j.pp - 1) \in Int /\ LayersIn(j, j.pp - 1, j.vpp - 1) \in Int
    <3>1. CASE j.pp = 1
      <4>1. j.pp - 1 = 0
        BY <3>1
      <4> QED BY <1>2, <2>3, <3>1, <4>1 DEF Round, UpTo
    <3>2. CASE j.pp # 1
      <4>1. j.pp - 1 # 0 /\ (j.pp - 1) - 1 = j.pp - 2 /\ j.pp - 2 \in Int
        BY <1>0, <3>2
      <4>2. (j.pp - 2) * m \in Int
        BY <1>2, <4>1
      <4> DEFINE x == (j.pp - 2) * m
      <4>3. UpTo(a, m, j.pp - 1) = a + x /\ w = (a + x) + b /\ x \in Int
        BY <3>2, <4>1, <4>2 DEF UpTo, Round
      <4> HIDE DEF x, w
      <4> QED BY <1>2, <2>3, <4>1, <4>3
    <3> QED BY <3>1, <3>2
  <2>5. (j.vpp - 1) * w = j.vpp * w - w /\ j.vpp * w \in Int
    <3> HIDE DEF w
    <3> QED BY <1>0, <2>2, MulNext
  <2> DEFINE x == (j.vpp - 1) * w
             y == UpTo(a, m, j.pp - 1)
             z == LayersIn(j, j.pp - 1, j.vpp - 1)
             u == j.vpp * w
  <2>6. x = u - w /\ u \in Int /\ y \in Int /\ z \in Int /\ y + z = w /\ (x + y) + z = j.layers
    BY <1>6, <2>2, <2>4, <2>5
  <2> HIDE DEF x, y, z, u, w
  <2>7. u = j.layers
    BY <2>2, <2>6
  <2> QED BY <2>2, <2>7 DEF u
<1>8. \A p \in 0..j.pp - 1, v \in 0..j.vpp - 1 : Start(j, p, v) = v * w + UpTo(a, m, p)
  BY <1>3, <1>5
<1> QED BY <1>7, <1>8 DEF a, m, b

-----------------------------------------------------------------------------
(* ...and for stages that are alike.                                      *)

\* get_transformer_layer_offset, where an end stage has a size of its own
LEMMA EndsOffset ==
  ASSUME job \in JobType, Counted(job), Ends(job) > 0, Feedable(job),
         Start(job, 0, job.vpp) = job.layers, job.pp = 1 => job.vpp = 1,
         NEW p \in 0..job.pp - 1, NEW v \in 0..job.vpp - 1
  PROVE  LayerOffset(p, v) = Start(job, p, v)
<1> DEFINE a == OfFirst(job)
           m == InBetween(job)
           b == OfLast(job)
           w == Round(job, a, m, b)
           n == Between(job)
           mid == Middle(job)
<1>0. /\ job.pp \in Nat \ {0} /\ job.vpp \in Nat \ {0} /\ job.first \in Nat /\ job.last \in Nat
      /\ job.layers \in Nat \ {0} /\ p \in Nat /\ v \in Nat
  BY DEF JobType, Positive
<1>1. /\ Ends(job) = IF job.first > 0 THEN (IF job.last > 0 THEN 2 ELSE 1)
                     ELSE (IF job.last > 0 THEN 1 ELSE 0)
      /\ n \in Int /\ mid \in Int /\ job.layers = (job.first + mid) + job.last
      /\ n = job.pp - Ends(job)
  BY <1>0, EndsIs DEF Between, Middle
<1>2. Start(job, p, v) = v * w + UpTo(a, m, p) /\ job.vpp * w = job.layers /\ w \in Int
  BY EndsStart
<1>3. a \in Int /\ m \in Int /\ b \in Int
  BY EndsSizes DEF Sizes
<1>4. LayerOffset(p, v) =
        IF job.pp = 1 THEN 0
        ELSE IF job.vpp > 1 THEN
          v * (job.first \div job.vpp + mid \div job.vpp + job.last \div job.vpp)
          + (IF p = 0 THEN 0
             ELSE job.first \div job.vpp + (p - 1) * ((mid \div job.vpp) \div n))
        ELSE IF p = 0 THEN 0
          ELSE (IF job.first = 0 THEN p ELSE p - 1)
                 * (IF n > 0 THEN mid \div n ELSE 0) + job.first
  BY DEF LayerOffset, Middle, Between
<1>5. CASE job.pp = 1
  <2>1. p = 0 /\ v = 0
    BY <1>0, <1>5
  <2>2. UpTo(a, m, 0) = 0 /\ LayerOffset(p, v) = 0
    BY <1>4, <1>5 DEF UpTo
  <2> HIDE DEF w, a, m
  <2> QED BY <1>2, <2>1, <2>2
<1>6. CASE job.pp # 1 /\ job.vpp > 1
  <2>1. job.first > 0 /\ n \in Nat \ {0}
    BY <1>0, <1>1, <1>6 DEF Feedable
  <2>2. a = job.first \div job.vpp /\ m = (mid \div n) \div job.vpp
    BY <1>1, <2>1 DEF OfFirst, InBetween
  <2> DEFINE lb == job.last \div job.vpp
  <2>3. lb \in Int /\ w = (a + n * m) + lb
    <3>1. w = (a + (job.pp - 2) * m) + b
      BY <1>6 DEF Round
    <3>2. CASE job.last > 0
      <4>1. n = job.pp - 2 /\ b = lb
        BY <1>1, <2>1, <3>2 DEF OfLast
      <4> QED BY <1>0, <3>1, <4>1
    <3>3. CASE ~(job.last > 0)
      <4>1. n = job.pp - 1 /\ b = m /\ job.last = 0
        BY <1>0, <1>1, <2>1, <3>3 DEF OfLast
      <4>2. lb = 0
        BY <1>0, <4>1
      <4>3. n * m = (job.pp - 2) * m + m /\ (job.pp - 2) * m \in Int
        <5>1. job.pp - 2 = n - 1
          BY <1>0, <4>1
        <5> HIDE DEF m, n
        <5>2. (n - 1) * m = n * m - m /\ n * m \in Int
          BY <1>1, <1>3, MulNext
        <5> QED BY <1>3, <5>1, <5>2
      <4> DEFINE x == (job.pp - 2) * m
                 y == n * m
      <4>4. y = x + m /\ x \in Int /\ w = (a + x) + b
        BY <3>1, <4>3
      <4> HIDE DEF x, y, w, a, m, b, n, lb
      <4>5. w = (a + y) + lb
        BY <1>3, <4>1, <4>2, <4>4
      <4> QED BY <1>0, <4>2, <4>5 DEF y
    <3> QED BY <3>2, <3>3
  <2> HIDE DEF a, m, b, w, n, mid
  <2>4. mid \div job.vpp = n * m /\ (mid \div job.vpp) \div n = m
    <3>1. job.vpp * w = (job.first + mid) + job.last
      BY <1>1, <1>2
    <3>2. job.first \in Int /\ job.last \in Int
      BY <1>0
    <3>3. InChunks(job.vpp, n, job.first, mid, job.last, a, m, lb, w)
      BY <1>0, <1>1, <1>2, <1>3, <2>1, <2>2, <2>3, <3>1, <3>2 DEF InChunks, lb
    <3> QED BY ONLY <3>3, NoRests
  <2>5. job.first \div job.vpp + mid \div job.vpp + job.last \div job.vpp = w
    BY <2>2, <2>3, <2>4 DEF lb
  <2>6. LayerOffset(p, v) = v * w + (IF p = 0 THEN 0 ELSE a + (p - 1) * m)
    BY <1>4, <1>6, <2>2, <2>4, <2>5
  <2> QED BY <1>2, <2>6 DEF UpTo
<1>7. CASE job.pp # 1 /\ ~(job.vpp > 1)
  <2>1. job.vpp = 1 /\ v = 0
    BY <1>0, <1>7
  <2>2. Start(job, p, v) = UpTo(a, m, p) /\ UpTo(a, m, p) \in Int
    <3>1. UpTo(a, m, p) \in Int
      <4>1. p - 1 \in Int
        BY <1>0
      <4>2. (p - 1) * m \in Int
        <5> HIDE DEF m
        <5> QED BY <1>3, <4>1, MulNext
      <4> QED BY <1>3, <4>2 DEF UpTo
    <3> HIDE DEF w, a, m
    <3> QED BY <1>2, <2>1, <3>1
  <2>3. CASE p = 0
    BY <1>4, <1>7, <2>2, <2>3 DEF UpTo
  <2>4. CASE p # 0
    <3>1. m = IF n > 0 THEN mid \div n ELSE 0
      <4>1. CASE n > 0
        <5>1. mid \div n \in Int
          <6> HIDE DEF mid, n
          <6> QED BY <1>1, <4>1, DivModInt
        <5>2. m = (mid \div n) \div 1
          BY <2>1, <4>1 DEF InBetween
        <5> HIDE DEF mid, n, m
        <5> QED BY <4>1, <5>1, <5>2, DivOne
      <4>2. CASE ~(n > 0)
        BY <4>2 DEF InBetween
      <4> QED BY <4>1, <4>2
    <3>2. LayerOffset(p, v) = (IF job.first = 0 THEN p ELSE p - 1) * m + job.first
      BY <1>4, <1>7, <2>4, <3>1
    <3>3. UpTo(a, m, p) = a + (p - 1) * m
      BY <2>4 DEF UpTo
    <3>4. CASE job.first > 0
      <4>1. a = job.first
        BY <1>0, <2>1, <3>4, DivOne DEF OfFirst
      <4>2. LayerOffset(p, v) = (p - 1) * m + job.first
        BY <1>0, <3>2, <3>4
      <4>3. (p - 1) * m \in Int
        <5>1. p - 1 \in Int
          BY <1>0
        <5> HIDE DEF m
        <5> QED BY <1>3, <5>1, MulNext
      <4> DEFINE x == (p - 1) * m
      <4> HIDE DEF x
      <4>4. x \in Int /\ LayerOffset(p, v) = x + job.first /\ UpTo(a, m, p) = a + x
        BY <3>3, <4>2, <4>3 DEF x
      <4> QED BY <1>0, <2>2, <4>1, <4>4
    <3>5. CASE ~(job.first > 0)
      <4>1. job.first = 0 /\ a = m
        BY <1>0, <1>7, <3>5 DEF OfFirst
      <4>2. LayerOffset(p, v) = p * m + 0
        BY <3>2, <4>1
      <4>3. (p - 1) * m = p * m - m /\ p * m \in Int
        <5>1. p \in Int
          BY <1>0
        <5> HIDE DEF m
        <5> QED BY <1>3, <5>1, MulNext
      <4> DEFINE x == p * m
                 y == (p - 1) * m
      <4>4. x \in Int /\ y = x - m /\ LayerOffset(p, v) = x + 0 /\ UpTo(a, m, p) = a + y
        BY <3>3, <4>2, <4>3
      <4> HIDE DEF x, y, a, m
      <4> QED BY <1>3, <2>2, <4>1, <4>4
    <3> QED BY <3>4, <3>5
  <2> QED BY <2>3, <2>4
<1> QED BY <1>5, <1>6, <1>7

\* Layouts whose stages are alike but for the embedding and the loss
Slots(j) == j.layers + j.forEmbed + j.forLoss
PerChunk(j) == (Slots(j) \div j.pp) \div j.vpp
OfEmbed(j, p, v) == IF p = 0 /\ v = 0 THEN j.forEmbed ELSE 0
OfLoss(j, p, v) == IF p = j.pp - 1 /\ v = j.vpp - 1 THEN j.forLoss ELSE 0

AlikeForm(j) ==
  [c \in Cell(j) |-> (c[2] * (j.pp * PerChunk(j)) + c[1] * PerChunk(j))
                     - (IF c = <<0, 0>> THEN 0 ELSE j.forEmbed)]

\* The closed form, less the slots of embedding and loss
LEMMA AlikeFormAt ==
  ASSUME NEW j, j \in JobType, Ends(j) = 0, NEW p \in 0..j.pp - 1, NEW v \in 0..j.vpp - 1
  PROVE  /\ PerChunk(j) \in Nat /\ j.pp * PerChunk(j) \in Nat
         /\ v * (j.pp * PerChunk(j)) \in Int /\ p * PerChunk(j) \in Int
         /\ AlikeForm(j)[<<p, v>>] =
              (v * (j.pp * PerChunk(j)) + p * PerChunk(j)) - (j.forEmbed - OfEmbed(j, p, v))
         /\ LayersIn(j, p, v) = (PerChunk(j) - OfEmbed(j, p, v)) - OfLoss(j, p, v)
         /\ OfEmbed(j, p, v) \in Int /\ OfLoss(j, p, v) \in Int
<1> DEFINE s == PerChunk(j)
<1>0. /\ j.pp \in Nat \ {0} /\ j.vpp \in Nat \ {0} /\ j.layers \in Nat \ {0}
      /\ j.forEmbed \in Nat /\ j.forLoss \in Nat /\ p \in Nat /\ v \in Nat
  BY DEF JobType, Positive
<1>1. s \in Nat
  <2>1. Slots(j) \in Nat
    BY <1>0 DEF Slots
  <2>2. Slots(j) \div j.pp \in Nat
    BY <1>0, <2>1, DivMod
  <2>3. (Slots(j) \div j.pp) \div j.vpp \in Nat
    BY <1>0, <2>2, DivMod
  <2> QED BY <2>3 DEF PerChunk
<1>2. LayersIn(j, p, v) = (s - OfEmbed(j, p, v)) - OfLoss(j, p, v)
  BY DEF LayersIn, PerChunk, Slots, OfEmbed, OfLoss
<1>3. OfEmbed(j, p, v) \in Int /\ OfLoss(j, p, v) \in Int
  BY <1>0 DEF OfEmbed, OfLoss
<1>4. <<p, v>> \in Cell(j)
  BY DEF Cell
<1> HIDE DEF s
<1>5. j.pp * s \in Nat /\ p * s \in Nat
  BY <1>0, <1>1, MulPos
<1>6. v * (j.pp * s) \in Nat
  BY <1>0, <1>5, MulPos
<1>7. (IF <<p, v>> = <<0, 0>> THEN 0 ELSE j.forEmbed) = j.forEmbed - OfEmbed(j, p, v)
  BY <1>0 DEF OfEmbed
<1> DEFINE x == v * (j.pp * s)
           y == p * s
<1>8. AlikeForm(j)[<<p, v>>] = (x + y) - (IF <<p, v>> = <<0, 0>> THEN 0 ELSE j.forEmbed)
  BY <1>4 DEF AlikeForm, s
<1>9. x \in Int /\ y \in Int
  BY <1>5, <1>6
<1> HIDE DEF x, y
<1>10. AlikeForm(j)[<<p, v>>] = (x + y) - (j.forEmbed - OfEmbed(j, p, v))
  BY <1>7, <1>8
<1> QED BY <1>1, <1>2, <1>3, <1>5, <1>9, <1>10 DEF x, y, s

\* ...and it grows from chunk to chunk by the layers of the chunk.
LEMMA AlikeGrows ==
  ASSUME NEW j, j \in JobType, Ends(j) = 0 PROVE Grows(j, AlikeForm(j))
<1> DEFINE s == PerChunk(j)
           w == j.pp * s
           F == AlikeForm(j)
<1>0. /\ j.pp \in Nat \ {0} /\ j.vpp \in Nat \ {0} /\ j.forEmbed \in Int
  BY DEF JobType, Positive
<1>1. ASSUME NEW p \in 0..j.pp - 1, NEW v \in 0..j.vpp - 1
      PROVE  /\ s \in Int /\ w \in Int /\ v * w \in Int /\ p * s \in Int
             /\ F[<<p, v>>] = (v * w + p * s) - (j.forEmbed - OfEmbed(j, p, v))
             /\ LayersIn(j, p, v) = (s - OfEmbed(j, p, v)) - OfLoss(j, p, v)
             /\ OfEmbed(j, p, v) \in Int /\ OfLoss(j, p, v) \in Int
  BY AlikeFormAt
<1> HIDE DEF F, s
<1>2. F[<<0, 0>>] = 0
  <2>1. 0 \in 0..j.pp - 1 /\ 0 \in 0..j.vpp - 1 /\ OfEmbed(j, 0, 0) = j.forEmbed
    BY <1>0 DEF OfEmbed
  <2>2. /\ s \in Int /\ w \in Int
        /\ F[<<0, 0>>] = (0 * w + 0 * s) - (j.forEmbed - OfEmbed(j, 0, 0))
    BY <1>1, <2>1
  <2> HIDE DEF w
  <2> QED BY <1>0, <2>1, <2>2
<1>3. ASSUME NEW p \in 0..j.pp - 2, NEW v \in 0..j.vpp - 1
      PROVE  F[<<p + 1, v>>] = F[<<p, v>>] + LayersIn(j, p, v)
  <2>1. /\ p \in 0..j.pp - 1 /\ p + 1 \in 0..j.pp - 1 /\ OfLoss(j, p, v) = 0
        /\ OfEmbed(j, p + 1, v) = 0
    BY <1>0 DEF OfLoss, OfEmbed
  <2> DEFINE x == v * w
             y == p * s
             z == (p + 1) * s
             e == OfEmbed(j, p, v)
  <2>2. /\ s \in Int /\ x \in Int /\ y \in Int /\ e \in Int
        /\ F[<<p, v>>] = (x + y) - (j.forEmbed - e)
        /\ F[<<p + 1, v>>] = (x + z) - (j.forEmbed - 0)
        /\ LayersIn(j, p, v) = (s - e) - 0
    BY <1>1, <2>1
  <2>3. z = y + s
    BY <1>0, <2>1, <2>2, MulNext
  <2> HIDE DEF x, y, z, e
  <2> QED BY <1>0, <2>2, <2>3
<1>4. ASSUME NEW v \in 0..j.vpp - 2
      PROVE  F[<<0, v + 1>>] = F[<<j.pp - 1, v>>] + LayersIn(j, j.pp - 1, v)
  <2> DEFINE p == j.pp - 1
             x == v * w
             y == p * s
             z == (v + 1) * w
             e == OfEmbed(j, p, v)
  <2>1. /\ v \in 0..j.vpp - 1 /\ v + 1 \in 0..j.vpp - 1 /\ 0 \in 0..j.pp - 1 /\ p \in 0..j.pp - 1
        /\ OfLoss(j, p, v) = 0 /\ OfEmbed(j, 0, v + 1) = 0
    BY <1>0 DEF OfLoss, OfEmbed
  <2>2. /\ s \in Int /\ w \in Int /\ x \in Int /\ y \in Int /\ e \in Int
        /\ F[<<p, v>>] = (x + y) - (j.forEmbed - e)
        /\ LayersIn(j, p, v) = (s - e) - 0
    BY <1>1, <2>1
  <2>3. F[<<0, v + 1>>] = (z + 0 * s) - (j.forEmbed - 0) /\ z \in Int
    BY <1>1, <2>1
  <2>4. y = w - s
    BY <1>0, <2>2, MulNext
  <2>5. z = x + w
    <3> HIDE DEF w
    <3> QED BY <2>1, <2>2, MulNext
  <2> HIDE DEF x, y, z, e, p, w
  <2>6. F[<<0, v + 1>>] = F[<<p, v>>] + LayersIn(j, p, v)
    BY <1>0, <2>2, <2>3, <2>4, <2>5
  <2> QED BY <2>6 DEF p
<1>5. \A p \in 0..j.pp - 1, v \in 0..j.vpp - 1 : F[<<p, v>>] \in Int
  <2>1. ASSUME NEW p \in 0..j.pp - 1, NEW v \in 0..j.vpp - 1 PROVE F[<<p, v>>] \in Int
    <3> DEFINE x == v * w
               y == p * s
               e == OfEmbed(j, p, v)
    <3>1. x \in Int /\ y \in Int /\ e \in Int /\ F[<<p, v>>] = (x + y) - (j.forEmbed - e)
      BY <1>1
    <3> HIDE DEF x, y, e
    <3> QED BY <1>0, <3>1
  <2> QED BY <2>1
<1>6. Grows(j, F)
  BY <1>2, <1>3, <1>4, <1>5, Zenon DEF Grows
<1> QED BY <1>6 DEF F

-----------------------------------------------------------------------------
(* The offset that the engine is told is the layer the chunk starts with. *)

\* get_transformer_layer_offset, where no end stage has a size of its own
LEMMA AlikeOffset ==
  ASSUME job \in JobType, Counted(job), Ends(job) = 0,
         Start(job, 0, job.vpp) = job.layers, job.pp = 1 => job.vpp = 1,
         NEW p \in 0..job.pp - 1, NEW v \in 0..job.vpp - 1
  PROVE  LayerOffset(p, v) = Start(job, p, v)
<1> DEFINE s == PerChunk(job)
           w == job.pp * s
           F == AlikeForm(job)
           f == job.forEmbed
           g == job.forLoss
<1>0. /\ job.pp \in Nat \ {0} /\ job.vpp \in Nat \ {0} /\ job.layers \in Nat \ {0}
      /\ f \in Nat /\ g \in Nat /\ p \in Nat /\ v \in Nat
  BY DEF JobType, Positive
<1>1. Grows(job, F)
  BY AlikeGrows
<1>2. Start(job, p, v) = F[<<p, v>>]
  <2> HIDE DEF F
  <2> QED BY <1>1, StartForm
<1>3. F[<<job.pp - 1, job.vpp - 1>>] + LayersIn(job, job.pp - 1, job.vpp - 1) = job.layers
  <2> HIDE DEF F
  <2> QED BY <1>1, FormTotal
<1>4. ASSUME NEW q \in 0..job.pp - 1, NEW u \in 0..job.vpp - 1
      PROVE  /\ s \in Nat /\ w \in Nat /\ u * w \in Int /\ q * s \in Int
             /\ F[<<q, u>>] = (u * w + q * s) - (f - OfEmbed(job, q, u))
             /\ LayersIn(job, q, u) = (s - OfEmbed(job, q, u)) - OfLoss(job, q, u)
             /\ OfEmbed(job, q, u) \in Int /\ OfLoss(job, q, u) \in Int
  BY AlikeFormAt
<1> HIDE DEF F, s
<1>5. job.vpp * w = Slots(job) /\ w \in Nat /\ s \in Nat
  <2> DEFINE q == job.pp - 1
             u == job.vpp - 1
             x == u * w
             y == q * s
             z == job.vpp * w
             e == OfEmbed(job, q, u)
  <2>1. q \in 0..job.pp - 1 /\ u \in 0..job.vpp - 1 /\ OfLoss(job, q, u) = g
    BY <1>0 DEF OfLoss
  <2>2. /\ s \in Nat /\ w \in Nat /\ x \in Int /\ y \in Int /\ e \in Int
        /\ F[<<q, u>>] = (x + y) - (f - e)
        /\ LayersIn(job, q, u) = (s - e) - g
    BY <1>4, <2>1
  <2>3. y = w - s
    BY <1>0, <2>2, MulNext
  <2>4. x = z - w /\ z \in Int
    <3> HIDE DEF w
    <3> QED BY <1>0, <2>2, MulNext
  <2> HIDE DEF q, u, x, y, z, e, w
  <2>5. F[<<q, u>>] + LayersIn(job, q, u) = job.layers
    BY <1>3 DEF q, u
  <2>6. z = (job.layers + f) + g
    BY <1>0, <2>2, <2>3, <2>4, <2>5
  <2> QED BY <2>2, <2>6 DEF z, Slots
<1>6. job.pp # 1 => LayerOffset(p, v) =
        v * (Slots(job) \div job.vpp) + (p * s - (IF p = 0 /\ v = 0 THEN 0 ELSE f))
  BY DEF LayerOffset, Slots, s, PerChunk
<1>7. CASE job.pp = 1
  <2>1. p = 0 /\ v = 0 /\ LayerOffset(p, v) = 0
    BY <1>0, <1>7 DEF LayerOffset
  <2>2. F[<<0, 0>>] = 0
    BY <1>1 DEF Grows
  <2> QED BY <1>2, <2>1, <2>2
<1>8. CASE job.pp # 1
  <2>1. Slots(job) \div job.vpp = w
    <3>1. w \in Int
      BY <1>5
    <3> HIDE DEF w
    <3>2. (job.vpp * w) \div job.vpp = w
      BY <1>0, <3>1, DivIsInt
    <3> QED BY <1>5, <3>2
  <2> DEFINE x == v * w
             y == p * s
             e == OfEmbed(job, p, v)
  <2>2. x \in Int /\ y \in Int /\ e \in Int /\ F[<<p, v>>] = (x + y) - (f - e)
    BY <1>4
  <2>3. (IF p = 0 /\ v = 0 THEN 0 ELSE f) = f - e
    BY <1>0 DEF OfEmbed
  <2>4. LayerOffset(p, v) = x + (y - (f - e))
    BY <1>6, <1>8, <2>1, <2>3
  <2> HIDE DEF x, y, e
  <2> QED BY <1>0, <1>2, <2>2, <2>4
<1> QED BY <1>7, <1>8

\* The offset of a chunk is the layer of the model it starts with.
LEMMA OffsetIs ==
  ASSUME job \in Jobs, Feedable(job), NEW p \in 0..job.pp - 1, NEW v \in 0..job.vpp - 1,
         NEW i \in Int
  PROVE  i + LayerOffset(p, v) = Placed(job, p, v, i)
<1>1. Launchable(job) /\ Counted(job)
  BY JobIs
<1>2. job \in JobType /\ Start(job, 0, job.vpp) = job.layers /\ (job.pp = 1 => job.vpp = 1)
  BY <1>1 DEF Launchable, Start
<1>3. Ends(job) \in Nat
  BY <1>2, EndsIs DEF JobType
<1>4. LayerOffset(p, v) = Start(job, p, v)
  <2>1. CASE Ends(job) > 0
    BY <1>1, <1>2, <2>1, EndsOffset
  <2>2. CASE Ends(job) = 0
    BY <1>1, <1>2, <2>2, AlikeOffset
  <2> QED BY <1>3, <2>1, <2>2
<1>5. Start(job, p, v) \in Int /\ Placed(job, p, v, i) = Start(job, p, v) + i
  BY <1>1, PlacedIs
<1> QED BY <1>4, <1>5

\* Every layer is in a chunk, and every chunk has layers of the model.
LEMMA JobCovered ==
  ASSUME job \in Jobs
  PROVE  /\ \A l \in 0..job.layers - 1 :
              \E p \in 0..job.pp - 1, v \in 0..job.vpp - 1 :
                \E i \in 0..LayersIn(job, p, v) - 1 : Placed(job, p, v, i) = l
         /\ \A p \in 0..job.pp - 1, v \in 0..job.vpp - 1 :
              \A i \in 0..LayersIn(job, p, v) - 1 : Placed(job, p, v, i) \in 0..job.layers - 1
<1>1. Launchable(job) /\ Counted(job) /\ job.layers \in Nat
  BY JobIs
<1>2. Start(job, 0, job.vpp) = job.layers
  BY <1>1 DEF Launchable, Start
<1> QED BY <1>1, <1>2, LayersCovered

-----------------------------------------------------------------------------
(* Gathering a tensor that is in pieces.                                  *)

\* A tensor in n parts, put together
LEMMA FlatParts ==
  ASSUME NEW S, NEW s, NEW n, NEW w, Cuts(S, s, n, w)
  PROVE  Flat([i \in 1..n |-> Part(s, n, i - 1)]) = s
<1>1. s \in Seq(S) /\ n \in Nat \ {0} /\ w \in Nat /\ Len(s) = n * w
  BY DEF Cuts
<1> QED BY <1>1, FlatOfParts

\* Two sequences joined
LEMMA FlatTwo ==
  ASSUME NEW s, Len(s) = 2
  PROVE  Flat(s) = s[1] \o s[2]
<1>0. Len(s) \in Nat \ {0} /\ 1 \in 1..Len(s)-1 /\ 1 + 1 = 2
  OBVIOUS
<1>1. PICK f : /\ Flat(s) = f[Len(s)] /\ f[1] = s[1]
               /\ \A k \in 1..Len(s)-1 : f[k+1] = f[k] \o s[k+1]
  BY <1>0, FlatIs, Zenon
<1>2. f[1 + 1] = f[1] \o s[1 + 1]
  BY <1>0, <1>1, Zenon
<1> QED BY <1>0, <1>1, <1>2

\* torch.chunk in two of two equal halves put together
LEMMA ChunkHalves ==
  ASSUME NEW S, NEW x, NEW y, NEW w, OfLen(S, x, w), OfLen(S, y, w), w # 0
  PROVE  /\ Chunk(x \o y, 2)[1] = x /\ Chunk(x \o y, 2)[2] = y
         /\ Len(Chunk(x \o y, 2)) = 2
<1> DEFINE s == <<x, y>>
<1>1. x \in Seq(S) /\ y \in Seq(S) /\ w \in Nat \ {0} /\ Len(x) = w /\ Len(y) = w
  BY DEF OfLen
<1>2. s \in Seq(Seq(S)) /\ Len(s) = 2 /\ s[1] = x /\ s[2] = y
  BY <1>1
<1> HIDE DEF s
<1>3. \A i \in 1..2 : Len(s[i]) = w
  BY <1>1, <1>2
<1>4. Grid(S, s, 2, w)
  BY <1>1, <1>2, <1>3 DEF Grid
<1>5. Chunk(Flat(s), 2) = s
  BY <1>4, ChunkOfFlat
<1>6. Flat(s) = x \o y
  BY <1>2, FlatTwo
<1> QED BY <1>2, <1>5, <1>6

\* The parts of a tensor that every rank has a part of, put together
LEMMA ConcatParts ==
  ASSUME NEW S, NEW s, NEW n, NEW w, Cuts(S, s, n, w), NEW name,
         name \notin {"qkv", "qkv_bias", "fc1", "expert_fc1"}
  PROVE  TpConcat(name, [i \in 1..n |-> Part(s, n, i - 1)]) = <<s>>
<1>1. \A pieces : TpConcat(name, pieces) = <<Flat(pieces)>>
  BY DEF TpConcat
<1> QED BY <1>1, FlatParts

\* What is put together under gate and up
LEMMA ConcatGateUp ==
  ASSUME NEW S, NEW gate, NEW up, NEW n, NEW w, Cuts(S, gate, n, w),
         Cuts(S, up, n, w), w # 0, NEW name \in {"fc1", "expert_fc1"}
  PROVE  TpConcat(name, [i \in 1..n |-> Part(gate, n, i - 1) \o Part(up, n, i - 1)])
           = <<gate, up>>
<1> DEFINE pieces == [i \in 1..n |-> Part(gate, n, i - 1) \o Part(up, n, i - 1)]
           halves == [i \in 1..Len(pieces) |-> Chunk(pieces[i], 2)]
<1>0. n \in Nat \ {0} /\ w \in Nat \ {0}
  BY DEF Cuts
<1>1. TpConcat(name, pieces) = <<Joined(halves, 1), Joined(halves, 2)>>
  BY DEF TpConcat
<1>2. Len(pieces) = n /\ \A i \in 1..n : pieces[i] = Part(gate, n, i - 1) \o Part(up, n, i - 1)
  BY <1>0
<1>3. ASSUME NEW i \in 1..n
      PROVE  /\ Chunk(pieces[i], 2)[1] = Part(gate, n, i - 1)
             /\ Chunk(pieces[i], 2)[2] = Part(up, n, i - 1)
  <2>1. i - 1 \in 0..n - 1
    BY <1>0
  <2>2. Slice(S, gate, w, i - 1, Part(gate, n, i - 1)) /\ Slice(S, up, w, i - 1, Part(up, n, i - 1))
    BY <2>1, PartIs
  <2>3. OfLen(S, Part(gate, n, i - 1), w) /\ OfLen(S, Part(up, n, i - 1), w)
    BY <1>0, <2>2 DEF Slice, OfLen
  <2> QED BY <1>0, <1>2, <2>3, ChunkHalves
<1> HIDE DEF pieces
<1>4. Len(halves) = n /\ \A i \in 1..n : halves[i] = Chunk(pieces[i], 2)
  BY <1>0, <1>2
<1> HIDE DEF halves
<1>5. /\ [i \in 1..Len(halves) |-> halves[i][1]] = [i \in 1..n |-> Part(gate, n, i - 1)]
      /\ [i \in 1..Len(halves) |-> halves[i][2]] = [i \in 1..n |-> Part(up, n, i - 1)]
  BY <1>3, <1>4
<1>6. Joined(halves, 1) = gate /\ Joined(halves, 2) = up
  BY <1>5, FlatParts DEF Joined
<1> QED BY <1>1, <1>6 DEF pieces

\* All query groups, in order
AllGroups(q, k, v) == [g \in 1..job.kv |-> QkvGroup(q, k, v, g - 1)]

\* Cutting what the ranks have of q, k and v by group gives all groups.
LEMMA GroupsGathered ==
  ASSUME NEW S, NEW q, NEW k, NEW v, NEW groups, NEW a, NEW b,
         QkvOk(S, q, k, v, groups, a, b)
  PROVE  Flat([t \in 1..job.tp |-> Chunk(QkvOf(q, k, v, t - 1), groups)])
           = AllGroups(q, k, v)
<1> DEFINE Of(t) == [g \in 1..groups |-> QkvGroup(q, k, v, (t * groups + g) - 1)]
           w == (a + b) + b
           rows == [t \in 1..job.tp |-> Chunk(QkvOf(q, k, v, t - 1), groups)]
           all == AllGroups(q, k, v)
<1>0. /\ job.tp \in Nat \ {0} /\ groups \in Nat \ {0} /\ job.kv = job.tp * groups
      /\ job.kv \div job.tp = groups /\ w \in Nat \ {0} /\ job.kv \in Nat \ {0}
  BY DEF QkvOk, Cuts
<1>1. ASSUME NEW t \in 0..job.tp - 1, NEW g \in 1..groups
      PROVE  (t * groups + g) - 1 \in 0..job.kv - 1 /\ t * groups + g \in 1..job.kv
  <2> DEFINE x == t * groups
             y == job.tp * groups
  <2>1. x + g \in 1..y /\ x \in Nat /\ y \in Nat
    BY <1>0, PartPlace
  <2> HIDE DEF x, y
  <2>2. (x + g) - 1 \in 0..y - 1
    BY <2>1
  <2> QED BY <1>0, <2>1, <2>2 DEF x, y
<1>2. ASSUME NEW t \in 0..job.tp - 1
      PROVE  Grid(S, Of(t), groups, w)
  <2> DEFINE row == Of(t)
  <2>1. ASSUME NEW g \in 1..groups
        PROVE  row[g] \in Seq(S) /\ Len(row[g]) = w
    BY <1>1, GroupIs
  <2>2. row \in Seq(Seq(S)) /\ Len(row) = groups
    <3>1. DOMAIN row = 1..groups /\ row = [g \in 1..groups |-> row[g]]
          /\ \A g \in 1..groups : row[g] \in Seq(S)
      BY <2>1
    <3>2. groups \in Nat
      BY <1>0
    <3> HIDE DEF row
    <3> QED BY <3>1, <3>2, MakeSeq
  <2> HIDE DEF row, w
  <2>3. Grid(S, row, groups, w)
    BY <1>0, <2>1, <2>2 DEF Grid
  <2> QED BY <2>3 DEF row
<1>3. ASSUME NEW t \in 0..job.tp - 1
      PROVE  /\ Chunk(QkvOf(q, k, v, t), groups) = Of(t)
             /\ Of(t) \in Seq(Seq(S)) /\ Len(Of(t)) = groups
  <2>1. QkvOf(q, k, v, t) = Flat(Of(t))
    BY <1>0 DEF QkvOf
  <2> HIDE DEF Of, w
  <2>2. Chunk(Flat(Of(t)), groups) = Of(t)
    BY <1>2, ChunkOfFlat
  <2> QED BY <1>2, <2>1, <2>2 DEF Grid
<1>4. ASSUME NEW i \in 1..job.tp
      PROVE  rows[i] = Of(i - 1) /\ rows[i] \in Seq(Seq(S)) /\ Len(rows[i]) = groups
  <2>1. i - 1 \in 0..job.tp - 1
    BY <1>0
  <2> HIDE DEF Of
  <2> QED BY <1>3, <2>1
<1>5. rows \in Seq(Seq(Seq(S))) /\ Len(rows) = job.tp
  <2>1. DOMAIN rows = 1..job.tp /\ rows = [t \in 1..job.tp |-> rows[t]]
        /\ \A t \in 1..job.tp : rows[t] \in Seq(Seq(S))
    <3> HIDE DEF Of
    <3> QED BY <1>4
  <2>2. job.tp \in Nat
    BY <1>0
  <2> HIDE DEF rows
  <2> QED BY <2>1, <2>2, MakeSeq
<1> HIDE DEF rows
<1>6. /\ Flat(rows) \in Seq(Seq(S)) /\ Len(Flat(rows)) = job.tp * groups
      /\ \A i \in 1..job.tp, g \in 1..groups : Flat(rows)[(i - 1) * groups + g] = rows[i][g]
  <2>1. \A i \in 1..Len(rows) : Len(rows[i]) = groups
    BY <1>4, <1>5
  <2>2. groups \in Nat
    BY <1>0
  <2>3. /\ Flat(rows) \in Seq(Seq(S)) /\ Len(Flat(rows)) = Len(rows) * groups
        /\ \A i \in 1..Len(rows), g \in 1..groups :
             Flat(rows)[(i - 1) * groups + g] = rows[i][g]
    BY <1>5, <2>1, <2>2, FlatUniform
  <2> QED BY <1>5, <2>3
<1>7. ASSUME NEW x \in 1..job.kv
      PROVE  Flat(rows)[x] = all[x]
  <2>1. x \in 1..job.tp * groups
    BY <1>0
  <2>2. PICK t \in 0..job.tp - 1, g \in 1..groups : x = t * groups + g
    <3>1. job.tp \in Nat /\ groups \in Nat
      BY <1>0
    <3> QED BY ONLY <2>1, <3>1, PlacePart
  <2>3. t + 1 \in 1..job.tp /\ (t + 1) - 1 = t
    BY <1>0
  <2>4. Flat(rows)[((t + 1) - 1) * groups + g] = rows[t + 1][g]
    BY <1>6, <2>3
  <2>5. rows[t + 1] = Of(t)
    <3> HIDE DEF Of
    <3>1. rows[t + 1] = Of((t + 1) - 1)
      BY <1>4, <2>3
    <3> QED BY <2>3, <3>1
  <2>6. rows[t + 1][g] = QkvGroup(q, k, v, (t * groups + g) - 1)
    BY <2>5
  <2>7. all[x] = QkvGroup(q, k, v, x - 1)
    BY DEF AllGroups
  <2> QED BY <2>2, <2>3, <2>4, <2>6, <2>7
<1>8. all \in Seq(Seq(S)) /\ Len(all) = job.kv
  <2>1. ASSUME NEW x \in 1..job.kv PROVE all[x] \in Seq(S)
    <3>1. x - 1 \in 0..job.kv - 1 /\ all[x] = QkvGroup(q, k, v, x - 1)
      BY <1>0 DEF AllGroups
    <3> QED BY <3>1, GroupIs
  <2>2. DOMAIN all = 1..job.kv /\ all = [g \in 1..job.kv |-> all[g]]
    BY DEF AllGroups
  <2>3. job.kv \in Nat
    BY <1>0
  <2> HIDE DEF all
  <2> QED BY <2>1, <2>2, <2>3, MakeSeq
<1> HIDE DEF all
<1>9. Flat(rows) = all
  <2> DEFINE f == Flat(rows)
  <2>1. f \in Seq(Seq(S)) /\ Len(f) = job.kv /\ \A x \in 1..Len(f) : f[x] = all[x]
    BY <1>0, <1>6, <1>7
  <2> HIDE DEF f
  <2>2. f = all
    BY ONLY <1>8, <2>1, SeqEq
  <2> QED BY <2>2 DEF f
<1> QED BY <1>9 DEF rows, all

-----------------------------------------------------------------------------
(* Gathering q, k and v, by query group.                                  *)

\* Three sequences, the last two of one length, and what they make together
Three(S, s, x, y, z, a, b) ==
  /\ OfLen(S, x, a) /\ OfLen(S, y, b) /\ OfLen(S, z, b)
  /\ s = (x \o y) \o z

\* A sequence, cut after a elements and after b more
CutAt(s, a, b) ==
  <<SubSeq(s, 1, a), SubSeq(s, a + 1, a + b), SubSeq(s, (a + b) + 1, (a + b) + b)>>

\* A sequence joined of three, cut where they meet
LEMMA CutThree ==
  ASSUME NEW S, NEW s, NEW x, NEW y, NEW z, NEW a, NEW b, Three(S, s, x, y, z, a, b)
  PROVE  CutAt(s, a, b) = <<x, y, z>>
<1> DEFINE xy == x \o y
<1>1. /\ x \in Seq(S) /\ y \in Seq(S) /\ z \in Seq(S) /\ a \in Nat /\ b \in Nat
      /\ Len(x) = a /\ Len(y) = b /\ Len(z) = b
  BY DEF Three, OfLen
<1>2. /\ xy \in Seq(S) /\ Len(xy) = a + b
      /\ \A i \in 1..a : xy[i] = x[i]
      /\ \A i \in 1..b : xy[a + i] = y[i]
  <2>1. /\ x \o y \in Seq(S) /\ Len(x \o y) = Len(x) + Len(y)
        /\ \A i \in 1..Len(x) : (x \o y)[i] = x[i]
        /\ \A i \in 1..Len(y) : (x \o y)[Len(x) + i] = y[i]
    <3>1. x \in Seq(S) /\ y \in Seq(S)
      BY <1>1
    <3> QED BY ONLY <3>1, Concat
  <2> QED BY <1>1, <2>1
<1> HIDE DEF xy
<1>3. /\ s \in Seq(S) /\ Len(s) = (a + b) + b
      /\ \A i \in 1..a + b : s[i] = xy[i]
      /\ \A i \in 1..b : s[(a + b) + i] = z[i]
  <2>1. /\ xy \o z \in Seq(S) /\ Len(xy \o z) = Len(xy) + Len(z)
        /\ \A i \in 1..Len(xy) : (xy \o z)[i] = xy[i]
        /\ \A i \in 1..Len(z) : (xy \o z)[Len(xy) + i] = z[i]
    <3>1. xy \in Seq(S) /\ z \in Seq(S)
      BY <1>1, <1>2
    <3> QED BY ONLY <3>1, Concat
  <2>2. s = xy \o z
    BY DEF Three, xy
  <2> QED BY <1>1, <1>2, <2>1, <2>2
<1>4. ASSUME NEW m \in Nat, NEW w \in Nat, m + w <= (a + b) + b, NEW t \in Seq(S), Len(t) = w,
             \A i \in 1..w : s[m + i] = t[i]
      PROVE  SubSeq(s, m + 1, m + w) = t
  <2> DEFINE u == SubSeq(s, m + 1, m + w)
  <2>1. u \in Seq(S) /\ Len(u) = w /\ \A i \in 1..w : u[i] = s[m + i]
    BY <1>3, <1>4, SubSeqLaws
  <2> HIDE DEF u
  <2>2. \A i \in 1..Len(u) : u[i] = t[i]
    BY <1>4, <2>1
  <2>3. u = t
    BY ONLY <1>4, <2>1, <2>2, SeqEq
  <2> QED BY <2>3 DEF u
<1>5. SubSeq(s, 0 + 1, 0 + a) = x
  <2>1. \A i \in 1..a : s[0 + i] = x[i]
    <3>1. ASSUME NEW i \in 1..a PROVE s[0 + i] = x[i]
      <4>1. i \in 1..a + b /\ 0 + i = i
        BY <1>1
      <4>2. s[i] = xy[i] /\ xy[i] = x[i]
        BY <1>2, <1>3, <4>1
      <4> QED BY <4>1, <4>2
    <3> QED BY <3>1
  <2>2. 0 + a <= (a + b) + b
    BY <1>1
  <2> QED BY <1>1, <1>4, <2>1, <2>2
<1>6. SubSeq(s, a + 1, a + b) = y
  <2>1. \A i \in 1..b : s[a + i] = y[i]
    <3>1. ASSUME NEW i \in 1..b PROVE s[a + i] = y[i]
      <4>1. a + i \in 1..a + b
        BY <1>1
      <4>2. s[a + i] = xy[a + i] /\ xy[a + i] = y[i]
        BY <1>2, <1>3, <4>1
      <4> QED BY <4>2
    <3> QED BY <3>1
  <2>2. a + b <= (a + b) + b
    BY <1>1
  <2> QED BY <1>1, <1>4, <2>1, <2>2
<1>7. SubSeq(s, (a + b) + 1, (a + b) + b) = z
  <2>1. a + b \in Nat /\ (a + b) + b <= (a + b) + b
    BY <1>1
  <2> QED BY <1>1, <1>3, <1>4, <2>1
<1>8. 0 + 1 = 1 /\ 0 + a = a
  BY <1>1
<1> QED BY <1>5, <1>6, <1>7, <1>8 DEF CutAt

\* As many rows of q as heads share a row of k
QkvFits(S, q, k, v, groups, a, b, per) ==
  /\ QkvOk(S, q, k, v, groups, a, b)
  /\ per \in Nat /\ job.heads \div job.kv = per /\ a = per * b

\* A query group is split where q, k and v meet.
LEMMA SplitGroupIs ==
  ASSUME NEW S, NEW q, NEW k, NEW v, NEW groups, NEW a, NEW b, NEW per,
         QkvFits(S, q, k, v, groups, a, b, per), NEW g \in 0..job.kv - 1,
         NEW s, s = QkvGroup(q, k, v, g)
  PROVE  SplitGroup(s, Len(s)) = <<Part(q, job.kv, g), Part(k, job.kv, g), Part(v, job.kv, g)>>
<1> DEFINE x == Part(q, job.kv, g)
           y == Part(k, job.kv, g)
           z == Part(v, job.kv, g)
           n == (a + b) + b
<1>1. Cuts(S, q, job.kv, a) /\ Cuts(S, k, job.kv, b) /\ Cuts(S, v, job.kv, b)
      /\ a \in Nat \ {0} /\ b \in Nat \ {0} /\ QkvOk(S, q, k, v, groups, a, b)
  BY DEF QkvFits, QkvOk
<1>a. per \in Nat /\ job.heads \div job.kv = per /\ a = per * b
  BY DEF QkvFits
<1>2. Slice(S, q, a, g, x) /\ Slice(S, k, b, g, y) /\ Slice(S, v, b, g, z)
  BY <1>1, PartIs, Zenon
<1>4. Len(s) = n
  BY <1>1, GroupIs
<1>5. n \div (per + 2) = b
  <2>1. n = (per + 2) * b
    BY <1>1, <1>a
  <2>2. per + 2 \in Nat \ {0} /\ b \in Int
    BY <1>1, <1>a
  <2>3. ((per + 2) * b) \div (per + 2) = b
    <3> DEFINE d == per + 2
    <3>1. d \in Nat \ {0} /\ b \in Int
      BY <2>2
    <3> HIDE DEF d
    <3>2. (d * b) \div d = b
      BY <3>1, DivIsInt
    <3> QED BY <3>2 DEF d
  <2> HIDE DEF n
  <2> QED BY <2>1, <2>3
<1>6. n - 2 * b = a /\ a + b + 1 = (a + b) + 1
  BY <1>1
<1> HIDE DEF n
<1>7. Three(S, s, x, y, z, a, b)
  BY <1>1, <1>2 DEF Three, OfLen, Slice, QkvGroup
<1>8. SplitGroup(s, n) = CutAt(s, a, b)
  BY <1>a, <1>5, <1>6 DEF SplitGroup, CutAt, n
<1> HIDE DEF x, y, z
<1>9. CutAt(s, a, b) = <<x, y, z>>
  BY ONLY <1>7, CutThree
<1> QED BY <1>4, <1>8, <1>9 DEF x, y, z

\* q, k and v of all ranks are put together as they were cut.
LEMMA ConcatQkv ==
  ASSUME NEW S, NEW q, NEW k, NEW v, NEW groups, NEW a, NEW b, NEW per,
         QkvFits(S, q, k, v, groups, a, b, per), NEW name \in {"qkv", "qkv_bias"}
  PROVE  TpConcat(name, [t \in 1..job.tp |-> QkvOf(q, k, v, t - 1)]) = <<q, k, v>>
<1> DEFINE pieces == [t \in 1..job.tp |-> QkvOf(q, k, v, t - 1)]
           all == AllGroups(q, k, v)
           splits == [g \in 1..Len(all) |-> SplitGroup(all[g], Len(all[g]))]
<1>0. /\ job.tp \in Nat \ {0} /\ job.kv \div job.tp = groups /\ job.kv \in Nat \ {0}
      /\ Cuts(S, q, job.kv, a) /\ Cuts(S, k, job.kv, b) /\ Cuts(S, v, job.kv, b)
      /\ QkvOk(S, q, k, v, groups, a, b)
  BY DEF QkvFits, QkvOk, Cuts
<1>1. TpConcat(name, pieces)
        = Ungrouped(Flat([i \in 1..Len(pieces) |-> Chunk(pieces[i], job.kv \div job.tp)]))
  BY DEF TpConcat
<1>2. [i \in 1..Len(pieces) |-> Chunk(pieces[i], job.kv \div job.tp)]
        = [t \in 1..job.tp |-> Chunk(QkvOf(q, k, v, t - 1), groups)]
  BY <1>0
<1>3. TpConcat(name, pieces) = Ungrouped(all)
  <2>1. Flat([t \in 1..job.tp |-> Chunk(QkvOf(q, k, v, t - 1), groups)]) = all
    BY <1>0, GroupsGathered
  <2> HIDE DEF pieces, all
  <2> QED BY <1>1, <1>2, <2>1
<1>4. Ungrouped(all) = <<Joined(splits, 1), Joined(splits, 2), Joined(splits, 3)>>
  BY DEF Ungrouped
<1>5. Len(all) = job.kv /\ \A g \in 1..job.kv : all[g] = QkvGroup(q, k, v, g - 1)
  BY <1>0 DEF AllGroups
<1> HIDE DEF all
<1>6. ASSUME NEW g \in 1..job.kv
      PROVE  splits[g] = <<Part(q, job.kv, g - 1), Part(k, job.kv, g - 1), Part(v, job.kv, g - 1)>>
  <2>1. g - 1 \in 0..job.kv - 1
    BY <1>0
  <2>2. all[g] = QkvGroup(q, k, v, g - 1) /\ splits[g] = SplitGroup(all[g], Len(all[g]))
    BY <1>5
  <2> HIDE DEF splits
  <2> QED BY <2>1, <2>2, SplitGroupIs
<1>7. Len(splits) = job.kv
  BY <1>0, <1>5
<1> HIDE DEF splits
<1>8. /\ [i \in 1..Len(splits) |-> splits[i][1]] = [g \in 1..job.kv |-> Part(q, job.kv, g - 1)]
      /\ [i \in 1..Len(splits) |-> splits[i][2]] = [g \in 1..job.kv |-> Part(k, job.kv, g - 1)]
      /\ [i \in 1..Len(splits) |-> splits[i][3]] = [g \in 1..job.kv |-> Part(v, job.kv, g - 1)]
  BY <1>6, <1>7
<1>9. Joined(splits, 1) = q /\ Joined(splits, 2) = k /\ Joined(splits, 3) = v
  BY <1>0, <1>8, FlatParts DEF Joined
<1> QED BY <1>3, <1>4, <1>9 DEF pieces

-----------------------------------------------------------------------------
(* What a rank reads of the others.                                       *)

ExpertNames == {"expert_fc1", "expert_fc2"}

\* The parameters of stage p
KeyShape(p, k) ==
  /\ k \in Key /\ k[2] \in Names /\ k[1] \in 0..job.vpp - 1
  /\ k[3] = -1 \/ k[3] \in 0..LayersIn(job, p, k[1]) - 1
  /\ k[2] \in ExpertNames => k[4] \in 0..(job.experts \div job.ep) - 1
  /\ k[2] \notin ExpertNames => k[4] = -1

\* The keys of a stage have this shape.
LEMMA KeyIs ==
  ASSUME job \in Jobs, NEW p \in 0..job.pp - 1, NEW k \in Keys(p)
  PROVE  KeyShape(p, k)
<1>1. Keys(p) = UNION {NamedKeys(job, p, v) : v \in 0..job.vpp - 1} /\ Keys(p) \subseteq Key
  BY KeysAre
<1>2. PICK v \in 0..job.vpp - 1 : k \in NamedKeys(job, p, v)
  BY <1>1
<1>3. k \in Key /\ k[2] \in Names
  BY <1>1 DEF Key
<1>4. CASE k \in {<<v, "word_embeddings", -1, -1>>, <<v, "final_layernorm", -1, -1>>,
                  <<v, "output_layer", -1, -1>>}
  BY <1>3, <1>4 DEF KeyShape, ExpertNames
<1>5. CASE \E n \in LayerNames(job), i \in 0..LayersIn(job, p, v) - 1 : k = <<v, n, i, -1>>
  <2>1. PICK n \in LayerNames(job), i \in 0..LayersIn(job, p, v) - 1 : k = <<v, n, i, -1>>
    BY <1>5
  <2>2. k[1] = v /\ k[2] = n /\ k[3] = i /\ k[4] = -1
    BY <2>1
  <2>3. n \notin ExpertNames
    BY DEF LayerNames, ExpertNames
  <2> QED BY <1>3, <2>2, <2>3 DEF KeyShape
<1>6. CASE \E n \in ExpertNames, i \in 0..LayersIn(job, p, v) - 1,
              e \in 0..(job.experts \div job.ep) - 1 : k = <<v, n, i, e>>
  <2>1. PICK n \in ExpertNames, i \in 0..LayersIn(job, p, v) - 1,
              e \in 0..(job.experts \div job.ep) - 1 : k = <<v, n, i, e>>
    BY <1>6
  <2>2. k[1] = v /\ k[2] = n /\ k[3] = i /\ k[4] = e
    BY <2>1
  <2> QED BY <1>3, <2>2 DEF KeyShape
<1> QED BY <1>2, <1>4, <1>5, <1>6 DEF NamedKeys, ExpertNames

\* The layer of the model a parameter is of, and the rank with the parts of r
\* that has it
Where(at) == IF at.key[3] = -1 THEN -1 ELSE Placed(job, at.pp, at.key[1], at.key[3])
On(r, at) == [r EXCEPT !.pp = at.pp]

\* Rank r reads a parameter of a language model that is loaded.
Reads(r, at) ==
  /\ job \in Jobs /\ (job.value => at.key[2] # "output_layer") /\ param = Holding
  /\ r \in Rank /\ at \in MetaEntry /\ at.key \in Keys(at.pp)

\* What is read of another stage is what is held there under that key.
LEMMA ReadsIs ==
  ASSUME NEW r, NEW at, Reads(r, at)
  PROVE  /\ On(r, at) \in Rank /\ On(r, at).tp = r.tp /\ On(r, at).pp = at.pp
         /\ ExpertSeat(On(r, at)) = ExpertSeat(r)
         /\ FromPp(r, at).rows = Held(On(r, at), at.key)
         /\ FromPp(r, at).parallel <=> at.key[2] \in Parallel
         /\ LayerAt(On(r, at), at.key[1], at.key[3]) = Where(at)
         /\ at.pp \in 0..job.pp - 1 /\ KeyShape(at.pp, at.key)
         /\ Where(at) \in Int
<1>1. at.pp \in 0..job.pp - 1 /\ r \in Rank
  BY DEF Reads, MetaEntry
<1>2. /\ On(r, at) \in Rank /\ On(r, at).tp = r.tp /\ On(r, at).pp = at.pp
      /\ On(r, at).dp = r.dp /\ On(r, at).cp = r.cp
  BY <1>1 DEF On, Rank
<1>3. ExpertSeat(On(r, at)) = ExpertSeat(r)
  BY <1>2 DEF ExpertSeat
<1>4. FromPp(r, at).rows = Held(On(r, at), at.key)
  <2>1. FromPp(r, at).rows = Holding[On(r, at)][at.key]
    BY DEF FromPp, Reads, On
  <2>2. at.key \in Keys(On(r, at).pp)
    BY <1>2 DEF Reads
  <2> QED BY <1>2, <2>1, <2>2 DEF Holding
<1>5. FromPp(r, at).parallel <=> at.key[2] \in Parallel
  BY DEF FromPp, Parallel
<1>6. LayerAt(On(r, at), at.key[1], at.key[3]) = Where(at)
  BY <1>2 DEF LayerAt, Where
<1>7. KeyShape(at.pp, at.key)
  BY <1>1, KeyIs DEF Reads
<1>8. Where(at) \in Int
  <2>1. job \in Jobs /\ Counted(job)
    BY JobIs DEF Reads
  <2>2. at.key[3] \in Int
    BY <1>7 DEF KeyShape, Key
  <2>3. /\ Start(job, at.pp, at.key[1]) \in Int
        /\ Placed(job, at.pp, at.key[1], at.key[3]) = Start(job, at.pp, at.key[1]) + at.key[3]
    BY <2>1, <2>2, PlacedIs
  <2> QED BY <2>2, <2>3 DEF Where
<1> QED BY <1>1, <1>2, <1>3, <1>4, <1>5, <1>6, <1>7, <1>8

\* What the ranks of a tensor parallel group read
LEMMA GatheredIs ==
  ASSUME NEW r, NEW at, Reads(r, at)
  PROVE  /\ TpGathered(r, at) = [t \in 1..job.tp |-> Held(On([r EXCEPT !.tp = t - 1], at), at.key)]
         /\ \A t \in 1..job.tp : /\ Reads([r EXCEPT !.tp = t - 1], at)
                                 /\ [r EXCEPT !.tp = t - 1].tp = t - 1
                                 /\ t - 1 \in 0..job.tp - 1
<1>1. job.tp \in Nat \ {0} /\ r \in Rank
  BY JobIs DEF Reads
<1>2. ASSUME NEW t \in 1..job.tp
      PROVE  /\ Reads([r EXCEPT !.tp = t - 1], at) /\ [r EXCEPT !.tp = t - 1].tp = t - 1
             /\ t - 1 \in 0..job.tp - 1
  <2>1. t - 1 \in 0..job.tp - 1
    BY <1>1
  <2>2. [r EXCEPT !.tp = t - 1] \in Rank /\ [r EXCEPT !.tp = t - 1].tp = t - 1
    BY <1>1, <2>1 DEF Rank
  <2> QED BY <2>1, <2>2 DEF Reads
<1>3. ASSUME NEW t \in 1..job.tp
      PROVE  FromPp([r EXCEPT !.tp = t - 1], at).rows = Held(On([r EXCEPT !.tp = t - 1], at), at.key)
  <2> DEFINE q == [r EXCEPT !.tp = t - 1]
  <2>1. Reads(q, at)
    BY <1>2
  <2> HIDE DEF q
  <2>2. FromPp(q, at).rows = Held(On(q, at), at.key)
    BY <2>1, ReadsIs
  <2> QED BY <2>2 DEF q
<1>4. TpGathered(r, at) = [t \in 1..job.tp |-> Held(On([r EXCEPT !.tp = t - 1], at), at.key)]
  BY <1>3 DEF TpGathered
<1> QED BY <1>2, <1>4

-----------------------------------------------------------------------------
(* Dense tensors come together whole.                                     *)

\* The parameters that are one tensor each, cut among the ranks
OneTensor ==
  {<<"word_embeddings", "embed">>, <<"proj", "o">>, <<"fc2", "down">>,
   <<"output_layer", "lm_head">>}

\* These tensors are cut by the tensor parallel ranks.
LEMMA OneTensorCuts ==
  ASSUME Launchable(job), NEW c \in OneTensor, job.value => c[1] # "output_layer",
         NEW l \in Int, NEW e \in Int
  PROVE  /\ Cuts(Row, Tensor(c[2], l, e), job.tp, Size(c[2]) \div job.tp)
         /\ Size(c[2]) \div job.tp # 0
<1> DEFINE groups == job.kv \div job.tp
           per == job.heads \div job.kv
<1>0. SizesOk(groups, per)
  BY SizesAre
<1>1. CASE c[2] \in {"embed", "o", "gate", "up", "down"}
  <2> HIDE DEF groups, per
  <2> QED BY <1>0, <1>1, TensorDivides
<1>2. CASE c[2] = "lm_head"
  <2>1. job.head # 1
    BY <1>2 DEF Launchable, OneTensor
  <2>2. Size("lm_head") = Vocab
    BY <2>1 DEF Size
  <2>3. job.tp \in Nat \ {0} /\ Vocab \in Nat \ {0} /\ Vocab % job.tp = 0
    BY <1>0 DEF SizesOk
  <2>4. Vocab \div job.tp \in Nat \ {0} /\ Vocab = job.tp * (Vocab \div job.tp)
    BY <2>3, DivideExactly
  <2>5. "lm_head" \in PartNames
    BY DEF PartNames
  <2> HIDE DEF groups, per
  <2>6. Cuts(Row, Tensor("lm_head", l, e), job.tp, Vocab \div job.tp)
    BY <1>0, <2>2, <2>3, <2>4, <2>5, TensorCuts
  <2> QED BY <1>2, <2>2, <2>4, <2>6
<1> QED BY <1>1, <1>2 DEF OneTensor

\* Shards of one length, that n divides
Shards(s, n) == \E d \in Nat \ {0} : Grid(Row, s, job.tp, n * d)

\* The parts of a sequence, and those of two joined
LEMMA PartsGrid ==
  ASSUME NEW S, NEW s, NEW u, NEW n, NEW w, Cuts(S, s, n, w), Cuts(S, u, n, w), w # 0
  PROVE  /\ Grid(S, [i \in 1..n |-> Part(s, n, i - 1)], n, w)
         /\ Grid(S, [i \in 1..n |-> Part(s, n, i - 1) \o Part(u, n, i - 1)], n, 2 * w)
<1>0. n \in Nat \ {0} /\ w \in Nat \ {0} /\ 2 * w \in Nat \ {0} /\ w + w = 2 * w
  BY DEF Cuts
<1>1. ASSUME NEW i \in 1..n
      PROVE  OfLen(S, Part(s, n, i - 1), w) /\ OfLen(S, Part(u, n, i - 1), w)
  <2>1. i - 1 \in 0..n - 1
    BY <1>0
  <2>2. Slice(S, s, w, i - 1, Part(s, n, i - 1)) /\ Slice(S, u, w, i - 1, Part(u, n, i - 1))
    BY <2>1, PartIs
  <2> QED BY <1>0, <2>2 DEF Slice, OfLen
<1>2. ASSUME NEW i \in 1..n
      PROVE  OfLen(S, Part(s, n, i - 1) \o Part(u, n, i - 1), 2 * w)
  BY <1>0, <1>1, Append2
<1> DEFINE f == [i \in 1..n |-> Part(s, n, i - 1)]
           g == [i \in 1..n |-> Part(s, n, i - 1) \o Part(u, n, i - 1)]
<1>3. /\ DOMAIN f = 1..n /\ \A i \in 1..n : f[i] \in Seq(S) /\ Len(f[i]) = w
      /\ DOMAIN g = 1..n /\ \A i \in 1..n : g[i] \in Seq(S) /\ Len(g[i]) = 2 * w
      /\ f = [i \in 1..n |-> f[i]] /\ g = [i \in 1..n |-> g[i]]
  BY <1>1, <1>2 DEF OfLen
<1> HIDE DEF f, g
<1>4. f \in Seq(Seq(S)) /\ Len(f) = n /\ g \in Seq(Seq(S)) /\ Len(g) = n
  BY <1>0, <1>3, MakeSeq
<1>5. Grid(S, f, n, w) /\ Grid(S, g, n, 2 * w)
  BY <1>0, <1>3, <1>4 DEF Grid
<1> QED BY <1>5 DEF f, g

\* The parts that the ranks hold of one tensor are the tensor.
LEMMA GatheredOne ==
  ASSUME NEW r, NEW at, Reads(r, at), NEW c \in OneTensor, at.key[2] = c[1]
  PROVE  /\ TpConcat(c[1], TpGathered(r, at)) = <<Tensor(c[2], Where(at), -1)>>
         /\ Shards(TpGathered(r, at), 1)
<1> DEFINE s == Tensor(c[2], Where(at), -1)
           w == Size(c[2]) \div job.tp
<1>1. ASSUME NEW q, Reads(q, at)
      PROVE  Held(On(q, at), at.key) = Part(s, job.tp, q.tp)
  <2>1. /\ LayerAt(On(q, at), at.key[1], at.key[3]) = Where(at) /\ On(q, at).tp = q.tp
        /\ job.value => c[1] # "output_layer"
    BY <1>1, ReadsIs DEF Reads
  <2>2. CASE c = <<"word_embeddings", "embed">>
    BY <2>1, <2>2, HeldIs
  <2>3. CASE c = <<"proj", "o">>
    BY <2>1, <2>3, HeldIs
  <2>4. CASE c = <<"fc2", "down">>
    BY <2>1, <2>4, HeldIs
  <2>5. CASE c = <<"output_layer", "lm_head">>
    BY <2>1, <2>5, HeldIs
  <2> QED BY <2>2, <2>3, <2>4, <2>5 DEF OneTensor
<1> HIDE DEF s
<1>2. ASSUME NEW t \in 1..job.tp
      PROVE  Held(On([r EXCEPT !.tp = t - 1], at), at.key) = Part(s, job.tp, t - 1)
  <2> DEFINE q == [r EXCEPT !.tp = t - 1]
  <2>1. Reads(q, at) /\ q.tp = t - 1
    BY GatheredIs
  <2> HIDE DEF q
  <2>2. Held(On(q, at), at.key) = Part(s, job.tp, t - 1)
    BY <1>1, <2>1
  <2> QED BY <2>2 DEF q
<1>3. TpGathered(r, at) = [t \in 1..job.tp |-> Part(s, job.tp, t - 1)]
  <2>1. TpGathered(r, at)
          = [t \in 1..job.tp |-> Held(On([r EXCEPT !.tp = t - 1], at), at.key)]
    BY GatheredIs
  <2> QED BY <1>2, <2>1
<1>4. Cuts(Row, s, job.tp, w) /\ w # 0
  <2>1. Launchable(job) /\ (job.value => c[1] # "output_layer") /\ Where(at) \in Int /\ -1 \in Int
    <3>1. Launchable(job) /\ (job.value => c[1] # "output_layer")
      BY JobIs DEF Reads
    <3> QED BY <3>1, ReadsIs
  <2> QED BY <2>1, OneTensorCuts DEF s
<1>5. c[1] \notin {"qkv", "qkv_bias", "fc1", "expert_fc1"}
  BY DEF OneTensor
<1> HIDE DEF w
<1>6. TpConcat(c[1], [t \in 1..job.tp |-> Part(s, job.tp, t - 1)]) = <<s>>
  BY <1>4, <1>5, ConcatParts
<1>7. Grid(Row, [t \in 1..job.tp |-> Part(s, job.tp, t - 1)], job.tp, w)
  BY <1>4, PartsGrid
<1>8. w \in Nat \ {0} /\ 1 * w = w
  BY <1>4 DEF Cuts
<1> QED BY <1>3, <1>6, <1>7, <1>8 DEF s, Shards

\* The halves that the ranks hold of gate and up are both tensors.
LEMMA GatheredGateUp ==
  ASSUME NEW r, NEW at, Reads(r, at), at.key[2] = "fc1"
  PROVE  /\ TpConcat("fc1", TpGathered(r, at))
              = <<Tensor("gate", Where(at), -1), Tensor("up", Where(at), -1)>>
         /\ Shards(TpGathered(r, at), 2)
<1> DEFINE g == Tensor("gate", Where(at), -1)
           u == Tensor("up", Where(at), -1)
           w == Inter \div job.tp
<1>1. ASSUME NEW q, Reads(q, at)
      PROVE  Held(On(q, at), at.key) = Part(g, job.tp, q.tp) \o Part(u, job.tp, q.tp)
  <2>1. LayerAt(On(q, at), at.key[1], at.key[3]) = Where(at) /\ On(q, at).tp = q.tp
    BY <1>1, ReadsIs
  <2> QED BY <2>1, HeldIs
<1>2. Cuts(Row, g, job.tp, w) /\ Cuts(Row, u, job.tp, w) /\ w # 0
  <2>1. SizesOk(job.kv \div job.tp, job.heads \div job.kv) /\ Where(at) \in Int /\ -1 \in Int
    BY JobIs, SizesAre, ReadsIs DEF Reads
  <2>2. Size("gate") = Inter /\ Size("up") = Inter
    BY <2>1, SizeIs
  <2> QED BY <2>1, <2>2, TensorDivides
<1> HIDE DEF g, u, w
<1>3. ASSUME NEW t \in 1..job.tp
      PROVE  Held(On([r EXCEPT !.tp = t - 1], at), at.key)
               = Part(g, job.tp, t - 1) \o Part(u, job.tp, t - 1)
  <2> DEFINE q == [r EXCEPT !.tp = t - 1]
  <2>1. Reads(q, at) /\ q.tp = t - 1
    BY GatheredIs
  <2> HIDE DEF q
  <2>2. Held(On(q, at), at.key) = Part(g, job.tp, t - 1) \o Part(u, job.tp, t - 1)
    BY <1>1, <2>1
  <2> QED BY <2>2 DEF q
<1>4. TpGathered(r, at) = [t \in 1..job.tp |-> Part(g, job.tp, t - 1) \o Part(u, job.tp, t - 1)]
  <2>1. TpGathered(r, at)
          = [t \in 1..job.tp |-> Held(On([r EXCEPT !.tp = t - 1], at), at.key)]
    BY GatheredIs
  <2> QED BY <1>3, <2>1
<1>5. TpConcat("fc1", [t \in 1..job.tp |-> Part(g, job.tp, t - 1) \o Part(u, job.tp, t - 1)])
        = <<g, u>>
  BY <1>2, ConcatGateUp
<1>6. Grid(Row, [t \in 1..job.tp |-> Part(g, job.tp, t - 1) \o Part(u, job.tp, t - 1)],
           job.tp, 2 * w)
  BY <1>2, PartsGrid
<1>7. w \in Nat \ {0}
  BY <1>2 DEF Cuts
<1> QED BY <1>4, <1>5, <1>6, <1>7 DEF g, u, Shards

\* The groups a rank has of q, k and v
LEMMA QkvHeldIs ==
  ASSUME NEW parts, NEW l, NEW t
  PROVE  QkvHeld(parts, l, t)
           = QkvOf(Tensor(parts[1], l, -1), Tensor(parts[2], l, -1), Tensor(parts[3], l, -1), t)
<1> DEFINE q == Tensor(parts[1], l, -1)
           k == Tensor(parts[2], l, -1)
           w == Tensor(parts[3], l, -1)
<1>1. ASSUME NEW g PROVE Flat(QkvThree(parts, l, g)) = QkvGroup(q, k, w, g)
  <2> DEFINE three == QkvThree(parts, l, g)
  <2>1. Len(three) = 3 /\ three[1] = Part(q, job.kv, g)
        /\ three[2] = Part(k, job.kv, g) /\ three[3] = Part(w, job.kv, g)
    BY DEF QkvThree
  <2> HIDE DEF q, k, w
  <2> HIDE DEF three
  <2>2. Flat(three) = QkvGroup(q, k, w, g)
    BY <2>1, FlatThree DEF QkvGroup
  <2> QED BY <2>2 DEF three
<1> HIDE DEF q, k, w
<1>2. QkvHeld(parts, l, t) = QkvOf(q, k, w, t)
  BY <1>1 DEF QkvOf, QkvHeld
<1> QED BY <1>2 DEF q, k, w

\* The query groups that the ranks hold are q, k and v.
LEMMA GatheredQkv ==
  ASSUME NEW r, NEW at, Reads(r, at), NEW parts \in QkvParts, at.key[2] = QkvName(parts)
  PROVE  /\ TpConcat(QkvName(parts), TpGathered(r, at))
              = <<Tensor(parts[1], Where(at), -1), Tensor(parts[2], Where(at), -1),
                  Tensor(parts[3], Where(at), -1)>>
         /\ Shards(TpGathered(r, at), job.kv \div job.tp)
<1> DEFINE x == Tensor(parts[1], Where(at), -1)
           y == Tensor(parts[2], Where(at), -1)
           z == Tensor(parts[3], Where(at), -1)
           groups == job.kv \div job.tp
           per == job.heads \div job.kv
           name == QkvName(parts)
<1>1. /\ name \in {"qkv", "qkv_bias"}
      /\ name = "qkv" => parts = <<"q", "k", "v">>
      /\ name = "qkv_bias" => parts = <<"q_bias", "k_bias", "v_bias">>
  BY DEF QkvParts, QkvName
<1>2. Launchable(job) /\ Where(at) \in Int
  BY JobIs, ReadsIs DEF Reads
<1>3. QkvOk(Row, x, y, z, groups, per * HeadDim, HeadDim)
  BY <1>2, QkvTensors
<1>4. per \in Nat
  BY <1>2, SizesAre DEF SizesOk
<1> HIDE DEF name
<1>5. ASSUME NEW q, Reads(q, at)
      PROVE  Held(On(q, at), at.key) = QkvOf(x, y, z, q.tp)
  <2>1. LayerAt(On(q, at), at.key[1], at.key[3]) = Where(at) /\ On(q, at).tp = q.tp
    BY <1>5, ReadsIs
  <2>2. Held(On(q, at), at.key) = QkvHeld(parts, Where(at), q.tp)
    <3>1. CASE name = "qkv"
      <4>1. at.key[2] = "qkv"
        BY <3>1 DEF name
      <4> QED BY <1>1, <2>1, <3>1, <4>1, HeldIs
    <3>2. CASE name = "qkv_bias"
      <4>1. at.key[2] = "qkv_bias"
        BY <3>2 DEF name
      <4> QED BY <1>1, <2>1, <3>2, <4>1, HeldIs
    <3> QED BY <1>1, <3>1, <3>2
  <2> QED BY <2>2, QkvHeldIs
<1> HIDE DEF x, y, z
<1>6. ASSUME NEW t \in 1..job.tp
      PROVE  Held(On([r EXCEPT !.tp = t - 1], at), at.key) = QkvOf(x, y, z, t - 1)
  <2> DEFINE q == [r EXCEPT !.tp = t - 1]
  <2>1. Reads(q, at) /\ q.tp = t - 1
    BY GatheredIs
  <2> HIDE DEF q
  <2>2. Held(On(q, at), at.key) = QkvOf(x, y, z, t - 1)
    BY <1>5, <2>1
  <2> QED BY <2>2 DEF q
<1>7. TpGathered(r, at) = [t \in 1..job.tp |-> QkvOf(x, y, z, t - 1)]
  <2>1. TpGathered(r, at)
          = [t \in 1..job.tp |-> Held(On([r EXCEPT !.tp = t - 1], at), at.key)]
    BY GatheredIs
  <2> QED BY <1>6, <2>1
<1> DEFINE a == per * HeadDim
<1>8. QkvFits(Row, x, y, z, groups, a, HeadDim, per)
  BY <1>3, <1>4 DEF QkvFits
<1> HIDE DEF a, per, groups
<1>9. TpConcat(name, [t \in 1..job.tp |-> QkvOf(x, y, z, t - 1)]) = <<x, y, z>>
  BY <1>1, <1>8, ConcatQkv
<1>10. QkvOk(Row, x, y, z, groups, a, HeadDim) /\ job.tp \in Nat \ {0}
  BY <1>8 DEF QkvFits, QkvOk
<1> DEFINE d == (a + HeadDim) + HeadDim
           f == [t \in 1..job.tp |-> QkvOf(x, y, z, t - 1)]
<1>11. ASSUME NEW t \in 1..job.tp
       PROVE  f[t] \in Seq(Row) /\ Len(f[t]) = groups * d /\ d \in Nat \ {0}
  <2>1. t - 1 \in 0..job.tp - 1
    BY <1>10
  <2>2. /\ QkvOf(x, y, z, t - 1) \in Seq(Row) /\ d \in Nat \ {0}
        /\ Len(QkvOf(x, y, z, t - 1)) = groups * d
    BY <1>10, <2>1, QkvOfIs
  <2> QED BY <2>2
<1>12. groups * d \in Nat \ {0} /\ d \in Nat \ {0} /\ 1 \in 1..job.tp
  <2>1. 1 \in 1..job.tp
    BY <1>10
  <2>2. d \in Nat \ {0}
    BY <1>11, <2>1
  <2> HIDE DEF d
  <2> QED BY <1>10, <2>1, <2>2 DEF QkvOk
<1> HIDE DEF d
<1>13. DOMAIN f = 1..job.tp /\ f = [t \in 1..job.tp |-> f[t]]
  OBVIOUS
<1> HIDE DEF f
<1>14. f \in Seq(Seq(Row)) /\ Len(f) = job.tp
  <2>1. DOMAIN f = 1..job.tp /\ job.tp \in Nat
    BY ONLY <1>10, <1>13
  <2>2. \A t \in 1..job.tp : f[t] \in Seq(Row)
    BY ONLY <1>11
  <2>3. f \in [1..job.tp -> Seq(Row)]
    BY ONLY <1>13, <2>2
  <2> QED BY ONLY <2>1, <2>3, MakeSeq
<1>15. Grid(Row, f, job.tp, groups * d)
  BY <1>10, <1>11, <1>12, <1>14 DEF Grid
<1>16. Shards(f, groups)
  BY <1>12, <1>15 DEF Shards
<1> QED BY <1>7, <1>9, <1>16 DEF name, x, y, z, groups, f

-----------------------------------------------------------------------------
(* The grid of the experts.                                               *)

\* The number of a rank in its stage, and how many there are
Number(r) == (r.dp * job.cp + r.cp) * job.tp + r.tp
InStage == (job.dp * job.cp) * job.tp

\* The ranks of a stage are numbered from 0.
LEMMA NumberIs ==
  ASSUME job \in Jobs, NEW r \in Rank
  PROVE  Number(r) \in 0..InStage - 1
<1>0. /\ job.tp \in Nat \ {0} /\ job.cp \in Nat \ {0} /\ job.dp \in Nat \ {0}
      /\ r.tp \in 0..job.tp - 1 /\ r.cp \in 0..job.cp - 1 /\ r.dp \in 0..job.dp - 1
  BY JobIs DEF Rank
<1> DEFINE i == r.dp * job.cp + r.cp
           n == job.dp * job.cp
<1>1. n \in Nat /\ i \in 0..n - 1
  <2> DEFINE a == r.dp * job.cp
  <2>1. r.cp + 1 \in 1..job.cp
    BY <1>0
  <2>2. a + (r.cp + 1) \in 1..n /\ a \in Nat
    BY <1>0, <2>1, PartPlace
  <2>3. n \in Nat
    BY <1>0
  <2> HIDE DEF a, n
  <2>4. a + r.cp \in 0..n - 1
    BY <1>0, <2>2, <2>3
  <2> QED BY <2>3, <2>4 DEF a
<1> HIDE DEF i, n
<1>2. i * job.tp + r.tp \in 0..n * job.tp - 1
  <2> DEFINE a == i * job.tp
             b == n * job.tp
  <2>1. r.tp + 1 \in 1..job.tp
    BY <1>0
  <2>2. a + (r.tp + 1) \in 1..b /\ a \in Nat
    BY <1>0, <1>1, <2>1, PartPlace
  <2>3. b \in Nat
    BY <1>0, <1>1
  <2> HIDE DEF a, b
  <2>4. a + r.tp \in 0..b - 1
    BY <1>0, <2>2, <2>3
  <2> QED BY <2>4 DEF a, b
<1> QED BY <1>2 DEF Number, InStage, i, n

\* A number below n * w with its division by w and its rest
LEMMA Digits ==
  ASSUME NEW n \in Nat, NEW w \in Nat, NEW m \in 0..n * w - 1
  PROVE  \E i \in 0..n - 1, j \in 0..w - 1 : m = i * w + j
<1>1. m + 1 \in 1..n * w
  <2> DEFINE b == n * w
  <2>1. b \in Nat /\ m \in 0..b - 1
    OBVIOUS
  <2> HIDE DEF b
  <2>2. m + 1 \in 1..b
    BY <2>1
  <2> QED BY <2>2 DEF b
<1>2. PICK i \in 0..n - 1, j \in 1..w : m + 1 = i * w + j
  BY <1>1, PlacePart
<1>3. m = i * w + (j - 1) /\ j - 1 \in 0..w - 1
  <2> DEFINE a == i * w
  <2>1. a \in Int /\ m \in Int /\ m + 1 = a + j
    BY <1>2
  <2> HIDE DEF a
  <2>2. m = a + (j - 1) /\ j - 1 \in 0..w - 1
    BY <2>1
  <2> QED BY <2>2 DEF a
<1> QED BY <1>3

\* Every number is that of a rank, in every stage.
LEMMA RankNumbered ==
  ASSUME job \in Jobs, NEW p \in 0..job.pp - 1, NEW m \in 0..InStage - 1
  PROVE  \E s \in Rank : s.pp = p /\ Number(s) = m
<1>0. job.tp \in Nat \ {0} /\ job.cp \in Nat \ {0} /\ job.dp \in Nat \ {0}
  BY JobIs
<1> DEFINE n == job.dp * job.cp
<1>1. n \in Nat /\ job.tp \in Nat
  BY <1>0
<1>2. \E i \in 0..n - 1, t \in 0..job.tp - 1 : m = i * job.tp + t
  <2>1. m \in 0..n * job.tp - 1
    BY DEF InStage
  <2> HIDE DEF n
  <2> QED BY <1>1, <2>1, Digits
<1>3. PICK i \in 0..n - 1, t \in 0..job.tp - 1 : m = i * job.tp + t
  BY <1>2
<1>4. PICK d \in 0..job.dp - 1, c \in 0..job.cp - 1 : i = d * job.cp + c
  <2>1. job.dp \in Nat /\ job.cp \in Nat
    BY <1>0
  <2> QED BY <2>1, Digits
<1> DEFINE s == [tp |-> t, pp |-> p, dp |-> d, cp |-> c]
<1>5. s \in Rank /\ s.pp = p /\ s.tp = t /\ s.dp = d /\ s.cp = c
  BY DEF Rank
<1> HIDE DEF s
<1>6. Number(s) = m
  BY <1>3, <1>4, <1>5 DEF Number
<1> QED BY <1>5, <1>6

\* A number by its place in the grid of the experts
InGrid(m, etp, ep, x, f, h) ==
  /\ etp \in Nat \ {0} /\ ep \in Nat \ {0} /\ x \in Nat
  /\ f \in 0..ep - 1 /\ h \in 0..etp - 1
  /\ m = (x * ep + f) * etp + h

\* A number has its place in the grid of the experts.
LEMMA GridAt ==
  ASSUME NEW etp, NEW ep, NEW x, NEW f, NEW h, NEW m, InGrid(m, etp, ep, x, f, h)
  PROVE  /\ m \in Nat /\ m % etp = h /\ (m \div etp) % ep = f
         /\ m \div (etp * ep) = x
<1>0. /\ etp \in Nat \ {0} /\ ep \in Nat \ {0} /\ x \in Nat
      /\ f \in 0..ep - 1 /\ h \in 0..etp - 1
  BY DEF InGrid
<1> DEFINE a == x * ep + f
<1>1. a \in Nat
  BY <1>0, MulPos
<1>2. a \div ep = x /\ a % ep = f
  BY <1>0, DivIs
<1> HIDE DEF a
<1>3. m = a * etp + h
  BY DEF a, InGrid
<1>4. m \div etp = a /\ m % etp = h
  BY <1>0, <1>1, <1>3, DivIs
<1>5. m \in Nat
  <2>1. a * etp \in Nat
    BY <1>0, <1>1, MulPos
  <2> DEFINE b == a * etp
  <2> HIDE DEF b
  <2>2. b + h \in Nat
    BY <1>0, <2>1 DEF b
  <2> QED BY <1>3, <2>2 DEF b
<1>6. (m \div etp) \div ep = m \div (etp * ep)
  BY <1>0, <1>5, DivDiv
<1> QED BY <1>2, <1>4, <1>5, <1>6

\* Rank s is part h of the rank f of experts that shares the replica of r.
IsPeer(s, r, f, h) ==
  /\ s.pp = r.pp
  /\ ExpertSeat(s) = [ExpertSeat(r) EXCEPT !.ep = f, !.etp = h]

\* The ranks of a stage are all the seats of the experts, in every replica.
LEMMA PeerIs ==
  ASSUME job \in Jobs, job.experts > 0, NEW r \in Rank,
         NEW f \in 0..job.ep - 1, NEW h \in 0..job.etp - 1
  PROVE  \E s \in Rank : IsPeer(s, r, f, h)
<1>0. /\ job.ep \in Nat \ {0} /\ job.etp \in Nat \ {0} /\ job.tp \in Nat \ {0}
      /\ job.cp \in Nat \ {0} /\ job.dp \in Nat \ {0}
      /\ InStage % (job.etp * job.ep) = 0
  BY JobIs DEF Launchable, JobType, Positive, InStage
<1> DEFINE d == job.etp * job.ep
           k == InStage \div d
           n == Number(r)
           x == n \div d
           m == (x * job.ep + f) * job.etp + h
<1>1. d \in Nat \ {0} /\ InStage \in Nat \ {0}
  BY <1>0 DEF InStage
<1>2. InStage = d * k /\ k \in Nat \ {0}
  <2> HIDE DEF d
  <2>1. InStage % d = 0
    BY <1>0 DEF d
  <2> QED BY <1>1, <2>1, DivideExactly
<1>3. n \in 0..InStage - 1
  BY NumberIs
<1> HIDE DEF n
<1>4. x \in 0..k - 1
  <2> HIDE DEF d, k
  <2>1. InStage = k * d
    BY <1>1, <1>2
  <2>2. n \in Nat /\ n < k * d
    BY <1>1, <1>3, <2>1
  <2>3. k \in Nat
    BY <1>2
  <2>4. n \div d < k
    BY <1>1, <2>2, <2>3, DivBound
  <2>5. n \div d \in Nat
    BY <1>1, <2>2, DivMod
  <2> QED BY <1>2, <2>4, <2>5
<1> HIDE DEF x, k
<1>5. x \in Nat /\ k \in Nat
  BY <1>2, <1>4
<1>6. m \in 0..InStage - 1
  <2> DEFINE a == x * job.ep + f
             b == k * job.ep
  <2>1. b \in Nat /\ a \in 0..b - 1
    <3> DEFINE y == x * job.ep
    <3>1. f + 1 \in 1..job.ep
      BY <1>0
    <3>2. y + (f + 1) \in 1..b /\ y \in Nat
      BY <1>0, <1>4, <1>5, <3>1, PartPlace
    <3>3. b \in Nat
      BY <1>0, <1>5
    <3> HIDE DEF y, b
    <3>4. y + f \in 0..b - 1
      BY <1>0, <3>2, <3>3
    <3> QED BY <3>3, <3>4 DEF y
  <2>2. b * job.etp = InStage
    <3>1. (k * job.ep) * job.etp = (job.etp * job.ep) * k
      BY <1>0, <1>5
    <3> QED BY <1>2, <3>1
  <2> HIDE DEF a, b
  <2> DEFINE y == a * job.etp
             z == b * job.etp
  <2>3. h + 1 \in 1..job.etp
    BY <1>0
  <2>4. y + (h + 1) \in 1..z /\ y \in Nat
    BY <1>0, <2>1, <2>3, PartPlace
  <2>5. z = InStage
    BY <2>2
  <2> HIDE DEF y, z
  <2>6. y + h \in 0..InStage - 1
    BY <1>0, <1>1, <2>4, <2>5
  <2> QED BY <2>6 DEF y, a
<1> HIDE DEF m
<1>7. /\ m % job.etp = h /\ (m \div job.etp) % job.ep = f
      /\ m \div (job.etp * job.ep) = x
  <2>1. InGrid(m, job.etp, job.ep, x, f, h)
    BY <1>0, <1>5 DEF m, InGrid
  <2> QED BY <2>1, GridAt
<1>8. r.pp \in 0..job.pp - 1
  BY DEF Rank
<1>9. PICK s \in Rank : s.pp = r.pp /\ Number(s) = m
  BY <1>6, <1>8, RankNumbered
<1>10. ExpertSeat(s) = [etp |-> h, ep |-> f, edp |-> x]
  BY <1>7, <1>9 DEF ExpertSeat, Number
<1> DEFINE u == n % job.etp
           y == (n \div job.etp) % job.ep
<1>11. ExpertSeat(r) = [etp |-> u, ep |-> y, edp |-> x]
  BY DEF ExpertSeat, Number, n, x, d
<1> HIDE DEF u, y
<1>12. [ExpertSeat(r) EXCEPT !.ep = f, !.etp = h] = [etp |-> h, ep |-> f, edp |-> x]
  <2> DEFINE seat == ExpertSeat(r)
  <2>1. seat = [etp |-> u, ep |-> y, edp |-> x]
    BY <1>11
  <2> HIDE DEF seat
  <2> DEFINE t == [seat EXCEPT !.ep = f]
  <2>2. t = [etp |-> u, ep |-> f, edp |-> x]
    BY ONLY <2>1
  <2>3. [seat EXCEPT !.ep = f, !.etp = h] = [t EXCEPT !.etp = h]
    BY ONLY <2>1
  <2> HIDE DEF t
  <2>4. [t EXCEPT !.etp = h] = [etp |-> h, ep |-> f, edp |-> x]
    BY ONLY <2>2
  <2> QED BY <2>3, <2>4 DEF seat
<1> QED BY <1>9, <1>10, <1>12 DEF IsPeer

-----------------------------------------------------------------------------
(* The tensors of an expert come together whole.                          *)

\* The tensors of the checkpoint that a parameter becomes
TensorsOf(name, l, e) ==
  [n \in 1..Len(HfParts(name)) |-> Tensor(HfParts(name)[n], l, e)]

\* Part h of the tensors of an expert
ExpertShard(name, l, e, h) ==
  IF name = "expert_fc1"
    THEN Part(Tensor("gate", l, e), job.etp, h) \o Part(Tensor("up", l, e), job.etp, h)
    ELSE Part(Tensor("down", l, e), job.etp, h)

\* The expert under a key of rank r
ExpertAt(r, at) == ExpertSeat(r).ep * ExpertsPerRank + at.key[4]

\* What is held of an expert is its part of the tensors of the expert.
LEMMA HeldOfExpert ==
  ASSUME NEW r, NEW key, key[2] \in ExpertNames
  PROVE  Held(r, key) =
           ExpertShard(key[2], LayerAt(r, key[1], key[3]),
                       ExpertSeat(r).ep * ExpertsPerRank + key[4], ExpertSeat(r).etp)
<1>1. CASE key[2] = "expert_fc1"
  BY <1>1 DEF Held, LayerAt, ExpertShard
<1>2. CASE key[2] = "expert_fc2"
  BY <1>2 DEF Held, LayerAt, ExpertShard
<1> QED BY <1>1, <1>2 DEF ExpertNames

\* ...and is what a rank of its own expert reads of it.
LEMMA ExpertHeld ==
  ASSUME NEW r, NEW at, Reads(r, at), at.key[2] \in ExpertNames
  PROVE  /\ FromPp(r, at).rows
              = ExpertShard(at.key[2], Where(at), ExpertAt(r, at), ExpertSeat(r).etp)
         /\ FromPp(r, at).rows = Held(On(r, at), at.key)
<1> DEFINE q == On(r, at)
<1>1. /\ LayerAt(q, at.key[1], at.key[3]) = Where(at) /\ ExpertSeat(q) = ExpertSeat(r)
      /\ FromPp(r, at).rows = Held(q, at.key)
  BY ReadsIs
<1> HIDE DEF q
<1>2. Held(q, at.key) =
        ExpertShard(at.key[2], LayerAt(q, at.key[1], at.key[3]),
                    ExpertSeat(q).ep * ExpertsPerRank + at.key[4], ExpertSeat(q).etp)
  BY HeldOfExpert
<1> QED BY <1>1, <1>2 DEF ExpertAt, q

\* The parts of an expert are its tensors.
LEMMA ExpertJoined ==
  ASSUME Launchable(job), job.experts > 0, NEW name \in ExpertNames, NEW l \in Int, NEW e \in Int
  PROVE  TpConcat(name, [h \in 1..job.etp |-> ExpertShard(name, l, e, h - 1)])
           = TensorsOf(name, l, e)
<1> DEFINE w == Inter \div job.etp
           g == Tensor("gate", l, e)
           u == Tensor("up", l, e)
           d == Tensor("down", l, e)
<1>1. SizesOk(job.kv \div job.tp, job.heads \div job.kv)
  BY SizesAre
<1>2. /\ job.etp \in Nat \ {0} /\ Inter \in Nat \ {0} /\ Inter % job.etp = 0
      /\ Size("gate") = Inter /\ Size("up") = Inter /\ Size("down") = Inter
  BY <1>1, SizeIs DEF SizesOk, Launchable, JobType, Positive
<1>3. w \in Nat \ {0} /\ Inter = job.etp * w
  BY <1>2, DivideExactly
<1>4. Cuts(Row, g, job.etp, w) /\ Cuts(Row, u, job.etp, w) /\ Cuts(Row, d, job.etp, w)
  <2>1. "gate" \in PartNames /\ "up" \in PartNames /\ "down" \in PartNames
    BY DEF PartNames
  <2> HIDE DEF w
  <2> QED BY <1>1, <1>2, <1>3, <2>1, TensorCuts
<1>5. CASE name = "expert_fc1"
  <2>1. HfParts(name) = <<"gate", "up">>
    BY <1>5 DEF HfParts
  <2>2. TensorsOf(name, l, e) = <<g, u>>
    BY <2>1 DEF TensorsOf
  <2>3. [h \in 1..job.etp |-> ExpertShard(name, l, e, h - 1)]
          = [h \in 1..job.etp |-> Part(g, job.etp, h - 1) \o Part(u, job.etp, h - 1)]
    BY <1>5 DEF ExpertShard
  <2>4. w # 0
    BY <1>3
  <2> HIDE DEF g, u, w
  <2>5. TpConcat(name, [h \in 1..job.etp |-> Part(g, job.etp, h - 1) \o Part(u, job.etp, h - 1)])
          = <<g, u>>
    BY <1>4, <1>5, <2>4, ConcatGateUp
  <2> QED BY <2>2, <2>3, <2>5
<1>6. CASE name = "expert_fc2"
  <2>1. HfParts(name) = <<"down">>
    BY <1>6 DEF HfParts
  <2>2. TensorsOf(name, l, e) = <<d>>
    BY <2>1 DEF TensorsOf
  <2>3. [h \in 1..job.etp |-> ExpertShard(name, l, e, h - 1)]
          = [h \in 1..job.etp |-> Part(d, job.etp, h - 1)]
    BY <1>6 DEF ExpertShard
  <2> HIDE DEF d, w
  <2>4. name \notin {"qkv", "qkv_bias", "fc1", "expert_fc1"}
    BY <1>6
  <2>5. TpConcat(name, [h \in 1..job.etp |-> Part(d, job.etp, h - 1)]) = <<d>>
    BY <1>4, <2>4, ConcatParts
  <2> QED BY <2>2, <2>3, <2>5
<1> QED BY <1>5, <1>6 DEF ExpertNames

\* A rank with parameters of experts is of a model that has some.
LEMMA HasExperts ==
  ASSUME NEW r, NEW at, Reads(r, at), at.key[2] \in ExpertNames
  PROVE  /\ job \in Jobs /\ Launchable(job) /\ job.experts > 0 /\ at.key[4] \in Nat
         /\ ExpertsPerRank \in Nat /\ job.ep \in Nat \ {0} /\ job.etp \in Nat \ {0}
<1>1. /\ job \in Jobs /\ Launchable(job) /\ job.experts \in Nat /\ job.ep \in Nat \ {0}
      /\ ExpertsPerRank \in Nat
  BY JobIs DEF Reads, ExpertsPerRank
<1>2. at.key[4] \in 0..ExpertsPerRank - 1
  BY ReadsIs DEF KeyShape, ExpertsPerRank
<1>3. job.experts > 0
  <2>1. SUFFICES ASSUME job.experts = 0 PROVE FALSE
    BY <1>1
  <2>2. ExpertsPerRank = 0
    BY <1>1, <2>1 DEF ExpertsPerRank
  <2> QED BY <1>2, <2>2
<1>4. job.etp \in Nat \ {0}
  BY <1>1 DEF Launchable, JobType, Positive
<1> QED BY <1>1, <1>2, <1>3, <1>4

\* The tensors of the expert of each rank of experts
LEMMA GatheredExperts ==
  ASSUME NEW r, NEW at, Reads(r, at), at.key[2] \in ExpertNames, NEW f \in 1..job.ep
  PROVE  TpConcat(at.key[2], ExpertsGathered(r, at)[f])
           = TensorsOf(at.key[2], Where(at), GlobalExpert(f - 1, at.key[4]))
<1> DEFINE Peer(ep, etp) ==
             CHOOSE s \in Rank :
               /\ s.pp = r.pp
               /\ ExpertSeat(s) = [ExpertSeat(r) EXCEPT !.ep = ep, !.etp = etp]
           e == GlobalExpert(f - 1, at.key[4])
<1>0. /\ job \in Jobs /\ Launchable(job) /\ job.experts > 0 /\ at.key[4] \in Nat
      /\ ExpertsPerRank \in Nat /\ job.ep \in Nat \ {0} /\ job.etp \in Nat \ {0}
  BY HasExperts
<1>1. f - 1 \in 0..job.ep - 1
  BY <1>0
<1>2. e = (f - 1) * ExpertsPerRank + at.key[4] /\ e \in Int
  <2> DEFINE x == f - 1
             y == ExpertsPerRank
  <2>1. x \in Nat /\ y \in Nat
    BY <1>0, <1>1
  <2>2. e = y * x + at.key[4]
    BY DEF GlobalExpert
  <2> HIDE DEF x, y, e
  <2>3. y * x = x * y /\ x * y \in Nat
    BY <2>1
  <2>4. e = x * y + at.key[4]
    BY <2>2, <2>3
  <2>5. x * y + at.key[4] \in Int
    BY <1>0, <2>3
  <2> QED BY <2>4, <2>5 DEF x, y
<1> HIDE DEF e
<1>3. ASSUME NEW h \in 1..job.etp
      PROVE  /\ Reads(Peer(f - 1, h - 1), at)
             /\ ExpertSeat(Peer(f - 1, h - 1)).ep = f - 1
             /\ ExpertSeat(Peer(f - 1, h - 1)).etp = h - 1
  <2> DEFINE q == Peer(f - 1, h - 1)
  <2>1. h - 1 \in 0..job.etp - 1
    BY <1>0
  <2>2. r \in Rank
    BY DEF Reads
  <2>3. \E s \in Rank : IsPeer(s, r, f - 1, h - 1)
    BY <1>0, <1>1, <2>1, <2>2, PeerIs
  <2>4. q \in Rank /\ ExpertSeat(q) = [ExpertSeat(r) EXCEPT !.ep = f - 1, !.etp = h - 1]
    BY <2>3 DEF IsPeer
  <2> HIDE DEF q
  <2>5. ExpertSeat(q).ep = f - 1 /\ ExpertSeat(q).etp = h - 1
    BY <2>4 DEF ExpertSeat
  <2>6. Reads(q, at)
    BY <2>4 DEF Reads
  <2> QED BY <2>5, <2>6 DEF q
<1>4. ExpertsGathered(r, at)[f]
        = [h \in 1..job.etp |-> FromPp(Peer(f - 1, h - 1), at).rows]
  BY DEF ExpertsGathered
<1> HIDE DEF Peer
<1>5. ASSUME NEW h \in 1..job.etp
      PROVE  FromPp(Peer(f - 1, h - 1), at).rows = ExpertShard(at.key[2], Where(at), e, h - 1)
  <2> DEFINE q == Peer(f - 1, h - 1)
  <2>1. Reads(q, at) /\ ExpertSeat(q).ep = f - 1 /\ ExpertSeat(q).etp = h - 1
    BY <1>3
  <2> HIDE DEF q
  <2>2. FromPp(q, at).rows
          = ExpertShard(at.key[2], Where(at), ExpertAt(q, at), ExpertSeat(q).etp)
    BY <2>1, ExpertHeld
  <2>3. ExpertAt(q, at) = e
    BY <1>2, <2>1 DEF ExpertAt
  <2> QED BY <2>1, <2>2, <2>3 DEF q
<1>6. ExpertsGathered(r, at)[f]
        = [h \in 1..job.etp |-> ExpertShard(at.key[2], Where(at), e, h - 1)]
  BY <1>4, <1>5
<1>7. Where(at) \in Int
  BY ReadsIs
<1>8. TpConcat(at.key[2], [h \in 1..job.etp |-> ExpertShard(at.key[2], Where(at), e, h - 1)])
        = TensorsOf(at.key[2], Where(at), e)
  BY <1>0, <1>2, <1>7, ExpertJoined
<1> QED BY <1>6, <1>8 DEF e

\* The tensors of an expert that no rank of experts shares
LEMMA GatheredAlone ==
  ASSUME NEW r, NEW at, Reads(r, at), at.key[2] \in ExpertNames, job.ep = 1, Feedable(job)
  PROVE  TpConcat(at.key[2], TpGathered(r, at))
           = TensorsOf(at.key[2], Where(at), at.key[4])
<1>0. /\ job \in Jobs /\ Launchable(job) /\ job.experts > 0 /\ at.key[4] \in Nat
      /\ ExpertsPerRank \in Nat /\ job.etp = job.tp
  BY HasExperts DEF Feedable
<1>1. job.tp \in Nat \ {0} /\ job.cp \in Nat \ {0}
  BY <1>0, JobIs
<1>2. ASSUME NEW t \in 1..job.tp
      PROVE  FromPp([r EXCEPT !.tp = t - 1], at).rows
               = ExpertShard(at.key[2], Where(at), at.key[4], t - 1)
  <2> DEFINE q == [r EXCEPT !.tp = t - 1]
             b == q.dp * job.cp + q.cp
             n == b * job.tp + q.tp
  <2>1. Reads(q, at) /\ q.tp = t - 1 /\ t - 1 \in 0..job.tp - 1
    BY GatheredIs
  <2> HIDE DEF q
  <2>2. b \in Nat
    <3>1. q.dp \in Nat /\ q.cp \in Nat
      BY <1>0, <2>1, JobIs DEF Reads, Rank
    <3>2. q.dp * job.cp \in Nat
      BY <1>1, <3>1, MulPos
    <3> QED BY <3>1, <3>2
  <2>3. n % job.tp = t - 1 /\ n \in Nat /\ n \div job.tp = b
    <3> HIDE DEF b
    <3>1. b * job.tp \in Nat
      BY <1>1, <2>2, MulPos
    <3>2. job.tp \in Nat \ {0} /\ q.tp \in 0..job.tp - 1
      BY <1>1, <2>1
    <3>3. (b * job.tp + q.tp) % job.tp = q.tp /\ (b * job.tp + q.tp) \div job.tp = b
      BY ONLY <2>2, <3>2, DivIs
    <3> DEFINE x == b * job.tp
    <3> HIDE DEF x
    <3>4. x + q.tp \in Nat
      BY <1>1, <2>1, <3>1 DEF x
    <3> QED BY <2>1, <3>3, <3>4 DEF x
  <2>4. b % 1 = 0
    <3> HIDE DEF b
    <3> QED BY <2>2
  <2> HIDE DEF b
  <2>5. ExpertSeat(q).etp = t - 1 /\ ExpertSeat(q).ep = 0
    <3>1. ExpertSeat(q).etp = n % job.etp /\ ExpertSeat(q).ep = (n \div job.etp) % job.ep
      BY DEF ExpertSeat, b
    <3> HIDE DEF n
    <3> QED BY <1>0, <2>3, <2>4, <3>1
  <2>6. ExpertAt(q, at) = at.key[4]
    <3>1. 0 * ExpertsPerRank = 0
      BY <1>0
    <3> QED BY <1>0, <2>5, <3>1 DEF ExpertAt
  <2>7. FromPp(q, at).rows
          = ExpertShard(at.key[2], Where(at), ExpertAt(q, at), ExpertSeat(q).etp)
    BY <2>1, ExpertHeld
  <2> QED BY <2>5, <2>6, <2>7 DEF q
<1>3. TpGathered(r, at)
        = [h \in 1..job.etp |-> ExpertShard(at.key[2], Where(at), at.key[4], h - 1)]
  BY <1>0, <1>2 DEF TpGathered
<1>4. Where(at) \in Int /\ at.key[4] \in Int
  BY <1>0, ReadsIs
<1>5. TpConcat(at.key[2], [h \in 1..job.etp |-> ExpertShard(at.key[2], Where(at), at.key[4], h - 1)])
        = TensorsOf(at.key[2], Where(at), at.key[4])
  BY <1>0, <1>4, ExpertJoined
<1> QED BY <1>3, <1>5

-----------------------------------------------------------------------------
(* Under the names of the checkpoint.                                     *)

\* An entry of the checkpoint with its rows
Entry == PartNames \X Int \X Int
PairOf(e) == <<e, Tensor(e[1], e[2], e[3])>>
PairsOf(E) == {PairOf(e) : e \in E}
Good == PairsOf(Entry)

\* The entries that a parameter becomes
PartsAt(name, l, e) == {<<HfParts(name)[n], l, e>> : n \in 1..Len(HfParts(name))}

\* A parameter becomes one, two or three entries.
LEMMA HfPartsIs ==
  ASSUME NEW name \in Names
  PROVE  /\ HfParts(name) \in Seq(PartNames) /\ Len(HfParts(name)) \in {1, 2, 3}
<1>1. CASE name \in {"qkv", "qkv_bias"}
  <2>1. HfParts(name) \in {<<"q", "k", "v">>, <<"q_bias", "k_bias", "v_bias">>}
    BY <1>1 DEF HfParts
  <2>2. {"q", "k", "v", "q_bias", "k_bias", "v_bias"} \subseteq PartNames
    BY DEF PartNames
  <2>3. <<"q", "k", "v">> \in Seq(PartNames) /\ <<"q_bias", "k_bias", "v_bias">> \in Seq(PartNames)
    BY <2>2
  <2>4. Len(<<"q", "k", "v">>) = 3 /\ Len(<<"q_bias", "k_bias", "v_bias">>) = 3
    OBVIOUS
  <2> QED BY <2>1, <2>3, <2>4
<1>2. CASE name \in {"fc1", "expert_fc1"}
  <2>1. HfParts(name) = <<"gate", "up">>
    BY <1>2 DEF HfParts
  <2> QED BY <2>1 DEF PartNames
<1>3. CASE name \notin {"qkv", "qkv_bias", "fc1", "expert_fc1"}
  <2>1. PICK part \in PartNames : HfParts(name) = <<part>>
    BY <1>3 DEF HfParts, Names, PartNames
  <2> QED BY <2>1
<1> QED BY <1>1, <1>2, <1>3

\* Converted lists the entries of a parameter with the tensors of each.
LEMMA ConvertedIs ==
  ASSUME NEW name \in Names, NEW l \in Int, NEW e \in Int
  PROVE  Lists(Good, Converted(name, l, e, TensorsOf(name, l, e)).pairs,
               PairsOf(PartsAt(name, l, e)))
<1> DEFINE parts == HfParts(name)
           m == Len(parts)
           ts == TensorsOf(name, l, e)
           s == [n \in 1..m |-> <<<<parts[n], l, e>>, ts[n]>>]
<1>1. parts \in Seq(PartNames) /\ m \in {1, 2, 3}
  BY HfPartsIs
<1>2. Len(ts) = m /\ \A n \in 1..m : ts[n] = Tensor(parts[n], l, e)
  BY <1>1 DEF TensorsOf
<1> HIDE DEF ts
<1>3. Min({m, Len(ts)}) = m
  BY <1>1, <1>2, MinOf
<1>4. Converted(name, l, e, ts).pairs = s
  BY <1>3 DEF Converted
<1>5. ASSUME NEW n \in 1..m
      PROVE  /\ s[n] = PairOf(<<parts[n], l, e>>) /\ <<parts[n], l, e>> \in Entry
             /\ s[n] \in Good
  <2>1. parts[n] \in PartNames
    BY <1>1
  <2> HIDE DEF parts
  <2>2. <<parts[n], l, e>> \in Entry
    BY <2>1 DEF Entry
  <2>3. s[n] = PairOf(<<parts[n], l, e>>)
    BY <1>2 DEF PairOf
  <2> QED BY <2>2, <2>3 DEF Good, PairsOf
<1>6. s \in Seq(Good)
  <2>1. DOMAIN s = 1..m /\ s = [n \in 1..m |-> s[n]]
    OBVIOUS
  <2>2. \A n \in 1..m : s[n] \in Good
    BY <1>5
  <2>3. m \in Nat
    BY <1>1
  <2> HIDE DEF s
  <2> QED BY <2>1, <2>2, <2>3, MakeSeq
<1>7. ToSet(s) = PairsOf(PartsAt(name, l, e))
  <2>1. ToSet(s) = {s[n] : n \in 1..m}
    BY DEF ToSet
  <2>2. PartsAt(name, l, e) = {<<parts[n], l, e>> : n \in 1..m}
    BY DEF PartsAt
  <2> HIDE DEF s
  <2> QED BY <1>5, <2>1, <2>2 DEF PairsOf
<1> QED BY <1>4, <1>6, <1>7 DEF Lists, ts

\* The experts whose tensors a parameter becomes, and their entries
ExpertsAt(at) ==
  IF at.key[2] \in ExpertNames
    THEN {GlobalExpert(i, at.key[4]) : i \in 0..job.ep - 1} ELSE {-1}
EntriesAt(at) == UNION {PartsAt(at.key[2], Where(at), e) : e \in ExpertsAt(at)}

\* Into how many pieces of one length a shard of each kind is taken apart
Pieces(name) ==
  IF name \in {"qkv", "qkv_bias"} THEN job.kv \div job.tp
  ELSE IF name = "fc1" THEN 2 ELSE 1

\* The tensors of a parameter that is not an expert's are put together whole.
LEMMA GatheredDense ==
  ASSUME NEW r, NEW at, Reads(r, at), at.key[2] \in Parallel, at.key[2] \notin ExpertNames
  PROVE  /\ TpConcat(at.key[2], TpGathered(r, at)) = TensorsOf(at.key[2], Where(at), -1)
         /\ Shards(TpGathered(r, at), Pieces(at.key[2]))
<1> DEFINE name == at.key[2]
           l == Where(at)
<1>1. CASE name = "word_embeddings"
  <2>1. <<"word_embeddings", "embed">> \in OneTensor /\ HfParts(name) = <<"embed">>
    BY <1>1 DEF OneTensor, HfParts
  <2>2. TpConcat("word_embeddings", TpGathered(r, at)) = <<Tensor("embed", l, -1)>>
        /\ Shards(TpGathered(r, at), 1)
    BY <1>1, <2>1, GatheredOne
  <2> QED BY <1>1, <2>1, <2>2 DEF TensorsOf, Pieces
<1>2. CASE name = "proj"
  <2>1. <<"proj", "o">> \in OneTensor /\ HfParts(name) = <<"o">>
    BY <1>2 DEF OneTensor, HfParts
  <2>2. TpConcat("proj", TpGathered(r, at)) = <<Tensor("o", l, -1)>>
        /\ Shards(TpGathered(r, at), 1)
    BY <1>2, <2>1, GatheredOne
  <2> QED BY <1>2, <2>1, <2>2 DEF TensorsOf, Pieces
<1>3. CASE name = "fc2"
  <2>1. <<"fc2", "down">> \in OneTensor /\ HfParts(name) = <<"down">>
    BY <1>3 DEF OneTensor, HfParts
  <2>2. TpConcat("fc2", TpGathered(r, at)) = <<Tensor("down", l, -1)>>
        /\ Shards(TpGathered(r, at), 1)
    BY <1>3, <2>1, GatheredOne
  <2> QED BY <1>3, <2>1, <2>2 DEF TensorsOf, Pieces
<1>4. CASE name = "output_layer"
  <2>1. <<"output_layer", "lm_head">> \in OneTensor /\ HfParts(name) = <<"lm_head">>
    BY <1>4 DEF OneTensor, HfParts
  <2>2. TpConcat("output_layer", TpGathered(r, at)) = <<Tensor("lm_head", l, -1)>>
        /\ Shards(TpGathered(r, at), 1)
    BY <1>4, <2>1, GatheredOne
  <2> QED BY <1>4, <2>1, <2>2 DEF TensorsOf, Pieces
<1>5. CASE name = "fc1"
  <2>1. HfParts(name) = <<"gate", "up">>
    BY <1>5 DEF HfParts
  <2>2. TpConcat("fc1", TpGathered(r, at)) = <<Tensor("gate", l, -1), Tensor("up", l, -1)>>
        /\ Shards(TpGathered(r, at), 2)
    BY <1>5, GatheredGateUp
  <2> QED BY <1>5, <2>1, <2>2 DEF TensorsOf, Pieces
<1>6. CASE name = "qkv"
  <2>1. HfParts(name) = <<"q", "k", "v">>
    BY <1>6 DEF HfParts
  <2> DEFINE parts == <<"q", "k", "v">>
  <2>2. parts \in QkvParts /\ QkvName(parts) = "qkv"
    BY DEF QkvParts, QkvName
  <2>3. TpConcat("qkv", TpGathered(r, at))
          = <<Tensor(parts[1], l, -1), Tensor(parts[2], l, -1), Tensor(parts[3], l, -1)>>
        /\ Shards(TpGathered(r, at), job.kv \div job.tp)
    <3> HIDE DEF parts
    <3>1. at.key[2] = QkvName(parts)
      BY <1>6, <2>2
    <3> QED BY <2>2, <3>1, GatheredQkv
  <2> QED BY <1>6, <2>1, <2>3 DEF TensorsOf, Pieces
<1>7. CASE name = "qkv_bias"
  <2>1. HfParts(name) = <<"q_bias", "k_bias", "v_bias">>
    BY <1>7 DEF HfParts
  <2> DEFINE parts == <<"q_bias", "k_bias", "v_bias">>
  <2>2. parts \in QkvParts /\ QkvName(parts) = "qkv_bias"
    BY DEF QkvParts, QkvName
  <2>3. TpConcat("qkv_bias", TpGathered(r, at))
          = <<Tensor(parts[1], l, -1), Tensor(parts[2], l, -1), Tensor(parts[3], l, -1)>>
        /\ Shards(TpGathered(r, at), job.kv \div job.tp)
    <3> HIDE DEF parts
    <3>1. at.key[2] = QkvName(parts)
      BY <1>7, <2>2
    <3> QED BY <2>2, <3>1, GatheredQkv
  <2> QED BY <1>7, <2>1, <2>3 DEF TensorsOf, Pieces
<1> QED BY <1>1, <1>2, <1>3, <1>4, <1>5, <1>6, <1>7 DEF Parallel, ExpertNames

\* A parameter that every rank has whole
LEMMA ReadWhole ==
  ASSUME NEW r, NEW at, Reads(r, at), at.key[2] \notin Parallel
  PROVE  <<FromPp(r, at).rows>> = TensorsOf(at.key[2], Where(at), -1)
<1> DEFINE name == at.key[2]
<1>1. /\ FromPp(r, at).rows = Held(On(r, at), at.key)
      /\ LayerAt(On(r, at), at.key[1], at.key[3]) = Where(at)
      /\ name \in Names
  BY ReadsIs DEF KeyShape
<1>2. ASSUME NEW part, HfParts(name) = <<part>>,
             Held(On(r, at), at.key) = Tensor(part, Where(at), -1)
      PROVE  <<FromPp(r, at).rows>> = TensorsOf(name, Where(at), -1)
  BY <1>1, <1>2 DEF TensorsOf
<1>3. CASE name = "final_layernorm"
  <2>1. HfParts(name) = <<"norm">> /\ Held(On(r, at), at.key) = Tensor("norm", Where(at), -1)
    BY <1>1, <1>3, HeldIs DEF HfParts
  <2> QED BY <1>2, <2>1
<1>4. CASE name = "qkv_norm"
  <2>1. HfParts(name) = <<"input_norm">>
        /\ Held(On(r, at), at.key) = Tensor("input_norm", Where(at), -1)
    BY <1>1, <1>4, HeldIs DEF HfParts
  <2> QED BY <1>2, <2>1
<1>5. CASE name = "q_layernorm"
  <2>1. HfParts(name) = <<"q_norm">> /\ Held(On(r, at), at.key) = Tensor("q_norm", Where(at), -1)
    BY <1>1, <1>5, HeldIs DEF HfParts
  <2> QED BY <1>2, <2>1
<1>6. CASE name = "k_layernorm"
  <2>1. HfParts(name) = <<"k_norm">> /\ Held(On(r, at), at.key) = Tensor("k_norm", Where(at), -1)
    BY <1>1, <1>6, HeldIs DEF HfParts
  <2> QED BY <1>2, <2>1
<1>7. CASE name \in {"fc1_norm", "pre_mlp_layernorm"}
  <2>1. HfParts(name) = <<"post_norm">>
        /\ Held(On(r, at), at.key) = Tensor("post_norm", Where(at), -1)
    BY <1>1, <1>7, HeldIs DEF HfParts
  <2> QED BY <1>2, <2>1
<1>8. CASE name = "router"
  <2>1. HfParts(name) = <<"router">> /\ Held(On(r, at), at.key) = Tensor("router", Where(at), -1)
    BY <1>1, <1>8, HeldIs DEF HfParts
  <2> QED BY <1>2, <2>1
<1> QED BY <1>1, <1>3, <1>4, <1>5, <1>6, <1>7, <1>8 DEF Names, Parallel

-----------------------------------------------------------------------------
(* What a rank yields for a parameter.                                    *)

\* What a rank yields for a parameter
YieldOf(r, at, layer, each) ==
  IF at.key[2] \in ExpertNames /\ job.ep > 1
    THEN [ok |-> \A ep \in 1..job.ep : each[ep].ok,
          pairs |-> Flat([ep \in 1..job.ep |-> each[ep].pairs])]
  ELSE IF FromPp(r, at).parallel
    THEN Converted(at.key[2], layer, at.key[4], TpConcat(at.key[2], TpGathered(r, at)))
  ELSE Converted(at.key[2], layer, at.key[4], <<FromPp(r, at).rows>>)

YieldEach(r, at, layer) ==
  [ep \in 1..job.ep |->
     Converted(at.key[2], layer, GlobalExpert(ep - 1, at.key[4]),
               TpConcat(at.key[2], ExpertsGathered(r, at)[ep]))]

\* The offset of the chunk gives the layer of the model.
LEMMA YieldedHas ==
  ASSUME NEW r, NEW at, Reads(r, at), Feedable(job)
  PROVE  Yielded(r, at) = YieldOf(r, at, Where(at), YieldEach(r, at, Where(at)))
<1> DEFINE layer == IF at.key[3] = -1 THEN -1 ELSE at.key[3] + LayerOffset(at.pp, at.key[1])
<1>1. at.pp \in 0..job.pp - 1 /\ KeyShape(at.pp, at.key) /\ job \in Jobs
  BY ReadsIs DEF Reads
<1>2. at.key[1] \in 0..job.vpp - 1 /\ at.key[3] \in Int
  BY <1>1 DEF KeyShape, Key
<1>3. layer = Where(at)
  <2>1. at.key[3] + LayerOffset(at.pp, at.key[1]) = Placed(job, at.pp, at.key[1], at.key[3])
    BY <1>1, <1>2, OffsetIs
  <2> QED BY <2>1 DEF Where
<1>4. Yielded(r, at) = YieldOf(r, at, layer, YieldEach(r, at, layer))
  BY DEF Yielded, YieldOf, YieldEach, ExpertNames
<1> HIDE DEF layer
<1> QED BY <1>3, <1>4

\* What a rank yields for a parameter is all of the entries it becomes: those
\* of all experts with its number on their ranks, for an expert's.
LEMMA YieldedIs ==
  ASSUME NEW r, NEW at, Reads(r, at), Feedable(job)
  PROVE  Lists(Good, Yielded(r, at).pairs, PairsOf(EntriesAt(at)))
<1> DEFINE name == at.key[2]
           l == Where(at)
           each == YieldEach(r, at, l)
<1>1. /\ Yielded(r, at) = YieldOf(r, at, l, each)
      /\ FromPp(r, at).parallel <=> name \in Parallel
      /\ KeyShape(at.pp, at.key) /\ l \in Int
  BY YieldedHas, ReadsIs
<1>2. name \in Names
  BY <1>1 DEF KeyShape
<1>3. \A e \in Int : Lists(Good, Converted(name, l, e, TensorsOf(name, l, e)).pairs,
                             PairsOf(PartsAt(name, l, e)))
  <2> HIDE DEF name, l
  <2> QED BY <1>1, <1>2, ConvertedIs
<1> HIDE DEF each
<1>4. CASE name \in ExpertNames /\ job.ep > 1
  <2> DEFINE n == job.ep
             F == [i \in 0..n - 1 |-> each[i + 1].pairs]
             X == [i \in 0..n - 1 |-> PairsOf(PartsAt(name, l, GlobalExpert(i, at.key[4])))]
  <2>1. n \in Nat \ {0} /\ ExpertsPerRank \in Nat /\ at.key[4] \in Nat
    BY <1>4, HasExperts
  <2>2. ASSUME NEW i \in 0..n - 1 PROVE Lists(Good, F[i], X[i])
    <3> DEFINE e == GlobalExpert(i, at.key[4])
    <3>1. e \in Int
      BY <2>1 DEF GlobalExpert
    <3>2. i + 1 \in 1..job.ep /\ (i + 1) - 1 = i
      BY <2>1
    <3>3. TpConcat(name, ExpertsGathered(r, at)[i + 1]) = TensorsOf(name, l, e)
      BY <1>4, <3>2, GatheredExperts
    <3>4. each[i + 1] = Converted(name, l, e, TensorsOf(name, l, e))
      BY <3>2, <3>3 DEF each, YieldEach
    <3> HIDE DEF e
    <3>5. Lists(Good, each[i + 1].pairs, PairsOf(PartsAt(name, l, e)))
      BY <1>3, <3>1, <3>4
    <3>6. F[i] = each[i + 1].pairs /\ X[i] = PairsOf(PartsAt(name, l, e))
      BY DEF e
    <3> QED BY <3>5, <3>6
  <2>3. Lists(Good, FlatFrom(F, n), UnionFrom(X, n))
    <3>1. n \in Nat
      BY <2>1
    <3> HIDE DEF F, X, n
    <3> QED BY <2>2, <3>1, ListsFlat
  <2>4. Yielded(r, at).pairs = FlatFrom(F, n)
    <3>1. \A i \in 1..n : i - 1 \in 0..n - 1 /\ (i - 1) + 1 = i
      BY <2>1
    <3>2. [i \in 1..n |-> F[i - 1]] = [ep \in 1..n |-> each[ep].pairs]
      BY <3>1
    <3> DEFINE b == \A ep \in 1..job.ep : each[ep].ok
               pr == Flat([ep \in 1..job.ep |-> each[ep].pairs])
    <3>3. Yielded(r, at) = [ok |-> b, pairs |-> pr]
      BY <1>1, <1>4 DEF YieldOf
    <3> HIDE DEF b
    <3>4. Yielded(r, at).pairs = pr
      BY <3>3
    <3> QED BY <3>2, <3>4 DEF FlatFrom
  <2>5. UnionFrom(X, n) = PairsOf(EntriesAt(at))
    <3>1. EntriesAt(at) = UNION {PartsAt(name, l, GlobalExpert(i, at.key[4])) : i \in 0..n - 1}
      BY <1>4 DEF EntriesAt, ExpertsAt
    <3>2. UnionFrom(X, n) = UNION {PairsOf(PartsAt(name, l, GlobalExpert(i, at.key[4]))) :
                                     i \in 0..n - 1}
      BY DEF UnionFrom
    <3> HIDE DEF n, name, l
    <3> QED BY <3>1, <3>2 DEF PairsOf
  <2> QED BY <2>3, <2>4, <2>5
<1>5. CASE name \in ExpertNames /\ ~(job.ep > 1)
  <2>1. job.ep = 1 /\ at.key[4] \in Nat /\ ExpertsPerRank \in Nat
    BY <1>5, HasExperts
  <2>2. name \in Parallel
    BY <1>5 DEF ExpertNames, Parallel
  <2>3. Yielded(r, at) = Converted(name, l, at.key[4], TensorsOf(name, l, at.key[4]))
    BY <1>1, <1>5, <2>1, <2>2, GatheredAlone DEF YieldOf
  <2>4. EntriesAt(at) = PartsAt(name, l, at.key[4])
    <3>1. GlobalExpert(0, at.key[4]) = at.key[4] /\ 0..job.ep - 1 = {0}
      BY <2>1 DEF GlobalExpert
    <3>2. ExpertsAt(at) = {at.key[4]}
      BY <1>5, <3>1 DEF ExpertsAt
    <3> QED BY <3>2 DEF EntriesAt
  <2>5. at.key[4] \in Int
    BY <2>1
  <2> QED BY <1>3, <2>3, <2>4, <2>5
<1>6. CASE name \notin ExpertNames
  <2>1. at.key[4] = -1
    BY <1>1, <1>6 DEF KeyShape
  <2>2. EntriesAt(at) = PartsAt(name, l, -1)
    <3>1. ExpertsAt(at) = {-1}
      BY <1>6 DEF ExpertsAt
    <3> QED BY <3>1 DEF EntriesAt
  <2>3. Yielded(r, at) = Converted(name, l, -1, TensorsOf(name, l, -1))
    <3>1. CASE name \in Parallel
      BY <1>1, <1>6, <2>1, <3>1, GatheredDense DEF YieldOf
    <3>2. CASE name \notin Parallel
      BY <1>1, <1>6, <2>1, <3>2, ReadWhole DEF YieldOf
    <3> QED BY <3>1, <3>2
  <2>4. Lists(Good, Converted(name, l, -1, TensorsOf(name, l, -1)).pairs,
              PairsOf(PartsAt(name, l, -1)))
    BY <1>3
  <2> QED BY <2>2, <2>3, <2>4
<1> QED BY <1>4, <1>5, <1>6

-----------------------------------------------------------------------------
(* Buckets lose nothing, and double nothing.                              *)

\* f adds the pairs of s to the buckets b, those with the smallest numbers first.
Fills(f, b, s) ==
  f = [d \in SUBSET DOMAIN s |->
         IF d = {} THEN b ELSE Bucketed(f[d \ {Max(d)}], s[Max(d)])]

\* The greatest of the numbers up to k + 1
LEMMA MaxUpto ==
  ASSUME NEW k \in Nat
  PROVE  \A d \in SUBSET (1..k + 1) : k + 1 \in d => Max(d) = k + 1 /\ d \ {k + 1} \subseteq 1..k
<1> SUFFICES ASSUME NEW d \in SUBSET (1..k + 1), k + 1 \in d
             PROVE  Max(d) = k + 1 /\ d \ {k + 1} \subseteq 1..k
  OBVIOUS
<1>1. \A x \in d : x \in Int /\ x <= k + 1
  OBVIOUS
<1>2. Max(d) \in d /\ \A y \in d : Max(d) >= y
  BY <1>1 DEF Max
<1>3. Max(d) = k + 1
  <2> DEFINE x == Max(d)
  <2> HIDE DEF x
  <2>1. x \in d /\ x >= k + 1
    BY <1>2 DEF x
  <2>2. x \in Int /\ x <= k + 1
    BY <1>1, <2>1
  <2>3. x = k + 1
    BY <2>1, <2>2
  <2> QED BY <2>3 DEF x
<1> QED BY <1>1, <1>3

\* The fold over the pairs exists.
LEMMA FillsExist ==
  ASSUME NEW b, NEW s, NEW n \in Nat, DOMAIN s = 1..n
  PROVE  \E f : Fills(f, b, s)
<1> DEFINE Body(f, d) == IF d = {} THEN b ELSE Bucketed(f[d \ {Max(d)}], s[Max(d)])
           Upto(f, m) == \A d \in SUBSET (1..n) : d \subseteq 1..m => f[d] = Body(f, d)
           T == {m \in Nat : \E f : Upto(f, m)}
<1>1. 0 \in T
  <2> DEFINE f == [d \in SUBSET (1..n) |-> b]
  <2>1. \A d \in SUBSET (1..n) : d \subseteq 1..0 => d = {}
    OBVIOUS
  <2>2. Upto(f, 0)
    BY <2>1
  <2> QED BY <2>2
<1>2. ASSUME NEW m \in Nat, m \in T PROVE m + 1 \in T
  <2>1. PICK f : Upto(f, m)
    BY <1>2
  <2> DEFINE g == [d \in SUBSET (1..n) |-> IF d \subseteq 1..m THEN f[d] ELSE Body(f, d)]
  <2>2. ASSUME NEW d \in SUBSET (1..n), d \subseteq 1..m + 1 PROVE g[d] = Body(g, d)
    <3> DEFINE c == d \ {Max(d)}
    <3>1. c \in SUBSET (1..n) /\ c \subseteq 1..m
      <4>1. CASE m + 1 \in d
        <5>1. Max(d) = m + 1 /\ d \ {m + 1} \subseteq 1..m
          BY <2>2, <4>1, MaxUpto
        <5> QED BY <5>1
      <4>2. CASE m + 1 \notin d
        <5>1. d \subseteq 1..m
          BY <2>2, <4>2
        <5> QED BY <5>1
      <4> QED BY <4>1, <4>2
    <3>2. g[c] = f[c]
      <4> HIDE DEF c
      <4> QED BY <3>1
    <3>3. g[d] = Body(f, d)
      <4>1. CASE d \subseteq 1..m
        <5>1. g[d] = f[d]
          BY <4>1
        <5> QED BY <2>1, <4>1, <5>1
      <4>2. CASE ~(d \subseteq 1..m)
        BY <4>2
      <4> QED BY <4>1, <4>2
    <3> HIDE DEF g
    <3> QED BY <3>2, <3>3
  <2> HIDE DEF g
  <2>3. Upto(g, m + 1)
    BY <2>2
  <2> HIDE DEF Upto
  <2> QED BY <2>3
<1> HIDE DEF T
<1>3. n \in T
  BY <1>1, <1>2, Induct
<1>4. PICK f : Upto(f, n)
  BY <1>3 DEF T
<1> DEFINE g == [d \in SUBSET (1..n) |-> f[d]]
<1>5. ASSUME NEW d \in SUBSET (1..n) PROVE g[d] = Body(g, d)
  <2>1. f[d] = Body(f, d)
    BY <1>4
  <2>2. d \ {Max(d)} \in SUBSET (1..n)
    OBVIOUS
  <2> QED BY <2>1, <2>2
<1>6. g = [d \in SUBSET (1..n) |-> Body(g, d)]
  BY <1>5
<1> HIDE DEF g
<1> QED BY <1>6 DEF Fills

Filling(b, s) == FoldLeft(Bucketed, b, s)

\* The fold over the pairs takes them one by one, in their order.
LEMMA FilledInTurn ==
  ASSUME NEW b, NEW s, NEW n \in Nat, DOMAIN s = 1..n
  PROVE  \E g : /\ Filling(b, s) = g[n] /\ g[0] = b
                /\ \A k \in 0..n - 1 : g[k + 1] = Bucketed(g[k], s[k + 1])
<1> DEFINE f == CHOOSE h : h = [d \in SUBSET DOMAIN s |->
                  IF d = {} THEN b ELSE Bucketed(h[d \ {Max(d)}], s[Max(d)])]
<1>1. Filling(b, s) = f[DOMAIN s]
  BY DEF Filling, FoldLeft, MapThenFoldSet
<1>2. Fills(f, b, s)
  <2>1. \E h : Fills(h, b, s)
    BY FillsExist
  <2> QED BY <2>1 DEF Fills
<1> HIDE DEF f
<1>3. \A d \in SUBSET (1..n) :
        f[d] = IF d = {} THEN b ELSE Bucketed(f[d \ {Max(d)}], s[Max(d)])
  BY <1>2 DEF Fills
<1> DEFINE g == [k \in 0..n |-> f[1..k]]
<1>4. g[0] = b
  <2>1. 1..0 = {} /\ 0 \in 0..n /\ {} \in SUBSET (1..n)
    OBVIOUS
  <2>2. f[{}] = b
    BY <1>3, <2>1
  <2> QED BY <2>1, <2>2
<1>5. ASSUME NEW k \in 0..n - 1 PROVE g[k + 1] = Bucketed(g[k], s[k + 1])
  <2>1. /\ 1..k + 1 \in SUBSET (1..n) /\ k + 1 \in 1..k + 1 /\ k \in Nat
        /\ k \in 0..n /\ k + 1 \in 0..n /\ (1..k + 1) \ {k + 1} = 1..k
    OBVIOUS
  <2>2. Max(1..k + 1) = k + 1
    BY <2>1, MaxUpto
  <2>3. f[1..k + 1] = Bucketed(f[1..k], s[k + 1])
    BY <1>3, <2>1, <2>2
  <2> QED BY <2>1, <2>3
<1>6. Filling(b, s) = g[n]
  BY <1>1
<1> HIDE DEF g
<1> QED BY <1>4, <1>5, <1>6

\* The buckets b have the pairs P, some of them ready to be handed over.
Has(b, P) ==
  /\ b.open \in Seq(Good) /\ b.out \in Seq(Good)
  /\ ToSet(b.open) \cup ToSet(b.out) = P

\* One more pair is in the open bucket or behind one that is ready.
LEMMA BucketedHas ==
  ASSUME NEW b, NEW P, Has(b, P), NEW x \in Good
  PROVE  Has(Bucketed(b, x), P \cup {x})
<1>1. \/ Bucketed(b, x) = [open |-> <<x>>, out |-> b.out \o b.open]
      \/ Bucketed(b, x) = [open |-> Append(b.open, x), out |-> b.out]
  BY DEF Bucketed
<1>2. Lists(Good, b.open, ToSet(b.open)) /\ Lists(Good, b.out, ToSet(b.out))
  BY DEF Has, Lists
<1>3. Lists(Good, <<x>>, {x})
  BY ListsOne
<1>4. Lists(Good, b.out \o b.open, ToSet(b.out) \cup ToSet(b.open))
  BY <1>2, ListsConcat
<1>5. Lists(Good, b.open \o <<x>>, ToSet(b.open) \cup {x})
  BY <1>2, <1>3, ListsConcat
<1>6. Append(b.open, x) = b.open \o <<x>>
  BY DEF Has
<1>7. ToSet(b.open) \cup ToSet(b.out) = P
  BY DEF Has
<1> DEFINE c == Bucketed(b, x)
<1>8. CASE c = [open |-> <<x>>, out |-> b.out \o b.open]
  <2> HIDE DEF c
  <2>1. c.open = <<x>> /\ c.out = b.out \o b.open
    BY <1>8
  <2> QED BY <1>3, <1>4, <1>7, <2>1 DEF Lists, Has, c
<1>9. CASE c = [open |-> Append(b.open, x), out |-> b.out]
  <2> HIDE DEF c
  <2>1. c.open = b.open \o <<x>> /\ c.out = b.out
    BY <1>6, <1>9
  <2> QED BY <1>2, <1>5, <1>7, <2>1 DEF Lists, Has, c
<1> QED BY <1>1, <1>8, <1>9

\* No pair is lost, or doubled, between the buckets.
LEMMA FoldHas ==
  ASSUME NEW b, NEW P, Has(b, P), NEW s, NEW X, Lists(Good, s, X)
  PROVE  Has(Filling(b, s), P \cup X)
<1> DEFINE n == Len(s)
<1>1. s \in Seq(Good) /\ n \in Nat /\ DOMAIN s = 1..n /\ X = {s[i] : i \in 1..n}
  BY DEF Lists, ToSet
<1> HIDE DEF n
<1>2. PICK g : /\ Filling(b, s) = g[n] /\ g[0] = b
               /\ \A k \in 0..n - 1 : g[k + 1] = Bucketed(g[k], s[k + 1])
  <2>1. n \in Nat /\ DOMAIN s = 1..n
    BY <1>1
  <2> QED BY <2>1, FilledInTurn
<1> DEFINE Q(k) == P \cup {s[i] : i \in 1..k}
           T == {k \in Nat : k <= n => Has(g[k], Q(k))}
<1>3. 0 \in T
  <2>1. Q(0) = P
    OBVIOUS
  <2> QED BY <1>2, <2>1
<1>4. ASSUME NEW k \in Nat, k \in T PROVE k + 1 \in T
  <2>1. SUFFICES ASSUME k + 1 <= n PROVE Has(g[k + 1], Q(k + 1))
    OBVIOUS
  <2>2. k \in 0..n - 1 /\ k + 1 \in 1..n /\ k <= n
    BY <1>1, <2>1
  <2>3. Q(k + 1) = Q(k) \cup {s[k + 1]}
    <3>1. 1..k + 1 = (1..k) \cup {k + 1}
      OBVIOUS
    <3> QED BY <3>1
  <2>4. s[k + 1] \in Good /\ Has(g[k], Q(k)) /\ g[k + 1] = Bucketed(g[k], s[k + 1])
    BY <1>1, <1>2, <1>4, <2>2
  <2> HIDE DEF Q
  <2> QED BY <2>3, <2>4, BucketedHas
<1> HIDE DEF T
<1>5. n \in T
  BY <1>1, <1>3, <1>4, Induct
<1>6. Has(g[n], Q(n))
  <2> HIDE DEF Q
  <2> QED BY <1>1, <1>5 DEF T
<1> QED BY <1>1, <1>2, <1>6

\* The entries of pairs, and what an engine that was handed them has
First(P) == {x[1] : x \in P}
Told(E) == [e \in E |-> Tensor(e[1], e[2], e[3])]

\* The entries of the pairs of some entries
LEMMA FirstOf ==
  ASSUME NEW E PROVE First(PairsOf(E)) = E
<1>1. \A e : PairOf(e)[1] = e
  BY DEF PairOf
<1> QED BY <1>1 DEF First, PairsOf

\* The engine has what it had, and what the batch brings.
LEMMA FedIs ==
  ASSUME NEW E, NEW P, P \subseteq Good
  PROVE  Fed(Told(E), P) = Told(E \cup First(P))
<1> DEFINE D == First(P)
           T(e) == Tensor(e[1], e[2], e[3])
           Got(e) == (CHOOSE p \in P : p[1] = e)[2]
<1>1. ASSUME NEW e \in D PROVE Got(e) = T(e)
  <2> DEFINE q == CHOOSE p \in P : p[1] = e
  <2>1. q \in P /\ q[1] = e
    BY DEF First
  <2> HIDE DEF q
  <2>2. q \in Good
    BY <2>1
  <2>3. PICK d \in Entry : q = PairOf(d)
    BY <2>2 DEF Good, PairsOf
  <2>4. q[2] = Tensor(e[1], e[2], e[3])
    BY <2>1, <2>3 DEF PairOf
  <2> QED BY <2>4 DEF q
<1>2. DOMAIN Told(E) = E /\ \A e \in E : Told(E)[e] = T(e)
  BY DEF Told
<1>3. Fed(Told(E), P) = [e \in D \cup E |-> IF e \in D THEN Got(e) ELSE Told(E)[e]]
  <2>1. {p[1] : p \in P} = D
    BY DEF First
  <2> QED BY <1>2, <2>1 DEF Fed
<1>4. Told(E \cup D) = [e \in D \cup E |-> T(e)]
  <2>1. E \cup D = D \cup E
    OBVIOUS
  <2> QED BY <2>1 DEF Told
<1> HIDE DEF D, T, Got
<1>5. \A e \in D \cup E : (IF e \in D THEN Got(e) ELSE Told(E)[e]) = T(e)
  BY <1>1, <1>2
<1> QED BY <1>3, <1>4, <1>5 DEF D

\* An engine that was handed nothing
LEMMA ToldNone ==
  <<>> = Told({})
BY DEF Told

-----------------------------------------------------------------------------
(* Which entries the parameters become.                                   *)

PartSet(name) == {HfParts(name)[n] : n \in 1..Len(HfParts(name))}

\* The entries of a parameter by their names
LEMMA PartsAre ==
  ASSUME NEW name, NEW l, NEW e PROVE PartsAt(name, l, e) = {<<p, l, e>> : p \in PartSet(name)}
BY DEF PartsAt, PartSet

\* The names of a parameter that becomes one entry
LEMMA PartsOfOne ==
  ASSUME NEW name, NEW a, HfParts(name) = <<a>> PROVE PartSet(name) = {a}
BY DEF PartSet

\* The names of a parameter that becomes two
LEMMA PartsOfTwo ==
  ASSUME NEW name, NEW a, NEW b, HfParts(name) = <<a, b>> PROVE PartSet(name) = {a, b}
<1> DEFINE s == <<a, b>>
<1>1. Len(s) = 2 /\ s[1] = a /\ s[2] = b /\ 1..2 = {1, 2}
  OBVIOUS
<1> HIDE DEF s
<1>2. HfParts(name) = s
  BY DEF s
<1> QED BY <1>1, <1>2 DEF PartSet

\* The names of a parameter that becomes three
LEMMA PartsOfThree ==
  ASSUME NEW name, NEW a, NEW b, NEW c, HfParts(name) = <<a, b, c>>
  PROVE  PartSet(name) = {a, b, c}
<1> DEFINE s == <<a, b, c>>
<1>1. Len(s) = 3 /\ s[1] = a /\ s[2] = b /\ s[3] = c /\ 1..3 = {1, 2, 3}
  OBVIOUS
<1> HIDE DEF s
<1>2. HfParts(name) = s
  BY DEF s
<1> QED BY <1>1, <1>2 DEF PartSet

\* The names of the checkpoint, for every name of a parameter
LEMMA PartSets ==
  /\ PartSet("word_embeddings") = {"embed"} /\ PartSet("final_layernorm") = {"norm"}
  /\ PartSet("output_layer") = {"lm_head"} /\ PartSet("qkv_norm") = {"input_norm"}
  /\ PartSet("proj") = {"o"} /\ PartSet("qkv") = {"q", "k", "v"}
  /\ PartSet("qkv_bias") = {"q_bias", "k_bias", "v_bias"}
  /\ PartSet("q_layernorm") = {"q_norm"} /\ PartSet("k_layernorm") = {"k_norm"}
  /\ PartSet("fc1_norm") = {"post_norm"} /\ PartSet("pre_mlp_layernorm") = {"post_norm"}
  /\ PartSet("fc1") = {"gate", "up"} /\ PartSet("fc2") = {"down"}
  /\ PartSet("router") = {"router"}
  /\ PartSet("expert_fc1") = {"gate", "up"} /\ PartSet("expert_fc2") = {"down"}
<1>1. /\ HfParts("word_embeddings") = <<"embed">> /\ HfParts("final_layernorm") = <<"norm">>
      /\ HfParts("output_layer") = <<"lm_head">> /\ HfParts("qkv_norm") = <<"input_norm">>
      /\ HfParts("proj") = <<"o">> /\ HfParts("q_layernorm") = <<"q_norm">>
      /\ HfParts("k_layernorm") = <<"k_norm">> /\ HfParts("fc1_norm") = <<"post_norm">>
  BY DEF HfParts
<1>2. /\ HfParts("pre_mlp_layernorm") = <<"post_norm">> /\ HfParts("fc2") = <<"down">>
      /\ HfParts("router") = <<"router">> /\ HfParts("expert_fc2") = <<"down">>
      /\ HfParts("qkv") = <<"q", "k", "v">>
      /\ HfParts("qkv_bias") = <<"q_bias", "k_bias", "v_bias">>
      /\ HfParts("fc1") = <<"gate", "up">> /\ HfParts("expert_fc1") = <<"gate", "up">>
  BY DEF HfParts
<1>3. /\ PartSet("word_embeddings") = {"embed"} /\ PartSet("final_layernorm") = {"norm"}
      /\ PartSet("output_layer") = {"lm_head"} /\ PartSet("qkv_norm") = {"input_norm"}
  BY <1>1, PartsOfOne
<1>4. /\ PartSet("proj") = {"o"} /\ PartSet("q_layernorm") = {"q_norm"}
      /\ PartSet("k_layernorm") = {"k_norm"} /\ PartSet("fc1_norm") = {"post_norm"}
  BY <1>1, PartsOfOne
<1>5. /\ PartSet("pre_mlp_layernorm") = {"post_norm"} /\ PartSet("fc2") = {"down"}
      /\ PartSet("router") = {"router"} /\ PartSet("expert_fc2") = {"down"}
  BY <1>2, PartsOfOne
<1>6. PartSet("qkv") = {"q", "k", "v"} /\ PartSet("qkv_bias") = {"q_bias", "k_bias", "v_bias"}
  BY <1>2, PartsOfThree
<1>7. PartSet("fc1") = {"gate", "up"} /\ PartSet("expert_fc1") = {"gate", "up"}
  BY <1>2, PartsOfTwo
<1> QED BY <1>3, <1>4, <1>5, <1>6, <1>7

\* The parameters of a layer become the entries of a layer.
LEMMA LayerPartsAre ==
  UNION {PartSet(n) : n \in LayerNames(job)} = LayerParts
<1>1. ASSUME NEW n \in LayerNames(job) PROVE PartSet(n) \subseteq LayerParts
  <2>1. CASE n \in {"proj", "qkv_norm", "qkv"}
    BY <2>1, PartSets DEF LayerParts
  <2>2. CASE job.bias /\ n = "qkv_bias"
    BY <2>2, PartSets DEF LayerParts
  <2>3. CASE job.qknorm /\ n \in {"q_layernorm", "k_layernorm"}
    BY <2>3, PartSets DEF LayerParts
  <2>4. CASE job.experts > 0 /\ n \in {"pre_mlp_layernorm", "router"}
    BY <2>4, PartSets DEF LayerParts, Moe
  <2>5. CASE ~(job.experts > 0) /\ n \in {"fc1_norm", "fc1", "fc2"}
    BY <2>5, PartSets DEF LayerParts, Moe
  <2> QED BY <2>1, <2>2, <2>3, <2>4, <2>5 DEF LayerNames
<1>2. ASSUME NEW p \in LayerParts PROVE \E n \in LayerNames(job) : p \in PartSet(n)
  <2>1. CASE p \in {"o", "input_norm", "q", "k", "v"}
    <3>1. {"proj", "qkv_norm", "qkv"} \subseteq LayerNames(job)
      BY DEF LayerNames
    <3>2. p \in PartSet("proj") \/ p \in PartSet("qkv_norm") \/ p \in PartSet("qkv")
      BY <2>1, PartSets
    <3> QED BY <3>1, <3>2
  <2>2. CASE p = "post_norm"
    <3>1. "pre_mlp_layernorm" \in LayerNames(job) \/ "fc1_norm" \in LayerNames(job)
      BY DEF LayerNames
    <3> QED BY <2>2, <3>1, PartSets
  <2>3. CASE job.bias /\ p \in {"q_bias", "k_bias", "v_bias"}
    <3>1. "qkv_bias" \in LayerNames(job)
      BY <2>3 DEF LayerNames
    <3> QED BY <2>3, <3>1, PartSets
  <2>4. CASE job.qknorm /\ p \in {"q_norm", "k_norm"}
    <3>1. {"q_layernorm", "k_layernorm"} \subseteq LayerNames(job)
      BY <2>4 DEF LayerNames
    <3> QED BY <2>4, <3>1, PartSets
  <2>5. CASE Moe /\ p = "router"
    <3>1. "router" \in LayerNames(job)
      BY <2>5 DEF LayerNames, Moe
    <3> QED BY <2>5, <3>1, PartSets
  <2>6. CASE ~Moe /\ p \in {"gate", "up", "down"}
    <3>1. {"fc1", "fc2"} \subseteq LayerNames(job)
      BY <2>6 DEF LayerNames, Moe
    <3> QED BY <2>6, <3>1, PartSets
  <2> QED BY <2>1, <2>2, <2>3, <2>4, <2>5, <2>6 DEF LayerParts
<1> QED BY <1>1, <1>2

HeadEntry == <<"lm_head", -1, -1>>

LayerEntries(l) ==
  {<<p, l, -1>> : p \in LayerParts}
  \cup {<<p, l, e>> : p \in {"gate", "up", "down"}, e \in 0..job.experts - 1}

\* The checkpoint by layers
LEMMA EntriesAre ==
  Entries = {<<"embed", -1, -1>>, <<"norm", -1, -1>>, HeadEntry}
            \cup UNION {LayerEntries(l) : l \in 0..job.layers - 1}
BY DEF Entries, LayerEntries, HeadEntry

\* Expert e of the model is one expert of one rank, and the other way round.
LEMMA ExpertNumbers ==
  ASSUME job \in Jobs, job.experts > 0
  PROVE  /\ \A i \in 0..job.ep - 1, k \in 0..ExpertsPerRank - 1 :
              GlobalExpert(i, k) \in 0..job.experts - 1
         /\ \A e \in 0..job.experts - 1 :
              \E i \in 0..job.ep - 1, k \in 0..ExpertsPerRank - 1 : GlobalExpert(i, k) = e
<1> DEFINE w == ExpertsPerRank
           n == job.ep
<1>1. w \in Nat /\ n \in Nat \ {0} /\ job.experts \in Nat
  BY JobIs DEF ExpertsPerRank
<1>2. n * w = job.experts
  <2> DEFINE m == job.experts
             x == (m \div n) * n
  <2>1. m % n = 0
    BY JobIs DEF Launchable
  <2>2. m \in Nat /\ n \in Nat \ {0} /\ w = m \div n
    BY <1>1 DEF ExpertsPerRank
  <2> HIDE DEF m, n, w
  <2>3. m = (m \div n) * n + (m % n) /\ (m \div n) \in Nat
    BY <2>2, DivMod
  <2>4. x \in Int /\ x = n * w
    BY <2>2, <2>3
  <2>5. m = x + (m % n)
    BY <2>3
  <2> HIDE DEF x
  <2>6. m = x
    BY ONLY <2>1, <2>4, <2>5
  <2> QED BY <2>4, <2>6 DEF m
<1>3. ASSUME NEW i \in 0..n - 1, NEW k \in 0..w - 1
      PROVE  GlobalExpert(i, k) \in 0..job.experts - 1
  <2> DEFINE y == i * w
  <2>1. k + 1 \in 1..w /\ (k + 1) - 1 = k
    BY <1>1
  <2>2. i * w + (k + 1) \in 1..n * w /\ i * w \in Nat
    <3> HIDE DEF w, n
    <3> QED BY <1>1, <2>1, PartPlace
  <2>3. w * i = y
    BY <1>1
  <2> HIDE DEF y
  <2>4. GlobalExpert(i, k) = y + k
    BY <2>3 DEF GlobalExpert
  <2>5. y + (k + 1) \in 1..job.experts /\ y \in Nat
    BY <1>2, <2>2 DEF y
  <2> QED BY <1>1, <2>4, <2>5
<1>4. ASSUME NEW e \in 0..job.experts - 1
      PROVE  \E i \in 0..n - 1, k \in 0..w - 1 : GlobalExpert(i, k) = e
  <2>1. e + 1 \in 1..n * w
    BY <1>1, <1>2
  <2>2. PICK i \in 0..n - 1, j \in 1..w : e + 1 = i * w + j
    <3>1. n \in Nat /\ w \in Nat
      BY <1>1
    <3> HIDE DEF w, n
    <3> QED BY ONLY <2>1, <3>1, PlacePart
  <2> DEFINE y == i * w
  <2>3. y \in Int /\ w * i = y
    BY <1>1
  <2> HIDE DEF y
  <2>4. e + 1 = y + j
    BY <2>2 DEF y
  <2>5. j - 1 \in 0..w - 1 /\ y + (j - 1) = e
    BY <1>1, <2>3, <2>4
  <2>6. GlobalExpert(i, j - 1) = e
    BY <2>3, <2>5 DEF GlobalExpert
  <2> QED BY <2>5, <2>6
<1> QED BY <1>3, <1>4

At(p, k) == [pp |-> p, key |-> k]

\* Entries of a parameter that is not an expert's, and of an expert's
LEMMA EntriesOfOne ==
  ASSUME NEW p, NEW v, NEW name, name \notin ExpertNames, NEW i
  PROVE  EntriesAt(At(p, <<v, name, i, -1>>))
           = {<<q, Where(At(p, <<v, name, i, -1>>)), -1>> : q \in PartSet(name)}
<1> DEFINE at == At(p, <<v, name, i, -1>>)
<1>1. at.key[2] = name
  BY DEF At
<1> HIDE DEF at
<1>2. ExpertsAt(at) = {-1}
  BY <1>1 DEF ExpertsAt
<1>3. EntriesAt(at) = PartsAt(name, Where(at), -1)
  BY <1>1, <1>2 DEF EntriesAt
<1> QED BY <1>3, PartsAre DEF at

\* An expert's parameter becomes those of one expert of every expert rank.
LEMMA EntriesOfExpert ==
  ASSUME NEW p, NEW v, NEW name \in ExpertNames, NEW i, NEW k
  PROVE  EntriesAt(At(p, <<v, name, i, k>>))
           = {<<q, Where(At(p, <<v, name, i, k>>)), GlobalExpert(f, k)>> :
                q \in PartSet(name), f \in 0..job.ep - 1}
<1> DEFINE at == At(p, <<v, name, i, k>>)
<1>1. at.key[2] = name /\ at.key[4] = k
  BY DEF At
<1> HIDE DEF at
<1>2. ExpertsAt(at) = {GlobalExpert(f, k) : f \in 0..job.ep - 1}
  BY <1>1 DEF ExpertsAt
<1>3. EntriesAt(at) = UNION {PartsAt(name, Where(at), e) : e \in ExpertsAt(at)}
  BY <1>1 DEF EntriesAt
<1>4. \A e : PartsAt(name, Where(at), e) = {<<q, Where(at), e>> : q \in PartSet(name)}
  BY PartsAre
<1>5. EntriesAt(at) = {<<q, Where(at), GlobalExpert(f, k)>> :
                         q \in PartSet(name), f \in 0..job.ep - 1}
  BY <1>2, <1>3, <1>4
<1> QED BY <1>5 DEF at

\* A parameter of no layer
LEMMA WhereIs ==
  ASSUME NEW p, NEW v, NEW name, NEW k
  PROVE  Where(At(p, <<v, name, -1, k>>)) = -1
BY DEF Where, At

-----------------------------------------------------------------------------
(* All the parameters become all of the checkpoint.                       *)

\* The metadata has the parameters of every chunk.
LEMMA MetaHas ==
  ASSUME job \in Jobs
  PROVE  /\ \A p \in 0..job.pp - 1, v \in 0..job.vpp - 1 :
              \A k \in NamedKeys(job, p, v) : At(p, k) \in ToSet(Meta)
         /\ \A x \in ToSet(Meta) :
              \E p \in 0..job.pp - 1, v \in 0..job.vpp - 1 :
                \E k \in NamedKeys(job, p, v) : x = At(p, k)
<1>1. ToSet(Meta) = {x \in MetaEntry : x.key \in Keys(x.pp)}
  BY MetaIs
<1>2. \A p \in 0..job.pp - 1 :
        /\ Keys(p) = UNION {NamedKeys(job, p, v) : v \in 0..job.vpp - 1} /\ Keys(p) \subseteq Key
  BY KeysAre
<1>3. ASSUME NEW p \in 0..job.pp - 1, NEW v \in 0..job.vpp - 1, NEW k \in NamedKeys(job, p, v)
      PROVE  At(p, k) \in ToSet(Meta)
  <2>1. k \in Keys(p) /\ k \in Key
    BY <1>2
  <2>2. At(p, k) \in MetaEntry /\ At(p, k).pp = p /\ At(p, k).key = k
    BY <2>1 DEF At, MetaEntry
  <2> QED BY <1>1, <2>1, <2>2
<1>4. ASSUME NEW x \in ToSet(Meta)
      PROVE  \E p \in 0..job.pp - 1, v \in 0..job.vpp - 1 :
               \E k \in NamedKeys(job, p, v) : x = At(p, k)
  <2>1. x \in MetaEntry /\ x.key \in Keys(x.pp)
    BY <1>1
  <2>2. x.pp \in 0..job.pp - 1 /\ x = At(x.pp, x.key)
    BY <2>1 DEF At, MetaEntry
  <2>3. PICK v \in 0..job.vpp - 1 : x.key \in NamedKeys(job, x.pp, v)
    BY <1>2, <2>1, <2>2
  <2> QED BY <2>2, <2>3
<1> QED BY <1>3, <1>4

IsLast(p, v) == p = job.pp - 1 /\ v = job.vpp - 1

\* What the parameters of a chunk are, one by one
LEMMA NamedCases ==
  ASSUME NEW p, NEW v, NEW k
  PROVE  k \in NamedKeys(job, p, v) <=>
           \/ p = 0 /\ v = 0 /\ k = <<v, "word_embeddings", -1, -1>>
           \/ \E n \in LayerNames(job), i \in 0..LayersIn(job, p, v) - 1 : k = <<v, n, i, -1>>
           \/ \E n \in ExpertNames, i \in 0..LayersIn(job, p, v) - 1,
                 e \in 0..ExpertsPerRank - 1 : k = <<v, n, i, e>>
           \/ IsLast(p, v) /\ k = <<v, "final_layernorm", -1, -1>>
           \/ IsLast(p, v) /\ ~(job.tied /\ job.pp = 1) /\ k = <<v, "output_layer", -1, -1>>
<1> DEFINE A == IF p = 0 /\ v = 0 THEN {<<v, "word_embeddings", -1, -1>>} ELSE {}
           B == {<<v, n, i, -1>> : n \in LayerNames(job), i \in 0..LayersIn(job, p, v) - 1}
           C == {<<v, n, i, e>> : n \in {"expert_fc1", "expert_fc2"},
                   i \in 0..LayersIn(job, p, v) - 1, e \in 0..(job.experts \div job.ep) - 1}
           D == IF p = job.pp - 1 /\ v = job.vpp - 1
                  THEN {<<v, "final_layernorm", -1, -1>>} ELSE {}
           E == IF (p = job.pp - 1 /\ v = job.vpp - 1) /\ ~(job.tied /\ job.pp = 1)
                  THEN {<<v, "output_layer", -1, -1>>} ELSE {}
<1>1. NamedKeys(job, p, v) = ((A \cup (B \cup C)) \cup D) \cup E
  BY DEF NamedKeys
<1>2. k \in A <=> p = 0 /\ v = 0 /\ k = <<v, "word_embeddings", -1, -1>>
  OBVIOUS
<1>3. k \in B <=> \E n \in LayerNames(job), i \in 0..LayersIn(job, p, v) - 1 : k = <<v, n, i, -1>>
  OBVIOUS
<1>4. k \in C <=> \E n \in ExpertNames, i \in 0..LayersIn(job, p, v) - 1,
                     e \in 0..ExpertsPerRank - 1 : k = <<v, n, i, e>>
  BY DEF ExpertNames, ExpertsPerRank
<1>5. k \in D <=> IsLast(p, v) /\ k = <<v, "final_layernorm", -1, -1>>
  BY DEF IsLast
<1>6. k \in E <=> IsLast(p, v) /\ ~(job.tied /\ job.pp = 1) /\ k = <<v, "output_layer", -1, -1>>
  BY DEF IsLast
<1> HIDE DEF A, B, C, D, E
<1> QED BY <1>1, <1>2, <1>3, <1>4, <1>5, <1>6

AllEntries == UNION {EntriesAt(x) : x \in ToSet(Meta)}

\* Whatever a rank is fed is of the checkpoint.
LEMMA FedIsEntry ==
  ASSUME job \in Jobs PROVE AllEntries \subseteq Entries
<1> SUFFICES ASSUME NEW x \in ToSet(Meta) PROVE EntriesAt(x) \subseteq Entries
  BY DEF AllEntries
<1>1. PICK p \in 0..job.pp - 1, v \in 0..job.vpp - 1 :
        \E k \in NamedKeys(job, p, v) : x = At(p, k)
  BY MetaHas
<1>2. PICK k \in NamedKeys(job, p, v) : x = At(p, k)
  BY <1>1
<1>3. \A i \in 0..LayersIn(job, p, v) - 1 : i # -1 /\ Placed(job, p, v, i) \in 0..job.layers - 1
  <2>1. LayersIn(job, p, v) \in Nat
    BY JobIs DEF Counted
  <2> QED BY <2>1, JobCovered
<1>4. \A n \in {"word_embeddings", "final_layernorm", "output_layer"} : n \notin ExpertNames
  BY DEF ExpertNames
<1>5. ASSUME NEW n \in {"word_embeddings", "final_layernorm", "output_layer"},
             k = <<v, n, -1, -1>>
      PROVE  EntriesAt(x) = {<<q, -1, -1>> : q \in PartSet(n)}
  BY <1>2, <1>4, <1>5, EntriesOfOne, WhereIs
<1>6. CASE k = <<v, "word_embeddings", -1, -1>>
  <2>1. EntriesAt(x) = {<<"embed", -1, -1>>}
    BY <1>5, <1>6, PartSets
  <2> QED BY <2>1, EntriesAre
<1>7. CASE k = <<v, "final_layernorm", -1, -1>>
  <2>1. EntriesAt(x) = {<<"norm", -1, -1>>}
    BY <1>5, <1>7, PartSets
  <2> QED BY <2>1, EntriesAre
<1>8. CASE k = <<v, "output_layer", -1, -1>>
  <2>1. EntriesAt(x) = {HeadEntry}
    BY <1>5, <1>8, PartSets DEF HeadEntry
  <2> QED BY <2>1, EntriesAre
<1>9. ASSUME NEW n \in LayerNames(job), NEW i \in 0..LayersIn(job, p, v) - 1,
             k = <<v, n, i, -1>>
      PROVE  EntriesAt(x) \subseteq Entries
  <2> DEFINE l == Placed(job, p, v, i)
  <2>1. n \notin ExpertNames
    BY DEF LayerNames, ExpertNames
  <2>2. EntriesAt(x) = {<<q, l, -1>> : q \in PartSet(n)}
    <3>1. Where(At(p, <<v, n, i, -1>>)) = l
      BY <1>3 DEF Where, At
    <3> HIDE DEF l
    <3>2. EntriesAt(At(p, <<v, n, i, -1>>)) = {<<q, l, -1>> : q \in PartSet(n)}
      BY <2>1, <3>1, EntriesOfOne
    <3> QED BY <1>2, <1>9, <3>2
  <2>3. PartSet(n) \subseteq LayerParts /\ l \in 0..job.layers - 1
    BY <1>3, LayerPartsAre
  <2> HIDE DEF l
  <2>4. EntriesAt(x) \subseteq LayerEntries(l)
    BY <2>2, <2>3 DEF LayerEntries
  <2> QED BY <2>3, <2>4, EntriesAre
<1>10. ASSUME NEW n \in ExpertNames, NEW i \in 0..LayersIn(job, p, v) - 1,
              NEW e \in 0..ExpertsPerRank - 1, k = <<v, n, i, e>>
       PROVE  EntriesAt(x) \subseteq Entries
  <2> DEFINE l == Placed(job, p, v, i)
  <2>1. EntriesAt(x) = {<<q, l, GlobalExpert(f, e)>> : q \in PartSet(n), f \in 0..job.ep - 1}
    <3>1. Where(At(p, <<v, n, i, e>>)) = l
      BY <1>3 DEF Where, At
    <3> HIDE DEF l
    <3>2. EntriesAt(At(p, <<v, n, i, e>>))
            = {<<q, l, GlobalExpert(f, e)>> : q \in PartSet(n), f \in 0..job.ep - 1}
      BY <3>1, EntriesOfExpert
    <3> QED BY <1>2, <1>10, <3>2
  <2>2. PartSet(n) \subseteq {"gate", "up", "down"} /\ l \in 0..job.layers - 1
    BY <1>3, PartSets DEF ExpertNames
  <2> HIDE DEF l
  <2>3. job.experts > 0
    <3>1. job.experts \in Nat /\ job.ep \in Nat \ {0} /\ ExpertsPerRank \in Nat
      BY JobIs DEF ExpertsPerRank
    <3>2. ExpertsPerRank # 0
      BY <3>1
    <3>3. job.experts # 0
      BY <3>1, <3>2 DEF ExpertsPerRank
    <3> QED BY <3>1, <3>3
  <2>4. \A f \in 0..job.ep - 1 : GlobalExpert(f, e) \in 0..job.experts - 1
    BY <2>3, ExpertNumbers
  <2>5. EntriesAt(x) \subseteq LayerEntries(l)
    BY <2>1, <2>2, <2>4 DEF LayerEntries
  <2> QED BY <2>2, <2>5, EntriesAre
<1> QED BY <1>6, <1>7, <1>8, <1>9, <1>10, NamedCases

\* Every entry of the checkpoint is fed, but a head that is tied.
LEMMA EntryIsFed ==
  ASSUME job \in Jobs
  PROVE  Entries \ {HeadEntry} \subseteq AllEntries /\ (~job.tied => HeadEntry \in AllEntries)
<1>0. /\ job.pp \in Nat \ {0} /\ job.vpp \in Nat \ {0} /\ job.experts \in Nat
      /\ 0 \in 0..job.pp - 1 /\ 0 \in 0..job.vpp - 1
      /\ job.pp - 1 \in 0..job.pp - 1 /\ job.vpp - 1 \in 0..job.vpp - 1
  BY JobIs
<1>1. ASSUME NEW p \in 0..job.pp - 1, NEW v \in 0..job.vpp - 1, NEW k,
             k \in NamedKeys(job, p, v)
      PROVE  EntriesAt(At(p, k)) \subseteq AllEntries
  <2>1. At(p, k) \in ToSet(Meta)
    BY <1>1, MetaHas
  <2> QED BY <2>1 DEF AllEntries
<1>2. ASSUME NEW p \in 0..job.pp - 1, NEW v \in 0..job.vpp - 1,
             NEW n \in {"word_embeddings", "final_layernorm", "output_layer"},
             <<v, n, -1, -1>> \in NamedKeys(job, p, v)
      PROVE  {<<q, -1, -1>> : q \in PartSet(n)} \subseteq AllEntries
  <2>1. n \notin ExpertNames
    BY DEF ExpertNames
  <2>2. EntriesAt(At(p, <<v, n, -1, -1>>)) = {<<q, -1, -1>> : q \in PartSet(n)}
    BY <2>1, EntriesOfOne, WhereIs
  <2> QED BY <1>1, <1>2, <2>2
<1>3. <<"embed", -1, -1>> \in AllEntries
  <2>1. <<0, "word_embeddings", -1, -1>> \in NamedKeys(job, 0, 0)
    BY NamedCases
  <2> QED BY <1>0, <1>2, <2>1, PartSets
<1>4. <<"norm", -1, -1>> \in AllEntries
  <2> DEFINE p == job.pp - 1
             v == job.vpp - 1
  <2>1. <<v, "final_layernorm", -1, -1>> \in NamedKeys(job, p, v)
    BY NamedCases DEF IsLast
  <2>2. p \in 0..job.pp - 1 /\ v \in 0..job.vpp - 1
    BY <1>0
  <2> HIDE DEF p, v
  <2> QED BY <1>2, <2>1, <2>2, PartSets
<1>5. ~job.tied => HeadEntry \in AllEntries
  <2> SUFFICES ASSUME ~job.tied PROVE HeadEntry \in AllEntries
    OBVIOUS
  <2> DEFINE p == job.pp - 1
             v == job.vpp - 1
  <2>1. <<v, "output_layer", -1, -1>> \in NamedKeys(job, p, v)
    BY NamedCases DEF IsLast
  <2>2. p \in 0..job.pp - 1 /\ v \in 0..job.vpp - 1
    BY <1>0
  <2> HIDE DEF p, v
  <2> QED BY <1>2, <2>1, <2>2, PartSets DEF HeadEntry
<1>6. ASSUME NEW l \in 0..job.layers - 1 PROVE LayerEntries(l) \subseteq AllEntries
  <2>1. PICK p \in 0..job.pp - 1, v \in 0..job.vpp - 1 :
          \E i \in 0..LayersIn(job, p, v) - 1 : Placed(job, p, v, i) = l
    BY JobCovered
  <2>2. PICK i \in 0..LayersIn(job, p, v) - 1 : Placed(job, p, v, i) = l
    BY <2>1
  <2>3. i # -1
    <3>1. LayersIn(job, p, v) \in Nat
      BY JobIs DEF Counted
    <3> QED BY <3>1
  <2>4. ASSUME NEW q \in LayerParts PROVE <<q, l, -1>> \in AllEntries
    <3>1. PICK n \in LayerNames(job) : q \in PartSet(n)
      BY LayerPartsAre
    <3>2. n \notin ExpertNames
      BY DEF LayerNames, ExpertNames
    <3> DEFINE k == <<v, n, i, -1>>
    <3>3. k \in NamedKeys(job, p, v)
      BY NamedCases
    <3>4. EntriesAt(At(p, k)) = {<<z, l, -1>> : z \in PartSet(n)}
      <4>1. Where(At(p, <<v, n, i, -1>>)) = l
        BY <2>2, <2>3 DEF Where, At
      <4> QED BY <3>2, <4>1, EntriesOfOne
    <3> HIDE DEF k
    <3> QED BY <1>1, <3>1, <3>3, <3>4
  <2>5. ASSUME NEW q \in {"gate", "up", "down"}, NEW e \in 0..job.experts - 1
        PROVE  <<q, l, e>> \in AllEntries
    <3>1. PICK n \in ExpertNames : q \in PartSet(n)
      BY PartSets DEF ExpertNames
    <3>2. job.experts > 0
      BY <1>0
    <3>3. PICK f \in 0..job.ep - 1, c \in 0..ExpertsPerRank - 1 : GlobalExpert(f, c) = e
      BY <3>2, ExpertNumbers
    <3> DEFINE k == <<v, n, i, c>>
    <3>4. k \in NamedKeys(job, p, v)
      BY NamedCases
    <3>5. EntriesAt(At(p, k)) = {<<z, l, GlobalExpert(g, c)>> :
                                   z \in PartSet(n), g \in 0..job.ep - 1}
      <4>1. Where(At(p, <<v, n, i, c>>)) = l
        BY <2>2, <2>3 DEF Where, At
      <4> QED BY <4>1, EntriesOfExpert
    <3> HIDE DEF k
    <3>6. <<q, l, e>> \in EntriesAt(At(p, k))
      BY <3>1, <3>3, <3>5
    <3> QED BY <1>1, <3>4, <3>6
  <2> QED BY <2>4, <2>5 DEF LayerEntries
<1> QED BY <1>3, <1>4, <1>5, <1>6, EntriesAre

-----------------------------------------------------------------------------
(* Feeding the engine: what is handed over, and what waits.               *)

\* The entries of the first n parameters
Total(n) == UNION {EntriesAt(Meta[i]) : i \in 1..n}

\* Rank r has the tensors of the first n parameters, handed over or in its bucket.
FedUpto(r, n) ==
  \E E, F : /\ fed[r] = Told(E)
            /\ bucket[r] \in Seq(Good) /\ First(ToSet(bucket[r])) = F
            /\ E \cup F = Total(n)

FeedInv ==
  /\ LoadInv /\ Feedable(job)
  /\ phase = "load" => \A r \in Rank : fed[r] = <<>> /\ bucket[r] = <<>>
  /\ phase = "sync" =>
       /\ ~job.value
       /\ \A n \in Nat : n + 1 = step => n <= Len(Meta) /\ \A r \in Rank : FedUpto(r, n)
  /\ phase \in {"save", "merge", "refused", "done"} /\ ~job.value =>
       \A r \in Rank : fed[r] = Told(AllEntries)

\* What a job is to be fed depends on nothing else.
LEMMA SameFeed ==
  ASSUME job' = job
  PROVE  /\ Rank' = Rank /\ Meta' = Meta /\ Good' = Good /\ AllEntries' = AllEntries
         /\ \A E : Told(E)' = Told(E)
         /\ \A n : Total(n)' = Total(n)
         /\ Feedable(job) => Feedable(job)'
<1>1. Rank' = Rank
  BY SameJob
<1>2. ASSUME NEW p, NEW l, NEW e PROVE Tensor(p, l, e)' = Tensor(p, l, e)
  BY DEF Tensor, Size
<1>3. ASSUME NEW E PROVE Told(E)' = Told(E)
  BY <1>2 DEF Told
<1>4. Good' = Good
  BY <1>2 DEF Good, PairsOf, PairOf
<1>5. Meta' = Meta
  BY DEF Meta
<1>6. ASSUME NEW x PROVE EntriesAt(x)' = EntriesAt(x)
  BY DEF EntriesAt, ExpertsAt, GlobalExpert, ExpertsPerRank, Where
<1>7. AllEntries' = AllEntries
  BY <1>5, <1>6 DEF AllEntries
<1>8. ASSUME NEW n PROVE Total(n)' = Total(n)
  BY <1>5, <1>6 DEF Total
<1>9. Feedable(job) => Feedable(job)'
  BY DEF Feedable
<1> QED BY <1>1, <1>3, <1>4, <1>5, <1>7, <1>8, <1>9

\* No parameters, all of them, and one more
LEMMA TotalIs ==
  ASSUME job \in Jobs
  PROVE  /\ Len(Meta) \in Nat /\ Total(0) = {} /\ Total(Len(Meta)) = AllEntries
         /\ \A n \in Nat : Total(n + 1) = Total(n) \cup EntriesAt(Meta[n + 1])
<1> DEFINE m == Meta
<1>1. m \in Seq(MetaEntry)
  BY MetaIs
<1> HIDE DEF m
<1>2. Len(m) \in Nat /\ ToSet(m) = {m[i] : i \in 1..Len(m)}
  BY <1>1 DEF ToSet
<1>3. UNION {EntriesAt(m[i]) : i \in 1..Len(m)} = UNION {EntriesAt(x) : x \in ToSet(m)}
  BY <1>2
<1>4. Total(0) = {}
  <2>1. 1..0 = {}
    OBVIOUS
  <2> QED BY <2>1 DEF Total
<1>5. ASSUME NEW n \in Nat PROVE Total(n + 1) = Total(n) \cup EntriesAt(Meta[n + 1])
  <2>1. 1..n + 1 = (1..n) \cup {n + 1}
    OBVIOUS
  <2> QED BY <2>1 DEF Total
<1> QED BY <1>2, <1>3, <1>4, <1>5 DEF m, Total, AllEntries

\* Handing over a bucket moves tensors from what waits to what the engine has.
LEMMA HandOver ==
  ASSUME NEW r, NEW n, FedUpto(r, n), NEW X, NEW b,
         Has(b, ToSet(bucket[r]) \cup PairsOf(X))
  PROVE  \E E, F : /\ Fed(fed[r], ToSet(b.out)) = Told(E)
                   /\ b.open \in Seq(Good) /\ First(ToSet(b.open)) = F
                   /\ E \cup F = Total(n) \cup X
<1>1. PICK E, F : /\ fed[r] = Told(E) /\ First(ToSet(bucket[r])) = F
                  /\ E \cup F = Total(n)
  BY DEF FedUpto
<1> DEFINE O == ToSet(b.out)
           B == ToSet(b.open)
           A == ToSet(bucket[r])
<1>2. b.open \in Seq(Good) /\ O \subseteq Good /\ B \cup O = A \cup PairsOf(X)
  <2>1. b.open \in Seq(Good) /\ b.out \in Seq(Good) /\ B \cup O = A \cup PairsOf(X)
    BY DEF Has
  <2>2. O \subseteq Good
    BY <2>1 DEF ToSet
  <2> QED BY <2>1, <2>2
<1> HIDE DEF O, B, A
<1>3. Fed(fed[r], O) = Told(E \cup First(O))
  BY <1>1, <1>2, FedIs
<1>4. First(B) \cup First(O) = First(A) \cup X
  <2>1. \A P, Q : First(P \cup Q) = First(P) \cup First(Q)
    BY DEF First
  <2>2. First(B \cup O) = First(A \cup PairsOf(X))
    BY <1>2
  <2>3. First(PairsOf(X)) = X
    BY FirstOf
  <2> QED BY <2>1, <2>2, <2>3
<1>5. First(A) = F
  BY <1>1 DEF A
<1>6. (E \cup First(O)) \cup First(B) = Total(n) \cup X
  BY <1>1, <1>4, <1>5
<1> QED BY <1>2, <1>3, <1>6 DEF O, B

\* One more parameter: nothing is skipped, and all of it is handed over or waits.
LEMMA FeedParam == FeedInv /\ SyncParam => FeedInv'
<1> SUFFICES ASSUME FeedInv, SyncParam PROVE FeedInv'
  OBVIOUS
<1>1. /\ LoadInv /\ Feedable(job) /\ phase = "sync" /\ step <= Len(Meta) /\ ~job.value
      /\ job \in Jobs /\ step \in Positive /\ param = Holding /\ job' = job
  BY DEF FeedInv, LoadInv, SyncParam
<1>2. LoadInv'
  BY <1>1, SyncParamStep
<1>3. PICK n \in Nat : n + 1 = step
  <2>1. step - 1 \in Nat /\ (step - 1) + 1 = step
    BY <1>1 DEF Positive
  <2> QED BY <2>1
<1>4. n <= Len(Meta) /\ \A r \in Rank : FedUpto(r, n)
  BY <1>1, <1>3 DEF FeedInv
<1> DEFINE at == Meta[step]
<1>5. at \in MetaEntry /\ at.key \in Keys(at.pp)
  <2> DEFINE m == Meta
  <2>1. m \in Seq(MetaEntry) /\ ToSet(m) = {x \in MetaEntry : x.key \in Keys(x.pp)}
    BY <1>1, MetaIs
  <2>2. step \in Nat \ {0} /\ step <= Len(m)
    BY <1>1 DEF Positive
  <2> HIDE DEF m
  <2>3. step \in 1..Len(m) /\ DOMAIN m = 1..Len(m)
    BY <2>1, <2>2
  <2>4. m[step] \in ToSet(m)
    BY <2>3 DEF ToSet
  <2> QED BY <2>1, <2>4 DEF m
<1> HIDE DEF at
<1>6. \A r \in Rank : Yielded(r, at).ok /\ Reads(r, at)
  BY <1>1, <1>5, YieldedOk DEF Reads
<1>7. ~SkipsTied(at.key[2])
  <2>1. at.key[2] \in Names
    BY <1>5 DEF MetaEntry, Key
  <2> QED BY <2>1 DEF SkipsTied, Names
<1> DEFINE New(r) == Filling([open |-> bucket[r], out |-> <<>>], Yielded(r, at).pairs)
<1>8. /\ bucket' = [r \in Rank |-> New(r).open]
      /\ fed' = [r \in Rank |-> Fed(fed[r], ToSet(New(r).out))]
      /\ step' = step + 1 /\ phase' = phase
  BY <1>6, <1>7 DEF SyncParam, Filling, at
<1>9. ASSUME NEW r \in Rank
      PROVE  Has(New(r), ToSet(bucket[r]) \cup PairsOf(EntriesAt(at)))
  <2> DEFINE b == [open |-> bucket[r], out |-> <<>>]
  <2>1. bucket[r] \in Seq(Good)
    BY <1>4 DEF FedUpto
  <2>2. Has(b, ToSet(bucket[r]))
    <3>1. b.open = bucket[r] /\ b.out = <<>>
      OBVIOUS
    <3>2. Lists(Good, <<>>, {})
      BY ListsNone
    <3> HIDE DEF b
    <3> QED BY <2>1, <3>1, <3>2 DEF Has, Lists
  <2>3. Lists(Good, Yielded(r, at).pairs, PairsOf(EntriesAt(at)))
    BY <1>1, <1>6, YieldedIs
  <2> HIDE DEF b
  <2>4. Has(Filling(b, Yielded(r, at).pairs), ToSet(bucket[r]) \cup PairsOf(EntriesAt(at)))
    BY <2>2, <2>3, FoldHas
  <2> QED BY <2>4 DEF b
<1> HIDE DEF New
<1>10. ASSUME NEW r \in Rank
       PROVE  \E E, F : /\ fed'[r] = Told(E) /\ bucket'[r] \in Seq(Good)
                        /\ First(ToSet(bucket'[r])) = F /\ E \cup F = Total(n + 1)
  <2>1. fed'[r] = Fed(fed[r], ToSet(New(r).out)) /\ bucket'[r] = New(r).open
    BY <1>8
  <2>2. PICK E, F : /\ Fed(fed[r], ToSet(New(r).out)) = Told(E)
                    /\ New(r).open \in Seq(Good) /\ First(ToSet(New(r).open)) = F
                    /\ E \cup F = Total(n) \cup EntriesAt(at)
    BY <1>4, <1>9, HandOver
  <2>3. Total(n + 1) = Total(n) \cup EntriesAt(at)
    BY <1>1, <1>3, TotalIs DEF at
  <2> QED BY <2>1, <2>2, <2>3
<1>11. /\ Rank' = Rank /\ Meta' = Meta /\ Good' = Good
       /\ \A E : Told(E)' = Told(E)
       /\ \A k : Total(k)' = Total(k)
       /\ Feedable(job)'
  BY <1>1, SameFeed
<1>12. ASSUME NEW k \in Nat, k + 1 = step'
       PROVE  k <= Len(Meta') /\ \A r \in Rank' : FedUpto(r, k)'
  <2>1. k = n + 1
    BY <1>3, <1>8, <1>12
  <2>2. k <= Len(Meta')
    BY <1>1, <1>3, <1>11, <2>1
  <2>3. ASSUME NEW r \in Rank PROVE FedUpto(r, k)'
    BY <1>10, <1>11, <2>1 DEF FedUpto
  <2> QED BY <1>11, <2>2, <2>3
<1> QED BY <1>1, <1>2, <1>8, <1>11, <1>12 DEF FeedInv

\* The last bucket: the engine has it all.
LEMMA FeedLast == FeedInv /\ SyncEnd => FeedInv'
<1> SUFFICES ASSUME FeedInv, SyncEnd PROVE FeedInv'
  OBVIOUS
<1>1. /\ LoadInv /\ Feedable(job) /\ phase = "sync" /\ step > Len(Meta) /\ ~job.value
      /\ job \in Jobs /\ step \in Positive /\ job' = job
      /\ fed' = [r \in Rank |-> Fed(fed[r], ToSet(bucket[r]))]
      /\ phase' \in {"save", "merge"}
  BY DEF FeedInv, LoadInv, SyncEnd
<1>2. LoadInv'
  BY LoadNext, <1>1 DEF WeightsNext
<1>3. Len(Meta) \in Nat /\ Total(Len(Meta)) = AllEntries
  BY <1>1, TotalIs
<1>4. PICK n \in Nat : n + 1 = step
  <2>1. step - 1 \in Nat /\ (step - 1) + 1 = step
    BY <1>1 DEF Positive
  <2> QED BY <2>1
<1>5. n <= Len(Meta) /\ \A r \in Rank : FedUpto(r, n)
  BY <1>1, <1>4 DEF FeedInv
<1>6. n = Len(Meta)
  BY <1>1, <1>3, <1>4, <1>5
<1>7. ASSUME NEW r \in Rank PROVE fed'[r] = Told(AllEntries)
  <2>1. PICK E, F : /\ fed[r] = Told(E) /\ First(ToSet(bucket[r])) = F
                    /\ bucket[r] \in Seq(Good) /\ E \cup F = Total(n)
    BY <1>5 DEF FedUpto
  <2>2. ToSet(bucket[r]) \subseteq Good
    BY <2>1 DEF ToSet
  <2>3. Fed(Told(E), ToSet(bucket[r])) = Told(E \cup First(ToSet(bucket[r])))
    BY <2>2, FedIs
  <2> QED BY <1>1, <1>3, <1>6, <2>1, <2>3
<1>8. /\ Rank' = Rank /\ AllEntries' = AllEntries /\ Feedable(job)'
      /\ \A E : Told(E)' = Told(E)
  BY <1>1, SameFeed
<1>9. \A r \in Rank' : fed'[r] = Told(AllEntries)'
  <2>1. Told(AllEntries)' = Told(AllEntries)
    BY <1>8 DEF Told
  <2> QED BY <1>7, <1>8, <2>1
<1> QED BY <1>1, <1>2, <1>8, <1>9 DEF FeedInv

\* Loading does not touch the engine, and later phases leave it as it is.
LEMMA FeedOthers ==
  /\ FeedInv /\ (LoadItem \/ SpreadParams \/ LoadDist) => FeedInv'
  /\ FeedInv /\ (SaveItem \/ SaveEnd \/ MergeRank \/ MergeRefused) => FeedInv'
  /\ FeedInv /\ UNCHANGED weightVars => FeedInv'
<1> SUFFICES ASSUME FeedInv,
                    \/ LoadItem \/ SpreadParams \/ LoadDist
                    \/ SaveItem \/ SaveEnd \/ MergeRank \/ MergeRefused
                    \/ UNCHANGED weightVars
             PROVE  FeedInv'
  OBVIOUS
<1>1. job \in Jobs /\ LoadInv /\ Feedable(job) /\ job' = job /\ fed' = fed /\ bucket' = bucket
  BY DEF FeedInv, LoadInv, LoadItem, Fail, SpreadParams, LoadDist, SaveItem, SaveEnd, MergeRank,
         MergeRefused, weightVars
<1>2. LoadInv'
  BY <1>1, LoadNext DEF WeightsNext
<1>3. /\ Rank' = Rank /\ Meta' = Meta /\ Good' = Good /\ AllEntries' = AllEntries
      /\ \A E : Told(E)' = Told(E)
      /\ \A k : Total(k)' = Total(k)
      /\ Feedable(job)'
  BY <1>1, SameFeed
<1>4. Told(AllEntries)' = Told(AllEntries)
  BY <1>3 DEF Told
<1>5. ASSUME NEW r \in Rank, NEW n, FedUpto(r, n) PROVE FedUpto(r, n)'
  BY <1>1, <1>3, <1>5 DEF FedUpto
<1>6. CASE phase' = phase /\ (phase = "sync" => step' = step)
  BY <1>1, <1>2, <1>3, <1>4, <1>5, <1>6 DEF FeedInv
<1>7. CASE phase = "load" /\ phase' = (IF job.value THEN "save" ELSE "sync") /\ step' = 1
  <2>1. Len(Meta) \in Nat /\ Total(0) = {}
    BY <1>1, TotalIs
  <2>2. ASSUME NEW r \in Rank PROVE FedUpto(r, 0)
    <3>1. fed[r] = Told({}) /\ bucket[r] = <<>>
      BY <1>7, ToldNone DEF FeedInv
    <3>2. Lists(Good, <<>>, {})
      BY ListsNone
    <3>3. bucket[r] \in Seq(Good) /\ First(ToSet(bucket[r])) = {}
      BY <3>1, <3>2 DEF Lists, First
    <3> QED BY <2>1, <3>1, <3>3 DEF FedUpto
  <2>3. \A n \in Nat : n + 1 = step' => n = 0
    BY <1>7
  <2>4. \A n \in Nat : n + 1 = step' => n <= Len(Meta') /\ \A r \in Rank' : FedUpto(r, n)'
    <3> SUFFICES ASSUME NEW n \in Nat, n + 1 = step'
                 PROVE  n <= Len(Meta') /\ \A r \in Rank' : FedUpto(r, n)'
      OBVIOUS
    <3>1. n = 0
      BY <2>3
    <3> QED BY <1>3, <1>5, <2>1, <2>2, <3>1
  <2> QED BY <1>1, <1>2, <1>3, <1>7, <2>4 DEF FeedInv
<1>8. CASE phase \in {"save", "merge", "refused", "done"} /\ phase' \in {"save", "merge", "refused", "done"}
  BY <1>1, <1>2, <1>3, <1>4, <1>8 DEF FeedInv
<1>9. \/ phase' = phase /\ (phase = "sync" => step' = step)
      \/ phase = "load" /\ phase' = (IF job.value THEN "save" ELSE "sync") /\ step' = 1
      \/ phase \in {"save", "merge", "refused", "done"} /\ phase' \in {"save", "merge", "refused", "done"}
  <2>1. CASE LoadItem
    <3>1. phase = "load" /\ phase' \in {"load", "failed"}
      BY <2>1 DEF LoadItem, Fail
    <3>2. phase' # "failed"
      BY <1>2 DEF LoadInv
    <3> QED BY <3>1, <3>2
  <2>2. CASE SpreadParams \/ LoadDist
    BY <2>2 DEF SpreadParams, LoadDist
  <2>3. CASE SaveItem \/ SaveEnd \/ MergeRank \/ MergeRefused
    BY <2>3 DEF SaveItem, SaveEnd, MergeRank, MergeRefused
  <2>4. CASE UNCHANGED weightVars
    BY <2>4 DEF weightVars
  <2> QED BY <2>1, <2>2, <2>3, <2>4
<1> QED BY <1>6, <1>7, <1>8, <1>9

\* Nothing is handed over at the start.
LEMMA FeedInit == WeightsInit /\ Feedable(job) => FeedInv
<1> SUFFICES ASSUME WeightsInit, Feedable(job) PROVE FeedInv
  OBVIOUS
<1>1. LoadInv
  BY LoadInit
<1>2. phase = "load" /\ \A r \in Rank : fed[r] = <<>> /\ bucket[r] = <<>>
  BY DEF WeightsInit
<1> QED BY <1>1, <1>2 DEF FeedInv

\* No step disturbs the invariant of feeding.
LEMMA FeedNext == FeedInv /\ [WeightsNext]_weightVars => FeedInv'
BY FeedParam, FeedLast, FeedOthers DEF WeightsNext

\* The invariant is what was to be shown.
LEMMA FedWhole == FeedInv => EngineFedWhole
<1> SUFFICES ASSUME FeedInv PROVE EngineFedWhole
  OBVIOUS
<1>1. phase # "failed" /\ job \in Jobs
  BY DEF FeedInv, LoadInv
<1>2. AllEntries \cup {HeadEntry} = Entries /\ (~job.tied => HeadEntry \in AllEntries)
  <2>1. HeadEntry \in Entries
    BY EntriesAre
  <2> QED BY <1>1, <2>1, FedIsEntry, EntryIsFed
<1>3. ASSUME phase \in {"save", "merge", "refused", "done"}, ~job.value, NEW r \in Rank
      PROVE  IsCheckpoint(fed[r], ~job.tied)
  <2>1. fed[r] = Told(AllEntries)
    BY <1>3 DEF FeedInv
  <2>2. DOMAIN fed[r] = AllEntries /\ \A e \in AllEntries : fed[r][e] = Tensor(e[1], e[2], e[3])
    BY <2>1 DEF Told
  <2> QED BY <1>2, <1>3, <2>2 DEF IsCheckpoint, HeadEntry
<1> QED BY <1>1, <1>3 DEF EngineFedWhole

\* EngineFedWhole: an update hands the engine of every rank all entries of the
\* checkpoint, the layers and experts of all stages, chunks and ranks under the
\* numbers of the model and every tensor whole, whatever the grid of ranks is and
\* however the tensors are batched; and it never fails.
THEOREM Feeding ==
  ASSUME \A j \in Jobs : Feedable(j)
  PROVE  WeightsSpec => []EngineFedWhole
<1>1. WeightsInit => FeedInv
  <2>1. WeightsInit => job \in Jobs
    BY DEF WeightsInit
  <2> QED BY <2>1, FeedInit
<1> QED BY <1>1, FeedNext, FedWhole, PTL DEF WeightsSpec

=============================================================================
