---------------------------- MODULE AgentLoop_proofs ----------------------------
(***************************************************************************)
(* Proofs about the rollout of a batch, by SGLang's requests and by agent  *)
(* loops: for any number of slots, batches and servers, any configuration  *)
(* and any lengths of prompts, answers and observations.                   *)
(***************************************************************************)
EXTENDS AgentLoop, SequenceTheorems, FiniteSetTheorems, WellFoundedInduction,
        TLAPS

-----------------------------------------------------------------------------
(* Requests *)

Token == {"p", "G", "a", "e", "t", "u"}
Answer == {"a", "e"}

Waiting == {"pending", "building", "running", "engine", "tools",
            "interacting", "stepping", "rebuilding"}

Request ==
    [st : Waiting \cup {"done"}, ids : Seq(Token), mask : Seq(BOOLEAN),
     promptLen : 2..PromptLength, heard : Seq(Token),
     turns : Nat, userTurns : Nat,
     finish : {"none", "stop", "length", "tool_calls"},
     envTurns : Nat, closed : BOOLEAN,
     response : Seq(Token), respMask : Seq(BOOLEAN)]

(* Loss falls on answers. *)
Masked(ids, mask) ==
    /\ Len(ids) = Len(mask)
    /\ \A i \in 1..Len(ids) : mask[i] <=> ids[i] \in Answer

(* The tokens begin with the prompt; tools that speak when they are        *)
(* created take the place of its generation prompt.                        *)
Prompted(ids, n) ==
    /\ Len(ids) >= n
    /\ \A i \in 1..n : IF i = n THEN ids[i] \in {"G", "t"} ELSE ids[i] = "p"

(* What an element-wise comparison says of IsPrefix. *)
Begins(s, t) == Len(s) <= Len(t) /\ \A i \in 1..Len(s) : s[i] = t[i]

Sound(q) ==
    /\ q \in Request /\ Masked(q.ids, q.mask)
    /\ Prompted(q.ids, q.promptLen) /\ Begins(q.heard, q.ids)

(* IsPrefix of the library, element by element. *)
LEMMA BeginsIsPrefix ==
  ASSUME NEW S, NEW s \in Seq(S), NEW t \in Seq(S)
  PROVE  IsPrefix(s, t) <=> Begins(s, t)
<1>1. /\ Len(s) \in Nat /\ Len(t) \in Nat
      /\ \A i \in 1..Len(s) : s[i] \in S
      /\ \A i \in 1..Len(t) : t[i] \in S
  OBVIOUS
<1>2. CASE Len(s) <= Len(t)
  <2>1. /\ SubSeq(s, 1, Len(s)) \in Seq(S)
        /\ Len(SubSeq(s, 1, Len(s))) = Len(s)
        /\ \A i \in 1..Len(s) : SubSeq(s, 1, Len(s))[i] = s[i]
    BY <1>1, SubSeqProperties
  <2>2. /\ SubSeq(t, 1, Len(s)) \in Seq(S)
        /\ Len(SubSeq(t, 1, Len(s))) = Len(s)
        /\ \A i \in 1..Len(s) : SubSeq(t, 1, Len(s))[i] = t[i]
    BY <1>1, <1>2, SubSeqProperties
  <2>3. (\A i \in 1..Len(s) : s[i] = t[i])
          => SubSeq(s, 1, Len(s)) = SubSeq(t, 1, Len(s))
    BY <2>1, <2>2, SeqEqual
  <2>4. SubSeq(s, 1, Len(s)) = SubSeq(t, 1, Len(s))
          => \A i \in 1..Len(s) : s[i] = t[i]
    BY <2>1, <2>2
  <2> QED BY <1>2, <2>3, <2>4 DEF IsPrefix, Begins
<1>3. CASE ~(Len(s) <= Len(t))
  BY <1>3 DEF IsPrefix, Begins
<1> QED BY <1>2, <1>3

(* A token repeated n times. *)
LEMMA RepeatFacts ==
  ASSUME NEW S, NEW tok \in S, NEW n \in Nat
  PROVE  /\ Repeat(tok, n) \in Seq(S) /\ Len(Repeat(tok, n)) = n
         /\ \A i \in 1..n : Repeat(tok, n)[i] = tok
BY DEF Repeat

(* u is s and n times tok. *)
Extends(u, s, tok, n) ==
    /\ Len(u) = Len(s) + n
    /\ \A i \in 1..Len(s) : u[i] = s[i]
    /\ \A i \in Len(s) + 1..Len(s) + n : u[i] = tok

(* A sequence longer by a token repeated n times. *)
LEMMA ConcatRepeat ==
  ASSUME NEW S, NEW s \in Seq(S), NEW tok \in S, NEW n \in Nat
  PROVE  /\ s \o Repeat(tok, n) \in Seq(S)
         /\ Extends(s \o Repeat(tok, n), s, tok, n)
<1> DEFINE t == Repeat(tok, n)
<1>1. t \in Seq(S) /\ Len(t) = n /\ \A i \in 1..n : t[i] = tok
  BY RepeatFacts
<1> HIDE DEF t
<1>2. /\ s \o t \in Seq(S) /\ Len(s \o t) = Len(s) + n
      /\ \A i \in 1..Len(s) + n :
            (s \o t)[i] = IF i <= Len(s) THEN s[i] ELSE t[i - Len(s)]
  BY <1>1, ConcatProperties
<1>3. Len(s) \in Nat
  OBVIOUS
<1>4. \A i \in Len(s) + 1..Len(s) + n : i - Len(s) \in 1..n
  BY <1>3
<1>5. /\ \A i \in 1..Len(s) : (s \o t)[i] = s[i]
      /\ \A i \in Len(s) + 1..Len(s) + n : (s \o t)[i] = tok
  BY <1>1, <1>2, <1>3, <1>4
<1> QED BY <1>2, <1>5 DEF t, Extends

(* All but the rows of two requests agree. *)
Same(r, q) ==
    /\ r.st = q.st /\ r.promptLen = q.promptLen /\ r.heard = q.heard
    /\ r.turns = q.turns /\ r.userTurns = q.userTurns
    /\ r.finish = q.finish /\ r.envTurns = q.envTurns /\ r.closed = q.closed
    /\ r.response = q.response /\ r.respMask = q.respMask

(* The rows of r are those of q and n more tokens. *)
Longer(r, q, tok, n, loss) ==
    /\ r \in Request /\ Same(r, q)
    /\ Len(r.ids) = Len(q.ids) + n /\ Len(r.mask) = Len(q.ids) + n
    /\ \A i \in 1..Len(q.ids) : r.ids[i] = q.ids[i] /\ r.mask[i] = q.mask[i]
    /\ \A i \in Len(q.ids) + 1..Len(q.ids) + n :
         r.ids[i] = tok /\ r.mask[i] = loss

(* The rows grow together. *)
LEMMA UpdateFacts ==
  ASSUME NEW q \in Request, NEW tok \in Token, NEW n \in Nat,
         NEW loss \in BOOLEAN, Len(q.ids) = Len(q.mask)
  PROVE  Longer(Update(q, tok, n, loss), q, tok, n, loss)
<1> DEFINE x == q.ids \o Repeat(tok, n)
           y == q.mask \o Repeat(loss, n)
           r == [q EXCEPT !.ids = x, !.mask = y]
<1>1. /\ q.ids \in Seq(Token) /\ q.mask \in Seq(BOOLEAN) /\ Len(q.ids) \in Nat
  BY DEF Request
<1>2. x \in Seq(Token) /\ Extends(x, q.ids, tok, n)
  BY <1>1, ConcatRepeat
<1>3. y \in Seq(BOOLEAN) /\ Extends(y, q.mask, loss, n)
  BY <1>1, ConcatRepeat
<1>4. Update(q, tok, n, loss) = r
  BY DEF Update
<1> HIDE DEF x, y
<1>5. r \in Request /\ r.ids = x /\ r.mask = y /\ Same(r, q)
  BY <1>2, <1>3 DEF Request, Same
<1> HIDE DEF r
<1>6. Longer(r, q, tok, n, loss)
  BY <1>2, <1>3, <1>5 DEF Longer, Extends
<1> QED BY <1>4, <1>6

(* A request longer by tokens of one kind is sound. *)
LEMMA LongerSound ==
  ASSUME NEW q, Sound(q), NEW tok \in Token, NEW n \in Nat,
         NEW loss \in BOOLEAN, loss <=> tok \in Answer,
         NEW r, Longer(r, q, tok, n, loss)
  PROVE  Sound(r)
<1> DEFINE k == Len(q.ids)
<1>1. /\ q \in Request /\ k \in Nat /\ Len(q.heard) \in Nat
      /\ q.promptLen \in Nat /\ r.heard = q.heard
      /\ r.promptLen = q.promptLen
  BY DEF Sound, Request, Longer, Same
<1>2. Masked(r.ids, r.mask)
  <2> SUFFICES ASSUME NEW i \in 1..k + n
               PROVE  r.mask[i] <=> r.ids[i] \in Answer
    BY DEF Longer, Masked
  <2>1. CASE i \in 1..k
    BY <2>1 DEF Sound, Masked, Longer
  <2>2. CASE i \in k + 1..k + n
    BY <2>2 DEF Longer
  <2> QED BY <1>1, <2>1, <2>2
<1>3. Prompted(r.ids, r.promptLen)
  <2> DEFINE p == q.promptLen
  <2>1. /\ p \in Nat /\ k >= p /\ Len(r.ids) = k + n
        /\ \A i \in 1..k : r.ids[i] = q.ids[i]
        /\ \A i \in 1..p : IF i = p THEN q.ids[i] \in {"G", "t"}
                                     ELSE q.ids[i] = "p"
    BY <1>1 DEF Sound, Prompted, Longer
  <2> HIDE DEF k, p
  <2>2. Len(r.ids) >= p /\ \A i \in 1..p : r.ids[i] = q.ids[i]
    BY <1>1, <2>1
  <2>3. Prompted(r.ids, p)
    BY <2>1, <2>2 DEF Prompted
  <2> QED BY <1>1, <2>3 DEF p
<1>4. Begins(r.heard, r.ids)
  BY <1>1 DEF Sound, Begins, Longer
<1> QED BY <1>2, <1>3, <1>4 DEF Sound, Longer

(* _update_input_ids makes such a request. *)
LEMMA UpdateSound ==
  ASSUME NEW q, Sound(q), NEW tok \in Token, NEW n \in Nat,
         NEW loss \in BOOLEAN, loss <=> tok \in Answer
  PROVE  /\ Sound(Update(q, tok, n, loss))
         /\ Longer(Update(q, tok, n, loss), q, tok, n, loss)
<1>1. q \in Request /\ Len(q.ids) = Len(q.mask)
  BY DEF Sound, Masked
<1>2. Longer(Update(q, tok, n, loss), q, tok, n, loss)
  BY <1>1, UpdateFacts
<1> QED BY <1>2, LongerSound

(* u is what of s comes after n elements, m of them at most. *)
Piece(u, s, n, m) ==
    /\ Len(u) <= m
    /\ Len(u) = 0 \/ n + Len(u) <= Len(s)
    /\ Len(u) = m \/ n + Len(u) >= Len(s)
    /\ \A i \in 1..Len(u) : u[i] = s[n + i]

(* Pieces of rows of one length have one length. *)
LEMMA PieceLength ==
  ASSUME NEW s, NEW t, Len(s) \in Nat, Len(t) = Len(s), NEW n \in Nat,
         NEW m \in Nat, NEW u, NEW v, Len(u) \in Nat, Len(v) \in Nat,
         Piece(u, s, n, m), Piece(v, t, n, m)
  PROVE  Len(u) = Len(v) /\ Len(u) <= m /\ (Len(u) = 0 \/ n + Len(u) <= Len(s))
<1> DEFINE a == Len(u)
           b == Len(v)
           k == Len(s)
<1>1. /\ a \in Nat /\ b \in Nat /\ k \in Nat
      /\ a <= m /\ (a = 0 \/ n + a <= k) /\ (a = m \/ n + a >= k)
      /\ b <= m /\ (b = 0 \/ n + b <= k) /\ (b = m \/ n + b >= k)
  BY DEF Piece
<1> HIDE DEF a, b, k
<1>2. a = b
  BY <1>1
<1> QED BY <1>1, <1>2 DEF a, b, k

(* The first m elements of a sequence. *)
LEMMA CutFacts ==
  ASSUME NEW S, NEW s \in Seq(S), NEW m \in Nat
  PROVE  Cut(s, m) \in Seq(S) /\ Piece(Cut(s, m), s, 0, m)
<1> DEFINE k == IF Len(s) < m THEN Len(s) ELSE m
<1>1. /\ Len(s) \in Nat /\ k \in Nat /\ k <= Len(s)
      /\ \A i \in 1..k : s[i] \in S
  OBVIOUS
<1>2. Cut(s, m) = SubSeq(s, 1, k)
  BY DEF Cut
<1> HIDE DEF k
<1>3. /\ SubSeq(s, 1, k) \in Seq(S)
      /\ Len(SubSeq(s, 1, k)) = k
      /\ \A i \in 1..k : SubSeq(s, 1, k)[i] = s[i]
  BY <1>1, SubSeqProperties
<1> QED BY <1>1, <1>2, <1>3 DEF Piece, k

(* The first m tokens behind the prompt. *)
LEMMA AfterFacts ==
  ASSUME NEW S, NEW s \in Seq(S), NEW q, q.promptLen \in Nat, NEW m \in Nat
  PROVE  /\ Cut(AfterPrompt(s, q), m) \in Seq(S)
         /\ Piece(Cut(AfterPrompt(s, q), m), s, q.promptLen, m)
<1> DEFINE n == q.promptLen
           t == AfterPrompt(s, q)
<1>1. /\ Len(s) \in Nat /\ n \in Nat
      /\ \A i \in n + 1..Len(s) : s[i] \in S
  OBVIOUS
<1>2. t = SubSeq(s, n + 1, Len(s))
  BY DEF AfterPrompt
<1> HIDE DEF t, n
<1>3. /\ t \in Seq(S)
      /\ Len(t) = IF n + 1 <= Len(s) THEN Len(s) - n ELSE 0
      /\ \A i \in 1..Len(t) : t[i] = s[n + i]
  <2>1. /\ t \in Seq(S)
        /\ Len(t) = IF n + 1 <= Len(s) THEN Len(s) - (n + 1) + 1 ELSE 0
        /\ \A i \in 1..Len(s) - (n + 1) + 1 : t[i] = s[n + 1 + i - 1]
    BY <1>1, <1>2, SubSeqProperties
  <2>2. \A i \in 1..Len(t) : /\ i \in 1..Len(s) - (n + 1) + 1
                             /\ n + 1 + i - 1 = n + i
    BY <1>1, <2>1
  <2> QED BY <1>1, <2>1, <2>2
<1>4. Cut(t, m) \in Seq(S) /\ Piece(Cut(t, m), t, 0, m)
  BY <1>3, CutFacts
<1>5. Piece(Cut(t, m), s, n, m)
  <2> DEFINE u == Cut(t, m)
  <2> HIDE DEF u
  <2>1. /\ Len(u) <= m /\ Len(u) <= Len(t) /\ (Len(u) = m \/ Len(u) = Len(t))
        /\ Len(u) \in Nat
        /\ \A i \in 1..Len(u) : u[i] = t[i]
    BY <1>1, <1>3, <1>4 DEF Piece, u
  <2>2. /\ Len(u) = 0 \/ n + Len(u) <= Len(s)
        /\ Len(u) = m \/ n + Len(u) >= Len(s)
    BY <1>1, <1>3, <2>1
  <2>3. \A i \in 1..Len(u) : u[i] = s[n + i]
    BY <1>1, <1>3, <2>1, <2>2
  <2> QED BY <2>1, <2>2, <2>3 DEF Piece, u
<1> QED BY <1>4, <1>5 DEF t, n

(* What a request is handed back with: the loss falls on answers, and what *)
(* the policy saw last and what is trained on agree, but for the place of  *)
(* the generation prompt.                                                  *)
Agrees(f) ==
    LET whole == PromptOf(f) \o f.response
    IN  \A i \in 1..Len(whole) :
           i <= Len(f.heard) => \/ whole[i] = f.heard[i]
                                \/ i = f.promptLen /\ f.heard[i] = "t"

Trained(f) ==
    /\ f \in Request /\ Masked(f.ids, f.mask)
    /\ Masked(f.response, f.respMask) /\ Len(f.response) <= ResponseLength
    /\ Len(f.ids) <= MaxModelLen
    /\ Agrees(f)

(* The response of a sound request is a piece of its tokens.               *)
LEMMA PieceTrained ==
  ASSUME NEW q, Sound(q), NEW f \in Request, NEW m \in Nat,
         f.heard = q.heard, f.promptLen = q.promptLen,
         Piece(f.response, q.ids, q.promptLen, m),
         Piece(f.respMask, q.mask, q.promptLen, m)
  PROVE  /\ Masked(f.response, f.respMask) /\ Len(f.response) <= m
         /\ Agrees(f)
<1> DEFINE n == q.promptLen
           l == Len(f.response)
           whole == PromptOf(f) \o f.response
<1>1. /\ n \in Nat \ {0} /\ l \in Nat /\ Len(q.ids) \in Nat
      /\ Len(q.ids) = Len(q.mask) /\ n <= Len(q.ids)
      /\ Len(f.heard) \in Nat /\ Len(f.respMask) \in Nat
      /\ f.response \in Seq(Token)
  BY DEF Sound, Request, Masked, Prompted
<1>2. /\ Len(f.respMask) = l /\ l <= m /\ n + l <= Len(q.ids)
      /\ \A i \in 1..l : /\ f.response[i] = q.ids[n + i]
                         /\ f.respMask[i] = q.mask[n + i]
                         /\ n + i \in 1..Len(q.ids)
  <2>1. Len(f.respMask) = l /\ l <= m /\ (l = 0 \/ n + l <= Len(q.ids))
    BY <1>1, PieceLength
  <2>2. n + l <= Len(q.ids)
    BY <1>1, <2>1
  <2>3. \A i \in 1..l : f.response[i] = q.ids[n + i]
                        /\ f.respMask[i] = q.mask[n + i]
    BY <2>1 DEF Piece
  <2>4. \A i \in 1..l : n + i \in 1..Len(q.ids)
    BY <1>1, <2>2
  <2> QED BY <2>1, <2>2, <2>3, <2>4
<1>3. Masked(f.response, f.respMask)
  BY <1>1, <1>2 DEF Masked, Sound
<1>4. /\ PromptOf(f) \in Seq(Token) /\ Len(PromptOf(f)) = n
      /\ \A i \in 1..n : PromptOf(f)[i] = IF i = n THEN "G" ELSE "p"
  <2> DEFINE t == Repeat("p", n - 1)
  <2>1. t \in Seq(Token) /\ Len(t) = n - 1 /\ \A i \in 1..n - 1 : t[i] = "p"
    <3>1. "p" \in Token /\ n - 1 \in Nat
      BY <1>1 DEF Token
    <3> QED BY <3>1, RepeatFacts
  <2>2. PromptOf(f) = Append(t, "G") /\ "G" \in Token
    BY DEF PromptOf, Token
  <2> HIDE DEF t
  <2>3. /\ Append(t, "G") \in Seq(Token) /\ Len(Append(t, "G")) = Len(t) + 1
        /\ \A i \in 1..Len(t) : Append(t, "G")[i] = t[i]
        /\ Append(t, "G")[Len(t) + 1] = "G"
    BY <2>1, <2>2, AppendProperties
  <2> HIDE DEF n
  <2> QED BY <1>1, <2>1, <2>2, <2>3
<1>5. /\ whole \in Seq(Token) /\ Len(whole) = n + l
      /\ \A i \in 1..n + l :
            whole[i] = IF i <= n THEN PromptOf(f)[i] ELSE f.response[i - n]
  <2> DEFINE t == PromptOf(f)
             u == f.response
  <2>1. t \in Seq(Token) /\ u \in Seq(Token) /\ Len(t) = n /\ Len(u) = l
    BY <1>1, <1>4
  <2> HIDE DEF t, u, n, l
  <2>2. /\ t \o u \in Seq(Token) /\ Len(t \o u) = Len(t) + Len(u)
        /\ \A i \in 1..Len(t) + Len(u) :
              (t \o u)[i] = IF i <= Len(t) THEN t[i] ELSE u[i - Len(t)]
    BY <2>1, ConcatProperties
  <2> QED BY <2>1, <2>2 DEF t, u
<1> HIDE DEF whole, n, l
<1>6. \A i \in 1..n + l : whole[i] = q.ids[i] \/ (i = n /\ q.ids[i] = "t")
  <2> SUFFICES ASSUME NEW i \in 1..n + l
               PROVE  whole[i] = q.ids[i] \/ (i = n /\ q.ids[i] = "t")
    OBVIOUS
  <2>1. CASE i <= n
    <3>1. IF i = n THEN q.ids[i] \in {"G", "t"} ELSE q.ids[i] = "p"
      BY <1>1, <2>1 DEF Sound, Prompted, n
    <3> QED BY <1>1, <1>4, <1>5, <2>1, <3>1
  <2>2. CASE ~(i <= n)
    <3>1. i - n \in 1..l /\ n + (i - n) = i
      BY <1>1, <2>2
    <3> QED BY <1>2, <1>5, <2>2, <3>1
  <2> QED BY <2>1, <2>2
<1>7. Len(f.heard) <= Len(q.ids)
      /\ \A i \in 1..Len(f.heard) : f.heard[i] = q.ids[i]
  BY DEF Sound, Begins
<1>8. \A i \in 1..Len(whole) :
         i <= Len(f.heard) => \/ whole[i] = f.heard[i]
                              \/ i = f.promptLen /\ f.heard[i] = "t"
  <2> SUFFICES ASSUME NEW i \in 1..n + l, i <= Len(f.heard)
               PROVE  whole[i] = f.heard[i] \/ (i = n /\ f.heard[i] = "t")
    BY <1>5 DEF n
  <2>1. i \in 1..Len(f.heard)
    BY <1>1
  <2> QED BY <1>6, <1>7, <2>1
<1> QED BY <1>2, <1>3, <1>8 DEF Agrees, whole, l

(* r is q, or q without its generation prompt. *)
Trimmed(r, q) ==
    /\ r \in Request /\ Same(r, q)
    /\ Len(r.ids) = Len(r.mask)
    /\ q.ids[Len(q.ids)] = "G" => Len(r.ids) + 1 = Len(q.ids)
    /\ q.ids[Len(q.ids)] # "G" => Len(r.ids) = Len(q.ids)
    /\ \A i \in 1..Len(r.ids) : r.ids[i] = q.ids[i] /\ r.mask[i] = q.mask[i]

(* Without the trailing generation prompt. *)
LEMMA RemoveFacts ==
  ASSUME NEW q, Sound(q)
  PROVE  Trimmed(RemovePrompt(q), q)
<1> DEFINE k == Len(q.ids)
           x == Front(q.ids)
           y == Front(q.mask)
<1>1. /\ q \in Request /\ q.ids \in Seq(Token) /\ q.mask \in Seq(BOOLEAN)
      /\ k \in Nat \ {0} /\ Len(q.mask) = k /\ q.ids # <<>>
      /\ \A i \in 1..k : q.ids[i] \in Token /\ q.mask[i] \in BOOLEAN
  BY DEF Sound, Request, Masked, Prompted
<1>2. EndsInPrompt(q) <=> q.ids[k] = "G"
  BY <1>1 DEF EndsInPrompt, Last
<1>3. /\ x \in Seq(Token) /\ Len(x) = k - 1
      /\ \A i \in 1..k - 1 : x[i] = q.ids[i]
  BY <1>1, SubSeqProperties DEF Front
<1>4. /\ y \in Seq(BOOLEAN) /\ Len(y) = k - 1
      /\ \A i \in 1..k - 1 : y[i] = q.mask[i]
  <2>1. /\ SubSeq(q.mask, 1, k - 1) \in Seq(BOOLEAN)
        /\ Len(SubSeq(q.mask, 1, k - 1)) = IF 1 <= k - 1 THEN k - 1 ELSE 0
        /\ \A i \in 1..k - 1 : SubSeq(q.mask, 1, k - 1)[i] = q.mask[i]
    <3>1. \A i \in 1..k - 1 : q.mask[i] \in BOOLEAN
      BY <1>1
    <3> QED BY <1>1, <3>1, SubSeqProperties
  <2> QED BY <1>1, <2>1 DEF Front
<1>5. CASE q.ids[k] = "G"
  <2> DEFINE r == [q EXCEPT !.ids = x, !.mask = y]
  <2> HIDE DEF x, y
  <2>1. RemovePrompt(q) = r
    BY <1>2, <1>5 DEF RemovePrompt, x, y
  <2>2. r \in Request /\ Same(r, q) /\ r.ids = x /\ r.mask = y
    BY <1>1, <1>3, <1>4 DEF Request, Same
  <2> HIDE DEF r
  <2> QED BY <1>1, <1>3, <1>4, <1>5, <2>1, <2>2 DEF Trimmed
<1>6. CASE q.ids[k] # "G"
  <2>1. RemovePrompt(q) = q
    BY <1>2, <1>6 DEF RemovePrompt
  <2> QED BY <1>1, <1>6, <2>1 DEF Trimmed, Same
<1> QED BY <1>5, <1>6

(* The limits of a configuration, as the proofs use them. *)
LEMMA Limits ==
  /\ PromptLength \in Nat /\ ResponseLength \in Nat \ {0}
  /\ MaxModelLen \in Nat /\ MaxModelLen >= PromptLength + ResponseLength
  /\ RequestLen = PromptLength + ResponseLength
  /\ MaxAssistantTurns \in Nat \ {0} /\ MaxUserTurns \in Nat
  /\ AnswerLens \subseteq Nat /\ ObsLens \subseteq Nat \ {0}
  /\ CreateLens \subseteq Nat /\ 0 \in CreateLens
BY RolloutAssumption DEF RequestLen

(* What finalize makes of a request. *)
Cropped(f, q, r) ==
    /\ f.st = "done" /\ f.heard = q.heard /\ f.promptLen = q.promptLen
    /\ f \in Request
    /\ Piece(f.ids, r.ids, 0, RequestLen)
    /\ Piece(f.mask, r.mask, 0, RequestLen)
    /\ Piece(f.response, f.ids, q.promptLen, ResponseLength)
    /\ Piece(f.respMask, f.mask, q.promptLen, ResponseLength)

(* finalize trims a request and cuts what is too long. *)
LEMMA FinalizeFacts ==
  ASSUME NEW q, Sound(q), NEW reason \in {"stop", "length"}
  PROVE  Cropped(Finalize(q, reason), q, RemovePrompt(q))
<1> DEFINE r == RemovePrompt(q)
           ids == Cut(r.ids, RequestLen)
           msk == Cut(r.mask, RequestLen)
           rsp == Cut(AfterPrompt(ids, q), ResponseLength)
           rms == Cut(AfterPrompt(msk, q), ResponseLength)
           f == [r EXCEPT !.st = "done", !.finish = reason,
                          !.ids = ids, !.mask = msk,
                          !.response = rsp, !.respMask = rms]
<1>1. Trimmed(r, q) /\ q \in Request
  BY RemoveFacts DEF Sound
<1>2. r \in Request /\ r.ids \in Seq(Token) /\ r.mask \in Seq(BOOLEAN)
      /\ q.promptLen \in Nat /\ RequestLen \in Nat /\ ResponseLength \in Nat
  <2>1. PromptLength \in Nat /\ q.promptLen \in 2..PromptLength
    BY <1>1, Limits DEF Request
  <2>2. r \in Request /\ r.ids \in Seq(Token) /\ r.mask \in Seq(BOOLEAN)
    BY <1>1 DEF Trimmed, Request
  <2> HIDE DEF r
  <2> QED BY <2>1, <2>2, Limits
<1>3. Finalize(q, reason) = f
  BY DEF Finalize
<1> HIDE DEF r
<1>4. /\ ids \in Seq(Token) /\ Piece(ids, r.ids, 0, RequestLen)
      /\ msk \in Seq(BOOLEAN) /\ Piece(msk, r.mask, 0, RequestLen)
  BY <1>2, CutFacts
<1> HIDE DEF ids, msk
<1>5. /\ rsp \in Seq(Token) /\ Piece(rsp, ids, q.promptLen, ResponseLength)
      /\ rms \in Seq(BOOLEAN) /\ Piece(rms, msk, q.promptLen, ResponseLength)
  BY <1>2, <1>4, AfterFacts
<1> HIDE DEF rsp, rms
<1>6. /\ f \in Request /\ f.st = "done" /\ f.ids = ids /\ f.mask = msk
      /\ f.response = rsp /\ f.respMask = rms
      /\ f.heard = r.heard /\ f.promptLen = r.promptLen
  BY <1>2, <1>4, <1>5 DEF Request
<1> HIDE DEF f
<1>7. Cropped(f, q, r)
  BY <1>1, <1>4, <1>5, <1>6 DEF Cropped, Trimmed, Same
<1> QED BY <1>3, <1>7 DEF r

(* A request ends on what the policy saw, or its length is used up. *)
Answering(q, c) ==
    (~Begins(q.ids, q.heard) /\ q.ids[Len(q.ids)] \in {"u", "t", "G"}) =>
        ~c.agent /\ Len(q.ids) + 2 >= RequestLen

Handed(q, c) == q.st = "done" /\ Trained(q) /\ Answering(q, c)

(* The types of a request's fields. *)
LEMMA RequestType ==
  ASSUME NEW q \in Request
  PROVE  /\ q.ids \in Seq(Token) /\ q.mask \in Seq(BOOLEAN)
         /\ q.heard \in Seq(Token) /\ q.response \in Seq(Token)
         /\ q.respMask \in Seq(BOOLEAN)
         /\ Len(q.ids) \in Nat /\ Len(q.mask) \in Nat /\ Len(q.heard) \in Nat
         /\ Len(q.response) \in Nat /\ Len(q.respMask) \in Nat
         /\ q.promptLen \in Nat /\ q.promptLen >= 2
         /\ q.promptLen <= PromptLength
         /\ q.turns \in Nat /\ q.userTurns \in Nat /\ q.envTurns \in Nat
<1>1. /\ q.ids \in Seq(Token) /\ q.mask \in Seq(BOOLEAN)
      /\ q.heard \in Seq(Token) /\ q.response \in Seq(Token)
      /\ q.respMask \in Seq(BOOLEAN) /\ q.promptLen \in 2..PromptLength
      /\ q.turns \in Nat /\ q.userTurns \in Nat /\ q.envTurns \in Nat
  BY DEF Request
<1>2. PromptLength \in Nat
  BY Limits
<1>3. q.promptLen \in Nat /\ q.promptLen >= 2 /\ q.promptLen <= PromptLength
  BY <1>1, <1>2
<1> QED BY <1>1, <1>3, LenProperties

(* The length of a sound request. *)
LEMMA SoundType ==
  ASSUME NEW q, Sound(q)
  PROVE  /\ q \in Request /\ Len(q.mask) = Len(q.ids)
         /\ Len(q.ids) >= q.promptLen /\ Len(q.heard) <= Len(q.ids)
BY DEF Sound, Masked, Prompted, Begins

(* A request is handed out finished, with a loss on its answers alone. *)
LEMMA FinishHands ==
  ASSUME NEW q, Sound(q), NEW reason \in {"stop", "length"}, NEW c, ~c.agent,
         \/ Len(RemovePrompt(q).ids) + 2 >= RequestLen
         \/ q.heard = q.ids
  PROVE  Handed(Finish(q, reason), c)
<1> DEFINE r == RemovePrompt(q)
           f == Finish(q, reason)
           n == q.promptLen
           k == Len(q.ids)
<1>1. Trimmed(r, q)
  BY RemoveFacts
<1>2. Cropped(f, q, r)
  <2>1. \E why \in {"stop", "length"} : f = Finalize(q, why)
    BY DEF Finish
  <2> QED BY <2>1, FinalizeFacts
<1> HIDE DEF r, f
<1>3. /\ q \in Request /\ f \in Request /\ k \in Nat /\ n \in Nat /\ n >= 2
      /\ k >= n /\ Len(f.ids) \in Nat /\ Len(f.response) \in Nat
      /\ f.ids \in Seq(Token) /\ q.ids \in Seq(Token)
      /\ Len(f.mask) \in Nat /\ Len(f.respMask) \in Nat
  <2>1. q \in Request /\ f \in Request
    BY <1>2, SoundType DEF Cropped
  <2> QED BY <2>1, RequestType, SoundType
<1>4. /\ RequestLen \in Nat /\ RequestLen > 0 /\ RequestLen <= MaxModelLen
      /\ MaxModelLen \in Nat /\ ResponseLength \in Nat
  BY Limits
<1>5. /\ Len(r.ids) \in Nat /\ Len(r.ids) > 0 /\ Len(r.mask) = Len(r.ids)
      /\ q.ids[k] = "G" => Len(r.ids) + 1 = k
      /\ q.ids[k] # "G" => Len(r.ids) = k
      /\ \A i \in 1..Len(r.ids) : r.ids[i] = q.ids[i] /\ r.mask[i] = q.mask[i]
  <2>1. r \in Request
    BY <1>1 DEF Trimmed
  <2>2. Len(r.ids) + 1 = k \/ Len(r.ids) = k
    BY <1>1 DEF Trimmed
  <2>3. Len(r.ids) > 0
    BY <1>3, <2>2
  <2> QED BY <1>1, <2>1, <2>3, RequestType DEF Trimmed
<1>6. /\ Len(f.ids) <= Len(r.ids) /\ Len(f.ids) <= RequestLen
      /\ Len(f.ids) = RequestLen \/ Len(f.ids) = Len(r.ids)
      /\ Len(f.mask) = Len(f.ids) /\ Len(f.ids) <= k
      /\ \A i \in 1..Len(f.ids) : f.ids[i] = q.ids[i] /\ f.mask[i] = q.mask[i]
  <2>1. /\ Len(f.ids) <= Len(r.ids) /\ Len(f.ids) <= RequestLen
        /\ Len(f.ids) = RequestLen \/ Len(f.ids) = Len(r.ids)
        /\ Len(f.mask) = Len(f.ids)
    BY <1>2, <1>3, <1>4, <1>5 DEF Cropped, Piece
  <2>2. \A i \in 1..Len(f.ids) : f.ids[i] = r.ids[i] /\ f.mask[i] = r.mask[i]
    BY <1>2, <1>3, <2>1 DEF Cropped, Piece
  <2>3. Len(r.ids) <= k
    BY <1>3, <1>5
  <2> HIDE DEF k, n
  <2> QED BY <1>3, <1>5, <2>1, <2>2, <2>3
<1> DEFINE l == Len(f.response)
<1>7. /\ Piece(f.response, q.ids, n, l) /\ Piece(f.respMask, q.mask, n, l)
      /\ l <= ResponseLength
  <2>1. k = Len(q.mask)
    BY DEF Sound, Masked
  <2>2. /\ l <= ResponseLength /\ (l = 0 \/ n + l <= Len(f.ids))
        /\ l = ResponseLength \/ n + l >= Len(f.ids)
        /\ Len(f.respMask) = l
        /\ \A i \in 1..l : f.response[i] = f.ids[n + i]
                          /\ f.respMask[i] = f.mask[n + i]
    <3>1. Len(f.respMask) = l
      <4>1. /\ Piece(f.response, f.ids, n, ResponseLength)
            /\ Piece(f.respMask, f.mask, n, ResponseLength)
        BY <1>2 DEF Cropped
      <4> HIDE DEF n
      <4> QED BY <1>3, <1>4, <1>6, <4>1, PieceLength
    <3> QED BY <1>2, <3>1 DEF Cropped, Piece
  <2>3. \A i \in 1..l : n + i \in 1..Len(f.ids)
    BY <1>3, <1>4, <2>2
  <2>4. \A i \in 1..l : f.response[i] = q.ids[n + i]
                        /\ f.respMask[i] = q.mask[n + i]
    BY <1>6, <2>2, <2>3
  <2>5. l = 0 \/ n + l <= k
    BY <1>3, <1>6, <2>2
  <2> QED BY <2>1, <2>2, <2>4, <2>5 DEF Piece
<1>8. Masked(f.response, f.respMask) /\ Agrees(f)
  <2>1. f.heard = q.heard /\ f.promptLen = q.promptLen
    BY <1>2 DEF Cropped
  <2> QED BY <1>3, <1>7, <2>1, PieceTrained
<1>9. Masked(f.ids, f.mask) /\ Len(f.ids) <= MaxModelLen
  <2>1. \A i \in 1..Len(f.ids) : q.mask[i] <=> q.ids[i] \in Answer
    <3>1. \A i \in 1..k : q.mask[i] <=> q.ids[i] \in Answer
      BY DEF Sound, Masked
    <3>2. Len(f.ids) <= k
      BY <1>6
    <3> HIDE DEF k
    <3> QED BY <1>3, <3>1, <3>2
  <2>2. Len(f.ids) <= MaxModelLen
    BY <1>3, <1>4, <1>6
  <2>3. \A i \in 1..Len(f.ids) : f.mask[i] <=> f.ids[i] \in Answer
    BY <1>6, <2>1
  <2> QED BY <1>6, <2>2, <2>3 DEF Masked
<1>10. Answering(f, c)
  <2>1. CASE q.heard = q.ids
    <3>1. f.heard = q.ids
      BY <1>2, <2>1 DEF Cropped
    <3> QED BY <1>6, <3>1 DEF Begins, Answering, k
  <2>2. CASE Len(r.ids) + 2 >= RequestLen
    <3>1. Len(f.ids) + 2 >= RequestLen
      BY <1>3, <1>4, <1>5, <1>6, <2>2
    <3> QED BY <3>1 DEF Answering
  <2> QED BY <2>1, <2>2 DEF r
<1> QED BY <1>2, <1>3, <1>7, <1>8, <1>9, <1>10 DEF Handed, Trained, Cropped, f
-----------------------------------------------------------------------------
(* A request in flight *)

(* The policy has seen all the tokens of a request in these states. *)
Heard == {"engine", "tools", "interacting", "stepping", "rebuilding"}

(* The answer is complete in these states, and another turn is left.       *)
TurnLeft == {"tools", "interacting", "stepping", "rebuilding"}

InTurn(q) ==
    /\ q.st = "pending" => Len(q.ids) = q.promptLen /\ q.heard = <<>>
    /\ q.st = "engine" => Len(q.ids) + 1 < MaxModelLen
    /\ q.st \in TurnLeft => q.turns < MaxAssistantTurns
    /\ q.st = "tools" => q.ids[Len(q.ids)] # "G"

Alive(q, c) ==
    /\ Sound(q) /\ q.st \in Waiting
    /\ q.st \in Heard => q.heard = q.ids
    /\ c.agent => Len(q.ids) < q.promptLen + ResponseLength
    /\ ~c.agent => InTurn(q)

Fit(q, c) == Alive(q, c) \/ Handed(q, c)

(* What a step leaves of the rows is what makes a request sound. *)
LEMMA SoundCopy ==
  ASSUME NEW q, Sound(q), NEW r \in Request,
         r.ids = q.ids, r.mask = q.mask, r.promptLen = q.promptLen,
         r.heard = q.heard \/ r.heard = q.ids
  PROVE  Sound(r)
BY SoundType, RequestType DEF Sound, Begins

(* A fresh request fits the invariant. *)
LEMMA FreshFits ==
  ASSUME NEW p \in PromptLens, NEW c
  PROVE  Alive(Fresh(p), c)
<1> DEFINE q == Fresh(p)
           t == Repeat("p", p - 1)
           x == Append(t, "G")
           y == Repeat(FALSE, p)
<1>1. p \in 2..PromptLength /\ p \in Nat /\ p - 1 \in Nat /\ p >= 2
      /\ ResponseLength \in Nat /\ ResponseLength > 0
  <2>1. p \in 2..PromptLength
    BY RolloutAssumption
  <2> QED BY <2>1, Limits
<1>2. t \in Seq(Token) /\ Len(t) = p - 1 /\ \A i \in 1..p - 1 : t[i] = "p"
  <2>1. "p" \in Token
    BY DEF Token
  <2> QED BY <1>1, <2>1, RepeatFacts
<1>3. y \in Seq(BOOLEAN) /\ Len(y) = p /\ \A i \in 1..p : y[i] = FALSE
  <2>1. FALSE \in BOOLEAN
    OBVIOUS
  <2> QED BY <1>1, <2>1, RepeatFacts
<1> HIDE DEF t, y
<1>4. /\ x \in Seq(Token) /\ Len(x) = p
      /\ \A i \in 1..p : x[i] = IF i = p THEN "G" ELSE "p"
  <2>1. "G" \in Token
    BY DEF Token
  <2>2. /\ x \in Seq(Token) /\ Len(x) = Len(t) + 1
        /\ \A i \in 1..Len(t) : x[i] = t[i]
        /\ x[Len(t) + 1] = "G"
    BY <1>2, <2>1, AppendProperties
  <2> HIDE DEF x
  <2> QED BY <1>1, <1>2, <2>2
<1> HIDE DEF x
<1>5. /\ q = [st |-> "pending", ids |-> x, mask |-> y, promptLen |-> p,
              heard |-> <<>>, turns |-> 0, userTurns |-> 0, finish |-> "none",
              envTurns |-> 0, closed |-> FALSE,
              response |-> <<>>, respMask |-> <<>>]
  BY DEF Fresh, x, y, t
<1> HIDE DEF q
<1>6. /\ q \in Request /\ q.ids = x /\ q.mask = y /\ q.promptLen = p
      /\ q.heard = <<>> /\ q.turns = 0 /\ q.st = "pending"
  BY <1>1, <1>3, <1>4, <1>5 DEF Request, Waiting
<1>7. Sound(q)
  <2>1. Masked(x, y)
    BY <1>3, <1>4 DEF Masked, Answer
  <2>2. Prompted(x, p) /\ Begins(<<>>, x)
    BY <1>1, <1>4 DEF Prompted, Begins
  <2> QED BY <1>6, <2>1, <2>2 DEF Sound
<1> QED BY <1>1, <1>4, <1>6, <1>7
        DEF Alive, InTurn, Waiting, Heard, TurnLeft, q

(* The generation prompt is added to the tokens, if it is. *)
LEMMA WithPromptFacts ==
  ASSUME NEW q, Sound(q)
  PROVE  Sound(WithPrompt(q)) /\ Same(WithPrompt(q), q)
<1>1. CASE WithPrompt(q) = q
  BY <1>1 DEF Same
<1>2. CASE WithPrompt(q) # q
  <2> DEFINE w == Update(q, "G", 1, FALSE)
  <2>1. WithPrompt(q) = w
    BY <1>2 DEF WithPrompt
  <2>2. Sound(w) /\ Longer(w, q, "G", 1, FALSE)
    <3>1. "G" \in Token /\ 1 \in Nat /\ FALSE \in BOOLEAN
          /\ (FALSE <=> "G" \in Answer)
      BY DEF Token, Answer
    <3> QED BY <3>1, UpdateSound
  <2> HIDE DEF w
  <2> QED BY <2>1, <2>2 DEF Longer
<1> QED BY <1>1, <1>2

(* An answer: what the policy sees next is what it said. *)
Spoken(a, q, n) ==
    /\ Sound(a) /\ a.heard = a.ids /\ a.turns = q.turns + 1
    /\ a.promptLen = q.promptLen /\ a.closed = q.closed
    /\ a.envTurns = q.envTurns /\ a.userTurns = q.userTurns
    /\ n > 0 => a.ids[Len(a.ids)] # "G"

(* An answer that is added leaves a sound request. *)
LEMMA AddAnswerFacts ==
  ASSUME NEW q, Sound(q), NEW n \in Nat
  PROVE  LET x == AddAnswer(q, n)
         IN  /\ Sound(x) /\ Same(x, q)
             /\ n > 0 => x.ids[Len(x.ids)] # "G"
<1> DEFINE u == Update(q, "a", n, TRUE)
           v == Update(u, "e", 1, TRUE)
<1>1. Sound(u) /\ Longer(u, q, "a", n, TRUE)
  <2>1. "a" \in Token /\ TRUE \in BOOLEAN /\ (TRUE <=> "a" \in Answer)
    BY DEF Token, Answer
  <2> QED BY <2>1, UpdateSound
<1> HIDE DEF u
<1>2. Sound(v) /\ Longer(v, u, "e", 1, TRUE)
  <2>1. "e" \in Token /\ 1 \in Nat /\ TRUE \in BOOLEAN
        /\ (TRUE <=> "e" \in Answer)
    BY DEF Token, Answer
  <2> QED BY <1>1, <2>1, UpdateSound
<1> HIDE DEF v
<1>3. /\ Len(q.ids) \in Nat /\ q.promptLen \in Nat /\ Len(u.ids) \in Nat
      /\ Len(q.ids) >= q.promptLen /\ q.promptLen >= 2
  BY <1>1, SoundType, RequestType
<1>4. CASE setup.conversation
  <2>1. AddAnswer(q, n) = v
    BY <1>4 DEF AddAnswer, u, v
  <2>2. Same(v, q)
    BY <1>1, <1>2 DEF Longer, Same
  <2>3. v.ids[Len(v.ids)] = "e"
    BY <1>2, <1>3 DEF Longer
  <2> QED BY <1>2, <2>1, <2>2, <2>3
<1>5. CASE ~setup.conversation
  <2>1. AddAnswer(q, n) = u
    BY <1>5 DEF AddAnswer, u
  <2>2. /\ Same(u, q) /\ u.promptLen = q.promptLen
        /\ Len(u.ids) = Len(q.ids) + n
        /\ \A i \in 1..Len(q.ids) : u.ids[i] = q.ids[i]
        /\ \A i \in Len(q.ids) + 1..Len(q.ids) + n : u.ids[i] = "a"
    BY <1>1 DEF Longer, Same
  <2>3. n > 0 => u.ids[Len(u.ids)] = "a"
    BY <1>3, <2>2
  <2> QED BY <1>1, <2>1, <2>2, <2>3
<1> QED BY <1>4, <1>5

(* So does one that comes from the engine. *)
LEMMA AnsweredFacts ==
  ASSUME NEW s, Sound(reqs[s]), NEW n \in Nat,
         NEW reason \in {"stop", "length", "tool_calls"}
  PROVE  Spoken(Answered(s, n, reason), reqs[s], n)
<1> DEFINE q == reqs[s]
           x == AddAnswer(q, n)
           a == Answered(s, n, reason)
<1>1. /\ Sound(x) /\ Same(x, q)
      /\ n > 0 => x.ids[Len(x.ids)] # "G"
  BY AddAnswerFacts
<1> DEFINE m == x.turns + 1
           y == x.ids
<1>2. a = [x EXCEPT !.turns = m, !.finish = reason, !.heard = y]
  BY DEF Answered
<1> HIDE DEF a, x
<1>3. x \in Request /\ x.ids \in Seq(Token) /\ x.turns \in Nat
      /\ x.turns = q.turns /\ x.promptLen = q.promptLen /\ x.closed = q.closed
      /\ x.envTurns = q.envTurns /\ x.userTurns = q.userTurns
  BY <1>1, SoundType, RequestType DEF Same
<1>4. /\ a \in Request /\ a.ids = x.ids /\ a.mask = x.mask
      /\ a.promptLen = x.promptLen /\ a.heard = x.ids /\ a.turns = x.turns + 1
      /\ a.closed = x.closed /\ a.envTurns = x.envTurns
      /\ a.userTurns = x.userTurns
  <2>1. m \in Nat /\ y \in Seq(Token)
        /\ reason \in {"none", "stop", "length", "tool_calls"}
    BY <1>3
  <2> HIDE DEF m, y
  <2>2. /\ a \in Request /\ a.ids = x.ids /\ a.mask = x.mask
        /\ a.promptLen = x.promptLen /\ a.heard = y /\ a.turns = m
        /\ a.closed = x.closed /\ a.envTurns = x.envTurns
        /\ a.userTurns = x.userTurns
    BY <1>2, <1>3, <2>1 DEF Request
  <2> QED BY <2>2 DEF m, y
<1>5. Sound(a)
  BY <1>1, <1>4, SoundCopy
<1> QED BY <1>1, <1>3, <1>4, <1>5 DEF Spoken, a, q
-----------------------------------------------------------------------------
(* Every step of a request of SGLang's loop keeps it fit. *)

Rows == /\ setup \in Setups /\ reqs \in [Slots -> Request]
        /\ \A s \in Slots : Fit(reqs[s], setup)

(* It is enough that the request that changes fits. *)
LEMMA BecomeFits ==
  ASSUME Rows, NEW s \in Slots, NEW q, Fit(q, setup), Become(s, q),
         UNCHANGED setup
  PROVE  Rows'
<1>1. q \in Request
  BY SoundType DEF Fit, Alive, Handed, Trained
<1>2. reqs' \in [Slots -> Request]
      /\ \A x \in Slots : reqs'[x] = IF x = s THEN q ELSE reqs[x]
  BY <1>1 DEF Rows, Become
<1>3. \A x \in Slots : Fit(reqs'[x], setup)
  BY <1>2 DEF Rows
<1> QED BY <1>2, <1>3 DEF Rows

(* What holds of a request that is not done. *)
LEMMA InFlight ==
  ASSUME Rows, NEW s \in Slots, reqs[s].st # "done"
  PROVE  Alive(reqs[s], setup) /\ Sound(reqs[s]) /\ reqs[s] \in Request
BY SoundType DEF Rows, Fit, Handed, Alive

(* Steps that wait for the environment leave the rows alone. *)
Moves == {<<"building", "running">>,
          <<"interacting", "stepping">>, <<"interacting", "rebuilding">>,
          <<"rebuilding", "stepping">>}

(* A move of the status alone fits. *)
LEMMA StatusFits ==
  ASSUME NEW q, NEW c, ~c.agent, Alive(q, c), NEW r \in Request,
         r.ids = q.ids, r.mask = q.mask, r.promptLen = q.promptLen,
         r.heard = q.heard, r.turns = q.turns, <<q.st, r.st>> \in Moves
  PROVE  Fit(r, c)
<1>1. Sound(r)
  BY SoundCopy DEF Alive
<1>2. \/ q.st = "building" /\ r.st = "running"
      \/ q.st = "interacting" /\ r.st \in {"stepping", "rebuilding"}
      \/ q.st = "rebuilding" /\ r.st = "stepping"
  BY DEF Moves
<1>3. r.st \in Waiting /\ (r.st \in Heard => r.heard = r.ids)
  BY <1>2 DEF Alive, Waiting, Heard
<1>4. InTurn(r)
  BY <1>2 DEF Alive, InTurn, TurnLeft
<1> QED BY <1>1, <1>3, <1>4 DEF Fit, Alive

(* What tools say when created keeps a request that has heard nothing      *)
(* sound: it goes where the generation prompt was.                         *)
LEMMA CreatedFacts ==
  ASSUME NEW q, Sound(q), Len(q.ids) = q.promptLen, q.heard = <<>>,
         NEW n \in Nat
  PROVE  LET o == AddToolOutput(q, n)
         IN  Sound(o) /\ Same(o, q)
<1> DEFINE p == q.promptLen
           o == AddToolOutput(q, n)
           w == RemovePrompt(q)
<1>1. CASE n = 0
  BY <1>1 DEF AddToolOutput, Same
<1>2. CASE n # 0
  <2>1. /\ p \in Nat /\ p >= 2 /\ Len(q.ids) = p /\ n > 0
        /\ q.ids[p] \in {"G", "t"} /\ \A i \in 1..p - 1 : q.ids[i] = "p"
        /\ \A i \in 1..p : q.mask[i] <=> q.ids[i] \in Answer
    <3>1. q \in Request
      BY SoundType
    <3>2. p \in Nat /\ p >= 2 /\ Len(q.ids) = p /\ n > 0
      BY <1>2, <3>1, RequestType
    <3> HIDE DEF p
    <3>3. q.promptLen = p
      BY DEF p
    <3> QED BY <3>2, <3>3 DEF Sound, Prompted, Masked
  <2>2. Trimmed(w, q)
    BY RemoveFacts
  <2> HIDE DEF w, p
  <2>3. /\ w \in Request /\ Same(w, q) /\ Len(w.ids) = Len(w.mask)
        /\ Len(w.ids) \in Nat
        /\ q.ids[p] = "G" => Len(w.ids) = p - 1
        /\ q.ids[p] = "t" => Len(w.ids) = p
        /\ \A i \in 1..Len(w.ids) : w.ids[i] = q.ids[i] /\ w.mask[i] = q.mask[i]
    <3>1. w \in Request /\ Len(w.ids) \in Nat
      BY <2>2, RequestType DEF Trimmed
    <3> QED BY <2>1, <2>2, <3>1 DEF Trimmed
  <2>4. o = Update(w, "t", n, FALSE)
    BY <1>2 DEF AddToolOutput, w
  <2>5. Longer(o, w, "t", n, FALSE)
    <3>1. "t" \in Token /\ FALSE \in BOOLEAN
      BY DEF Token
    <3> QED BY <2>3, <2>4, <3>1, UpdateFacts
  <2> HIDE DEF o
  <2>6. /\ o \in Request /\ Same(o, w) /\ Len(o.ids) = Len(w.ids) + n
        /\ Len(o.mask) = Len(w.ids) + n
        /\ \A i \in 1..Len(w.ids) :
              o.ids[i] = w.ids[i] /\ o.mask[i] = w.mask[i]
        /\ \A i \in Len(w.ids) + 1..Len(w.ids) + n :
              o.ids[i] = "t" /\ o.mask[i] = FALSE
    BY <2>3, <2>5 DEF Longer
  <2>7. Same(o, q)
    BY <2>3, <2>6 DEF Same
  <2>8. Masked(o.ids, o.mask)
    <3>1. ASSUME NEW i \in 1..Len(o.ids)
          PROVE  o.mask[i] <=> o.ids[i] \in Answer
      <4>1. CASE i <= Len(w.ids)
        <5>1. i \in 1..Len(w.ids) /\ i \in 1..p
          BY <2>1, <2>3, <2>6, <4>1
        <5>2. o.ids[i] = q.ids[i] /\ o.mask[i] = q.mask[i]
          BY <2>3, <2>6, <5>1
        <5> QED BY <2>1, <5>1, <5>2
      <4>2. CASE ~(i <= Len(w.ids))
        BY <2>3, <2>6, <4>2 DEF Answer
      <4> QED BY <4>1, <4>2
    <3> QED BY <2>6, <3>1 DEF Masked
  <2>9. Prompted(o.ids, p) /\ Begins(<<>>, o.ids)
    <3>1. Len(o.ids) >= p /\ Len(o.ids) \in Nat
      BY <2>1, <2>3, <2>6
    <3>2. ASSUME NEW i \in 1..p
          PROVE  IF i = p THEN o.ids[i] \in {"G", "t"} ELSE o.ids[i] = "p"
      <4>1. CASE i \in 1..Len(w.ids)
        <5>1. o.ids[i] = q.ids[i]
          BY <2>3, <2>6, <4>1
        <5> QED BY <2>1, <5>1
      <4>2. CASE i \notin 1..Len(w.ids)
        <5>1. i = p /\ i \in Len(w.ids) + 1..Len(w.ids) + n
          BY <2>1, <2>3, <4>2
        <5> QED BY <2>6, <5>1
      <4> QED BY <4>1, <4>2
    <3> QED BY <3>1, <3>2 DEF Prompted, Begins
  <2> QED BY <2>6, <2>7, <2>8, <2>9 DEF Sound, Same, p, o
<1> QED BY <1>1, <1>2

(* Starting a request preserves Rows. *)
LEMMA StartFits ==
  ASSUME Rows, NEW s \in Slots, Start(s)
  PROVE  Rows'
<1> DEFINE q == reqs[s]
           o(n) == AddToolOutput(q, n)
           r(n) == [o(n) EXCEPT !.st = "building"]
<1>1. /\ ~setup.agent /\ q.st = "pending" /\ UNCHANGED setup
      /\ \E n \in Nat : Become(s, r(n))
  BY Limits DEF Start, At
<1>2. PICK n \in Nat : Become(s, r(n))
  BY <1>1
<1>3. Sound(q) /\ Len(q.ids) = q.promptLen /\ q.heard = <<>>
  BY <1>1, InFlight DEF Alive, InTurn
<1> HIDE DEF q
<1>4. Sound(o(n)) /\ o(n) \in Request
  BY <1>3, CreatedFacts, SoundType
<1> HIDE DEF o
<1>5. /\ r(n) \in Request /\ r(n).st = "building" /\ r(n).ids = o(n).ids
      /\ r(n).mask = o(n).mask /\ r(n).promptLen = o(n).promptLen
      /\ r(n).heard = o(n).heard /\ r(n).turns = o(n).turns
  BY <1>4 DEF Request, Waiting
<1> HIDE DEF r
<1>6. Sound(r(n))
  BY <1>4, <1>5, SoundCopy
<1>7. Fit(r(n), setup)
  BY <1>1, <1>5, <1>6 DEF Fit, Alive, InTurn, Waiting, Heard, TurnLeft
<1> QED BY <1>1, <1>2, <1>7, BecomeFits

(* So does a turn of the environment, *)
LEMMA InteractFits ==
  ASSUME Rows, NEW s \in Slots, Interact(s)
  PROVE  Rows'
<1> DEFINE q == reqs[s]
           m == q.userTurns + 1
           st == IF Held(s) THEN "stepping" ELSE "rebuilding"
           r == [q EXCEPT !.userTurns = m, !.st = st]
<1>1. /\ ~setup.agent /\ q.st = "interacting" /\ Become(s, r)
      /\ UNCHANGED setup
  BY DEF Interact, At
<1>2. Alive(q, setup) /\ q \in Request
  BY <1>1, InFlight
<1>3. m \in Nat /\ st \in {"stepping", "rebuilding"}
  BY <1>2, RequestType
<1> HIDE DEF m, st, q
<1>4. r \in Request /\ r.st = st /\ r.ids = q.ids /\ r.mask = q.mask
      /\ r.promptLen = q.promptLen /\ r.heard = q.heard /\ r.turns = q.turns
  BY <1>2, <1>3 DEF Request, Waiting
<1> HIDE DEF r
<1>5. Fit(r, setup)
  BY <1>1, <1>2, <1>3, <1>4, StatusFits DEF Moves
<1> QED BY <1>1, <1>5, BecomeFits

(* Closing an environment says nothing of the rows of its request. *)
LEMMA CloseFits ==
  ASSUME NEW q \in Request, NEW c, Fit(q, c)
  PROVE  /\ [q EXCEPT !.closed = TRUE] \in Request
         /\ Fit([q EXCEPT !.closed = TRUE], c)
<1> DEFINE r == [q EXCEPT !.closed = TRUE]
<1>1. /\ r \in Request /\ r.st = q.st /\ r.ids = q.ids /\ r.mask = q.mask
      /\ r.promptLen = q.promptLen /\ r.heard = q.heard /\ r.turns = q.turns
      /\ r.response = q.response /\ r.respMask = q.respMask
  BY DEF Request
<1> HIDE DEF r
<1>2. CASE Alive(q, c)
  <2>1. Sound(r)
    BY <1>1, <1>2, SoundCopy DEF Alive
  <2>2. InTurn(q) => InTurn(r)
    BY <1>1 DEF InTurn
  <2> QED BY <1>1, <1>2, <2>1, <2>2 DEF Fit, Alive, r
<1>3. CASE Handed(q, c)
  <2>1. Agrees(r)
    BY <1>1, <1>3 DEF Handed, Trained, Agrees, PromptOf
  <2>2. Answering(r, c)
    BY <1>1, <1>3 DEF Handed, Answering
  <2> QED BY <1>1, <1>3, <2>1, <2>2 DEF Fit, Handed, Trained, r
<1> QED BY <1>2, <1>3 DEF Fit

(* a status stored around a call of the environment, *)
LEMMA StoredFits ==
  ASSUME Rows, NEW s \in Slots, NEW st \in {"running", "stepping"},
         ~setup.agent, <<reqs[s].st, st>> \in Moves, EnvStored(s, st),
         UNCHANGED setup
  PROVE  Rows'
<1> DEFINE q == reqs[s]
           r == [q EXCEPT !.st = st, !.envTurns = 0, !.closed = FALSE]
           Closed(x) == [reqs[x] EXCEPT !.closed = TRUE]
<1>1. reqs[s].st # "done"
  BY DEF Moves
<1>2. Alive(q, setup) /\ q \in Request
  BY <1>1, InFlight
<1>3. r \in Request /\ r.st = st /\ r.ids = q.ids /\ r.mask = q.mask
      /\ r.promptLen = q.promptLen /\ r.heard = q.heard /\ r.turns = q.turns
  BY <1>2 DEF Request, Waiting
<1>4. Fit(r, setup)
  <2> HIDE DEF r
  <2> QED BY <1>2, <1>3, StatusFits
<1>5. \A x \in Slots : reqs[x] \in Request /\ Fit(reqs[x], setup)
                       /\ Closed(x) \in Request /\ Fit(Closed(x), setup)
  BY CloseFits DEF Rows
<1>6. PICK gone : reqs' = [x \in Slots |-> IF x = s THEN r
                                           ELSE IF x \in gone THEN Closed(x)
                                           ELSE reqs[x]]
  BY DEF EnvStored
<1> HIDE DEF r, Closed
<1>7. reqs' \in [Slots -> Request] /\ \A x \in Slots : Fit(reqs'[x], setup)
  BY <1>3, <1>4, <1>5, <1>6
<1> QED BY <1>7 DEF Rows

(* an environment that is built or built again, *)
LEMMA BuiltFits ==
  ASSUME Rows, NEW s \in Slots, EnvBuilt(s) \/ EnvRebuilt(s)
  PROVE  Rows'
<1>1. CASE EnvBuilt(s)
  BY <1>1, StoredFits DEF EnvBuilt, At, Moves
<1>2. CASE EnvRebuilt(s)
  BY <1>2, StoredFits DEF EnvRebuilt, At, Moves
<1> QED BY <1>1, <1>2

(* A request that ends short of the model's length has nothing unanswered. *)
LEMMA FullFits ==
  ASSUME NEW q, Sound(q), NEW reason \in {"stop", "length"}, NEW c, ~c.agent,
         Len(q.ids) + 1 >= MaxModelLen
  PROVE  Fit(Finish(q, reason), c)
<1> DEFINE r == RemovePrompt(q)
<1>1. /\ Len(r.ids) \in Nat /\ Len(q.ids) \in Nat
      /\ Len(r.ids) + 1 = Len(q.ids) \/ Len(r.ids) = Len(q.ids)
  BY RemoveFacts, SoundType, RequestType DEF Trimmed
<1>2. RequestLen \in Nat /\ MaxModelLen \in Nat /\ RequestLen <= MaxModelLen
  BY Limits
<1> HIDE DEF r
<1>3. Len(r.ids) + 2 >= RequestLen
  BY <1>1, <1>2
<1> QED BY <1>3, FinishHands DEF r, Fit

(* a request that has no room for an answer, *)
LEMMA OutOfRoomFits ==
  ASSUME Rows, NEW s \in Slots, OutOfRoom(s)
  PROVE  Rows'
<1> DEFINE q == reqs[s]
           w == WithPrompt(q)
<1>1. /\ ~setup.agent /\ q.st = "running" /\ Len(w.ids) + 1 >= MaxModelLen
      /\ Become(s, Finish(w, "length")) /\ UNCHANGED setup
  BY DEF OutOfRoom, At
<1>2. Alive(q, setup)
  BY <1>1, InFlight
<1>3. Sound(w)
  BY <1>1, <1>2, WithPromptFacts DEF Alive
<1> HIDE DEF w
<1>4. Fit(Finish(w, "length"), setup)
  BY <1>1, <1>3, FullFits
<1> QED BY <1>1, <1>4, BecomeFits

(* and a call of the engine. *)
LEMMA CallEngineFits ==
  ASSUME Rows, NEW s \in Slots, CallEngine(s)
  PROVE  Rows'
<1> DEFINE q == reqs[s]
           w == WithPrompt(q)
           x == w.ids
           r == [w EXCEPT !.st = "engine", !.heard = x]
<1>1. /\ ~setup.agent /\ q.st = "running" /\ Len(w.ids) + 1 < MaxModelLen
      /\ Become(s, r) /\ UNCHANGED setup
  BY DEF CallEngine, At
<1>2. Alive(q, setup)
  BY <1>1, InFlight
<1>3. Sound(w)
  BY <1>2, WithPromptFacts DEF Alive
<1> HIDE DEF w, q
<1>4. w \in Request /\ x \in Seq(Token)
  BY <1>3, SoundType, RequestType
<1>5. /\ r \in Request /\ r.st = "engine" /\ r.ids = w.ids /\ r.mask = w.mask
      /\ r.promptLen = w.promptLen /\ r.heard = w.ids /\ r.turns = w.turns
  BY <1>4 DEF Request, Waiting
<1> HIDE DEF r
<1>6. Sound(r)
  BY <1>3, <1>5, SoundCopy
<1>7. InTurn(r)
  BY <1>1, <1>3, <1>5 DEF InTurn, TurnLeft
<1>8. Fit(r, setup)
  BY <1>1, <1>5, <1>6, <1>7 DEF Fit, Alive, Waiting
<1> QED BY <1>1, <1>8, BecomeFits

(* An answered request is finished or goes on to tools or the environment, *)
(* and fits.                                                               *)
LEMMA AnswerFits ==
  ASSUME NEW q \in Request, NEW n \in Nat, NEW a, Spoken(a, q, n), ~setup.agent
  PROVE  /\ \A reason \in {"stop", "length"} : Fit(Finish(a, reason), setup)
         /\ \A st \in {"tools", "interacting"} :
               (a.turns < MaxAssistantTurns /\ (st = "tools" => n > 0)) =>
                 Fit([a EXCEPT !.st = st], setup)
<1>1. a \in Request /\ Sound(a)
  BY SoundType DEF Spoken
<1>2. \A reason \in {"stop", "length"} : Fit(Finish(a, reason), setup)
  BY FinishHands DEF Spoken, Fit
<1>3. ASSUME NEW st \in {"tools", "interacting"}, a.turns < MaxAssistantTurns,
             st = "tools" => n > 0
      PROVE  Fit([a EXCEPT !.st = st], setup)
  <2> DEFINE r == [a EXCEPT !.st = st]
  <2>1. /\ r \in Request /\ r.st = st /\ r.ids = a.ids /\ r.mask = a.mask
        /\ r.promptLen = a.promptLen /\ r.heard = a.heard /\ r.turns = a.turns
    BY <1>1 DEF Request, Waiting
  <2> HIDE DEF r
  <2>2. Sound(r)
    BY <1>1, <2>1, SoundCopy
  <2>3. r.turns # 0
    BY <2>1, RequestType DEF Spoken
  <2>4. InTurn(r)
    BY <1>3, <2>1, <2>3 DEF InTurn, Spoken, TurnLeft
  <2>5. r.heard = r.ids /\ r.st \in Waiting
    BY <2>1 DEF Spoken, Waiting
  <2> QED BY <2>2, <2>4, <2>5 DEF Fit, Alive, r
<1> QED BY <1>2, <1>3

(* Out of turns, a request stops whatever its reason was. *)
LEMMA ContinueCases ==
  ASSUME NEW q \in Request, NEW st
  PROVE  \/ q.turns < MaxAssistantTurns /\ Continue(q, st) = [q EXCEPT !.st = st]
         \/ Continue(q, st) = Finish(q, "stop")
<1>1. q.turns \in Nat /\ MaxAssistantTurns \in Nat
  BY RequestType, Limits
<1> QED BY <1>1 DEF Continue, Finish

(* An answer cut by length preserves Rows. *)
LEMMA AnswerCutFits ==
  ASSUME Rows, NEW s \in Slots, AnswerCut(s)
  PROVE  Rows'
<1> DEFINE q == reqs[s]
           n == Cap(q)
           a == Answered(s, n, "length")
<1>1. /\ ~setup.agent /\ q.st = "engine" /\ Become(s, Finish(a, "length"))
      /\ UNCHANGED setup
  BY DEF AnswerCut, At
<1>2. Alive(q, setup) /\ q \in Request /\ Sound(q) /\ InTurn(q)
  BY <1>1, InFlight DEF Alive
<1>3. n \in Nat
  <2>1. /\ Len(q.ids) \in Nat /\ Len(q.ids) + 1 < MaxModelLen
        /\ MaxModelLen \in Nat /\ ResponseLength \in Nat
    BY <1>1, <1>2, Limits, RequestType DEF InTurn
  <2> HIDE DEF q
  <2> QED BY <2>1 DEF Cap
<1> HIDE DEF n
<1>4. Spoken(a, q, n)
  BY <1>2, <1>3, AnsweredFacts DEF InTurn
<1> HIDE DEF a, q
<1>5. Fit(Finish(a, "length"), setup)
  BY <1>1, <1>2, <1>3, <1>4, AnswerFits
<1> QED BY <1>1, <1>5, BecomeFits

(* So does one that calls tools, *)
LEMMA AnswerCallsFits ==
  ASSUME Rows, NEW s \in Slots, AnswerCalls(s)
  PROVE  Rows'
<1> DEFINE q == reqs[s]
           a(n) == Answered(s, n, "tool_calls")
<1>1. PICK n \in AnswerLength(s) \ {0}, parsed \in BOOLEAN :
         Become(s, IF parsed THEN Continue(a(n), "tools")
                             ELSE Finish(a(n), "stop"))
  BY DEF AnswerCalls
<1>2. ~setup.agent /\ q.st = "engine" /\ UNCHANGED setup
  BY DEF AnswerCalls, At
<1>3. Alive(q, setup) /\ q \in Request /\ Sound(q) /\ InTurn(q)
  BY <1>2, InFlight DEF Alive
<1>4. n \in Nat /\ n > 0
  BY Limits DEF AnswerLength
<1>5. Spoken(a(n), q, n)
  BY <1>3, <1>4, AnsweredFacts DEF InTurn
<1>6. a(n) \in Request
  BY <1>5, SoundType DEF Spoken
<1> HIDE DEF a, q
<1>7. Fit(Finish(a(n), "stop"), setup)
  BY <1>2, <1>3, <1>4, <1>5, AnswerFits
<1>8. Fit(Continue(a(n), "tools"), setup)
  <2>1. a(n).turns < MaxAssistantTurns => Fit([a(n) EXCEPT !.st = "tools"], setup)
    BY <1>2, <1>3, <1>4, <1>5, AnswerFits
  <2> QED BY <1>6, <1>7, <2>1, ContinueCases
<1> QED BY <1>1, <1>2, <1>7, <1>8, BecomeFits

(* and one that does not. *)
LEMMA AnswerPlainFits ==
  ASSUME Rows, NEW s \in Slots, AnswerPlain(s)
  PROVE  Rows'
<1> DEFINE q == reqs[s]
           a(n) == Answered(s, n, "stop")
<1>1. PICK n \in AnswerLength(s) :
         Become(s, IF /\ a(n).userTurns < MaxUserTurns
                      /\ a(n).turns < MaxAssistantTurns
                   THEN [a(n) EXCEPT !.st = "interacting"]
                   ELSE Finish(a(n), "stop"))
  BY DEF AnswerPlain
<1>2. ~setup.agent /\ q.st = "engine" /\ UNCHANGED setup
  BY DEF AnswerPlain, At
<1>3. Alive(q, setup) /\ q \in Request /\ Sound(q) /\ InTurn(q)
  BY <1>2, InFlight DEF Alive
<1>4. n \in Nat
  BY Limits DEF AnswerLength
<1>5. Spoken(a(n), q, n)
  BY <1>3, <1>4, AnsweredFacts DEF InTurn
<1> HIDE DEF a, q
<1>6. Fit(Finish(a(n), "stop"), setup)
  BY <1>2, <1>3, <1>4, <1>5, AnswerFits
<1>7. a(n).turns < MaxAssistantTurns =>
        Fit([a(n) EXCEPT !.st = "interacting"], setup)
  BY <1>2, <1>3, <1>4, <1>5, AnswerFits
<1> QED BY <1>1, <1>2, <1>6, <1>7, BecomeFits

(* After an observation a request runs on. *)
LEMMA ObservationFits ==
  ASSUME NEW o, Sound(o), ~setup.agent
  PROVE  o.turns < MaxAssistantTurns => Fit(AfterObservation(o), setup)
<1> SUFFICES ASSUME o.turns < MaxAssistantTurns
             PROVE  Fit(AfterObservation(o), setup)
  OBVIOUS
<1> DEFINE r == [o EXCEPT !.st = "running"]
<1>1. AfterObservation(o) = r
  BY DEF AfterObservation, Continue
<1>2. o \in Request
  BY SoundType
<1>3. /\ r \in Request /\ r.st = "running" /\ r.ids = o.ids /\ r.mask = o.mask
      /\ r.promptLen = o.promptLen /\ r.heard = o.heard /\ r.turns = o.turns
  BY <1>2 DEF Request, Waiting
<1> HIDE DEF r
<1>4. Sound(r)
  BY <1>3, SoundCopy
<1>5. InTurn(r)
  BY <1>3 DEF InTurn, TurnLeft
<1> QED BY <1>1, <1>3, <1>4, <1>5 DEF Fit, Alive, Waiting, Heard

(* What the tools and the environment say keeps a request sound. *)
LEMMA SaidContinues ==
  ASSUME NEW q, Sound(q), NEW tok \in {"t", "u"}, NEW n \in Nat
  PROVE  LET o == Update(q, tok, n, FALSE)
         IN  Sound(o) /\ Same(o, q)
<1>1. tok \in Token /\ FALSE \in BOOLEAN /\ (FALSE <=> tok \in Answer)
  BY DEF Token, Answer
<1> QED BY <1>1, UpdateSound DEF Longer

(* The answers of tools preserve Rows. *)
LEMMA ToolsAnswerFits ==
  ASSUME Rows, NEW s \in Slots, ToolsAnswer(s)
  PROVE  Rows'
<1> DEFINE q == reqs[s]
           o(n) == AddToolOutput(q, n)
<1>1. PICK n \in {0} \cup ObsLens : Become(s, AfterObservation(o(n)))
  BY DEF ToolsAnswer
<1>2. ~setup.agent /\ q.st = "tools" /\ UNCHANGED setup
  BY DEF ToolsAnswer, At
<1>3. /\ Alive(q, setup) /\ q \in Request /\ Sound(q) /\ InTurn(q)
      /\ q.turns < MaxAssistantTurns /\ q.ids[Len(q.ids)] # "G"
  <2>1. Alive(q, setup) /\ q \in Request /\ Sound(q) /\ InTurn(q)
    BY <1>2, InFlight DEF Alive
  <2> HIDE DEF q
  <2> QED BY <1>2, <2>1 DEF InTurn, TurnLeft
<1>4. n \in Nat
  BY Limits
<1>5. RemovePrompt(q) = q
  <2>1. q.ids \in Seq(Token)
    BY <1>3, RequestType
  <2> HIDE DEF q
  <2> QED BY <1>3, <2>1 DEF RemovePrompt, EndsInPrompt, Last
<1>6. o(n) = q \/ o(n) = Update(q, "t", n, FALSE)
  BY <1>5 DEF AddToolOutput
<1>7. Sound(o(n)) /\ o(n).turns = q.turns
  <2> HIDE DEF o, q
  <2> QED BY <1>3, <1>4, <1>6, SaidContinues DEF Same
<1> HIDE DEF o, q
<1>8. Fit(AfterObservation(o(n)), setup)
  BY <1>2, <1>3, <1>7, ObservationFits
<1> QED BY <1>1, <1>2, <1>8, BecomeFits

(* One more step of the environment. *)
LEMMA SteppedFacts ==
  ASSUME NEW q, Sound(q)
  PROVE  LET r == [q EXCEPT !.envTurns = @ + 1]
         IN  /\ Sound(r) /\ r.ids = q.ids /\ r.heard = q.heard
             /\ r.promptLen = q.promptLen /\ r.turns = q.turns
<1> DEFINE m == q.envTurns + 1
           r == [q EXCEPT !.envTurns = m]
<1>1. q \in Request /\ m \in Nat
  BY SoundType, RequestType
<1> HIDE DEF m
<1>2. /\ r \in Request /\ r.ids = q.ids /\ r.mask = q.mask
      /\ r.promptLen = q.promptLen /\ r.heard = q.heard /\ r.turns = q.turns
  BY <1>1 DEF Request
<1> HIDE DEF r
<1>3. Sound(r)
  BY <1>2, SoundCopy
<1> QED BY <1>2, <1>3 DEF r, m

(* So does the end of an environment's session, *)
LEMMA EnvEndsFits ==
  ASSUME Rows, NEW s \in Slots, EnvEnds(s)
  PROVE  Rows'
<1> DEFINE q == reqs[s]
           r == [q EXCEPT !.envTurns = @ + 1]
<1>1. ~setup.agent /\ q.st = "stepping" /\ Become(s, Finish(r, "stop"))
      /\ UNCHANGED setup
  BY DEF EnvEnds, At
<1>2. Alive(q, setup) /\ Sound(q) /\ InTurn(q)
  BY <1>1, InFlight DEF Alive
<1>3. q.heard = q.ids
  BY <1>1, <1>2 DEF Alive, Heard
<1>4. Sound(r) /\ r.ids = q.ids /\ r.heard = q.heard
      /\ r.promptLen = q.promptLen
  BY <1>2, SteppedFacts
<1> HIDE DEF r, q
<1>5. r.heard = r.ids
  BY <1>3, <1>4
<1>6. Fit(Finish(r, "stop"), setup)
  BY <1>1, <1>4, <1>5, FinishHands DEF Fit
<1> QED BY <1>1, <1>6, BecomeFits

(* and its observation. *)
LEMMA EnvObservesFits ==
  ASSUME Rows, NEW s \in Slots, EnvObserves(s)
  PROVE  Rows'
<1> DEFINE q == reqs[s]
           u(n) == AddUser(q, n)
           r(n) == [u(n) EXCEPT !.envTurns = @ + 1]
<1>1. PICK n \in ObsLens : Become(s, AfterObservation(r(n)))
  BY DEF EnvObserves
<1>2. ~setup.agent /\ q.st = "stepping" /\ UNCHANGED setup
  BY DEF EnvObserves, At
<1>3. Sound(q) /\ q.turns < MaxAssistantTurns
  <2>1. Sound(q) /\ InTurn(q)
    BY <1>2, InFlight DEF Alive
  <2> HIDE DEF q
  <2> QED BY <1>2, <2>1 DEF InTurn, TurnLeft
<1>4. n \in Nat
  BY Limits
<1>5. Sound(u(n)) /\ Same(u(n), q)
  <2> HIDE DEF q
  <2> QED BY <1>3, <1>4, SaidContinues DEF AddUser
<1> HIDE DEF u
<1>6. /\ Sound(r(n)) /\ r(n).ids = u(n).ids /\ r(n).turns = q.turns
      /\ r(n).promptLen = u(n).promptLen
  BY <1>5, SteppedFacts DEF Same
<1> HIDE DEF r, q
<1>7. Fit(AfterObservation(r(n)), setup)
  BY <1>2, <1>3, <1>6, ObservationFits
<1> QED BY <1>1, <1>2, <1>7, BecomeFits

(* Every step of a request preserves Rows. *)
LEMMA RequestStepFits ==
  ASSUME Rows, NEW s \in Slots, RequestStep(s)
  PROVE  Rows'
BY StartFits, BuiltFits, OutOfRoomFits, CallEngineFits, AnswerCutFits,
   AnswerCallsFits, AnswerPlainFits, ToolsAnswerFits, InteractFits,
   EnvEndsFits, EnvObservesFits DEF RequestStep
-----------------------------------------------------------------------------
(* Every step of an agent loop keeps its request fit. *)

(* An agent loop hands out what it heard from the server. *)
LEMMA AgentFinishHands ==
  ASSUME NEW q, Sound(q), q.heard = q.ids, Len(q.ids) <= MaxModelLen, NEW c
  PROVE  Fit(AgentFinish(q), c)
<1> DEFINE x == Cut(AfterPrompt(q.ids, q), ResponseLength)
           y == Cut(AfterPrompt(q.mask, q), ResponseLength)
           f == AgentFinish(q)
<1>1. /\ q \in Request /\ q.ids \in Seq(Token) /\ q.mask \in Seq(BOOLEAN)
      /\ q.promptLen \in Nat /\ ResponseLength \in Nat
  BY SoundType, RequestType, Limits
<1>2. /\ x \in Seq(Token) /\ Piece(x, q.ids, q.promptLen, ResponseLength)
      /\ y \in Seq(BOOLEAN) /\ Piece(y, q.mask, q.promptLen, ResponseLength)
  BY <1>1, AfterFacts
<1>3. f = [q EXCEPT !.st = "done", !.finish = "stop",
                    !.response = x, !.respMask = y]
  BY DEF AgentFinish
<1> HIDE DEF x, y, f
<1>4. /\ f \in Request /\ f.st = "done" /\ f.ids = q.ids /\ f.mask = q.mask
      /\ f.response = x /\ f.respMask = y /\ f.heard = q.heard
      /\ f.promptLen = q.promptLen
  BY <1>1, <1>2, <1>3 DEF Request
<1>5. /\ Masked(f.response, f.respMask) /\ Len(f.response) <= ResponseLength
      /\ Agrees(f)
  BY <1>1, <1>2, <1>4, PieceTrained
<1>6. Masked(f.ids, f.mask)
  BY <1>4 DEF Sound
<1>7. Begins(f.ids, f.heard)
  BY <1>1, <1>4, RequestType DEF Begins
<1> QED BY <1>4, <1>5, <1>6, <1>7 DEF Fit, Handed, Trained, Answering, f

(* A call of the server preserves Rows. *)
LEMMA AgentCallFits ==
  ASSUME Rows, NEW s \in Slots, AgentCall(s)
  PROVE  Rows'
<1> DEFINE q == reqs[s]
           x == q.ids
           r == [q EXCEPT !.st = "engine", !.heard = x]
<1>1. /\ setup.agent /\ q.st # "done" /\ Become(s, r) /\ UNCHANGED setup
  BY DEF AgentCall, AgentAt
<1>2. Alive(q, setup) /\ q \in Request /\ Sound(q)
  BY <1>1, InFlight
<1>3. x \in Seq(Token)
  BY <1>2, RequestType
<1> HIDE DEF q
<1>4. /\ r \in Request /\ r.st = "engine" /\ r.ids = q.ids /\ r.mask = q.mask
      /\ r.promptLen = q.promptLen /\ r.heard = q.ids
  BY <1>2, <1>3 DEF Request, Waiting
<1> HIDE DEF r
<1>5. Sound(r)
  BY <1>2, <1>4, SoundCopy
<1>6. Fit(r, setup)
  BY <1>1, <1>2, <1>4, <1>5 DEF Fit, Alive, Waiting
<1> QED BY <1>1, <1>6, BecomeFits

(* So does its answer, *)
LEMMA AgentAnswerFits ==
  ASSUME Rows, NEW s \in Slots, AgentAnswer(s)
  PROVE  Rows'
<1> DEFINE q == reqs[s]
           said(n) == Update(q, "a", n, TRUE)
           a(n) == [said(n) EXCEPT !.turns = @ + 1, !.heard = said(n).ids]
<1>1. PICK n \in AgentAnswerLen(q), calls \in BOOLEAN :
         \/ Become(s, AgentFinish(a(n)))
         \/ /\ ~(Responded(a(n)) >= ResponseLength)
            /\ Become(s, [a(n) EXCEPT !.st = "tools"])
  <2>1. PICK n \in AgentAnswerLen(q), calls \in BOOLEAN :
         LET last == \/ Responded(a(n)) >= ResponseLength
                     \/ a(n).turns >= MaxAssistantTurns
                     \/ a(n).userTurns >= MaxUserTurns
         IN  Become(s, IF last \/ ~calls THEN AgentFinish(a(n))
                       ELSE [a(n) EXCEPT !.st = "tools"])
    BY DEF AgentAnswer
  <2> HIDE DEF a
  <2> QED BY <2>1
<1>2. setup.agent /\ q.st = "engine" /\ UNCHANGED setup
  BY DEF AgentAnswer, AgentAt
<1>3. /\ Alive(q, setup) /\ q \in Request /\ Sound(q)
      /\ Len(q.ids) < q.promptLen + ResponseLength
  BY <1>2, InFlight DEF Alive
<1>4. /\ Len(q.ids) \in Nat /\ q.promptLen \in Nat /\ q.promptLen <= PromptLength
      /\ PromptLength \in Nat /\ ResponseLength \in Nat /\ MaxModelLen \in Nat
      /\ MaxModelLen >= PromptLength + ResponseLength
      /\ AnswerLens \subseteq Nat
  BY <1>3, RequestType, Limits
<1> HIDE DEF q
<1>5. n \in Nat /\ Len(q.ids) + n <= MaxModelLen
  <2>1. CASE Cap(q) < 1
    <3>1. n = 1
      BY <1>4, <2>1 DEF AgentAnswerLen, Cap
    <3> QED BY <1>3, <1>4, <3>1
  <2>2. CASE ~(Cap(q) < 1)
    <3>1. n \in Nat /\ n <= Cap(q)
      BY <1>4, <2>2 DEF AgentAnswerLen, Cap
    <3> DEFINE room == MaxModelLen - Len(q.ids) - 1
    <3>2. room \in Int /\ Len(q.ids) + room + 1 = MaxModelLen
      BY <1>4
    <3> HIDE DEF room
    <3>3. Cap(q) = IF room < ResponseLength THEN room ELSE ResponseLength
      BY DEF Cap, room
    <3>4. Cap(q) \in Int /\ Cap(q) <= room
      BY <1>4, <3>2, <3>3
    <3> QED BY <1>4, <3>1, <3>2, <3>4
  <2> QED BY <2>1, <2>2
<1>6. Sound(said(n)) /\ Longer(said(n), q, "a", n, TRUE)
  <2>1. "a" \in Token /\ TRUE \in BOOLEAN /\ (TRUE <=> "a" \in Answer)
    BY DEF Token, Answer
  <2> QED BY <1>3, <1>5, <2>1, UpdateSound
<1> DEFINE x == said(n).ids
           m == said(n).turns + 1
<1>7. a(n) = [said(n) EXCEPT !.turns = m, !.heard = x]
  OBVIOUS
<1> HIDE DEF said, a
<1>8. said(n) \in Request /\ x \in Seq(Token) /\ m \in Nat
  BY <1>6, SoundType, RequestType
<1>9. /\ Len(x) <= MaxModelLen /\ Len(x) \in Nat
      /\ said(n).promptLen = q.promptLen
  BY <1>4, <1>5, <1>6 DEF Longer, Same
<1> HIDE DEF m
<1>10. /\ a(n) \in Request /\ a(n).ids = x /\ a(n).mask = said(n).mask
       /\ a(n).promptLen = said(n).promptLen /\ a(n).heard = x
  <2> DEFINE u == said(n)
             b == a(n)
  <2> HIDE DEF x
  <2>1. b = [u EXCEPT !.turns = m, !.heard = x] /\ u \in Request
        /\ x \in Seq(Token) /\ m \in Nat
    BY <1>7, <1>8
  <2>2. x = u.ids
    BY DEF x
  <2> HIDE DEF u, b
  <2>3. /\ b \in Request /\ b.ids = u.ids /\ b.mask = u.mask
        /\ b.promptLen = u.promptLen /\ b.heard = x
    BY <2>1 DEF Request
  <2> QED BY <2>2, <2>3 DEF u, b
<1>11. Sound(a(n))
  BY <1>6, <1>10, SoundCopy
<1>12. Fit(AgentFinish(a(n)), setup)
  BY <1>9, <1>10, <1>11, AgentFinishHands
<1>13. ASSUME ~(Responded(a(n)) >= ResponseLength)
       PROVE  Fit([a(n) EXCEPT !.st = "tools"], setup)
  <2> DEFINE r == [a(n) EXCEPT !.st = "tools"]
  <2>1. /\ r \in Request /\ r.st = "tools" /\ r.ids = a(n).ids
        /\ r.mask = a(n).mask /\ r.promptLen = a(n).promptLen
        /\ r.heard = a(n).heard
    BY <1>10 DEF Request, Waiting
  <2> HIDE DEF r, x
  <2>2. Sound(r)
    BY <1>11, <2>1, SoundCopy
  <2>3. Len(r.ids) < r.promptLen + ResponseLength
    BY <1>4, <1>9, <1>10, <1>13, <2>1 DEF Responded
  <2> QED BY <1>2, <1>10, <2>1, <2>2, <2>3 DEF Fit, Alive, Waiting, r
<1> HIDE DEF x
<1> QED BY <1>1, <1>2, <1>12, <1>13, BecomeFits

(* and what the tools answer. *)
LEMMA AgentToolsFits ==
  ASSUME Rows, NEW s \in Slots, AgentTools(s)
  PROVE  Rows'
<1> DEFINE q == reqs[s]
           t(n) == Update(q, "t", n, FALSE)
           g(n) == Update(t(n), "G", 1, FALSE)
           r(n) == [g(n) EXCEPT !.st = "running", !.userTurns = @ + 1]
<1>1. PICK n \in {0} \cup ObsLens :
         \/ Become(s, AgentFinish(q))
         \/ /\ ~(Responded(g(n)) >= ResponseLength)
            /\ Become(s, r(n))
  <2>1. PICK n \in {0} \cup ObsLens :
          Become(s, IF n = 0 \/ Responded(g(n)) >= ResponseLength
                    THEN AgentFinish(q) ELSE r(n))
    BY DEF AgentTools
  <2> HIDE DEF g, r
  <2> QED BY <2>1
<1>2. setup.agent /\ q.st = "tools" /\ UNCHANGED setup
  BY DEF AgentTools, AgentAt
<1>3. /\ q \in Request /\ Sound(q) /\ q.heard = q.ids
      /\ Len(q.ids) < q.promptLen + ResponseLength
  BY <1>2, InFlight DEF Alive, Heard
<1>4. /\ Len(q.ids) \in Nat /\ q.promptLen \in Nat /\ q.promptLen <= PromptLength
      /\ PromptLength \in Nat /\ ResponseLength \in Nat /\ MaxModelLen \in Nat
      /\ MaxModelLen >= PromptLength + ResponseLength /\ n \in Nat
  BY <1>3, RequestType, Limits
<1> HIDE DEF q
<1>5. Fit(AgentFinish(q), setup)
  <2>1. Len(q.ids) <= MaxModelLen
    BY <1>3, <1>4
  <2> QED BY <1>3, <2>1, AgentFinishHands
<1>6. Sound(t(n))
  <2>1. "t" \in Token /\ FALSE \in BOOLEAN /\ (FALSE <=> "t" \in Answer)
    BY DEF Token, Answer
  <2> QED BY <1>3, <1>4, <2>1, UpdateSound
<1> HIDE DEF t
<1>7. Sound(g(n))
  <2>1. "G" \in Token /\ 1 \in Nat /\ FALSE \in BOOLEAN
        /\ (FALSE <=> "G" \in Answer)
    BY DEF Token, Answer
  <2> QED BY <1>6, <2>1, UpdateSound
<1> DEFINE m == g(n).userTurns + 1
<1>8. r(n) = [g(n) EXCEPT !.st = "running", !.userTurns = m]
  OBVIOUS
<1> HIDE DEF g, r
<1>9. g(n) \in Request /\ m \in Nat /\ Len(g(n).ids) \in Nat
      /\ g(n).promptLen \in Nat
  BY <1>7, SoundType, RequestType
<1> HIDE DEF m
<1>10. /\ r(n) \in Request /\ r(n).st = "running" /\ r(n).ids = g(n).ids
       /\ r(n).mask = g(n).mask /\ r(n).promptLen = g(n).promptLen
       /\ r(n).heard = g(n).heard
  BY <1>8, <1>9 DEF Request, Waiting
<1>11. Sound(r(n))
  BY <1>7, <1>10, SoundCopy
<1>12. ~(Responded(g(n)) >= ResponseLength) => Fit(r(n), setup)
  <2> SUFFICES ASSUME ~(Responded(g(n)) >= ResponseLength)
               PROVE  Fit(r(n), setup)
    OBVIOUS
  <2>1. Len(r(n).ids) < r(n).promptLen + ResponseLength
    BY <1>4, <1>9, <1>10 DEF Responded
  <2> QED BY <1>2, <1>10, <1>11, <2>1 DEF Fit, Alive, Waiting, Heard
<1> QED BY <1>1, <1>2, <1>5, <1>12, BecomeFits

(* Every step of an agent loop preserves Rows. *)
LEMMA AgentStepFits ==
  ASSUME Rows, NEW s \in Slots, AgentStep(s)
  PROVE  Rows'
BY AgentCallFits, AgentAnswerFits, AgentToolsFits DEF AgentStep
-----------------------------------------------------------------------------
(* In every batch *)

(* The requests of a new batch fit. *)
LEMMA AllFresh ==
  ASSUME NEW f \in [Slots -> {Fresh(p) : p \in PromptLens}], NEW c
  PROVE  f \in [Slots -> Request] /\ \A s \in Slots : Fit(f[s], c)
<1>1. ASSUME NEW s \in Slots PROVE f[s] \in Request /\ Fit(f[s], c)
  <2>1. PICK p \in PromptLens : f[s] = Fresh(p)
    OBVIOUS
  <2> QED BY <2>1, FreshFits, SoundType DEF Fit, Alive
<1> QED BY <1>1

(* Rows holds at first, *)
LEMMA RowsInit == Init => Rows
BY AllFresh DEF Init, RequestInit, Rows

(* is preserved by every step, *)
LEMMA RowsNext == Rows /\ [Next]_vars => Rows'
<1> SUFFICES ASSUME Rows, [Next]_vars PROVE Rows'
  OBVIOUS
<1>1. CASE NextBatch
  BY <1>1, AllFresh DEF NextBatch, RequestNextBatch, Rows
<1>2. ASSUME NEW s \in Slots, SlotStep(s) PROVE Rows'
  BY <1>2, RequestStepFits, AgentStepFits DEF SlotStep
<1>3. CASE UNCHANGED vars
  BY <1>3 DEF vars, Rows
<1> QED BY <1>1, <1>2, <1>3 DEF Next

(* and so always holds. *)
LEMMA RowsKept == Spec => []Rows
BY RowsInit, RowsNext, PTL DEF Spec

(* In every batch the mask of a request marks its answers and nothing      *)
(* else, before and after the tokens are trimmed, cut and handed on.       *)
THEOREM LossOnly == Spec => []LossOnAnswers
<1>1. Rows => LossOnAnswers
  <2> SUFFICES ASSUME Rows, NEW s \in Slots
               PROVE  LET q == reqs[s] IN
                        /\ Len(q.ids) = Len(q.mask)
                        /\ \A i \in DOMAIN q.mask :
                              q.mask[i] <=> q.ids[i] \in {"a", "e"}
                        /\ q.st = "done" =>
                             /\ Len(q.response) = Len(q.respMask)
                             /\ Len(q.response) <= ResponseLength
                             /\ Len(q.ids) <= MaxModelLen
                             /\ \A i \in DOMAIN q.response :
                                   q.respMask[i] <=> q.response[i] \in {"a", "e"}
    BY DEF LossOnAnswers
  <2> DEFINE q == reqs[s]
  <2>1. q \in Request /\ Fit(q, setup)
    BY DEF Rows
  <2> HIDE DEF q
  <2>2. /\ DOMAIN q.mask = 1..Len(q.mask)
        /\ DOMAIN q.response = 1..Len(q.response)
    BY <2>1, RequestType, LenProperties
  <2>3. Masked(q.ids, q.mask)
    BY <2>1 DEF Fit, Alive, Sound, Handed, Trained
  <2>4. q.st = "done" => Trained(q)
    BY <2>1 DEF Fit, Alive, Handed, Waiting
  <2> QED BY <2>2, <2>3, <2>4 DEF Masked, Trained, Answer, q
<1> QED BY <1>1, RowsKept, PTL

(* What is trained on is what the policy was given and what it answered,   *)
(* but for the words of tools in the place of the generation prompt.       *)
THEOREM TrainedOnTheSampled == Spec => []TrainedAsGenerated
<1>1. Rows => TrainedAsGenerated
  <2> SUFFICES ASSUME Rows, NEW s \in Slots
               PROVE  LET q == reqs[s]
                          whole == PromptOf(q) \o q.response IN
                        IF q.st = "done"
                        THEN \A i \in DOMAIN whole \cap DOMAIN q.heard :
                                \/ whole[i] = q.heard[i]
                                \/ i = q.promptLen /\ q.heard[i] = "t"
                        ELSE IsPrefix(q.heard, q.ids)
    BY DEF TrainedAsGenerated
  <2> DEFINE q == reqs[s]
             t == PromptOf(q)
             whole == t \o q.response
  <2>1. q \in Request /\ Fit(q, setup)
    BY DEF Rows
  <2> HIDE DEF q
  <2>2. /\ q.heard \in Seq(Token) /\ q.ids \in Seq(Token)
        /\ q.response \in Seq(Token) /\ q.promptLen - 1 \in Nat
    BY <2>1, RequestType
  <2>3. t \in Seq(Token)
    <3>1. "p" \in Token /\ "G" \in Token
      BY DEF Token
    <3>2. Repeat("p", q.promptLen - 1) \in Seq(Token)
      BY <2>2, <3>1, RepeatFacts
    <3> QED BY <3>1, <3>2, AppendProperties DEF PromptOf
  <2>4. whole \in Seq(Token)
    <3> HIDE DEF t
    <3> QED BY <2>2, <2>3, ConcatProperties
  <2>5. q.st = "done" => Agrees(q)
    BY <2>1 DEF Fit, Alive, Waiting, Handed, Trained
  <2>6. q.st # "done" => Begins(q.heard, q.ids)
    BY <2>1 DEF Fit, Alive, Sound, Handed
  <2>7. ASSUME q.st = "done", NEW i \in DOMAIN whole \cap DOMAIN q.heard
        PROVE  whole[i] = q.heard[i] \/ (i = q.promptLen /\ q.heard[i] = "t")
    <3>1. \A k \in 1..Len(whole) :
             k <= Len(q.heard) => \/ whole[k] = q.heard[k]
                                  \/ k = q.promptLen /\ q.heard[k] = "t"
      BY <2>5, <2>7 DEF Agrees
    <3> HIDE DEF whole
    <3>2. i \in 1..Len(whole) /\ i \in 1..Len(q.heard) /\ Len(q.heard) \in Nat
      BY <2>2, <2>4, LenProperties
    <3> QED BY <3>1, <3>2
  <2> HIDE DEF whole
  <2>8. q.st # "done" => IsPrefix(q.heard, q.ids)
    BY <2>2, <2>6, BeginsIsPrefix
  <2> QED BY <2>7, <2>8 DEF whole, q
<1> QED BY <1>1, RowsKept, PTL

(* A request that ends with words nobody answered has no room left, and    *)
(* none ends with a reason that is an error.                               *)
THEOREM NothingDangling == Spec => []NoDanglingTurn
<1>1. Rows => NoDanglingTurn
  <2> SUFFICES ASSUME Rows, NEW s \in Slots
               PROVE  LET q == reqs[s] IN
                        /\ q.st # "failed"
                        /\ (/\ q.st = "done" /\ ~IsPrefix(q.ids, q.heard)
                            /\ Last(q.ids) \in {"u", "t", "G"}) =>
                              ~setup.agent /\ Len(q.ids) + 2 >= RequestLen
    BY DEF NoDanglingTurn
  <2> DEFINE q == reqs[s]
  <2>1. q \in Request /\ Fit(q, setup)
    BY DEF Rows
  <2> HIDE DEF q
  <2>2. q.st \in Waiting \cup {"done"}
    BY <2>1 DEF Request
  <2>3. q.st = "done" => Answering(q, setup)
    BY <2>1 DEF Fit, Alive, Handed, Waiting
  <2>4. Last(q.ids) = q.ids[Len(q.ids)]
    BY DEF Last
  <2>5. "failed" \notin Waiting \cup {"done"}
    BY DEF Waiting
  <2>6. IsPrefix(q.ids, q.heard) <=> Begins(q.ids, q.heard)
    BY <2>1, RequestType, BeginsIsPrefix
  <2> QED BY <2>2, <2>3, <2>4, <2>5, <2>6 DEF Answering, q
<1> QED BY <1>1, RowsKept, PTL
-----------------------------------------------------------------------------
(* The tables of environments and of sessions.  An entry belongs to a      *)
(* request, <<slot, batch>>, which k gives.                                *)

In(e, t) == \E i \in 1..Len(t) : t[i] = e

(* One entry of a request at most, and the entries of older batches first. *)
InOrder(t, k, now) ==
    /\ \A i, j \in 1..Len(t) : i < j => /\ k[t[i]] # k[t[j]]
                                       /\ k[t[i]][2] <= k[t[j]][2]
    /\ \A i \in 1..Len(t) : k[t[i]][2] <= now

Keys(S) == [S -> Slots \X Nat]

(* d is t without its entry at p. *)
Skips(d, t, p) ==
    /\ Len(d) + 1 = Len(t)
    /\ \A i \in 1..Len(d) : d[i] = IF i < p THEN t[i] ELSE t[i + 1]

(* One element less, or none. *)
LEMMA DroppedCases ==
  ASSUME NEW S, NEW t \in Seq(S), NEW x
  PROVE  /\ Dropped(t, x) \in Seq(S)
         /\ \/ ~In(x, t) /\ Dropped(t, x) = t
            \/ \E p \in 1..Len(t) : t[p] = x /\ Skips(Dropped(t, x), t, p)
<1>1. DOMAIN t = 1..Len(t) /\ Len(t) \in Nat /\ \A i \in 1..Len(t) : t[i] \in S
  BY LenProperties
<1>2. CASE ~In(x, t)
  BY <1>1, <1>2 DEF Dropped, In
<1>3. CASE In(x, t)
  <2> DEFINE p == CHOOSE i \in DOMAIN t : t[i] = x
             a == SubSeq(t, 1, p - 1)
             b == SubSeq(t, p + 1, Len(t))
             d == a \o b
  <2>1. p \in 1..Len(t) /\ t[p] = x
    BY <1>1, <1>3 DEF In
  <2>2. Dropped(t, x) = d
    BY <1>1, <1>3 DEF Dropped, In, RemoveAt
  <2> HIDE DEF p
  <2>3. /\ a \in Seq(S) /\ Len(a) = p - 1
        /\ \A i \in 1..p - 1 : a[i] = t[i]
    BY <1>1, <2>1, SubSeqProperties
  <2>4. /\ b \in Seq(S) /\ Len(b) = Len(t) - p
        /\ \A i \in 1..Len(t) - p : b[i] = t[p + i]
    <3>1. /\ b \in Seq(S)
          /\ Len(b) = IF p + 1 <= Len(t) THEN Len(t) - (p + 1) + 1 ELSE 0
          /\ \A i \in 1..Len(t) - (p + 1) + 1 : b[i] = t[p + 1 + i - 1]
      BY <1>1, <2>1, SubSeqProperties
    <3> HIDE DEF b
    <3>2. \A i \in 1..Len(t) - p : /\ i \in 1..Len(t) - (p + 1) + 1
                                   /\ p + 1 + i - 1 = p + i
      BY <1>1, <2>1
    <3>3. Len(b) = Len(t) - p
      <4> DEFINE l == Len(t)
      <4>1. l \in Nat /\ p \in Nat /\ p <= l
        BY <1>1, <2>1
      <4>2. Len(b) = IF p + 1 <= l THEN l - (p + 1) + 1 ELSE 0
        BY <3>1
      <4> HIDE DEF l
      <4>3. p + 1 <= l => Len(b) = l - p
        BY <4>1, <4>2
      <4>4. ~(p + 1 <= l) => Len(b) = l - p
        BY <4>1, <4>2
      <4> QED BY <4>3, <4>4 DEF l
    <3>4. \A i \in 1..Len(t) - p : b[i] = t[p + i]
      BY <3>1, <3>2
    <3> QED BY <3>1, <3>3, <3>4
  <2> HIDE DEF a, b
  <2>5. /\ d \in Seq(S) /\ Len(d) = Len(a) + Len(b)
        /\ \A i \in 1..Len(a) + Len(b) :
               d[i] = IF i <= Len(a) THEN a[i] ELSE b[i - Len(a)]
    BY <2>3, <2>4, ConcatProperties
  <2> HIDE DEF d
  <2>6. Len(d) + 1 = Len(t)
    BY <1>1, <2>1, <2>3, <2>4, <2>5
  <2>7. ASSUME NEW i \in 1..Len(d)
        PROVE  d[i] = IF i < p THEN t[i] ELSE t[i + 1]
    <3>1. CASE i < p
      BY <1>1, <2>1, <2>3, <2>5, <2>6, <3>1
    <3>2. CASE ~(i < p)
      <4>1. i - Len(a) \in 1..Len(t) - p /\ p + (i - Len(a)) = i + 1
            /\ ~(i <= Len(a)) /\ i \in 1..Len(a) + Len(b)
        BY <1>1, <2>1, <2>3, <2>5, <2>6, <3>2
      <4> QED BY <2>4, <2>5, <3>2, <4>1
    <3> QED BY <3>1, <3>2
  <2> QED BY <2>1, <2>2, <2>5, <2>6, <2>7 DEF Skips
<1> QED BY <1>2, <1>3

(* An entry goes, and no other. *)
LEMMA DroppedInOrder ==
  ASSUME NEW S, NEW k \in Keys(S), NEW t \in Seq(S), NEW now \in Nat, NEW x \in S,
         InOrder(t, k, now)
  PROVE  LET d == Dropped(t, x)
         IN  /\ d \in Seq(S) /\ Len(d) <= Len(t) /\ InOrder(d, k, now)
             /\ In(x, t) => Len(d) + 1 = Len(t)
             /\ \A e : In(e, d) <=> In(e, t) /\ e # x
<1> DEFINE d == Dropped(t, x)
<1>1. /\ d \in Seq(S)
      /\ \/ ~In(x, t) /\ d = t
         \/ \E p \in 1..Len(t) : t[p] = x /\ Skips(d, t, p)
  BY DroppedCases
<1> HIDE DEF d
<1>2. /\ Len(t) \in Nat /\ Len(d) \in Nat
      /\ \A i \in 1..Len(t) : k[t[i]] \in Slots \X Nat
  BY <1>1, LenProperties DEF Keys
<1>3. CASE ~In(x, t) /\ d = t
  BY <1>1, <1>2, <1>3 DEF d, In
<1>4. ASSUME NEW p \in 1..Len(t), t[p] = x, Skips(d, t, p)
      PROVE  /\ Len(d) <= Len(t) /\ InOrder(d, k, now)
             /\ In(x, t) => Len(d) + 1 = Len(t)
             /\ \A e : In(e, d) <=> In(e, t) /\ e # x
  <2> DEFINE g(i) == IF i < p THEN i ELSE i + 1
  <2>1. Len(d) + 1 = Len(t)
    BY <1>4 DEF Skips
  <2>2. \A i \in 1..Len(d) : g(i) \in 1..Len(t) /\ g(i) # p
    BY <1>2, <2>1
  <2>3. \A i \in 1..Len(d) : d[i] = t[g(i)]
    BY <1>4 DEF Skips
  <2>4. \A i, j \in 1..Len(d) : i < j => g(i) < g(j)
    BY <1>2, <2>1
  <2>5. \A j \in 1..Len(t) : j # p => \E i \in 1..Len(d) : g(i) = j
    <3> SUFFICES ASSUME NEW j \in 1..Len(t), j # p
                 PROVE  \E i \in 1..Len(d) : g(i) = j
      OBVIOUS
    <3>1. CASE j < p
      BY <1>2, <2>1, <3>1
    <3>2. CASE ~(j < p)
      <4>1. j - 1 \in 1..Len(d) /\ g(j - 1) = j
        BY <1>2, <2>1, <3>2
      <4> QED BY <4>1
    <3> QED BY <3>1, <3>2
  <2> HIDE DEF g
  <2>6. InOrder(d, k, now)
    <3>1. ASSUME NEW i \in 1..Len(d), NEW j \in 1..Len(d), i < j
          PROVE  k[d[i]] # k[d[j]] /\ k[d[i]][2] <= k[d[j]][2]
      <4>1. d[i] = t[g(i)] /\ d[j] = t[g(j)] /\ g(i) < g(j)
            /\ g(i) \in 1..Len(t) /\ g(j) \in 1..Len(t)
        BY <2>2, <2>3, <2>4, <3>1
      <4> QED BY <4>1 DEF InOrder
    <3>2. ASSUME NEW i \in 1..Len(d) PROVE k[d[i]][2] <= now
      <4>1. d[i] = t[g(i)] /\ g(i) \in 1..Len(t)
        BY <2>2, <2>3
      <4> QED BY <4>1 DEF InOrder
    <3> QED BY <3>1, <3>2 DEF InOrder
  <2>7. \A j \in 1..Len(t) : j # p => t[j] # x
    BY <1>2, <1>4 DEF InOrder
  <2>8. \A e : In(e, d) <=> In(e, t) /\ e # x
    BY <1>4, <2>2, <2>3, <2>5, <2>7 DEF In
  <2> QED BY <1>2, <2>1, <2>6, <2>8
<1> QED BY <1>1, <1>3, <1>4 DEF d

(* The touched entry is the last one; the others keep their places.        *)
LEMMA TouchedInOrder ==
  ASSUME NEW S, NEW k \in Keys(S), NEW t \in Seq(S), NEW now \in Nat, NEW x \in S,
         InOrder(t, k, now), k[x][2] = now,
         \A e : In(e, t) /\ k[e] = k[x] => e = x
  PROVE  LET u == Touched(t, x)
         IN  /\ u \in Seq(S) /\ Len(u) <= Len(t) + 1 /\ InOrder(u, k, now)
             /\ In(x, t) => Len(u) = Len(t)
             /\ Len(u) > 0 /\ u[Len(u)] = x
             /\ \A e : In(e, u) <=> In(e, t) \/ e = x
<1> DEFINE d == Dropped(t, x)
           u == Append(d, x)
<1>1. /\ d \in Seq(S) /\ Len(d) <= Len(t) /\ InOrder(d, k, now)
      /\ In(x, t) => Len(d) + 1 = Len(t)
      /\ \A e : In(e, d) <=> In(e, t) /\ e # x
  BY DroppedInOrder
<1>2. Touched(t, x) = u
  BY DEF Touched
<1> HIDE DEF d
<1>3. /\ u \in Seq(S) /\ Len(u) = Len(d) + 1
      /\ \A i \in 1..Len(d) : u[i] = d[i]
      /\ u[Len(d) + 1] = x
  BY <1>1, AppendProperties
<1> HIDE DEF u
<1>4. Len(t) \in Nat /\ Len(d) \in Nat
  BY <1>1, LenProperties
<1>5. \A i \in 1..Len(d) : /\ In(d[i], d) /\ k[d[i]] # k[x]
                           /\ k[d[i]][2] <= k[x][2]
  BY <1>1 DEF In, InOrder
<1>6. InOrder(u, k, now)
  <2>1. ASSUME NEW i \in 1..Len(u), NEW j \in 1..Len(u), i < j
        PROVE  k[u[i]] # k[u[j]] /\ k[u[i]][2] <= k[u[j]][2]
    <3>1. i \in 1..Len(d) /\ u[i] = d[i]
      BY <1>3, <1>4, <2>1
    <3>2. CASE j = Len(d) + 1
      BY <1>3, <1>5, <3>1, <3>2
    <3>3. CASE j # Len(d) + 1
      <4>1. j \in 1..Len(d) /\ u[j] = d[j]
        BY <1>3, <1>4, <3>3
      <4> QED BY <1>1, <2>1, <3>1, <4>1 DEF InOrder
    <3> QED BY <3>2, <3>3
  <2>2. ASSUME NEW i \in 1..Len(u) PROVE k[u[i]][2] <= now
    <3>1. CASE i = Len(d) + 1
      BY <1>3, <3>1
    <3>2. CASE i # Len(d) + 1
      <4>1. i \in 1..Len(d) /\ u[i] = d[i]
        BY <1>3, <1>4, <3>2
      <4> QED BY <1>1, <4>1 DEF InOrder
    <3> QED BY <3>1, <3>2
  <2> QED BY <2>1, <2>2 DEF InOrder
<1>7. \A e : In(e, u) <=> In(e, d) \/ e = x
  <2>1. \A i \in 1..Len(u) : i = Len(d) + 1 \/ i \in 1..Len(d)
    BY <1>3, <1>4
  <2>2. Len(d) + 1 \in 1..Len(u) /\ \A i \in 1..Len(d) : i \in 1..Len(u)
    BY <1>3, <1>4
  <2> QED BY <1>3, <2>1, <2>2 DEF In
<1>8. \A e : In(e, u) <=> In(e, t) \/ e = x
  BY <1>1, <1>7
<1> QED BY <1>1, <1>2, <1>3, <1>4, <1>6, <1>8

(* With room for the slots, no entry of the current batch is evicted: the  *)
(* evicted one is the oldest, and there are more entries than slots.       *)
LEMMA LatestInOrder ==
  ASSUME NEW S, NEW k \in Keys(S), NEW u \in Seq(S), NEW now \in Nat,
         NEW n \in Nat \ {0}, Len(u) <= n + 1, Len(u) > 0, InOrder(u, k, now)
  PROVE  LET v == Latest(u, n)
         IN  /\ v \in Seq(S) /\ Len(v) <= n /\ InOrder(v, k, now)
             /\ In(u[Len(u)], v)
             /\ \A e : In(e, v) => In(e, u)
             /\ Cardinality(Slots) <= n =>
                  \A e : In(e, u) /\ k[e][2] = now => In(e, v)
<1> DEFINE v == Latest(u, n)
           l == Len(u)
<1>1. /\ l \in Nat /\ l > 0 /\ \A i \in 1..l : u[i] \in S
      /\ \A i \in 1..l : k[u[i]] \in Slots \X Nat
  BY LenProperties DEF Keys
<1>2. CASE l <= n
  <2>1. v = SubSeq(u, 1, l)
    <3>1. ~(l > n)
      BY <1>1, <1>2
    <3> QED BY <3>1 DEF Latest
  <2>2. SubSeq(u, 1, l) \in Seq(S) /\ Len(SubSeq(u, 1, l)) = l
        /\ \A i \in 1..l : SubSeq(u, 1, l)[i] = u[i]
    BY <1>1, SubSeqProperties
  <2>3. v = u
    BY <2>1, <2>2, SeqEqual
  <2>4. In(u[l], u)
    BY <1>1 DEF In
  <2> QED BY <1>2, <2>3, <2>4
<1>3. CASE ~(l <= n)
  <2>1. l = n + 1
    BY <1>1, <1>3
  <2>2. v = SubSeq(u, 2, l)
    BY <1>1, <1>3, <2>1 DEF Latest
  <2> HIDE DEF v
  <2>3. v \in Seq(S) /\ Len(v) = n /\ \A i \in 1..n : v[i] = u[i + 1]
    <3>1. /\ SubSeq(u, 2, l) \in Seq(S)
          /\ Len(SubSeq(u, 2, l)) = IF 2 <= l THEN l - 2 + 1 ELSE 0
          /\ \A i \in 1..l - 2 + 1 : SubSeq(u, 2, l)[i] = u[2 + i - 1]
      BY <1>1, SubSeqProperties
    <3>2. \A i \in 1..n : i \in 1..l - 2 + 1 /\ 2 + i - 1 = i + 1
      BY <2>1
    <3> QED BY <2>1, <2>2, <3>1, <3>2
  <2>4. \A i \in 1..n : i + 1 \in 1..l
    BY <2>1
  <2>5. \A j \in 1..l : j = 1 \/ (j - 1 \in 1..n /\ (j - 1) + 1 = j)
    BY <2>1
  <2>6. InOrder(v, k, now)
    <3>1. ASSUME NEW i \in 1..n, NEW j \in 1..n, i < j
          PROVE  k[v[i]] # k[v[j]] /\ k[v[i]][2] <= k[v[j]][2]
      <4>1. v[i] = u[i + 1] /\ v[j] = u[j + 1] /\ i + 1 < j + 1
            /\ i + 1 \in 1..l /\ j + 1 \in 1..l
        BY <2>3, <2>4, <3>1
      <4> QED BY <4>1 DEF InOrder
    <3>2. ASSUME NEW i \in 1..n PROVE k[v[i]][2] <= now
      <4>1. v[i] = u[i + 1] /\ i + 1 \in 1..l
        BY <2>3, <2>4
      <4> QED BY <4>1 DEF InOrder
    <3> QED BY <2>3, <3>1, <3>2 DEF InOrder
  <2>7. \A e : In(e, v) => In(e, u)
    BY <2>3, <2>4 DEF In
  <2>8. \A j \in 1..l : j = 1 \/ In(u[j], v)
    BY <2>3, <2>5 DEF In
  <2>9. In(u[l], v)
    BY <1>1, <2>1, <2>8
  <2>10. ASSUME Cardinality(Slots) <= n, NEW e, In(e, u), k[e][2] = now
         PROVE  In(e, v)
    <3> SUFFICES ASSUME ~In(e, v) PROVE FALSE
      OBVIOUS
    <3>1. u[1] = e
      BY <2>8, <2>10 DEF In
    <3>2. \A i \in 1..l : k[u[i]][2] = now
      <4> SUFFICES ASSUME NEW i \in 1..l PROVE k[u[i]][2] = now
        OBVIOUS
      <4>1. k[u[i]][2] <= now /\ k[u[i]][2] \in Nat
        BY <1>1 DEF InOrder
      <4>2. CASE i = 1
        BY <2>10, <3>1, <4>2
      <4>3. CASE i # 1
        <5>1. 1 \in 1..l /\ 1 < i
          BY <1>1, <4>3
        <5>2. k[u[1]][2] <= k[u[i]][2]
          BY <5>1 DEF InOrder
        <5> QED BY <2>10, <3>1, <4>1, <5>2
      <4> QED BY <4>2, <4>3
    <3> DEFINE f == [i \in 1..l |-> k[u[i]][1]]
    <3>3. f \in [1..l -> Slots]
      BY <1>1
    <3>4. \A i, j \in 1..l : i # j => f[i] # f[j]
      <4> SUFFICES ASSUME NEW i \in 1..l, NEW j \in 1..l, i # j, f[i] = f[j]
                   PROVE  FALSE
        OBVIOUS
      <4>1. k[u[i]] = k[u[j]]
        BY <1>1, <3>2
      <4>2. i < j \/ j < i
        OBVIOUS
      <4> QED BY <4>1, <4>2 DEF InOrder
    <3>5. /\ IsFiniteSet(1..l) /\ Cardinality(1..l) = l
          /\ IsFiniteSet(Slots) /\ Cardinality(Slots) \in Nat
      BY <1>1, FS_Interval, FS_CardinalityType, RolloutAssumption
    <3>6. Cardinality(Slots) < Cardinality(1..l)
      BY <2>1, <2>10, <3>5
    <3> HIDE DEF f
    <3> QED BY <3>3, <3>4, <3>5, <3>6, FS_PigeonHole
  <2> QED BY <2>3, <2>6, <2>7, <2>9, <2>10 DEF v
<1> QED BY <1>2, <1>3
-----------------------------------------------------------------------------
(* Environments *)

(* A request that has its environment. *)
Equipped == {"running", "engine", "tools", "interacting", "stepping"}

Roomy == ~setup.agent /\ setup.maxInstances >= Cardinality(Slots)

Own == [e \in Slots \X Nat |-> e]

(* The environment of slot s, as it should be. *)
EnvOf(s) == LET q == reqs[s] IN
    /\ q.st \in Equipped => In(<<s, batch>>, instances) /\ q.closed = FALSE
    /\ q.st \in Equipped \ {"stepping"} => q.userTurns = q.envTurns
    /\ q.st = "stepping" => q.userTurns = q.envTurns + 1
    /\ q.st \in {"pending", "building"} => q.userTurns = 0
    /\ q.st # "rebuilding"

EnvsHeld ==
    /\ instances \in Seq(Slots \X Nat) /\ Len(instances) <= setup.maxInstances
    /\ InOrder(instances, Own, batch)
    /\ \A s \in Slots : EnvOf(s)

EnvInv == Rows /\ batch \in Nat /\ (Roomy => EnvsHeld)

(* A step away from the environment. *)
Stays(r, q) ==
    \/ r.st = "done"
    \/ /\ q.st \in Equipped /\ r.st \in Equipped \ {"stepping"}
       /\ r.closed = q.closed /\ r.userTurns = q.userTurns
       /\ r.envTurns = IF q.st = "stepping" THEN q.envTurns + 1 ELSE q.envTurns

(* One request changes, the others stay. *)
LEMMA Became ==
  ASSUME Rows, NEW s \in Slots, NEW q, Become(s, q)
  PROVE  reqs'[s] = q /\ \A x \in Slots : x # s => reqs'[x] = reqs[x]
BY DEF Rows, Become

(* A finished request is done. *)
LEMMA FinishDone ==
  ASSUME NEW q, Sound(q), NEW reason \in {"stop", "length"}
  PROVE  Finish(q, reason).st = "done"
<1>1. PICK why \in {"stop", "length"} : Finish(q, reason) = Finalize(q, why)
  BY DEF Finish
<1> QED BY <1>1, FinalizeFacts DEF Cropped

(* A request that goes on keeps what its environment knows of it. *)
LEMMA ContinueStays ==
  ASSUME NEW a, Sound(a), NEW st \in {"tools", "running"}
  PROVE  \/ Continue(a, st).st = "done"
         \/ LET r == Continue(a, st)
            IN  /\ r.st = st /\ r.closed = a.closed
                /\ r.userTurns = a.userTurns /\ r.envTurns = a.envTurns
<1>1. a \in Request
  BY SoundType
<1>2. CASE Continue(a, st) = Finish(a, "stop")
  BY <1>2, FinishDone
<1>3. CASE Continue(a, st) = [a EXCEPT !.st = st]
  BY <1>1, <1>3 DEF Request
<1> QED BY <1>1, <1>2, <1>3, ContinueCases

(* So does one that has been given an observation, *)
LEMMA ObservationStays ==
  ASSUME NEW o, Sound(o)
  PROVE  \/ AfterObservation(o).st = "done"
         \/ LET r == AfterObservation(o)
            IN  /\ r.st = "running" /\ r.closed = o.closed
                /\ r.userTurns = o.userTurns /\ r.envTurns = o.envTurns
BY FinishDone, ContinueStays DEF AfterObservation

(* one that calls the engine or may not, *)
LEMMA EngineStays ==
  ASSUME Rows, NEW s \in Slots, OutOfRoom(s) \/ CallEngine(s)
  PROVE  Stays(reqs'[s], reqs[s])
<1> DEFINE q == reqs[s]
           w == WithPrompt(q)
           x == w.ids
           r == [w EXCEPT !.st = "engine", !.heard = x]
<1>1. ~setup.agent /\ q.st = "running"
  BY DEF OutOfRoom, CallEngine, At
<1>2. Sound(w) /\ Same(w, q) /\ w \in Request
  BY <1>1, InFlight, WithPromptFacts, SoundType DEF Alive
<1>3. CASE OutOfRoom(s)
  <2>1. Become(s, Finish(w, "length"))
    BY <1>3 DEF OutOfRoom
  <2> HIDE DEF w
  <2> QED BY <1>2, <2>1, Became, FinishDone DEF Stays
<1>4. CASE CallEngine(s)
  <2>1. reqs'[s] = r
    BY <1>4, Became DEF CallEngine
  <2> HIDE DEF w, x, q
  <2>2. /\ r.st = "engine" /\ r.closed = w.closed
        /\ r.userTurns = w.userTurns /\ r.envTurns = w.envTurns
    BY <1>2 DEF Request
  <2> HIDE DEF r
  <2>3. Stays(r, q)
    BY <1>1, <1>2, <2>2 DEF Stays, Same, Equipped
  <2> QED BY <2>1, <2>3 DEF q
<1> QED BY <1>3, <1>4

(* one that is answered, *)
LEMMA AnswerStays ==
  ASSUME Rows, NEW s \in Slots, AnswerCut(s) \/ AnswerCalls(s) \/ AnswerPlain(s)
  PROVE  Stays(reqs'[s], reqs[s])
<1> DEFINE q == reqs[s]
           a(n, why) == Answered(s, n, why)
<1>1. /\ ~setup.agent /\ q.st = "engine" /\ Alive(q, setup) /\ q \in Request
      /\ Sound(q) /\ InTurn(q)
  <2>1. ~setup.agent /\ q.st = "engine"
    BY DEF AnswerCut, AnswerCalls, AnswerPlain, At
  <2> QED BY <2>1, InFlight DEF Alive
<1>2. ASSUME NEW n \in Nat, NEW why \in {"stop", "length", "tool_calls"}
      PROVE  /\ Sound(a(n, why)) /\ a(n, why) \in Request
             /\ a(n, why).closed = q.closed /\ a(n, why).userTurns = q.userTurns
             /\ a(n, why).envTurns = q.envTurns
  BY <1>1, AnsweredFacts, SoundType DEF InTurn, Spoken
<1>3. CASE AnswerCut(s)
  <2>1. Cap(q) \in Nat
    <3>1. /\ Len(q.ids) \in Nat /\ Len(q.ids) + 1 < MaxModelLen
          /\ MaxModelLen \in Nat /\ ResponseLength \in Nat
      BY <1>1, Limits, RequestType DEF InTurn
    <3> HIDE DEF q
    <3> QED BY <3>1 DEF Cap
  <2>2. reqs'[s] = Finish(a(Cap(q), "length"), "length")
    BY <1>3, Became DEF AnswerCut
  <2>3. Sound(a(Cap(q), "length"))
    BY <1>2, <2>1
  <2> HIDE DEF a
  <2> QED BY <2>2, <2>3, FinishDone DEF Stays
<1>4. CASE AnswerCalls(s)
  <2>1. PICK n \in AnswerLength(s), parsed \in BOOLEAN :
           Become(s, IF parsed THEN Continue(a(n, "tool_calls"), "tools")
                               ELSE Finish(a(n, "tool_calls"), "stop"))
    BY <1>4 DEF AnswerCalls
  <2> DEFINE b == a(n, "tool_calls")
  <2>2. n \in Nat
    BY Limits DEF AnswerLength
  <2>3. /\ Sound(b) /\ b.closed = q.closed /\ b.userTurns = q.userTurns
        /\ b.envTurns = q.envTurns
    BY <1>2, <2>2
  <2>4. reqs'[s] = Continue(b, "tools") \/ reqs'[s] = Finish(b, "stop")
    BY <2>1, Became
  <2> HIDE DEF b, q
  <2>5. Stays(reqs'[s], q)
    BY <1>1, <2>3, <2>4, ContinueStays, FinishDone DEF Stays, Equipped
  <2> QED BY <2>5 DEF q
<1>5. CASE AnswerPlain(s)
  <2>1. PICK n \in AnswerLength(s) :
           \/ Become(s, [a(n, "stop") EXCEPT !.st = "interacting"])
           \/ Become(s, Finish(a(n, "stop"), "stop"))
    <3>1. PICK n \in AnswerLength(s) :
            Become(s, IF /\ a(n, "stop").userTurns < MaxUserTurns
                         /\ a(n, "stop").turns < MaxAssistantTurns
                      THEN [a(n, "stop") EXCEPT !.st = "interacting"]
                      ELSE Finish(a(n, "stop"), "stop"))
      BY <1>5 DEF AnswerPlain
    <3> HIDE DEF a
    <3> QED BY <3>1
  <2> DEFINE b == a(n, "stop")
             r == [b EXCEPT !.st = "interacting"]
  <2>2. n \in Nat
    BY Limits DEF AnswerLength
  <2>3. /\ Sound(b) /\ b.closed = q.closed /\ b.userTurns = q.userTurns
        /\ b.envTurns = q.envTurns /\ b \in Request
    BY <1>2, <2>2
  <2>4. reqs'[s] = r \/ reqs'[s] = Finish(b, "stop")
    BY <2>1, Became
  <2> HIDE DEF b, q
  <2>5. /\ r.st = "interacting" /\ r.closed = b.closed
        /\ r.userTurns = b.userTurns /\ r.envTurns = b.envTurns
    BY <2>3 DEF Request
  <2> HIDE DEF r
  <2>6. Stays(reqs'[s], q)
    BY <1>1, <2>3, <2>4, <2>5, FinishDone DEF Stays, Equipped
  <2> QED BY <2>6 DEF q
<1> QED BY <1>3, <1>4, <1>5

(* and one whose tools or environment answered. *)
LEMMA ObservedStays ==
  ASSUME Rows, NEW s \in Slots, ToolsAnswer(s) \/ EnvObserves(s)
  PROVE  Stays(reqs'[s], reqs[s])
<1> DEFINE q == reqs[s]
<1>1. CASE ToolsAnswer(s)
  <2> DEFINE o(n) == AddToolOutput(q, n)
  <2>1. PICK n \in {0} \cup ObsLens : reqs'[s] = AfterObservation(o(n))
    BY <1>1, Became DEF ToolsAnswer
  <2>2. ~setup.agent /\ q.st = "tools" /\ n \in Nat
    BY <1>1, Limits DEF ToolsAnswer, At
  <2>3. Sound(q) /\ q.ids[Len(q.ids)] # "G"
    BY <2>2, InFlight DEF Alive, InTurn
  <2>4. RemovePrompt(q) = q
    <3>1. q.ids \in Seq(Token)
      BY <2>3, SoundType, RequestType
    <3> HIDE DEF q
    <3> QED BY <2>3, <3>1 DEF RemovePrompt, EndsInPrompt, Last
  <2>5. o(n) = q \/ o(n) = Update(q, "t", n, FALSE)
    BY <2>4 DEF AddToolOutput
  <2> HIDE DEF o, q
  <2>6. /\ Sound(o(n)) /\ o(n).closed = q.closed
        /\ o(n).userTurns = q.userTurns /\ o(n).envTurns = q.envTurns
    <3> DEFINE y == Update(q, "t", n, FALSE)
    <3>1. Sound(y) /\ Same(y, q)
      BY <2>2, <2>3, SaidContinues
    <3>2. o(n) = q \/ o(n) = y
      BY <2>5
    <3> HIDE DEF y
    <3> QED BY <2>3, <3>1, <3>2 DEF Same
  <2>7. Stays(reqs'[s], q)
    BY <2>1, <2>2, <2>6, ObservationStays DEF Stays, Equipped
  <2> QED BY <2>7 DEF q
<1>2. CASE EnvObserves(s)
  <2> DEFINE u(n) == AddUser(q, n)
             r(n) == [u(n) EXCEPT !.envTurns = @ + 1]
  <2>1. PICK n \in ObsLens : reqs'[s] = AfterObservation(r(n))
    BY <1>2, Became DEF EnvObserves
  <2>2. ~setup.agent /\ q.st = "stepping" /\ n \in Nat
    BY <1>2, Limits DEF EnvObserves, At
  <2>3. Sound(q)
    BY <2>2, InFlight DEF Alive, InTurn
  <2> HIDE DEF q
  <2>4. Sound(u(n)) /\ Same(u(n), q)
    BY <2>2, <2>3, SaidContinues DEF AddUser
  <2> HIDE DEF u
  <2>5. Sound(r(n))
    BY <2>4, SteppedFacts
  <2>6. /\ r(n).closed = u(n).closed /\ r(n).userTurns = u(n).userTurns
        /\ r(n).envTurns = u(n).envTurns + 1
    <3>1. u(n) \in Request
      BY <2>4, SoundType
    <3> QED BY <3>1 DEF Request
  <2> HIDE DEF r
  <2>7. Stays(reqs'[s], q)
    BY <2>1, <2>2, <2>4, <2>5, <2>6, ObservationStays DEF Stays, Equipped, Same
  <2> QED BY <2>7 DEF q
<1> QED BY <1>1, <1>2

(* The table after an entry of the current batch is touched and the table  *)
(* cut to its bound: only entries of older batches have gone.              *)
LEMMA Stored ==
  ASSUME NEW t \in Seq(Slots \X Nat), NEW n \in Nat \ {0}, Len(t) <= n,
         batch \in Nat, InOrder(t, Own, batch), NEW s \in Slots,
         Cardinality(Slots) <= n
  PROVE  LET v == Latest(Touched(t, <<s, batch>>), n)
         IN  /\ v \in Seq(Slots \X Nat) /\ Len(v) <= n /\ InOrder(v, Own, batch)
             /\ In(<<s, batch>>, v)
             /\ \A x \in Slots : In(<<x, batch>>, t) => In(<<x, batch>>, v)
<1> DEFINE e == <<s, batch>>
           u == Touched(t, e)
           v == Latest(u, n)
<1>1. Own \in Keys(Slots \X Nat) /\ \A y \in Slots \X Nat : Own[y] = y
  BY DEF Own, Keys
<1>2. e \in Slots \X Nat /\ Own[e][2] = batch
  BY <1>1
<1>3. \A y : In(y, t) => y \in Slots \X Nat
  BY DEF In
<1>4. \A y : In(y, t) /\ Own[y] = Own[e] => y = e
  BY <1>1, <1>2, <1>3
<1> HIDE DEF e
<1>5. /\ u \in Seq(Slots \X Nat) /\ Len(u) <= Len(t) + 1
      /\ InOrder(u, Own, batch) /\ Len(u) > 0 /\ u[Len(u)] = e
      /\ \A y : In(y, u) <=> In(y, t) \/ y = e
  BY <1>1, <1>2, <1>4, TouchedInOrder
<1> HIDE DEF u
<1>6. Len(u) <= n + 1
  BY <1>5, LenProperties
<1>7. /\ v \in Seq(Slots \X Nat) /\ Len(v) <= n /\ InOrder(v, Own, batch)
      /\ In(u[Len(u)], v)
      /\ \A y : In(y, u) /\ Own[y][2] = batch => In(y, v)
  BY <1>1, <1>5, <1>6, LatestInOrder
<1>8. \A x \in Slots : Own[<<x, batch>>][2] = batch
  BY <1>1
<1> HIDE DEF v
<1> QED BY <1>5, <1>7, <1>8 DEF e, u, v

(* Then the environments are held as before. *)
LEMMA EnvStays ==
  ASSUME EnvsHeld, NEW s \in Slots, UNCHANGED <<setup, batch, instances>>,
         \A x \in Slots : x # s => reqs'[x] = reqs[x],
         Stays(reqs'[s], reqs[s])
  PROVE  EnvsHeld'
<1>1. \A x \in Slots : x # s => EnvOf(x)'
  BY DEF EnvsHeld, EnvOf
<1>2. EnvOf(s)'
  <2> DEFINE q == reqs[s]
             r == reqs'[s]
  <2>1. EnvOf(s) /\ Stays(r, q)
    BY DEF EnvsHeld
  <2> HIDE DEF q, r
  <2>2. CASE r.st = "done"
    BY <2>2 DEF EnvOf, Equipped, r
  <2>3. CASE r.st # "done"
    <3>1. /\ q.st \in Equipped /\ r.st \in Equipped \ {"stepping"}
          /\ r.closed = q.closed /\ r.userTurns = q.userTurns
          /\ r.envTurns = IF q.st = "stepping" THEN q.envTurns + 1 ELSE q.envTurns
      BY <2>1, <2>3 DEF Stays
    <3>2. /\ In(<<s, batch>>, instances) /\ q.closed = FALSE
          /\ q.st # "stepping" => q.userTurns = q.envTurns
          /\ q.st = "stepping" => q.userTurns = q.envTurns + 1
      BY <2>1, <3>1 DEF EnvOf, q
    <3>3. r.userTurns = r.envTurns
      BY <3>1, <3>2
    <3> QED BY <3>1, <3>2, <3>3 DEF EnvOf, Equipped, r
  <2> QED BY <2>2, <2>3
<1> QED BY <1>1, <1>2 DEF EnvsHeld

(* A start that awaits its environment preserves EnvsHeld. *)
LEMMA StartEnvs ==
  ASSUME Rows, EnvsHeld, NEW s \in Slots, Start(s)
  PROVE  EnvsHeld'
<1> DEFINE q == reqs[s]
           o(n) == AddToolOutput(q, n)
           r(n) == [o(n) EXCEPT !.st = "building"]
<1>1. \E n \in Nat : Become(s, r(n))
  BY Limits DEF Start
<1>2. PICK n \in Nat : Become(s, r(n))
  BY <1>1
<1>3. /\ ~setup.agent /\ q.st = "pending" /\ UNCHANGED <<setup, batch, instances>>
      /\ reqs'[s] = r(n) /\ \A x \in Slots : x # s => reqs'[x] = reqs[x]
  BY <1>2, Became DEF Start, At
<1>4. Sound(q) /\ Len(q.ids) = q.promptLen /\ q.heard = <<>>
  BY <1>3, InFlight DEF Alive, InTurn
<1> HIDE DEF q
<1>5. o(n) \in Request /\ o(n).userTurns = q.userTurns
  BY <1>4, CreatedFacts, SoundType DEF Same
<1> HIDE DEF o
<1>6. r(n).st = "building" /\ r(n).userTurns = q.userTurns
  BY <1>5 DEF Request
<1> HIDE DEF r
<1>7. \A x \in Slots : EnvOf(x)'
  BY <1>3, <1>6 DEF EnvsHeld, EnvOf, Equipped, q
<1> QED BY <1>3, <1>7 DEF EnvsHeld

(* So does an environment that is built: there is room, *)
LEMMA BuiltEnvs ==
  ASSUME Rows, batch \in Nat, Roomy, EnvsHeld, NEW s \in Slots, EnvBuilt(s)
  PROVE  EnvsHeld'
<1> DEFINE v == Remembered(<<s, batch>>)
           q == reqs[s]
           r == [q EXCEPT !.st = "running", !.envTurns = 0, !.closed = FALSE]
           n == setup.maxInstances
           Closed(x) == [reqs[x] EXCEPT !.closed = TRUE]
           gone == {x \in Slots : /\ \E i \in DOMAIN instances :
                                         instances[i] = <<x, batch>>
                                  /\ \A i \in DOMAIN v : v[i] # <<x, batch>>}
<1>1. /\ q.st = "building" /\ instances' = v /\ UNCHANGED <<setup, batch>>
      /\ reqs' = [x \in Slots |-> IF x = s THEN r
                                  ELSE IF x \in gone THEN Closed(x)
                                  ELSE reqs[x]]
  BY DEF EnvBuilt, EnvStored, At
<1>2. q \in Request /\ EnvOf(s) /\ q.userTurns = 0
  BY <1>1 DEF Rows, EnvsHeld, EnvOf
<1>3. /\ r.st = "running" /\ r.envTurns = 0 /\ r.closed = FALSE
      /\ r.userTurns = 0
  BY <1>2 DEF Request
<1>4. n \in Nat \ {0} /\ Cardinality(Slots) <= n
      /\ Cardinality(Slots) \in Nat
  <2>1. n \in Nat \ {0}
    BY RolloutAssumption DEF Rows
  <2>2. Cardinality(Slots) \in Nat
    BY RolloutAssumption, FS_CardinalityType
  <2> QED BY <2>1, <2>2 DEF Roomy
<1>5. /\ v \in Seq(Slots \X Nat) /\ Len(v) <= n /\ InOrder(v, Own, batch)
      /\ In(<<s, batch>>, v)
      /\ \A x \in Slots : In(<<x, batch>>, instances) => In(<<x, batch>>, v)
  <2>1. v = Latest(Touched(instances, <<s, batch>>), n)
    BY DEF Remembered
  <2> HIDE DEF v, n
  <2> QED BY <1>4, <2>1, Stored DEF EnvsHeld, n
<1> HIDE DEF v, r, Closed, n
<1>6. gone = {}
  <2>1. DOMAIN v = 1..Len(v) /\ DOMAIN instances = 1..Len(instances)
    BY <1>5, LenProperties DEF EnvsHeld
  <2> QED BY <1>5, <2>1 DEF In
<1> HIDE DEF gone
<1>7. reqs'[s] = r /\ \A x \in Slots : x # s => reqs'[x] = reqs[x]
  BY <1>1, <1>6
<1>8. \A x \in Slots : x # s => EnvOf(x)'
  BY <1>1, <1>5, <1>7 DEF EnvsHeld, EnvOf
<1>9. EnvOf(s)'
  BY <1>1, <1>3, <1>5, <1>7 DEF EnvOf, Equipped
<1> QED BY <1>1, <1>5, <1>8, <1>9 DEF EnvsHeld, n

(* a turn of the environment, *)
LEMMA InteractEnvs ==
  ASSUME Rows, batch \in Nat, EnvsHeld, NEW s \in Slots, Interact(s)
  PROVE  EnvsHeld'
<1> DEFINE q == reqs[s]
           e == <<s, batch>>
           v == Touched(instances, e)
           r == [q EXCEPT !.userTurns = @ + 1, !.st = "stepping"]
<1>1. q.st = "interacting" /\ EnvOf(s) /\ q \in Request
  BY DEF Interact, At, EnvsHeld, Rows
<1>2. In(e, instances) /\ q.closed = FALSE /\ q.userTurns = q.envTurns
  BY <1>1 DEF EnvOf, Equipped
<1>3. Held(s)
  <2>1. DOMAIN instances = 1..Len(instances)
    BY LenProperties DEF EnvsHeld
  <2> QED BY <1>2, <2>1 DEF Held, In
<1>4. /\ instances' = v /\ reqs'[s] = r /\ UNCHANGED <<setup, batch>>
      /\ \A x \in Slots : x # s => reqs'[x] = reqs[x]
  BY <1>3, Became DEF Interact
<1>5. /\ r.st = "stepping" /\ r.userTurns = q.userTurns + 1
      /\ r.envTurns = q.envTurns /\ r.closed = q.closed
  BY <1>1 DEF Request
<1>6. /\ v \in Seq(Slots \X Nat) /\ Len(v) = Len(instances)
      /\ InOrder(v, Own, batch)
      /\ \A y : In(y, v) <=> In(y, instances) \/ y = e
  <2>1. Own \in Keys(Slots \X Nat) /\ \A y \in Slots \X Nat : Own[y] = y
    BY DEF Own, Keys
  <2>2. e \in Slots \X Nat /\ Own[e][2] = batch
    BY <2>1
  <2>3. \A y : In(y, instances) => y \in Slots \X Nat
    BY DEF In, EnvsHeld
  <2>4. \A y : In(y, instances) /\ Own[y] = Own[e] => y = e
    BY <2>1, <2>2, <2>3
  <2> HIDE DEF e
  <2> QED BY <1>2, <2>1, <2>2, <2>4, TouchedInOrder DEF EnvsHeld
<1> HIDE DEF v, r
<1>7. \A x \in Slots : x # s => EnvOf(x)'
  BY <1>4, <1>6 DEF EnvsHeld, EnvOf
<1>8. EnvOf(s)'
  BY <1>2, <1>4, <1>5, <1>6 DEF EnvOf, Equipped
<1> QED BY <1>4, <1>6, <1>7, <1>8 DEF EnvsHeld

(* the end of its session, *)
LEMMA EndedEnvs ==
  ASSUME Rows, batch \in Nat, EnvsHeld, NEW s \in Slots, EnvEnds(s)
  PROVE  EnvsHeld'
<1> DEFINE e == <<s, batch>>
           v == Dropped(instances, e)
           r == [reqs[s] EXCEPT !.envTurns = @ + 1]
<1>1. /\ instances' = v /\ reqs'[s] = Finish(r, "stop")
      /\ UNCHANGED <<setup, batch>>
      /\ \A x \in Slots : x # s => reqs'[x] = reqs[x]
  BY Became DEF EnvEnds, Without
<1>2. Sound(reqs[s])
  BY InFlight DEF EnvEnds, At
<1>3. Sound(r)
  BY <1>2, SteppedFacts
<1> HIDE DEF r
<1>4. reqs'[s].st = "done"
  BY <1>1, <1>3, FinishDone
<1>5. /\ v \in Seq(Slots \X Nat) /\ Len(v) <= Len(instances)
      /\ InOrder(v, Own, batch)
      /\ \A y : In(y, v) <=> In(y, instances) /\ y # e
  <2>1. Own \in Keys(Slots \X Nat) /\ e \in Slots \X Nat
    BY DEF Own, Keys
  <2> HIDE DEF e
  <2> QED BY <2>1, DroppedInOrder DEF EnvsHeld
<1>6. \A x \in Slots : x # s => <<x, batch>> # e
  OBVIOUS
<1> HIDE DEF v, e
<1>7. \A x \in Slots : x # s => EnvOf(x)'
  BY <1>1, <1>5, <1>6 DEF EnvsHeld, EnvOf
<1>8. EnvOf(s)'
  BY <1>4 DEF EnvOf, Equipped
<1>9. Len(v) <= setup.maxInstances
  <2>1. setup.maxInstances \in Nat
    BY RolloutAssumption DEF Rows
  <2> QED BY <1>5, <2>1, LenProperties DEF EnvsHeld
<1> QED BY <1>1, <1>5, <1>7, <1>8, <1>9 DEF EnvsHeld

(* and every step of a request. *)
LEMMA RequestStepEnvs ==
  ASSUME Rows, batch \in Nat, Roomy, EnvsHeld, NEW s \in Slots, RequestStep(s)
  PROVE  EnvsHeld'
<1>1. CASE Start(s)
  BY <1>1, StartEnvs
<1>2. CASE EnvBuilt(s)
  BY <1>2, BuiltEnvs
<1>3. CASE OutOfRoom(s) \/ CallEngine(s)
  BY <1>3, EngineStays, EnvStays, Became DEF OutOfRoom, CallEngine
<1>4. CASE AnswerCut(s) \/ AnswerCalls(s) \/ AnswerPlain(s)
  <2>1. UNCHANGED <<setup, batch, instances>>
    BY <1>4 DEF AnswerCut, AnswerCalls, AnswerPlain
  <2>2. \E q : Become(s, q)
    BY <1>4 DEF AnswerCut, AnswerCalls, AnswerPlain
  <2> QED BY <1>4, <2>1, <2>2, AnswerStays, EnvStays, Became
<1>5. CASE ToolsAnswer(s) \/ EnvObserves(s)
  <2>1. UNCHANGED <<setup, batch, instances>>
    BY <1>5 DEF ToolsAnswer, EnvObserves
  <2>2. \E q : Become(s, q)
    BY <1>5 DEF ToolsAnswer, EnvObserves
  <2> QED BY <1>5, <2>1, <2>2, ObservedStays, EnvStays, Became
<1>6. CASE Interact(s)
  BY <1>6, InteractEnvs
<1>7. CASE EnvRebuilt(s)
  BY <1>7 DEF EnvRebuilt, At, EnvsHeld, EnvOf
<1>8. CASE EnvEnds(s)
  BY <1>8, EndedEnvs
<1> QED BY <1>1, <1>2, <1>3, <1>4, <1>5, <1>6, <1>7, <1>8 DEF RequestStep

(* A fresh request is pending, without a turn of the user. *)
LEMMA FreshStatus ==
  ASSUME NEW p
  PROVE  /\ Fresh(p).st = "pending" /\ Fresh(p).userTurns = 0
BY DEF Fresh

(* The environments are held at first, *)
LEMMA EnvInit == Init => EnvInv
<1> SUFFICES ASSUME Init PROVE EnvInv
  OBVIOUS
<1>1. Rows
  BY RowsInit
<1>2. instances = <<>> /\ batch = 1
  BY DEF Init, RequestInit
<1>3. \A s \in Slots : reqs[s].st = "pending" /\ reqs[s].userTurns = 0
  BY FreshStatus DEF Init, RequestInit
<1>4. \A s \in Slots : EnvOf(s)
  BY <1>3 DEF EnvOf, Equipped
<1>5. instances \in Seq(Slots \X Nat) /\ Len(instances) = 0
  BY <1>2
<1>6. InOrder(instances, Own, batch)
  BY <1>5 DEF InOrder
<1>7. Len(instances) <= setup.maxInstances
  BY <1>1, <1>5, RolloutAssumption DEF Rows
<1> QED BY <1>1, <1>2, <1>4, <1>5, <1>6, <1>7 DEF EnvInv, EnvsHeld

(* and after every step. *)
LEMMA EnvNext == EnvInv /\ [Next]_vars => EnvInv'
<1> SUFFICES ASSUME EnvInv, [Next]_vars PROVE EnvInv'
  OBVIOUS
<1>1. Rows' /\ Rows
  BY RowsNext DEF EnvInv
<1>2. CASE NextBatch
  <2>1. batch' = batch + 1 /\ UNCHANGED <<setup, instances>> /\ batch \in Nat
    BY <1>2 DEF NextBatch, RequestNextBatch, EnvInv
  <2>2. \A s \in Slots : reqs'[s].st = "pending" /\ reqs'[s].userTurns = 0
    BY <1>2, FreshStatus DEF NextBatch, RequestNextBatch
  <2>3. ASSUME Roomy' PROVE EnvsHeld'
    <3>1. EnvsHeld
      BY <2>1, <2>3 DEF EnvInv, Roomy
    <3>2. \A s \in Slots : EnvOf(s)'
      BY <2>2 DEF EnvOf, Equipped
    <3>3. InOrder(instances, Own, batch + 1)
      <4>1. \A i \in 1..Len(instances) : Own[instances[i]][2] \in Nat
        BY <3>1 DEF EnvsHeld, Own
      <4> QED BY <2>1, <3>1, <4>1 DEF EnvsHeld, InOrder
    <3> QED BY <2>1, <3>1, <3>2, <3>3 DEF EnvsHeld
  <2> QED BY <1>1, <2>1, <2>3 DEF EnvInv
<1>3. ASSUME NEW s \in Slots, RequestStep(s) PROVE EnvInv'
  <2>1. UNCHANGED <<setup, batch>>
    BY <1>3 DEF RequestStep, Start, EnvBuilt, OutOfRoom, CallEngine, AnswerCut,
       AnswerCalls, AnswerPlain, ToolsAnswer, Interact, EnvRebuilt, EnvEnds,
       EnvObserves
  <2> QED BY <1>1, <1>3, <2>1, RequestStepEnvs DEF EnvInv, Roomy
<1>4. ASSUME NEW s \in Slots, AgentStep(s) PROVE EnvInv'
  <2>1. setup.agent /\ UNCHANGED <<setup, batch>>
    BY <1>4 DEF AgentStep, AgentCall, AgentAnswer, AgentTools, AgentAt
  <2> QED BY <1>1, <2>1 DEF EnvInv, Roomy
<1>5. CASE UNCHANGED vars
  <2>1. UNCHANGED <<setup, batch, instances, reqs>>
    BY <1>5 DEF vars
  <2>2. EnvsHeld => EnvsHeld'
    BY <2>1 DEF EnvsHeld, EnvOf
  <2> QED BY <1>1, <2>1, <2>2 DEF EnvInv, Roomy
<1> QED BY <1>2, <1>3, <1>4, <1>5 DEF Next, SlotStep

(* With room for the batch, only environments of earlier batches go: each  *)
(* request steps the environment it started with, once per turn.           *)
THEOREM EnvironmentStays == Spec => []EnvironmentKept
<1>1. EnvInv => EnvironmentKept
  <2> SUFFICES ASSUME EnvInv, Roomy, NEW s \in Slots,
                      reqs[s].st \in {"running", "engine", "tools",
                                     "interacting", "stepping", "rebuilding"}
               PROVE  LET q == reqs[s] IN
                        /\ ~q.closed
                        /\ q.st # "rebuilding"
                        /\ q.envTurns = IF q.st = "stepping"
                                        THEN q.userTurns - 1 ELSE q.userTurns
    BY DEF EnvironmentKept, Roomy
  <2> DEFINE q == reqs[s]
  <2>1. EnvOf(s) /\ q \in Request
    BY DEF EnvInv, EnvsHeld, Rows
  <2>2. q.st \in Equipped /\ ~q.closed
    BY <2>1 DEF EnvOf, Equipped
  <2>3. q.userTurns = IF q.st = "stepping" THEN q.envTurns + 1 ELSE q.envTurns
    BY <2>1, <2>2 DEF EnvOf
  <2>4. q.envTurns \in Nat
    BY <2>1, RequestType
  <2> HIDE DEF q
  <2>5. q.envTurns = IF q.st = "stepping" THEN q.userTurns - 1 ELSE q.userTurns
    BY <2>3, <2>4
  <2> QED BY <2>1, <2>2, <2>5 DEF EnvOf, q
<1> QED BY <1>1, EnvInit, EnvNext, PTL DEF Spec
-----------------------------------------------------------------------------
(* Sessions *)

Session == (Slots \X Nat) \X Servers

Owner == [e \in Session |-> e[1]]

(* No server was chosen two times more often than another. *)
Even == weight \in [Servers -> Nat]
        /\ \A v, w \in Servers : weight[v] <= weight[w] + 1

(* The calls of a slot went to the server that its session names. *)
SentTo(s) ==
    \/ server[s] = {}
    \/ \E v \in Servers : /\ server[s] = {v}
                         /\ In(<< <<s, batch>>, v>>, sessions)

SessionInv ==
    /\ batch \in Nat /\ Even
    /\ sessions \in Seq(Session) /\ Len(sessions) <= CacheSize
    /\ InOrder(sessions, Owner, batch)
    /\ server \in [Slots -> SUBSET Servers]
    /\ \A s \in Slots : SentTo(s)

(* A non-empty set of naturals has a least one. *)
LEMMA LeastNatural ==
  ASSUME NEW T \in SUBSET Nat, T # {}
  PROVE  \E m \in T : \A n \in T : m <= n
<1> DEFINE R == {ss \in Nat \X Nat : ss[1] < ss[2]}
<1>1. IsWellFoundedOn(R, Nat)
  BY NatLessThanWellFounded, Zenon DEF OpToRel
<1>2. PICK m \in T : \A n \in T : <<n, m>> \notin R
  BY <1>1, WFMin, Zenon
<1>3. \A n \in T : ~(n < m)
  BY <1>2
<1>4. \A n \in T : m <= n
  BY <1>3, SMT
<1> QED BY <1>4

(* The head of the heap exists, however many servers there are. *)
LEMMA LeastLoadedFacts ==
  ASSUME weight \in [Servers -> Nat]
  PROVE  /\ LeastLoaded \in Servers
         /\ \A w \in Servers : weight[LeastLoaded] <= weight[w]
<1>1. PICK m \in {weight[v] : v \in Servers} :
         \A n \in {weight[v] : v \in Servers} : m <= n
  <2>1. {weight[v] : v \in Servers} \in SUBSET Nat
        /\ {weight[v] : v \in Servers} # {}
    BY AgentAssumption
  <2> QED BY <2>1, LeastNatural
<1> DEFINE T == {v \in Servers : weight[v] = m}
<1>2. PICK v \in T : \A w \in T : v <= w
  <2>1. T \in SUBSET Nat /\ T # {}
    BY AgentAssumption
  <2> HIDE DEF T
  <2> QED BY <2>1, LeastNatural
<1>3. \A w \in Servers : weight[v] < weight[w] \/ (weight[v] = weight[w] /\ v <= w)
  <2> SUFFICES ASSUME NEW w \in Servers
               PROVE  weight[v] < weight[w] \/ (weight[v] = weight[w] /\ v <= w)
    OBVIOUS
  <2>1. weight[v] = m /\ m <= weight[w] /\ weight[w] \in Nat /\ m \in Nat
    BY <1>1
  <2>2. weight[w] = m => v <= w
    BY <1>2
  <2> QED BY <2>1, <2>2
<1> DEFINE First(x) == \A w \in Servers :
                          weight[x] < weight[w] \/ (weight[x] = weight[w] /\ x <= w)
<1>4. LeastLoaded \in Servers /\ First(LeastLoaded)
  <2>1. \E x \in Servers : First(x)
    BY <1>3
  <2>2. LeastLoaded = CHOOSE x \in Servers : First(x)
    BY DEF LeastLoaded
  <2> HIDE DEF First
  <2> QED BY <2>1, <2>2
<1>5. ASSUME NEW w \in Servers PROVE weight[LeastLoaded] <= weight[w]
  <2>1. weight[LeastLoaded] \in Nat /\ weight[w] \in Nat
    BY <1>4
  <2>2. weight[LeastLoaded] < weight[w] \/ weight[LeastLoaded] = weight[w]
    BY <1>4
  <2> QED BY <2>1, <2>2
<1> QED BY <1>4, <1>5

(* A request has one session. *)
LEMMA OneEntry ==
  ASSUME NEW S, NEW k \in Keys(S), NEW t \in Seq(S), NEW now, InOrder(t, k, now),
         NEW e, NEW f, In(e, t), In(f, t), k[e] = k[f]
  PROVE  e = f
<1>1. PICK i \in 1..Len(t), j \in 1..Len(t) : t[i] = e /\ t[j] = f
  BY DEF In
<1>2. i = j
  <2>1. i < j \/ j < i \/ i = j
    OBVIOUS
  <2> QED BY <1>1, <2>1 DEF InOrder
<1> QED BY <1>1, <1>2

(* A server that is chosen is remembered for its session, for the cache    *)
(* has room.                                                               *)
LEMMA ChosenInv ==
  ASSUME SessionInv, Cardinality(Slots) <= CacheSize, NEW s \in Slots,
         ChooseServer(s), UNCHANGED batch
  PROVE  SessionInv'
<1> DEFINE id == <<s, batch>>
           v == IF Known(id) # {} THEN CHOOSE w \in Known(id) : TRUE
                                  ELSE LeastLoaded
           e == <<id, v>>
           u == Touched(sessions, e)
           t == Latest(u, CacheSize)
<1>1. /\ weight' = IF Known(id) # {} THEN weight
                   ELSE [weight EXCEPT ![v] = @ + 1]
      /\ sessions' = t /\ server' = [server EXCEPT ![s] = @ \cup {v}]
  BY DEF ChooseServer, Refreshed
<1>2. LeastLoaded \in Servers /\ \A w \in Servers : weight[LeastLoaded] <= weight[w]
  BY LeastLoadedFacts DEF SessionInv, Even
<1>3. \A w \in Servers : w \in Known(id) <=> In(<<id, w>>, sessions)
  <2>1. DOMAIN sessions = 1..Len(sessions)
    BY LenProperties DEF SessionInv
  <2> QED BY <2>1 DEF Known, ToSet, In
<1>4. v \in Servers /\ (Known(id) # {} => In(e, sessions))
  <2>1. Known(id) \subseteq Servers
    BY DEF Known
  <2>2. CASE Known(id) # {}
    BY <1>3, <2>1, <2>2
  <2>3. CASE Known(id) = {}
    BY <1>2, <2>3
  <2> QED BY <2>2, <2>3
<1>5. Known(id) = {} => v = LeastLoaded
  OBVIOUS
<1> HIDE DEF v
<1>6. /\ Owner \in Keys(Session) /\ e \in Session /\ Owner[e] = id
      /\ \A y \in Session : Owner[y] = y[1] /\ y = <<y[1], y[2]>>
      /\ Owner[e][2] = batch
  BY <1>4 DEF Owner, Keys, Session, SessionInv
<1>7. \A y : In(y, sessions) => y \in Session
  BY DEF In, SessionInv
<1>8. \A y : In(y, sessions) /\ Owner[y] = Owner[e] => y = e
  <2> SUFFICES ASSUME NEW y, In(y, sessions), Owner[y] = Owner[e] PROVE y = e
    OBVIOUS
  <2>1. y \in Session /\ y = <<id, y[2]>> /\ y[2] \in Servers
    BY <1>6, <1>7 DEF Session
  <2>2. Known(id) # {}
    BY <1>3, <2>1
  <2> HIDE DEF e
  <2> QED BY <1>4, <1>6, <2>2, OneEntry DEF SessionInv
<1> HIDE DEF e
<1>9. /\ u \in Seq(Session) /\ Len(u) <= Len(sessions) + 1
      /\ InOrder(u, Owner, batch) /\ Len(u) > 0 /\ u[Len(u)] = e
      /\ \A y : In(y, u) <=> In(y, sessions) \/ y = e
  <2>1. sessions \in Seq(Session) /\ batch \in Nat /\ InOrder(sessions, Owner, batch)
    BY DEF SessionInv
  <2>2. Owner \in Keys(Session) /\ e \in Session /\ Owner[e][2] = batch
    BY <1>6
  <2> QED BY <1>8, <2>1, <2>2, TouchedInOrder
<1> HIDE DEF u
<1>10. CacheSize \in Nat \ {0} /\ Len(u) <= CacheSize + 1
  BY <1>9, LenProperties, AgentAssumption DEF SessionInv
<1>11. /\ t \in Seq(Session) /\ Len(t) <= CacheSize /\ InOrder(t, Owner, batch)
       /\ In(e, t)
       /\ \A y : In(y, u) /\ Owner[y][2] = batch => In(y, t)
  BY <1>6, <1>9, <1>10, LatestInOrder DEF SessionInv
<1> HIDE DEF t
<1>12. \A x \in Slots, w \in Servers :
          In(<< <<x, batch>>, w>>, sessions) => In(<< <<x, batch>>, w>>, t)
  <2> SUFFICES ASSUME NEW x \in Slots, NEW w \in Servers,
                      In(<< <<x, batch>>, w>>, sessions)
               PROVE  In(<< <<x, batch>>, w>>, t)
    OBVIOUS
  <2> DEFINE y == << <<x, batch>>, w>>
  <2>1. Owner[y][2] = batch /\ In(y, u)
    BY <1>6, <1>9 DEF Session, SessionInv
  <2> QED BY <1>11, <2>1
<1>13. server[s] \subseteq {v}
  <2>1. SentTo(s)
    BY DEF SessionInv
  <2>2. ASSUME NEW w \in Servers, server[s] = {w}, In(<<id, w>>, sessions)
        PROVE  w = v
    <3>1. In(e, sessions)
      BY <1>3, <1>4, <2>2
    <3>2. << id, w>> \in Session /\ Owner[<<id, w>>] = id
      BY <1>6, <1>7, <2>2
    <3>3. <<id, w>> = e
      BY <1>6, <1>8, <2>2, <3>2
    <3> QED BY <3>3 DEF e
  <2> QED BY <2>1, <2>2 DEF SentTo
<1>14. /\ server' \in [Slots -> SUBSET Servers] /\ server'[s] = {v}
       /\ \A x \in Slots : x # s => server'[x] = server[x]
  BY <1>1, <1>4, <1>13 DEF SessionInv
<1>15. \A x \in Slots : SentTo(x)'
  <2>1. SentTo(s)'
    BY <1>1, <1>4, <1>11, <1>14 DEF SentTo, e
  <2>2. ASSUME NEW x \in Slots, x # s PROVE SentTo(x)'
    BY <1>1, <1>12, <1>14, <2>2 DEF SentTo, SessionInv
  <2> QED BY <2>1, <2>2
<1>16. Even'
  <2>1. CASE Known(id) # {}
    BY <1>1, <2>1 DEF Even, SessionInv
  <2>2. CASE Known(id) = {}
    <3>1. /\ v \in Servers /\ weight \in [Servers -> Nat]
          /\ \A w \in Servers : weight[v] <= weight[w]
          /\ \A x, y \in Servers : weight[x] <= weight[y] + 1
          /\ weight' = [weight EXCEPT ![v] = @ + 1]
      BY <1>1, <1>2, <1>5, <2>2 DEF SessionInv, Even
    <3>2. weight' \in [Servers -> Nat]
      BY <3>1
    <3>3. ASSUME NEW x \in Servers, NEW y \in Servers
          PROVE  weight'[x] <= weight'[y] + 1
      <4>1. /\ weight[x] \in Nat /\ weight[y] \in Nat /\ weight[v] \in Nat
            /\ weight[v] <= weight[y] /\ weight[x] <= weight[y] + 1
            /\ weight'[x] = IF x = v THEN weight[v] + 1 ELSE weight[x]
            /\ weight'[y] = IF y = v THEN weight[v] + 1 ELSE weight[y]
        BY <3>1
      <4> QED BY <4>1
    <3> QED BY <3>2, <3>3 DEF Even
  <2> QED BY <2>1, <2>2
<1> QED BY <1>1, <1>11, <1>14, <1>15, <1>16 DEF SessionInv

(* The sessions are kept at first, *)
LEMMA SessionInit == Init => SessionInv
<1> SUFFICES ASSUME Init PROVE SessionInv
  OBVIOUS
<1>1. /\ batch = 1 /\ sessions = <<>> /\ server = [s \in Slots |-> {}]
      /\ weight = [v \in Servers |-> 0]
  BY DEF Init, RequestInit
<1>2. sessions \in Seq(Session) /\ Len(sessions) = 0
  BY <1>1
<1>3. InOrder(sessions, Owner, batch)
  BY <1>2 DEF InOrder
<1>4. Even /\ Len(sessions) <= CacheSize
  BY <1>1, <1>2, AgentAssumption DEF Even
<1> QED BY <1>1, <1>2, <1>3, <1>4 DEF SessionInv, SentTo

(* and after every step. *)
LEMMA SessionNext ==
  ASSUME Cardinality(Slots) <= CacheSize
  PROVE  SessionInv /\ [Next]_vars => SessionInv'
<1> SUFFICES ASSUME SessionInv, [Next]_vars PROVE SessionInv'
  OBVIOUS
<1>1. CASE NextBatch
  <2>1. /\ batch' = batch + 1 /\ UNCHANGED <<weight, sessions>>
        /\ server' = [s \in Slots |-> {}] /\ batch \in Nat
    BY <1>1 DEF NextBatch, RequestNextBatch, SessionInv
  <2>2. InOrder(sessions, Owner, batch + 1)
    <3>1. \A i \in 1..Len(sessions) : Owner[sessions[i]][2] \in Nat
      BY DEF SessionInv, Owner, Session
    <3>2. InOrder(sessions, Owner, batch)
      BY DEF SessionInv
    <3> QED BY <2>1, <3>1, <3>2 DEF InOrder
  <2> QED BY <2>1, <2>2 DEF SessionInv, SentTo, Even
<1>2. ASSUME UNCHANGED <<batch, agentVars>> PROVE SessionInv'
  BY <1>2 DEF SessionInv, SentTo, Even, agentVars
<1>3. ASSUME NEW s \in Slots, RequestStep(s), UNCHANGED agentVars
      PROVE  SessionInv'
  <2>1. UNCHANGED batch
    BY <1>3 DEF RequestStep, Start, EnvBuilt, OutOfRoom, CallEngine, AnswerCut,
       AnswerCalls, AnswerPlain, ToolsAnswer, Interact, EnvRebuilt, EnvEnds,
       EnvObserves
  <2> QED BY <1>2, <1>3, <2>1
<1>4. ASSUME NEW s \in Slots, AgentCall(s) PROVE SessionInv'
  BY <1>4, ChosenInv DEF AgentCall
<1>5. ASSUME NEW s \in Slots, AgentAnswer(s) \/ AgentTools(s)
      PROVE  SessionInv'
  BY <1>2, <1>5 DEF AgentAnswer, AgentTools
<1>6. CASE UNCHANGED vars
  BY <1>2, <1>6 DEF vars
<1> QED BY <1>1, <1>3, <1>4, <1>5, <1>6 DEF Next, SlotStep, AgentStep

(* While the cache can hold the sessions of a batch, all the turns of a    *)
(* request go to one server, and no server is chosen two times more often  *)
(* than another.                                                           *)
THEOREM SessionsStay ==
  ASSUME Cardinality(Slots) <= CacheSize
  PROVE  Spec => []SessionsSticky
<1>1. SessionInv => SessionsSticky
  <2> SUFFICES ASSUME SessionInv, NEW s \in Slots
               PROVE  Cardinality(server[s]) <= 1
    BY DEF SessionsSticky, SessionInv, Even
  <2>1. server[s] = {} \/ \E v \in Servers : server[s] = {v}
    BY DEF SessionInv, SentTo
  <2>2. CASE server[s] = {}
    <3>1. Cardinality(server[s]) = 0
      BY <2>2, FS_EmptySet
    <3> QED BY <3>1
  <2>3. CASE \E v \in Servers : server[s] = {v}
    <3>1. Cardinality(server[s]) = 1
      BY <2>3, FS_Singleton
    <3> QED BY <3>1
  <2> QED BY <2>1, <2>2, <2>3
<1>2. SessionInv /\ [Next]_vars => SessionInv'
  BY SessionNext
<1> QED BY <1>1, <1>2, SessionInit, PTL DEF Spec
=============================================================================
