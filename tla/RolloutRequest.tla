--------------------------- MODULE RolloutRequest ---------------------------
(***************************************************************************)
(* The multi-turn rollout of SGLang: every request of a batch is a         *)
(* coroutine of one event loop (_async_rollout_a_request), so requests     *)
(* interleave at each await: the construction of the environment, the      *)
(* engine call, the tools and the environment's step.  They share the      *)
(* bounded table of environments that SQLInteraction keeps.                *)
(*                                                                         *)
(* A token is its origin: "p" prompt, "G" the generation prompt (modelled  *)
(* as one token), "a" generated, "e" the end of turn the chat template     *)
(* adds, "t" tool output, "u" environment output.  A request of batch b in *)
(* slot s is named <<s, b>>: its uuid.                                     *)
(***************************************************************************)
EXTENDS Naturals, FiniteSets, SequencesExt

CONSTANTS Slots,             \* positions in a batch of requests
          NumBatches,        \* bound: batches rolled out
          Setups,            \* configurations of a rollout
          PromptLens,        \* lengths of a tokenized prompt
          MaxModelLen, PromptLength, ResponseLength,
          MaxAssistantTurns, MaxUserTurns,
          AnswerLens,        \* lengths of a generated answer, below its cap
          ObsLens,           \* lengths of an observation or a tool output
          CreateLens         \* lengths of what the tools say when created

ASSUME RolloutAssumption ==
    /\ NumBatches \in Nat \ {0} /\ IsFiniteSet(Slots)
    /\ PromptLength \in Nat /\ ResponseLength \in Nat \ {0}
    /\ MaxModelLen \in Nat /\ MaxModelLen >= PromptLength + ResponseLength
    /\ \A p \in PromptLens : p \in 2..PromptLength
    /\ MaxAssistantTurns \in Nat \ {0} /\ MaxUserTurns \in Nat
    /\ AnswerLens \subseteq Nat /\ ObsLens \subseteq Nat \ {0}
    /\ CreateLens \subseteq Nat /\ 0 \in CreateLens
    /\ Setups \subseteq [conversation : BOOLEAN, tools : BOOLEAN,
                         agent : BOOLEAN, maxInstances : Nat \ {0}]

VARIABLES setup,        \* the configuration of this rollout;
                        \* maxInstances bounds SQLInteraction's table
          batch,        \* the batch being rolled out
          reqs,         \* slot -> its AsyncRolloutRequest
          instances     \* SQLInteraction._instance_dict, oldest first

Repeat(tok, n) == [i \in 1..n |-> tok]

(* initialize_request: the prompt is tokenized with its generation prompt. *)
Fresh(promptLen) ==
    [st |-> "pending",
     ids |-> Append(Repeat("p", promptLen - 1), "G"),
     mask |-> Repeat(FALSE, promptLen),
     promptLen |-> promptLen, heard |-> <<>>,
     turns |-> 0, userTurns |-> 0, finish |-> "none",
     envTurns |-> 0, closed |-> FALSE,
     response |-> <<>>, respMask |-> <<>>]

PromptOf(q) == Append(Repeat("p", q.promptLen - 1), "G")

(* AsyncRolloutRequest._update_input_ids: every row grows together. *)
Update(q, tok, n, loss) ==
    [q EXCEPT !.ids = @ \o Repeat(tok, n), !.mask = @ \o Repeat(loss, n)]

EndsInPrompt(q) == q.ids # <<>> /\ Last(q.ids) = "G"

\* Mutant of RemovePrompt: the loss mask is not trimmed with the tokens.
RemovePromptKeepsMask(q) ==
    IF EndsInPrompt(q) THEN [q EXCEPT !.ids = Front(@)] ELSE q

\* Mutant of RemovePrompt: trims without looking at the tail.
RemovePromptAlways(q) == [q EXCEPT !.ids = Front(@), !.mask = Front(@)]

(* _remove_generation_prompt_ids_if_present *)
RemovePrompt(q) ==
    IF EndsInPrompt(q) THEN [q EXCEPT !.ids = Front(@), !.mask = Front(@)]
                       ELSE q

(* get_generation_prompt_ids: once per turn in a conversation, only before *)
(* the first answer of a single continuous turn.                           *)
WithPrompt(q) ==
    IF EndsInPrompt(q) \/ (~setup.conversation /\ q.turns > 0)
    THEN q ELSE Update(q, "G", 1, FALSE)

(* add_assistant_message: the template closes the turn of a conversation;  *)
(* a continuous stream stays open.                                         *)
AddAnswer(q, n) ==
    LET said == Update(q, "a", n, TRUE)
    IN  IF setup.conversation THEN Update(said, "e", 1, TRUE) ELSE said

AddUser(q, n) == Update(q, "u", n, FALSE)

AddToolOutput(q, n) ==
    IF n = 0 THEN q ELSE Update(RemovePrompt(q), "t", n, FALSE)

Cut(seq, n) == SubSeq(seq, 1, IF Len(seq) < n THEN Len(seq) ELSE n)

AfterPrompt(seq, q) == SubSeq(seq, q.promptLen + 1, Len(seq))

(* max_model_len of a request, at its construction. *)
RequestLen == IF MaxModelLen < PromptLength + ResponseLength
              THEN MaxModelLen ELSE PromptLength + ResponseLength

(* finalize and truncate_output_ids; any other reason raises ValueError.   *)
Finalize(q, reason) ==
    LET r   == RemovePrompt(q)
        ids == Cut(r.ids, RequestLen)
        msk == Cut(r.mask, RequestLen)
    IN  [r EXCEPT
           !.st = IF reason \in {"stop", "length"} THEN "done" ELSE "failed",
           !.finish = reason,
           !.ids = ids, !.mask = msk,
           !.response = Cut(AfterPrompt(ids, q), ResponseLength),
           !.respMask = Cut(AfterPrompt(msk, q), ResponseLength)]

(* The end of _async_rollout_a_request: the turn budget overrides. *)
Finish(q, reason) ==
    Finalize(q, IF q.turns >= MaxAssistantTurns THEN "stop" ELSE reason)

(* The loop's condition, tested before every other state is handled. *)
Continue(q, st) ==
    IF q.turns < MaxAssistantTurns THEN [q EXCEPT !.st = st]
                                   ELSE Finish(q, q.finish)
-----------------------------------------------------------------------------
(* An LRU table of distinct entries, the most recent one last; the oldest  *)
(* ones are evicted.                                                       *)
Dropped(table, x) ==
    IF \E i \in DOMAIN table : table[i] = x
    THEN RemoveAt(table, CHOOSE i \in DOMAIN table : table[i] = x)
    ELSE table

Touched(table, x) == Append(Dropped(table, x), x)

Latest(table, n) ==
    SubSeq(table, IF Len(table) > n THEN Len(table) - n + 1 ELSE 1,
           Len(table))

\* Mutant of Remembered: evicts as soon as the table is full.
RememberedBelow(id) == Latest(Touched(instances, id), setup.maxInstances - 1)

(* SQLInteraction._remember: the oldest environments over the bound go.    *)
Remembered(id) == Latest(Touched(instances, id), setup.maxInstances)

(* The batch's requests after slot s stored a fresh environment: the env   *)
(* of every entry that was evicted is closed.                              *)
EnvStored(s, st) ==
    LET table == Remembered(<<s, batch>>)
        gone  == {x \in Slots : /\ \E i \in DOMAIN instances :
                                      instances[i] = <<x, batch>>
                                /\ \A i \in DOMAIN table :
                                      table[i] # <<x, batch>>}
    IN  /\ instances' = table
        /\ reqs' = [x \in Slots |->
               IF x = s THEN [reqs[s] EXCEPT !.st = st, !.envTurns = 0,
                                             !.closed = FALSE]
               ELSE IF x \in gone THEN [reqs[x] EXCEPT !.closed = TRUE]
               ELSE reqs[x]]

Held(s) == \E i \in DOMAIN instances : instances[i] = <<s, batch>>

(* _release *)
Without(id) == Dropped(instances, id)

Become(s, q) == reqs' = [reqs EXCEPT ![s] = q]

At(s, st) == ~setup.agent /\ reqs[s].st = st
-----------------------------------------------------------------------------
(* PENDING: the tools are created, all that they answer takes the place of *)
(* the generation prompt (prompt_ids keeps it), and the construction of    *)
(* the environment is awaited.                                             *)
Start(s) ==
    /\ At(s, "pending")
    /\ \E n \in IF setup.tools THEN CreateLens ELSE {0} :
          Become(s, [AddToolOutput(reqs[s], n) EXCEPT !.st = "building"])
    /\ UNCHANGED <<setup, batch, instances>>

EnvBuilt(s) == /\ At(s, "building")
               /\ EnvStored(s, "running")
               /\ UNCHANGED <<setup, batch>>

(* max_new_tokens of _handle_engine_generate *)
Cap(q) == LET room == MaxModelLen - Len(q.ids) - 1
          IN  IF room < ResponseLength THEN room ELSE ResponseLength

(* RUNNING: no call unless the answer can have a token. *)
OutOfRoom(s) == /\ At(s, "running")
                /\ Len(WithPrompt(reqs[s]).ids) + 1 >= MaxModelLen
                /\ Become(s, Finish(WithPrompt(reqs[s]), "length"))
                /\ UNCHANGED <<setup, batch, instances>>

CallEngine(s) ==
    LET q == WithPrompt(reqs[s])
    IN  /\ At(s, "running")
        /\ Len(q.ids) + 1 < MaxModelLen
        /\ Become(s, [q EXCEPT !.st = "engine", !.heard = q.ids])
        /\ UNCHANGED <<setup, batch, instances>>

Answered(s, n, reason) ==
    LET q == AddAnswer(reqs[s], n)
    IN  [q EXCEPT !.turns = @ + 1, !.finish = reason, !.heard = q.ids]

(* The answer used up its tokens. *)
AnswerCut(s) ==
    /\ At(s, "engine")
    /\ Become(s, Finish(Answered(s, Cap(reqs[s]), "length"), "length"))
    /\ UNCHANGED <<setup, batch, instances>>

AnswerLength(s) == {n \in AnswerLens : n <= Cap(reqs[s])}

\* Mutant of AnswerCalls: an answer whose calls do not parse keeps the
\* finish reason of a tool call.
AnswerCallsUnparsed(s) ==
    /\ At(s, "engine") /\ setup.tools
    /\ \E n \in AnswerLength(s) \ {0}, parsed \in BOOLEAN :
          LET q == Answered(s, n, "tool_calls")
          IN  Become(s, IF parsed THEN Continue(q, "tools")
                                  ELSE Finish(q, "tool_calls"))
    /\ UNCHANGED <<setup, batch, instances>>

(* The answer calls tools; when none of the calls parses it is final. *)
AnswerCalls(s) ==
    /\ At(s, "engine") /\ setup.tools
    /\ \E n \in AnswerLength(s) \ {0}, parsed \in BOOLEAN :
          LET q == Answered(s, n, "tool_calls")
          IN  Become(s, IF parsed THEN Continue(q, "tools")
                                  ELSE Finish(q, "stop"))
    /\ UNCHANGED <<setup, batch, instances>>

\* Mutant of AnswerPlain: the assistant turns left are not looked at.
AnswerPlainAnyTurn(s) ==
    /\ At(s, "engine")
    /\ \E n \in AnswerLength(s) :
          LET q == Answered(s, n, "stop")
          IN  Become(s, IF q.userTurns < MaxUserTurns
                        THEN [q EXCEPT !.st = "interacting"]
                        ELSE Finish(q, "stop"))
    /\ UNCHANGED <<setup, batch, instances>>

(* A plain answer goes to the environment while turns of both are left. *)
AnswerPlain(s) ==
    /\ At(s, "engine")
    /\ \E n \in AnswerLength(s) :
          LET q == Answered(s, n, "stop")
          IN  Become(s, IF /\ q.userTurns < MaxUserTurns
                           /\ q.turns < MaxAssistantTurns
                        THEN [q EXCEPT !.st = "interacting"]
                        ELSE Finish(q, "stop"))
    /\ UNCHANGED <<setup, batch, instances>>

(* The check of the length in between takes len() of a tensor of one row:  *)
(* it never ends a request, which runs on until it is out of room.         *)
AfterObservation(q) == Continue(q, "running")

(* TOOL_CALLING: the results of the gathered calls come back together. *)
ToolsAnswer(s) ==
    /\ At(s, "tools")
    /\ \E n \in {0} \cup ObsLens :
          Become(s, AfterObservation(AddToolOutput(reqs[s], n)))
    /\ UNCHANGED <<setup, batch, instances>>

\* Mutant of Interact: a missing entry is not built again.
InteractHeld(s) ==
    /\ At(s, "interacting") /\ Held(s)
    /\ Become(s, [reqs[s] EXCEPT !.userTurns = @ + 1, !.st = "stepping"])
    /\ instances' = Touched(instances, <<s, batch>>)
    /\ UNCHANGED <<setup, batch>>

(* INTERACTING: generate_response finds its entry, or builds another one.  *)
Interact(s) ==
    /\ At(s, "interacting")
    /\ Become(s, [reqs[s] EXCEPT
                     !.userTurns = @ + 1,
                     !.st = IF Held(s) THEN "stepping" ELSE "rebuilding"])
    /\ instances' = IF Held(s) THEN Touched(instances, <<s, batch>>)
                               ELSE instances
    /\ UNCHANGED <<setup, batch>>

EnvRebuilt(s) == /\ At(s, "rebuilding")
                 /\ EnvStored(s, "stepping")
                 /\ UNCHANGED <<setup, batch>>

(* The step ended the episode, failed, or observed nothing. *)
EnvEnds(s) ==
    /\ At(s, "stepping")
    /\ Become(s, Finish([reqs[s] EXCEPT !.envTurns = @ + 1], "stop"))
    /\ instances' = Without(<<s, batch>>)
    /\ UNCHANGED <<setup, batch>>

EnvObserves(s) ==
    /\ At(s, "stepping")
    /\ \E n \in ObsLens :
          Become(s, AfterObservation(
                        [AddUser(reqs[s], n) EXCEPT !.envTurns = @ + 1]))
    /\ UNCHANGED <<setup, batch, instances>>

RequestStep(s) == \/ Start(s) \/ EnvBuilt(s) \/ OutOfRoom(s) \/ CallEngine(s)
                  \/ AnswerCut(s) \/ AnswerCalls(s) \/ AnswerPlain(s)
                  \/ ToolsAnswer(s) \/ Interact(s) \/ EnvRebuilt(s)
                  \/ EnvEnds(s) \/ EnvObserves(s)
-----------------------------------------------------------------------------
RequestInit == /\ setup \in Setups
               /\ batch = 1
               /\ reqs \in [Slots -> {Fresh(p) : p \in PromptLens}]
               /\ instances = <<>>

(* asyncio.gather returns when every request has: the next batch starts.   *)
(* finalize_interaction is never called, so environments stay behind.      *)
RequestNextBatch ==
    /\ batch < NumBatches
    /\ \A s \in Slots : reqs[s].st = "done"
    /\ batch' = batch + 1
    /\ reqs' \in [Slots -> {Fresh(p) : p \in PromptLens}]
    /\ UNCHANGED <<setup, instances>>
=============================================================================
