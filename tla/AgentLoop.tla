------------------------------ MODULE AgentLoop ------------------------------
(***************************************************************************)
(* The asynchronous rollout: each row of a batch runs a ToolAgentLoop,     *)
(* whose calls an AsyncLLMServerManager sends to one of several inference  *)
(* servers.  It shares the tokens and the request records of the SGLang    *)
(* rollout, which is the other way of rolling out a batch.                 *)
(***************************************************************************)
EXTENDS RolloutRequest

CONSTANTS Servers,      \* inference servers, 1..n: the order of their hash
          CacheSize     \* max_cache_size of the LRU cache of sessions

ASSUME AgentAssumption == Servers \subseteq Nat /\ Servers # {}
                          /\ CacheSize \in Nat \ {0}

VARIABLES weight,       \* server -> requests it was chosen for
          sessions,     \* the LRU cache: sequence of <<request, server>>
          server        \* slot -> servers its calls were sent to

agentVars == <<weight, sessions, server>>
vars == <<setup, batch, reqs, instances, agentVars>>

(* The head of the heap. *)
LeastLoaded ==
    CHOOSE v \in Servers : \A w \in Servers :
        weight[v] < weight[w] \/ (weight[v] = weight[w] /\ v <= w)

Known(id) == {v \in Servers : <<id, v>> \in ToSet(sessions)}

Refreshed(id, v) == Latest(Touched(sessions, <<id, v>>), CacheSize)

\* Mutant of ChooseServer: a session is looked up but never stored.
ChooseServerForgets(s) ==
    LET id == <<s, batch>>
        v  == LeastLoaded
    IN  /\ weight' = [weight EXCEPT ![v] = @ + 1]
        /\ sessions' = sessions
        /\ server' = [server EXCEPT ![s] = @ \cup {v}]

(* _choose_server: the session's server, or the one chosen least often. *)
ChooseServer(s) ==
    LET id == <<s, batch>>
        v  == IF Known(id) # {} THEN CHOOSE w \in Known(id) : TRUE
                                ELSE LeastLoaded
    IN  /\ weight' = IF Known(id) # {} THEN weight
                     ELSE [weight EXCEPT ![v] = @ + 1]
        /\ sessions' = Refreshed(id, v)
        /\ server' = [server EXCEPT ![s] = @ \cup {v}]

AgentAt(s, st) == setup.agent /\ reqs[s].st = st

(* ToolAgentLoop.run, up to its await of the server. *)
AgentCall(s) ==
    /\ \/ AgentAt(s, "pending")
       \/ AgentAt(s, "running")
    /\ Become(s, [reqs[s] EXCEPT !.st = "engine", !.heard = reqs[s].ids])
    /\ ChooseServer(s)
    /\ UNCHANGED <<setup, batch, instances>>

(* What the engine returns has at least one token, whatever it is asked. *)
AgentAnswerLen(q) == {n \in AnswerLens \cup {Cap(q)} : 1 <= n /\ n <= Cap(q)}
                     \cup (IF Cap(q) < 1 THEN {1} ELSE {})

(* The tokens after the prompt, cut at response_length; the prompt is what *)
(* remains when as many tokens as the mask has are taken off.              *)
AgentFinish(q) ==
    [q EXCEPT !.st = "done", !.finish = "stop",
              !.response = Cut(AfterPrompt(q.ids, q), ResponseLength),
              !.respMask = Cut(AfterPrompt(q.mask, q), ResponseLength)]

Responded(q) == Len(q.ids) - q.promptLen

(* The answer ends the loop at a limit, or because it calls no tool. *)
AgentAnswer(s) ==
    /\ AgentAt(s, "engine")
    /\ \E n \in AgentAnswerLen(reqs[s]), calls \in BOOLEAN :
          LET said == Update(reqs[s], "a", n, TRUE)
              q == [said EXCEPT !.turns = @ + 1, !.heard = said.ids]
              last == \/ Responded(q) >= ResponseLength
                      \/ q.turns >= MaxAssistantTurns
                      \/ q.userTurns >= MaxUserTurns
          IN  Become(s, IF last \/ ~calls THEN AgentFinish(q)
                        ELSE [q EXCEPT !.st = "tools"])
    /\ UNCHANGED <<setup, batch, instances, agentVars>>

\* Mutant of AgentTools: the tool output is appended before the check.
AgentToolsAppend(s) ==
    /\ AgentAt(s, "tools")
    /\ \E n \in {0} \cup ObsLens :
          LET q == Update(Update(reqs[s], "t", n, FALSE), "G", 1, FALSE)
          IN  Become(s, IF Responded(q) >= ResponseLength
                        THEN AgentFinish(q)
                        ELSE [q EXCEPT !.st = "running",
                                       !.userTurns = @ + 1])
    /\ UNCHANGED <<setup, batch, instances, agentVars>>

(* The gathered calls return, n = 0 when one raised; output that would     *)
(* fill the response is dropped with the loop.                             *)
AgentTools(s) ==
    /\ AgentAt(s, "tools")
    /\ \E n \in {0} \cup ObsLens :
          LET q == Update(Update(reqs[s], "t", n, FALSE), "G", 1, FALSE)
          IN  Become(s, IF n = 0 \/ Responded(q) >= ResponseLength
                        THEN AgentFinish(reqs[s])
                        ELSE [q EXCEPT !.st = "running",
                                       !.userTurns = @ + 1])
    /\ UNCHANGED <<setup, batch, instances, agentVars>>

AgentStep(s) == AgentCall(s) \/ AgentAnswer(s) \/ AgentTools(s)
-----------------------------------------------------------------------------
Init == /\ RequestInit
        /\ weight = [v \in Servers |-> 0]
        /\ sessions = <<>>
        /\ server = [s \in Slots |-> {}]

NextBatch == /\ RequestNextBatch
             /\ server' = [s \in Slots |-> {}]
             /\ UNCHANGED <<weight, sessions>>

Served == batch = NumBatches /\ \A s \in Slots : reqs[s].st = "done"

SlotStep(s) == \/ RequestStep(s) /\ UNCHANGED agentVars
               \/ AgentStep(s)

Next == NextBatch \/ \E s \in Slots : SlotStep(s)

Spec == Init /\ [][Next]_vars

(* The engine, the tools and the environments answer every call, and the   *)
(* event loop runs every coroutine that can go on.                         *)
FairSpec == Spec /\ WF_vars(NextBatch) /\ \A s \in Slots : WF_vars(SlotStep(s))
-----------------------------------------------------------------------------
(* Loss falls on the tokens the policy is responsible for and on no other: *)
(* at every moment the mask of a request marks exactly its answers and     *)
(* their end of turn, in the response that is trained on as well, and the  *)
(* rows keep equal lengths within their limits.                            *)
LossOnAnswers ==
    \A s \in Slots : LET q == reqs[s] IN
        /\ Len(q.ids) = Len(q.mask)
        /\ \A i \in DOMAIN q.mask : q.mask[i] <=> q.ids[i] \in {"a", "e"}
        /\ q.st = "done" =>
             /\ Len(q.response) = Len(q.respMask)
             /\ Len(q.response) <= ResponseLength
             /\ Len(q.ids) <= MaxModelLen
             /\ \A i \in DOMAIN q.response :
                   q.respMask[i] <=> q.response[i] \in {"a", "e"}

(* What is trained on is what was sampled: the context of the last engine  *)
(* call and its answer stay a prefix of the request's tokens, and the      *)
(* prompt and the response that are handed on, put together, agree with    *)
(* them token by token as far as both go.  One place is excepted: where    *)
(* the policy saw the first words of tools that speak when created, the    *)
(* prompt still has the generation prompt they replaced (schemas.py:513,   *)
(* 611, 712).  No tool of the repository speaks then.                      *)
TrainedAsGenerated ==
    \A s \in Slots : LET q == reqs[s]
                         whole == PromptOf(q) \o q.response IN
        IF q.st = "done"
        THEN \A i \in DOMAIN whole \cap DOMAIN q.heard :
                \/ whole[i] = q.heard[i]
                \/ i = q.promptLen /\ q.heard[i] = "t"
        ELSE IsPrefix(q.heard, q.ids)

(* A request never ends on words of the environment that the policy was    *)
(* not asked to answer, unless the model's length is used up, and never    *)
(* with a reason that finalize rejects: no request of a batch raises.      *)
NoDanglingTurn ==
    \A s \in Slots : LET q == reqs[s] IN
        /\ q.st # "failed"
        /\ (/\ q.st = "done" /\ ~IsPrefix(q.ids, q.heard)
            /\ Last(q.ids) \in {"u", "t", "G"}) =>
              ~setup.agent /\ Len(q.ids) + 2 >= RequestLen

(* No request loses its environment to another: as long as the table has   *)
(* room for the batch in flight, the environments left by earlier batches  *)
(* are the ones evicted, and each request steps the one it started with.   *)
EnvironmentKept ==
    (~setup.agent /\ setup.maxInstances >= Cardinality(Slots)) =>
        \A s \in Slots : LET q == reqs[s] IN
            q.st \in {"running", "engine", "tools", "interacting",
                     "stepping", "rebuilding"} =>
                /\ ~q.closed
                /\ q.st # "rebuilding"
                /\ q.envTurns = IF q.st = "stepping" THEN q.userTurns - 1
                                                     ELSE q.userTurns

(* Every turn of a request goes to one server, and new requests are spread *)
(* evenly however their turns interleave.                                  *)
SessionsSticky ==
    /\ \A s \in Slots : Cardinality(server[s]) <= 1
    /\ \A v, w \in Servers : weight[v] <= weight[w] + 1

(* Every batch is handed back: no turn can be repeated for ever. *)
AllServed == <>Served
-----------------------------------------------------------------------------
(* What the code does not do *)

(* The prompt that is handed on is the one the policy was given: not where *)
(* a tool speaks when it is created, as base_tool.py:45-54 lets it.        *)
PromptAsGiven ==
    \A s \in Slots : LET q == reqs[s] IN
        q.st = "done" /\ q.heard # <<>> => IsPrefix(PromptOf(q), q.heard)
=============================================================================
