----------------------------- MODULE TinyModel ------------------------------
(* The tiny causal mixture of experts of runnel-runtime/src/model.rs:       *)
(* forward_token, run_tokens and generate_greedy over sequence states that  *)
(* a caller keeps, clones and hands to any of several models.  The numbers  *)
(* are abstracted to the order of scores and logits and to whether a value  *)
(* is finite, which any computation of the forward pass may fail to be.     *)
EXTENDS Naturals, Sequences, FiniteSets

CONSTANTS
  Instances,                    \* model_instance_id of each model in use
  Slots,                        \* the sequence states a caller holds
  VocabSize, ContextLength, NumExperts, TopK,
  Values,                       \* the values a score or a logit takes
  Prompts, MaxNew               \* what a caller asks for

VARIABLES
  states,       \* slot -> SequenceState, the local one of a call included
  call,         \* the call at work
  pc,           \* where forward_token is
  token, pending, route,        \* the locals of forward_token
  outcome       \* how the last step or call ended

vars == <<states, call, pc, token, pending, route, outcome>>

EOS == 0
Local == "local"        \* the state that run_tokens and generate_greedy create
NoInstance == "none"
ASSUME TinyModelAssumption ==
  /\ NoInstance \notin Instances
  /\ ContextLength \in Nat /\ MaxNew \in Nat
  /\ Prompts \subseteq Seq(Nat)

Tokens == 0..(VocabSize - 1)
Experts == 0..(NumExperts - 1)

(* A cell is a key and its value; `by` is the model that computed them.     *)
Fresh == [instance |-> NoInstance, cells |-> <<>>]
Idle == [kind |-> "none", model |-> NoInstance, slot |-> Local, input |-> <<>>, prompt |-> <<>>, max |-> 0,
         generated |-> <<>>, steps |-> <<>>, logits |-> <<>>]      \* logits: of the last step
NoRoute == [scores |-> <<>>, ids |-> <<>>, done |-> 0]

-----------------------------------------------------------------------------
(* stable_top_k: a stable sort by falling score, cut to k.  The id in place *)
(* i is the one with i - 1 before it.                                       *)
StableTopK(scores, k) ==
  LET before(id) == {o \in DOMAIN scores : scores[o] > scores[id] \/ (scores[o] = scores[id] /\ o < id)}
  IN  [i \in 1..k |-> CHOOSE id \in DOMAIN scores : Cardinality(before(id)) = i - 1]

(* greedy_token: the scan for a larger logit.                               *)
GreedyToken(logits) ==
  LET best[c \in Tokens] == IF c = 0 \/ logits[c] > logits[best[c - 1]] THEN c ELSE best[c - 1]
  IN  best[VocabSize - 1]

-----------------------------------------------------------------------------
Init ==
  /\ states = [s \in Slots \cup {Local} |-> Fresh]
  /\ call = Idle /\ pc = "idle"
  /\ token = 0 /\ pending = Fresh /\ route = NoRoute
  /\ outcome = "none"

(* SequenceState::new and Clone, by the caller between calls.               *)
NewState(s) ==
  /\ call.kind = "none" /\ states' = [states EXCEPT ![s] = Fresh] /\ outcome' = "none"
  /\ UNCHANGED <<call, pc, token, pending, route>>
CloneState(s, t) ==
  /\ call.kind = "none" /\ s # t /\ states' = [states EXCEPT ![t] = states[s]] /\ outcome' = "none"
  /\ UNCHANGED <<call, pc, token, pending, route>>

(* Every way out of a call drops its locals.                                *)
Leave(why) ==
  /\ call' = Idle /\ pc' = "idle" /\ token' = 0 /\ pending' = Fresh /\ route' = NoRoute
  /\ outcome' = why

Start(c) ==
  /\ call' = c /\ pc' = "begin" /\ outcome' = "none"
  /\ states' = [states EXCEPT ![Local] = Fresh]
  /\ UNCHANGED <<token, pending, route>>
Refuse(why) == outcome' = why /\ UNCHANGED <<states, call, pc, token, pending, route>>

CallForward(m, s, t) ==
  /\ call.kind = "none"
  /\ Start([Idle EXCEPT !.kind = "forward", !.model = m, !.slot = s, !.input = <<t>>])

CallRun(m, tokens) ==
  /\ call.kind = "none"
  /\ IF tokens = <<>> THEN Refuse("empty sequence")
     ELSE IF Len(tokens) > ContextLength THEN Refuse("context limit")
     ELSE Start([Idle EXCEPT !.kind = "run", !.model = m, !.input = tokens, !.prompt = tokens])

(* generate_greedy: the last new token is never fed back.                   *)
Required_PromptOnly(prompt, max) == Len(prompt)
Required(prompt, max) == Len(prompt) + (IF max = 0 THEN 0 ELSE max - 1)
CallGenerate(m, prompt, max) ==
  /\ call.kind = "none"
  /\ IF prompt = <<>> THEN Refuse("empty sequence")
     ELSE IF Required(prompt, max) > ContextLength THEN Refuse("context limit")
     ELSE Start([Idle EXCEPT !.kind = "generate", !.model = m, !.input = prompt, !.prompt = prompt, !.max = max])

-----------------------------------------------------------------------------
(* forward_token, first part: the checks, and the pending state with the    *)
(* new key and value.  RMS normalisation may meet a value that is not       *)
(* finite.                                                                  *)
AtLimit(s) == Len(s.cells) >= ContextLength
Mismatch_Never(s) == FALSE
Mismatch(s) == s.instance # NoInstance /\ s.instance # call.model

BeginForward_Early(finite) ==
  LET s == states[call.slot]
      grown == [instance |-> call.model, cells |-> Append(s.cells, [by |-> call.model, token |-> Head(call.input)])]
  IN  /\ pc = "begin"
      /\ IF Head(call.input) \notin Tokens \/ AtLimit(s) \/ Mismatch(s) \/ ~finite
         THEN Leave("non-finite") /\ UNCHANGED states
         ELSE /\ states' = [states EXCEPT ![call.slot] = grown]
              /\ token' = Head(call.input) /\ pending' = grown /\ pc' = "attention"
              /\ UNCHANGED <<call, route, outcome>>
BeginForward(finite) ==
  /\ pc = "begin"
  /\ LET s == states[call.slot]
         t == Head(call.input)
     IN  IF t \notin Tokens THEN Leave("invalid token")
         ELSE IF AtLimit(s) THEN Leave("context limit")
         ELSE IF Mismatch(s) THEN Leave("state mismatch")
         ELSE IF ~finite THEN Leave("non-finite")
         ELSE /\ token' = t /\ pc' = "attention"
              /\ pending' = [instance |-> call.model,
                             cells |-> Append(s.cells, [by |-> call.model, token |-> t])]
              /\ call' = [call EXCEPT !.logits = <<>>]
              /\ UNCHANGED <<route, outcome>>
  /\ UNCHANGED states

(* causal_attention over the pending state, its residual and the norm.      *)
Attend(finite) ==
  /\ pc = "attention"
  /\ IF ~finite THEN Leave("non-finite") ELSE pc' = "router" /\ UNCHANGED <<call, token, pending, route, outcome>>
  /\ UNCHANGED states

(* The router's scores, the experts they select and the softmax of their    *)
(* scores.                                                                  *)
Route(scores, finite) ==
  /\ pc = "router"
  /\ IF ~finite THEN Leave("non-finite")
     ELSE /\ route' = [scores |-> scores, ids |-> StableTopK(scores, TopK), done |-> 0]
          /\ pc' = "experts"
          /\ UNCHANGED <<call, token, pending, outcome>>
  /\ UNCHANGED states

(* One turn of accumulate_f32_experts or accumulate_bf16_experts.           *)
RunExpert(finite) ==
  /\ pc = "experts" /\ route.done < Len(route.ids)
  /\ IF ~finite THEN Leave("non-finite")
     ELSE /\ route' = [route EXCEPT !.done = @ + 1]
          /\ UNCHANGED <<call, pc, token, pending, outcome>>
  /\ UNCHANGED states

(* What the caller of forward_token does with its output: forward_token     *)
(* itself and run_tokens end or go on; generate_greedy picks the next       *)
(* token, and stops at EOS or at the last one.                              *)
Generates(c) == c.kind = "generate" /\ Tail(c.input) = <<>> /\ c.max # 0
After(c, logits) ==
  LET stepped == [c EXCEPT !.input = Tail(@), !.steps = Append(@, token), !.logits = logits]
      next == GreedyToken(logits)
  IN  IF Generates(c) THEN [stepped EXCEPT !.generated = Append(@, next), !.input = <<next>>] ELSE stepped
Ends_NoEos(c, logits) == IF Generates(c) THEN Len(c.generated) + 1 = c.max ELSE Tail(c.input) = <<>>
Ends(c, logits) ==
  IF Generates(c) THEN GreedyToken(logits) = EOS \/ Len(c.generated) + 1 = c.max ELSE Tail(c.input) = <<>>

(* The mixture, the residual and the logits; the caller's state is replaced *)
(* by the pending one only now.  A finished call leaves its result in       *)
(* `call` until Deliver.                                                    *)
Emit(logits, finite) ==
  /\ pc = "experts" /\ route.done = Len(route.ids)
  /\ IF ~finite THEN Leave("non-finite") /\ UNCHANGED states
     ELSE /\ states' = [states EXCEPT ![call.slot] = pending]
          /\ call' = After(call, logits)
          /\ pc' = IF Ends(call, logits) THEN "done" ELSE "begin"
          /\ outcome' = "output"
          /\ token' = 0 /\ pending' = Fresh /\ route' = NoRoute

Deliver == pc = "done" /\ Leave("ok") /\ UNCHANGED states

-----------------------------------------------------------------------------
Caller ==
  \/ \E s \in Slots : NewState(s)
  \/ \E s, t \in Slots : CloneState(s, t)
  \/ \E m \in Instances, s \in Slots, t \in 0..VocabSize : CallForward(m, s, t)
  \/ \E m \in Instances, p \in Prompts : CallRun(m, p)
  \/ \E m \in Instances, p \in Prompts, max \in 0..MaxNew : CallGenerate(m, p, max)
Step ==
  \/ \E finite \in BOOLEAN : BeginForward(finite) \/ Attend(finite) \/ RunExpert(finite)
  \/ \E scores \in [Experts -> Values], finite \in BOOLEAN : Route(scores, finite)
  \/ \E logits \in [Tokens -> Values], finite \in BOOLEAN : Emit(logits, finite)
  \/ Deliver
Next == Caller \/ Step

Spec == Init /\ [][Next]_vars /\ WF_vars(Step)

-----------------------------------------------------------------------------
(* A state a caller keeps changes during a call only when forward_token     *)
(* returns an output, and then by exactly the cell of the token it was      *)
(* given: a step that fails, however late, leaves it as it was.             *)
FailureKeepsState ==
  [][call.kind # "none" =>
       \A s \in Slots : states'[s] # states[s] =>
         /\ outcome' = "output" /\ s = call.slot
         /\ states'[s].cells = Append(states[s].cells, [by |-> call.model, token |-> Head(call.input)])]_vars

(* The cells of a state were all computed by the model the state is bound   *)
(* to, through clones, failures and calls by other models.                  *)
OneModelPerState ==
  \A s \in DOMAIN states : \A i \in DOMAIN states[s].cells : states[s].cells[i].by = states[s].instance

(* run_tokens and generate_greedy check the context once, before the first  *)
(* step: no later step of theirs meets its end.                             *)
LimitIsCheckedFirst == [][call.kind \in {"run", "generate"} => outcome' # "context limit"]_vars

(* What generate_greedy returns: at most max_new_tokens, EOS only as the    *)
(* last of them, fewer only after EOS; the steps are the prompt and every   *)
(* new token but the last, all in the local state.                          *)
GenerationIsWellFormed ==
  pc = "done" /\ call.kind = "generate" =>
    LET g == call.generated
    IN  /\ Len(g) <= call.max
        /\ \A i \in DOMAIN g : g[i] = EOS => i = Len(g)
        /\ Len(g) < call.max => g # <<>> /\ g[Len(g)] = EOS
        /\ call.steps = IF g = <<>> THEN call.prompt ELSE call.prompt \o SubSeq(g, 1, Len(g) - 1)
        /\ [i \in DOMAIN states[Local].cells |-> states[Local].cells[i].token] = call.steps
        /\ Len(call.steps) <= Required(call.prompt, call.max)
=============================================================================
