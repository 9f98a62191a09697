--------------------------- MODULE SequentialProofs -------------------------
(* What holds of the components without threads for every value of the      *)
(* constants: the rounding of runnel-runtime/src/bf16.rs for every f32, at  *)
(* the widths of the code; the sequence states and the generations of       *)
(* model.rs for any number of models, states, tokens and experts, whatever  *)
(* the logits are; and the frequency sketch of runnel-sim/src/policy/mod.rs *)
(* for every hash and every size.                                           *)
EXTENDS TinyModel, Bf16, WellFoundedInduction, TLAPS

-----------------------------------------------------------------------------
(* Bf16.                                                                    *)

(* The carry of the addition is the rounding to nearest even.               *)
LEMMA RoundedIsNearest ==
  ASSUME NEW bits \in Nat, bits <= InfinityF32
  PROVE  Nearest(bits, FromF32Rne(bits))
<1> DEFINE q == bits \div 65536
           r == bits % 65536
           w == (bits + 32767 + (q % 2)) \div 65536
<1>1. /\ q \in Int /\ r \in Nat /\ r < 65536 /\ bits = 65536 * q + r
      /\ q >= 0 /\ q <= 32640 /\ q % 2 \in {0, 1}
  BY SMT DEF InfinityF32
<1>0. FromF32Rne(bits) = w
  <2>1. ~(bits > InfinityF32)
    BY SMT DEF InfinityF32
  <2> QED  BY <2>1 DEF FromF32Rne
<1>2. CASE r < 32768 \/ (r = 32768 /\ q % 2 = 0)
  <2>1. w = q
    BY <1>1, <1>2, SMT
  <2>2. FromF32Rne(bits) = q
    BY <2>1, <1>0
  <2> QED  BY <1>1, <1>2, <2>2, SMT DEF Nearest, ToF32, IsWord
<1>3. CASE r > 32768 \/ (r = 32768 /\ q % 2 = 1)
  <2>1. w = q + 1
    BY <1>1, <1>3, SMT
  <2>2. FromF32Rne(bits) = q + 1
    BY <2>1, <1>0
  <2>3. q % 2 = 1 => (q + 1) % 2 = 0
    BY <1>1, SMT
  <2> QED  BY <1>1, <1>3, <2>2, <2>3, SMT DEF Nearest, ToF32, IsWord
<1> QED  BY <1>1, <1>2, <1>3, SMT

(* Bf16::from_f32_rne rounds every f32 that is not a NaN to the nearest     *)
(* BF16 word, ties to even, without a carry into the sign.                  *)
THEOREM RoundingCorrect == \A bits \in Nat : RoundsToNearestEven(bits)
BY RoundedIsNearest DEF RoundsToNearestEven

(* Bf16::from_f32_rne keeps a NaN a NaN: quieting the word whose fraction   *)
(* was cut to zero leaves the exponent at its largest.                      *)
THEOREM NanCorrect ==
  ASSUME NEW bits \in Nat, bits <= 2147483647  PROVE NanSurvives(bits)
<1> SUFFICES ASSUME bits > InfinityF32  PROVE Class(FromF32Rne(bits)) = "nan"
  BY DEF NanSurvives
<1> DEFINE q == bits \div 65536
<1>1. q \in Nat /\ q >= 32640 /\ q <= 32767
  BY SMT DEF InfinityF32
<1>2. FromF32Rne(bits) = IF q % 128 = 0 THEN q + 1 ELSE q
  BY DEF FromF32Rne, NanWord
<1> HIDE DEF q
<1>3. q % 128 = 0 => (q + 1) \div 128 = 255 /\ (q + 1) % 128 # 0
  BY <1>1, SMT
<1>4. q \div 128 = 255
  BY <1>1, SMT
<1> QED  BY <1>1, <1>2, <1>3, <1>4, SMT DEF Class

(* Up to infinity, the finite words are the ones below it.                  *)
LEMMA FiniteWords ==
  ASSUME NEW w \in Nat, w <= Infinity
  PROVE  IsFinite(w) <=> w < Infinity
<1>1. CASE w = Infinity
  <2>1. w \div 128 = 255 /\ w % 128 = 0
    BY <1>1, SMT DEF Infinity
  <2>2. Class(w) = "infinity"
    BY <2>1, SMT DEF Class
  <2>3. ~(w < Infinity)
    BY <1>1, SMT DEF Infinity
  <2> QED  BY <2>2, <2>3, SMT DEF IsFinite
<1>2. CASE w < Infinity
  <2>1. w \div 128 # 255
    BY <1>2, SMT DEF Infinity
  <2>2. Class(w) = "zero" \/ Class(w) = "subnormal" \/ Class(w) = "normal"
    BY <2>1, SMT DEF Class
  <2> QED  BY <1>2, <2>2, SMT DEF IsFinite
<1> QED  BY <1>1, <1>2, SMT DEF Infinity

(* Rounding reaches infinity exactly from the threshold on.                 *)
LEMMA FiniteBelowThreshold ==
  ASSUME NEW bits \in Nat, bits < InfinityF32
  PROVE  IsFinite(FromF32Rne(bits)) <=> bits < HalfStepPastLargest
<1> DEFINE q == bits \div 65536
           w == (bits + 32767 + (q % 2)) \div 65536
<1>1. FromF32Rne(bits) = w
  <2>1. ~(bits > InfinityF32)
    BY SMT DEF InfinityF32
  <2> QED  BY <2>1, SMT DEF FromF32Rne
<1>2. q \in Nat /\ q % 2 \in {0, 1} /\ 65536 * q <= bits /\ bits < 65536 * q + 65536
  BY SMT
<1>3. w \in Nat /\ w <= Infinity
  BY <1>2, SMT DEF InfinityF32, Infinity
<1>4. bits < HalfStepPastLargest => w < Infinity
  BY <1>2, SMT DEF HalfStepPastLargest, Infinity
<1>5. bits >= HalfStepPastLargest => ~(w < Infinity)
  <2>1. bits >= HalfStepPastLargest => q = 32639
    BY <1>2, SMT DEF InfinityF32, HalfStepPastLargest
  <2>2. q = 32639 => q % 2 = 1
    BY SMT
  <2> QED  BY <1>2, <2>1, <2>2, SMT DEF HalfStepPastLargest, Infinity
<1>6. bits < HalfStepPastLargest \/ bits >= HalfStepPastLargest
  BY SMT DEF HalfStepPastLargest
<1> HIDE DEF w
<1>7. IsFinite(w) <=> w < Infinity
  BY <1>3, FiniteWords
<1> QED  BY <1>1, <1>4, <1>5, <1>6, <1>7, SMT

(* Bf16::try_from_f32_rne refuses exactly the f32 from half a step past the *)
(* largest finite word on.                                                  *)
THEOREM ThresholdCorrect == \A bits \in Nat : OverflowExact(bits)
<1> SUFFICES ASSUME NEW bits \in Nat  PROVE OverflowExact(bits)
  OBVIOUS
<1>1. CASE bits >= InfinityF32
  <2>1. TryFromF32Rne(bits).error # "none"
    BY <1>1, SMT DEF TryFromF32Rne
  <2>2. ~(bits < HalfStepPastLargest)
    BY <1>1, SMT DEF InfinityF32, HalfStepPastLargest
  <2> QED  BY <2>1, <2>2, SMT DEF OverflowExact
<1>2. CASE bits < InfinityF32
  <2>1. ~(bits >= InfinityF32)
    BY <1>2, SMT DEF InfinityF32
  <2>2. IsFinite(FromF32Rne(bits)) <=> bits < HalfStepPastLargest
    BY <1>2, FiniteBelowThreshold
  <2>3. CASE IsFinite(FromF32Rne(bits))
    <3>1. TryFromF32Rne(bits).error = "none"
      BY <2>1, <2>3, SMT DEF TryFromF32Rne
    <3> QED  BY <3>1, <2>2, <2>3, SMT DEF OverflowExact
  <2>4. CASE ~IsFinite(FromF32Rne(bits))
    <3>1. TryFromF32Rne(bits).error # "none"
      BY <2>1, <2>4, SMT DEF TryFromF32Rne
    <3> QED  BY <3>1, <2>2, <2>4, SMT DEF OverflowExact
  <2> QED  BY <2>3, <2>4
<1> QED  BY <1>1, <1>2, SMT DEF InfinityF32
-----------------------------------------------------------------------------
(* TinyModel.                                                               *)

IsSeq(s) == \E S : s \in Seq(S)

(* What the provers need to know of the sequences.                          *)
LEMMA EmptyIsSeq == IsSeq(<<>>) /\ Len(<<>>) = 0
BY DEF IsSeq

(* A singleton is one.                                                       *)
LEMMA OneIsSeq ==
  ASSUME NEW e  PROVE IsSeq(<<e>>) /\ Len(<<e>>) = 1 /\ <<e>> # <<>>
<1>1. <<e>> \in Seq({e})
  OBVIOUS
<1> QED  BY <1>1, Zenon DEF IsSeq

(* Lengths are natural numbers, positive for what is not empty.              *)
LEMMA LengthIsNat ==
  ASSUME NEW s, IsSeq(s)
  PROVE  Len(s) \in Nat /\ (s # <<>> => Len(s) > 0)
<1> PICK S : s \in Seq(S)
  BY DEF IsSeq
<1> QED  OBVIOUS

(* Append adds one element at the end and leaves the others.                 *)
LEMMA AppendGrows ==
  ASSUME NEW s, NEW e, IsSeq(s)
  PROVE  /\ IsSeq(Append(s, e)) /\ Len(Append(s, e)) = Len(s) + 1
         /\ DOMAIN s = 1..Len(s) /\ DOMAIN Append(s, e) = 1..(Len(s) + 1)
         /\ \A i \in DOMAIN s : Append(s, e)[i] = s[i]
         /\ Append(s, e)[Len(s) + 1] = e
<1> PICK S : s \in Seq(S)
  BY DEF IsSeq
<1> DEFINE T == S \cup {e}
<1>1. s \in Seq(T)
  OBVIOUS
<1>2. e \in T
  OBVIOUS
<1> HIDE DEF T
<1>3. Append(s, e) \in Seq(T)
  BY <1>1, <1>2
<1>4. Len(Append(s, e)) = Len(s) + 1
  BY <1>1, <1>2
<1>5. \A i \in DOMAIN s : Append(s, e)[i] = s[i]
  BY <1>1, <1>2
<1>6. Append(s, e)[Len(s) + 1] = e
  BY <1>1, <1>2
<1>7. DOMAIN s = 1..Len(s)
  BY <1>1
<1>8. DOMAIN Append(s, e) = 1..Len(Append(s, e))
  BY <1>3
<1> QED  BY <1>3, <1>4, <1>5, <1>6, <1>7, <1>8 DEF IsSeq

(* Tail removes one.                                                         *)
LEMMA TailShrinks ==
  ASSUME NEW s, IsSeq(s), s # <<>>
  PROVE  IsSeq(Tail(s)) /\ Len(Tail(s)) = Len(s) - 1
<1> PICK S : s \in Seq(S)
  BY DEF IsSeq
<1>1. Tail(s) \in Seq(S) /\ Len(Tail(s)) = Len(s) - 1
  OBVIOUS
<1> QED  BY <1>1 DEF IsSeq

-----------------------------------------------------------------------------
(* The inductive invariant.  A state with no model is empty, so binding it  *)
(* to one is sound; the pending state is the caller's with one cell more;   *)
(* and a call that checked the context has room for its remaining steps.    *)
GoodState(st) ==
  /\ IsSeq(st.cells)
  /\ st.instance = NoInstance => st.cells = <<>>
  /\ \A i \in DOMAIN st.cells : st.cells[i].by = st.instance

Working == pc = "attention" \/ pc = "router" \/ pc = "experts"
Calling == call.kind # "none"

CallInv ==
  /\ DOMAIN call = DOMAIN Idle
  /\ DOMAIN states = Slots \cup {Local} /\ call.slot \in DOMAIN states
  /\ Calling => call.model \in Instances /\ outcome # "context limit"
  /\ pc = "begin" \/ Working \/ pc = "done" => Calling
  /\ IsSeq(call.input) /\ IsSeq(call.generated)
  /\ pc = "begin" \/ Working => call.input # <<>>

BoundInv ==
  /\ \A s \in DOMAIN states : GoodState(states[s])
  /\ Working => /\ GoodState(pending)
                /\ pending.cells = Append(states[call.slot].cells, [by |-> call.model, token |-> Head(call.input)])

Cells == Len(states[Local].cells)
RoomInv ==
  /\ call.kind = "run" \/ call.kind = "generate" => call.slot = Local
  /\ call.kind = "run" => Cells + Len(call.input) <= ContextLength
  /\ call.kind = "generate" =>
       /\ call.max \in Nat
       /\ pc # "done" /\ call.max = 0 => Cells + Len(call.input) <= ContextLength
       /\ pc # "done" /\ call.max # 0 =>
            /\ Len(call.generated) < call.max
            /\ Cells + Len(call.input) + (call.max - 1 - Len(call.generated)) <= ContextLength

Inv == CallInv /\ BoundInv /\ RoomInv

(* The invariant holds before the first call.                                *)
LEMMA InitInv == Init => Inv
<1> SUFFICES ASSUME Init  PROVE Inv
  OBVIOUS
<1> USE DEF Init
<1>1. GoodState(Fresh)
  BY EmptyIsSeq DEF GoodState, Fresh
<1>2. CallInv
  BY EmptyIsSeq DEF CallInv, Idle, Calling, Working
<1>3. BoundInv
  BY <1>1 DEF BoundInv, Working
<1>4. RoomInv
  BY DEF RoomInv, Idle
<1> QED  BY <1>2, <1>3, <1>4 DEF Inv

(* A call that ends, ends with nothing to keep track of.                    *)
LEMMA LeaveInv ==
  ASSUME Inv, NEW why, Leave(why), UNCHANGED states
  PROVE  Inv'
<1> USE DEF Leave
<1>1. CallInv'
  BY EmptyIsSeq DEF Inv, CallInv, Idle, Calling, Working
<1>2. BoundInv'
  BY DEF Inv, BoundInv, Working
<1>3. RoomInv'
  BY DEF RoomInv, Idle
<1> QED  BY <1>1, <1>2, <1>3 DEF Inv

(* A refused call keeps the invariant.                                       *)
LEMMA RefuseInv ==
  ASSUME Inv, NEW why, Refuse(why), ~Calling
  PROVE  Inv'
BY DEF Refuse, Inv, CallInv, BoundInv, RoomInv, Working, Calling, Cells

(* A call starts with a record of its own and an empty local state.         *)
LEMMA StartInv ==
  ASSUME Inv, NEW c, Start(c),
         DOMAIN c = DOMAIN Idle, c.slot \in Slots \cup {Local}, c.model \in Instances, c.kind # "none",
         IsSeq(c.input), c.input # <<>>, c.generated = <<>>,
         c.kind = "run" \/ c.kind = "generate" => c.slot = Local,
         c.kind = "run" => Len(c.input) <= ContextLength,
         c.kind = "generate" =>
           /\ c.max \in Nat
           /\ c.max = 0 => Len(c.input) <= ContextLength
           /\ c.max # 0 => Len(c.input) + (c.max - 1) <= ContextLength
  PROVE  Inv'
<1> USE DEF Start
<1>1. GoodState(Fresh) /\ Len(Fresh.cells) = 0
  BY EmptyIsSeq DEF GoodState, Fresh
<1>2. Len(c.input) \in Nat /\ Len(c.generated) = 0
  BY LengthIsNat, EmptyIsSeq
<1>3. CallInv'
  BY EmptyIsSeq DEF Inv, CallInv, Calling, Working
<1>4. BoundInv'
  BY <1>1 DEF Inv, CallInv, BoundInv, Working
<1>5. Cells' = 0
  BY <1>1 DEF Inv, CallInv, Cells
<1>6. RoomInv'
  BY <1>2, <1>5, TinyModelAssumption DEF RoomInv
<1> QED  BY <1>3, <1>4, <1>6 DEF Inv

-----------------------------------------------------------------------------

(* Every call of the caller keeps the invariant.                             *)
LEMMA CallerInv == Inv /\ Caller => Inv'
<1> SUFFICES ASSUME Inv, Caller  PROVE Inv'
  OBVIOUS
<1> USE DEF Idle
<1>1. ASSUME NEW s \in Slots, NewState(s)  PROVE Inv'
  <2>1. GoodState(Fresh)
    BY EmptyIsSeq DEF GoodState, Fresh
  <2>2. CallInv'
    BY <1>1 DEF NewState, Inv, CallInv, Calling, Working
  <2>3. BoundInv'
    BY <1>1, <2>1 DEF NewState, Inv, CallInv, BoundInv, Working, Calling
  <2>4. RoomInv'
    BY <1>1 DEF NewState, RoomInv
  <2> QED  BY <2>2, <2>3, <2>4 DEF Inv
<1>2. ASSUME NEW s \in Slots, NEW t \in Slots, CloneState(s, t)  PROVE Inv'
  <2>1. GoodState(states[s])
    BY <1>2 DEF Inv, CallInv, BoundInv
  <2>2. CallInv'
    BY <1>2 DEF CloneState, Inv, CallInv, Calling, Working
  <2>3. BoundInv'
    BY <1>2, <2>1 DEF CloneState, Inv, CallInv, BoundInv, Working, Calling
  <2>4. RoomInv'
    BY <1>2 DEF CloneState, RoomInv
  <2> QED  BY <2>2, <2>3, <2>4 DEF Inv
<1>3. ASSUME NEW m \in Instances, NEW s \in Slots, NEW t \in 0..VocabSize, CallForward(m, s, t)  PROVE Inv'
  <2> DEFINE c == [Idle EXCEPT !.kind = "forward", !.model = m, !.slot = s, !.input = <<t>>]
  <2>1. Start(c)
    BY <1>3 DEF CallForward
  <2>2. /\ DOMAIN c = DOMAIN Idle /\ c.kind = "forward" /\ c.model = m /\ c.slot = s
        /\ c.input = <<t>> /\ c.generated = <<>>
    OBVIOUS
  <2>3. IsSeq(c.input) /\ c.input # <<>>
    BY <2>2, OneIsSeq
  <2> HIDE DEF c
  <2> QED  BY <2>1, <2>2, <2>3, StartInv, Zenon
<1>4. ASSUME NEW m \in Instances, NEW tokens \in Prompts, CallRun(m, tokens)  PROVE Inv'
  <2>1. CASE tokens = <<>>
    BY <1>4, <2>1, RefuseInv DEF CallRun, Calling
  <2>2. CASE tokens # <<>> /\ Len(tokens) > ContextLength
    BY <1>4, <2>2, RefuseInv DEF CallRun, Calling
  <2>3. CASE tokens # <<>> /\ ~(Len(tokens) > ContextLength)
    <3> DEFINE c == [Idle EXCEPT !.kind = "run", !.model = m, !.input = tokens, !.prompt = tokens]
    <3>1. Start(c)
      BY <1>4, <2>3 DEF CallRun
    <3>2. /\ DOMAIN c = DOMAIN Idle /\ c.kind = "run" /\ c.model = m /\ c.slot = Local
          /\ c.input = tokens /\ c.generated = <<>>
      OBVIOUS
    <3>3. IsSeq(tokens)
      BY TinyModelAssumption DEF IsSeq
    <3>4. Len(tokens) <= ContextLength
      BY <2>3, <3>3, LengthIsNat, TinyModelAssumption
    <3> HIDE DEF c
    <3> QED  BY <2>3, <3>1, <3>2, <3>3, <3>4, StartInv
  <2> QED  BY <2>1, <2>2, <2>3
<1>5. ASSUME NEW m \in Instances, NEW prompt \in Prompts, NEW max \in 0..MaxNew, CallGenerate(m, prompt, max)
      PROVE  Inv'
  <2>1. CASE prompt = <<>>
    BY <1>5, <2>1, RefuseInv DEF CallGenerate, Calling
  <2>2. CASE prompt # <<>> /\ Required(prompt, max) > ContextLength
    BY <1>5, <2>2, RefuseInv DEF CallGenerate, Calling
  <2>3. CASE prompt # <<>> /\ ~(Required(prompt, max) > ContextLength)
    <3> DEFINE c == [Idle EXCEPT !.kind = "generate", !.model = m, !.input = prompt, !.prompt = prompt, !.max = max]
    <3>1. Start(c)
      BY <1>5, <2>3 DEF CallGenerate
    <3>2. /\ DOMAIN c = DOMAIN Idle /\ c.kind = "generate" /\ c.model = m /\ c.slot = Local
          /\ c.input = prompt /\ c.generated = <<>> /\ c.max = max
      OBVIOUS
    <3>3. IsSeq(prompt)
      BY TinyModelAssumption DEF IsSeq
    <3>4. max \in Nat /\ Len(prompt) \in Nat
      BY <3>3, LengthIsNat, TinyModelAssumption
    <3>5. /\ max = 0 => Len(prompt) <= ContextLength
          /\ max # 0 => Len(prompt) + (max - 1) <= ContextLength
      BY <2>3, <3>4, TinyModelAssumption DEF Required
    <3> HIDE DEF c
    <3> QED  BY <2>3, <3>1, <3>2, <3>3, <3>4, <3>5, StartInv
  <2> QED  BY <2>1, <2>2, <2>3
<1> QED  BY <1>1, <1>2, <1>3, <1>4, <1>5 DEF Caller

-----------------------------------------------------------------------------
(* One cell more by the model the state is bound to, or is bound to now.    *)
LEMMA GrownIsGood ==
  ASSUME NEW st, NEW m \in Instances, NEW t, GoodState(st), st.instance = NoInstance \/ st.instance = m
  PROVE  GoodState([instance |-> m, cells |-> Append(st.cells, [by |-> m, token |-> t])])
<1> DEFINE cell == [by |-> m, token |-> t]
           grown == [instance |-> m, cells |-> Append(st.cells, cell)]
<1>1. IsSeq(st.cells)
  BY DEF GoodState
<1>2. Len(st.cells) \in Nat
  BY <1>1, LengthIsNat
<1>3. grown.cells = Append(st.cells, cell) /\ grown.instance = m /\ cell.by = m
  OBVIOUS
<1>4. \A i \in DOMAIN st.cells : st.cells[i].by = m
  BY EmptyIsSeq DEF GoodState
<1> HIDE DEF cell, grown
<1>5. ASSUME NEW i \in DOMAIN grown.cells  PROVE grown.cells[i].by = m
  <2>1. CASE i = Len(st.cells) + 1
    BY <1>1, <1>3, <2>1, AppendGrows
  <2>2. CASE i # Len(st.cells) + 1
    <3>1. i \in DOMAIN st.cells
      BY <1>1, <1>2, <1>3, <1>5, <2>2, AppendGrows
    <3> QED  BY <1>1, <1>3, <1>4, <3>1, AppendGrows
  <2> QED  BY <2>1, <2>2
<1>6. IsSeq(grown.cells)
  BY <1>1, <1>3, AppendGrows
<1>7. GoodState(grown)
  BY <1>3, <1>5, <1>6, TinyModelAssumption DEF GoodState
<1> QED  BY <1>7 DEF grown, cell

(* forward, its checks and the embedding, keeps the invariant.               *)
LEMMA BeginInv == ASSUME Inv, NEW finite \in BOOLEAN, BeginForward(finite)  PROVE Inv'
<1> DEFINE s == states[call.slot]
           t == Head(call.input)
<1>1. CASE t \notin Tokens \/ AtLimit(s) \/ Mismatch(s) \/ ~finite
  <2>1. \E why : Leave(why) /\ UNCHANGED states
    BY <1>1 DEF BeginForward
  <2> QED  BY <2>1, LeaveInv
<1>2. CASE ~(t \notin Tokens \/ AtLimit(s) \/ Mismatch(s) \/ ~finite)
  <2>1. /\ pc = "begin" /\ pc' = "attention" /\ UNCHANGED states
        /\ pending' = [instance |-> call.model, cells |-> Append(s.cells, [by |-> call.model, token |-> t])]
        /\ call' = [call EXCEPT !.logits = <<>>] /\ UNCHANGED outcome
    BY <1>2 DEF BeginForward
  <2>2. CallInv
    BY DEF Inv
  <2>3. /\ DOMAIN call' = DOMAIN Idle /\ call'.kind = call.kind /\ call'.model = call.model /\ call'.slot = call.slot
        /\ call'.input = call.input /\ call'.generated = call.generated /\ call'.max = call.max
    BY <2>1, <2>2 DEF CallInv, Idle
  <2>4. call.model \in Instances /\ GoodState(s)
    BY <2>1, <2>2 DEF Inv, CallInv, BoundInv
  <2>5. GoodState(pending')
    <3>1. s.instance = NoInstance \/ s.instance = call.model
      BY <1>2 DEF Mismatch
    <3> QED  BY <2>1, <2>4, <3>1, GrownIsGood, Zenon
  <2>6. CallInv'
    BY <2>1, <2>2, <2>3 DEF CallInv, Calling, Working
  <2>7. BoundInv'
    BY <2>1, <2>3, <2>5, Zenon DEF Inv, BoundInv, GoodState
  <2>8. RoomInv'
    BY <2>1, <2>3, Zenon DEF Inv, RoomInv, Cells
  <2> QED  BY <2>6, <2>7, <2>8 DEF Inv
<1> QED  BY <1>1, <1>2

(* A step inside forward_token that neither fails nor ends it.              *)
LEMMA WorkInv ==
  ASSUME Inv, Working, Working', UNCHANGED <<states, call, pending, outcome>>
  PROVE  Inv'
<1>1. CallInv'
  BY DEF Inv, CallInv, Calling, Working
<1>2. BoundInv'
  BY DEF Inv, BoundInv
<1>3. RoomInv'
  BY Zenon DEF Inv, RoomInv, Cells, Working
<1> QED  BY <1>1, <1>2, <1>3 DEF Inv

(* Attention of a layer keeps it.                                            *)
LEMMA AttendInv == ASSUME Inv, NEW finite \in BOOLEAN, Attend(finite)  PROVE Inv'
<1>1. CASE ~finite
  BY <1>1, LeaveInv DEF Attend
<1>2. CASE finite
  BY <1>2, WorkInv DEF Attend, Working
<1> QED  BY <1>1, <1>2

(* Routing of a layer keeps it.                                              *)
LEMMA RouteInv == ASSUME Inv, NEW scores, NEW finite \in BOOLEAN, Route(scores, finite)  PROVE Inv'
<1>1. CASE ~finite
  BY <1>1, LeaveInv DEF Route
<1>2. CASE finite
  BY <1>2, WorkInv DEF Route, Working
<1> QED  BY <1>1, <1>2

(* One expert of a layer keeps it.                                           *)
LEMMA ExpertInv == ASSUME Inv, NEW finite \in BOOLEAN, RunExpert(finite)  PROVE Inv'
<1>1. CASE ~finite
  BY <1>1, LeaveInv DEF RunExpert
<1>2. CASE finite
  BY <1>2, WorkInv DEF RunExpert, Working
<1> QED  BY <1>1, <1>2

-----------------------------------------------------------------------------
(* The call after a step: one input token less, or the last one replaced by *)
(* the token that was generated.                                            *)
LEMMA AfterCall ==
  ASSUME DOMAIN call = DOMAIN Idle, NEW logits
  PROVE  /\ DOMAIN After(call, logits) = DOMAIN Idle
         /\ After(call, logits).kind = call.kind /\ After(call, logits).model = call.model
         /\ After(call, logits).slot = call.slot /\ After(call, logits).max = call.max
         /\ Generates(call) => /\ After(call, logits).input = <<GreedyToken(logits)>>
                               /\ After(call, logits).generated = Append(call.generated, GreedyToken(logits))
         /\ ~Generates(call) => /\ After(call, logits).input = Tail(call.input)
                                /\ After(call, logits).generated = call.generated
<1> DEFINE next == GreedyToken(logits)
           stepped == [call EXCEPT !.input = Tail(@), !.steps = Append(@, token), !.logits = logits]
           again == [stepped EXCEPT !.generated = Append(@, next), !.input = <<next>>]
<1>1. /\ DOMAIN stepped = DOMAIN Idle /\ stepped.kind = call.kind /\ stepped.model = call.model
      /\ stepped.slot = call.slot /\ stepped.max = call.max
      /\ stepped.input = Tail(call.input) /\ stepped.generated = call.generated
  BY DEF Idle
<1>2. /\ DOMAIN again = DOMAIN Idle /\ again.kind = call.kind /\ again.model = call.model
      /\ again.slot = call.slot /\ again.max = call.max
      /\ again.input = <<next>> /\ again.generated = Append(call.generated, next)
  BY DEF Idle
<1>3. After(call, logits) = IF Generates(call) THEN again ELSE stepped
  BY DEF After
<1> HIDE DEF stepped, again
<1> QED  BY <1>1, <1>2, <1>3

(* The logits and the commit of the position keep it.                        *)
LEMMA EmitInv == ASSUME Inv, NEW logits, NEW finite \in BOOLEAN, Emit(logits, finite)  PROVE Inv'
<1>1. CASE ~finite
  BY <1>1, LeaveInv DEF Emit
<1>2. CASE finite
  <2> DEFINE more == After(call, logits)
             ends == Ends(call, logits)
  <2>1. /\ pc = "experts" /\ call' = more /\ states' = [states EXCEPT ![call.slot] = pending]
        /\ (ends => pc' = "done") /\ (~ends => pc' = "begin") /\ outcome' = "output"
    BY <1>2 DEF Emit
  <2>2. CallInv /\ Calling /\ call.input # <<>> /\ Working
    BY <2>1 DEF Inv, CallInv, Working
  <2>3. /\ DOMAIN more = DOMAIN Idle
        /\ more.kind = call.kind /\ more.model = call.model /\ more.slot = call.slot /\ more.max = call.max
        /\ \/ /\ call.kind # "generate" \/ Tail(call.input) # <<>> \/ call.max = 0
              /\ more.input = Tail(call.input) /\ more.generated = call.generated
              /\ ends <=> Tail(call.input) = <<>>
           \/ /\ call.kind = "generate" /\ Tail(call.input) = <<>> /\ call.max # 0
              /\ more.input = <<GreedyToken(logits)>> /\ more.generated = Append(call.generated, GreedyToken(logits))
              /\ Len(call.generated) + 1 = call.max => ends
    <3>1. DOMAIN call = DOMAIN Idle
      BY <2>2 DEF CallInv
    <3>2. CASE Generates(call)
      <4>1. Len(call.generated) + 1 = call.max => ends
        BY <3>2 DEF Ends
      <4> QED  BY <3>1, <3>2, <4>1, AfterCall DEF Generates
    <3>3. CASE ~Generates(call)
      <4>1. ends <=> Tail(call.input) = <<>>
        BY <3>3 DEF Ends
      <4> QED  BY <3>1, <3>3, <4>1, AfterCall DEF Generates
    <3> QED  BY <3>2, <3>3
  <2> HIDE DEF more, ends
  <2>4. /\ IsSeq(Tail(call.input)) /\ Len(Tail(call.input)) = Len(call.input) - 1 /\ Len(call.input) \in Nat
        /\ Len(call.generated) \in Nat /\ Len(<<>>) = 0
    BY <2>2, TailShrinks, LengthIsNat, EmptyIsSeq DEF CallInv
  <2>5. /\ IsSeq(<<GreedyToken(logits)>>) /\ Len(<<GreedyToken(logits)>>) = 1
        /\ <<GreedyToken(logits)>> # <<>>
    BY OneIsSeq
  <2>6. /\ IsSeq(Append(call.generated, GreedyToken(logits)))
        /\ Len(Append(call.generated, GreedyToken(logits))) = Len(call.generated) + 1
    BY <2>2, AppendGrows DEF CallInv
  <2>7. CallInv'
    <3>1. IsSeq(more.input) /\ IsSeq(more.generated) /\ (~ends => more.input # <<>>)
      BY <2>2, <2>3, <2>4, <2>5, <2>6 DEF CallInv
    <3>2. pc' = "begin" => ~ends
      BY <2>1
    <3>3. pc' = "begin" \/ pc' = "done"
      BY <2>1
    <3> QED  BY <2>1, <2>2, <2>3, <3>1, <3>2, <3>3 DEF CallInv, Calling, Working
  <2>8. BoundInv'
    <3>1. GoodState(pending)
      BY <2>2 DEF Inv, BoundInv
    <3>2. ~Working'
      BY <2>1 DEF Working
    <3>3. ASSUME NEW s \in DOMAIN states  PROVE GoodState(states'[s])
      BY <2>1, <2>2, <3>1, <3>3 DEF Inv, CallInv, BoundInv
    <3>4. DOMAIN states' = DOMAIN states
      BY <2>1
    <3> QED  BY <3>2, <3>3, <3>4 DEF BoundInv, GoodState
  <2>9. call.slot = Local => Cells' = Cells + 1 /\ Cells \in Nat
    <3>1. IsSeq(states[call.slot].cells)
      BY <2>2 DEF Inv, CallInv, BoundInv, GoodState
    <3>2. Len(pending.cells) = Len(states[call.slot].cells) + 1 /\ Len(states[call.slot].cells) \in Nat
      BY <2>2, <3>1, AppendGrows, LengthIsNat DEF Inv, BoundInv
    <3>3. states'[call.slot] = pending
      BY <2>1, <2>2 DEF CallInv
    <3> QED  BY <3>2, <3>3 DEF Cells
  <2>10. RoomInv'
    <3>1. call'.slot = call.slot /\ call'.kind = call.kind /\ call'.max = call.max /\ pc # "done"
      BY <2>1, <2>3
    <3>2. CASE call.kind = "run"
      <4>1. Len(call'.input) = Len(call.input) - 1
        BY <2>1, <2>3, <2>4, <3>2, Zenon
      <4>2. call.slot = Local /\ Cells + Len(call.input) <= ContextLength
        BY <3>2 DEF Inv, RoomInv
      <4>3. Cells' + Len(call'.input) <= ContextLength
        BY <2>4, <2>9, <4>1, <4>2, TinyModelAssumption
      <4> QED  BY <3>1, <3>2, <4>2, <4>3 DEF RoomInv
    <3>3. CASE call.kind = "generate" /\ call.max = 0
      <4>1. Len(call'.input) = Len(call.input) - 1
        BY <2>1, <2>3, <2>4, <3>3, Zenon
      <4>2. call.slot = Local /\ Cells + Len(call.input) <= ContextLength
        BY <3>1, <3>3 DEF Inv, RoomInv
      <4>3. Cells' + Len(call'.input) <= ContextLength
        BY <2>4, <2>9, <4>1, <4>2, TinyModelAssumption
      <4> QED  BY <3>1, <3>3, <4>2, <4>3 DEF RoomInv
    <3>4. CASE call.kind = "generate" /\ call.max # 0
      <4>1. /\ call.slot = Local /\ call.max \in Nat /\ Len(call.generated) < call.max
            /\ Cells + Len(call.input) + (call.max - 1 - Len(call.generated)) <= ContextLength
        BY <3>1, <3>4 DEF Inv, RoomInv
      <4>2. CASE Tail(call.input) # <<>>
        <5>1. Len(call'.input) = Len(call.input) - 1 /\ call'.generated = call.generated
          BY <2>1, <2>3, <2>4, <4>2, Zenon
        <5>2. Cells' + Len(call'.input) + (call.max - 1 - Len(call'.generated)) <= ContextLength
          BY <2>4, <2>9, <4>1, <5>1, TinyModelAssumption
        <5> QED  BY <3>1, <3>4, <4>1, <5>1, <5>2 DEF RoomInv
      <4>3. CASE Tail(call.input) = <<>>
        <5>0. Len(Tail(call.input)) = 0
          BY <4>3, EmptyIsSeq, Zenon
        <5>1. Len(call.input) = 1
          BY <2>4, <5>0
        <5>2. Len(call'.input) = 1 /\ Len(call'.generated) = Len(call.generated) + 1
          BY <2>1, <2>3, <2>5, <2>6, <3>4, <4>3
        <5>3. pc' # "done" => Len(call'.generated) < call.max
          BY <2>1, <2>3, <2>4, <3>4, <4>1, <4>3, <5>2
        <5>4. Cells' = Cells + 1 /\ Cells \in Nat
          BY <2>9, <4>1
        <5>5. Cells + 1 + 1 + (call.max - 1 - (Len(call.generated) + 1)) <= ContextLength
          BY <2>4, <4>1, <5>1, <5>4, TinyModelAssumption, SMTT(30)
        <5>6. Cells' + Len(call'.input) + (call.max - 1 - Len(call'.generated)) <= ContextLength
          BY <5>2, <5>4, <5>5
        <5> QED  BY <3>1, <3>4, <4>1, <5>3, <5>6 DEF RoomInv
      <4> QED  BY <4>2, <4>3
    <3>5. CASE call.kind # "run" /\ call.kind # "generate"
      BY <3>1, <3>5 DEF RoomInv
    <3> QED  BY <3>2, <3>3, <3>4, <3>5
  <2> QED  BY <2>7, <2>8, <2>10 DEF Inv
<1> QED  BY <1>1, <1>2

-----------------------------------------------------------------------------

(* Every step keeps the invariant.                                           *)
LEMMA StepInv == Inv /\ [Next]_vars => Inv'
<1> SUFFICES ASSUME Inv, [Next]_vars  PROVE Inv'
  OBVIOUS
<1>1. CASE Caller
  BY <1>1, CallerInv
<1>2. ASSUME NEW finite \in BOOLEAN, BeginForward(finite) \/ Attend(finite) \/ RunExpert(finite)  PROVE Inv'
  BY <1>2, BeginInv, AttendInv, ExpertInv
<1>3. ASSUME NEW scores \in [Experts -> Values], NEW finite \in BOOLEAN, Route(scores, finite)  PROVE Inv'
  BY <1>3, RouteInv
<1>4. ASSUME NEW logits \in [Tokens -> Values], NEW finite \in BOOLEAN, Emit(logits, finite)  PROVE Inv'
  BY <1>4, EmitInv
<1>5. CASE Deliver
  BY <1>5, LeaveInv, SMTT(30) DEF Deliver
<1>6. CASE UNCHANGED vars
  BY <1>6 DEF vars, Inv, CallInv, BoundInv, RoomInv, Working, Calling, Cells
<1> QED  BY <1>1, <1>2, <1>3, <1>4, <1>5, <1>6 DEF Next, Step

(* The invariant holds of every behaviour.                                   *)
LEMMA InvHolds == Spec => []Inv
BY InitInv, StepInv, PTL DEF Spec

(* Whatever a caller does with its states, the keys and values in one were  *)
(* all computed by one model: the instance check of forward_token is enough *)
(* because a state is bound when its first cell is committed.               *)
THEOREM StatesBelongToOneModel == Spec => []OneModelPerState
<1>1. Inv => OneModelPerState
  BY DEF Inv, BoundInv, GoodState, OneModelPerState
<1> QED  BY <1>1, InvHolds, PTL

(* An error of forward_token, at whichever of its steps, leaves the         *)
(* caller's state as it was, and a success adds the cell of its token.      *)
THEOREM ForwardIsAtomic == Spec => FailureKeepsState
<1> DEFINE Kept ==
      call.kind # "none" =>
        \A s \in Slots : states'[s] # states[s] =>
          /\ outcome' = "output" /\ s = call.slot
          /\ states'[s].cells = Append(states[s].cells, [by |-> call.model, token |-> Head(call.input)])
<1>1. Inv /\ [Next]_vars => [Kept]_vars
  <2> SUFFICES ASSUME Inv, Next, Calling, NEW s \in Slots, states'[s] # states[s]
               PROVE  /\ outcome' = "output" /\ s = call.slot
                      /\ states'[s].cells = Append(states[s].cells, [by |-> call.model, token |-> Head(call.input)])
    BY DEF Calling
  <2>1. PICK logits \in [Tokens -> Values], finite \in BOOLEAN : Emit(logits, finite)
    <3>1. ~Caller
      BY Zenon DEF Caller, NewState, CloneState, CallForward, CallRun, CallGenerate, Calling
    <3>2. states' # states
      OBVIOUS
    <3> QED  BY <3>1, <3>2 DEF Next, Step, BeginForward, Attend, RunExpert, Route, Deliver
  <2>2. /\ pc = "experts" /\ outcome' = "output" /\ states' = [states EXCEPT ![call.slot] = pending]
    BY <2>1 DEF Emit
  <2>3. DOMAIN states = Slots \cup {Local} /\ Working
    BY <2>2 DEF Inv, CallInv, Working
  <2>4. s = call.slot
    BY <2>2, <2>3
  <2>5. states'[s] = pending
    BY <2>2, <2>3, <2>4
  <2>6. pending.cells = Append(states[s].cells, [by |-> call.model, token |-> Head(call.input)])
    BY <2>3, <2>4 DEF Inv, BoundInv
  <2> QED  BY <2>2, <2>4, <2>5, <2>6
<1>2. Spec => [][Kept]_vars
  BY <1>1, InvHolds, PTL DEF Spec
<1> QED  BY <1>2 DEF FailureKeepsState

(* The bound that run_tokens and generate_greedy check before their first   *)
(* step is the one their steps need: none of them meets the limit.          *)
THEOREM LimitCheckSuffices == Spec => LimitIsCheckedFirst
<1> DEFINE Within == call.kind \in {"run", "generate"} => outcome' # "context limit"
<1>1. Inv /\ [Next]_vars => [Within]_vars
  <2> SUFFICES ASSUME Inv, Next, call.kind = "run" \/ call.kind = "generate"
               PROVE  outcome' # "context limit"
    OBVIOUS
  <2>1. CASE Caller
    BY <2>1, Zenon DEF Caller, NewState, CloneState, CallForward, CallRun, CallGenerate
  <2>2. ASSUME NEW finite \in BOOLEAN, BeginForward(finite)  PROVE outcome' # "context limit"
    <3>1. pc = "begin" /\ CallInv
      BY <2>2 DEF BeginForward, Inv
    <3>2. Len(call.input) \in Nat /\ Len(call.input) > 0 /\ Len(call.generated) \in Nat
      BY <3>1, LengthIsNat DEF CallInv
    <3>3. IsSeq(states[Local].cells)
      BY <3>1 DEF Inv, CallInv, BoundInv, GoodState
    <3>4. Cells \in Nat
      BY <3>3, LengthIsNat DEF Cells
    <3>5. call.slot = Local /\ Cells < ContextLength
      BY <3>1, <3>2, <3>4, TinyModelAssumption, SMTT(30) DEF Inv, RoomInv
    <3>6. ~AtLimit(states[call.slot])
      BY <3>4, <3>5, TinyModelAssumption DEF AtLimit, Cells
    <3>7. outcome # "context limit"
      BY <3>1 DEF CallInv
    <3> QED  BY <2>2, <3>6, <3>7 DEF BeginForward, Leave
  <2>3. ASSUME NEW finite \in BOOLEAN, Attend(finite) \/ RunExpert(finite)  PROVE outcome' # "context limit"
    <3>1. outcome # "context limit"
      BY DEF Inv, CallInv, Calling
    <3> QED  BY <2>3, <3>1 DEF Attend, RunExpert, Leave
  <2>4. ASSUME NEW scores \in [Experts -> Values], NEW finite \in BOOLEAN, Route(scores, finite)
        PROVE  outcome' # "context limit"
    <3>1. outcome # "context limit"
      BY DEF Inv, CallInv, Calling
    <3> QED  BY <2>4, <3>1 DEF Route, Leave
  <2>5. ASSUME NEW logits \in [Tokens -> Values], NEW finite \in BOOLEAN, Emit(logits, finite)
        PROVE  outcome' # "context limit"
    BY <2>5 DEF Emit, Leave
  <2>6. CASE Deliver
    BY <2>6 DEF Deliver, Leave
  <2> QED  BY <2>1, <2>2, <2>3, <2>4, <2>5, <2>6 DEF Next, Step
<1>2. Spec => [][Within]_vars
  BY <1>1, InvHolds, PTL DEF Spec
<1> QED  BY <1>2 DEF LimitIsCheckedFirst
-----------------------------------------------------------------------------
(* What generate_greedy returns.                                            *)

(* What was fed and what is still to be fed are the prompt and the tokens   *)
(* generated so far, none of which is EOS while the call goes on; the local *)
(* state has a cell for every token that was fed.                           *)
CellTokens(cells) == [i \in DOMAIN cells |-> cells[i].token]
GenInv ==
  /\ IsSeq(call.steps) /\ IsSeq(call.prompt)
  /\ Working => token = Head(call.input)
  /\ call.kind = "generate" /\ pc # "done" =>
       /\ call.steps \o call.input = call.prompt \o call.generated
       /\ \A i \in DOMAIN call.generated : call.generated[i] # EOS
       /\ call.max = 0 => call.generated = <<>>
       /\ CellTokens(states[Local].cells) = call.steps
  /\ GenerationIsWellFormed

(* Two sequences have a set that both are over.                             *)
LEMMA CommonSet ==
  ASSUME NEW s, NEW t, IsSeq(s), IsSeq(t)
  PROVE  \E S : s \in Seq(S) /\ t \in Seq(S)
<1> PICK S : s \in Seq(S)
  BY DEF IsSeq
<1> PICK T : t \in Seq(T)
  BY DEF IsSeq
<1>1. s \in Seq(S \cup T) /\ t \in Seq(S \cup T)
  OBVIOUS
<1> QED  BY <1>1

(* The empty sequence adds nothing.                                         *)
LEMMA ConcatEmpty ==
  ASSUME NEW s, IsSeq(s)  PROVE s \o <<>> = s /\ <<>> \o s = s
<1> PICK S : s \in Seq(S)
  BY DEF IsSeq
<1> QED  OBVIOUS

(* The length of a concatenation.                                           *)
LEMMA ConcatLength ==
  ASSUME NEW s, NEW t, IsSeq(s), IsSeq(t)
  PROVE  IsSeq(s \o t) /\ Len(s \o t) = Len(s) + Len(t)
<1> PICK S : s \in Seq(S) /\ t \in Seq(S)
  BY CommonSet
<1>1. s \o t \in Seq(S) /\ Len(s \o t) = Len(s) + Len(t)
  OBVIOUS
<1> QED  BY <1>1 DEF IsSeq

(* Feeding the head of the input moves it from the one to the other.        *)
LEMMA MoveHead ==
  ASSUME NEW s, NEW t, IsSeq(s), IsSeq(t), t # <<>>
  PROVE  Append(s, Head(t)) \o Tail(t) = s \o t
<1> PICK S : s \in Seq(S) /\ t \in Seq(S)
  BY CommonSet
<1> DEFINE a == Append(s, Head(t))
           u == Tail(t)
           l == a \o u
           r == s \o t
<1>1. /\ Head(t) \in S /\ u \in Seq(S) /\ Len(u) = Len(t) - 1 /\ Len(t) > 0
      /\ Len(s) \in Nat /\ Len(t) \in Nat /\ Head(t) = t[1]
      /\ \A j \in 1..(Len(t) - 1) : u[j] = t[j + 1]
  OBVIOUS
<1>2. /\ a \in Seq(S) /\ Len(a) = Len(s) + 1
      /\ \A i \in 1..Len(s) : a[i] = s[i]
      /\ a[Len(s) + 1] = t[1]
  BY <1>1
<1> HIDE DEF a, u
<1>3. l \in Seq(S) /\ r \in Seq(S) /\ Len(l) = Len(s) + Len(t) /\ Len(r) = Len(s) + Len(t)
  <2>0. \A x, y \in Seq(S) : x \o y \in Seq(S) /\ Len(x \o y) = Len(x) + Len(y)
    OBVIOUS
  <2>1. l \in Seq(S) /\ Len(l) = Len(a) + Len(u)
    BY <1>1, <1>2, <2>0, Zenon
  <2>2. r \in Seq(S) /\ Len(r) = Len(s) + Len(t)
    BY <1>1, <1>2
  <2>3. Len(a) + Len(u) = Len(s) + Len(t)
    BY <1>1, <1>2
  <2> QED  BY <2>1, <2>2, <2>3, Zenon
<1>4. ASSUME NEW i \in 1..(Len(s) + Len(t))  PROVE l[i] = r[i]
  <2>1. CASE i <= Len(s)
    BY <1>1, <1>2, <2>1
  <2>2. CASE i = Len(s) + 1
    BY <1>1, <1>2, <2>2
  <2>3. CASE i > Len(s) + 1
    <3>1. i - Len(a) \in 1..(Len(t) - 1) /\ i - Len(a) + 1 = i - Len(s)
      BY <1>1, <1>2, <2>3
    <3>2. l[i] = u[i - Len(a)]
      BY <1>1, <1>2, <2>3
    <3>3. u[i - Len(a)] = t[i - Len(s)]
      BY <1>1, <3>1, Zenon
    <3>4. r[i] = t[i - Len(s)]
      BY <1>1, <2>3
    <3> QED  BY <3>2, <3>3, <3>4, Zenon
  <2>4. i <= Len(s) \/ i = Len(s) + 1 \/ i > Len(s) + 1
    <3>1. Len(s) \in Nat /\ i \in Int
      BY <1>1, <1>4
    <3> QED  BY <3>1
  <2> QED  BY <2>1, <2>2, <2>3, <2>4, Zenon
<1> HIDE DEF l, r
<1>5. l = r
  BY <1>3, <1>4
<1> QED  BY <1>5, Zenon DEF a, l, r, u

(* Appending to the second appends to both.                                 *)
AppendsToBoth(s, t, e) == (s \o t) \o <<e>> = s \o Append(t, e)

(* It holds of all sequences.                                                *)
LEMMA AppendConcat ==
  ASSUME NEW s, NEW t, NEW e, IsSeq(s), IsSeq(t)
  PROVE  AppendsToBoth(s, t, e)
<1> PICK S : s \in Seq(S) /\ t \in Seq(S)
  BY CommonSet
<1> DEFINE T == S \cup {e}
           l == (s \o t) \o <<e>>
           r == s \o Append(t, e)
<1>1. s \in Seq(T) /\ t \in Seq(T) /\ e \in T
  OBVIOUS
<1> HIDE DEF T
<1>2. /\ s \o t \in Seq(T) /\ Len(s \o t) = Len(s) + Len(t) /\ <<e>> \in Seq(T) /\ Len(<<e>>) = 1 /\ <<e>>[1] = e
      /\ Append(t, e) \in Seq(T) /\ Len(Append(t, e)) = Len(t) + 1 /\ Len(s) \in Nat /\ Len(t) \in Nat
  BY <1>1
<1>3. l \in Seq(T) /\ r \in Seq(T) /\ Len(l) = Len(s) + Len(t) + 1 /\ Len(r) = Len(s) + Len(t) + 1
  BY <1>1, <1>2
<1>4. ASSUME NEW i \in 1..(Len(s) + Len(t) + 1)  PROVE l[i] = r[i]
  <2>1. CASE i <= Len(s)
    BY <1>1, <1>2, <2>1
  <2>2. CASE i > Len(s) /\ i <= Len(s) + Len(t)
    BY <1>1, <1>2, <2>2
  <2>3. CASE i = Len(s) + Len(t) + 1
    BY <1>1, <1>2, <2>3
  <2> QED  BY <1>2, <2>1, <2>2, <2>3
<1> HIDE DEF l, r
<1>5. l = r
  BY <1>3, <1>4
<1> QED  BY <1>5, Zenon DEF l, r, AppendsToBoth

(* Without its last element, a sequence is what it was before that.         *)
LEMMA FrontOfAppend ==
  ASSUME NEW s, NEW e, IsSeq(s)
  PROVE  SubSeq(Append(s, e), 1, Len(Append(s, e)) - 1) = s
<1> PICK S : s \in Seq(S)
  BY DEF IsSeq
<1> DEFINE T == S \cup {e}
           a == Append(s, e)
           f == SubSeq(a, 1, Len(a) - 1)
<1>1. s \in Seq(T) /\ e \in T
  OBVIOUS
<1> HIDE DEF T
<1>2. /\ a \in Seq(T) /\ Len(a) = Len(s) + 1 /\ Len(s) \in Nat
      /\ \A i \in 1..Len(s) : a[i] = s[i]
  BY <1>1
<1> HIDE DEF a
<1>3. f \in Seq(T) /\ Len(f) = Len(s)
  BY <1>2
<1>4. \A i \in 1..Len(s) : f[i] = s[i]
  BY <1>2
<1> HIDE DEF f
<1>5. f = s
  BY <1>1, <1>3, <1>4
<1> QED  BY <1>5 DEF f, a

(* The tokens of the cells grow with the cells.                             *)
LEMMA TokensGrow ==
  ASSUME NEW cells, NEW b, NEW t, IsSeq(cells), NEW s, IsSeq(s), CellTokens(cells) = s
  PROVE  CellTokens(Append(cells, [by |-> b, token |-> t])) = Append(s, t)
<1> DEFINE cell == [by |-> b, token |-> t]
           grown == Append(cells, cell)
<1>1. cell.token = t
  OBVIOUS
<1> HIDE DEF cell
<1>2. /\ Len(cells) \in Nat /\ Len(s) \in Nat
      /\ DOMAIN cells = 1..Len(cells) /\ DOMAIN grown = 1..(Len(cells) + 1)
      /\ \A i \in DOMAIN cells : grown[i] = cells[i]
      /\ grown[Len(cells) + 1] = cell
  BY AppendGrows, LengthIsNat
<1>3. /\ DOMAIN s = 1..Len(s) /\ DOMAIN Append(s, t) = 1..(Len(s) + 1)
      /\ \A i \in DOMAIN s : Append(s, t)[i] = s[i]
      /\ Append(s, t)[Len(s) + 1] = t
  BY AppendGrows
<1>4. DOMAIN s = DOMAIN cells /\ \A i \in DOMAIN cells : s[i] = cells[i].token
  BY DEF CellTokens
<1>5. Len(s) = Len(cells)
  <2>1. ASSUME NEW m \in Nat, NEW n \in Nat, 1..m = 1..n  PROVE m = n
    <3>1. \A j \in Int : (1 <= j /\ j <= m) <=> (1 <= j /\ j <= n)
      BY <2>1
    <3> QED  BY <3>1
  <2>2. 1..Len(s) = 1..Len(cells)
    BY <1>2, <1>3, <1>4, Zenon
  <2> QED  BY <1>2, <2>1, <2>2, Zenon
<1> HIDE DEF grown
<1>6. CellTokens(grown) = [i \in 1..(Len(s) + 1) |-> grown[i].token]
  BY <1>2, <1>5 DEF CellTokens
<1>7. ASSUME NEW i \in 1..(Len(s) + 1)  PROVE grown[i].token = Append(s, t)[i]
  <2>1. CASE i = Len(s) + 1
    BY <1>1, <1>2, <1>3, <1>5, <2>1
  <2>2. CASE i # Len(s) + 1
    <3>1. i \in DOMAIN s
      BY <1>2, <1>3, <2>2
    <3> QED  BY <1>2, <1>3, <1>4, <3>1
  <2> QED  BY <2>1, <2>2
<1>8. Append(s, t) = [i \in 1..(Len(s) + 1) |-> Append(s, t)[i]]
  <2> PICK S : s \in Seq(S)
    BY DEF IsSeq
  <2> DEFINE T == S \cup {t}
  <2>1. s \in Seq(T) /\ t \in T
    OBVIOUS
  <2> HIDE DEF T
  <2>2. Append(s, t) \in Seq(T) /\ Len(Append(s, t)) = Len(s) + 1
    BY <2>1
  <2> DEFINE a == Append(s, t)
  <2> HIDE DEF a
  <2>3. a \in Seq(T) /\ Len(a) = Len(s) + 1
    BY <2>2 DEF a
  <2>4. a = [i \in 1..(Len(s) + 1) |-> a[i]]
    BY <2>3
  <2> QED  BY <2>4 DEF a
<1> QED  BY <1>6, <1>7, <1>8, Zenon DEF grown, cell

(* The fields of the call that say what was fed.                            *)
LEMMA AfterSteps ==
  ASSUME DOMAIN call = DOMAIN Idle, NEW logits
  PROVE  /\ After(call, logits).steps = Append(call.steps, token)
         /\ After(call, logits).prompt = call.prompt
<1> DEFINE next == GreedyToken(logits)
           stepped == [call EXCEPT !.input = Tail(@), !.steps = Append(@, token), !.logits = logits]
           again == [stepped EXCEPT !.generated = Append(@, next), !.input = <<next>>]
<1>1. stepped.steps = Append(call.steps, token) /\ stepped.prompt = call.prompt /\ DOMAIN stepped = DOMAIN Idle
  BY DEF Idle
<1>2. again.steps = stepped.steps /\ again.prompt = stepped.prompt
  BY <1>1 DEF Idle
<1>3. After(call, logits) = IF Generates(call) THEN again ELSE stepped
  BY DEF After
<1> HIDE DEF stepped, again
<1> QED  BY <1>1, <1>2, <1>3

(* A call that ends, or none, has nothing to say.                           *)
LEMMA LeaveGen == ASSUME NEW why, Leave(why)  PROVE GenInv'
<1>1. /\ call'.steps = <<>> /\ call'.prompt = <<>> /\ call'.kind = "none" /\ pc' = "idle"
  BY DEF Leave, Idle
<1> QED  BY <1>1, EmptyIsSeq DEF GenInv, GenerationIsWellFormed, Working

(* A call starts with its prompt still to be fed.                           *)
LEMMA StartGen ==
  ASSUME DOMAIN states = Slots \cup {Local}, NEW c, Start(c), c.steps = <<>>, IsSeq(c.prompt),
         c.generated = <<>>, c.kind = "generate" => c.input = c.prompt
  PROVE  GenInv'
<1>1. call' = c /\ pc' = "begin" /\ states'[Local] = Fresh
  BY DEF Start
<1>2. CellTokens(Fresh.cells) = <<>>
  BY DEF CellTokens, Fresh
<1>3. <<>> \o c.prompt = c.prompt /\ c.prompt \o <<>> = c.prompt
  BY ConcatEmpty
<1>4. \A i \in DOMAIN <<>> : <<>>[i] # EOS
  OBVIOUS
<1> QED  BY <1>1, <1>2, <1>3, <1>4, EmptyIsSeq, Zenon DEF GenInv, GenerationIsWellFormed, Working

(* Every call of the caller keeps the generation invariant.                  *)
LEMMA CallerGen == ASSUME Inv, GenInv, Caller  PROVE GenInv'
<1>1. CASE UNCHANGED <<call, pc, token>> /\ ~Calling
  BY <1>1 DEF GenInv, GenerationIsWellFormed, Working, Calling, Inv, CallInv
<1>2. DOMAIN states = Slots \cup {Local}
  BY DEF Inv, CallInv
<1>3. ASSUME NEW s \in Slots, NEW t \in Slots, NewState(s) \/ CloneState(s, t)  PROVE GenInv'
  BY <1>1, <1>3 DEF NewState, CloneState, Calling
<1>4. ASSUME NEW m \in Instances, NEW s \in Slots, NEW t \in 0..VocabSize, CallForward(m, s, t)  PROVE GenInv'
  <2> DEFINE c == [Idle EXCEPT !.kind = "forward", !.model = m, !.slot = s, !.input = <<t>>]
  <2>1. Start(c)
    BY <1>4 DEF CallForward
  <2>2. c.steps = <<>> /\ c.prompt = <<>> /\ c.generated = <<>> /\ c.kind = "forward"
    BY DEF Idle
  <2> HIDE DEF c
  <2> QED  BY <1>2, <2>1, <2>2, StartGen, EmptyIsSeq
<1>5. ASSUME NEW m \in Instances, NEW tokens \in Prompts, CallRun(m, tokens)  PROVE GenInv'
  <2> DEFINE c == [Idle EXCEPT !.kind = "run", !.model = m, !.input = tokens, !.prompt = tokens]
  <2>1. Start(c) \/ \E why : Refuse(why) /\ ~Calling
    BY <1>5 DEF CallRun, Calling
  <2>2. c.steps = <<>> /\ c.prompt = tokens /\ c.generated = <<>> /\ c.kind = "run"
    BY DEF Idle
  <2>3. IsSeq(tokens)
    BY TinyModelAssumption DEF IsSeq
  <2> HIDE DEF c
  <2>4. CASE Start(c)
    BY <1>2, <2>2, <2>3, <2>4, StartGen
  <2> QED  BY <1>1, <2>1, <2>4 DEF Refuse
<1>6. ASSUME NEW m \in Instances, NEW prompt \in Prompts, NEW max \in 0..MaxNew, CallGenerate(m, prompt, max)
      PROVE  GenInv'
  <2> DEFINE c == [Idle EXCEPT !.kind = "generate", !.model = m, !.input = prompt, !.prompt = prompt, !.max = max]
  <2>1. Start(c) \/ \E why : Refuse(why) /\ ~Calling
    BY <1>6 DEF CallGenerate, Calling
  <2>2. c.steps = <<>> /\ c.prompt = prompt /\ c.input = prompt /\ c.generated = <<>>
    BY DEF Idle
  <2>3. IsSeq(prompt)
    BY TinyModelAssumption DEF IsSeq
  <2> HIDE DEF c
  <2>4. CASE Start(c)
    BY <1>2, <2>2, <2>3, <2>4, StartGen
  <2> QED  BY <1>1, <2>1, <2>4 DEF Refuse
<1> QED  BY <1>3, <1>4, <1>5, <1>6, SMTT(30) DEF Caller

(* The steps of forward_token before its last.                              *)
LEMMA WorkGen ==
  ASSUME Inv, GenInv, NEW finite \in BOOLEAN, NEW scores,
         BeginForward(finite) \/ Attend(finite) \/ RunExpert(finite) \/ Route(scores, finite)
  PROVE  GenInv'
<1>1. CASE \E why : Leave(why)
  BY <1>1, LeaveGen
<1>2. CASE BeginForward(finite) /\ ~\E why : Leave(why)
  <2>1. /\ pc = "begin" /\ pc' = "attention" /\ token' = Head(call.input) /\ UNCHANGED states
        /\ call' = [call EXCEPT !.logits = <<>>]
    BY <1>2 DEF BeginForward
  <2>2. DOMAIN call = DOMAIN Idle
    BY DEF Inv, CallInv
  <2>3. /\ call'.input = call.input /\ call'.steps = call.steps /\ call'.prompt = call.prompt
        /\ call'.generated = call.generated /\ call'.kind = call.kind /\ call'.max = call.max
    BY <2>1, <2>2 DEF Idle
  <2> QED  BY <2>1, <2>3, Zenon DEF GenInv, GenerationIsWellFormed
<1>3. CASE (Attend(finite) \/ RunExpert(finite) \/ Route(scores, finite)) /\ ~\E why : Leave(why)
  <2>1. Working /\ Working' /\ UNCHANGED <<states, call, token>>
    BY <1>3, Zenon DEF Attend, RunExpert, Route, Working
  <2> QED  BY <2>1, Zenon DEF GenInv, GenerationIsWellFormed, Working
<1> QED  BY <1>1, <1>2, <1>3

(* The last step feeds one token, and of generate_greedy one more is        *)
(* generated when the prompt is behind.                                     *)
LEMMA EmitGen ==
  ASSUME Inv, GenInv, NEW logits, NEW finite \in BOOLEAN, Emit(logits, finite)
  PROVE  GenInv'
<1>1. CASE ~finite
  BY <1>1, LeaveGen DEF Emit
<1>2. CASE finite
  <2> DEFINE next == GreedyToken(logits)
             g == call.generated
  <2>1. /\ pc = "experts" /\ call' = After(call, logits) /\ states' = [states EXCEPT ![call.slot] = pending]
        /\ (Ends(call, logits) => pc' = "done") /\ (~Ends(call, logits) => pc' = "begin")
    BY <1>2 DEF Emit
  <2>2. /\ DOMAIN call = DOMAIN Idle /\ Working /\ call.input # <<>> /\ token = Head(call.input)
        /\ IsSeq(call.input) /\ IsSeq(g) /\ IsSeq(call.steps) /\ IsSeq(call.prompt)
    BY <2>1, Zenon DEF Inv, CallInv, GenInv, Working
  <2>3. /\ call'.steps = Append(call.steps, Head(call.input)) /\ call'.prompt = call.prompt
        /\ call'.kind = call.kind /\ call'.max = call.max
    BY <2>1, <2>2, AfterCall, AfterSteps
  <2>4. IsSeq(call'.steps) /\ IsSeq(call'.prompt) /\ ~Working'
    BY <2>1, <2>2, <2>3, AppendGrows DEF Working
  <2>5. CASE call.kind # "generate"
    BY <2>3, <2>4, <2>5, Zenon DEF GenInv, GenerationIsWellFormed
  <2>6. CASE call.kind = "generate"
    <3>1. /\ call.steps \o call.input = call.prompt \o g
          /\ \A i \in DOMAIN g : g[i] # EOS
          /\ call.max = 0 => g = <<>>
          /\ CellTokens(states[Local].cells) = call.steps
      BY <2>1, <2>6, Zenon DEF GenInv
    <3>2. /\ call.slot = Local /\ call.max \in Nat
          /\ call.max # 0 => Len(g) < call.max
      BY <2>1, <2>6 DEF Inv, RoomInv
    <3>3. CellTokens(states'[Local].cells) = call'.steps
      <4>1. IsSeq(states[Local].cells) /\ states'[Local] = pending
        BY <2>1, <3>2 DEF Inv, CallInv, BoundInv, GoodState
      <4>2. pending.cells = Append(states[Local].cells, [by |-> call.model, token |-> Head(call.input)])
        BY <2>2, <3>2 DEF Inv, BoundInv
      <4> QED  BY <2>2, <2>3, <3>1, <4>1, <4>2, TokensGrow, SMTT(30)
    <3>4. call'.steps \o Tail(call.input) = call.prompt \o g
      BY <2>2, <2>3, <3>1, MoveHead, ZenonT(60)
    <3>5. CASE ~Generates(call)
      <4>1. call'.input = Tail(call.input) /\ call'.generated = g /\ (Ends(call, logits) <=> Tail(call.input) = <<>>)
        BY <2>1, <2>2, <3>5, AfterCall, SMTT(30) DEF Ends
      <4>2. CASE Ends(call, logits)
        <5>1. call.max = 0 /\ g = <<>> /\ Tail(call.input) = <<>>
          BY <2>6, <3>1, <3>5, <4>1, <4>2 DEF Generates
        <5>2. call'.steps = call.prompt
          BY <2>2, <2>4, <3>4, <5>1, ConcatEmpty, ZenonT(60)
        <5>3. call'.generated = <<>> /\ Len(<<>>) = 0 /\ DOMAIN <<>> = {}
          BY <4>1, <5>1
        <5>4. Len(call'.steps) <= Required(call.prompt, call.max)
          BY <2>2, <5>1, <5>2, LengthIsNat DEF Required
        <5>5. GenerationIsWellFormed'
          <6>1. Len(call'.generated) <= call'.max /\ ~(Len(call'.generated) < call'.max)
            BY <2>3, <5>1, <5>3
          <6>2. \A i \in DOMAIN call'.generated : call'.generated[i] = EOS => i = Len(call'.generated)
            BY <5>3
          <6> QED  BY <2>3, <3>3, <5>2, <5>3, <5>4, <6>1, <6>2, Zenon DEF GenerationIsWellFormed, CellTokens
        <5> QED  BY <2>1, <2>4, <4>2, <5>5 DEF GenInv
      <4>3. CASE ~Ends(call, logits)
        BY <2>1, <2>3, <2>4, <3>1, <3>3, <3>4, <4>1, <4>3, ZenonT(60) DEF GenInv, GenerationIsWellFormed
      <4> QED  BY <4>2, <4>3, SMTT(30)
    <3>6. CASE Generates(call)
      <4>1. /\ Tail(call.input) = <<>> /\ call.max # 0
            /\ call'.input = <<next>> /\ call'.generated = Append(g, next)
            /\ Ends(call, logits) <=> next = EOS \/ Len(g) + 1 = call.max
        BY <2>1, <2>2, <3>6, AfterCall DEF Ends, Generates
      <4>2. call'.steps = call.prompt \o g
        BY <2>4, <3>4, <4>1, ConcatEmpty, Zenon
      <4>3. /\ Len(g) \in Nat /\ Len(Append(g, next)) = Len(g) + 1
            /\ DOMAIN g = 1..Len(g) /\ DOMAIN Append(g, next) = 1..(Len(g) + 1)
            /\ \A i \in DOMAIN g : Append(g, next)[i] = g[i]
            /\ Append(g, next)[Len(g) + 1] = next
        BY <2>2, AppendGrows, LengthIsNat, SMTT(30)
      <4>4. \A i \in DOMAIN Append(g, next) : i # Len(g) + 1 => Append(g, next)[i] # EOS
        BY <3>1, <4>3
      <4>5. Append(g, next) # <<>>
        BY <4>3, EmptyIsSeq, SMTT(30)
      <4> HIDE DEF next, g
      <4>6. CASE Ends(call, logits)
        <5>1. Len(call'.generated) <= call.max /\ (Len(call'.generated) < call.max => next = EOS)
          BY <3>2, <4>1, <4>3, <4>6
        <5>2. SubSeq(call'.generated, 1, Len(call'.generated) - 1) = g
          BY <2>2, <4>1, FrontOfAppend
        <5>3. Len(call'.steps) <= Required(call.prompt, call.max)
          <6>1. Len(call'.steps) = Len(call.prompt) + Len(g) /\ Len(call.prompt) \in Nat
            BY <2>2, <4>2, ConcatLength, LengthIsNat
          <6> QED  BY <3>2, <4>1, <4>3, <6>1 DEF Required
        <5>4. \A i \in DOMAIN call'.generated : call'.generated[i] = EOS => i = Len(call'.generated)
          BY <4>1, <4>3, <4>4
        <5>5. Len(call'.generated) < call.max => call'.generated # <<>> /\ call'.generated[Len(call'.generated)] = EOS
          BY <4>1, <4>3, <4>5, <5>1, SMTT(30)
        <5>6. call'.steps = IF call'.generated = <<>> THEN call'.prompt
                            ELSE call'.prompt \o SubSeq(call'.generated, 1, Len(call'.generated) - 1)
          BY <2>3, <4>1, <4>2, <4>5, <5>2, Zenon
        <5>7. GenerationIsWellFormed'
          BY <2>3, <3>3, <5>1, <5>3, <5>4, <5>5, <5>6, ZenonT(60) DEF GenerationIsWellFormed, CellTokens
        <5> QED  BY <2>1, <2>4, <4>6, <5>7 DEF GenInv
      <4>7. CASE ~Ends(call, logits)
        <5>1. call'.steps \o call'.input = call'.prompt \o call'.generated
          <6>1. (call.prompt \o g) \o <<next>> = call.prompt \o Append(g, next)
            <7>1. IsSeq(call.prompt) /\ IsSeq(g)
              BY <2>2, Zenon DEF g
            <7>2. AppendsToBoth(call.prompt, g, next)
              BY <7>1, AppendConcat, Zenon
            <7> QED  BY <7>2, Zenon DEF AppendsToBoth
          <6> QED  BY <2>3, <4>1, <4>2, <6>1, Zenon
        <5>2. \A i \in DOMAIN call'.generated : call'.generated[i] # EOS
          BY <4>1, <4>3, <4>4, <4>7
        <5> QED  BY <2>1, <2>3, <2>4, <3>3, <4>1, <4>7, <5>1, <5>2, Zenon DEF GenInv, GenerationIsWellFormed
      <4> QED  BY <4>6, <4>7
    <3> QED  BY <3>5, <3>6
  <2> QED  BY <2>5, <2>6
<1> QED  BY <1>1, <1>2

(* Every step keeps the generation invariant.                                *)
LEMMA GenStep == Inv /\ GenInv /\ [Next]_vars => GenInv'
<1> SUFFICES ASSUME Inv, GenInv, [Next]_vars  PROVE GenInv'
  OBVIOUS
<1>1. CASE Caller
  BY <1>1, CallerGen
<1>2. ASSUME NEW finite \in BOOLEAN, BeginForward(finite) \/ Attend(finite) \/ RunExpert(finite)  PROVE GenInv'
  BY <1>2, WorkGen
<1>3. ASSUME NEW scores \in [Experts -> Values], NEW finite \in BOOLEAN, Route(scores, finite)  PROVE GenInv'
  BY <1>3, WorkGen
<1>4. ASSUME NEW logits \in [Tokens -> Values], NEW finite \in BOOLEAN, Emit(logits, finite)  PROVE GenInv'
  BY <1>4, EmitGen
<1>5. CASE Deliver
  BY <1>5, LeaveGen DEF Deliver
<1>6. CASE UNCHANGED vars
  BY <1>6, Zenon DEF vars, GenInv, GenerationIsWellFormed, Working
<1> QED  BY <1>1, <1>2, <1>3, <1>4, <1>5, <1>6 DEF Next, Step

(* generate_greedy returns at most max_new_tokens, stops at the first EOS   *)
(* and at nothing else, and has fed the prompt and every new token but the  *)
(* last, whatever the model computes.                                       *)
THEOREM GenerationCorrect == Spec => []GenerationIsWellFormed
<1>1. Init => GenInv
  BY EmptyIsSeq DEF Init, Idle, GenInv, GenerationIsWellFormed, Working
<1>2. GenInv => GenerationIsWellFormed
  BY DEF GenInv
<1> QED  BY <1>1, <1>2, GenStep, InvHolds, PTL DEF Spec

-----------------------------------------------------------------------------
(* TinyLfu.                                                                 *)
CONSTANTS Pages, Rows, Columns, Hashes, Samples
VARIABLES column, sample, counters, door, observed, seen

Sketch == INSTANCE TinyLfu

(* A sketch that the policy agrees to build: sketch_depth is at least one.  *)
SketchValid == Rows # {} /\ Hashes \subseteq [Pages -> [Rows -> Columns]]

SketchNext == \E p \in Pages : Sketch!Observe(p)

-----------------------------------------------------------------------------
SketchTable == [Rows -> [Columns -> 0 .. Sketch!CounterMax]]
SketchTyped ==
  /\ column \in [Pages -> [Rows -> Columns]]
  /\ counters \in SketchTable
  /\ seen \in [Pages -> 0 .. Sketch!CounterMax + 1]

(* What a table t and a set d of doorkeeper bits remember of a page is no   *)
(* less than n, in every row.                                               *)
InDoor(p, d) == \A r \in Rows : column[p][r] \in d
Covered(p, t, d, n) ==
  \A r \in Rows : t[r][column[p][r]] + (IF InDoor(p, d) THEN 1 ELSE 0) >= n

SketchInv == SketchTyped /\ \A p \in Pages : Covered(p, counters, door, seen[p])

-----------------------------------------------------------------------------
(* A set of natural numbers has a least one.                                *)
LEMMA Least ==
  ASSUME NEW T \in SUBSET Nat, T # {}
  PROVE  \E m \in T : \A n \in T : m <= n
<1>1. \E m \in T : \A n \in T : <<n, m>> \notin OpToRel(<, Nat)
  BY WFMin, NatLessThanWellFounded, Zenon
<1>2. \A m, n \in Nat : n < m => <<n, m>> \in OpToRel(<, Nat)
  BY DEF OpToRel
<1>3. \A m, n \in Nat : n < m \/ m <= n
  OBVIOUS
<1> QED  BY <1>1, <1>2, <1>3

(* The minimum that estimate takes over the rows is the least counter of a  *)
(* page.                                                                    *)
LEMMA MinimumIsLeast ==
  ASSUME SketchTyped, SketchValid, NEW p \in Pages
  PROVE  Sketch!Minimum(p) \in 0 .. Sketch!CounterMax /\ Sketch!IsMinimum(p, Sketch!Minimum(p))
<1> DEFINE T == {counters[r][column[p][r]] : r \in Rows}
<1>1. T \in SUBSET (0 .. Sketch!CounterMax) /\ T # {}
  BY DEF SketchTyped, SketchTable, SketchValid
<1>2. 0 .. Sketch!CounterMax \subseteq Nat
  BY DEF Sketch!CounterMax
<1>3. PICK m \in T : \A n \in T : m <= n
  <2> HIDE DEF T
  <2> QED  BY <1>1, <1>2, Least
<1>4. m \in 0 .. Sketch!CounterMax /\ Sketch!IsMinimum(p, m)
  BY <1>1, <1>3 DEF Sketch!IsMinimum
<1> QED  BY <1>4 DEF Sketch!Minimum

(* One observation before any aging: what is known of every page is still   *)
(* covered.                                                                 *)
LEMMA CountedCovers ==
  ASSUME SketchInv, SketchValid, NEW p \in Pages, NEW q \in Pages
  PROVE  Covered(q, Sketch!Counted(p), Sketch!Admitted(p), IF q = p THEN Sketch!Grown(seen[q]) ELSE seen[q])
<1> DEFINE known == IF q = p THEN Sketch!Grown(seen[q]) ELSE seen[q]
<1>1. /\ column \in [Pages -> [Rows -> Columns]] /\ counters \in SketchTable /\ seen[q] \in 0 .. 16
      /\ Covered(q, counters, door, seen[q])
  BY DEF SketchInv, SketchTyped, Sketch!CounterMax
<1> SUFFICES ASSUME NEW r \in Rows
             PROVE  Sketch!Counted(p)[r][column[q][r]]
                      + (IF InDoor(q, Sketch!Admitted(p)) THEN 1 ELSE 0) >= known
  BY DEF Covered
<1> DEFINE c == column[q][r]
           old == counters[r][c]
           new == Sketch!Counted(p)[r][c]
<1>2. c \in Columns /\ old \in 0 .. 15
  BY <1>1 DEF SketchTable, Sketch!CounterMax
<1>3. old + (IF InDoor(q, door) THEN 1 ELSE 0) >= seen[q]
  BY <1>1 DEF Covered
<1>4. InDoor(q, door) => InDoor(q, Sketch!Admitted(p))
  BY DEF InDoor, Sketch!Admitted
<1>5. Sketch!DoorContains(p) <=> InDoor(p, door)
  BY DEF Sketch!DoorContains, InDoor
<1>6. ~Sketch!DoorContains(p) => InDoor(p, Sketch!Admitted(p)) /\ new = old
  BY SMTT(30) DEF InDoor, Sketch!Admitted, Sketch!Counted
<1>7. Sketch!DoorContains(p) => new = IF c = column[p][r] /\ old = Sketch!Minimum(p) /\ old < 15
                               THEN old + 1 ELSE old
  BY <1>2, SMTT(30) DEF Sketch!Counted, Sketch!Bumped, Sketch!CounterMax
<1> SUFFICES new + (IF InDoor(q, Sketch!Admitted(p)) THEN 1 ELSE 0) >= known
  OBVIOUS
<1> HIDE DEF c, old, new
<1>8. new \in Nat /\ old <= new
  BY <1>2, <1>6, <1>7
<1>9. CASE q # p
  BY <1>1, <1>2, <1>3, <1>4, <1>8, <1>9
<1>10. CASE q = p /\ ~Sketch!DoorContains(p)
  BY <1>1, <1>2, <1>3, <1>5, <1>6, <1>10 DEF Sketch!Grown, Sketch!CounterMax
<1>11. CASE q = p /\ Sketch!DoorContains(p)
  <2>1. Sketch!Minimum(p) \in 0 .. 15 /\ Sketch!IsMinimum(p, Sketch!Minimum(p))
    BY MinimumIsLeast DEF SketchInv, Sketch!CounterMax
  <2>2. Sketch!Minimum(p) <= old
    BY <1>11, <2>1 DEF Sketch!IsMinimum, old, c
  <2>3. Sketch!Minimum(p) + 1 >= seen[q]
    <3>1. PICK s \in Rows : counters[s][column[p][s]] = Sketch!Minimum(p)
      BY <2>1 DEF Sketch!IsMinimum
    <3> QED  BY <1>1, <1>5, <1>11, <3>1 DEF Covered
  <2>4. new + 1 >= Sketch!Grown(seen[q])
    <3>1. CASE old = Sketch!Minimum(p)
      BY <1>1, <1>2, <1>7, <1>11, <2>1, <2>3, <3>1 DEF Sketch!Grown, Sketch!CounterMax, c
    <3>2. CASE old # Sketch!Minimum(p)
      BY <1>1, <1>2, <1>7, <1>11, <2>1, <2>2, <2>3, <3>2 DEF Sketch!Grown, Sketch!CounterMax
    <3> QED  BY <3>1, <3>2
  <2> QED  BY <1>4, <1>5, <1>8, <1>11, <2>4
<1> QED  BY <1>9, <1>10, <1>11

(* A table keeps its type when a page is counted and when it ages.          *)
LEMMA TableTypes ==
  ASSUME SketchTyped, NEW p \in Pages
  PROVE  /\ Sketch!Counted(p) \in SketchTable
         /\ \A t \in SketchTable : Sketch!Halved(t) \in SketchTable
<1>1. \A n \in 0 .. 15 : n \div 2 \in 0 .. 15
  OBVIOUS
<1>2. \A t \in SketchTable, r \in Rows, c \in Columns : t[r][c] \in 0 .. 15
  BY DEF SketchTable, Sketch!CounterMax
<1>3. Sketch!Bumped(p) \in SketchTable
  <2>1. \A r \in Rows, c \in Columns : counters[r][c] \in 0 .. 15
    BY <1>2 DEF SketchTyped
  <2> QED  BY <2>1 DEF Sketch!Bumped, SketchTable, Sketch!CounterMax
<1>4. \A t \in SketchTable : Sketch!Halved(t) \in SketchTable
  BY <1>1, <1>2 DEF Sketch!Halved, SketchTable, Sketch!CounterMax
<1> QED  BY <1>3, <1>4 DEF Sketch!Counted, SketchTyped

(* observe, aging included: halving the counters forgets no more than half  *)
(* of what they and the doorkeeper remember.                                *)
LEMMA ObserveInv ==
  ASSUME SketchInv, SketchValid, NEW p \in Pages, Sketch!Observe(p)
  PROVE  SketchInv'
<1> DEFINE known == [seen EXCEPT ![p] = Sketch!Grown(@)]
<1>1. column' = column /\ seen \in [Pages -> 0 .. 16]
  BY DEF Sketch!Observe, SketchInv, SketchTyped, Sketch!CounterMax
<1>2. /\ known \in [Pages -> 0 .. 16]
      /\ \A q \in Pages : known[q] = IF q = p THEN Sketch!Grown(seen[q]) ELSE seen[q]
  BY <1>1 DEF Sketch!Grown, Sketch!CounterMax
<1>3. \A q \in Pages : Covered(q, Sketch!Counted(p), Sketch!Admitted(p), known[q])
  BY <1>2, CountedCovers
<1>4. Sketch!Counted(p) \in SketchTable /\ Sketch!Halved(Sketch!Counted(p)) \in SketchTable
  BY TableTypes, SMTT(30) DEF SketchInv
<1>5. CASE ~Sketch!Due(observed + 1)
  <2>1. counters' = Sketch!Counted(p) /\ door' = Sketch!Admitted(p) /\ seen' = known
    BY <1>5 DEF Sketch!Observe
  <2> HIDE DEF known
  <2>2. SketchTyped'
    BY <1>1, <1>2, <1>4, <2>1, SMTT(30) DEF SketchInv, SketchTyped, Sketch!CounterMax
  <2> QED  BY <1>1, <1>3, <2>1, <2>2 DEF SketchInv, Covered, InDoor
<1>6. CASE Sketch!Due(observed + 1)
  <2>1. /\ counters' = Sketch!Halved(Sketch!Counted(p)) /\ door' = {}
        /\ seen' = [q \in Pages |-> Sketch!Aged(known[q])]
    BY <1>6 DEF Sketch!Observe
  <2> HIDE DEF known
  <2>2. \A n \in 0 .. 16 : Sketch!Aged(n) \in 0 .. 16
    BY DEF Sketch!Aged
  <2>3. SketchTyped'
    <3>1. seen' \in [Pages -> 0 .. 16]
      BY <1>2, <2>1, <2>2
    <3> QED  BY <1>1, <1>4, <2>1, <3>1 DEF SketchInv, SketchTyped, Sketch!CounterMax
  <2>4. ASSUME NEW q \in Pages, NEW r \in Rows
        PROVE  /\ counters'[r][column'[q][r]] >= seen'[q]
               /\ counters'[r][column'[q][r]] \in Nat /\ seen'[q] \in Nat
    <3> DEFINE c == column[q][r]
               old == Sketch!Counted(p)[r][c]
    <3>1. c \in Columns /\ old \in 0 .. 15 /\ known[q] \in 0 .. 16
      BY <1>2, <1>4 DEF SketchInv, SketchTyped, SketchTable, Sketch!CounterMax
    <3>2. old + 1 >= known[q]
      BY <1>3, <3>1, SMTT(30) DEF Covered
    <3>3. counters'[r][column'[q][r]] = old \div 2 /\ seen'[q] = Sketch!Aged(known[q])
      BY <1>1, <2>1, <3>1 DEF Sketch!Halved
    <3> HIDE DEF old
    <3>4. old \div 2 \in Nat /\ Sketch!Aged(known[q]) \in Nat /\ old \div 2 >= Sketch!Aged(known[q])
      BY <3>1, <3>2 DEF Sketch!Aged
    <3> QED  BY <3>3, <3>4
  <2>5. \A q \in Pages : Covered(q, counters, door, seen[q])'
    BY <2>4 DEF Covered
  <2> QED  BY <2>3, <2>5 DEF SketchInv
<1> QED  BY <1>5, <1>6

(* The estimate of a page is never below the number of times it was         *)
(* observed, as far as the sketch has to remember it: through collisions of *)
(* the hash, saturation of the counters and aging, for every size of the    *)
(* sketch and every sample.                                                 *)
THEOREM SketchCorrect ==
  ASSUME SketchValid
  PROVE  Sketch!Init /\ [][SketchNext]_(Sketch!vars) => []Sketch!NeverUnderestimates
<1>1. Sketch!Init => SketchInv
  BY DEF Sketch!Init, SketchInv, SketchTyped, SketchTable, Covered, SketchValid, Sketch!CounterMax
<1>2. SketchInv /\ [SketchNext]_(Sketch!vars) => SketchInv'
  <2> SUFFICES ASSUME SketchInv, [SketchNext]_(Sketch!vars)  PROVE  SketchInv'
    OBVIOUS
  <2>1. CASE UNCHANGED Sketch!vars
    BY <2>1 DEF Sketch!vars, SketchInv, SketchTyped, Covered, InDoor
  <2>2. CASE SketchNext
    BY <2>2, ObserveInv DEF SketchNext
  <2> QED  BY <2>1, <2>2
<1>3. SketchInv => Sketch!NeverUnderestimates
  <2> SUFFICES ASSUME SketchInv, NEW p \in Pages  PROVE  Sketch!Estimate(p) >= seen[p]
    BY DEF Sketch!NeverUnderestimates
  <2>1. Sketch!Minimum(p) \in 0 .. 15 /\ Sketch!IsMinimum(p, Sketch!Minimum(p))
    BY MinimumIsLeast DEF SketchInv, Sketch!CounterMax
  <2>2. PICK r \in Rows : counters[r][column[p][r]] = Sketch!Minimum(p)
    BY <2>1 DEF Sketch!IsMinimum
  <2>3. Sketch!Minimum(p) + (IF InDoor(p, door) THEN 1 ELSE 0) >= seen[p]
    BY <2>2 DEF SketchInv, Covered
  <2> QED  BY <2>3 DEF Sketch!Estimate, Sketch!DoorContains, InDoor
<1> QED  BY <1>1, <1>2, <1>3, PTL
=============================================================================
