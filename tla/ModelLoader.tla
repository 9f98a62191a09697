----------------------------- MODULE ModelLoader ----------------------------
(* How runnel-runtime turns an authenticated manifest and its tensors into  *)
(* a TinyModel (model.rs), and the choice of the expert backend             *)
(* (runnel-kernels/src/dispatch.rs).  A tensor's values are its length in   *)
(* bytes and whether all of them are finite.                                *)
EXTENDS Naturals, Sequences, SequencesExt, FiniteSets

CONSTANTS
  Manifests,    \* what a caller may pass: [adapter_version, tokenizer, model, tensors]
  Configs, Catalogs,    \* what a caller of from_catalog may pass; role -> [shape, finite]
  MaxModels     \* bound on the models built

VARIABLES
  stage,         \* "idle", "tensors" or "build"
  manifest, request,
  avx2,          \* Capabilities::detected, fixed for the process
  backend,       \* of the model at work: "none", "scalar" or "avx2"
  f32_tensors, bf16_tensors,    \* role -> decoded tensor
  index,         \* the next tensor to load
  direct,        \* from_catalog was called
  outcome,       \* of the last call
  models         \* sequence of the models built

work == <<manifest, request, backend, f32_tensors, bf16_tensors, index, direct>>
vars == <<stage, work, avx2, outcome, models>>

-----------------------------------------------------------------------------
(* TinyConfig::reference, the only dimensions that validate lets through.   *)
Reference ==
  [context_length |-> 16, expert_hidden_size |-> 12, hidden_size |-> 8, num_experts |-> 4,
   num_heads |-> 2, num_layers |-> 1, top_k |-> 2, vocab_size |-> 32]
ValidConfig(c) ==
  /\ \A f \in DOMAIN c : c[f] > 0
  /\ c.num_layers = 1 /\ c.vocab_size = 32
  /\ c.hidden_size % c.num_heads = 0 /\ c.top_k <= c.num_experts
  /\ c = Reference

(* expected_tensors: roles, shapes and dtypes in the order of their ids.    *)
Expect(role, shape, dtype) == [role |-> role, shape |-> shape, dtype |-> dtype]
ExpertRole(e, part) == <<"expert", e, part>>
DenseRole(name) == <<name, 0, "">>
ExpectedTensors(c, version) ==
  LET h == c.hidden_size
      x == c.expert_hidden_size
      dense(name, shape) == Expect(DenseRole(name), shape, "f32-le")
      dtype == IF version = 2 THEN "bf16-le" ELSE "f32-le"
      expert(e) == <<Expect(ExpertRole(e, "gate"), <<x, h>>, dtype), Expect(ExpertRole(e, "up"), <<x, h>>, dtype),
                     Expect(ExpertRole(e, "down"), <<h, x>>, dtype)>>
  IN  <<dense("token_embedding", <<c.vocab_size, h>>), dense("attn_norm", <<h>>), dense("attn_q", <<h, h>>),
        dense("attn_k", <<h, h>>), dense("attn_v", <<h, h>>), dense("attn_out", <<h, h>>),
        dense("ffn_norm", <<h>>), dense("router", <<c.num_experts, h>>)>>
      \o FlattenSeq([e \in 1..c.num_experts |-> expert(e - 1)])
      \o <<dense("final_norm", <<h>>), dense("lm_head", <<c.vocab_size, h>>)>>

(* The catalog of the manifest is the expected one, entry by entry.         *)
Agrees(descriptor, expected) ==
  /\ descriptor.role = expected.role
  /\ descriptor.dtype = expected.dtype
  /\ descriptor.shape = expected.shape
ValidCatalog(m) ==
  LET expected == ExpectedTensors(m.model, m.adapter_version)
  IN  /\ Len(m.tensors) = Len(expected)
      /\ \A i \in DOMAIN expected : Agrees(m.tensors[i], expected[i])

(* select_backend, with "unavailable" for BackendUnavailable.               *)
SelectBackend(r) ==
  CASE r = "scalar" \/ (r = "auto" /\ ~avx2) -> "scalar"
    [] r \in {"auto", "avx2"} /\ avx2 -> "avx2"
    [] OTHER -> "unavailable"

-----------------------------------------------------------------------------
NoManifest == [adapter_version |-> 0, tokenizer |-> FALSE, model |-> Reference, tensors |-> <<>>]
Empty == [r \in {} |-> 0]

Init ==
  /\ stage = "idle" /\ outcome = "none" /\ models = <<>>
  /\ avx2 \in BOOLEAN
  /\ manifest = NoManifest /\ request = "auto" /\ backend = "none"
  /\ f32_tensors = Empty /\ bf16_tensors = Empty /\ index = 1 /\ direct = FALSE

(* Every return drops what the call held.                                   *)
Return(why) ==
  /\ stage' = "idle" /\ outcome' = why
  /\ manifest' = NoManifest /\ request' = "auto" /\ backend' = "none"
  /\ f32_tensors' = Empty /\ bf16_tensors' = Empty /\ index' = 1 /\ direct' = FALSE
  /\ UNCHANGED avx2
Refuse(why) == Return(why) /\ UNCHANGED models

(* from_verified_tensor_bytes_with_backend up to the loop over the tensors. *)
Chosen(m, r) == IF m.adapter_version = 2 THEN SelectBackend(r) ELSE "none"
LoadArtifact(m, r) ==
  /\ stage = "idle" /\ Len(models) < MaxModels
  /\ IF m.adapter_version \notin {1, 2} THEN Refuse("invalid artifact")
     ELSE IF m.adapter_version = 1 /\ r # "auto" THEN Refuse("backend incompatible")
     ELSE IF ~m.tokenizer \/ ~ValidConfig(m.model) \/ ~ValidCatalog(m) THEN Refuse("invalid artifact")
     ELSE IF Chosen(m, r) = "unavailable" THEN Refuse("backend unavailable")
     ELSE /\ stage' = "tensors" /\ manifest' = m /\ request' = r /\ backend' = Chosen(m, r)
          /\ outcome' = "none"
          /\ UNCHANGED <<f32_tensors, bf16_tensors, index, direct, avx2, models>>

Elements(shape) == FoldLeft(LAMBDA a, b : a * b, 1, shape)
Width(dtype) == CASE dtype = "f32-le" -> 4 [] dtype = "bf16-le" -> 2 [] OTHER -> 1
Insert(catalog, role, tensor) == [r \in DOMAIN catalog \cup {role} |-> IF r = role THEN tensor ELSE catalog[r]]

(* decode_f32_tensor with Tensor::new, and Bf16Matrix::from_le_bytes.       *)
DecodesF32(shape, bytes) ==
  /\ bytes.length % 4 = 0
  /\ shape # <<>>
  /\ Elements(shape) > 0 /\ bytes.length \div 4 = Elements(shape)
  /\ bytes.finite
DecodesBf16(shape, bytes) ==
  /\ Len(shape) = 2 /\ shape[1] > 0 /\ shape[2] > 0
  /\ bytes.length = 2 * Elements(shape)
  /\ bytes.finite

(* One turn of the loop over the tensors: the caller supplies the bytes, or *)
(* fails to.  The length a manifest declares is that of its shape and dtype *)
(* (ManifestFormat).                                                        *)
LoadTensor(available, bytes) ==
  LET d == manifest.tensors[index]
      decodes == IF d.dtype = "f32-le" THEN DecodesF32(d.shape, bytes) ELSE DecodesBf16(d.shape, bytes)
      catalog == IF d.dtype = "f32-le" THEN f32_tensors ELSE bf16_tensors
      grown == Insert(catalog, d.role, [shape |-> d.shape, finite |-> bytes.finite])
  IN  IF ~available \/ bytes.length # Elements(d.shape) * Width(d.dtype) THEN Refuse("invalid artifact")
      ELSE IF d.dtype \notin {"f32-le", "bf16-le"} THEN Refuse("panic")
      ELSE IF ~decodes THEN Refuse("invalid tensor")
      ELSE IF d.role \in DOMAIN catalog THEN Refuse("duplicate")
      ELSE /\ f32_tensors' = IF d.dtype = "f32-le" THEN grown ELSE f32_tensors
           /\ bf16_tensors' = IF d.dtype = "f32-le" THEN bf16_tensors ELSE grown
           /\ index' = index + 1
           /\ UNCHANGED <<stage, manifest, request, backend, direct, avx2, outcome, models>>

EndTensors ==
  /\ stage = "tensors" /\ index > Len(manifest.tensors)
  /\ stage' = "build"
  /\ UNCHANGED <<work, avx2, outcome, models>>

(* from_catalog, whose tensors went through Tensor::new one by one.         *)
FromCatalog(config, catalog) ==
  /\ stage = "idle" /\ Len(models) < MaxModels
  /\ IF ~ValidConfig(config) THEN Refuse("invalid artifact")
     ELSE /\ f32_tensors' = catalog /\ direct' = TRUE /\ stage' = "build"
          /\ manifest' = [NoManifest EXCEPT !.adapter_version = 1]
          /\ outcome' = "none"
          /\ UNCHANGED <<request, backend, bf16_tensors, index, avx2, models>>

(* from_catalog or from_bf16_catalog, and from_components: every role is    *)
(* taken out with its shape, the experts first, and nothing may be left     *)
(* over.                                                                    *)
Experts(version) == SelectSeq(ExpectedTensors(Reference, version), LAMBDA t : t.role[1] = "expert")
Dense == SelectSeq(ExpectedTensors(Reference, 1), LAMBDA t : t.role[1] # "expert")
Take_NoShape(catalog, wanted) ==
  IF \E t \in ToSet(wanted) : t.role \notin DOMAIN catalog THEN "missing"
  ELSE IF Cardinality(DOMAIN catalog) > Len(wanted) THEN "unexpected" ELSE "ok"
Take(catalog, wanted) ==
  LET has(i) == wanted[i].role \in DOMAIN catalog
      wrong == {i \in DOMAIN wanted : ~has(i) \/ catalog[wanted[i].role].shape # wanted[i].shape}
      first == CHOOSE i \in wrong : \A j \in wrong : i <= j
  IN  IF wrong # {} THEN IF has(first) THEN "wrong shape" ELSE "missing"
      ELSE IF Cardinality(DOMAIN catalog) > Len(wanted) THEN "unexpected" ELSE "ok"
Assembled ==
  IF manifest.adapter_version = 1 THEN Take(f32_tensors, Experts(1) \o Dense)
  ELSE IF Take(bf16_tensors, Experts(2)) # "ok" THEN Take(bf16_tensors, Experts(2))
  ELSE Take(f32_tensors, Dense)
Build ==
  /\ stage = "build"
  /\ IF Assembled # "ok" THEN Refuse(Assembled)
     ELSE /\ models' = Append(models,
               [version |-> manifest.adapter_version, request |-> request, backend |-> backend,
                weights |-> [r \in DOMAIN f32_tensors \cup DOMAIN bf16_tensors |->
                               IF r \in DOMAIN f32_tensors THEN f32_tensors[r] ELSE bf16_tensors[r]]])
          /\ Return("loaded")

Supply ==
  /\ stage = "tensors" /\ index <= Len(manifest.tensors)
  /\ LET d == manifest.tensors[index]
         right == Elements(d.shape) * Width(d.dtype)
     IN  \E available, finite \in BOOLEAN, length \in {right - 1, right} :
           LoadTensor(available, [length |-> length, finite |-> finite])

Next ==
  \/ \E m \in Manifests, r \in {"auto", "scalar", "avx2"} : LoadArtifact(m, r)
  \/ Supply
  \/ EndTensors
  \/ \E config \in Configs, c \in Catalogs : FromCatalog(config, c)
  \/ Build

-----------------------------------------------------------------------------
(* A model that was built, whichever way, has each of its weights, with the *)
(* shape that forward_token indexes it by, and all of them finite.          *)
LoadedIsComplete ==
  \A i \in DOMAIN models :
    LET w == models[i].weights
        e == [name \in {"gate", "up", "down"} |-> IF name = "down" THEN <<8, 12>> ELSE <<12, 8>>]
        dense == [token_embedding |-> <<32, 8>>, attn_norm |-> <<8>>, attn_q |-> <<8, 8>>, attn_k |-> <<8, 8>>,
                  attn_v |-> <<8, 8>>, attn_out |-> <<8, 8>>, ffn_norm |-> <<8>>, router |-> <<4, 8>>,
                  final_norm |-> <<8>>, lm_head |-> <<32, 8>>]
    IN  /\ \A n \in 0..3, part \in DOMAIN e : w[<<"expert", n, part>>].shape = e[part]
        /\ \A name \in DOMAIN dense : w[<<name, 0, "">>].shape = dense[name]
        /\ \A r \in DOMAIN w : w[r].finite
        /\ Cardinality(DOMAIN w) = 22
=============================================================================
