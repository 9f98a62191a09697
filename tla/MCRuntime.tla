----------------------------- MODULE MCRuntime ------------------------------
(* The runtime in its two parts, of which a behaviour shows one: models     *)
(* are built (ModelLoader) for either adapter from complete catalogs and    *)
(* from ones with a fault each, with another dtype or shape, two roles      *)
(* swapped, a tensor too few or too many, or another configuration,         *)
(* tokenizer or version; two models run over kept states (TinyModel).       *)
EXTENDS TinyModel, SequencesExt

VARIABLES
  part,         \* "load" or "infer"
  stage, manifest, request, avx2, backend, f32_tensors, bf16_tensors, index, direct, loading, models

loader == <<stage, manifest, request, avx2, backend, f32_tensors, bf16_tensors, index, direct, loading, models>>

MCPrompts == {<<>>, <<1>>, <<1, 1>>, <<1, 1, 1>>, <<1, 1, 1, 1>>}

-----------------------------------------------------------------------------
Catalog == INSTANCE ModelLoader WITH
  Manifests <- {}, Configs <- {}, Catalogs <- {}, MaxModels <- 0, outcome <- loading

GoodManifest(v) ==
  [adapter_version |-> v, tokenizer |-> TRUE, model |-> Catalog!Reference,
   tensors |-> Catalog!ExpectedTensors(Catalog!Reference, v)]
Faults(m) ==
  {[m EXCEPT !.tensors[i].dtype = dtype] : i \in {1, 10}, dtype \in {"f32-le", "bf16-le", "u8"}}
    \cup {[m EXCEPT !.tensors[9].shape = <<96>>], [m EXCEPT !.tensors[3] = m.tensors[4], !.tensors[4] = m.tensors[3]],
          [m EXCEPT !.tensors[3] = m.tensors[4]], [m EXCEPT !.tensors = Front(@)],
          [m EXCEPT !.tensors = Append(@, m.tensors[1])], [m EXCEPT !.model.top_k = 3],
          [m EXCEPT !.model.hidden_size = 0], [m EXCEPT !.tokenizer = FALSE]}
MCManifests ==
  UNION {Faults(GoodManifest(v)) \cup {GoodManifest(v)} : v \in {1, 2}} \cup {[GoodManifest(2) EXCEPT !.adapter_version = 3]}

Complete ==
  LET all == ToSet(Catalog!ExpectedTensors(Catalog!Reference, 1))
  IN  [r \in {t.role : t \in all} |-> [shape |-> (CHOOSE t \in all : t.role = r).shape, finite |-> TRUE]]
MCCatalogs ==
  {Complete, [r \in DOMAIN Complete \ {Catalog!DenseRole("router")} |-> Complete[r]],
   Catalog!Insert(Complete, Catalog!DenseRole("bias"), [shape |-> <<8>>, finite |-> TRUE]),
   [Complete EXCEPT ![Catalog!ExpertRole(0, "up")].shape = <<8, 12>>]}

Loader == INSTANCE ModelLoader WITH
  Manifests <- MCManifests, Configs <- {Catalog!Reference, [Catalog!Reference EXCEPT !.num_heads = 4]},
  Catalogs <- MCCatalogs, MaxModels <- 2, outcome <- loading

-----------------------------------------------------------------------------
RuntimeInit ==
  /\ Init /\ Loader!Init
  /\ part = "load" \/ (part = "infer" /\ ~avx2)
RuntimeNext ==
  \/ part = "load" /\ Loader!Next /\ UNCHANGED <<part, vars>>
  \/ part = "infer" /\ Next /\ UNCHANGED <<part, loader>>
RuntimeSpec == RuntimeInit /\ [][RuntimeNext]_<<part, vars, loader>>

(* A model that was built has every weight, in its shape and finite: see    *)
(* ModelLoader.                                                             *)
LoadedIsComplete == Loader!LoadedIsComplete
=============================================================================
