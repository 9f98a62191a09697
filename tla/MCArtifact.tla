----------------------------- MODULE MCArtifact -----------------------------
(* What opens an artifact, one part at a time over the same variables: the  *)
(* JSON reader, the manifest parser, the eager loader and the opening of a  *)
(* stored artifact.  Each part has its own small artifact.                  *)
EXTENDS ManifestParser

VARIABLES
  part,       \* json, manifest, eager, stored
  doc, stack, value, outcome, issue,
  tree, leaf, inodes, changes,
  expected, manifest, id, at, kind, fd, buffer, tables, verified,
  cancelled, rootfd, objectsfd, tablesfd, manifestfd, length, retained

jsonOnly   == <<doc, stack, value, issue>>
parserOnly == <<limits, tensors>>
files      == <<tree, leaf, inodes>>
opening    == <<expected, manifest, id, at, fd>>
eagerOnly  == <<kind, tables, verified>>
storedOnly == <<rootfd, objectsfd, tablesfd, manifestfd, length, retained>>
artifactVars == <<part, stage, outcome, objects, buffer, changes, cancelled, jsonOnly, parserOnly,
                  files, opening, eagerOnly, storedOnly>>

-----------------------------------------------------------------------------
(* Manifest: up to two objects of at most five bytes in pages of two or     *)
(* four bytes, and up to three tensors.  The identifier and the role of a   *)
(* tensor are given relative to the next free one: 0 is the next, the       *)
(* others are not.  A tensor has at most one fault besides its place, which *)
(* is free.                                                                 *)
MCLimits ==
  [manifest_bytes |-> 1, objects |-> 2, tensors |-> 3, object_bytes |-> 5, aggregate_object_bytes |-> 7,
   page_table_bytes |-> 5, aggregate_page_table_bytes |-> 8]
MCLimitChoices == {MCLimits, [MCLimits EXCEPT !.aggregate_object_bytes = 12]}

Dimensions == {"context_length", "expert_hidden_size", "hidden_size", "num_experts", "num_heads",
               "num_layers", "top_k", "vocab_size"}
Good ==
  [well_formed |-> TRUE, adapter |-> [well_formed |-> TRUE, version |-> 2],
   model |-> [f \in Dimensions |-> 2],
   tokenizer |-> [well_formed |-> TRUE, version |-> 1, vocab_size |-> 2]]
MCDocuments ==
  {Good, [Good EXCEPT !.well_formed = FALSE], [Good EXCEPT !.adapter.version = 3],
   [Good EXCEPT !.model.top_k = 3], [Good EXCEPT !.model.hidden_size = 3],
   [Good EXCEPT !.model.num_layers = 0], [Good EXCEPT !.tokenizer.vocab_size = 3]}

MCObjects ==
  {[digest |-> d, length |-> l, page_size |-> s, page_table |-> t,
    page_table_length |-> TableLength(l, IF s = 0 THEN 1 ELSE s) + w] :
      d \in 1..2, l \in {0, 2, 5, 6}, s \in {0, 2, 4}, t \in {1, 2}, w \in {0, 1}}

Payloads == {<<"u8", <<1>>>>, <<"u8", <<3>>>>, <<"bf16-le", <<1>>>>, <<"bf16-le", <<1, 2>>>>}
Faulty == {<<"u8", <<>>>>, <<"u8", <<0>>>>, <<"u8", <<6>>>>, <<"u16", <<1>>>>}
Tensor(p, i, surplus, digest, offset, role) ==
  [id |-> i, dtype |-> p[1], length |-> Elements(p[2]) * ByteWidth(p[1]) + surplus,
   object |-> digest, offset |-> offset, role |-> role, shape |-> p[2]]
MCTensors ==
  {Tensor(p, 0, 0, d, o, 0) : p \in Payloads, d \in 1..3, o \in {0, 1, 2, 4}}
    \cup {Tensor(p, 0, 0, 1, 0, 0) : p \in Faulty}
    \cup {Tensor(<<"u8", <<1>>>>, f[1], f[2], 1, 0, f[3]) : f \in {<<1, 0, 0>>, <<0, 1, 0>>, <<0, 0, -1>>}}

-----------------------------------------------------------------------------
(* Eager: two objects of three and two cells in pages of two cells, with    *)
(* their tables, one table whose header names another object and one whose  *)
(* hashes are of other pages.                                               *)
Unparsed == [objects |-> <<>>, tensors |-> <<>>]
EagerBytes ==
  [d \in {1, 2, 11, 12, 13, 14} |->
     CASE d = 1 -> <<1, 2, 3>> [] d = 2 -> <<4, 5>>
       [] d = 11 -> <<101, 12, 3>> [] d = 12 -> <<102, 45>>
       [] d = 13 -> <<102, 12, 3>> [] d = 14 -> <<101, 12, 4>>]
EagerHeaders ==
  [h \in {101, 102} |->
     IF h = 101 THEN [version |-> 1, page_size |-> 2, object_length |-> 3, page_count |-> 2, object |-> 1]
     ELSE [version |-> 1, page_size |-> 2, object_length |-> 2, page_count |-> 1, object |-> 2]]

Declared(d, l, t, tl) == [digest |-> d, length |-> l, page_size |-> 2, page_table |-> t, page_table_length |-> tl]
First(table) == Declared(1, 3, table, 3)
TensorOf(i, d, o, l) == [id |-> i, object |-> d, offset |-> o, length |-> l]
EagerTensors == <<TensorOf(0, 1, 0, 1), TensorOf(1, 1, 1, 2)>>
EagerManifests ==
  [c \in {21, 22, 23, 24, 25} |->
     CASE c = 21 -> [objects |-> <<First(11), Declared(2, 2, 12, 2)>>,
                     tensors |-> Append(EagerTensors, TensorOf(2, 2, 0, 2))]
       [] c = 22 -> [objects |-> <<First(13)>>, tensors |-> EagerTensors]
       [] c = 23 -> [objects |-> <<First(14)>>, tensors |-> EagerTensors]
       [] c = 24 -> [objects |-> <<First(11), Declared(2, 2, 12, 2), Declared(3, 1, 15, 2)>>, tensors |-> EagerTensors]
       [] c = 25 -> Unparsed]

EagerRoot == [t \in {1} |-> {21, 22, 23, 24, 25}]
Map(D) == [d \in D |-> EagerBytes[d]]
GivenTables == {Map({11, 12}), Map({11}), [d \in {11, 12} |-> EagerBytes[1]], Map({13}), Map({14})}
GivenObjects == {Map({1, 2}), [d \in {1, 2} |-> EagerBytes[2]]}

(* Stored: two trees that take turns at the root path, with one object and  *)
(* its page table; the second tree's manifest may declare a table of        *)
(* another object or nothing at all.                                        *)
StoredBytes == [d \in {1, 11, 12} |-> CASE d = 1 -> <<1, 2, 3>> [] d = 11 -> <<101, 12, 3>> [] d = 12 -> <<102, 12, 3>>]
StoredHeaders ==
  [h \in {101, 102} |->
     [version |-> 1, page_size |-> 2, object_length |-> 3, page_count |-> 2, object |-> h - 100]]
StoredManifests ==
  [c \in {21, 22, 23} |->
     IF c = 23 THEN Unparsed
     ELSE [objects |-> <<[digest |-> 1, length |-> 3, page_size |-> 2, page_table |-> c - 10,
                          page_table_length |-> 3]>>, tensors |-> <<>>]]
StoredRoot == [t \in {1, 2} |-> IF t = 1 THEN {21} ELSE {22, 23}]

-----------------------------------------------------------------------------
Json == INSTANCE JsonReader WITH MaxDepth <- 2, MaxEntries <- 2, Keys <- {1, 2, 3}, MaxTokens <- 9

Eager == INSTANCE ArtifactLoader
  WITH Trees <- {1}, Bytes <- EagerBytes, Headers <- EagerHeaders, Manifests <- EagerManifests,
       RootManifest <- EagerRoot, MaxChanges <- 1, ManifestLimit <- 1, EagerLimit <- 11,
       Expected <- {0, 21}

Stored == INSTANCE StoredArtifact
  WITH Trees <- {1, 2}, Bytes <- StoredBytes, Headers <- StoredHeaders,
       Manifests <- StoredManifests, RootManifest <- StoredRoot, MaxChanges <- 2,
       ManifestLimit <- 1, Expected <- {0, 21}

(* The variables of the parts that are not at work.                         *)
NoJson    == doc = 0 /\ stack = 0 /\ value = 0 /\ issue = 0
NoParser  == limits = 0 /\ tensors = 0
NoFiles   == tree = 0 /\ leaf = 0 /\ inodes = 0
NoOpening == expected = 0 /\ manifest = 0 /\ id = 0 /\ at = 0 /\ fd = 0
NoEager   == kind = 0 /\ tables = 0 /\ verified = 0
NoStored  == /\ rootfd = 0 /\ objectsfd = 0 /\ tablesfd = 0 /\ manifestfd = 0 /\ length = 0
             /\ retained = 0

ArtifactInit ==
  \/ /\ part = "json" /\ Json!Init
     /\ stage = 0 /\ objects = 0 /\ buffer = 0 /\ changes = 0 /\ cancelled = 0
     /\ NoParser /\ NoFiles /\ NoOpening /\ NoEager /\ NoStored
  \/ /\ part = "manifest" /\ Init
     /\ outcome = 0 /\ buffer = 0 /\ changes = 0 /\ cancelled = 0
     /\ NoJson /\ NoFiles /\ NoOpening /\ NoEager /\ NoStored
  \/ /\ part = "eager" /\ Eager!Init
     /\ outcome = 0 /\ cancelled = 0
     /\ NoJson /\ NoParser /\ NoStored
  \/ /\ part = "stored" /\ Stored!Init
     /\ outcome = 0 /\ objects = 0
     /\ NoJson /\ NoParser /\ NoEager

JsonStep ==
  /\ part = "json" /\ Json!Next
  /\ UNCHANGED <<part, stage, objects, buffer, changes, cancelled, parserOnly, files, opening,
                 eagerOnly, storedOnly>>
ManifestStep ==
  /\ part = "manifest" /\ Next
  /\ UNCHANGED <<part, outcome, buffer, changes, cancelled, jsonOnly, files, opening, eagerOnly,
                 storedOnly>>
EagerStep ==
  /\ part = "eager" /\ Eager!Next
  /\ UNCHANGED <<part, outcome, cancelled, jsonOnly, parserOnly, storedOnly>>
StoredStep ==
  /\ part = "stored" /\ Stored!Next
  /\ UNCHANGED <<part, outcome, objects, jsonOnly, parserOnly, eagerOnly>>

ArtifactNext == JsonStep \/ ManifestStep \/ EagerStep \/ StoredStep
ArtifactSpec == ArtifactInit /\ [][ArtifactNext]_artifactVars

-----------------------------------------------------------------------------
(* json.rs accepts exactly the documents that keep its rules, and writes    *)
(* one spelling of each value.                                              *)
AcceptsExactly == part = "json" => Json!AcceptsExactly

(* An accepted manifest tiles its objects with tensors, and the pages read  *)
(* for a tensor cover it.                                                   *)
ManifestCovers == part = "manifest" => PagesCoverTensors

(* What Artifact::open and from_bytes return is what the manifest declares. *)
LoadedIsDeclared == part = "eager" => Eager!LoadedIsDeclared

(* What StoredArtifact retains is of one tree and authentic.                *)
OneTree == part = "stored" => Stored!OneTree
=============================================================================
