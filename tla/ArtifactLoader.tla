--------------------------- MODULE ArtifactLoader ---------------------------
(* Artifact::open, open_with_expected_id, from_bytes and the accessors of a *)
(* loaded artifact (runnel-format/src/artifact.rs).  Every file is opened   *)
(* by its path, so that two of them may come from two trees, and is read    *)
(* while it may change.                                                     *)
EXTENDS ArtifactFiles

CONSTANTS
  ManifestLimit,  \* Limits::manifest_bytes
  EagerLimit,     \* Limits::eager_memory_bytes
  Expected,       \* identifiers a caller may insist on, 0 for none
  GivenTables,    \* what a caller of from_bytes may hand over
  GivenObjects

VARIABLES
  stage,     \* "start", "open", "stat", "read", "verify", "loaded", "failed"
  expected,
  manifest,
  id,        \* the manifest's digest
  at,        \* index of the record at work, 0 for the manifest
  kind,      \* "manifest", "table" or "object"
  fd, buffer,
  tables, objects,    \* digest -> bytes read; removed again as they are verified
  verified            \* digest -> [bytes, table], the VerifiedObjects

loader == <<stage, expected, manifest, id, at, kind, fd, buffer, tables, objects, verified>>
vars == <<files, loader>>

Nothing == [d \in {} |-> <<>>]

Init ==
  /\ FilesInit
  /\ stage = "start" /\ expected \in Expected
  /\ manifest = NoManifest /\ id = 0 /\ at = 0 /\ kind = "manifest"
  /\ fd = 0 /\ buffer = <<>>
  /\ tables = Nothing /\ objects = Nothing /\ verified = Nothing

Record == manifest.objects[at]
Path == CASE kind = "manifest" -> ManifestPath [] kind = "table" -> Record.page_table [] OTHER -> Record.digest
Declared == IF kind = "table" THEN Record.page_table_length ELSE Record.length

(* An error drops everything that was read.                                 *)
Fail ==
  /\ stage' = "failed"
  /\ manifest' = NoManifest /\ id' = 0 /\ at' = 0 /\ kind' = "manifest" /\ fd' = 0 /\ buffer' = <<>>
  /\ tables' = Nothing /\ objects' = Nothing /\ verified' = Nothing
  /\ UNCHANGED <<expected, files>>

(* required_eager_bytes and ensure_eager_budget; a manifest is one cell.    *)
RequiredEagerBytes(m) == 1 + FoldLeft(LAMBDA n, r : n + r.length + r.page_table_length, 0, m.objects)
WithinEagerBudget(m) == RequiredEagerBytes(m) <= EagerLimit

-----------------------------------------------------------------------------
OpenManifest ==
  /\ stage = "start"
  /\ stage' = "open"
  /\ UNCHANGED <<files, expected, manifest, id, at, kind, fd, buffer, tables, objects, verified>>

(* open_regular.                                                            *)
OpenRegular ==
  /\ stage = "open"
  /\ IF leaf[tree][Path] = 0 THEN Fail
     ELSE /\ fd' = leaf[tree][Path]
          /\ stage' = IF kind = "manifest" THEN "read" ELSE "stat"
          /\ UNCHANGED <<files, expected, manifest, id, at, kind, buffer, tables, objects, verified>>

(* The length that read_exact_blob finds before it reads.                   *)
Stat ==
  /\ stage = "stat"
  /\ IF Len(inodes[fd].bytes) # Declared THEN Fail
     ELSE /\ stage' = "read"
          /\ UNCHANGED <<files, expected, manifest, id, at, kind, fd, buffer, tables, objects, verified>>

(* read_at_most: one read of read_to_end, of any length up to the ceiling,  *)
(* or an error of it.                                                       *)
Maximum == (IF kind = "manifest" THEN ManifestLimit ELSE Declared) + 1
Available == inodes[fd].bytes
ReadSome ==
  /\ stage = "read"
  /\ \E end \in (Len(buffer) + 1)..Maximum :
       /\ end <= Len(Available)
       /\ buffer' = buffer \o SubSeq(Available, Len(buffer) + 1, end)
  /\ UNCHANGED <<files, stage, expected, manifest, id, at, kind, fd, tables, objects, verified>>

ReadFails == stage = "read" /\ Fail

AtEnd == stage = "read" /\ (Len(buffer) >= Maximum \/ Len(buffer) >= Len(Available))

(* The loop over the records in open_internal, and the way out of it.       *)
ReadRecord(m, i) ==
  IF i <= Len(m.objects) THEN at' = i /\ kind' = "table" /\ stage' = "open"
  ELSE at' = 1 /\ kind' = "manifest" /\ stage' = "verify"

(* read_bounded_manifest, the parse, and the first budget check.            *)
TakeManifest ==
  /\ AtEnd /\ kind = "manifest"
  /\ IF /\ Len(buffer) <= ManifestLimit /\ Identified(buffer, expected)
        /\ WithinEagerBudget(Manifests[buffer[1]])
     THEN /\ manifest' = Manifests[buffer[1]] /\ id' = buffer[1]
          /\ ReadRecord(Manifests[buffer[1]], 1) /\ fd' = 0 /\ buffer' = <<>>
          /\ UNCHANGED <<files, expected, tables, objects, verified>>
     ELSE Fail

(* The end of read_exact_blob, and the insertion into one of the two maps.  *)
With(map, digest, bytes) == [d \in DOMAIN map \cup {digest} |-> IF d = digest THEN bytes ELSE map[d]]
TakeTable ==
  /\ AtEnd /\ kind = "table"
  /\ IF Len(buffer) = Declared
     THEN /\ tables' = With(tables, Record.page_table, buffer)
          /\ stage' = "open" /\ kind' = "object" /\ fd' = 0 /\ buffer' = <<>>
          /\ UNCHANGED <<files, expected, manifest, id, at, objects, verified>>
     ELSE Fail
TakeObject ==
  /\ AtEnd /\ kind = "object"
  /\ IF Len(buffer) = Declared
     THEN /\ objects' = With(objects, Record.digest, buffer)
          /\ ReadRecord(manifest, at + 1)
          /\ fd' = 0 /\ buffer' = <<>>
          /\ UNCHANGED <<files, expected, manifest, id, tables, verified>>
     ELSE Fail

(* from_bytes: the caller hands over the manifest and both maps.            *)
FromBytes(cell, t, o) ==
  /\ stage = "start"
  /\ IF Identified(<<cell>>, expected) /\ WithinEagerBudget(Manifests[cell])
     THEN /\ manifest' = Manifests[cell] /\ id' = cell /\ tables' = t /\ objects' = o
          /\ stage' = "verify" /\ at' = 1
          /\ UNCHANGED <<files, expected, kind, fd, buffer, verified>>
     ELSE Fail

(* One turn of verify_loaded, which takes the bytes out of the maps.        *)
Without(map, digest) == [d \in DOMAIN map \ {digest} |-> map[d]]
Verifies(record) ==
  /\ record.page_table \in DOMAIN tables /\ ParseVerified(record, tables[record.page_table])
  /\ record.digest \in DOMAIN objects
  /\ VerifyObject(record, tables[record.page_table], objects[record.digest])
VerifyRecord ==
  /\ stage = "verify" /\ at <= Len(manifest.objects)
  /\ IF Verifies(Record)
     THEN /\ verified' = With(verified, Record.digest,
                              [bytes |-> objects[Record.digest], table |-> tables[Record.page_table]])
          /\ tables' = Without(tables, Record.page_table) /\ objects' = Without(objects, Record.digest)
          /\ at' = at + 1
          /\ UNCHANGED <<files, stage, expected, manifest, id, kind, fd, buffer>>
     ELSE Fail
FinishLoading ==
  /\ stage = "verify" /\ at > Len(manifest.objects)
  /\ stage' = "loaded" /\ at' = 0
  /\ UNCHANGED <<files, expected, manifest, id, kind, fd, buffer, tables, objects, verified>>

(* tensor_bytes: the slice of the tensor with this identifier.              *)
TensorBytes(i) ==
  LET t == manifest.tensors[i + 1] IN SubSeq(verified[t.object].bytes, t.offset + 1, t.offset + t.length)

OthersStep == Others /\ UNCHANGED loader
Next ==
  \/ OpenManifest \/ OpenRegular \/ Stat \/ ReadSome \/ ReadFails \/ TakeManifest \/ TakeTable \/ TakeObject
  \/ \E cell \in DOMAIN Manifests, t \in GivenTables, o \in GivenObjects : FromBytes(cell, t, o)
  \/ VerifyRecord \/ FinishLoading
  \/ OthersStep

-----------------------------------------------------------------------------
(* A loaded artifact is the one the caller insisted on and holds, for every *)
(* record of the manifest and nothing else, the bytes that the record's     *)
(* digests stand for, whatever happened to the files in between.  Each page *)
(* has the hash its table holds, although the manifest may pair an          *)
(* authentic object with an authentic table of other pages, and each tensor *)
(* is the slice of the declared object that its record names.               *)
LoadedIsDeclared ==
  stage = "loaded" =>
    /\ manifest = Manifests[id] /\ expected \in {0, id}
    /\ DOMAIN verified = {r.digest : r \in ToSet(manifest.objects)}
    /\ \A r \in ToSet(manifest.objects) :
         /\ Is(verified[r.digest].bytes, r.digest) /\ Is(verified[r.digest].table, r.page_table)
         /\ \A p \in 0..(PageCount(r.length, r.page_size) - 1) :
              PageHash(Page(r, verified[r.digest].bytes, p)) = verified[r.digest].table[p + 2]
    /\ \A i \in 0..(Len(manifest.tensors) - 1) :
         LET t == manifest.tensors[i + 1]
         IN  /\ Len(TensorBytes(i)) = t.length
             /\ \A j \in 1..t.length : TensorBytes(i)[j] = Bytes[t.object][t.offset + j]
=============================================================================
