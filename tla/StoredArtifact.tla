--------------------------- MODULE StoredArtifact ---------------------------
(* ArtifactSource::open (runnel-store/src/source.rs) and                    *)
(* StoredArtifact::open_source (page.rs): the root is opened once by its    *)
(* path, everything else below retained descriptors; the page tables are    *)
(* read and verified, the objects only opened.                              *)
EXTENDS ArtifactFiles

CONSTANTS
  ManifestLimit,   \* Limits::manifest_bytes
  Expected         \* identifiers a caller may insist on, 0 for none

VARIABLES
  stage,       \* what comes next
  expected,
  cancelled,   \* the caller's Control
  rootfd,      \* retained tree, 0 before it is opened
  objectsfd, tablesfd,    \* the trees whose digest directories are retained
  manifestfd,  \* retained inode
  length,      \* what the first fstat of the file at work found
  fd, buffer,  \* the page table at work
  at,          \* the object record at work
  manifest, id,
  retained     \* digest -> [fd, table], the RetainedObjects

opener == <<stage, expected, cancelled, rootfd, objectsfd, tablesfd, manifestfd, length, fd, buffer, at,
            manifest, id, retained>>
vars == <<files, opener>>
source == <<rootfd, objectsfd, tablesfd, manifestfd>>

Init ==
  /\ FilesInit
  /\ stage = "root" /\ expected \in Expected /\ cancelled = FALSE
  /\ rootfd = 0 /\ objectsfd = 0 /\ tablesfd = 0 /\ manifestfd = 0
  /\ length = 0 /\ fd = 0 /\ buffer = <<>> /\ at = 0
  /\ manifest = NoManifest /\ id = 0 /\ retained = [d \in {} |-> 0]

Fail ==
  /\ stage' = "failed" /\ rootfd' = 0 /\ objectsfd' = 0 /\ tablesfd' = 0 /\ manifestfd' = 0
  /\ length' = 0 /\ fd' = 0 /\ buffer' = <<>> /\ at' = 0
  /\ manifest' = NoManifest /\ id' = 0 /\ retained' = [d \in {} |-> 0]
  /\ UNCHANGED <<files, expected, cancelled>>
Goto(s) == stage' = s /\ UNCHANGED <<files, expected, cancelled>>
work == <<length, fd, buffer>>
artifact == <<manifest, id, retained>>

Record == manifest.objects[at]
(* open_regular_leaf, with the length it insists on, and                    *)
(* require_same_filesystem_owner.                                           *)
SameOwner(i) == inodes[i].own
Opens(i, expects) == i # 0 /\ Len(inodes[i].bytes) \in expects /\ SameOwner(i)

-----------------------------------------------------------------------------
(* ArtifactSource::open.  Directories keep their owner in this model.       *)
OpenRoot ==
  /\ stage = "root"
  /\ rootfd' = tree
  /\ Goto("objects")
  /\ UNCHANGED <<objectsfd, tablesfd, manifestfd, at, work, artifact>>
OpenObjects ==
  /\ stage = "objects"
  /\ objectsfd' = rootfd
  /\ Goto("tables")
  /\ UNCHANGED <<rootfd, tablesfd, manifestfd, at, work, artifact>>
Below_Path == tree
Below == rootfd
OpenTables ==
  /\ stage = "tables"
  /\ tablesfd' = Below
  /\ Goto("manifest")
  /\ UNCHANGED <<rootfd, objectsfd, manifestfd, at, work, artifact>>
OpenManifest ==
  /\ stage = "manifest"
  /\ IF Opens(leaf[rootfd][ManifestPath], Nat)
     THEN /\ manifestfd' = leaf[rootfd][ManifestPath]
          /\ Goto("stat")
          /\ UNCHANGED <<rootfd, objectsfd, tablesfd, at, work, artifact>>
     ELSE Fail

(* read_bounded_at on the manifest: the length, the bytes, the length again.*)
StatManifest ==
  /\ stage = "stat"
  /\ LET n == Len(inodes[manifestfd].bytes)
     IN  IF n > ManifestLimit THEN Fail
         ELSE length' = n /\ Goto("read") /\ UNCHANGED <<source, fd, buffer, at, artifact>>

(* read_exact_at: the control is checked before every read and after the    *)
(* last; an early end of file and a failed read are errors.                 *)
Filled == Len(buffer) = length
ReadExactly(i, finished) ==
  \/ cancelled /\ Fail
  \/ ~cancelled /\ Filled /\ Goto(finished) /\ UNCHANGED <<source, at, work, artifact>>
  \/ ~cancelled /\ ~Filled /\ Fail
  \/ /\ ~cancelled /\ ~Filled
     /\ \E end \in (Len(buffer) + 1)..length :
          /\ end <= Len(inodes[i].bytes)
          /\ buffer' = buffer \o SubSeq(inodes[i].bytes, Len(buffer) + 1, end)
     /\ UNCHANGED <<files, stage, expected, cancelled, source, length, fd, at, artifact>>
ReadManifest == stage = "read" /\ ReadExactly(manifestfd, "parse")

ParseManifest ==
  /\ stage = "parse"
  /\ IF Len(inodes[manifestfd].bytes) = length /\ Identified(buffer, expected)
     THEN /\ manifest' = Manifests[buffer[1]] /\ id' = buffer[1] /\ at' = 1
          /\ length' = 0 /\ buffer' = <<>>
          /\ Goto("table") /\ UNCHANGED <<source, fd, retained>>
     ELSE Fail

(* One turn of the loop over the objects, from its control check on.        *)
OpenPageTable ==
  /\ stage = "table" /\ at <= Len(manifest.objects)
  /\ LET i == leaf[tablesfd][Record.page_table]
     IN  IF ~cancelled /\ Opens(i, {Record.page_table_length})
         THEN /\ fd' = i /\ length' = Record.page_table_length
              /\ Goto("readtable") /\ UNCHANGED <<source, buffer, at, artifact>>
         ELSE Fail
ReadPageTable == stage = "readtable" /\ ReadExactly(fd, "verify")
VerifyPageTable ==
  /\ stage = "verify"
  /\ IF Len(inodes[fd].bytes) = length /\ ParseVerified(Record, buffer)
     THEN Goto("object") /\ fd' = 0 /\ UNCHANGED <<source, length, buffer, at, artifact>>
     ELSE Fail
OpenObject ==
  /\ stage = "object"
  /\ LET i == leaf[objectsfd][Record.digest]
     IN  IF Opens(i, {Record.length}) /\ Record.digest \notin DOMAIN retained
         THEN /\ retained' = [d \in DOMAIN retained \cup {Record.digest} |->
                   IF d = Record.digest THEN [fd |-> i, table |-> buffer] ELSE retained[d]]
              /\ length' = 0 /\ buffer' = <<>>
              /\ at' = at + 1 /\ Goto("table")
              /\ UNCHANGED <<source, fd, manifest, id>>
         ELSE Fail

(* The last control check.                                                  *)
Finish ==
  /\ stage = "table" /\ at > Len(manifest.objects)
  /\ IF cancelled THEN Fail ELSE Goto("opened") /\ UNCHANGED <<source, at, work, artifact>>

(* The caller's token, from another thread.                                 *)
Cancel ==
  /\ ~cancelled
  /\ cancelled' = TRUE
  /\ UNCHANGED <<files, stage, expected, source, at, work, artifact>>

OthersStep == Others /\ UNCHANGED opener
Next ==
  \/ OpenRoot \/ OpenObjects \/ OpenTables \/ OpenManifest \/ StatManifest \/ ReadManifest
  \/ ParseManifest \/ OpenPageTable \/ ReadPageTable \/ VerifyPageTable \/ OpenObject \/ Finish
  \/ Cancel \/ OthersStep

-----------------------------------------------------------------------------
(* Once opened, the manifest is the one insisted on and every object it     *)
(* declares is retained together with the page table it declares, although  *)
(* files changed while they were read.  At every step the directories are   *)
(* below the one root that was opened, even if another tree is moved to the *)
(* root path between two opens, and what is retained has the root's owner.  *)
OneTree ==
  /\ \A t \in {objectsfd, tablesfd} \ {0} : t = rootfd
  /\ manifestfd # 0 => inodes[manifestfd].own
  /\ \A d \in DOMAIN retained : inodes[retained[d].fd].own
  /\ stage = "opened" =>
       /\ manifest = Manifests[id] /\ expected \in {0, id}
       /\ DOMAIN retained = {r.digest : r \in ToSet(manifest.objects)}
       /\ \A r \in ToSet(manifest.objects) :
            Is(retained[r.digest].table, r.page_table) /\ HeaderMatches(r, Headers[retained[r.digest].table[1]])
=============================================================================
