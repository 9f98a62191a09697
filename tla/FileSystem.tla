----------------------------- MODULE FileSystem -----------------------------
(***************************************************************************)
(* The file system below the content-addressed store, as far as            *)
(* runnel-store/src/cas.rs relies on it: a staging directory, one digest   *)
(* directory per kind of blob, and files.  A name lasts through a crash of *)
(* the machine once its directory has been synced, and the content of a    *)
(* file once the file has.  What was not synced may or may not have        *)
(* reached the disk, name by name.  A rename reaches it as a whole.        *)
(***************************************************************************)
EXTENDS Naturals, Sequences, FiniteSets

CONSTANTS Inodes,  \* files; each begins as a stage of one blob
          Blobs,   \* [kind, id]: what a digest name stands for
          None

VARIABLES dir,      \* the names processes see
          disk,     \* the names that are durable
          renamed,  \* files renamed to their digest name since the last sync
          file      \* blob, content, and whether the content is durable

fsVars == <<dir, disk, renamed, file>>

Kinds == {"manifest", "page-table", "object"}
Contents == {"partial", "full", "corrupt"}
Names == [staging : SUBSET Inodes, final : [Blobs -> Inodes \cup {None}]]
NoFile == [blob |-> None, content |-> "partial", synced |-> FALSE]
File == [blob : Blobs \cup {None}, content : Contents, synced : BOOLEAN]

FsInit ==
  /\ dir = [staging |-> {}, final |-> [b \in Blobs |-> None]]
  /\ disk = dir
  /\ renamed = {}
  /\ file = [i \in Inodes |-> NoFile]

\* Files with a name, and those without, which a new stage may take.
Named(names) == names.staging \cup {names.final[b] : b \in Blobs}
Unnamed == Inodes \ (Named(dir) \cup Named(disk))

\* Files are alike: which of them a new stage gets makes no difference.
NewFile == IF Unnamed = {} THEN None ELSE CHOOSE i \in Unnamed : TRUE

Stages(b) == {i \in dir.staging : file[i].blob = b}

CreateLeaf(i, b) ==
  /\ dir' = [dir EXCEPT !.staging = @ \cup {i}]
  /\ file' = [file EXCEPT ![i] = [NoFile EXCEPT !.blob = b]]
  /\ UNCHANGED <<disk, renamed>>

Write(i, content) ==
  /\ file' = [file EXCEPT ![i].content = content, ![i].synced = FALSE]
  /\ UNCHANGED <<dir, disk, renamed>>

SyncFile(i) ==
  /\ file' = [file EXCEPT ![i].synced = TRUE]
  /\ UNCHANGED <<dir, disk, renamed>>

Rename(i) ==
  /\ dir' = [staging |-> dir.staging \ {i},
             final |-> [dir.final EXCEPT ![file[i].blob] = i]]
  /\ renamed' = renamed \cup {i}
  /\ UNCHANGED <<disk, file>>

Link(i) ==
  /\ dir' = [dir EXCEPT !.final[file[i].blob] = i]
  /\ UNCHANGED <<disk, renamed, file>>

UnlinkStage(i) ==
  /\ dir' = [dir EXCEPT !.staging = @ \ {i}]
  /\ UNCHANGED <<disk, renamed, file>>

UnlinkDigest(b) ==
  /\ dir' = [dir EXCEPT !.final[b] = None]
  /\ UNCHANGED <<disk, renamed, file>>

SyncDigestDir(kind) ==
  LET moved == {i \in renamed : file[i].blob.kind = kind} IN
  /\ disk' = [staging |-> disk.staging \ moved,
              final |-> [b \in Blobs |-> IF b.kind = kind THEN dir.final[b]
                                         ELSE disk.final[b]]]
  /\ renamed' = renamed \ moved
  /\ UNCHANGED <<dir, file>>

SyncStaging ==
  /\ disk' = [staging |-> dir.staging,
              final |-> [b \in Blobs |-> IF dir.final[b] \in renamed
                                           THEN dir.final[b] ELSE disk.final[b]]]
  /\ renamed' = {}
  /\ UNCHANGED <<dir, file>>

\* What may be found in a file that was not synced.
Survivors(f) ==
  IF f.synced THEN {f.content}
  ELSE IF f.content = "full" THEN Contents ELSE {"partial", "corrupt"}

\* The machine stops: every name that was not synced is as it was or as it
\* should have become.
Crash ==
  \E s \in SUBSET ((dir.staging \ disk.staging) \cup (disk.staging \ dir.staging)),
     late \in SUBSET {b \in Blobs : dir.final[b] # disk.final[b]} :
    LET staging == (dir.staging \cap disk.staging) \cup s
        final == [b \in Blobs |-> IF b \in late THEN disk.final[b] ELSE dir.final[b]]
        left == [staging |-> staging, final |-> final]
        unsynced == {i \in Inodes \cap Named(left) : ~file[i].synced}
    IN
    /\ \A i \in renamed : i \in staging <=> i \in disk.staging /\ final[file[i].blob] # i
    /\ dir' = left
    /\ disk' = left
    /\ renamed' = {}
    /\ \E c \in [unsynced -> Contents] :
         /\ \A i \in unsynced : c[i] \in Survivors(file[i])
         /\ file' = [i \in Inodes |->
                       IF i \notin Named(left) THEN NoFile
                       ELSE IF i \in unsynced
                         THEN [file[i] EXCEPT !.content = c[i], !.synced = TRUE]
                         ELSE file[i]]
=============================================================================
