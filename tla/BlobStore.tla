----------------------------- MODULE BlobStore -----------------------------
(***************************************************************************)
(* Cas of runnel-store/src/cas.rs: the transactions import and gc on the   *)
(* directories of layout.rs, one action per system call that               *)
(* changes a name or makes it durable, with a crash of the process or of   *)
(* the machine between any two of them.                                    *)
(*                                                                         *)
(* The local mutex and the lock file admit one transaction at a time, and  *)
(* the kernel releases the lock of a process that dies: tx is that         *)
(* transaction.  What ends a transaction without touching the store (an    *)
(* invalid manifest, a token of another artifact, a refusal of the disk    *)
(* budget) is no step.  A digest name cannot appear while a transaction    *)
(* holds the lock, so the branches of ensure_blob that find one after a    *)
(* failed rename with another file behind it are not reached.              *)
(***************************************************************************)
EXTENDS FileSystem, Functions

CONSTANTS Artifacts,
          Refs,       \* objects of an artifact, in manifest order
          Room,       \* blobs the disk budget has room for
          MaxFaults   \* bound on crashes, failed calls and cancellations

Objects == UNION {Range(Refs[a]) : a \in Artifacts}

Manifest(a) == [kind |-> "manifest", id |-> a]
Table(o) == [kind |-> "page-table", id |-> o]
Object(o) == [kind |-> "object", id |-> o]

\* The blobs an artifact's manifest refers to.
Dependencies(a) == {Table(o) : o \in Range(Refs[a])} \cup {Object(o) : o \in Range(Refs[a])}

ASSUME StoreAssumption ==
  /\ MaxFaults \in Nat /\ Room \in Nat
  /\ Refs \in [Artifacts -> Seq(Objects)]
  /\ Blobs = {Manifest(a) : a \in Artifacts} \cup {Table(o) : o \in Objects}
               \cup {Object(o) : o \in Objects}
  /\ None \notin Inodes \cup Blobs \cup Artifacts

VARIABLES tx,        \* the transaction under way
          receipts,  \* artifacts whose import has returned a receipt (history)
          faults     \* crashes, failures and cancellations so far

vars == <<dir, disk, renamed, file, tx, receipts, faults>>

Idle == [at |-> "idle",
         artifact |-> None,  \* what is imported
         todo |-> <<>>,      \* blobs still to ensure
         stage |-> None,     \* the stage of the first of them
         tokens |-> {},      \* stages to resume
         syncs |-> <<>>,     \* directories still to sync
         modified |-> FALSE, \* a stage was removed by this cleanup
         blobs |-> {},       \* digest names gc has still to unlink
         stages |-> {}]      \* stages gc has still to unlink

Init ==
  /\ FsInit
  /\ tx = Idle
  /\ receipts = {}
  /\ faults = 0

-----------------------------------------------------------------------------
(* What the code finds out by reading. *)

Exists(b) == dir.final[b] # None
Verified(b) == Exists(b) /\ file[dir.final[b]].content = "full"

\* Mutant: the manifest goes first.
Order_ManifestFirst(a) == <<Manifest(a)>>
              \o [n \in 1..Len(Refs[a]) |-> Table(Refs[a][n])]
              \o [n \in 1..Len(Refs[a]) |-> Object(Refs[a][n])]

\* import publishes the page tables, then the objects, then the manifest.
Order(a) == [n \in 1..Len(Refs[a]) |-> Table(Refs[a][n])]
              \o [n \in 1..Len(Refs[a]) |-> Object(Refs[a][n])]
              \o <<Manifest(a)>>

Blob == Head(tx.todo)

At(step) == tx.at = step
Goto(step) == tx' = [tx EXCEPT !.at = step]
End == tx' = Idle

\* Names and files stay; so does everything but the transaction.
Quiet == UNCHANGED fsVars /\ UNCHANGED receipts

Fault == faults < MaxFaults /\ faults' = faults + 1
NoFault == UNCHANGED faults

\* The next blob, or the receipt.
NextBlob ==
  IF Len(tx.todo) = 1
    THEN End /\ receipts' = receipts \cup {tx.artifact}
    ELSE tx' = [tx EXCEPT !.at = "ensure", !.todo = Tail(@), !.stage = None]
         /\ UNCHANGED receipts

-----------------------------------------------------------------------------
(* import_with_resumes: one branch for an artifact whose manifest is there,  *)
(* and one that ensures each blob in turn.                                   *)

\* At most one token for each blob, each naming a stage that is there.
TokenSets(a) ==
  {s \in SUBSET {i \in dir.staging : file[i].blob \in Dependencies(a) \cup {Manifest(a)}} :
     \A i, j \in s : file[i].blob = file[j].blob => i = j}

ImportCommitted(a) ==
  /\ At("idle")
  /\ Exists(Manifest(a))
  /\ Verified(Manifest(a)) /\ \A b \in Dependencies(a) : Verified(b)
  /\ tx' = [Idle EXCEPT !.at = "clean_committed", !.artifact = a]
  /\ Quiet /\ NoFault

\* Layout::usage and preflight_import, with a blob as the unit: what has a name is
\* charged once, and what is missing is planned in full, less what a token names.
\* A stage that is not complete takes anything up to a blob, so that an import is
\* refused for certain only by the complete ones, and admitted for certain only
\* when every stage may count in full.
Occupied == Named(dir) \ {None}
Complete == {i \in Occupied : file[i].content = "full"}
Missing(a) == {b \in Dependencies(a) \cup {Manifest(a)} : ~Exists(b)}
Required(a, tokens, charged) ==
  Cardinality(charged \ {i \in tokens : file[i].blob \in Missing(a)}) + Cardinality(Missing(a))
MayFit(a, tokens) == Required(a, tokens, Complete) <= Room
Fits(a, tokens) == Required(a, tokens, Occupied) <= Room

Import(a, tokens) ==
  /\ At("idle")
  /\ ~Exists(Manifest(a))
  /\ MayFit(a, tokens)
  /\ tx' = [Idle EXCEPT !.at = "ensure", !.artifact = a, !.todo = Order(a),
                        !.tokens = tokens]
  /\ Quiet /\ NoFault

\* cleanup_committed_stages and cleanup_matching_stages remove one stage after
\* the other.
Redundant ==
  IF At("clean_committed")
    THEN UNION {Stages(b) : b \in Dependencies(tx.artifact) \cup {Manifest(tx.artifact)}}
    ELSE Stages(Blob)

Clean(i) ==
  /\ At("clean_committed") \/ At("clean_reused")
  /\ i \in Redundant
  /\ UnlinkStage(i)
  /\ tx' = [tx EXCEPT !.modified = TRUE]
  /\ UNCHANGED receipts /\ NoFault

\* A failed unlink ends the transaction, after a sync whose result is ignored.
CleanFails ==
  /\ At("clean_committed") \/ At("clean_reused")
  /\ Redundant # {}
  /\ \/ tx.modified /\ SyncStaging
     \/ UNCHANGED fsVars
  /\ End /\ UNCHANGED receipts /\ Fault

\* Mutant: the retry forgets the manifest directory.
CleanDone_NoManifestSync ==
  /\ At("clean_committed") \/ At("clean_reused")
  /\ Redundant = {}
  /\ tx' = IF At("clean_committed")
             THEN [tx EXCEPT !.at = "sync_committed",
                             !.syncs = <<"page-table", "object", "staging">>]
             ELSE [tx EXCEPT !.at = "confirm_staging", !.modified = FALSE]
  /\ Quiet /\ NoFault

CleanDone ==
  /\ At("clean_committed") \/ At("clean_reused")
  /\ Redundant = {}
  /\ tx' = IF At("clean_committed")
             THEN [tx EXCEPT !.at = "sync_committed",
                             !.syncs = <<"page-table", "object", "staging", "manifest">>]
             ELSE [tx EXCEPT !.at = "confirm_staging", !.modified = FALSE]
  /\ Quiet /\ NoFault

\* confirm_committed_durability: dependencies, staging, and the manifest last.
SyncDir(d) == IF d = "staging" THEN SyncStaging ELSE SyncDigestDir(d)

SyncCommitted ==
  /\ At("sync_committed")
  /\ SyncDir(Head(tx.syncs))
  /\ IF Len(tx.syncs) = 1
       THEN End /\ receipts' = receipts \cup {tx.artifact}
       ELSE tx' = [tx EXCEPT !.syncs = Tail(@)] /\ UNCHANGED receipts
  /\ NoFault

-----------------------------------------------------------------------------
(* ensure_blob.                                                              *)

\* Mutant: the stages of a blob go before its digest name is confirmed.
Reuse_Unconfirmed ==
  /\ At("ensure")
  /\ Verified(Blob)
  /\ Goto("clean_reused")
  /\ Quiet /\ NoFault

\* The digest name is there: confirm it before the stages of the blob go.
Reuse ==
  /\ At("ensure")
  /\ Verified(Blob)
  /\ SyncDigestDir(Blob.kind)
  /\ Goto("clean_reused")
  /\ UNCHANGED receipts /\ NoFault

\* Mutant: one fixed stage name for each blob.
CreateStage_FixedName(i) ==
  /\ At("ensure")
  /\ ~Exists(Blob)
  /\ \A t \in tx.tokens : file[t].blob # Blob
  /\ Stages(Blob) = {}
  /\ i = NewFile
  /\ CreateLeaf(i, Blob)
  /\ tx' = [tx EXCEPT !.at = "created", !.stage = i]
  /\ UNCHANGED receipts /\ NoFault

CreateStage(i) ==
  /\ At("ensure")
  /\ ~Exists(Blob)
  /\ \A t \in tx.tokens : file[t].blob # Blob
  /\ i = NewFile
  /\ CreateLeaf(i, Blob)
  /\ tx' = [tx EXCEPT !.at = "created", !.stage = i]
  /\ UNCHANGED receipts /\ NoFault

SyncCreated ==
  /\ At("created")
  /\ SyncStaging
  /\ Goto("copy")
  /\ UNCHANGED receipts /\ NoFault

\* The unlink and the sync that follow a failed sync may fail as well.
SyncCreatedFails ==
  /\ At("created")
  /\ \/ UNCHANGED fsVars
     \/ UnlinkStage(tx.stage)
     \/ SyncStaging
     \/ /\ dir' = [dir EXCEPT !.staging = @ \ {tx.stage}]
        /\ disk' = [disk EXCEPT !.staging = dir'.staging]
        /\ UNCHANGED <<renamed, file>>
  /\ End /\ UNCHANGED receipts /\ Fault

Resume(i) ==
  /\ At("ensure")
  /\ ~Exists(Blob)
  /\ i \in tx.tokens /\ file[i].blob = Blob
  /\ tx' = [tx EXCEPT !.at = "copy", !.stage = i]
  /\ Quiet /\ NoFault

\* copy_and_rehash, then verify_digest and verify on the stage: a stage whose
\* prefix differs from the source is refused.
Copy ==
  /\ At("copy")
  /\ \/ file[tx.stage].content = "partial" /\ Write(tx.stage, "full")
     \/ file[tx.stage].content = "full" /\ UNCHANGED fsVars
  /\ Goto("sync_file")
  /\ UNCHANGED receipts /\ NoFault

\* The copy is cut short, or the source has other bytes than its digest says.
CopyFails ==
  /\ At("copy")
  /\ \/ UNCHANGED fsVars
     \/ /\ file[tx.stage].content = "partial"
        /\ \E c \in {"partial", "corrupt"} : Write(tx.stage, c)
  /\ End /\ UNCHANGED receipts /\ Fault

\* The staged prefix differs from the source.
CopyRefused ==
  /\ At("copy")
  /\ file[tx.stage].content = "corrupt"
  /\ End /\ Quiet /\ NoFault

\* Mutant: the file is published before it is synced.
SyncStageFile_Skipped ==
  /\ At("sync_file")
  /\ Goto("rename")
  /\ Quiet /\ NoFault

SyncStageFile ==
  /\ At("sync_file")
  /\ SyncFile(tx.stage)
  /\ Goto("rename")
  /\ UNCHANGED receipts /\ NoFault

RenameStage ==
  /\ At("rename")
  /\ Rename(tx.stage)
  /\ Goto("confirm")
  /\ UNCHANGED receipts /\ NoFault

RenameUnsupported ==
  /\ At("rename")
  /\ Goto("link")
  /\ Quiet /\ NoFault

LinkStage ==
  /\ At("link")
  /\ Link(tx.stage)
  /\ Goto("linked")
  /\ UNCHANGED receipts /\ NoFault

\* An error of rename or link does not tell whether the name was made.
PublishAmbiguous ==
  /\ \/ At("rename") /\ Rename(tx.stage)
     \/ At("link") /\ Link(tx.stage)
     \/ (At("rename") \/ At("link")) /\ UNCHANGED fsVars
  /\ Goto("resolve")
  /\ UNCHANGED receipts /\ Fault

\* The directories tell: the final name with the stage, without it, or neither.
Resolve ==
  /\ At("resolve")
  /\ IF ~Exists(Blob) THEN End
     ELSE Goto(IF tx.stage \in dir.staging THEN "linked" ELSE "confirm")
  /\ Quiet /\ NoFault

\* finish_link_publication: the destination first, then the alias.
ConfirmLink ==
  /\ At("linked")
  /\ SyncDigestDir(Blob.kind)
  /\ Goto("unlink")
  /\ UNCHANGED receipts /\ NoFault

UnlinkAlias ==
  /\ At("unlink")
  /\ UnlinkStage(tx.stage)
  /\ Goto("confirm_staging")
  /\ UNCHANGED receipts /\ NoFault

UnlinkAliasFails ==
  /\ At("unlink")
  /\ Goto("confirm_staging")
  /\ UNCHANGED fsVars /\ UNCHANGED receipts /\ Fault

\* confirm_blob_durability.
ConfirmRename ==
  /\ At("confirm")
  /\ SyncDigestDir(Blob.kind)
  /\ Goto("confirm_staging")
  /\ UNCHANGED receipts /\ NoFault

ConfirmStaging ==
  /\ At("confirm_staging")
  /\ SyncStaging
  /\ NextBlob
  /\ NoFault

-----------------------------------------------------------------------------
(* gc: the plan is complete before the first unlink.                         *)

Visible == {a \in Artifacts : Exists(Manifest(a))}

\* Mutant: page tables are not marked.
Live_ObjectsOnly == UNION {{Object(o) : o \in Range(Refs[a])} : a \in Visible}

Live == UNION {Dependencies(a) : a \in Visible}
Garbage == {b \in Blobs : Exists(b) /\ b.kind # "manifest" /\ b \notin Live}

Gc(remove_staging) ==
  /\ At("idle")
  /\ \A a \in Visible : \A b \in Dependencies(a) \cup {Manifest(a)} : Verified(b)
  /\ \A b \in Garbage : Verified(b)
  /\ tx' = [Idle EXCEPT !.at = "sweep", !.blobs = Garbage,
                        !.stages = IF remove_staging THEN dir.staging ELSE {}]
  /\ Quiet /\ NoFault

\* Objects, then page tables, then stages.
SweepDigest(b) ==
  /\ At("sweep")
  /\ b \in tx.blobs
  /\ b.kind = "page-table" => \A c \in tx.blobs : c.kind = "page-table"
  /\ UnlinkDigest(b)
  /\ tx' = [tx EXCEPT !.blobs = @ \ {b},
                      !.syncs = IF b.kind \in Range(@) THEN @ ELSE <<b.kind>> \o @]
  /\ UNCHANGED receipts /\ NoFault

SweepStage(i) ==
  /\ At("sweep")
  /\ tx.blobs = {}
  /\ i \in tx.stages
  /\ UnlinkStage(i)
  /\ tx' = [tx EXCEPT !.stages = @ \ {i},
                      !.syncs = IF "staging" \in Range(@) THEN @ ELSE Append(@, "staging")]
  /\ UNCHANGED receipts /\ NoFault

\* A failed unlink or a cancellation ends the sweep; what it has done is synced.
SweepStops ==
  /\ At("sweep")
  /\ tx.blobs \cup tx.stages # {}
  /\ tx' = [tx EXCEPT !.at = "sync_swept", !.blobs = {}, !.stages = {}]
  /\ UNCHANGED fsVars /\ UNCHANGED receipts /\ Fault

SweepDone ==
  /\ At("sweep")
  /\ tx.blobs = {} /\ tx.stages = {}
  /\ Goto("sync_swept")
  /\ Quiet /\ NoFault

\* sync_gc_directories goes on after a failed sync.
SyncSwept ==
  /\ At("sync_swept")
  /\ IF tx.syncs = <<>>
       THEN End /\ UNCHANGED fsVars /\ NoFault
       ELSE /\ tx' = [tx EXCEPT !.syncs = Tail(@)]
            /\ \/ SyncDir(Head(tx.syncs)) /\ NoFault
               \/ UNCHANGED fsVars /\ Fault
  /\ UNCHANGED receipts

-----------------------------------------------------------------------------
(* Failures.  A failed sync, a cancellation at a checkpoint and the death of  *)
(* the process end a transaction where it is.                                *)

Stop ==
  /\ ~At("idle")
  /\ End
  /\ UNCHANGED fsVars /\ UNCHANGED receipts /\ Fault

MachineCrash ==
  /\ Crash
  /\ End /\ UNCHANGED receipts /\ Fault

-----------------------------------------------------------------------------
ImportStep ==
  \/ \E a \in Artifacts : ImportCommitted(a) \/ \E t \in TokenSets(a) : Import(a, t)
  \/ \E i \in Inodes : Clean(i) \/ CreateStage(i) \/ Resume(i)
  \/ CleanFails \/ CleanDone \/ SyncCommitted
  \/ Reuse \/ SyncCreated \/ SyncCreatedFails \/ Copy \/ CopyFails
  \/ CopyRefused \/ SyncStageFile
  \/ RenameStage \/ RenameUnsupported \/ LinkStage \/ PublishAmbiguous \/ Resolve
  \/ ConfirmLink \/ UnlinkAlias \/ UnlinkAliasFails \/ ConfirmRename \/ ConfirmStaging

GcStep ==
  \/ \E remove_staging \in BOOLEAN : Gc(remove_staging)
  \/ \E b \in Blobs : SweepDigest(b)
  \/ \E i \in Inodes : SweepStage(i)
  \/ SweepStops \/ SweepDone \/ SyncSwept

Next == ImportStep \/ GcStep \/ Stop \/ MachineCrash

Spec == Init /\ [][Next]_vars

\* A transaction that nothing stops goes on.  Whoever wants the artifact tries again
\* without tokens as often as the import may begin, and after a refusal for lack of
\* room collects what is left over, stages included.
Progress ==
  \/ \E i \in Inodes : Clean(i) \/ CreateStage(i) \/ Resume(i) \/ SweepStage(i)
  \/ \E b \in Blobs : SweepDigest(b)
  \/ CleanDone \/ SyncCommitted \/ Reuse \/ SyncCreated \/ Copy \/ CopyRefused
  \/ SyncStageFile \/ RenameStage \/ LinkStage \/ Resolve \/ ConfirmLink
  \/ UnlinkAlias \/ ConfirmRename \/ ConfirmStaging \/ SweepDone \/ SyncSwept

FairSpec ==
  /\ Spec
  /\ WF_vars(Progress)
  /\ \A a \in Artifacts :
       /\ SF_vars(ImportCommitted(a) \/ (Fits(a, {}) /\ Import(a, {})))
       /\ SF_vars(~Exists(Manifest(a)) /\ ~Fits(a, {}) /\ Gc(TRUE))

-----------------------------------------------------------------------------
\* A digest name, seen by a process or found after a crash, denotes a complete
\* file of its blob that is durable: nothing is published before it is copied,
\* verified and synced.
FinalNamesComplete ==
  \A names \in {dir, disk} : \A b \in Blobs : names.final[b] # None =>
    LET f == file[names.final[b]] IN f.blob = b /\ f.content = "full" /\ f.synced

\* The manifest is the commit point: wherever it is, in the directories or on the
\* disk, its page tables and objects are too, so that open_artifact, which takes no
\* lock, and a restart never find a manifest without them.
CommittedClosed ==
  \A names \in {dir, disk} : \A a \in Artifacts :
    names.final[Manifest(a)] # None => \A b \in Dependencies(a) : names.final[b] # None

\* A transaction at one of these steps, which the crash of the machine does not end,
\* removes a stage only once the digest name of its blob is durable.
AliasesOutlast(steps) ==
  tx.at \in steps /\ tx'.at # "idle" =>
    \A i \in dir.staging \ dir'.staging : disk.final[file[i].blob] # None

\* While import ensures a blob, "the destination" is confirmed "before removing any
\* recovery aliases": a failed sync or a crash finds the blob under its digest name
\* or under the name of a stage.
AliasesOutlastPublication == [][AliasesOutlast({"clean_reused", "unlink"})]_vars

\* The same for every step of import, the retry of a committed artifact included:
\* "every crash point has at least one durable name".
AliasesOutlastImport ==
  [][AliasesOutlast({"clean_reused", "unlink", "clean_committed"})]_vars

\* What import, gc and a restart do to whole artifacts: a visible artifact vanishes
\* only in a crash that comes before its manifest is durable, and import returns a
\* receipt only after, so that no later import, collection, failure or crash loses
\* an artifact for which there is a receipt.
Catalog == INSTANCE ArtifactCatalog WITH
  visible <- Visible,
  durable <- {a \in Artifacts : disk.final[Manifest(a)] # None},
  receipts <- receipts

ImplementsCatalog == Catalog!Spec

\* Whatever crashes, failures and half-done imports came before, an import that is
\* tried again ends with a receipt, as long as the budget has room for all artifacts.
\* Stages that are left over count against the budget, and a retry that names none of
\* them may be refused; then a collection of the stages makes room again, and nothing
\* else that is left blocks the import.
RetrySucceeds ==
  Cardinality(Blobs) <= Room => \A a \in Artifacts : <>(a \in receipts)
=============================================================================
