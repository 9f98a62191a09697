----------------------------- MODULE DiskBudget -----------------------------
(* What imports of runnel-store/src/cas.rs may occupy: DiskUsage and        *)
(* DiskBudget (budget.rs), Layout::usage and Cas::preflight_import.  The    *)
(* decision is taken once, before the first stage; the import then writes   *)
(* chunk by chunk, may be cut short anywhere and be resumed later, while    *)
(* other programs use the same file system.  BlobStore has the order and    *)
(* the durability of these steps, this module has their bytes.              *)
EXTENDS Naturals, Sequences, SequencesExt, FiniteSets, FiniteSetsExt

CONSTANTS
  Blobs, Publication,         \* artifact -> its blobs in publication order, the manifest last
  Length,               \* blob -> length in bytes
  Inodes, None,
  AllocationUnit, CopyBuffer,
  PageSize,             \* of an object
  Objects,              \* the blobs that are objects
  max_bytes, reserve_bytes,
  Capacity, OtherBytes  \* of the file system, and what other programs take at most

VARIABLES
  final,        \* blob -> inode or None: the digest names
  stages,       \* inodes with a name in staging
  file,         \* inode -> [blob, length]
  available,    \* free bytes of the file system
  others,       \* bytes of other programs
  tx            \* the import at work

vars == <<final, stages, file, available, others, tx>>

Importable == DOMAIN Publication
Idle == [at |-> "idle", todo |-> <<>>, tokens |-> {}, stage |-> None, additional |-> 0, taken |-> 0]

-----------------------------------------------------------------------------
RoundUp(bytes) ==
  IF bytes % AllocationUnit = 0 THEN bytes ELSE bytes + (AllocationUnit - (bytes % AllocationUnit))

(* What the file system allocates for a file of this length, and st_blocks  *)
(* reports of it.                                                           *)
Allocated(bytes) == ((bytes + AllocationUnit - 1) \div AllocationUnit) * AllocationUnit
Charged(i) == Allocated(file[i].length)
Total(set, f(_)) == FoldSet(LAMBDA x, total : f(x) + total, 0, set)

(* Layout::usage: every inode is charged once, under its final name.        *)
FinalInodes == {final[b] : b \in Blobs} \ {None}
Usage ==
  [final_bytes |-> Total(FinalInodes, Charged), staging_bytes |-> Total(stages \ FinalInodes, Charged)]

(* Cas::preflight_import: each missing blob in full, less what a resumed    *)
(* stage of it already occupies.                                            *)
Missing(a) == {b \in ToSet(Publication[a]) : final[b] = None}
Monus(m, n) == IF m > n THEN m - n ELSE 0
Additional_AnyStage(a, tokens) ==
  Total(Missing(a), LAMBDA b : Monus(RoundUp(Length[b]), Total({i \in stages : file[i].blob = b}, Charged)))
Additional(a, tokens) ==
  LET staged(b) == Total({i \in tokens : file[i].blob = b}, Charged)
  IN  Total(Missing(a), LAMBDA b : Monus(RoundUp(Length[b]), staged(b)))

(* DiskBudget::preflight                                                    *)
Preflight(additional) ==
  IF Usage.final_bytes + Usage.staging_bytes + additional > max_bytes THEN "budget"
  ELSE IF additional > Monus(available, reserve_bytes) THEN "reserve"
  ELSE "ok"

-----------------------------------------------------------------------------
Init ==
  /\ final = [b \in Blobs |-> None] /\ stages = {}
  /\ file = [i \in Inodes |-> [blob |-> None, length |-> 0]]
  /\ others = 0 /\ available = Capacity
  /\ tx = Idle

(* validate_resumes: stages of blobs of this artifact, one for each at      *)
(* most.  What a stage holds is never longer than its blob.                 *)
TokenSets(a) ==
  {t \in SUBSET {i \in stages : file[i].blob \in ToSet(Publication[a])} : \A i, j \in t : file[i].blob = file[j].blob => i = j}

Manifest(a) == Last(Publication[a])
Import(a, tokens) ==
  /\ tx.at = "idle" /\ final[Manifest(a)] = None
  /\ Preflight(Additional(a, tokens)) = "ok"
  /\ tx' = [Idle EXCEPT !.at = "ensure", !.todo = Publication[a], !.tokens = tokens, !.additional = Additional(a, tokens)]
  /\ UNCHANGED <<final, stages, file, available, others>>

(* Unlinking the last name of an inode frees its bytes.                     *)
Unlink(names, finals) ==
  /\ stages' = names /\ final' = finals
  /\ LET freed == (stages \cup FinalInodes) \ (names \cup {finals[b] : b \in Blobs})
     IN  /\ available' = available + Total(freed, Charged)
         /\ file' = [i \in Inodes |-> IF i \in freed THEN [blob |-> None, length |-> 0] ELSE file[i]]
StagesOf(blobs) == {i \in stages : file[i].blob \in blobs}

(* An import of a committed artifact removes the stages of its blobs.       *)
ImportCommitted(a) ==
  /\ tx.at = "idle" /\ final[Manifest(a)] # None
  /\ Unlink(stages \ StagesOf(ToSet(Publication[a])), final)
  /\ UNCHANGED <<others, tx>>

(* ensure_blob                                                              *)
Blob == Head(tx.todo)
Advance == tx' = IF Len(tx.todo) = 1 THEN Idle ELSE [tx EXCEPT !.at = "ensure", !.todo = Tail(@), !.stage = None]
Reuse ==
  /\ tx.at = "ensure" /\ final[Blob] # None
  /\ Unlink(stages \ StagesOf({Blob}), final)
  /\ Advance /\ UNCHANGED others
CreateStage ==
  /\ tx.at = "ensure" /\ final[Blob] = None /\ StagesOf({Blob}) \cap tx.tokens = {}
  /\ \E i \in Inodes \ (stages \cup FinalInodes) :
       /\ file' = [file EXCEPT ![i] = [blob |-> Blob, length |-> 0]]
       /\ stages' = stages \cup {i}
       /\ tx' = [tx EXCEPT !.at = "copy", !.stage = i]
  /\ UNCHANGED <<final, available, others>>
(* A resumed object is cut back to a page boundary.                         *)
Resume ==
  /\ tx.at = "ensure" /\ final[Blob] = None
  /\ \E i \in StagesOf({Blob}) \cap tx.tokens :
       LET length == file[i].length
           kept == IF Blob \in Objects /\ length < Length[Blob] THEN length - (length % PageSize) ELSE length
       IN  /\ file' = [file EXCEPT ![i].length = kept]
           /\ available' = available + Allocated(length) - Allocated(kept)
           /\ tx' = [tx EXCEPT !.at = "copy", !.stage = i]
  /\ UNCHANGED <<final, stages, others>>
(* One chunk of copy_and_rehash.                                            *)
ChunkEnd(position) == Min({position + CopyBuffer, Length[Blob]})
Write ==
  /\ tx.at = "copy" /\ file[tx.stage].length < Length[Blob]
  /\ LET length == file[tx.stage].length
         grown == ChunkEnd(length)
         more == Allocated(grown) - Allocated(length)
     IN  /\ more <= available
         /\ file' = [file EXCEPT ![tx.stage].length = grown]
         /\ available' = available - more
  /\ UNCHANGED <<final, stages, others, tx>>
Rename ==
  /\ tx.at = "copy" /\ file[tx.stage].length = Length[Blob]
  /\ final' = [final EXCEPT ![Blob] = tx.stage] /\ stages' = stages \ {tx.stage}
  /\ Advance /\ UNCHANGED <<file, available, others>>
Link ==
  /\ tx.at = "copy" /\ file[tx.stage].length = Length[Blob]
  /\ final' = [final EXCEPT ![Blob] = tx.stage]
  /\ tx' = [tx EXCEPT !.at = "linked"]
  /\ UNCHANGED <<stages, file, available, others>>
(* An alias that cannot be removed does not stop the import.                *)
UnlinkAlias(fails) ==
  /\ tx.at = "linked"
  /\ Unlink(IF fails THEN stages ELSE stages \ {tx.stage}, final)
  /\ Advance /\ UNCHANGED others

(* An error, a cancellation, a full disk or a crash: what is staged stays.  *)
Stop == tx.at # "idle" /\ tx' = Idle /\ UNCHANGED <<final, stages, file, available, others>>

(* gc: what no manifest refers to, and the stages if asked.                 *)
Live == UNION {ToSet(Publication[a]) : a \in {a \in Importable : final[Manifest(a)] # None}}
Gc(remove_staging) ==
  /\ tx.at = "idle"
  /\ Unlink(IF remove_staging THEN {} ELSE stages, [b \in Blobs |-> IF b \in Live THEN final[b] ELSE None])
  /\ UNCHANGED <<others, tx>>

(* Other programs on the same file system.                                  *)
OthersWrite ==
  /\ others + AllocationUnit <= OtherBytes /\ available >= AllocationUnit
  /\ others' = others + AllocationUnit /\ available' = available - AllocationUnit
  /\ tx' = IF tx.at = "idle" THEN tx ELSE [tx EXCEPT !.taken = @ + AllocationUnit]
  /\ UNCHANGED <<final, stages, file>>
OthersFree ==
  /\ others > 0 /\ tx.at = "idle"
  /\ others' = others - AllocationUnit /\ available' = available + AllocationUnit
  /\ UNCHANGED <<final, stages, file, tx>>

Next ==
  \/ \E a \in Importable : ImportCommitted(a) \/ \E tokens \in TokenSets(a) : Import(a, tokens)
  \/ Reuse \/ CreateStage \/ Resume \/ Write \/ Rename \/ Link \/ Stop
  \/ \E fails \in BOOLEAN : UnlinkAlias(fails)
  \/ \E remove_staging \in BOOLEAN : Gc(remove_staging)
  \/ OthersWrite \/ OthersFree


-----------------------------------------------------------------------------
(* The one decision holds for the whole import, at every chunk of it,       *)
(* resumed or not.  What Layout::usage counts is what the store takes from  *)
(* the file system, whatever stages and hard-linked aliases interrupted     *)
(* imports left; it never exceeds max_bytes; and an import that writes eats *)
(* into the reserve only by what other programs took after the decision.    *)
WithinBudget ==
  /\ Usage.final_bytes + Usage.staging_bytes + available + others = Capacity
  /\ Usage.final_bytes + Usage.staging_bytes <= max_bytes
  /\ tx.additional > 0 => available + tx.taken >= reserve_bytes

(* Bytes an interrupted import left do not stand in the way of resuming it: *)
(* when every stage is resumed, the budget refuses the import exactly if it *)
(* would not fit without any stage.                                         *)
ResumeAdmitted ==
  tx.at = "idle" =>
    \A a \in Importable : stages \in TokenSets(a) /\ final[Manifest(a)] = None
                           /\ (\A i \in stages : final[file[i].blob] = None) =>
      (Preflight(Additional(a, stages)) = "budget"
         <=> Total(FinalInodes, Charged) + Total(Missing(a), LAMBDA b : Allocated(Length[b])) > max_bytes)
=============================================================================
