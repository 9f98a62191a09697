-------------------------- MODULE BlobStoreProofs ---------------------------
(* What holds of the store of runnel-store/src/cas.rs for any artifacts, any *)
(* objects they share, any files and any number of faults.                   *)
EXTENDS BlobStore, TLAPS

(* The names and the files have their types.                                 *)
Filed ==
  /\ dir \in Names
  /\ disk \in Names
  /\ renamed \in SUBSET Inodes
  /\ file \in [Inodes -> File]

Durable(b) == dir.final[b] # None /\ disk.final[b] # None

(* A manifest that is on the disk is also visible, since gc unlinks none, and *)
(* the dependencies of a visible one are durable.                            *)
Closed ==
  \A a \in Artifacts :
    /\ disk.final[Manifest(a)] # None => dir.final[Manifest(a)] # None
    /\ dir.final[Manifest(a)] # None => \A b \in Dependencies(a) : Durable(b)

Ensuring == {"ensure", "created", "copy", "sync_file", "rename", "link", "resolve",
             "confirm", "linked", "unlink", "confirm_staging", "clean_reused"}
Staged == {"created", "copy", "sync_file", "rename", "link", "resolve", "confirm",
           "linked", "unlink"}
Retried == {"clean_committed", "sync_committed"}

(* What is left to ensure of artifact a ends with its manifest, and a         *)
(* dependency that is no longer on the list is durable.                      *)
Remaining(a, todo) ==
  /\ todo \in Seq(Dependencies(a) \cup {Manifest(a)})
  /\ Len(todo) > 0
  /\ \A n \in 1..Len(todo) : todo[n] = Manifest(a) <=> n = Len(todo)
Done(a, todo) ==
  \A b \in Dependencies(a) : (\E n \in 1..Len(todo) : todo[n] = b) \/ Durable(b)

SyncsLeft == {<<"page-table", "object", "staging", "manifest">>,
              <<"object", "staging", "manifest">>, <<"staging", "manifest">>,
              <<"manifest">>}

(* What the transaction relies on at each of its steps.                      *)
ImportKnows ==
  /\ tx.at \in Ensuring =>
       /\ tx.artifact \in Artifacts
       /\ Remaining(tx.artifact, tx.todo)
       /\ Done(tx.artifact, tx.todo)
  /\ tx.at \in Staged => tx.stage \in Inodes /\ file[tx.stage].blob = Blob
  /\ tx.at \in {"sync_file", "rename", "link"} => file[tx.stage].content = "full"
  /\ tx.at \in {"rename", "link"} => file[tx.stage].synced
  /\ tx.at \in {"confirm", "linked"} => dir.final[Blob] # None
  /\ tx.at \in {"clean_reused", "unlink", "confirm_staging"} => Durable(Blob)
RetryKnows ==
  /\ tx.at \in Retried => tx.artifact \in Artifacts /\ dir.final[Manifest(tx.artifact)] # None
  /\ tx.at = "sync_committed" => tx.syncs \in SyncsLeft
GcKnows ==
  tx.at = "sweep" =>
    \A b \in tx.blobs : b \in Blobs /\ b.kind # "manifest" /\ b \notin Live

StoreInv ==
  /\ DOMAIN tx = DOMAIN Idle
  /\ Filed
  /\ FinalNamesComplete
  /\ Closed
  /\ ImportKnows
  /\ RetryKnows
  /\ GcKnows

-----------------------------------------------------------------------------
(* The blobs of an artifact, and the order import takes them in.             *)

(* Manifests name their artifact, and no dependency is a manifest.           *)
LEMMA BlobFacts ==
  ASSUME NEW a \in Artifacts
  PROVE  /\ Manifest(a) \in Blobs /\ Manifest(a).kind = "manifest"
         /\ \A c : Manifest(a) = Manifest(c) => a = c
         /\ Dependencies(a) \subseteq Blobs
         /\ \A b \in Dependencies(a) : b.kind # "manifest" /\ \A c : b # Manifest(c)
<1>1. Range(Refs[a]) \subseteq Objects
  BY DEF Objects
<1>2. \A o : Table(o).kind = "page-table" /\ Object(o).kind = "object"
  BY DEF Table, Object
<1>3. \A c : Manifest(c).kind = "manifest" /\ Manifest(c).id = c
  BY DEF Manifest
<1>4. Dependencies(a) \subseteq Blobs
  BY <1>1, StoreAssumption DEF Dependencies
<1>5. \A b \in Dependencies(a) : b.kind # "manifest"
  BY <1>2 DEF Dependencies
<1>6. Manifest(a) \in Blobs
  BY StoreAssumption
<1> QED  BY <1>3, <1>4, <1>5, <1>6

(* None is no blob, no inode and no artifact.                                *)
LEMMA BlobsAreNotNone == None \notin Blobs /\ None \notin Inodes /\ None \notin Artifacts
BY StoreAssumption

(* The order of import names every dependency, the manifest last.            *)
LEMMA OrderIsRemaining ==
  ASSUME NEW a \in Artifacts
  PROVE  /\ Remaining(a, Order(a))
         /\ \A b \in Dependencies(a) : \E n \in 1..Len(Order(a)) : Order(a)[n] = b
<1> DEFINE S == Dependencies(a) \cup {Manifest(a)}
           m == Len(Refs[a])
           t == [n \in 1..m |-> Table(Refs[a][n])]
           o == [n \in 1..m |-> Object(Refs[a][n])]
<1>1. Refs[a] \in Seq(Objects) /\ m \in Nat /\ DOMAIN Refs[a] = 1..m
  BY StoreAssumption
<1>2. \A n \in 1..m : Refs[a][n] \in Range(Refs[a])
  BY <1>1 DEF Range
<1>3. \A n \in 1..m : Table(Refs[a][n]) \in Dependencies(a) /\ Object(Refs[a][n]) \in Dependencies(a)
  BY <1>2 DEF Dependencies
<1> HIDE DEF m
<1>4. t \in Seq(Dependencies(a)) /\ Len(t) = m /\ \A n \in 1..m : t[n] = Table(Refs[a][n])
  BY <1>1, <1>3
<1>5. o \in Seq(Dependencies(a)) /\ Len(o) = m /\ \A n \in 1..m : o[n] = Object(Refs[a][n])
  BY <1>1, <1>3
<1>6. Order(a) = t \o o \o <<Manifest(a)>>
  BY DEF Order, m
<1> HIDE DEF t, o
<1> DEFINE p == t \o o
<1>7. /\ p \in Seq(Dependencies(a)) /\ Len(p) = m + m
      /\ \A n \in 1..m : p[n] = Table(Refs[a][n]) /\ p[n + m] = Object(Refs[a][n])
  <2>1. p \in Seq(Dependencies(a))
    BY <1>4, <1>5
  <2>3. Len(p) = m + m
    BY <1>4, <1>5
  <2>2. ASSUME NEW n \in 1..m
        PROVE  p[n] = Table(Refs[a][n]) /\ p[n + m] = Object(Refs[a][n])
    BY <1>1, <1>4, <1>5
  <2> QED  BY <2>1, <2>2, <2>3, Zenon
<1> HIDE DEF p
<1>8. /\ Order(a) \in Seq(S) /\ Len(Order(a)) = m + m + 1
      /\ \A n \in 1..(m + m) : Order(a)[n] = p[n]
      /\ Order(a)[m + m + 1] = Manifest(a)
  <2>1. p \in Seq(S) /\ <<Manifest(a)>> \in Seq(S) /\ Len(<<Manifest(a)>>) = 1
    BY <1>7
  <2>2. Order(a) = p \o <<Manifest(a)>>
    BY <1>6 DEF p
  <2> HIDE DEF S
  <2>3. Order(a) \in Seq(S) /\ Len(Order(a)) = Len(p) + 1
    BY <2>1, <2>2
  <2>4. \A n \in 1..Len(p) : Order(a)[n] = p[n]
    BY <2>1, <2>2
  <2>5. Order(a)[Len(p) + 1] = Manifest(a)
    BY <2>1, <2>2
  <2> QED  BY <1>7, <2>3, <2>4, <2>5
<1>9. \A n \in 1..(m + m) : p[n] \in Dependencies(a)
  BY <1>1, <1>7
<1>10. \A n \in 1..Len(Order(a)) : Order(a)[n] = Manifest(a) <=> n = Len(Order(a))
  BY <1>1, <1>8, <1>9, BlobFacts
<1>11. ASSUME NEW b \in Dependencies(a)
       PROVE  \E n \in 1..Len(Order(a)) : Order(a)[n] = b
  <2> PICK r \in Range(Refs[a]) : b = Table(r) \/ b = Object(r)
    BY DEF Dependencies
  <2> PICK n \in 1..m : r = Refs[a][n]
    BY <1>1 DEF Range
  <2>1. Order(a)[n] = Table(r) /\ Order(a)[n + m] = Object(r)
    BY <1>1, <1>7, <1>8
  <2>2. n \in 1..Len(Order(a)) /\ n + m \in 1..Len(Order(a))
    BY <1>1, <1>8
  <2> QED  BY <2>1, <2>2
<1> QED  BY <1>1, <1>8, <1>10, <1>11 DEF Remaining

(* The first of the blobs that remain, and what remains after it.            *)
LEMMA HeadAndTail ==
  ASSUME NEW a \in Artifacts, NEW todo, Remaining(a, todo)
  PROVE  /\ Head(todo) \in Dependencies(a) \cup {Manifest(a)}
         /\ Head(todo) \in Blobs
         /\ Head(todo) = Manifest(a) <=> Len(todo) = 1
         /\ Len(todo) # 1 => Remaining(a, Tail(todo))
         /\ \A b : (\E n \in 1..Len(todo) : todo[n] = b)
                     => b = Head(todo) \/ (\E n \in 1..Len(Tail(todo)) : Tail(todo)[n] = b)
<1> DEFINE S == Dependencies(a) \cup {Manifest(a)}
<1>0. todo \in Seq(S) /\ Len(todo) > 0 /\ Len(todo) \in Nat
  BY DEF Remaining
<1>1. Head(todo) = todo[1] /\ Head(todo) \in S
  BY <1>0
<1>2. Head(todo) = Manifest(a) <=> Len(todo) = 1
  <2>1. 1 \in 1..Len(todo)
    BY <1>0
  <2> QED  BY <1>1, <2>1, SMTT(30) DEF Remaining
<1>3. /\ Tail(todo) \in Seq(S) /\ Len(Tail(todo)) = Len(todo) - 1
      /\ \A n \in 1..Len(Tail(todo)) : Tail(todo)[n] = todo[n + 1]
  BY <1>0
<1>4. ASSUME Len(todo) # 1  PROVE Remaining(a, Tail(todo))
  <2>1. Len(Tail(todo)) > 0 /\ Len(Tail(todo)) \in Nat
    BY <1>0, <1>3, <1>4, SMTT(30)
  <2>2. ASSUME NEW n \in 1..Len(Tail(todo))
        PROVE  Tail(todo)[n] = Manifest(a) <=> n = Len(Tail(todo))
    <3>1. n + 1 \in 1..Len(todo) /\ (n + 1 = Len(todo) <=> n = Len(Tail(todo)))
      BY <1>0, <1>3, <2>1
    <3> QED  BY <3>1, <1>3, Zenon DEF Remaining
  <2> QED  BY <1>3, <2>1, <2>2, Zenon DEF Remaining
<1>5. ASSUME NEW n \in 1..Len(todo)
      PROVE  todo[n] = Head(todo) \/ (\E k \in 1..Len(Tail(todo)) : Tail(todo)[k] = todo[n])
  <2>1. CASE n = 1
    BY <2>1, <1>1
  <2>2. CASE n # 1
    <3>1. n - 1 \in 1..Len(Tail(todo)) /\ Tail(todo)[n - 1] = todo[n]
      BY <2>2, <1>0, <1>3
    <3> QED  BY <3>1
  <2> QED  BY <2>1, <2>2
<1>6. Head(todo) \in Blobs
  BY <1>1, BlobFacts
<1> QED  BY <1>1, <1>2, <1>4, <1>5, <1>6

-----------------------------------------------------------------------------
(* What the calls of the file system do to the digest names.                 *)

(* A call that leaves the digest names alone, and the files behind them.     *)
Aside ==
  /\ dir'.final = dir.final /\ disk'.final = disk.final
  /\ \A b \in Blobs : \A i \in {dir.final[b], disk.final[b]} : i # None => file'[i] = file[i]

(* A sync: a digest name on the disk is what it was, or what processes see.  *)
Flush ==
  /\ dir' = dir /\ file' = file
  /\ \A b \in Blobs : disk'.final[b] \in {dir.final[b], disk.final[b]}

(* Creating a staging file happens aside from the final names, ...           *)
LEMMA CreateLeafAside ==
  ASSUME Filed, NEW b \in Blobs, NEW i \in Inodes, i = NewFile, CreateLeaf(i, b)
  PROVE  Filed' /\ Aside /\ file'[i].blob = b
<1>1. i \in Unnamed
  BY StoreAssumption DEF NewFile
<1>2. dir' \in Names /\ dir'.final = dir.final
  BY DEF Filed, CreateLeaf, Names
<1>3. [NoFile EXCEPT !.blob = b] \in File /\ [NoFile EXCEPT !.blob = b].blob = b
  BY Zenon DEF NoFile, File, Contents
<1>4. file' \in [Inodes -> File] /\ file'[i].blob = b
  BY <1>3 DEF Filed, CreateLeaf
<1>5. \A j \in Inodes : j # i => file'[j] = file[j]
  BY DEF Filed, CreateLeaf
<1>6. \A c \in Blobs : dir.final[c] # i /\ disk.final[c] # i
  BY <1>1 DEF Unnamed, Named
<1>7. \A c \in Blobs : dir.final[c] \in Inodes \cup {None} /\ disk.final[c] \in Inodes \cup {None}
  BY DEF Filed, Names
<1> QED  BY <1>2, <1>4, <1>5, <1>6, <1>7 DEF Filed, CreateLeaf, Aside

(* ... and so do writing it, ...                                             *)
LEMMA WriteAside ==
  ASSUME Filed, FinalNamesComplete, NEW i \in Inodes, NEW c \in Contents,
         file[i].content = "partial", Write(i, c)
  PROVE  Filed' /\ Aside /\ file'[i].blob = file[i].blob /\ file'[i].content = c
<1>1. file' \in [Inodes -> File] /\ file'[i].blob = file[i].blob /\ file'[i].content = c
  BY ZenonT(60) DEF Filed, Write, File
<1>2. \A j \in Inodes : j # i => file'[j] = file[j]
  BY DEF Filed, Write
<1>3. \A b \in Blobs : dir.final[b] # i /\ disk.final[b] # i
  BY StoreAssumption DEF FinalNamesComplete
<1>4. \A b \in Blobs : dir.final[b] \in Inodes \cup {None} /\ disk.final[b] \in Inodes \cup {None}
  BY DEF Filed, Names
<1> QED  BY <1>1, <1>2, <1>3, <1>4 DEF Filed, Write, Aside

(* ... syncing it ...                                                        *)
LEMMA SyncFileAside ==
  ASSUME Filed, FinalNamesComplete, NEW i \in Inodes, SyncFile(i)
  PROVE  /\ Filed' /\ Aside
         /\ file'[i].blob = file[i].blob /\ file'[i].content = file[i].content
         /\ file'[i].synced
<1>1. /\ file' \in [Inodes -> File]
      /\ file'[i].blob = file[i].blob /\ file'[i].content = file[i].content
      /\ file'[i].synced
  BY Zenon DEF Filed, SyncFile, File
<1>2. \A j \in Inodes : j # i => file'[j] = file[j]
  BY DEF Filed, SyncFile
<1>3. file[i].synced => file'[i] = file[i]
  BY DEF Filed, SyncFile, File
<1>4. \A b \in Blobs : \A j \in {dir.final[b], disk.final[b]} : j # None => j \in Inodes /\ file[j].synced
  BY DEF Filed, Names, FinalNamesComplete
<1>5. \A b \in Blobs : \A j \in {dir.final[b], disk.final[b]} : j # None => file'[j] = file[j]
  BY <1>2, <1>3, <1>4
<1> QED  BY <1>1, <1>5, Zenon DEF Filed, SyncFile, Aside

(* ... and unlinking it.                                                     *)
LEMMA UnlinkStageAside ==
  ASSUME Filed, NEW i, UnlinkStage(i)
  PROVE  Filed' /\ Aside /\ file' = file
BY DEF Filed, Names, UnlinkStage, Aside

(* Syncing a digest directory makes its names durable and no others.         *)
LEMMA SyncDigestDirFlushes ==
  ASSUME Filed, NEW kind, SyncDigestDir(kind)
  PROVE  /\ Filed' /\ Flush
         /\ \A b \in Blobs : disk'.final[b] = IF b.kind = kind THEN dir.final[b]
                                              ELSE disk.final[b]
BY DEF Filed, Names, SyncDigestDir, Flush

(* Syncing the staging directory is a flush of no final name.                *)
LEMMA SyncStagingFlushes ==
  ASSUME Filed, SyncStaging
  PROVE  Filed' /\ Flush
BY DEF Filed, Names, SyncStaging, Flush

(* rename and link give the file its final name and do nothing else.         *)
LEMMA PublishNames ==
  ASSUME Filed, NEW i \in Inodes, file[i].blob \in Blobs, Rename(i) \/ Link(i)
  PROVE  /\ Filed' /\ disk' = disk /\ file' = file
         /\ dir'.final = [dir.final EXCEPT ![file[i].blob] = i]
BY DEF Filed, Names, Rename, Link

(* Unlinking a digest takes its final name and does nothing else.            *)
LEMMA UnlinkDigestNames ==
  ASSUME Filed, NEW b \in Blobs, UnlinkDigest(b)
  PROVE  /\ Filed' /\ disk' = disk /\ file' = file
         /\ dir'.final = [dir.final EXCEPT ![b] = None]
BY DEF Filed, Names, UnlinkDigest

(* After a crash each name is the last one or the durable one.               *)
LEMMA CrashNames ==
  ASSUME Filed, FinalNamesComplete, Crash
  PROVE  /\ Filed' /\ dir' = disk'
         /\ \A b \in Blobs : /\ dir'.final[b] \in {dir.final[b], disk.final[b]}
                             /\ dir'.final[b] # None => file'[dir'.final[b]] = file[dir'.final[b]]
<1>a. PICK s \in SUBSET ((dir.staging \ disk.staging) \cup (disk.staging \ dir.staging)),
         late \in SUBSET {b \in Blobs : dir.final[b] # disk.final[b]} :
      LET staging == (dir.staging \cap disk.staging) \cup s
          final == [b \in Blobs |-> IF b \in late THEN disk.final[b] ELSE dir.final[b]]
          left == [staging |-> staging, final |-> final]
          unsynced == {i \in Inodes \cap Named(left) : ~file[i].synced}
      IN
      /\ dir' = left
      /\ disk' = left
      /\ renamed' = {}
      /\ \E c \in [unsynced -> Contents] :
           /\ \A i \in unsynced : c[i] \in Survivors(file[i])
           /\ file' = [i \in Inodes |->
                         IF i \notin Named(left) THEN NoFile
                         ELSE IF i \in unsynced
                           THEN [file[i] EXCEPT !.content = c[i], !.synced = TRUE]
                           ELSE file[i]]
  BY ZenonT(60) DEF Crash
<1> DEFINE staging == (dir.staging \cap disk.staging) \cup s
           final == [b \in Blobs |-> IF b \in late THEN disk.final[b] ELSE dir.final[b]]
           left == [staging |-> staging, final |-> final]
           unsynced == {i \in Inodes \cap Named(left) : ~file[i].synced}
<1>b. PICK c \in [unsynced -> Contents] :
      file' = [i \in Inodes |->
                 IF i \notin Named(left) THEN NoFile
                 ELSE IF i \in unsynced
                   THEN [file[i] EXCEPT !.content = c[i], !.synced = TRUE]
                   ELSE file[i]]
  BY <1>a, Zenon
<1>1. dir' = left /\ disk' = left /\ renamed' = {}
  BY <1>a
<1>2. staging \in SUBSET Inodes /\ final \in [Blobs -> Inodes \cup {None}]
  BY DEF Filed, Names
<1>2a. \A b \in Blobs : final[b] \in {dir.final[b], disk.final[b]}
  OBVIOUS
<1> HIDE DEF staging, final
<1>3. dir' \in Names /\ dir'.final = final
  BY <1>1, <1>2 DEF Names
<1>4. \A i \in Inodes : file[i] \in File /\ NoFile \in File
  BY DEF Filed, File, NoFile, Contents
<1>5. ASSUME NEW i \in unsynced
      PROVE  [file[i] EXCEPT !.content = c[i], !.synced = TRUE] \in File
  <2>1. file[i] \in File /\ c[i] \in Contents
    BY <1>4
  <2> QED  BY <2>1, Zenon DEF File
<1>6. file' \in [Inodes -> File]
  BY <1>b, <1>4, <1>5, ZenonT(60)
<1>7. ASSUME NEW b \in Blobs, final[b] # None
      PROVE  file'[final[b]] = file[final[b]]
  <2>1. final[b] \in Inodes /\ final[b] \in Named(left)
    BY <1>2, <1>7 DEF Named
  <2>2. file[final[b]].synced
    BY <1>2a, <1>7 DEF FinalNamesComplete
  <2> QED  BY <1>b, <2>1, <2>2, Zenon
<1> QED  BY <1>1, <1>2a, <1>3, <1>6, <1>7, SMTT(30) DEF Filed

-----------------------------------------------------------------------------
(* Names keep denoting complete files, and committed artifacts stay closed.   *)

(* Steps aside from the final names keep both, and durability.               *)
LEMMA AsideKeeps ==
  ASSUME FinalNamesComplete, Closed, Aside
  PROVE  /\ FinalNamesComplete' /\ Closed'
         /\ \A b \in Blobs : Durable(b) => Durable(b)'
<1>1. FinalNamesComplete'
  BY DEF FinalNamesComplete, Aside
<1>2. Closed'
  BY DEF Closed, Durable, Aside
<1> QED  BY <1>1, <1>2 DEF Durable, Aside

(* A sync keeps both, and durability.                                        *)
LEMMA FlushKeeps ==
  ASSUME FinalNamesComplete, Closed, Flush
  PROVE  /\ FinalNamesComplete' /\ Closed'
         /\ \A b \in Blobs : Durable(b) => Durable(b)'
<1>1. \A b \in Blobs : Durable(b) => Durable(b)'
  BY DEF Durable, Flush
<1>2. FinalNamesComplete'
  <2> SUFFICES ASSUME NEW b \in Blobs, disk'.final[b] # None
               PROVE  LET f == file[disk'.final[b]] IN f.blob = b /\ f.content = "full" /\ f.synced
    BY DEF FinalNamesComplete, Flush
  <2> QED  BY DEF FinalNamesComplete, Flush
<1>3. Closed'
  <2> SUFFICES ASSUME NEW a \in Artifacts
               PROVE  /\ disk'.final[Manifest(a)] # None => dir'.final[Manifest(a)] # None
                      /\ dir'.final[Manifest(a)] # None => \A b \in Dependencies(a) : Durable(b)'
    BY DEF Closed
  <2>1. disk'.final[Manifest(a)] \in {dir.final[Manifest(a)], disk.final[Manifest(a)]}
    BY BlobFacts DEF Flush
  <2>2. dir.final[Manifest(a)] # None => \A b \in Dependencies(a) : Durable(b)'
    BY <1>1, BlobFacts DEF Closed
  <2> QED  BY <2>1, <2>2 DEF Closed, Flush
<1> QED  BY <1>1, <1>2, <1>3

(* So does a step that leaves the file system alone.                         *)
LEMMA StillKeeps ==
  ASSUME FinalNamesComplete, Closed, Filed, UNCHANGED fsVars
  PROVE  /\ FinalNamesComplete' /\ Closed' /\ Filed' /\ file' = file /\ dir' = dir /\ disk' = disk
         /\ \A b \in Blobs : Durable(b) => Durable(b)'
<1>1. dir' = dir /\ disk' = disk /\ renamed' = renamed /\ file' = file
  BY DEF fsVars
<1>2. Aside
  BY <1>1 DEF Aside
<1>3. Filed'
  BY <1>1 DEF Filed
<1> QED  BY <1>1, <1>2, <1>3, AsideKeeps

(* A stage of b that is complete gets its digest name; the manifest of a      *)
(* does when every dependency is durable.                                     *)
LEMMA PublishKeeps ==
  ASSUME FinalNamesComplete, Closed, Filed, NEW a \in Artifacts, NEW i \in Inodes,
         file[i].blob \in Dependencies(a) \cup {Manifest(a)},
         file[i].content = "full", file[i].synced,
         file[i].blob = Manifest(a) => \A b \in Dependencies(a) : Durable(b),
         Rename(i) \/ Link(i)
  PROVE  /\ FinalNamesComplete' /\ Closed' /\ Filed' /\ file' = file /\ disk' = disk
         /\ dir'.final[file[i].blob] # None
         /\ \A b \in Blobs : b # file[i].blob => dir'.final[b] = dir.final[b]
         /\ \A b \in Blobs : Durable(b) => Durable(b)'
<1> DEFINE c == file[i].blob
<1>1. c \in Blobs
  BY BlobFacts
<1>2. Filed' /\ disk' = disk /\ file' = file /\ dir'.final = [dir.final EXCEPT ![c] = i]
  BY <1>1, PublishNames
<1>3. dir'.final[c] = i /\ i # None /\ \A b \in Blobs : b # c => dir'.final[b] = dir.final[b]
  BY <1>1, <1>2, BlobsAreNotNone DEF Filed, Names
<1>4. \A b \in Blobs : Durable(b) => Durable(b)'
  BY <1>2, <1>3 DEF Durable
<1>5. FinalNamesComplete'
  <2>1. ASSUME NEW b \in Blobs, dir'.final[b] # None
        PROVE  LET f == file'[dir'.final[b]] IN f.blob = b /\ f.content = "full" /\ f.synced
    <3>1. CASE b = c
      BY <3>1, <1>2, <1>3, SMTT(30)
    <3>2. CASE b # c
      BY <2>1, <3>2, <1>2, <1>3 DEF FinalNamesComplete
    <3> QED  BY <3>1, <3>2
  <2>2. ASSUME NEW b \in Blobs, disk'.final[b] # None
        PROVE  LET f == file'[disk'.final[b]] IN f.blob = b /\ f.content = "full" /\ f.synced
    BY <2>2, <1>2 DEF FinalNamesComplete
  <2> QED  BY <2>1, <2>2 DEF FinalNamesComplete
<1>6. Closed'
  <2> SUFFICES ASSUME NEW d \in Artifacts
               PROVE  /\ disk.final[Manifest(d)] # None => dir'.final[Manifest(d)] # None
                      /\ dir'.final[Manifest(d)] # None => \A b \in Dependencies(d) : Durable(b)'
    BY <1>2 DEF Closed
  <2>1. disk.final[Manifest(d)] # None => dir'.final[Manifest(d)] # None
    BY <1>3, BlobFacts DEF Closed
  <2>2. ASSUME dir'.final[Manifest(d)] # None  PROVE \A b \in Dependencies(d) : Durable(b)
    <3>1. CASE Manifest(d) = c
      <4>1. c \notin Dependencies(a)
        BY <3>1, BlobFacts
      <4>2. d = a
        BY <3>1, <4>1, BlobFacts
      <4> QED  BY <3>1, <4>2
    <3>2. CASE Manifest(d) # c
      BY <2>2, <3>2, <1>3, BlobFacts DEF Closed
    <3> QED  BY <3>1, <3>2
  <2> QED  BY <2>1, <2>2, <1>4, BlobFacts
<1> QED  BY <1>2, <1>3, <1>4, <1>5, <1>6

(* Sweeping a blob no committed artifact needs keeps both.                   *)
LEMMA SweepKeeps ==
  ASSUME FinalNamesComplete, Closed, Filed, NEW b \in Blobs, b.kind # "manifest", b \notin Live,
         UnlinkDigest(b)
  PROVE  FinalNamesComplete' /\ Closed' /\ Filed' /\ Visible' = Visible /\ Live' = Live
<1>1. Filed' /\ disk' = disk /\ file' = file /\ dir'.final = [dir.final EXCEPT ![b] = None]
  BY UnlinkDigestNames
<1>2. \A c \in Blobs : dir'.final[c] = IF c = b THEN None ELSE dir.final[c]
  BY <1>1 DEF Filed, Names
<1>3. FinalNamesComplete'
  <2>1. ASSUME NEW c \in Blobs, dir'.final[c] # None
        PROVE  LET f == file'[dir'.final[c]] IN f.blob = c /\ f.content = "full" /\ f.synced
    BY <2>1, <1>1, <1>2 DEF FinalNamesComplete
  <2>2. ASSUME NEW c \in Blobs, disk'.final[c] # None
        PROVE  LET f == file'[disk'.final[c]] IN f.blob = c /\ f.content = "full" /\ f.synced
    BY <2>2, <1>1 DEF FinalNamesComplete
  <2> QED  BY <2>1, <2>2 DEF FinalNamesComplete
<1>4. \A a \in Artifacts : dir'.final[Manifest(a)] = dir.final[Manifest(a)]
  BY <1>2, BlobFacts
<1>5. Visible' = Visible
  BY <1>4 DEF Visible, Exists
<1>6. Closed'
  <2> SUFFICES ASSUME NEW a \in Artifacts
               PROVE  /\ disk.final[Manifest(a)] # None => dir.final[Manifest(a)] # None
                      /\ dir.final[Manifest(a)] # None => \A c \in Dependencies(a) : Durable(c)'
    BY <1>1, <1>4 DEF Closed
  <2>1. ASSUME dir.final[Manifest(a)] # None, NEW c \in Dependencies(a)  PROVE Durable(c)'
    <3>1. c # b
      BY <2>1 DEF Live, Visible, Exists
    <3>2. Durable(c)
      BY <2>1 DEF Closed
    <3> QED  BY <3>1, <3>2, <1>1, <1>2, BlobFacts DEF Durable
  <2> QED  BY <2>1 DEF Closed
<1> QED  BY <1>1, <1>3, <1>5, <1>6 DEF Live

(* A crash keeps both.                                                       *)
LEMMA CrashKeeps ==
  ASSUME FinalNamesComplete, Closed, Filed, Crash
  PROVE  FinalNamesComplete' /\ Closed' /\ Filed'
<1>1. Filed' /\ dir' = disk'
  BY CrashNames
<1>2. \A b \in Blobs : /\ dir'.final[b] \in {dir.final[b], disk.final[b]}
                       /\ dir'.final[b] # None => file'[dir'.final[b]] = file[dir'.final[b]]
  BY CrashNames
<1>3. FinalNamesComplete'
  <2> SUFFICES ASSUME NEW b \in Blobs, dir'.final[b] # None
               PROVE  LET f == file'[dir'.final[b]] IN f.blob = b /\ f.content = "full" /\ f.synced
    BY <1>1 DEF FinalNamesComplete
  <2> QED  BY <1>2 DEF FinalNamesComplete
<1>4. Closed'
  <2> SUFFICES ASSUME NEW a \in Artifacts, dir'.final[Manifest(a)] # None, NEW b \in Dependencies(a)
               PROVE  dir'.final[b] # None
    BY <1>1 DEF Closed, Durable
  <2>1. dir.final[Manifest(a)] # None
    BY <1>2, BlobFacts DEF Closed
  <2>2. Durable(b)
    BY <2>1 DEF Closed
  <2> QED  BY <2>2, <1>2, BlobFacts DEF Durable
<1> QED  BY <1>1, <1>3, <1>4

-----------------------------------------------------------------------------
(* The transaction.                                                          *)

(* The empty store satisfies the invariant.                                  *)
LEMMA StoreInit == Init => StoreInv
<1> SUFFICES ASSUME Init PROVE StoreInv
  OBVIOUS
<1>1. Filed
  BY DEF Init, FsInit, Filed, Names, File, NoFile, Contents
<1>2. \A b \in Blobs : dir.final[b] = None /\ disk.final[b] = None
  BY DEF Init, FsInit
<1>3. FinalNamesComplete
  BY <1>2 DEF FinalNamesComplete
<1>4. Closed
  BY <1>2, BlobFacts DEF Closed
<1>5. tx.at = "idle" /\ DOMAIN tx = DOMAIN Idle
  BY DEF Init, Idle
<1> QED  BY <1>1, <1>3, <1>4, <1>5
         DEF StoreInv, ImportKnows, RetryKnows, GcKnows, Ensuring, Staged, Retried

(* A transaction that has ended knows nothing.                               *)
LEMMA EndKeeps ==
  ASSUME Filed', FinalNamesComplete', Closed', End
  PROVE  StoreInv'
<1>1. tx'.at = "idle" /\ DOMAIN tx' = DOMAIN Idle
  BY DEF End, Idle
<1> QED  BY <1>1 DEF StoreInv, ImportKnows, RetryKnows, GcKnows, Ensuring, Staged, Retried

(* The blob that import is at.                                               *)
LEMMA EnsuredBlob ==
  ASSUME StoreInv, tx.at \in Ensuring
  PROVE  /\ tx.artifact \in Artifacts
         /\ Blob \in Blobs /\ Blob \in Dependencies(tx.artifact) \cup {Manifest(tx.artifact)}
         /\ Blob = Manifest(tx.artifact) <=> Len(tx.todo) = 1
         /\ Blob = Manifest(tx.artifact) => \A b \in Dependencies(tx.artifact) : Durable(b)
<1>1. tx.artifact \in Artifacts /\ Remaining(tx.artifact, tx.todo) /\ Done(tx.artifact, tx.todo)
  BY DEF StoreInv, ImportKnows
<1>2. /\ Blob \in Blobs /\ Blob \in Dependencies(tx.artifact) \cup {Manifest(tx.artifact)}
      /\ Blob = Manifest(tx.artifact) <=> Len(tx.todo) = 1
  BY <1>1, HeadAndTail DEF Blob
<1>3. ASSUME Blob = Manifest(tx.artifact), NEW b \in Dependencies(tx.artifact)
      PROVE  Durable(b)
  <2>1. Len(tx.todo) = 1 /\ \A n \in 1..Len(tx.todo) : tx.todo[n] = Manifest(tx.artifact)
    BY <1>1, <1>2, <1>3 DEF Remaining
  <2>2. b # Manifest(tx.artifact)
    BY <1>1, BlobFacts
  <2> QED  BY <1>1, <2>1, <2>2 DEF Done
<1> QED  BY <1>1, <1>2, <1>3

(* While the list of blobs stays, so does what is known of it.                *)
LEMMA ListKeeps ==
  ASSUME StoreInv, tx.at \in Ensuring, \A b \in Blobs : Durable(b) => Durable(b)',
         DOMAIN tx' = DOMAIN Idle, tx'.artifact = tx.artifact, tx'.todo = tx.todo
  PROVE  /\ tx'.artifact \in Artifacts
         /\ Remaining(tx'.artifact, tx'.todo)
         /\ Done(tx.artifact, tx.todo)' /\ Blob' = Blob
<1>1. tx.artifact \in Artifacts /\ Remaining(tx.artifact, tx.todo) /\ Done(tx.artifact, tx.todo)
  BY DEF StoreInv, ImportKnows
<1> QED  BY <1>1, BlobFacts DEF Done, Blob

Kept == Filed' /\ FinalNamesComplete' /\ Closed' /\ \A b \in Blobs : Durable(b) => Durable(b)'

Moves(step) ==
  /\ DOMAIN tx' = DOMAIN Idle
  /\ tx'.at = step /\ tx'.artifact = tx.artifact /\ tx'.todo = tx.todo

(* Goto moves the transaction on and keeps the rest of it.                   *)
LEMMA GotoMoves ==
  ASSUME StoreInv, NEW step, Goto(step)
  PROVE  Moves(step) /\ tx'.stage = tx.stage
BY DEF StoreInv, Goto, Moves, Idle

(* A step of ensure_blob that establishes what the next one needs.            *)
LEMMA MoveKeeps ==
  ASSUME StoreInv, tx.at \in Ensuring, Kept, NEW step \in Ensuring, Moves(step),
         step \in Staged => tx'.stage \in Inodes /\ file'[tx'.stage].blob = Blob,
         step \in {"sync_file", "rename", "link"} => file'[tx'.stage].content = "full",
         step \in {"rename", "link"} => file'[tx'.stage].synced,
         step \in {"confirm", "linked"} => dir'.final[Blob] # None,
         step \in {"clean_reused", "unlink", "confirm_staging"} =>
           dir'.final[Blob] # None /\ disk'.final[Blob] # None
  PROVE  StoreInv'
<1>1. /\ tx'.artifact \in Artifacts /\ Remaining(tx'.artifact, tx'.todo)
      /\ Done(tx.artifact, tx.todo)' /\ Blob' = Blob
  BY ListKeeps DEF Kept, Moves
<1>2. ImportKnows'
  BY <1>1 DEF ImportKnows, Durable, Moves
<1>3. step \notin Retried /\ step # "sync_committed" /\ step # "sweep"
  BY DEF Ensuring, Retried
<1>4. RetryKnows' /\ GcKnows'
  BY <1>3 DEF RetryKnows, GcKnows, Moves
<1> QED  BY <1>2, <1>4 DEF StoreInv, Kept, Moves

(* What is left to show at the steps of a retry ...                          *)
LEMMA RetryKeeps ==
  ASSUME Filed', FinalNamesComplete', Closed', DOMAIN tx' = DOMAIN Idle, tx'.at \in Retried,
         tx'.artifact \in Artifacts, dir'.final[Manifest(tx'.artifact)] # None,
         tx'.at = "sync_committed" => tx'.syncs \in SyncsLeft
  PROVE  StoreInv'
<1>1. tx'.at \notin Ensuring /\ tx'.at \notin Staged /\ tx'.at # "sweep"
  BY DEF Ensuring, Staged, Retried
<1>2. ImportKnows'
  BY <1>1 DEF ImportKnows, Ensuring
<1>3. RetryKnows'
  BY DEF RetryKnows
<1>4. GcKnows'
  BY <1>1 DEF GcKnows
<1> QED  BY <1>2, <1>3, <1>4 DEF StoreInv

(* ... and at those of the collector.                                        *)
LEMMA GcKeeps ==
  ASSUME Filed', FinalNamesComplete', Closed', DOMAIN tx' = DOMAIN Idle,
         tx'.at \in {"sweep", "sync_swept"}, GcKnows'
  PROVE  StoreInv'
<1>1. tx'.at \notin Ensuring /\ tx'.at \notin Staged /\ tx'.at \notin Retried
  BY DEF Ensuring, Staged, Retried
<1>2. ImportKnows'
  BY <1>1 DEF ImportKnows, Ensuring
<1>3. RetryKnows'
  BY <1>1 DEF RetryKnows, Retried
<1> QED  BY <1>2, <1>3 DEF StoreInv

(* confirm_committed_durability syncs the manifest directory last.             *)
LEMMA SyncsTails ==
  ASSUME NEW syncs \in SyncsLeft
  PROVE  /\ Len(syncs) = 1 => Head(syncs) = "manifest"
         /\ Len(syncs) # 1 => Tail(syncs) \in SyncsLeft
<1>1. CASE syncs = <<"page-table", "object", "staging", "manifest">>
  <2>1. Len(syncs) = 4 /\ Tail(syncs) = <<"object", "staging", "manifest">>
    BY <1>1
  <2> QED  BY <2>1 DEF SyncsLeft
<1>2. CASE syncs = <<"object", "staging", "manifest">>
  <2>1. Len(syncs) = 3 /\ Tail(syncs) = <<"staging", "manifest">>
    BY <1>2
  <2> QED  BY <2>1 DEF SyncsLeft
<1>3. CASE syncs = <<"staging", "manifest">>
  <2>1. Len(syncs) = 2 /\ Tail(syncs) = <<"manifest">>
    BY <1>3
  <2> QED  BY <2>1 DEF SyncsLeft
<1>4. CASE syncs = <<"manifest">>
  BY <1>4
<1> QED  BY <1>1, <1>2, <1>3, <1>4 DEF SyncsLeft

(* One lemma for each branch of import and for gc.                            *)
LEMMA RetryStep ==
  ASSUME StoreInv,
         \/ \E a \in Artifacts : ImportCommitted(a)
         \/ (\E i \in Inodes : Clean(i)) /\ At("clean_committed")
         \/ CleanDone /\ At("clean_committed")
         \/ SyncCommitted
  PROVE  StoreInv'
<1> USE DEF StoreInv, At
<1>1. ASSUME NEW a \in Artifacts, ImportCommitted(a)  PROVE StoreInv'
  <2>1. /\ Filed' /\ FinalNamesComplete' /\ Closed' /\ dir' = dir
    BY <1>1, StillKeeps, ZenonT(60) DEF ImportCommitted, Quiet
  <2>2. DOMAIN tx' = DOMAIN Idle /\ tx'.at = "clean_committed" /\ tx'.artifact = a
    BY <1>1, ZenonT(60) DEF ImportCommitted, Idle
  <2>3. dir.final[Manifest(a)] # None
    BY <1>1, Zenon DEF ImportCommitted, Exists
  <2> QED  BY <2>1, <2>2, <2>3, RetryKeeps, SMTT(30) DEF Retried
<1>2. ASSUME NEW i \in Inodes, Clean(i), At("clean_committed")  PROVE StoreInv'
  <2>1. Filed' /\ Aside
    BY <1>2, UnlinkStageAside, SMTT(30) DEF Clean
  <2>2. FinalNamesComplete' /\ Closed' /\ dir'.final = dir.final
    BY <2>1, AsideKeeps DEF Aside
  <2>3. DOMAIN tx' = DOMAIN Idle /\ tx'.at = tx.at /\ tx'.artifact = tx.artifact
    BY <1>2 DEF Clean, Idle
  <2>4. tx.artifact \in Artifacts /\ dir.final[Manifest(tx.artifact)] # None
    BY <1>2 DEF RetryKnows, Retried
  <2> QED  BY <1>2, <2>1, <2>2, <2>3, <2>4, RetryKeeps DEF Retried
<1>3. ASSUME CleanDone, At("clean_committed")  PROVE StoreInv'
  <2>1. /\ Filed' /\ FinalNamesComplete' /\ Closed' /\ dir' = dir
    BY <1>3, StillKeeps DEF CleanDone, Quiet
  <2>2. /\ DOMAIN tx' = DOMAIN Idle /\ tx'.at = "sync_committed" /\ tx'.artifact = tx.artifact
        /\ tx'.syncs = <<"page-table", "object", "staging", "manifest">>
    BY <1>3 DEF CleanDone, Idle
  <2>3. tx'.syncs \in SyncsLeft
    BY <2>2 DEF SyncsLeft
  <2>4. tx.artifact \in Artifacts /\ dir.final[Manifest(tx.artifact)] # None
    BY <1>3 DEF RetryKnows, Retried
  <2> QED  BY <2>1, <2>2, <2>3, <2>4, RetryKeeps DEF Retried
<1>4. ASSUME SyncCommitted  PROVE StoreInv'
  <2>1. Filed' /\ Flush
    BY <1>4, SyncStagingFlushes, SyncDigestDirFlushes DEF SyncCommitted, SyncDir
  <2>2. FinalNamesComplete' /\ Closed' /\ dir' = dir
    BY <2>1, FlushKeeps DEF Flush
  <2>3. CASE Len(tx.syncs) = 1
    BY <1>4, <2>1, <2>2, <2>3, EndKeeps DEF SyncCommitted
  <2>4. CASE Len(tx.syncs) # 1
    <3>1. /\ DOMAIN tx' = DOMAIN Idle /\ tx'.at = "sync_committed" /\ tx'.artifact = tx.artifact
          /\ tx'.syncs = Tail(tx.syncs)
      BY <1>4, <2>4 DEF SyncCommitted, Idle
    <3>2. tx.syncs \in SyncsLeft
      BY <1>4 DEF SyncCommitted, RetryKnows
    <3>3. Tail(tx.syncs) \in SyncsLeft
      BY <3>2, <2>4, SyncsTails
    <3>4. tx.artifact \in Artifacts /\ dir.final[Manifest(tx.artifact)] # None
      BY <1>4 DEF SyncCommitted, RetryKnows, Retried
    <3> QED  BY <2>1, <2>2, <3>1, <3>3, <3>4, RetryKeeps DEF Retried
  <2> QED  BY <2>3, <2>4
<1> QED  BY <1>1, <1>2, <1>3, <1>4, SMTT(30)

(* Failures, refusals, stops and crashes keep the invariant.                 *)
LEMMA EndingStep ==
  ASSUME StoreInv,
         CleanFails \/ SyncCreatedFails \/ CopyFails \/ CopyRefused \/ Stop \/ MachineCrash
  PROVE  StoreInv'
<1> USE DEF StoreInv, At
<1>1. Filed /\ FinalNamesComplete /\ Closed /\ End
  BY DEF CleanFails, SyncCreatedFails, CopyFails, CopyRefused, Stop, MachineCrash
<1>2. ASSUME UNCHANGED fsVars  PROVE StoreInv'
  BY <1>1, <1>2, StillKeeps, EndKeeps
<1>3. ASSUME SyncStaging  PROVE StoreInv'
  BY <1>1, <1>3, SyncStagingFlushes, FlushKeeps, EndKeeps, SMTT(30)
<1>4. ASSUME Filed', Aside  PROVE StoreInv'
  BY <1>1, <1>4, AsideKeeps, EndKeeps, SMTT(30)
<1>5. CASE CleanFails
  BY <1>2, <1>3, <1>5 DEF CleanFails
<1>6. CASE SyncCreatedFails
  <2>1. ASSUME UnlinkStage(tx.stage)  PROVE StoreInv'
    BY <1>1, <1>4, <2>1, UnlinkStageAside
  <2>2. ASSUME dir' = [dir EXCEPT !.staging = @ \ {tx.stage}],
               disk' = [disk EXCEPT !.staging = dir'.staging], UNCHANGED <<renamed, file>>
        PROVE  StoreInv'
    <3>1. dir' \in Names /\ dir'.final = dir.final
      BY <1>1, <2>2 DEF Filed, Names
    <3>2. disk' \in Names /\ disk'.final = disk.final
      BY <1>1, <2>2, <3>1 DEF Filed, Names
    <3>3. Filed' /\ Aside
      BY <1>1, <2>2, <3>1, <3>2 DEF Filed, Aside
    <3> QED  BY <1>4, <3>3
  <2> QED  BY <1>2, <1>3, <1>6, <2>1, <2>2 DEF SyncCreatedFails
<1>7. CASE CopyFails
  <2>1. tx.stage \in Inodes
    BY <1>7, SMTT(30) DEF CopyFails, ImportKnows, Staged
  <2>2. ASSUME NEW c \in {"partial", "corrupt"}, Write(tx.stage, c),
               file[tx.stage].content = "partial"
        PROVE  StoreInv'
    BY <1>1, <1>4, <2>1, <2>2, WriteAside DEF Contents
  <2> QED  BY <1>2, <1>7, <2>2 DEF CopyFails
<1>8. CASE CopyRefused \/ Stop
  BY <1>2, <1>8 DEF CopyRefused, Stop, Quiet
<1>9. CASE MachineCrash
  BY <1>1, <1>9, CrashKeeps, EndKeeps, SMTT(30) DEF MachineCrash
<1> QED  BY <1>5, <1>6, <1>7, <1>8, <1>9

(* The collector keeps the invariant.                                        *)
LEMMA GcInv ==
  ASSUME StoreInv, GcStep
  PROVE  StoreInv'
<1> USE DEF StoreInv, At
<1>0. Filed /\ FinalNamesComplete /\ Closed /\ DOMAIN tx = DOMAIN Idle
  OBVIOUS
<1>1. ASSUME NEW remove_staging \in BOOLEAN, Gc(remove_staging)  PROVE StoreInv'
  <2>1. Filed' /\ FinalNamesComplete' /\ Closed' /\ dir' = dir
    BY <1>0, <1>1, StillKeeps DEF Gc, Quiet
  <2>2. DOMAIN tx' = DOMAIN Idle /\ tx'.at = "sweep" /\ tx'.blobs = Garbage
    BY <1>1 DEF Gc, Idle
  <2>3. Live' = Live
    BY <2>1 DEF Live, Visible, Exists
  <2>4. GcKnows'
    BY <2>2, <2>3 DEF GcKnows, Garbage
  <2> QED  BY <2>1, <2>2, <2>4, GcKeeps
<1>2. ASSUME NEW b \in Blobs, SweepDigest(b)  PROVE StoreInv'
  <2>1. b.kind # "manifest" /\ b \notin Live
    BY <1>2 DEF SweepDigest, GcKnows
  <2>2. Filed' /\ FinalNamesComplete' /\ Closed' /\ Live' = Live
    BY <1>0, <1>2, <2>1, SweepKeeps DEF SweepDigest
  <2>3. DOMAIN tx' = DOMAIN Idle /\ tx'.at = "sweep" /\ tx'.blobs = tx.blobs \ {b}
    BY <1>0, <1>2 DEF SweepDigest, Idle
  <2>4. GcKnows'
    BY <1>2, <2>2, <2>3 DEF GcKnows, SweepDigest
  <2> QED  BY <2>2, <2>3, <2>4, GcKeeps
<1>3. ASSUME NEW i \in Inodes, SweepStage(i)  PROVE StoreInv'
  <2>1. Filed' /\ Aside
    BY <1>0, <1>3, UnlinkStageAside DEF SweepStage
  <2>2. FinalNamesComplete' /\ Closed'
    BY <1>0, <2>1, AsideKeeps
  <2>3. DOMAIN tx' = DOMAIN Idle /\ tx'.at = "sweep" /\ tx'.blobs = {}
    BY <1>0, <1>3 DEF SweepStage, Idle
  <2> QED  BY <2>1, <2>2, <2>3, GcKeeps DEF GcKnows
<1>4. ASSUME SweepStops \/ SweepDone  PROVE StoreInv'
  <2>1. Filed' /\ FinalNamesComplete' /\ Closed'
    BY <1>0, <1>4, StillKeeps DEF SweepStops, SweepDone, Quiet
  <2>2. DOMAIN tx' = DOMAIN Idle /\ tx'.at = "sync_swept"
    BY <1>0, <1>4, Zenon DEF SweepStops, SweepDone, Goto, Idle
  <2> QED  BY <2>1, <2>2, GcKeeps DEF GcKnows
<1>5. ASSUME SyncSwept  PROVE StoreInv'
  <2>1. CASE tx.syncs = <<>>
    BY <1>0, <1>5, <2>1, StillKeeps, EndKeeps DEF SyncSwept
  <2>2. CASE tx.syncs # <<>>
    <3>1. DOMAIN tx' = DOMAIN Idle /\ tx'.at = "sync_swept"
      BY <1>0, <1>5, <2>2 DEF SyncSwept, Idle
    <3>2. ASSUME SyncDir(Head(tx.syncs))  PROVE Filed' /\ FinalNamesComplete' /\ Closed'
      BY <1>0, <3>2, SyncStagingFlushes, SyncDigestDirFlushes, FlushKeeps DEF SyncDir
    <3>3. ASSUME UNCHANGED fsVars  PROVE Filed' /\ FinalNamesComplete' /\ Closed'
      BY <1>0, <3>3, StillKeeps
    <3>4. Filed' /\ FinalNamesComplete' /\ Closed'
      BY <1>5, <2>2, <3>2, <3>3, SMTT(30) DEF SyncSwept
    <3> QED  BY <3>1, <3>4, GcKeeps DEF GcKnows
  <2> QED  BY <2>1, <2>2
<1> QED  BY <1>1, <1>2, <1>3, <1>4, <1>5 DEF GcStep

(* ensure_blob up to the synced stage.                                        *)
LEMMA StagingStep ==
  ASSUME StoreInv,
         \/ \E a \in Artifacts : \E t \in TokenSets(a) : Import(a, t)
         \/ \E i \in Inodes : CreateStage(i) \/ Resume(i)
         \/ SyncCreated \/ Copy \/ SyncStageFile
  PROVE  StoreInv'
<1> USE DEF StoreInv, At
<1>0. Filed /\ FinalNamesComplete /\ Closed /\ DOMAIN tx = DOMAIN Idle
  BY SMTT(30)
<1>1. ASSUME NEW a \in Artifacts, NEW t, Import(a, t)  PROVE StoreInv'
  <2>1. Kept
    BY <1>0, <1>1, StillKeeps, ZenonT(60) DEF Import, Quiet, Kept
  <2>2. /\ DOMAIN tx' = DOMAIN Idle /\ tx'.at = "ensure"
        /\ tx'.artifact = a /\ tx'.todo = Order(a)
    BY <1>1, Zenon DEF Import, Idle
  <2>3. Remaining(a, Order(a)) /\ Done(a, Order(a))'
    BY OrderIsRemaining, SMTT(30) DEF Done
  <2>4. ImportKnows'
    BY <2>2, <2>3 DEF ImportKnows, Staged, Done
  <2>5. RetryKnows' /\ GcKnows'
    BY <2>2, SMTT(30) DEF RetryKnows, GcKnows, Retried
  <2> QED  BY <2>1, <2>2, <2>4, <2>5, SMTT(30) DEF Kept
<1>2. ASSUME NEW i \in Inodes, CreateStage(i)  PROVE StoreInv'
  <2>1. tx.at \in Ensuring /\ Blob \in Blobs
    BY <1>2, EnsuredBlob, ZenonT(60) DEF CreateStage, Ensuring
  <2>2. Filed' /\ Aside /\ file'[i].blob = Blob
    BY <1>0, <1>2, <2>1, CreateLeafAside, Zenon DEF CreateStage
  <2>3. Kept
    BY <1>0, <2>2, AsideKeeps, SMTT(30) DEF Kept
  <2>4. Moves("created") /\ tx'.stage = i
    BY <1>0, <1>2, ZenonT(60) DEF CreateStage, Moves, Idle
  <2> QED  BY <2>1, <2>2, <2>3, <2>4, MoveKeeps, SMTT(30) DEF Ensuring
<1>3. ASSUME NEW i \in Inodes, Resume(i)  PROVE StoreInv'
  <2>1. tx.at \in Ensuring /\ file[i].blob = Blob
    BY <1>3, ZenonT(60) DEF Resume, Ensuring
  <2>2. Kept /\ file' = file
    BY <1>0, <1>3, StillKeeps, ZenonT(60) DEF Resume, Quiet, Kept
  <2>3. Moves("copy") /\ tx'.stage = i
    BY <1>0, <1>3, ZenonT(60) DEF Resume, Moves, Idle
  <2> QED  BY <2>1, <2>2, <2>3, MoveKeeps, SMTT(30) DEF Ensuring
<1>4. ASSUME SyncCreated  PROVE StoreInv'
  <2>1. tx.at \in Ensuring /\ tx.stage \in Inodes /\ file[tx.stage].blob = Blob
    BY <1>4, SMTT(30) DEF SyncCreated, Ensuring, ImportKnows, Staged
  <2>2. Kept /\ file' = file
    BY <1>0, <1>4, SyncStagingFlushes, FlushKeeps DEF SyncCreated, Kept, Flush
  <2>3. Moves("copy") /\ tx'.stage = tx.stage
    BY <1>4, GotoMoves, SMTT(30) DEF SyncCreated
  <2> QED  BY <2>1, <2>2, <2>3, MoveKeeps, SMTT(30) DEF Ensuring
<1>5. ASSUME Copy  PROVE StoreInv'
  <2>1. tx.at \in Ensuring /\ tx.stage \in Inodes /\ file[tx.stage].blob = Blob
    BY <1>5, SMTT(30) DEF Copy, Ensuring, ImportKnows, Staged
  <2>2. ASSUME file[tx.stage].content = "partial", Write(tx.stage, "full")
        PROVE  Kept /\ file'[tx.stage].blob = Blob /\ file'[tx.stage].content = "full"
    BY <1>0, <2>1, <2>2, WriteAside, AsideKeeps, SMTT(30) DEF Kept, Contents
  <2>3. ASSUME file[tx.stage].content = "full", UNCHANGED fsVars
        PROVE  Kept /\ file'[tx.stage].blob = Blob /\ file'[tx.stage].content = "full"
    BY <1>0, <2>1, <2>3, StillKeeps, SMTT(30) DEF Kept
  <2>4. Kept /\ file'[tx.stage].blob = Blob /\ file'[tx.stage].content = "full"
    BY <1>5, <2>2, <2>3, SMTT(30) DEF Copy
  <2>5. Moves("sync_file") /\ tx'.stage = tx.stage
    BY <1>5, GotoMoves, SMTT(30) DEF Copy
  <2> QED  BY <2>1, <2>4, <2>5, MoveKeeps, SMTT(30) DEF Ensuring
<1>6. ASSUME SyncStageFile  PROVE StoreInv'
  <2>1. /\ tx.at \in Ensuring /\ tx.stage \in Inodes /\ file[tx.stage].blob = Blob
        /\ file[tx.stage].content = "full"
    BY <1>6, SMTT(30) DEF SyncStageFile, Ensuring, ImportKnows, Staged
  <2>2. /\ Kept /\ file'[tx.stage].blob = Blob /\ file'[tx.stage].content = "full"
        /\ file'[tx.stage].synced
    BY <1>0, <1>6, <2>1, SyncFileAside, AsideKeeps, ZenonT(60) DEF SyncStageFile, Kept
  <2>3. Moves("rename") /\ tx'.stage = tx.stage
    BY <1>6, GotoMoves, SMTT(30) DEF SyncStageFile
  <2> QED  BY <2>1, <2>2, <2>3, MoveKeeps, SMTT(30) DEF Ensuring
<1> QED  BY <1>1, <1>2, <1>3, <1>4, <1>5, <1>6

(* Renaming or linking the stage, and finding out which of them happened.      *)
LEMMA PublishingStep ==
  ASSUME StoreInv, RenameStage \/ RenameUnsupported \/ LinkStage \/ PublishAmbiguous \/ Resolve
  PROVE  StoreInv'
<1> USE DEF StoreInv, At
<1>0. Filed /\ FinalNamesComplete /\ Closed
  BY SMTT(30)
<1>1. tx.at \in {"rename", "link", "resolve"}
  BY SMTT(30) DEF RenameStage, RenameUnsupported, LinkStage, PublishAmbiguous, Resolve
<1>2. /\ tx.at \in Ensuring /\ tx.stage \in Inodes /\ file[tx.stage].blob = Blob
      /\ tx.at # "resolve" => file[tx.stage].content = "full" /\ file[tx.stage].synced
  BY <1>1, SMTT(30) DEF Ensuring, ImportKnows, Staged
<1>3. ASSUME tx.at # "resolve", Rename(tx.stage) \/ Link(tx.stage)
      PROVE  Kept /\ file' = file /\ dir'.final[Blob] # None
  <2>1. /\ tx.artifact \in Artifacts
        /\ Blob \in Dependencies(tx.artifact) \cup {Manifest(tx.artifact)}
        /\ Blob = Manifest(tx.artifact) => \A b \in Dependencies(tx.artifact) : Durable(b)
    BY <1>2, EnsuredBlob
  <2> QED  BY <1>0, <1>2, <1>3, <2>1, PublishKeeps, SMTT(30) DEF Kept
<1>4. ASSUME UNCHANGED fsVars  PROVE Kept /\ file' = file /\ dir' = dir
  BY <1>0, <1>4, StillKeeps, SMTT(30) DEF Kept
<1>5. CASE RenameStage
  <2>1. Moves("confirm") /\ tx'.stage = tx.stage
    BY <1>5, GotoMoves DEF RenameStage
  <2>2. Kept /\ file' = file /\ dir'.final[Blob] # None
    BY <1>3, <1>5, SMTT(30) DEF RenameStage
  <2> QED  BY <1>2, <2>1, <2>2, MoveKeeps DEF Ensuring
<1>6. CASE RenameUnsupported
  <2>1. Moves("link") /\ tx'.stage = tx.stage /\ tx.at = "rename"
    BY <1>6, GotoMoves DEF RenameUnsupported
  <2>2. Kept /\ file' = file
    BY <1>4, <1>6, SMTT(30) DEF RenameUnsupported, Quiet
  <2> QED  BY <1>2, <2>1, <2>2, MoveKeeps DEF Ensuring
<1>7. CASE LinkStage
  <2>1. Moves("linked") /\ tx'.stage = tx.stage
    BY <1>7, GotoMoves DEF LinkStage
  <2>2. Kept /\ file' = file /\ dir'.final[Blob] # None
    BY <1>3, <1>7, SMTT(30) DEF LinkStage
  <2> QED  BY <1>2, <2>1, <2>2, MoveKeeps DEF Ensuring
<1>8. CASE PublishAmbiguous
  <2>1. Moves("resolve") /\ tx'.stage = tx.stage
    BY <1>8, GotoMoves, SMTT(30) DEF PublishAmbiguous
  <2>2. Kept /\ file' = file
    BY <1>3, <1>4, <1>8 DEF PublishAmbiguous
  <2> QED  BY <1>2, <2>1, <2>2, MoveKeeps DEF Ensuring
<1>9. CASE Resolve
  <2>1. Kept /\ file' = file /\ dir' = dir
    BY <1>4, <1>9, SMTT(30) DEF Resolve, Quiet
  <2>2. CASE ~Exists(Blob)
    BY <1>9, <2>1, <2>2, EndKeeps, SMTT(30) DEF Resolve, Kept
  <2>3. ASSUME Exists(Blob), NEW step \in {"linked", "confirm"}, Goto(step)  PROVE StoreInv'
    <3>1. Moves(step) /\ tx'.stage = tx.stage
      BY <2>3, GotoMoves
    <3>2. dir'.final[Blob] # None
      BY <2>1, <2>3, SMTT(30) DEF Exists
    <3> QED  BY <1>2, <2>1, <3>1, <3>2, MoveKeeps DEF Ensuring
  <2> QED  BY <1>9, <2>2, <2>3 DEF Resolve
<1> QED  BY <1>5, <1>6, <1>7, <1>8, <1>9

(* A sync of the directory of a blob makes its digest name durable.            *)
LEMMA ConfirmedByDir ==
  ASSUME Filed, FinalNamesComplete, Closed, NEW b \in Blobs, dir.final[b] # None,
         SyncDigestDir(b.kind)
  PROVE  Kept /\ file' = file /\ dir'.final[b] # None /\ disk'.final[b] # None
<1>1. Filed' /\ Flush /\ disk'.final[b] = dir.final[b]
  BY SyncDigestDirFlushes, SMTT(30)
<1> QED  BY <1>1, FlushKeeps DEF Kept, Flush

(* A blob that is being cleaned up after is already durable.                 *)
LEMMA ConfirmedBlob ==
  ASSUME StoreInv, tx.at \in {"clean_reused", "unlink", "confirm_staging"}
  PROVE  Durable(Blob)
BY Zenon DEF StoreInv, ImportKnows

(* Reusing a blob and confirming a publication keep the invariant.           *)
LEMMA ConfirmingStep ==
  ASSUME StoreInv,
         \/ (\E i \in Inodes : Clean(i)) /\ At("clean_reused")
         \/ CleanDone /\ At("clean_reused")
         \/ Reuse \/ ConfirmLink \/ UnlinkAlias \/ UnlinkAliasFails \/ ConfirmRename
         \/ ConfirmStaging
  PROVE  StoreInv'
<1> USE DEF StoreInv, At
<1>0. Filed /\ FinalNamesComplete /\ Closed /\ DOMAIN tx = DOMAIN Idle
  OBVIOUS
<1>1. /\ tx.at \in {"clean_reused", "ensure", "linked", "unlink", "confirm", "confirm_staging"}
      /\ tx.at \in Ensuring
  BY DEF Reuse, ConfirmLink, UnlinkAlias, UnlinkAliasFails, ConfirmRename, ConfirmStaging, Ensuring
<1>2. Blob \in Blobs
  BY <1>1, EnsuredBlob, SMTT(30)
<1>3. ASSUME NEW i \in Inodes, Clean(i), At("clean_reused")  PROVE StoreInv'
  <2>1. Filed' /\ Aside /\ Kept
    BY <1>0, <1>3, UnlinkStageAside, AsideKeeps DEF Clean, Kept
  <2>2. Moves("clean_reused")
    BY <1>0, <1>3, SMTT(30) DEF Clean, Moves, Idle
  <2>3. dir'.final[Blob] # None /\ disk'.final[Blob] # None
    <3>1. Durable(Blob)
      BY <1>3, ConfirmedBlob, Zenon
    <3> QED  BY <2>1, <3>1, SMTT(30) DEF Durable, Aside
  <2> QED  BY <1>1, <2>1, <2>2, <2>3, MoveKeeps DEF Ensuring, Staged
<1>4. ASSUME CleanDone, At("clean_reused")  PROVE StoreInv'
  <2>1. Kept /\ dir' = dir /\ disk' = disk
    BY <1>0, <1>4, StillKeeps DEF CleanDone, Quiet, Kept
  <2>2. Moves("confirm_staging")
    BY <1>0, <1>4, SMTT(30) DEF CleanDone, Moves, Idle
  <2>3. dir'.final[Blob] # None /\ disk'.final[Blob] # None
    <3>1. Durable(Blob)
      BY <1>4, ConfirmedBlob, Zenon
    <3> QED  BY <2>1, <3>1, Zenon DEF Durable
  <2> QED  BY <1>1, <2>1, <2>2, <2>3, MoveKeeps DEF Ensuring, Staged
<1>5. CASE Reuse
  <2>1. Kept /\ dir'.final[Blob] # None /\ disk'.final[Blob] # None
    BY <1>0, <1>2, <1>5, ConfirmedByDir, SMTT(30) DEF Reuse, Verified, Exists
  <2>2. Moves("clean_reused")
    BY <1>5, GotoMoves, SMTT(30) DEF Reuse
  <2> QED  BY <1>1, <2>1, <2>2, MoveKeeps, SMTT(30) DEF Ensuring, Staged
<1>6. CASE ConfirmLink
  <2>1. dir.final[Blob] # None /\ tx.stage \in Inodes /\ file[tx.stage].blob = Blob
    BY <1>6, SMTT(30) DEF ConfirmLink, ImportKnows, Staged
  <2>2. Kept /\ file' = file /\ dir'.final[Blob] # None /\ disk'.final[Blob] # None
    BY <1>0, <1>2, <1>6, <2>1, ConfirmedByDir DEF ConfirmLink
  <2>3. Moves("unlink") /\ tx'.stage = tx.stage
    BY <1>6, GotoMoves, SMTT(30) DEF ConfirmLink
  <2> QED  BY <1>1, <2>1, <2>2, <2>3, MoveKeeps, SMTT(30) DEF Ensuring
<1>7. CASE UnlinkAlias
  <2>1. Filed' /\ Aside /\ Kept
    BY <1>0, <1>7, UnlinkStageAside, AsideKeeps, SMTT(30) DEF UnlinkAlias, Kept
  <2>2. dir'.final[Blob] # None /\ disk'.final[Blob] # None
    <3>1. Durable(Blob)
      BY <1>7, ConfirmedBlob, Zenon DEF UnlinkAlias
    <3> QED  BY <2>1, <3>1, SMTT(30) DEF Durable, Aside
  <2>3. Moves("confirm_staging")
    BY <1>7, GotoMoves, SMTT(30) DEF UnlinkAlias
  <2> QED  BY <1>1, <2>1, <2>2, <2>3, MoveKeeps, SMTT(30) DEF Ensuring, Staged
<1>8. CASE UnlinkAliasFails
  <2>0. UNCHANGED fsVars
    BY <1>8, Zenon DEF UnlinkAliasFails
  <2>1. Kept /\ dir' = dir /\ disk' = disk
    BY <1>0, <2>0, StillKeeps, SMTT(30) DEF Kept, fsVars
  <2>2. dir'.final[Blob] # None /\ disk'.final[Blob] # None
    <3>1. Durable(Blob)
      BY <1>8, ConfirmedBlob, Zenon DEF UnlinkAliasFails
    <3> QED  BY <2>1, <3>1, Zenon DEF Durable
  <2>3. Moves("confirm_staging")
    BY <1>8, GotoMoves, SMTT(30) DEF UnlinkAliasFails
  <2> QED  BY <1>1, <2>1, <2>2, <2>3, MoveKeeps, SMTT(30) DEF Ensuring, Staged
<1>9. CASE ConfirmRename
  <2>1. dir.final[Blob] # None
    BY <1>9, SMTT(30) DEF ConfirmRename, ImportKnows
  <2>2. Kept /\ dir'.final[Blob] # None /\ disk'.final[Blob] # None
    BY <1>0, <1>2, <1>9, <2>1, ConfirmedByDir, SMTT(30) DEF ConfirmRename
  <2>3. Moves("confirm_staging")
    BY <1>9, GotoMoves, SMTT(30) DEF ConfirmRename
  <2> QED  BY <1>1, <2>2, <2>3, MoveKeeps, SMTT(30) DEF Ensuring, Staged
<1>10. CASE ConfirmStaging
  <2>1. Kept
    BY <1>0, <1>10, SyncStagingFlushes, FlushKeeps DEF ConfirmStaging, Kept
  <2>2. CASE Len(tx.todo) = 1
    <3>1. End
      BY <1>10, <2>2, Zenon DEF ConfirmStaging, NextBlob
    <3> QED  BY <2>1, <3>1, EndKeeps, Zenon DEF Kept
  <2>3. CASE Len(tx.todo) # 1
    <3>1. /\ DOMAIN tx' = DOMAIN Idle /\ tx'.at = "ensure" /\ tx'.artifact = tx.artifact
          /\ tx'.todo = Tail(tx.todo)
      BY <1>0, <1>10, <2>3, ZenonT(60) DEF ConfirmStaging, NextBlob, Idle
    <3>2. tx.artifact \in Artifacts /\ Remaining(tx.artifact, tx.todo) /\ Done(tx.artifact, tx.todo)
      BY <1>1, SMTT(30) DEF ImportKnows
    <3>3. Durable(Blob)
      BY <1>10, SMTT(30) DEF ConfirmStaging, ImportKnows
    <3>4. Remaining(tx.artifact, Tail(tx.todo))
      BY <2>3, <3>2, HeadAndTail, SMTT(30)
    <3>5. ASSUME NEW b \in Dependencies(tx.artifact)
          PROVE  (\E n \in 1..Len(Tail(tx.todo)) : Tail(tx.todo)[n] = b) \/ Durable(b)'
      <4>1. b \in Blobs
        BY <3>2, BlobFacts
      <4>2. \/ b = Blob
            \/ \E n \in 1..Len(Tail(tx.todo)) : Tail(tx.todo)[n] = b
            \/ Durable(b)
        <5>1. \/ b = Head(tx.todo)
              \/ \E n \in 1..Len(Tail(tx.todo)) : Tail(tx.todo)[n] = b
              \/ ~ \E n \in 1..Len(tx.todo) : tx.todo[n] = b
          BY <3>2, HeadAndTail, SMTT(30)
        <5> QED  BY <5>1, <3>2, SMTT(30) DEF Done, Blob
      <4>3. Durable(b) => Durable(b)'
        BY <2>1, <4>1, Zenon DEF Kept
      <4> QED  BY <3>3, <4>2, <4>3, Zenon
    <3>6. ImportKnows'
      BY <3>1, <3>2, <3>4, <3>5, SMTT(30) DEF ImportKnows, Done, Staged
    <3>7. RetryKnows' /\ GcKnows'
      BY <3>1 DEF RetryKnows, GcKnows, Retried
    <3> QED  BY <2>1, <3>1, <3>6, <3>7 DEF Kept
  <2> QED  BY <2>2, <2>3
<1> QED  BY <1>3, <1>4, <1>5, <1>6, <1>7, <1>8, <1>9, <1>10

(* Every step of import, of gc, of a failure or of a crash keeps the invariant. *)
LEMMA StoreStep == StoreInv /\ [Next]_vars => StoreInv'
<1> SUFFICES ASSUME StoreInv, [Next]_vars  PROVE StoreInv'
  OBVIOUS
<1>1. CASE ImportStep
  <2>1. ASSUME NEW i \in Inodes, Clean(i)  PROVE StoreInv'
    BY <2>1, RetryStep, ConfirmingStep DEF Clean
  <2>2. ASSUME CleanDone  PROVE StoreInv'
    BY <2>2, RetryStep, ConfirmingStep DEF CleanDone
  <2> QED  BY <1>1, <2>1, <2>2, RetryStep, EndingStep, StagingStep, PublishingStep, ConfirmingStep
           DEF ImportStep
<1>2. CASE GcStep
  BY <1>2, GcInv
<1>3. CASE Stop \/ MachineCrash
  BY <1>3, EndingStep
<1>4. CASE UNCHANGED vars
  <2>1. UNCHANGED <<dir, disk, renamed, file, tx>>
    BY <1>4 DEF vars
  <2>2. Filed' /\ FinalNamesComplete' /\ Closed'
    BY <2>1, StillKeeps, SMTT(30) DEF StoreInv, fsVars
  <2>3. ImportKnows'
    BY <2>1 DEF StoreInv, ImportKnows, Done, Durable, Blob
  <2>4. RetryKnows'
    BY <2>1 DEF StoreInv, RetryKnows
  <2>5. GcKnows'
    BY <2>1 DEF StoreInv, GcKnows, Live, Visible, Exists
  <2> QED  BY <2>1, <2>2, <2>3, <2>4, <2>5 DEF StoreInv
<1> QED  BY <1>1, <1>2, <1>3, <1>4 DEF Next

(* The invariant holds of every behaviour of the store.                      *)
LEMMA StoreInvariant == Spec => []StoreInv
BY StoreInit, StoreStep, PTL DEF Spec

(* Whatever import, gc, failed calls and crashes do, a digest name, visible or *)
(* durable, denotes the complete and synced file of its blob: write_stage and  *)
(* sync_all come before the rename or the link of ensure_blob.                 *)
THEOREM StoreNamesComplete == Spec => []FinalNamesComplete
BY StoreInvariant, PTL DEF StoreInv

(* The manifest is the commit point: it is never visible, nor found after a    *)
(* crash, without every page table and object it refers to.                    *)
THEOREM StoreClosed == Spec => []CommittedClosed
<1>1. StoreInv => CommittedClosed
  <2> SUFFICES ASSUME StoreInv, NEW a \in Artifacts
               PROVE  /\ dir.final[Manifest(a)] # None
                           => \A b \in Dependencies(a) : dir.final[b] # None
                      /\ disk.final[Manifest(a)] # None
                           => \A b \in Dependencies(a) : disk.final[b] # None
    BY DEF CommittedClosed
  <2> QED  BY DEF StoreInv, Closed, Durable
<1> QED  BY <1>1, StoreInvariant, PTL

(* While import confirms a blob, a stage goes only when the digest name of its *)
(* blob is on the disk: finish_link_publication and the branch of ensure_blob   *)
(* that reuses a blob sync the destination before they unlink.                  *)
THEOREM StoreKeepsAliases == Spec => AliasesOutlastPublication
<1>1. StoreInv /\ [Next]_vars => AliasesOutlast({"clean_reused", "unlink"})
  <2> SUFFICES ASSUME StoreInv, [Next]_vars, tx.at \in {"clean_reused", "unlink"}, tx'.at # "idle",
                      NEW i \in dir.staging \ dir'.staging
               PROVE  disk.final[file[i].blob] # None
    BY SMTT(30) DEF AliasesOutlast
  <2>1. tx' # Idle
    BY SMTT(30) DEF Idle
  <2>2. disk.final[Blob] # None /\ Filed
    BY SMTT(30) DEF StoreInv, ImportKnows, Durable
  <2>3. ASSUME NEW j, UnlinkStage(j), file[j].blob = Blob  PROVE disk.final[file[i].blob] # None
    <3>1. i = j
      BY <2>2, <2>3 DEF UnlinkStage, Filed, Names
    <3> QED  BY <2>2, <2>3, <3>1
  <2>4. dir' # dir
    OBVIOUS
  <2>5. CASE tx.at = "clean_reused"
    <3>1. \E j \in Inodes : Clean(j)
      BY <2>1, <2>4, <2>5, SMTT(30)
         DEF Next, ImportStep, GcStep, vars, At, End, ImportCommitted, Import, CreateStage, Resume,
             CleanFails, CleanDone, Quiet, fsVars, SyncCommitted, Reuse, SyncCreated,
             SyncCreatedFails, Copy, CopyFails, CopyRefused, SyncStageFile, RenameStage,
             RenameUnsupported, LinkStage, PublishAmbiguous, Resolve, ConfirmLink, UnlinkAlias,
             UnlinkAliasFails, ConfirmRename, ConfirmStaging, Gc, SweepDigest, SweepStage,
             SweepStops, SweepDone, SyncSwept, Stop, MachineCrash
    <3>2. PICK j \in Inodes : Clean(j)
      BY <3>1
    <3>3. UnlinkStage(j) /\ file[j].blob = Blob
      BY <2>5, <3>2 DEF Clean, At, Redundant, Stages
    <3> QED  BY <2>3, <3>3, SMTT(30)
  <2>6. CASE tx.at = "unlink"
    <3>1. UnlinkAlias
      BY <2>1, <2>4, <2>6, SMTT(30)
         DEF Next, ImportStep, GcStep, vars, At, End, ImportCommitted, Import, CreateStage, Resume,
             Clean, CleanFails, CleanDone, Quiet, fsVars, SyncCommitted, Reuse, SyncCreated,
             SyncCreatedFails, Copy, CopyFails, CopyRefused, SyncStageFile, RenameStage,
             RenameUnsupported, LinkStage, PublishAmbiguous, Resolve, ConfirmLink,
             UnlinkAliasFails, ConfirmRename, ConfirmStaging, Gc, SweepDigest, SweepStage,
             SweepStops, SweepDone, SyncSwept, Stop, MachineCrash
    <3>2. UnlinkStage(tx.stage) /\ file[tx.stage].blob = Blob
      BY <2>6, <3>1 DEF UnlinkAlias, StoreInv, ImportKnows, Staged
    <3> QED  BY <2>3, <3>2, SMTT(30)
  <2> QED  BY <2>5, <2>6
<1> QED  BY <1>1, StoreInvariant, PTL DEF Spec, AliasesOutlastPublication

-----------------------------------------------------------------------------
(* The catalog of whole artifacts.                                             *)

OnDisk == {a \in Artifacts : disk.final[Manifest(a)] # None}

(* No manifest appears, becomes durable or goes.                               *)
LEMMA CatalogStutters ==
  ASSUME \A a \in Artifacts : /\ dir'.final[Manifest(a)] = dir.final[Manifest(a)]
                              /\ disk'.final[Manifest(a)] = disk.final[Manifest(a)],
         receipts' = receipts
  PROVE  [Catalog!Next]_Catalog!vars
<1>1. Visible' = Visible
  BY DEF Visible, Exists
<1>2. OnDisk' = OnDisk
  BY DEF OnDisk
<1> QED  BY <1>1, <1>2 DEF Catalog!vars, OnDisk

(* Work aside from the final names is invisible in the catalog, ...          *)
LEMMA AsideStutters ==
  ASSUME Aside, receipts' = receipts
  PROVE  [Catalog!Next]_Catalog!vars
BY CatalogStutters DEF Aside

(* ... and so is a step that leaves the file system alone.                   *)
LEMMA StillStutters ==
  ASSUME UNCHANGED fsVars, receipts' = receipts
  PROVE  [Catalog!Next]_Catalog!vars
BY CatalogStutters DEF fsVars

(* A sync persists visible manifests, and the receipts it allows are for some   *)
(* of them.                                                                     *)
LEMMA CatalogPersists ==
  ASSUME Closed, Flush, NEW r \in SUBSET Visible, r \subseteq OnDisk', receipts' = receipts \cup r
  PROVE  [Catalog!Next]_Catalog!vars
<1> DEFINE s == {a \in Visible : disk'.final[Manifest(a)] # None}
<1>1. Visible' = Visible
  BY SMTT(30) DEF Visible, Exists, Flush
<1>2. \A a \in Artifacts : disk'.final[Manifest(a)] \in {dir.final[Manifest(a)], disk.final[Manifest(a)]}
  BY BlobFacts, SMTT(30) DEF Flush
<1>3. OnDisk \subseteq Visible
  BY DEF OnDisk, Visible, Exists, Closed
<1>4. \A a \in OnDisk : a \in OnDisk'
  BY <1>2, <1>3 DEF OnDisk, Visible, Exists
<1>5. \A a \in OnDisk' : a \in Visible
  BY <1>2, <1>3, SMTT(30) DEF OnDisk, Visible, Exists
<1>6. OnDisk' = OnDisk \cup s
  BY <1>4, <1>5 DEF OnDisk, Visible
<1>7. s \in SUBSET Visible
  OBVIOUS
<1> HIDE DEF s
<1>8. Catalog!Persist
  BY <1>1, <1>6, <1>7 DEF Catalog!Persist, OnDisk
<1> QED  BY <1>8 DEF Catalog!Next

(* A sync is one Persist of the catalog.                                     *)
LEMMA SyncPersists ==
  ASSUME Closed, Flush, receipts' = receipts
  PROVE  [Catalog!Next]_Catalog!vars
BY CatalogPersists, {} \in SUBSET Visible, receipts = receipts \cup {}, ZenonT(60)

(* The publication of a blob is a Publish of the catalog, or invisible.      *)
LEMMA PublishPublishes ==
  ASSUME StoreInv, At("rename") \/ At("link"), Rename(tx.stage) \/ Link(tx.stage),
         receipts' = receipts
  PROVE  [Catalog!Next]_Catalog!vars
<1>1. /\ tx.at \in Ensuring /\ tx.stage \in Inodes /\ file[tx.stage].blob = Blob
      /\ file[tx.stage].content = "full" /\ file[tx.stage].synced
  BY SMTT(30) DEF StoreInv, At, ImportKnows, Ensuring, Staged
<1>2. /\ tx.artifact \in Artifacts /\ Blob \in Blobs
      /\ Blob \in Dependencies(tx.artifact) \cup {Manifest(tx.artifact)}
      /\ Blob = Manifest(tx.artifact) => \A b \in Dependencies(tx.artifact) : Durable(b)
  BY <1>1, EnsuredBlob, SMTT(30)
<1>3. /\ disk' = disk /\ dir'.final[Blob] # None
      /\ \A b \in Blobs : b # Blob => dir'.final[b] = dir.final[b]
  BY <1>1, <1>2, PublishKeeps DEF StoreInv
<1>4. CASE Blob = Manifest(tx.artifact)
  <2>1. \A a \in Artifacts : a # tx.artifact => dir'.final[Manifest(a)] = dir.final[Manifest(a)]
    BY <1>2, <1>3, <1>4, BlobFacts, SMTT(30)
  <2>2. Visible' = Visible \cup {tx.artifact}
    BY <1>2, <1>3, <1>4, <2>1 DEF Visible, Exists
  <2>3. OnDisk' = OnDisk
    BY <1>3 DEF OnDisk
  <2>4. Catalog!Publish(tx.artifact)
    BY <2>2, <2>3, SMTT(30) DEF Catalog!Publish, OnDisk
  <2> QED  BY <1>2, <2>4, SMTT(30) DEF Catalog!Next
<1>5. CASE Blob # Manifest(tx.artifact)
  <2>1. \A a \in Artifacts : dir'.final[Manifest(a)] = dir.final[Manifest(a)]
    BY <1>2, <1>3, <1>5, BlobFacts
  <2> QED  BY <1>3, <2>1, CatalogStutters, SMTT(30)
<1> QED  BY <1>4, <1>5, SMTT(30)

(* A crash is one Restart of the catalog.                                    *)
LEMMA CrashRestarts ==
  ASSUME StoreInv, Crash, receipts' = receipts
  PROVE  [Catalog!Next]_Catalog!vars
<1>1. dir' = disk' /\ \A b \in Blobs : dir'.final[b] \in {dir.final[b], disk.final[b]}
  BY CrashNames DEF StoreInv
<1>2. Visible' = OnDisk'
  BY <1>1, SMTT(30) DEF Visible, Exists, OnDisk
<1>3. \A a \in Artifacts : dir'.final[Manifest(a)] \in {dir.final[Manifest(a)], disk.final[Manifest(a)]}
  BY <1>1, BlobFacts
<1>4. OnDisk \subseteq Visible
  BY DEF StoreInv, OnDisk, Visible, Exists, Closed
<1>5. Visible' \subseteq Visible
  BY <1>3, <1>4 DEF OnDisk, Visible, Exists
<1>6. OnDisk \subseteq Visible'
  BY <1>3, <1>4 DEF OnDisk, Visible, Exists
<1>7. OnDisk' = OnDisk \cup Visible' /\ Visible' \in SUBSET Visible
  BY <1>2, <1>5, <1>6, SMTT(30)
<1>8. Catalog!Restart
  BY <1>2, <1>7 DEF Catalog!Restart, OnDisk
<1> QED  BY <1>8 DEF Catalog!Next

(* A receipt comes with a sync after which the manifest is durable.             *)
LEMMA ReceiptPersists ==
  ASSUME StoreInv, SyncCommitted \/ ConfirmStaging
  PROVE  [Catalog!Next]_Catalog!vars
<1>0. Filed /\ Closed
  BY DEF StoreInv
<1>1. Flush
  BY <1>0, SyncStagingFlushes, SyncDigestDirFlushes
     DEF SyncCommitted, SyncDir, ConfirmStaging
<1>2. CASE receipts' = receipts
  BY <1>0, <1>1, <1>2, SyncPersists
<1>3. CASE SyncCommitted /\ Len(tx.syncs) = 1
  <2>1. tx.artifact \in Artifacts /\ dir.final[Manifest(tx.artifact)] # None /\ tx.syncs \in SyncsLeft
    BY <1>3 DEF SyncCommitted, At, StoreInv, RetryKnows, Retried
  <2>2. SyncDigestDir("manifest")
    BY <1>3, <2>1, SyncsTails, SMTT(30) DEF SyncCommitted, SyncDir
  <2>3. disk'.final[Manifest(tx.artifact)] = dir.final[Manifest(tx.artifact)]
    BY <1>0, <2>1, <2>2, SyncDigestDirFlushes, BlobFacts
  <2>4. {tx.artifact} \in SUBSET Visible /\ {tx.artifact} \subseteq OnDisk'
    BY <2>1, <2>3 DEF Visible, Exists, OnDisk
  <2>5. receipts' = receipts \cup {tx.artifact}
    BY <1>3, SMTT(30) DEF SyncCommitted
  <2> QED  BY <1>0, <1>1, <2>4, <2>5, CatalogPersists, Zenon
<1>4. CASE ConfirmStaging /\ Len(tx.todo) = 1
  <2>1. tx.at \in Ensuring /\ Durable(Blob)
    BY <1>4 DEF ConfirmStaging, At, StoreInv, ImportKnows, Ensuring
  <2>2. tx.artifact \in Artifacts /\ Blob = Manifest(tx.artifact) /\ Blob \in Blobs
    BY <1>4, <2>1, EnsuredBlob, SMTT(30)
  <2>3. disk'.final[Blob] # None
    BY <1>1, <2>1, <2>2, SMTT(30) DEF Flush, Durable
  <2>4. {tx.artifact} \in SUBSET Visible /\ {tx.artifact} \subseteq OnDisk'
    BY <2>1, <2>2, <2>3 DEF Visible, Exists, OnDisk, Durable
  <2>5. receipts' = receipts \cup {tx.artifact}
    BY <1>4 DEF ConfirmStaging, NextBlob
  <2> QED  BY <1>0, <1>1, <2>4, <2>5, CatalogPersists, ZenonT(60)
<1> QED  BY <1>2, <1>3, <1>4 DEF SyncCommitted, ConfirmStaging, NextBlob

(* Every step of the store is a step of the catalog or a stutter.            *)
LEMMA CatalogStep == StoreInv /\ [Next]_vars => [Catalog!Next]_Catalog!vars
<1> SUFFICES ASSUME StoreInv, [Next]_vars  PROVE [Catalog!Next]_Catalog!vars
  OBVIOUS
<1>0. Filed /\ FinalNamesComplete /\ Closed
  BY DEF StoreInv
<1>1. ASSUME UNCHANGED fsVars, receipts' = receipts  PROVE [Catalog!Next]_Catalog!vars
  BY <1>1, StillStutters
<1>2. ASSUME NEW kind, SyncDigestDir(kind), receipts' = receipts
      PROVE  [Catalog!Next]_Catalog!vars
  BY <1>0, <1>2, SyncDigestDirFlushes, SyncPersists
<1>3. ASSUME SyncStaging, receipts' = receipts  PROVE [Catalog!Next]_Catalog!vars
  BY <1>0, <1>3, SyncStagingFlushes, SyncPersists
<1>4. ASSUME NEW i, UnlinkStage(i), receipts' = receipts  PROVE [Catalog!Next]_Catalog!vars
  BY <1>0, <1>4, UnlinkStageAside, AsideStutters
<1>5. ASSUME dir'.final = dir.final, disk'.final = disk.final, receipts' = receipts
      PROVE  [Catalog!Next]_Catalog!vars
  BY <1>5, CatalogStutters
<1>6. CASE ImportStep
  <2>1. ASSUME NEW a \in Artifacts, ImportCommitted(a) \/ \E t \in TokenSets(a) : Import(a, t)
        PROVE  [Catalog!Next]_Catalog!vars
    BY <1>1, <2>1, Zenon DEF ImportCommitted, Import, Quiet
  <2>2. ASSUME NEW i \in Inodes, Clean(i) \/ CreateStage(i) \/ Resume(i)
        PROVE  [Catalog!Next]_Catalog!vars
    <3>1. CASE Clean(i)
      BY <1>4, <3>1, SMTT(30) DEF Clean
    <3>2. CASE CreateStage(i)
      <4>1. dir'.final = dir.final /\ disk' = disk /\ receipts' = receipts
        BY <1>0, <3>2 DEF CreateStage, CreateLeaf, Filed, Names
      <4> QED  BY <1>5, <4>1
    <3>3. CASE Resume(i)
      BY <1>1, <3>3 DEF Resume, Quiet
    <3> QED  BY <2>2, <3>1, <3>2, <3>3
  <2>3. CASE CleanFails \/ CleanDone \/ CopyRefused \/ RenameUnsupported \/ Resolve \/ UnlinkAliasFails
    BY <1>1, <1>3, <2>3
       DEF CleanFails, CleanDone, CopyRefused, RenameUnsupported, Resolve, UnlinkAliasFails, Quiet
  <2>4. CASE SyncCommitted \/ ConfirmStaging
    BY <2>4, ReceiptPersists
  <2>5. CASE Reuse \/ ConfirmLink \/ ConfirmRename \/ SyncCreated \/ UnlinkAlias
    BY <1>2, <1>3, <1>4, <2>5 DEF Reuse, ConfirmLink, ConfirmRename, SyncCreated, UnlinkAlias
  <2>6. CASE SyncCreatedFails
    <3>1. ASSUME dir' = [dir EXCEPT !.staging = @ \ {tx.stage}],
                 disk' = [disk EXCEPT !.staging = dir'.staging], receipts' = receipts
          PROVE  [Catalog!Next]_Catalog!vars
      <4>1. dir'.final = dir.final /\ disk'.final = disk.final
        BY <1>0, <3>1 DEF Filed, Names
      <4> QED  BY <1>5, <3>1, <4>1
    <3> QED  BY <1>1, <1>3, <1>4, <2>6, <3>1 DEF SyncCreatedFails
  <2>7. CASE Copy \/ CopyFails \/ SyncStageFile
    BY <1>1, <1>5, <2>7 DEF Copy, CopyFails, SyncStageFile, Write, SyncFile
  <2>8. CASE RenameStage \/ LinkStage \/ PublishAmbiguous
    BY <1>1, <2>8, PublishPublishes DEF RenameStage, LinkStage, PublishAmbiguous
  <2> QED  BY <1>6, <2>1, <2>2, <2>3, <2>4, <2>5, <2>6, <2>7, <2>8, SMTT(30) DEF ImportStep
<1>7. CASE GcStep
  <2>1. ASSUME NEW remove_staging \in BOOLEAN, Gc(remove_staging)
        PROVE  [Catalog!Next]_Catalog!vars
    BY <1>1, <2>1 DEF Gc, Quiet
  <2>2. ASSUME NEW b \in Blobs, SweepDigest(b)  PROVE [Catalog!Next]_Catalog!vars
    <3>1. b.kind # "manifest"
      BY <2>2 DEF SweepDigest, At, StoreInv, GcKnows
    <3>2. disk' = disk /\ dir'.final = [dir.final EXCEPT ![b] = None] /\ receipts' = receipts
      BY <1>0, <2>2, UnlinkDigestNames, SMTT(30) DEF SweepDigest
    <3>3. \A a \in Artifacts : dir'.final[Manifest(a)] = dir.final[Manifest(a)]
      BY <1>0, <3>1, <3>2, BlobFacts DEF Filed, Names
    <3> QED  BY <3>2, <3>3, CatalogStutters
  <2>3. ASSUME NEW i \in Inodes, SweepStage(i)  PROVE [Catalog!Next]_Catalog!vars
    BY <1>4, <2>3 DEF SweepStage
  <2>4. CASE SweepStops \/ SweepDone
    BY <1>1, <2>4 DEF SweepStops, SweepDone, Quiet
  <2>5. CASE SyncSwept
    BY <1>1, <1>2, <1>3, <2>5, SMTT(30) DEF SyncSwept, SyncDir
  <2> QED  BY <1>7, <2>1, <2>2, <2>3, <2>4, <2>5, SMTT(30) DEF GcStep
<1>8. CASE Stop
  BY <1>1, <1>8 DEF Stop
<1>9. CASE MachineCrash
  BY <1>9, CrashRestarts DEF MachineCrash
<1>10. CASE UNCHANGED vars
  BY <1>1, <1>10 DEF vars, fsVars
<1> QED  BY <1>6, <1>7, <1>8, <1>9, <1>10 DEF Next

(* The store keeps the catalog's promise for every artifact: a visible one       *)
(* vanishes only in a crash before its manifest is durable, and import returns a  *)
(* receipt only for a durable one, which nothing takes away again.                *)
THEOREM StoreImplementsCatalog == Spec => ImplementsCatalog
<1>1. Init => Catalog!Init
  <2> SUFFICES ASSUME Init PROVE Catalog!Init
    OBVIOUS
  <2>1. \A a \in Artifacts : dir.final[Manifest(a)] = None /\ disk.final[Manifest(a)] = None
    BY BlobFacts DEF Init, FsInit
  <2> QED  BY <2>1, SMTT(30) DEF Catalog!Init, Visible, Exists, Init
<1> QED  BY <1>1, StoreInvariant, CatalogStep, PTL DEF Spec, ImplementsCatalog, Catalog!Spec

(* An artifact with a receipt has its manifest, its page tables and its objects *)
(* under their digest names, visible and durable, each a complete synced file.   *)
ReceiptsHonoured ==
  \A a \in receipts : \A b \in Dependencies(a) \cup {Manifest(a)} :
    /\ Durable(b)
    /\ \A names \in {dir, disk} : LET f == file[names.final[b]] IN
         f.blob = b /\ f.content = "full" /\ f.synced

(* From the moment import returns a receipt, no later import, collection,        *)
(* failure or crash of the machine leaves the artifact incomplete.               *)
THEOREM ReceiptsAreHonoured == Spec => []ReceiptsHonoured
<1>1. Init => receipts \subseteq OnDisk
  BY DEF Init
<1>2. receipts \subseteq OnDisk /\ [Catalog!Next]_Catalog!vars => (receipts \subseteq OnDisk)'
  <2>1. ASSUME receipts \subseteq OnDisk, Catalog!Next  PROVE receipts' \subseteq OnDisk'
    BY <2>1, SMTT(30) DEF Catalog!Next, Catalog!Persist, Catalog!Restart, Catalog!Publish, OnDisk
  <2>2. ASSUME receipts \subseteq OnDisk, UNCHANGED Catalog!vars  PROVE receipts' \subseteq OnDisk'
    BY <2>2, SMTT(30) DEF Catalog!vars, OnDisk
  <2> QED  BY <2>1, <2>2, SMTT(30)
<1>3. ASSUME StoreInv, receipts \subseteq OnDisk  PROVE ReceiptsHonoured
  <2> SUFFICES ASSUME NEW a \in receipts, NEW b \in Dependencies(a) \cup {Manifest(a)}
               PROVE  /\ Durable(b)
                      /\ \A names \in {dir, disk} : LET f == file[names.final[b]] IN
                           f.blob = b /\ f.content = "full" /\ f.synced
    BY DEF ReceiptsHonoured
  <2>1. a \in Artifacts /\ disk.final[Manifest(a)] # None
    BY <1>3, SMTT(30) DEF OnDisk
  <2>2. Durable(b)
    BY <1>3, <2>1, SMTT(30) DEF StoreInv, Closed, Durable
  <2>3. b \in Blobs
    BY <2>1, BlobFacts
  <2> QED  BY <1>3, <2>2, <2>3, SMTT(30) DEF StoreInv, FinalNamesComplete, Durable
<1> QED  BY <1>1, <1>2, <1>3, StoreInvariant, CatalogStep, PTL DEF Spec
=============================================================================
