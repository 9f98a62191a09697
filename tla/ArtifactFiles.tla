---------------------------- MODULE ArtifactFiles ---------------------------
(* The files of an artifact as the two ways of opening it see them: the     *)
(* eager Artifact::open of runnel-format and the descriptors of             *)
(* runnel-store, while other processes rewrite, replace and remove them.    *)
(* A file is a sequence of cells.  A digest is a number and Bytes gives the *)
(* one content it stands for: SHA-256 is taken to have no collisions.       *)
EXTENDS PageGeometry, Sequences, SequencesExt, FiniteSets

CONSTANTS
  Trees,         \* artifact directories that are at the root path in turn, 1..n
  Bytes,         \* digest of an object or of a page table -> its content
  Headers,       \* cell -> the page-table header it encodes
  Manifests,     \* cell -> the manifest it encodes: [objects, tensors]
  RootManifest,  \* tree -> the cells its manifest may hold at first
  MaxChanges     \* bound on the changes other processes make

Digests == DOMAIN Bytes
ManifestPath == 0
Paths == {ManifestPath} \cup Digests
Garbage == 9

VARIABLES
  tree,      \* the tree at the root path
  leaf,      \* tree, path -> inode, or 0 where no regular file can be opened
  inodes,    \* sequence of [bytes, own]: own = owner and filesystem of the root
  changes

files == <<tree, leaf, inodes, changes>>

(* Every tree starts with the files that its digests name, in inodes        *)
(* numbered tree by tree.                                                   *)
Inode(t, p) == (t - 1) * Cardinality(Paths) + Cardinality({q \in Paths : q <= p})
FilesInit ==
  \E cell \in [Trees -> UNION {RootManifest[t] : t \in Trees}] :
    LET place(i) == CHOOSE tp \in Trees \X Paths : Inode(tp[1], tp[2]) = i
    IN  /\ \A t \in Trees : cell[t] \in RootManifest[t]
        /\ tree \in Trees
        /\ leaf = [t \in Trees |-> [p \in Paths |-> Inode(t, p)]]
        /\ inodes = [i \in 1..Cardinality(Trees \X Paths) |->
             [bytes |-> IF place(i)[2] = ManifestPath THEN <<cell[place(i)[1]]>> ELSE Bytes[place(i)[2]],
              own |-> TRUE]]
        /\ changes = 0

(* What another process may leave behind: a changed, a shorter or a longer  *)
(* file.                                                                    *)
Variants(bytes) ==
  {Append(bytes, Garbage)} \cup
  (IF bytes = <<>> THEN {} ELSE {<<Garbage>> \o Tail(bytes), Front(bytes)})

Change == changes < MaxChanges /\ changes' = changes + 1
SwapRoot ==
  /\ Change
  /\ tree' \in Trees \ {tree}
  /\ UNCHANGED <<leaf, inodes>>
Rewrite(i) ==
  /\ Change
  /\ \E b \in Variants(inodes[i].bytes) : inodes' = [inodes EXCEPT ![i].bytes = b]
  /\ UNCHANGED <<tree, leaf>>
ReplaceLeaf(t, p) ==
  /\ Change
  /\ leaf[t][p] # 0
  /\ LET bytes == inodes[leaf[t][p]].bytes
     IN  \E new \in [bytes : Variants(bytes), own : {TRUE}] \cup {[bytes |-> bytes, own |-> FALSE]} :
           inodes' = Append(inodes, new)
  /\ leaf' = [leaf EXCEPT ![t][p] = Len(inodes) + 1]
  /\ UNCHANGED tree
RemoveLeaf(t, p) ==
  /\ Change
  /\ leaf[t][p] # 0
  /\ leaf' = [leaf EXCEPT ![t][p] = 0]
  /\ UNCHANGED <<tree, inodes>>

Others ==
  \/ SwapRoot
  \/ \E i \in DOMAIN inodes : Rewrite(i)
  \/ \E t \in Trees, p \in Paths : ReplaceLeaf(t, p)
  \/ \E t \in Trees, p \in Paths : RemoveLeaf(t, p)

-----------------------------------------------------------------------------
(* Digest::of, and the hash of one page.                                    *)
Is(bytes, digest) == bytes = Bytes[digest]
PageHash(page) == FoldLeft(LAMBDA h, c : 10 * h + c, 0, page)

(* Manifest::parse_with_limits and parse_with_expected_id over whole files. *)
NoManifest == [objects |-> <<>>, tensors |-> <<>>]
Parses(bytes) == Len(bytes) = 1 /\ bytes[1] \in DOMAIN Manifests
Identified(bytes, expected) == Parses(bytes) /\ (expected = 0 \/ bytes[1] = expected)

(* PageTable::parse_verified: the length and the digest of the table, then  *)
(* its header field by field; a table is one header cell and its hashes.    *)
HeaderMatches(record, h) ==
  /\ h.version = 1
  /\ h.page_size = record.page_size
  /\ h.object_length = record.length
  /\ h.page_count = PageCount(record.length, record.page_size)
  /\ h.object = record.digest
ParseVerified(record, bytes) ==
  /\ Len(bytes) = record.page_table_length
  /\ Is(bytes, record.page_table)
  /\ Len(bytes) >= 1
  /\ bytes[1] \in DOMAIN Headers /\ HeaderMatches(record, Headers[bytes[1]])
  /\ Len(bytes) = 1 + Headers[bytes[1]].page_count

(* PageTable::verify_object: the object's length and digest, and the hash   *)
(* of each chunk of a page.                                                 *)
TableHash(table, index) == table[index + 2]
Page(record, bytes, p) ==
  SubSeq(bytes, PageOffset(record.page_size, p) + 1,
         PageOffset(record.page_size, p) + PageLength(record.length, record.page_size, p))
VerifyObject_NoPages(record, table, bytes) == Len(bytes) = record.length /\ Is(bytes, record.digest)
VerifyObject(record, table, bytes) ==
  /\ Len(bytes) = record.length /\ Is(bytes, record.digest)
  /\ \A p \in 0..(PageCount(record.length, record.page_size) - 1) :
       TableHash(table, p) = PageHash(Page(record, bytes, p))
=============================================================================
