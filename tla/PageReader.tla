----------------------------- MODULE PageReader -----------------------------
(* SyncReader (runnel-store/src/page.rs) over the positional reads of       *)
(* fs.rs: one page of a retained object is read in chunks and verified      *)
(* while the file may be overwritten, truncated or extended, a pread may    *)
(* return less than it was asked for or be interrupted, and the request may *)
(* be cancelled or run past its deadline.  A file is a sequence of cells;   *)
(* the fingerprint of a page is the content the page table was made from,   *)
(* since SHA-256 is taken to tell contents apart.                           *)
EXTENDS PageGeometry, Sequences

CONSTANTS
  Cells,           \* the cells the manifest describes
  PageSize,
  ChunkCells,      \* READ_CHUNK_BYTES
  Garbage,         \* a cell that is in no object
  MaxChanges,      \* bound on the changes made to the file
  MaxInterrupts    \* bound on EINTR during one read

VARIABLES
  file,          \* what the retained descriptor refers to
  cancelled,     \* CancellationToken
  expired,       \* the deadline has passed
  pc,            \* where the reader is
  page,          \* the PageSpec of the request
  buffer,        \* the filled part of the page buffer
  hashed,        \* cells given to the hasher
  outcome,       \* the result of the last request
  physical,      \* ReadStats::physical_bytes
  interrupts,    \* EINTR so far in this read
  changes        \* changes of the file so far

vars == <<file, cancelled, expired, pc, page, buffer, hashed, outcome, physical, interrupts,
          changes>>

environment == <<file, cancelled, expired, changes>>

-----------------------------------------------------------------------------
Pages == 0..(PageCount(Len(Cells), PageSize) - 1)

(* PageSpec::for_object: the geometry of a page and the hash the retained   *)
(* page table holds for it.                                                 *)
ForObject(i) ==
  LET offset == PageOffset(PageSize, i)
      length == PageLength(Len(Cells), PageSize, i)
  IN  [index |-> i, offset |-> offset, length |-> length,
       fingerprint |-> SubSeq(Cells, offset + 1, offset + length)]
NoPage == [index |-> 0, offset |-> 0, length |-> 0, fingerprint |-> <<>>]

Init ==
  /\ file = Cells
  /\ cancelled = FALSE /\ expired = FALSE
  /\ pc = "idle" /\ page = NoPage /\ buffer = <<>> /\ hashed = 0
  /\ outcome = "none" /\ physical = 0
  /\ interrupts = 0 /\ changes = 0

(* Control::check: what it returns, cancellation first.                     *)
Check == IF cancelled THEN "cancelled" ELSE IF expired THEN "deadline exceeded" ELSE "ok"

(* Any exit of read_observed; statistics are kept on every one of them.     *)
Stats(why) == Len(buffer)
Return(why) ==
  /\ pc' = "idle" /\ outcome' = why
  /\ physical' = Stats(why)
  /\ UNCHANGED <<environment, page, buffer, hashed, interrupts>>

Continue(next) ==
  /\ pc' = next
  /\ UNCHANGED <<environment, page, buffer, hashed, outcome, physical, interrupts>>

-----------------------------------------------------------------------------
(* The caller asks for a page; PageSpec::for_object bounds the index.       *)
Request(i) ==
  /\ pc = "idle"
  /\ buffer' = <<>> /\ hashed' = 0 /\ interrupts' = 0
  /\ physical' = 0
  /\ IF i \in Pages THEN pc' = "requested" /\ outcome' = "none" /\ page' = ForObject(i)
                    ELSE pc' = "idle" /\ outcome' = "out of range" /\ page' = NoPage
  /\ UNCHANGED environment

(* validate_specification: the request must agree with the retained table.  *)
ValidSpecification == page.index \in Pages /\ page = ForObject(page.index)

(* read_observed begins with a check.                                       *)
Begin ==
  /\ pc = "requested"
  /\ IF Check # "ok" THEN Return(Check)
     ELSE IF ~ValidSpecification THEN Return("integrity") ELSE Continue("length")

(* The length before and after the read.                                    *)
SameLength == Len(file) = Len(Cells)
InitialLength ==
  /\ pc = "length"
  /\ IF SameLength THEN Continue("enter") ELSE Return("length mismatch")
FinalLength ==
  /\ pc = "final length"
  /\ IF SameLength THEN Continue("hash") ELSE Return("length mismatch")

(* read_exact_at_observed: a check before the allocation, and one in every  *)
(* turn of the loop.                                                        *)
EnterRead ==
  /\ pc = "enter"
  /\ IF Check = "ok" THEN Continue("loop") ELSE Return(Check)
Turn ==
  /\ pc = "loop" /\ Len(buffer) < page.length
  /\ IF Check = "ok" THEN Continue("pread") ELSE Return(Check)

Minimum(a, b) == IF a < b THEN a ELSE b

(* pread at the fill position: at most the rest of the chunk.               *)
Position == page.offset + Len(buffer)
Wanted == Minimum(ChunkCells, page.length - Len(buffer))
Pread ==
  /\ pc = "pread" /\ Position < Len(file)
  /\ \E count \in 1..Minimum(Wanted, Len(file) - Position) :
       /\ buffer' = buffer \o SubSeq(file, Position + 1, Position + count)
  /\ pc' = "loop"
  /\ UNCHANGED <<environment, page, hashed, outcome, physical, interrupts>>

PreadEnd ==
  /\ pc = "pread" /\ Position >= Len(file)
  /\ Return("length mismatch")

PreadInterrupted ==
  /\ pc = "pread" /\ interrupts < MaxInterrupts
  /\ interrupts' = interrupts + 1
  /\ IF Check = "ok" THEN pc' = "loop" /\ UNCHANGED <<outcome, physical>>
     ELSE pc' = "idle" /\ outcome' = Check /\ physical' = Stats(Check)
  /\ UNCHANGED <<environment, page, buffer, hashed>>

PreadFails ==
  /\ pc = "pread"
  /\ Return("io")

(* After the loop.                                                          *)
Filled ==
  /\ pc = "loop" /\ Len(buffer) = page.length
  /\ IF Check = "ok" THEN Continue("final length") ELSE Return(Check)

(* One chunk is hashed after a check.                                       *)
Hash ==
  /\ pc = "hash" /\ hashed < Len(buffer)
  /\ IF Check = "ok"
     THEN /\ hashed' = Minimum(hashed + ChunkCells, Len(buffer))
          /\ UNCHANGED <<environment, pc, page, buffer, outcome, physical, interrupts>>
     ELSE Return(Check)

Matches_Length == Len(buffer) = page.length
Matches == SubSeq(buffer, 1, hashed) = page.fingerprint

(* The comparison, then the last check.                                     *)
Verify ==
  /\ pc = "hash" /\ hashed = Len(buffer)
  /\ IF ~Matches THEN Return("integrity")
     ELSE IF Check # "ok" THEN Return(Check) ELSE Return("verified")

-----------------------------------------------------------------------------
(* What others do to the file, and the control.                             *)
Contents ==
  {[file EXCEPT ![i] = c] : i \in DOMAIN file, c \in {Garbage}}
    \cup {[file EXCEPT ![i] = Cells[i]] : i \in DOMAIN file \cap DOMAIN Cells}
    \cup {SubSeq(file, 1, n) : n \in 0..Len(file)}
    \cup {Append(file, Garbage)}
ChangeFile ==
  /\ changes < MaxChanges
  /\ file' \in Contents /\ file' # file
  /\ changes' = changes + 1
  /\ UNCHANGED <<cancelled, expired, pc, page, buffer, hashed, outcome, physical, interrupts>>

Cancel ==
  /\ ~cancelled /\ cancelled' = TRUE
  /\ UNCHANGED <<file, expired, changes, pc, page, buffer, hashed, outcome, physical, interrupts>>
Expire ==
  /\ ~expired /\ expired' = TRUE
  /\ UNCHANGED <<file, cancelled, changes, pc, page, buffer, hashed, outcome, physical, interrupts>>

Read ==
  \/ Begin \/ InitialLength \/ EnterRead \/ Turn \/ Pread \/ PreadEnd \/ PreadInterrupted
  \/ PreadFails \/ Filled \/ FinalLength \/ Hash \/ Verify
Next ==
  \/ \E i \in 0..PageCount(Len(Cells), PageSize) : Request(i)
  \/ Read
  \/ ChangeFile \/ Cancel \/ Expire

-----------------------------------------------------------------------------
(* Unverified bytes never appear in the result: whatever was done to the    *)
(* file during the read, a page that read_observed returns is the page the  *)
(* page table describes, at its place in the object.                        *)
DeliveredIsAuthentic ==
  outcome = "verified" =>
    LET first == page.index * PageSize
    IN  buffer = SubSeq(Cells, first + 1, Minimum(first + PageSize, Len(Cells)))
=============================================================================
