------------------------------ MODULE MCStore -------------------------------
(* The store, seen in three ways.  BlobStore has the durability of the      *)
(* imports of two artifacts that share an object, DiskBudget their bytes,   *)
(* PageReader the reading of a stored page.  A behaviour is one of one of   *)
(* them.                                                                    *)
EXTENDS MCBlobStore

CONSTANTS Files, AllocationUnit, CopyBuffer, PageSize, max_bytes, reserve_bytes, Capacity, OtherBytes

VARIABLES
  view,        \* durability, bytes, page
  final, stages, sizes, available, others, import,
  content, cancelled, expired, pc, page, buffer, hashed, outcome, physical, interrupts, changes

bytes == <<final, stages, sizes, available, others, import>>
reading == <<content, cancelled, expired, pc, page, buffer, hashed, outcome, physical, interrupts, changes>>

MCLength == ("t1" :> 1) @@ ("o1" :> 5) @@ ("m1" :> 1) @@ ("m2" :> 2)
MCPublication == (A :> <<"t1", "o1", "m1">>) @@ (B :> <<"t1", "o1", "m2">>)

Budget == INSTANCE DiskBudget WITH
  Blobs <- DOMAIN MCLength, Objects <- {"o1"}, Length <- MCLength, Publication <- MCPublication,
  Inodes <- Files, file <- sizes, tx <- import

(* Seven cells in pages of four, read two at a time: a full page of two     *)
(* chunks and a last page with a partial chunk.                             *)
Reader == INSTANCE PageReader WITH
  Cells <- <<1, 2, 3, 4, 5, 6, 7>>, ChunkCells <- 2, Garbage <- 0, MaxChanges <- 2, MaxInterrupts <- 1,
  file <- content

StoreInit == Init /\ Budget!Init /\ Reader!Init /\ view \in {"durability", "bytes", "page"}
StoreNext ==
  \/ view = "durability" /\ Next /\ UNCHANGED <<view, bytes, reading>>
  \/ view = "bytes" /\ Budget!Next /\ UNCHANGED <<view, vars, reading>>
  \/ view = "page" /\ Reader!Next /\ UNCHANGED <<view, vars, bytes>>
StoreSpec == StoreInit /\ [][StoreNext]_<<view, vars, bytes, reading>>

FilesAlike == Permutations(Files)

(* The one decision of preflight_import holds for the whole import, resumed *)
(* or not, and the bytes an interrupted import left do not stand in the way *)
(* of resuming it: see DiskBudget.                                          *)
WithinBudget == Budget!WithinBudget /\ Budget!ResumeAdmitted

(* A page that read_observed returns is the page the table describes.       *)
DeliveredIsAuthentic == Reader!DeliveredIsAuthentic
=============================================================================
