--------------------------- MODULE ManifestParser ---------------------------
(* Manifest::parse_with_expected_id (runnel-format/src/manifest.rs) as the  *)
(* loop it is: the schema, the object records one by one, the tensor        *)
(* records one by one, their coverage, and the canonical bytes.  The        *)
(* document is chosen record by record from the sets given.                 *)
EXTENDS ManifestFormat

CONSTANTS
  LimitChoices,                  \* Limits a caller may pass
  Documents, Objects, Tensors    \* what a document may hold

VARIABLES stage, limits, objects, tensors

vars == <<stage, limits, objects, tensors>>

Init ==
  /\ stage = "schema"
  /\ limits \in LimitChoices
  /\ objects = NoObjects
  /\ tensors = <<>>

(* Every error drops what was parsed.                                       *)
Reject == stage' = "rejected" /\ objects' = NoObjects /\ tensors' = <<>> /\ UNCHANGED limits

(* parse_with_limits up to parse_objects; a document has a size and is one  *)
(* that the JSON reader accepts or not.                                     *)
ParseSchema(readable, size, d) ==
  /\ stage = "schema"
  /\ IF ValidLimits(limits) /\ size <= limits.manifest_bytes /\ readable /\ ValidSchema(d)
     THEN stage' = "objects" /\ UNCHANGED <<limits, objects, tensors>>
     ELSE Reject

(* The record count is checked before the loop, so that a surplus record is *)
(* never looked at.                                                         *)
ParseObject(o) ==
  /\ stage = "objects"
  /\ IF Len(objects.records) < limits.objects /\ AcceptsObject(limits, objects, o)
     THEN objects' = AddObject(objects, o) /\ UNCHANGED <<stage, limits, tensors>>
     ELSE Reject

EndObjects ==
  /\ stage = "objects"
  /\ stage' = "tensors"
  /\ UNCHANGED <<limits, objects, tensors>>

ParseTensor(t) ==
  /\ stage = "tensors"
  /\ IF Len(tensors) < limits.tensors /\ AcceptsTensor(objects.records, tensors, t)
     THEN tensors' = Append(tensors, t) /\ UNCHANGED <<stage, limits, objects>>
     ELSE Reject

(* The coverage check, the comparison with the canonical bytes and the      *)
(* artifact identifier, both of which the document may fail.                *)
EndTensors(canonical, expected) ==
  /\ stage = "tensors"
  /\ IF ValidTensorCoverage(objects.records, tensors) /\ canonical /\ expected
     THEN stage' = "accepted" /\ UNCHANGED <<limits, objects, tensors>>
     ELSE Reject

Next ==
  \/ \E readable \in BOOLEAN, size \in 1..2, d \in Documents : ParseSchema(readable, size, d)
  \/ \E o \in Objects : ParseObject(o)
  \/ EndObjects
  \/ \E t \in Tensors : ParseTensor([t EXCEPT !.id = @ + Len(tensors), !.role = @ + Len(tensors)])
  \/ \E canonical, expected \in BOOLEAN : EndTensors(canonical, expected)

-----------------------------------------------------------------------------
(* What validate_tensor_coverage decides with a sort and a cursor, said     *)
(* byte by byte: every byte of every object belongs to exactly one tensor,  *)
(* and no tensor reaches outside of its object.  Therefore the pages that   *)
(* tensor_page_specs reads for a tensor exist, each of them holds a byte of *)
(* the tensor, and together they hold all of it; and the declared table has *)
(* exactly one hash per page.                                               *)
PagesCoverTensors ==
  stage = "accepted" =>
    /\ \A o \in ToSet(objects.records) : \A b \in 0..(o.length - 1) :
         Cardinality({i \in DOMAIN tensors :
                        /\ tensors[i].object = o.digest
                        /\ tensors[i].offset <= b /\ b < tensors[i].offset + tensors[i].length}) = 1
    /\ \A i \in DOMAIN tensors :
         LET t == tensors[i]
             o == objects.records[Lookup(objects.records, t.object)]
             read == FirstPage(t.offset, o.page_size)..LastPage(t.offset, t.length, o.page_size)
             bytes(p) == PageOffset(o.page_size, p)..
                           (PageOffset(o.page_size, p) + PageLength(o.length, o.page_size, p) - 1)
             mine == t.offset..(t.offset + t.length - 1)
         IN  /\ t.offset + t.length <= o.length
             /\ \A p \in read : p < PageCount(o.length, o.page_size) /\ bytes(p) \cap mine # {}
             /\ mine \subseteq UNION {bytes(p) : p \in read}
             /\ o.page_table_length = HeaderBytes + HashBytes * Cardinality(
                  {b \div o.page_size : b \in 0..(o.length - 1)})
=============================================================================
