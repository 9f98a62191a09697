--------------------------- MODULE ManifestFormat ---------------------------
(* What runnel-format accepts as an RMOA manifest                           *)
(* (runnel-format/src/manifest.rs), as operators over parsed records.       *)
(*   object [digest, length, page_size, page_table, page_table_length]      *)
(*   tensor [id, dtype, length, object, offset, role, shape]                *)
(*   limits the Limits in force                                             *)
(* Digests are numbers, compared as the code compares their bytes.  Every   *)
(* integer of a document is below 2^53 and every sum is compared with a     *)
(* limit below 2^44 at each addition, so that no addition wraps.            *)
EXTENDS PageGeometry, Sequences, SequencesExt, FiniteSets

CONSTANTS
  PageSizes,       \* the powers of two from MIN_PAGE_SIZE to MAX_PAGE_SIZE
  HeaderBytes,     \* PAGE_TABLE_HEADER_BYTES
  HashBytes,       \* of one page hash
  MaxDimension,    \* MAX_TENSOR_DIMENSION
  MaxRank,
  FormatLimits     \* the FORMAT_ ceilings, by the field of Limits they bound

-----------------------------------------------------------------------------
DTypes == {"f32-le", "bf16-le", "u8", "i8"}
ByteWidth(dtype) == CASE dtype = "f32-le" -> 4 [] dtype = "bf16-le" -> 2 [] OTHER -> 1

(* expected_page_table_length.                                              *)
TableLength(length, size) == HeaderBytes + HashBytes * PageCount(length, size)

(* Limits::validate: an operator's limits only lower those of the format.   *)
ValidLimits(limits) == \A f \in DOMAIN FormatLimits : limits[f] <= FormatLimits[f]

(* validate_schema without the records.  A document's keys, literals and    *)
(* identifiers are right or not; its numbers are numbers.                   *)
ValidAdapter(a) == a.well_formed /\ a.version \in {1, 2}
ValidTokenizer(t) == t.well_formed /\ t.version > 0 /\ t.vocab_size > 0
ValidModel(m) ==
  /\ \A dimension \in DOMAIN m : m[dimension] > 0
  /\ m.top_k <= m.num_experts
  /\ m.hidden_size % m.num_heads = 0
ValidSchema(d) ==
  /\ d.well_formed
  /\ ValidAdapter(d.adapter) /\ ValidModel(d.model) /\ ValidTokenizer(d.tokenizer)
  /\ d.tokenizer.vocab_size = d.model.vocab_size

-----------------------------------------------------------------------------
(* One turn of the loop of parse_objects: what it carries along, and what   *)
(* it requires of the next record.                                          *)
NoObjects == [records |-> <<>>, page_tables |-> {}, object_bytes |-> 0, table_bytes |-> 0]

Follows(records, o) == records = <<>> \/ records[Len(records)].digest < o.digest

SizedTable(o) == o.page_table_length = TableLength(o.length, o.page_size)

Budgeted(limits, c, o) ==
  /\ o.length <= limits.object_bytes
  /\ c.object_bytes + o.length <= limits.aggregate_object_bytes
  /\ o.page_table_length <= limits.page_table_bytes
  /\ c.table_bytes + o.page_table_length <= limits.aggregate_page_table_bytes

AcceptsObject(limits, c, o) ==
  /\ Follows(c.records, o)
  /\ o.length > 0
  /\ o.page_size \in PageSizes
  /\ o.page_table \notin c.page_tables
  /\ SizedTable(o)
  /\ Budgeted(limits, c, o)

AddObject(c, o) ==
  [records |-> Append(c.records, o), page_tables |-> c.page_tables \cup {o.page_table},
   object_bytes |-> c.object_bytes + o.length, table_bytes |-> c.table_bytes + o.page_table_length]

-----------------------------------------------------------------------------
(* One turn of the loop of parse_tensors.                                   *)
Elements(shape) == FoldLeft(LAMBDA a, b : a * b, 1, shape)

AcceptsTensor(objects, tensors, t) ==
  LET declared == {o \in ToSet(objects) : o.digest = t.object}
  IN  /\ t.id = Len(tensors)
      /\ t.dtype \in DTypes
      /\ t.length > 0
      /\ declared # {}
      /\ t.offset % ByteWidth(t.dtype) = 0
      /\ \A u \in ToSet(tensors) : u.role # t.role
      /\ Len(t.shape) \in 1..MaxRank
      /\ \A i \in DOMAIN t.shape : t.shape[i] \in 1..MaxDimension
      /\ t.length = Elements(t.shape) * ByteWidth(t.dtype)
      /\ \A o \in declared : t.offset + t.length <= o.length

(* validate_tensor_coverage: the ranges of an object in order, with a       *)
(* cursor that each of them has to meet and that has to reach the end.      *)
Ranges(tensors, digest) ==
  LET mine == SelectSeq(tensors, LAMBDA t : t.object = digest)
  IN  SortSeq([i \in DOMAIN mine |-> <<mine[i].offset, mine[i].offset + mine[i].length>>],
              LAMBDA a, b : a[1] < b[1] \/ (a[1] = b[1] /\ a[2] < b[2]))
Meets_NoGap(cursor, range) == range[1] <= cursor
Meets(cursor, range) == range[1] = cursor
Advance(c, range) == [cursor |-> range[2], ok |-> c.ok /\ Meets(c.cursor, range)]
Covered(tensors, object) ==
  LET end == FoldLeft(Advance, [cursor |-> 0, ok |-> TRUE], Ranges(tensors, object.digest))
  IN  end.ok /\ end.cursor = object.length
ValidTensorCoverage(objects, tensors) == \A o \in ToSet(objects) : Covered(tensors, o)

-----------------------------------------------------------------------------
(* Manifest::object: the binary search over the records, 0 if there is none.*)
Lookup(objects, digest) ==
  LET search[lo \in 0..Len(objects), hi \in 0..Len(objects)] ==
        LET mid == (lo + hi) \div 2
            here == objects[mid + 1].digest
        IN  IF lo >= hi THEN 0
            ELSE IF here = digest THEN mid + 1
            ELSE IF here < digest THEN search[mid + 1, hi] ELSE search[lo, mid]
  IN  search[0, Len(objects)]
=============================================================================
