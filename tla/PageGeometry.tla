---------------------------- MODULE PageGeometry ----------------------------
(* How an object is cut into pages: the arithmetic shared by the manifest   *)
(* validator (runnel-format/src/manifest.rs), the page tables               *)
(* (artifact.rs) and the page reader (runnel-store/src/page.rs).            *)
EXTENDS Naturals

(* page_count: the length is rounded up.                                    *)
PageCount(length, size) == (length + (size - 1)) \div size

(* PageSpec::for_object: where a page begins and how long it is.            *)
PageOffset(size, index) == size * index
PageLength(length, size, index) ==
  LET remaining == length - PageOffset(size, index)
  IN  IF remaining < size THEN remaining ELSE size

(* tensor_page_specs: the first and the last page of a byte range.          *)
FirstPage(offset, size) == offset \div size
LastPage(offset, bytes, size) == ((offset + bytes) - 1) \div size
=============================================================================
