---------------------------- MODULE MCBlobStore ----------------------------
(* Instances of BlobStore for TLC. *)
EXTENDS BlobStore, TLC

CONSTANTS A, B, o1, o2

\* Two artifacts that share an object, and one artifact by itself.
SharedRefs == (A :> <<o1>>) @@ (B :> <<o1, o2>>)
SingleRefs == A :> <<o1>>

BlobsOf(artifacts, objects) ==
  {Manifest(a) : a \in artifacts} \cup {Table(o) : o \in objects}
    \cup {Object(o) : o \in objects}

SharedBlobs == BlobsOf({A, B}, {o1, o2})
SingleBlobs == BlobsOf({A}, {o1})
=============================================================================
