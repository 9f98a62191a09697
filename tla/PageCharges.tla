----------------------------- MODULE PageCharges -----------------------------
(***************************************************************************)
(* The byte charge of a set of pages.  aligned_page_buffer_bytes rounds a   *)
(* payload up to the 64-byte allocation quantum; every charge of the page   *)
(* pool is such a rounded size, so charges are counted in quanta.           *)
(***************************************************************************)
EXTENDS Integers, FiniteSets

CONSTANTS
  Keys,        \* page keys a valid specification may name
  Allocation   \* quanta reserved for the payload of each key

(* A page specification names a nonempty page, so that its rounded size is  *)
(* at least one quantum.                                                    *)
ASSUME PagesAssumption ==
  /\ Keys \subseteq Nat \ {0} /\ IsFiniteSet(Keys)
  /\ Allocation \in [Keys -> Nat \ {0}]

(* The charge of a set of pages is the number of their quanta.              *)
Quanta(S)   == UNION {{k} \X (1 .. Allocation[k]) : k \in S}
ChargeOf(S) == Cardinality(Quanta(S))
=============================================================================
