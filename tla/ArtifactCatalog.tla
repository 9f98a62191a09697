-------------------------- MODULE ArtifactCatalog --------------------------
(***************************************************************************)
(* What the content-addressed store promises about whole artifacts: one    *)
(* that is visible stays visible unless the machine stops before it is     *)
(* durable, and import returns a receipt only for a durable one.           *)
(***************************************************************************)
CONSTANT Artifacts

VARIABLES visible,   \* artifacts open_artifact finds
          durable,   \* artifacts a restart finds
          receipts   \* artifacts whose import has succeeded

vars == <<visible, durable, receipts>>

Init == visible = {} /\ durable = {} /\ receipts = {}

Publish(a) == /\ visible' = visible \cup {a}
              /\ UNCHANGED <<durable, receipts>>

\* Some of the visible artifacts become durable, and a receipt may be given for
\* one that is.
Persist == \E s \in SUBSET visible, r \in SUBSET visible :
             /\ durable' = durable \cup s
             /\ receipts' = receipts \cup r
             /\ r \subseteq durable'
             /\ UNCHANGED visible

Restart == \E s \in SUBSET visible :
             /\ durable' = durable \cup s
             /\ visible' = durable'
             /\ UNCHANGED receipts

Next == Persist \/ Restart \/ \E a \in Artifacts : Publish(a)

Spec == Init /\ [][Next]_vars
=============================================================================
