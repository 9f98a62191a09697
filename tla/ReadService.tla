---------------------------- MODULE ReadService ----------------------------
(***************************************************************************)
(* What AsyncReader promises its callers, without queue, threads or locks: *)
(* it admits a request while it is open, completes each admitted request   *)
(* once, also after it has closed, and never opens again.                  *)
(***************************************************************************)
CONSTANT Requests

VARIABLES open,    \* requests are still admitted
          status   \* "new", "admitted" or "completed", by request

vars == <<open, status>>

Init == /\ open \in BOOLEAN
        /\ status = [r \in Requests |-> "new"]

Admit(r) == /\ open
            /\ status[r] = "new"
            /\ status' = [status EXCEPT ![r] = "admitted"]
            /\ UNCHANGED open

Complete(r) == /\ status[r] = "admitted"
               /\ status' = [status EXCEPT ![r] = "completed"]
               /\ UNCHANGED open

Close == /\ open
         /\ open' = FALSE
         /\ UNCHANGED status

Next == Close \/ \E r \in Requests : Admit(r) \/ Complete(r)

Spec == Init /\ [][Next]_vars
=============================================================================
