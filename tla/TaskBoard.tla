------------------------------ MODULE TaskBoard ------------------------------
(***************************************************************************)
(* What the async_tasks ledger promises to the BFF that reads it, with no  *)
(* queue, no attempts and no handlers.                                     *)
(*                                                                         *)
(* A task shows a status.  Its job is open until it is closed with an      *)
(* outcome.  The work the task stands for is either applied (durable in    *)
(* the database) or not.  The promises:                                    *)
(*   - "success" is shown only once the work is applied;                   *)
(*   - a job is closed as completed only under a row that shows success    *)
(*     (or was deleted), and as cancelled only under a deleted row;        *)
(*   - nothing but a deletion touches a task whose job is closed.          *)
(* JobLedger implements this specification.                                *)
(***************************************************************************)
CONSTANT Tasks

VARIABLES shown,    \* the status the row shows, "gone" once it is deleted
          outcome,  \* "open", or how the job was closed
          applied   \* whether the work is durable

vars == <<shown, outcome, applied>>

Outcomes == {"completed", "cancelled", "discarded"}

Init ==
    /\ shown = [t \in Tasks |-> "pending"]
    /\ outcome = [t \in Tasks |-> "open"]
    /\ applied = [t \in Tasks |-> FALSE]

(* The handler reports progress or a failure. *)
Report(t) ==
    /\ outcome[t] = "open"
    /\ shown[t] # "gone"
    /\ \E s \in {"processing", "success", "error"} :
          /\ s = "success" => applied[t]
          /\ shown' = [shown EXCEPT ![t] = s]
    /\ UNCHANGED <<outcome, applied>>

(* The work becomes durable. *)
Apply(t) ==
    /\ outcome[t] = "open"
    /\ applied' = [applied EXCEPT ![t] = TRUE]
    /\ UNCHANGED <<shown, outcome>>

(* The queue closes the job. *)
Close(t) ==
    /\ outcome[t] = "open"
    /\ \E o \in Outcomes :
          /\ o = "completed" => shown[t] \in {"success", "gone"}
          /\ o = "cancelled" => shown[t] = "gone"
          /\ outcome' = [outcome EXCEPT ![t] = o]
    /\ UNCHANGED <<shown, applied>>

(* The row is deleted, by a cascade from the user's data. *)
Delete(t) ==
    /\ shown' = [shown EXCEPT ![t] = "gone"]
    /\ UNCHANGED <<outcome, applied>>

Next == \E t \in Tasks : Report(t) \/ Apply(t) \/ Close(t) \/ Delete(t)

Spec == Init /\ [][Next]_vars
=============================================================================
