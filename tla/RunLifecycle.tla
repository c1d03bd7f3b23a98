---------------------------- MODULE RunLifecycle ----------------------------
(***************************************************************************)
(* What the run API promises a client about one run: the statuses it may   *)
(* show, the durable node results, and what a requested cancellation       *)
(* means.  Workers, leases and claims do not appear.                       *)
(***************************************************************************)
CONSTANTS
  Nodes,       \* the nodes the run has to execute
  Recoverable  \* those with on_error continue, which the run can do without

VARIABLES
  status,   \* the run's status
  results,  \* the nodes whose result is saved
  cancel    \* a cancellation was requested and has not been undone by resume

vars == <<status, results, cancel>>

Init == status = "queued" /\ results = {} /\ cancel = FALSE

Start == status = "queued" /\ status' = "running" /\ UNCHANGED <<results, cancel>>

\* A run goes back to the queue with all it has saved.
Requeue == status = "running" /\ status' = "queued" /\ UNCHANGED <<results, cancel>>

Publish == /\ status = "running"
           /\ \E n \in Nodes \ results : results' = results \cup {n}
           /\ UNCHANGED <<status, cancel>>

\* Success is shown only when every node the run cannot do without has a saved
\* result, and never after a cancellation.
Succeed == /\ status = "running" /\ ~cancel /\ Nodes \ Recoverable \subseteq results
           /\ status' = "success" /\ UNCHANGED <<results, cancel>>

Fail == /\ status = "running" /\ ~cancel
        /\ status' = "failed" /\ UNCHANGED <<results, cancel>>

\* A running run is cancelled only if somebody asked for it.
Cancel == /\ status = "running" /\ cancel
          /\ status' = "cancelled" /\ UNCHANGED <<results, cancel>>

RequestCancel == /\ status \in {"queued", "running"}
                 /\ status' = IF status = "queued" THEN "cancelled" ELSE status
                 /\ cancel' = TRUE
                 /\ UNCHANGED results

Resume == /\ status \in {"failed", "cancelled"}
          /\ status' = "queued" /\ cancel' = FALSE
          /\ UNCHANGED results

Next == \/ Start \/ Requeue \/ Publish \/ Succeed \/ Fail \/ Cancel
        \/ RequestCancel \/ Resume

Spec == Init /\ [][Next]_vars
=============================================================================
