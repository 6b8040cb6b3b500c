--------------------------- MODULE ExportPromise ---------------------------
(***************************************************************************)
(* What the export module promises a seller who polls GET /exports/{id}:   *)
(* the row appears once, a row that has settled is never pending again,    *)
(* and a row that says ready has its sheet in the bucket.  It does not     *)
(* promise that a settled row keeps its outcome, nor that it settles.      *)
(***************************************************************************)
CONSTANT Exports

VARIABLES
    row,     \* exports.status; "none" while there is no row
    stored   \* the exports whose sheet is in the bucket

vars == <<row, stored>>

Settled == {"ready", "failed"}

Init ==
    /\ row = [e \in Exports |-> "none"]
    /\ stored = {}

Accept(e) ==
    /\ row[e] = "none"
    /\ row' = [row EXCEPT ![e] = "pending"]
    /\ UNCHANGED stored

Store(e) ==
    /\ row[e] # "none"
    /\ stored' = stored \cup {e}
    /\ UNCHANGED row

Settle(e, outcome) ==
    /\ row[e] # "none"
    /\ outcome = "ready" => e \in stored
    /\ row' = [row EXCEPT ![e] = outcome]
    /\ UNCHANGED stored

Next ==
    \E e \in Exports :
        Accept(e) \/ Store(e) \/ \E outcome \in Settled : Settle(e, outcome)

Spec == Init /\ [][Next]_vars
=============================================================================
