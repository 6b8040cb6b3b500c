--------------------------- MODULE ExportPipeline ---------------------------
(***************************************************************************)
(* The exports of one product, from POST /products/{id}/export-xlsx to the *)
(* row a seller polls: the request and its transaction                     *)
(* (modules/export/service.py, shared/database.py), the broker and the     *)
(* workers that run export.xlsx (modules/export/tasks.py,                  *)
(* workers/celery_app.py), the bucket, and the edits of the product.       *)
(*                                                                         *)
(* The request enqueues the task before its transaction commits.  A        *)
(* delivery is acknowledged when its task ends (task_acks_late); a worker  *)
(* that is lost, or that holds a delivery past the broker's visibility     *)
(* timeout, leaves it to another one.  The ZIP branch is left out: the     *)
(* format hint is read from a coroutine that is never awaited, so the      *)
(* worker always sees xlsx_only.                                           *)
(***************************************************************************)
EXTENDS Naturals

CONSTANTS
    Exports,    \* the export requests of the product
    Workers,    \* the Celery worker processes
    MaxEdition, \* bound on the editions of the product
    MaxFaults   \* bound on lost workers, timeouts and failed writes

ASSUME ExportAssumption ==
    /\ MaxEdition \in Nat \ {0}
    /\ MaxFaults \in Nat

VARIABLES
    product, \* products: the status of the row, the edition of its fields,
             \* and whether a sheet can be built from them
    request, \* where the POST handler of an export stands
    row,     \* exports.status as committed; "none" while there is no row
    sheet,   \* the bucket: the edition in sheet.xlsx, 0 when there is none
    queue,   \* the broker: deliveries of an export's task that are waiting
    worker,  \* what each worker process is doing, for which export
    dropped, \* observer: exports a task skipped or whose failure was lost
    faults

vars == <<product, request, row, sheet, queue, worker, dropped, faults>>

At == {"lookup", "snapshot", "upload", "mark", "failing", "ack"}
Idle == [at |-> "idle"]
Job == [at : At, export : Exports, edition : 0 .. MaxEdition]
Settled == {"ready", "failed"}

TypeOK ==
    /\ product \in [status : {"draft", "ready", "deleted"},
                    edition : 1 .. MaxEdition, fits : BOOLEAN]
    /\ request \in [Exports -> {"new", "inserted", "enqueued", "over"}]
    /\ row \in [Exports -> Settled \cup {"none", "pending"}]
    /\ sheet \in [Exports -> 0 .. MaxEdition]
    /\ queue \in [Exports -> 0 .. MaxFaults + 1]
    /\ worker \in [Workers -> Job \cup {Idle}]
    /\ dropped \subseteq Exports
    /\ faults \in 0 .. MaxFaults

Init ==
    /\ \E fits \in BOOLEAN :
         product = [status |-> "ready", edition |-> 1, fits |-> fits]
    /\ request = [e \in Exports |-> "new"]
    /\ row = [e \in Exports |-> "none"]
    /\ sheet = [e \in Exports |-> 0]
    /\ queue = [e \in Exports |-> 0]
    /\ worker = [w \in Workers |-> Idle]
    /\ dropped = {}
    /\ faults = 0

Fault == faults < MaxFaults /\ faults' = faults + 1

-----------------------------------------------------------------------------
(* The POST handler: validate and insert, .delay(), and get_db's commit.   *)

Initiate(e) ==
    /\ request[e] = "new"
    /\ product.status = "ready"
    /\ request' = [request EXCEPT ![e] = "inserted"]
    /\ UNCHANGED <<product, row, sheet, queue, worker, dropped, faults>>

Enqueue(e) ==
    /\ request[e] = "inserted"
    /\ request' = [request EXCEPT ![e] = "enqueued"]
    /\ queue' = [queue EXCEPT ![e] = @ + 1]
    /\ UNCHANGED <<product, row, sheet, worker, dropped, faults>>

Commit(e) ==
    /\ request[e] = "enqueued"
    /\ request' = [request EXCEPT ![e] = "over"]
    /\ row' = [row EXCEPT ![e] = "pending"]
    /\ UNCHANGED <<product, sheet, queue, worker, dropped, faults>>

(* The handler raises or its process dies: the insert is rolled back, the  *)
(* message is not.                                                         *)
RequestDies(e) ==
    /\ request[e] \in {"inserted", "enqueued"}
    /\ Fault
    /\ request' = [request EXCEPT ![e] = "over"]
    /\ UNCHANGED <<product, row, sheet, queue, worker, dropped>>

(* The seller edits or deletes the product meanwhile.  Fields fit when     *)
(* every enum is known, the compliance shape has a strategy and the sheet  *)
(* reads back as it was written: a product can be ready without.           *)
Edit(status, fits) ==
    /\ product.status # "deleted"
    /\ product.edition < MaxEdition
    /\ product' = [status |-> status, edition |-> product.edition + 1,
                   fits |-> fits]
    /\ UNCHANGED <<request, row, sheet, queue, worker, dropped, faults>>

Delete ==
    /\ product.status # "deleted"
    /\ product' = [product EXCEPT !.status = "deleted"]
    /\ UNCHANGED <<request, row, sheet, queue, worker, dropped, faults>>

-----------------------------------------------------------------------------
(* export.xlsx: _run_export_pipeline and its two ways out.                 *)

Goes(w, to) == worker' = [worker EXCEPT ![w].at = to]

Take(w, e) ==
    /\ worker[w] = Idle
    /\ queue[e] > 0
    /\ queue' = [queue EXCEPT ![e] = @ - 1]
    /\ worker' = [worker EXCEPT ![w] = [at |-> "lookup", export |-> e,
                                        edition |-> 0]]
    /\ UNCHANGED <<product, request, row, sheet, dropped, faults>>

\* Mutant: the worker reads rows that are not committed.
FoundUncommitted(e) == request[e] # "new"

Found(e) == row[e] # "none"

(* A row the worker cannot see is skipped, for good.                       *)
Lookup(w) ==
    /\ worker[w].at = "lookup"
    /\ LET e == worker[w].export
       IN  \/ /\ Found(e)
              /\ Goes(w, "snapshot")
              /\ UNCHANGED dropped
           \/ /\ ~Found(e)
              /\ Goes(w, "ack")
              /\ dropped' = dropped \cup {e}
    /\ UNCHANGED <<product, request, row, sheet, queue, faults>>

Buildable == product.status # "deleted" /\ product.fits

(* The product as it is now, whatever was validated at the request.        *)
Snapshot(w) ==
    /\ worker[w].at = "snapshot"
    /\ Buildable
    /\ worker' = [worker EXCEPT ![w].at = "upload",
                                ![w].edition = product.edition]
    /\ UNCHANGED <<product, request, row, sheet, queue, dropped, faults>>

BuildFails(w) ==
    /\ worker[w].at = "snapshot"
    /\ ~Buildable
    /\ Goes(w, "failing")
    /\ UNCHANGED <<product, request, row, sheet, queue, dropped, faults>>

Upload(w) ==
    /\ worker[w].at = "upload"
    /\ sheet' = [sheet EXCEPT ![worker[w].export] = worker[w].edition]
    /\ Goes(w, "mark")
    /\ UNCHANGED <<product, request, row, queue, dropped, faults>>

\* Mutant: the row is marked before the sheet is uploaded.
MarkableEarly(w) == worker[w].at \in {"upload", "mark"}

Markable(w) == worker[w].at = "mark"

MarkReady(w) ==
    /\ Markable(w)
    /\ row' = [row EXCEPT ![worker[w].export] = "ready"]
    /\ Goes(w, "ack")
    /\ UNCHANGED <<product, request, sheet, queue, dropped, faults>>

(* The bucket or the database refuses: the catch-all clause takes over.    *)
StepRaises(w) ==
    /\ worker[w].at \in {"lookup", "snapshot", "upload", "mark"}
    /\ Fault
    /\ Goes(w, "failing")
    /\ UNCHANGED <<product, request, row, sheet, queue, dropped>>

\* Mutant: a failure is only logged.
LoggedFailure(e) == row[e]

FailureStatus(e) == "failed"

(* Writing a failure raises LookupError for a row the worker cannot see.   *)
PersistFailure(w) ==
    /\ worker[w].at = "failing"
    /\ LET e == worker[w].export
       IN  \/ /\ Found(e)
              /\ row' = [row EXCEPT ![e] = FailureStatus(e)]
              /\ UNCHANGED dropped
           \/ /\ ~Found(e)
              /\ dropped' = dropped \cup {e}
              /\ UNCHANGED row
    /\ Goes(w, "ack")
    /\ UNCHANGED <<product, request, sheet, queue, faults>>

(* _persist_failure swallows whatever goes wrong in it.                    *)
FailureLost(w) ==
    /\ worker[w].at = "failing"
    /\ Fault
    /\ dropped' = dropped \cup {worker[w].export}
    /\ Goes(w, "ack")
    /\ UNCHANGED <<product, request, row, sheet, queue>>

(* Nothing propagates to the task, so it never retries: it reports         *)
(* completed and its delivery is acknowledged.                             *)
Acknowledge(w) ==
    /\ worker[w].at = "ack"
    /\ worker' = [worker EXCEPT ![w] = Idle]
    /\ UNCHANGED <<product, request, row, sheet, queue, dropped, faults>>

\* Mutants: the delivery is lost with the worker; it is put back twice.
NotRestored(e) == queue

RestoredTwice(e) == [queue EXCEPT ![e] = @ + 2]

Restored(e) == [queue EXCEPT ![e] = @ + 1]

WorkerLost(w) ==
    /\ worker[w] # Idle
    /\ Fault
    /\ queue' = Restored(worker[w].export)
    /\ worker' = [worker EXCEPT ![w] = Idle]
    /\ UNCHANGED <<product, request, row, sheet, dropped>>

(* The visibility timeout passes while the task still runs.                *)
DeliveredAgain(w) ==
    /\ worker[w] # Idle
    /\ Fault
    /\ queue' = Restored(worker[w].export)
    /\ UNCHANGED <<product, request, row, sheet, worker, dropped>>

-----------------------------------------------------------------------------
WorkerStep ==
    \E w \in Workers :
        \/ \E e \in Exports : Take(w, e)
        \/ Lookup(w)
        \/ Snapshot(w)
        \/ BuildFails(w)
        \/ Upload(w)
        \/ MarkReady(w)
        \/ PersistFailure(w)
        \/ Acknowledge(w)

Next ==
    \/ \E e \in Exports :
         \/ Initiate(e)
         \/ Enqueue(e)
         \/ Commit(e)
         \/ RequestDies(e)
    \/ \E status \in {"draft", "ready"}, fits \in BOOLEAN : Edit(status, fits)
    \/ Delete
    \/ WorkerStep
    \/ \E w \in Workers :
         \/ StepRaises(w)
         \/ FailureLost(w)
         \/ WorkerLost(w)
         \/ DeliveredAgain(w)

Spec == Init /\ [][Next]_vars

(* Workers keep consuming their queue and running what they took.          *)
FairSpec == Spec /\ WF_vars(WorkerStep)

-----------------------------------------------------------------------------
(* What the code promises.                                                 *)

(* A row that is ready has its sheet in the bucket, through crashes and    *)
(* repeated deliveries: the upload precedes the commit of the status.      *)
ReadyHasSheet == \A e \in Exports : row[e] = "ready" => sheet[e] # 0

(* A sheet is only ever built for a row that was committed: a request that *)
(* rolled back leaves nothing in the bucket.                               *)
SheetHasRow == \A e \in Exports : sheet[e] # 0 => row[e] # "none"

(* A pending row has a delivery on its way, unless a task met it before    *)
(* its commit or could not write its failure: no third thing strands it.   *)
PendingIsCarried ==
    \A e \in Exports :
        row[e] = "pending" =>
            \/ e \in dropped
            \/ queue[e] > 0
            \/ \E w \in Workers : worker[w] # Idle /\ worker[w].export = e

(* What a seller can poll, in the terms of the promise.                    *)
Promise == INSTANCE ExportPromise
    WITH stored <- {e \in Exports : sheet[e] # 0}

KeepsPromise == Promise!Spec

(* A row that was not dropped settles once its task is queued or running.  *)
ExportSettles ==
    \A e \in Exports :
        row[e] = "pending" ~> row[e] \in Settled \/ e \in dropped

=============================================================================
