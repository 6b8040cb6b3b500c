---------------------------- MODULE ExportProofs ----------------------------
(***************************************************************************)
(* Proofs about ExportPipeline for any number of exports and workers, and  *)
(* any bounds: the invariants the run checks, from the inductive invariant *)
(* IInv, and that the pipeline implements ExportPromise.                   *)
(***************************************************************************)
EXTENDS ExportPipeline, TLAPS

Runs(w, e) == worker[w] # Idle /\ worker[w].export = e

Carried(e) == queue[e] > 0 \/ \E w \in Workers : Runs(w, e)

(* A request that has not enqueued its task has left nothing outside.      *)
Unsent ==
    \A e \in Exports :
        request[e] \in {"new", "inserted"} =>
            /\ queue[e] = 0
            /\ \A w \in Workers : ~Runs(w, e)

(* Deliveries only multiply by faults.                                     *)
FewDeliveries == \A e \in Exports : queue[e] <= faults + 1

(* The row appears when the request commits and not before.                *)
Uncommitted ==
    \A e \in Exports : request[e] # "over" => row[e] = "none"

(* What a worker has established by the step it stands at.                 *)
Progress ==
    \A w \in Workers :
        worker[w] # Idle =>
            LET e == worker[w].export
            IN  /\ worker[w].at \in {"snapshot", "upload", "mark"} =>
                       row[e] # "none"
                /\ worker[w].at = "upload" => worker[w].edition # 0
                /\ worker[w].at = "mark" => sheet[e] # 0
                /\ worker[w].at = "ack" =>
                       row[e] \in Settled \/ e \in dropped

(* PendingIsCarried, from the moment the task is enqueued.                 *)
SentIsCarried ==
    \A e \in Exports :
        row[e] = "pending" \/ request[e] = "enqueued" =>
            e \in dropped \/ Carried(e)

IInv ==
    /\ TypeOK
    /\ Unsent
    /\ FewDeliveries
    /\ Uncommitted
    /\ Progress
    /\ ReadyHasSheet
    /\ SheetHasRow
    /\ SentIsCarried

LEMMA InitEstablishes == Init => IInv
  <1> SUFFICES ASSUME Init PROVE IInv
      OBVIOUS
  <1> USE ExportAssumption DEF Init
  <1>1. TypeOK
      BY DEF TypeOK
  <1>2. /\ Unsent
        /\ FewDeliveries
        /\ Uncommitted
        /\ Progress
      BY DEF Unsent, FewDeliveries, Uncommitted, Progress, Runs
  <1>3. /\ ReadyHasSheet
        /\ SheetHasRow
        /\ SentIsCarried
      BY DEF ReadyHasSheet, SheetHasRow, SentIsCarried
  <1> QED
      BY <1>1, <1>2, <1>3 DEF IInv

-----------------------------------------------------------------------------
(* How the helpers move a worker.                                          *)

(* A worker that is not idle runs a job.                                   *)
LEMMA BusyHasJob ==
  ASSUME TypeOK, NEW w \in Workers, worker[w].at # "idle"
  PROVE  worker[w] \in Job /\ worker[w] # Idle /\ worker[w].export \in Exports
  BY DEF TypeOK, Job, Idle

LEMMA JobIsBusy ==
  ASSUME NEW j \in Job
  PROVE  j # Idle /\ j.at # "idle" /\ j.at \in At /\ j.export \in Exports
         /\ j.edition \in 0 .. MaxEdition
  BY DEF Job, Idle, At

(* Goes changes where one worker stands and nothing else.                  *)
LEMMA GoesMoves ==
  ASSUME TypeOK, NEW w \in Workers, worker[w].at # "idle",
         NEW to \in At, Goes(w, to)
  PROVE  /\ worker' \in [Workers -> Job \cup {Idle}]
         /\ worker'[w] # Idle
         /\ worker'[w].at = to
         /\ worker'[w].export = worker[w].export
         /\ worker'[w].edition = worker[w].edition
         /\ \A v \in Workers \ {w} : worker'[v] = worker[v]
         /\ \A v \in Workers, e \in Exports : Runs(v, e)' <=> Runs(v, e)
  <1> DEFINE next == [worker[w] EXCEPT !.at = to]
  <1>1. worker[w] \in Job /\ worker[w] # Idle
      BY BusyHasJob
  <1>2. /\ next \in Job
        /\ next.at = to
        /\ next.export = worker[w].export
        /\ next.edition = worker[w].edition
      BY <1>1 DEF Job
  <1>3. next # Idle
      BY <1>2, JobIsBusy
  <1>4. worker \in [Workers -> Job \cup {Idle}]
      BY DEF TypeOK
  <1>5. worker' = [worker EXCEPT ![w] = next]
      BY DEF Goes
  <1> HIDE DEF next
  <1>6. /\ worker' \in [Workers -> Job \cup {Idle}]
        /\ worker'[w] = next
        /\ \A v \in Workers \ {w} : worker'[v] = worker[v]
      BY <1>2, <1>4, <1>5
  <1>7. \A v \in Workers, e \in Exports : Runs(v, e)' <=> Runs(v, e)
      BY <1>1, <1>2, <1>3, <1>6 DEF Runs
  <1> QED
      BY <1>2, <1>3, <1>6, <1>7

(* A fault is one more, within the bound.                                  *)
LEMMA FaultCounts ==
  ASSUME TypeOK, Fault
  PROVE  faults' \in 0 .. MaxFaults /\ faults' = faults + 1 /\ faults \in Nat
  BY ExportAssumption DEF TypeOK, Fault

-----------------------------------------------------------------------------
(* The request and the product.                                            *)

LEMMA InitiatePreserves ==
  ASSUME IInv, NEW e \in Exports, Initiate(e) PROVE IInv'
  <1> USE DEF IInv, Initiate
  <1>1. TypeOK'
      BY DEF TypeOK
  <1>2. Unsent' /\ FewDeliveries' /\ Uncommitted'
      BY DEF Unsent, FewDeliveries, Uncommitted, Runs, TypeOK
  <1>3. Progress' /\ ReadyHasSheet' /\ SheetHasRow'
      BY DEF Progress, ReadyHasSheet, SheetHasRow, Settled
  <1>4. SentIsCarried'
      BY DEF SentIsCarried, Carried, Runs, TypeOK
  <1> QED
      BY <1>1, <1>2, <1>3, <1>4

LEMMA EnqueuePreserves ==
  ASSUME IInv, NEW e \in Exports, Enqueue(e) PROVE IInv'
  <1> USE DEF IInv, Enqueue
  <1>0. queue[e] = 0 /\ queue' = [queue EXCEPT ![e] = 1]
    <2>1. queue[e] = 0
        BY DEF Unsent
    <2>2. queue' = [queue EXCEPT ![e] = queue[e] + 1]
        OBVIOUS
    <2>3. queue[e] + 1 = 1
        BY <2>1
    <2> QED
        BY <2>1, <2>2, <2>3
  <1>1. TypeOK'
    <2>1. queue' \in [Exports -> 0 .. MaxFaults + 1]
        BY <1>0, ExportAssumption DEF TypeOK
    <2>2. request' \in [Exports -> {"new", "inserted", "enqueued", "over"}]
        BY DEF TypeOK
    <2> QED
        BY <2>1, <2>2 DEF TypeOK
  <1>2. Unsent' /\ FewDeliveries' /\ Uncommitted'
      BY <1>0 DEF Unsent, FewDeliveries, Uncommitted, Runs, TypeOK
  <1>3. Progress' /\ ReadyHasSheet' /\ SheetHasRow'
      BY DEF Progress, ReadyHasSheet, SheetHasRow, Settled
  <1>4. SentIsCarried'
      BY <1>0 DEF SentIsCarried, Carried, Runs, TypeOK
  <1> QED
      BY <1>1, <1>2, <1>3, <1>4

LEMMA CommitPreserves ==
  ASSUME IInv, NEW e \in Exports, Commit(e) PROVE IInv'
  <1> USE DEF IInv, Commit
  <1>0. row[e] = "none" /\ sheet[e] = 0
      BY DEF Uncommitted, SheetHasRow
  <1>1. TypeOK'
      BY DEF TypeOK
  <1>2. Unsent' /\ FewDeliveries' /\ Uncommitted'
      BY DEF Unsent, FewDeliveries, Uncommitted, Runs, TypeOK
  <1>3. Progress'
      BY <1>0 DEF Progress, Settled, TypeOK
  <1>4. ReadyHasSheet' /\ SheetHasRow'
      BY <1>0 DEF ReadyHasSheet, SheetHasRow, TypeOK
  <1>5. SentIsCarried'
      BY DEF SentIsCarried, Carried, Runs, TypeOK
  <1> QED
      BY <1>1, <1>2, <1>3, <1>4, <1>5

LEMMA RequestDiesPreserves ==
  ASSUME IInv, NEW e \in Exports, RequestDies(e) PROVE IInv'
  <1> USE DEF IInv, RequestDies
  <1>0. faults' \in 0 .. MaxFaults /\ faults' = faults + 1 /\ faults \in Nat
      BY FaultCounts
  <1>1. TypeOK'
      BY <1>0 DEF TypeOK
  <1>2. Unsent' /\ Uncommitted'
      BY DEF Unsent, Uncommitted, Runs, TypeOK
  <1>3. FewDeliveries'
      BY <1>0 DEF FewDeliveries, TypeOK
  <1>4. Progress' /\ ReadyHasSheet' /\ SheetHasRow'
      BY DEF Progress, ReadyHasSheet, SheetHasRow, Settled
  <1>5. SentIsCarried'
      BY DEF SentIsCarried, Carried, Runs, TypeOK
  <1> QED
      BY <1>1, <1>2, <1>3, <1>4, <1>5

(* Only the type of the product is at stake in an edit or a deletion.      *)
LEMMA ProductPreserves ==
  ASSUME IInv,
         \/ \E status \in {"draft", "ready"}, fits \in BOOLEAN :
              Edit(status, fits)
         \/ Delete
  PROVE  IInv'
  <1>1. /\ TypeOK'
        /\ UNCHANGED <<request, row, sheet, queue, worker, dropped, faults>>
    <2> DEFINE P == [status : {"draft", "ready", "deleted"},
                     edition : 1 .. MaxEdition, fits : BOOLEAN]
    <2>1. product \in P
        BY DEF IInv, TypeOK
    <2>2. ASSUME NEW status \in {"draft", "ready"}, NEW fits \in BOOLEAN,
                 Edit(status, fits)
          PROVE  product' \in P
      <3>1. product.edition + 1 \in 1 .. MaxEdition
          BY <2>1, <2>2, ExportAssumption DEF Edit
      <3> QED
          BY <2>2, <3>1 DEF Edit
    <2>3. ASSUME Delete PROVE product' \in P
        BY <2>1, <2>3 DEF Delete
    <2>4. UNCHANGED <<request, row, sheet, queue, worker, dropped, faults>>
        BY DEF Edit, Delete
    <2>5. product' \in P
        BY <2>2, <2>3
    <2> QED
        BY <2>4, <2>5 DEF IInv, TypeOK
  <1>2. Unsent' /\ FewDeliveries' /\ Uncommitted' /\ Progress'
      BY <1>1 DEF IInv, Unsent, FewDeliveries, Uncommitted, Progress, Runs, Settled
  <1>3. ReadyHasSheet' /\ SheetHasRow' /\ SentIsCarried'
      BY <1>1 DEF IInv, ReadyHasSheet, SheetHasRow, SentIsCarried, Carried, Runs
  <1> QED
      BY <1>1, <1>2, <1>3 DEF IInv

-----------------------------------------------------------------------------
(* The task.                                                               *)

LEMMA TakePreserves ==
  ASSUME IInv, NEW w \in Workers, NEW e \in Exports, Take(w, e) PROVE IInv'
  <1> DEFINE job == [at |-> "lookup", export |-> e, edition |-> 0]
  <1>1. job \in Job /\ job # Idle /\ job.at = "lookup" /\ job.export = e
      BY ExportAssumption DEF Job, Idle, At
  <1>2. worker' = [worker EXCEPT ![w] = job]
      BY DEF Take
  <1> HIDE DEF job
  <1>3. /\ worker' \in [Workers -> Job \cup {Idle}]
        /\ worker'[w] = job
        /\ \A v \in Workers \ {w} : worker'[v] = worker[v]
      BY <1>1, <1>2 DEF IInv, TypeOK
  <1>4. /\ worker[w] = Idle
        /\ queue[e] > 0
        /\ queue' = [queue EXCEPT ![e] = queue[e] - 1]
        /\ UNCHANGED <<product, request, row, sheet, dropped, faults>>
      BY DEF Take
  <1>5. /\ queue[e] - 1 \in 0 .. MaxFaults + 1
        /\ queue' \in [Exports -> 0 .. MaxFaults + 1]
        /\ \A x \in Exports : queue'[x] = IF x = e THEN queue[e] - 1 ELSE queue[x]
      BY <1>4, ExportAssumption DEF IInv, TypeOK
  <1>6. TypeOK'
      BY <1>3, <1>4, <1>5 DEF IInv, TypeOK
  <1>7. Unsent' /\ Uncommitted'
      BY <1>1, <1>3, <1>4, <1>5 DEF IInv, Unsent, Uncommitted, Runs
  <1>8. FewDeliveries'
      BY <1>4, <1>5, ExportAssumption DEF IInv, FewDeliveries, TypeOK
  <1>9. Progress'
      BY <1>1, <1>3, <1>4 DEF IInv, Progress, Settled
  <1>10. ReadyHasSheet' /\ SheetHasRow'
      BY <1>4 DEF IInv, ReadyHasSheet, SheetHasRow
  <1>11. SentIsCarried'
    <2> SUFFICES ASSUME NEW x \in Exports,
                        row[x] = "pending" \/ request[x] = "enqueued",
                        x \notin dropped
                 PROVE  Carried(x)'
        BY <1>4 DEF SentIsCarried
    <2>1. CASE x = e
        BY <2>1, <1>1, <1>3 DEF Carried, Runs
    <2>2. CASE x # e
        BY <2>2, <1>3, <1>4, <1>5 DEF IInv, SentIsCarried, Carried, Runs
    <2> QED
        BY <2>1, <2>2
  <1> QED
      BY <1>6, <1>7, <1>8, <1>9, <1>10, <1>11 DEF IInv

(* A step that only moves a worker that stays busy disturbs no part of     *)
(* IInv but Progress, for that worker.                                     *)
LEMMA MovePreserves ==
  ASSUME IInv, NEW w \in Workers, worker[w].at # "idle",
         NEW to \in At, Goes(w, to),
         UNCHANGED <<product, request, queue>>,
         faults' \in 0 .. MaxFaults, faults' >= faults,
         TypeOK', ReadyHasSheet', SheetHasRow', Uncommitted',
         dropped \subseteq dropped',
         \A e \in Exports : row[e] # "none" => row'[e] # "none",
         \A e \in Exports : sheet[e] # 0 => sheet'[e] # 0,
         \A e \in Exports : row[e] \in Settled => row'[e] \in Settled,
         \A e \in Exports : row'[e] = "pending" => row[e] = "pending",
         LET e == worker[w].export
         IN  /\ to \in {"snapshot", "upload", "mark"} => row'[e] # "none"
             /\ to # "upload"
             /\ to = "mark" => sheet'[e] # 0
             /\ to = "ack" => row'[e] \in Settled \/ e \in dropped'
  PROVE  IInv'
  <1>1. /\ worker'[w] # Idle
        /\ worker'[w].at = to
        /\ worker'[w].export = worker[w].export
        /\ \A v \in Workers \ {w} : worker'[v] = worker[v]
        /\ \A v \in Workers, e \in Exports : Runs(v, e)' <=> Runs(v, e)
      BY GoesMoves DEF IInv
  <1>2. Unsent'
      BY <1>1 DEF IInv, Unsent
  <1>3. FewDeliveries'
      BY ExportAssumption DEF IInv, FewDeliveries, TypeOK
  <1>4. Progress'
    <2> SUFFICES ASSUME NEW v \in Workers, worker'[v] # Idle
                 PROVE  LET e == worker'[v].export
                        IN  /\ worker'[v].at \in {"snapshot", "upload", "mark"} =>
                                   row'[e] # "none"
                            /\ worker'[v].at = "upload" => worker'[v].edition # 0
                            /\ worker'[v].at = "mark" => sheet'[e] # 0
                            /\ worker'[v].at = "ack" =>
                                   row'[e] \in Settled \/ e \in dropped'
        BY DEF Progress, Settled
    <2>1. CASE v = w
        BY <2>1, <1>1
    <2>2. CASE v # w
      <3>1. worker'[v] = worker[v] /\ worker[v].export \in Exports
          BY <2>2, <1>1, JobIsBusy DEF IInv, TypeOK
      <3> QED
          BY <3>1 DEF IInv, Progress
    <2> QED
        BY <2>1, <2>2
  <1>5. SentIsCarried'
      BY <1>1 DEF IInv, SentIsCarried, Carried
  <1> QED
      BY <1>2, <1>3, <1>4, <1>5 DEF IInv

LEMMA MovedType ==
  ASSUME TypeOK, NEW w \in Workers, worker[w].at # "idle",
         NEW to \in At, Goes(w, to),
         UNCHANGED <<product, request, queue>>,
         row' \in [Exports -> Settled \cup {"none", "pending"}],
         sheet' \in [Exports -> 0 .. MaxEdition],
         dropped' \subseteq Exports, faults' \in 0 .. MaxFaults
  PROVE  TypeOK'
  <1>1. worker' \in [Workers -> Job \cup {Idle}]
      BY GoesMoves
  <1> QED
      BY <1>1 DEF TypeOK, Settled, Job, Idle, At

LEMMA LookupPreserves ==
  ASSUME IInv, NEW w \in Workers, Lookup(w) PROVE IInv'
  <1> DEFINE e == worker[w].export
  <1>1. /\ worker[w].at = "lookup"
        /\ UNCHANGED <<product, request, row, sheet, queue, faults>>
      BY DEF Lookup
  <1>2. e \in Exports
      BY <1>1, BusyHasJob DEF IInv
  <1>3. /\ TypeOK
        /\ faults \in 0 .. MaxFaults
        /\ faults >= faults
        /\ row \in [Exports -> Settled \cup {"none", "pending"}]
        /\ sheet \in [Exports -> 0 .. MaxEdition]
        /\ dropped \subseteq Exports
      BY ExportAssumption DEF IInv, TypeOK
  <1>4. ReadyHasSheet' /\ SheetHasRow' /\ Uncommitted'
      BY <1>1 DEF IInv, ReadyHasSheet, SheetHasRow, Uncommitted
  <1>5. CASE row[e] # "none" /\ Goes(w, "snapshot") /\ UNCHANGED dropped
    <2>1. "snapshot" \in At
        BY DEF At
    <2>2. TypeOK'
        BY <1>1, <1>3, <1>5, <2>1, MovedType
    <2> QED
        BY <1>1, <1>2, <1>3, <1>4, <1>5, <2>1, <2>2, MovePreserves
  <1>6. CASE Goes(w, "ack") /\ dropped' = dropped \cup {e}
    <2>1. "ack" \in At
        BY DEF At
    <2>2. TypeOK'
        BY <1>1, <1>2, <1>3, <1>6, <2>1, MovedType
    <2> QED
        BY <1>1, <1>2, <1>3, <1>4, <1>6, <2>1, <2>2, MovePreserves
  <1> QED
      BY <1>5, <1>6 DEF Lookup, Found

LEMMA SnapshotPreserves ==
  ASSUME IInv, NEW w \in Workers, Snapshot(w) PROVE IInv'
  <1> DEFINE job == [worker[w] EXCEPT !.at = "upload",
                                      !.edition = product.edition]
  <1>1. /\ worker[w].at = "snapshot"
        /\ UNCHANGED <<product, request, row, sheet, queue, dropped, faults>>
      BY DEF Snapshot
  <1>2. worker[w] \in Job /\ worker[w] # Idle /\ worker[w].export \in Exports
      BY <1>1, BusyHasJob DEF IInv
  <1>3. product.edition \in 1 .. MaxEdition
      BY DEF IInv, TypeOK
  <1>4. /\ job \in Job
        /\ job.at = "upload"
        /\ job.export = worker[w].export
        /\ job.edition = product.edition
    <2>1. "upload" \in At /\ product.edition \in 0 .. MaxEdition
        BY <1>3, ExportAssumption DEF At
    <2> QED
        BY <1>2, <2>1 DEF Job
  <1>5. job # Idle
      BY <1>4, JobIsBusy
  <1>6. worker' = [worker EXCEPT ![w] = job]
      BY DEF Snapshot
  <1> HIDE DEF job
  <1>7. /\ worker' \in [Workers -> Job \cup {Idle}]
        /\ worker'[w] = job
        /\ \A v \in Workers \ {w} : worker'[v] = worker[v]
      BY <1>4, <1>6 DEF IInv, TypeOK
  <1>8. \A v \in Workers, e \in Exports : Runs(v, e)' <=> Runs(v, e)
      BY <1>2, <1>4, <1>5, <1>7 DEF Runs
  <1>9. TypeOK'
      BY <1>1, <1>7 DEF IInv, TypeOK
  <1>10. Unsent' /\ FewDeliveries' /\ Uncommitted'
      BY <1>1, <1>8 DEF IInv, Unsent, FewDeliveries, Uncommitted
  <1>11. row[worker[w].export] # "none" /\ product.edition # 0
      BY <1>1, <1>2, <1>3 DEF IInv, Progress
  <1>12. Progress'
      BY <1>1, <1>4, <1>7, <1>11 DEF IInv, Progress, Settled
  <1>13. ReadyHasSheet' /\ SheetHasRow'
      BY <1>1 DEF IInv, ReadyHasSheet, SheetHasRow
  <1>14. SentIsCarried'
      BY <1>1, <1>8 DEF IInv, SentIsCarried, Carried
  <1> QED
      BY <1>9, <1>10, <1>12, <1>13, <1>14 DEF IInv

(* The two ways into the failure clauses leave every row alone.            *)
LEMMA FailingPreserves ==
  ASSUME IInv, NEW w \in Workers, BuildFails(w) \/ StepRaises(w) PROVE IInv'
  <1>1. /\ worker[w].at # "idle"
        /\ Goes(w, "failing")
        /\ UNCHANGED <<product, request, row, sheet, queue, dropped>>
      BY DEF BuildFails, StepRaises
  <1>2. "failing" \in At /\ worker[w].export \in Exports
      BY <1>1, BusyHasJob DEF IInv, At
  <1>3. faults' \in 0 .. MaxFaults /\ faults' >= faults
      BY FaultCounts, ExportAssumption DEF IInv, TypeOK, BuildFails, StepRaises
  <1>4. TypeOK'
    <2>1. /\ TypeOK
          /\ row' \in [Exports -> Settled \cup {"none", "pending"}]
          /\ sheet' \in [Exports -> 0 .. MaxEdition]
          /\ dropped' \subseteq Exports
        BY <1>1 DEF IInv, TypeOK
    <2> QED
        BY <1>1, <1>2, <1>3, <2>1, MovedType
  <1>5. ReadyHasSheet' /\ SheetHasRow' /\ Uncommitted'
      BY <1>1 DEF IInv, ReadyHasSheet, SheetHasRow, Uncommitted
  <1> QED
      BY <1>1, <1>2, <1>3, <1>4, <1>5, MovePreserves

LEMMA UploadPreserves ==
  ASSUME IInv, NEW w \in Workers, Upload(w) PROVE IInv'
  <1> DEFINE e == worker[w].export
  <1>1. /\ worker[w].at = "upload"
        /\ Goes(w, "mark")
        /\ sheet' = [sheet EXCEPT ![e] = worker[w].edition]
        /\ UNCHANGED <<product, request, row, queue, dropped, faults>>
      BY DEF Upload
  <1>2. /\ "mark" \in At
        /\ e \in Exports
        /\ worker[w] \in Job
        /\ worker[w] # Idle
      BY <1>1, BusyHasJob DEF IInv, At
  <1>3. /\ worker[w].edition \in 0 .. MaxEdition
        /\ worker[w].edition # 0
        /\ row[e] # "none"
      BY <1>1, <1>2, JobIsBusy DEF IInv, Progress
  <1>4. /\ sheet' \in [Exports -> 0 .. MaxEdition]
        /\ sheet'[e] # 0
        /\ \A x \in Exports : x # e => sheet'[x] = sheet[x]
      BY <1>1, <1>2, <1>3 DEF IInv, TypeOK
  <1>5. /\ TypeOK
        /\ faults' \in 0 .. MaxFaults
        /\ faults' >= faults
        /\ row' \in [Exports -> Settled \cup {"none", "pending"}]
        /\ dropped' \subseteq Exports
      BY <1>1, ExportAssumption DEF IInv, TypeOK
  <1>6. TypeOK'
      BY <1>1, <1>2, <1>4, <1>5, MovedType
  <1>7. ReadyHasSheet' /\ SheetHasRow' /\ Uncommitted'
      BY <1>1, <1>3, <1>4 DEF IInv, ReadyHasSheet, SheetHasRow, Uncommitted
  <1>8. \A x \in Exports : sheet[x] # 0 => sheet'[x] # 0
      BY <1>4
  <1> QED
      BY <1>1, <1>2, <1>3, <1>4, <1>5, <1>6, <1>7, <1>8, MovePreserves

(* A status written over a row that exists: the row has its sheet when the *)
(* status is ready, whatever it said before.                               *)
LEMMA SettlePreserves ==
  ASSUME IInv, NEW w \in Workers, worker[w].at # "idle", Goes(w, "ack"),
         NEW outcome \in Settled,
         row' = [row EXCEPT ![worker[w].export] = outcome],
         row[worker[w].export] # "none",
         outcome = "ready" => sheet[worker[w].export] # 0,
         UNCHANGED <<product, request, sheet, queue, dropped, faults>>
  PROVE  IInv'
  <1> DEFINE e == worker[w].export
  <1>1. "ack" \in At /\ e \in Exports
      BY BusyHasJob DEF IInv, At
  <1>2. /\ row' \in [Exports -> Settled \cup {"none", "pending"}]
        /\ row'[e] = outcome
        /\ \A x \in Exports : x # e => row'[x] = row[x]
      BY <1>1 DEF IInv, TypeOK
  <1>3. /\ TypeOK
        /\ faults' \in 0 .. MaxFaults
        /\ faults' >= faults
        /\ sheet' \in [Exports -> 0 .. MaxEdition]
        /\ dropped' \subseteq Exports
      BY ExportAssumption DEF IInv, TypeOK
  <1>4. TypeOK'
      BY <1>1, <1>2, <1>3, MovedType
  <1>5. outcome # "none" /\ outcome # "pending"
      BY DEF Settled
  <1>6. ReadyHasSheet' /\ SheetHasRow'
      BY <1>2, <1>5 DEF IInv, ReadyHasSheet, SheetHasRow
  <1>7. Uncommitted'
      BY <1>2 DEF IInv, Uncommitted
  <1>8. /\ \A x \in Exports : row[x] # "none" => row'[x] # "none"
        /\ \A x \in Exports : row[x] \in Settled => row'[x] \in Settled
        /\ \A x \in Exports : row'[x] = "pending" => row[x] = "pending"
      BY <1>2, <1>5
  <1>9. row'[e] \in Settled
      BY <1>2
  <1>10. /\ dropped \subseteq dropped'
         /\ \A x \in Exports : sheet[x] # 0 => sheet'[x] # 0
      OBVIOUS
  <1> QED
      BY <1>1, <1>3, <1>4, <1>6, <1>7, <1>8, <1>9, <1>10, MovePreserves

LEMMA MarkReadyPreserves ==
  ASSUME IInv, NEW w \in Workers, MarkReady(w) PROVE IInv'
  <1>1. /\ worker[w].at = "mark"
        /\ worker[w].at # "idle"
        /\ Goes(w, "ack")
        /\ row' = [row EXCEPT ![worker[w].export] = "ready"]
        /\ UNCHANGED <<product, request, sheet, queue, dropped, faults>>
      BY DEF MarkReady, Markable
  <1>2. worker[w] # Idle
      BY <1>1, BusyHasJob DEF IInv
  <1>3. /\ row[worker[w].export] # "none"
        /\ sheet[worker[w].export] # 0
        /\ "ready" \in Settled
      BY <1>1, <1>2 DEF IInv, Progress, Settled
  <1> QED
      BY <1>1, <1>3, SettlePreserves

(* An export is dropped by a worker that gives up on it.                   *)
LEMMA DropPreserves ==
  ASSUME IInv, NEW w \in Workers, worker[w].at # "idle", Goes(w, "ack"),
         dropped' = dropped \cup {worker[w].export},
         faults' \in 0 .. MaxFaults, faults' >= faults,
         UNCHANGED <<product, request, row, sheet, queue>>
  PROVE  IInv'
  <1> DEFINE e == worker[w].export
  <1>1. "ack" \in At /\ e \in Exports
      BY BusyHasJob DEF IInv, At
  <1>2. /\ TypeOK
        /\ row' \in [Exports -> Settled \cup {"none", "pending"}]
        /\ sheet' \in [Exports -> 0 .. MaxEdition]
        /\ dropped' \subseteq Exports
      BY <1>1 DEF IInv, TypeOK
  <1>3. TypeOK'
      BY <1>1, <1>2, MovedType
  <1>4. ReadyHasSheet' /\ SheetHasRow' /\ Uncommitted'
      BY DEF IInv, ReadyHasSheet, SheetHasRow, Uncommitted
  <1>5. dropped \subseteq dropped' /\ e \in dropped'
      OBVIOUS
  <1> QED
      BY <1>1, <1>3, <1>4, <1>5, MovePreserves

LEMMA PersistFailurePreserves ==
  ASSUME IInv, NEW w \in Workers, PersistFailure(w) PROVE IInv'
  <1> DEFINE e == worker[w].export
  <1>1. /\ worker[w].at # "idle"
        /\ Goes(w, "ack")
        /\ UNCHANGED <<product, request, sheet, queue, faults>>
      BY DEF PersistFailure
  <1>2. CASE row[e] # "none" /\ row' = [row EXCEPT ![e] = "failed"]
             /\ UNCHANGED dropped
    <2>1. "failed" \in Settled /\ "failed" # "ready"
        BY DEF Settled
    <2> QED
        BY <1>1, <1>2, <2>1, SettlePreserves
  <1>3. CASE dropped' = dropped \cup {e} /\ UNCHANGED row
    <2>1. faults' \in 0 .. MaxFaults /\ faults' >= faults
        BY <1>1, ExportAssumption DEF IInv, TypeOK
    <2> QED
        BY <1>1, <1>3, <2>1, DropPreserves
  <1> QED
      BY <1>2, <1>3 DEF PersistFailure, Found, FailureStatus

LEMMA FailureLostPreserves ==
  ASSUME IInv, NEW w \in Workers, FailureLost(w) PROVE IInv'
  <1>1. /\ worker[w].at # "idle"
        /\ Goes(w, "ack")
        /\ dropped' = dropped \cup {worker[w].export}
        /\ UNCHANGED <<product, request, row, sheet, queue>>
        /\ Fault
      BY DEF FailureLost
  <1>2. faults' \in 0 .. MaxFaults /\ faults' >= faults
      BY <1>1, FaultCounts DEF IInv
  <1> QED
      BY <1>1, <1>2, DropPreserves

(* A worker becomes idle.                                                  *)
LEMMA Frees ==
  ASSUME TypeOK, NEW w \in Workers, worker' = [worker EXCEPT ![w] = Idle]
  PROVE  /\ worker' \in [Workers -> Job \cup {Idle}]
         /\ worker'[w] = Idle
         /\ \A v \in Workers \ {w} : worker'[v] = worker[v]
         /\ \A v \in Workers, e \in Exports : Runs(v, e)' => Runs(v, e)
         /\ \A v \in Workers, e \in Exports :
               Runs(v, e) => Runs(v, e)' \/ (v = w /\ worker[w].export = e)
  <1> HIDE DEF Idle
  <1>1. worker \in [Workers -> Job \cup {Idle}]
      BY DEF TypeOK
  <1>2. /\ worker' \in [Workers -> Job \cup {Idle}]
        /\ worker'[w] = Idle
        /\ \A v \in Workers \ {w} : worker'[v] = worker[v]
      BY <1>1
  <1> QED
      BY <1>2 DEF Runs

LEMMA AcknowledgePreserves ==
  ASSUME IInv, NEW w \in Workers, Acknowledge(w) PROVE IInv'
  <1>1. /\ worker[w].at = "ack"
        /\ worker' = [worker EXCEPT ![w] = Idle]
        /\ UNCHANGED <<product, request, row, sheet, queue, dropped, faults>>
      BY DEF Acknowledge
  <1>2. worker[w] # Idle /\ worker[w].export \in Exports
      BY <1>1, BusyHasJob DEF IInv
  <1>3. /\ worker' \in [Workers -> Job \cup {Idle}]
        /\ worker'[w] = Idle
        /\ \A v \in Workers \ {w} : worker'[v] = worker[v]
        /\ \A v \in Workers, e \in Exports : Runs(v, e)' => Runs(v, e)
        /\ \A v \in Workers, e \in Exports :
              Runs(v, e) => Runs(v, e)' \/ (v = w /\ worker[w].export = e)
      BY <1>1, Frees DEF IInv
  <1>4. TypeOK'
      BY <1>1, <1>3 DEF IInv, TypeOK
  <1>5. Unsent' /\ FewDeliveries' /\ Uncommitted'
      BY <1>1, <1>3 DEF IInv, Unsent, FewDeliveries, Uncommitted
  <1>6. Progress'
      BY <1>1, <1>3 DEF IInv, Progress, Settled
  <1>7. ReadyHasSheet' /\ SheetHasRow'
      BY <1>1 DEF IInv, ReadyHasSheet, SheetHasRow
  <1>8. SentIsCarried'
    <2> SUFFICES ASSUME NEW e \in Exports,
                        row[e] = "pending" \/ request[e] = "enqueued",
                        e \notin dropped
                 PROVE  Carried(e)'
        BY <1>1 DEF SentIsCarried
    <2>1. row[e] \notin Settled
        BY DEF IInv, Uncommitted, Settled
    <2>2. e # worker[w].export
        BY <1>1, <1>2, <2>1 DEF IInv, Progress
    <2> QED
        BY <1>1, <1>3, <2>2 DEF IInv, SentIsCarried, Carried
  <1> QED
      BY <1>4, <1>5, <1>6, <1>7, <1>8 DEF IInv

(* A delivery comes back, whether its worker goes on or not.               *)
LEMMA RestoredPreserves ==
  ASSUME IInv, NEW w \in Workers, WorkerLost(w) \/ DeliveredAgain(w)
  PROVE  IInv'
  <1> DEFINE e == worker[w].export
  <1>1. /\ worker[w] # Idle
        /\ Fault
        /\ queue' = [queue EXCEPT ![e] = queue[e] + 1]
        /\ worker' = [worker EXCEPT ![w] = Idle] \/ UNCHANGED worker
        /\ UNCHANGED <<product, request, row, sheet, dropped>>
      BY DEF WorkerLost, DeliveredAgain, Restored
  <1>2. e \in Exports
      BY <1>1, JobIsBusy DEF IInv, TypeOK
  <1>3. faults' \in 0 .. MaxFaults /\ faults' = faults + 1 /\ faults \in Nat
      BY <1>1, FaultCounts DEF IInv
  <1>4. /\ queue[e] \in Nat
        /\ queue[e] <= faults + 1
        /\ faults + 1 <= MaxFaults
      BY <1>2, <1>3, ExportAssumption DEF IInv, TypeOK, FewDeliveries
  <1>5. queue[e] + 1 \in 0 .. MaxFaults + 1 /\ queue[e] + 1 > 0
      BY <1>4, <1>3, ExportAssumption
  <1>6. /\ queue' \in [Exports -> 0 .. MaxFaults + 1]
        /\ queue'[e] = queue[e] + 1
        /\ \A x \in Exports : x # e => queue'[x] = queue[x]
      BY <1>1, <1>2, <1>5 DEF IInv, TypeOK
  <1>7. /\ worker' \in [Workers -> Job \cup {Idle}]
        /\ \A v \in Workers : worker'[v] = worker[v] \/ worker'[v] = Idle
        /\ \A v \in Workers, x \in Exports : Runs(v, x)' => Runs(v, x)
        /\ \A v \in Workers, x \in Exports :
              Runs(v, x) => Runs(v, x)' \/ x = e
    <2>1. CASE worker' = [worker EXCEPT ![w] = Idle]
        BY <2>1, Frees DEF IInv
    <2>2. CASE UNCHANGED worker
        BY <2>2 DEF IInv, TypeOK, Runs
    <2> QED
        BY <1>1, <2>1, <2>2
  <1>8. TypeOK'
      BY <1>1, <1>3, <1>6, <1>7 DEF IInv, TypeOK
  <1>9. Runs(w, e)
      BY <1>1 DEF Runs
  <1>10. Unsent'
      BY <1>1, <1>2, <1>6, <1>7, <1>9 DEF IInv, Unsent
  <1>11. FewDeliveries'
    <2> SUFFICES ASSUME NEW x \in Exports PROVE queue'[x] <= faults' + 1
        BY DEF FewDeliveries
    <2>1. queue[x] \in Nat /\ queue[x] <= faults + 1
        BY ExportAssumption DEF IInv, TypeOK, FewDeliveries
    <2>2. queue'[x] = queue[x] \/ queue'[x] = queue[x] + 1
        BY <1>6
    <2> QED
        BY <1>3, <2>1, <2>2
  <1>12. Uncommitted' /\ ReadyHasSheet' /\ SheetHasRow'
      BY <1>1 DEF IInv, Uncommitted, ReadyHasSheet, SheetHasRow
  <1>13. Progress'
      BY <1>1, <1>7 DEF IInv, Progress, Settled
  <1>14. SentIsCarried'
    <2> SUFFICES ASSUME NEW x \in Exports,
                        row[x] = "pending" \/ request[x] = "enqueued",
                        x \notin dropped
                 PROVE  Carried(x)'
        BY <1>1 DEF SentIsCarried
    <2>1. CASE x = e
        BY <2>1, <1>5, <1>6 DEF Carried
    <2>2. CASE x # e
        BY <2>2, <1>1, <1>6, <1>7 DEF IInv, SentIsCarried, Carried
    <2> QED
        BY <2>1, <2>2
  <1> QED
      BY <1>8, <1>10, <1>11, <1>12, <1>13, <1>14 DEF IInv

-----------------------------------------------------------------------------
LEMMA StutterPreserves == ASSUME IInv, UNCHANGED vars PROVE IInv'
  <1>1. UNCHANGED <<product, request, row, sheet, queue, worker, dropped,
                    faults>>
      BY DEF vars
  <1>2. TypeOK' /\ Progress'
      BY <1>1 DEF IInv, TypeOK, Progress, Settled
  <1>3. Unsent' /\ FewDeliveries' /\ Uncommitted'
      BY <1>1 DEF IInv, Unsent, FewDeliveries, Uncommitted, Runs
  <1>4. ReadyHasSheet' /\ SheetHasRow' /\ SentIsCarried'
      BY <1>1 DEF IInv, ReadyHasSheet, SheetHasRow, SentIsCarried, Carried, Runs
  <1> QED
      BY <1>2, <1>3, <1>4 DEF IInv

LEMMA StepPreserves == IInv /\ [Next]_vars => IInv'
  <1> SUFFICES ASSUME IInv, [Next]_vars PROVE IInv'
      OBVIOUS
  <1>1. ASSUME NEW e \in Exports,
               Initiate(e) \/ Enqueue(e) \/ Commit(e) \/ RequestDies(e)
        PROVE  IInv'
      BY <1>1, InitiatePreserves, EnqueuePreserves, CommitPreserves,
         RequestDiesPreserves
  <1>2. ASSUME \/ \E status \in {"draft", "ready"}, fits \in BOOLEAN :
                     Edit(status, fits)
               \/ Delete
        PROVE  IInv'
      BY <1>2, ProductPreserves
  <1>3. ASSUME NEW w \in Workers,
               \/ \E e \in Exports : Take(w, e)
               \/ Lookup(w) \/ Snapshot(w) \/ Upload(w) \/ Acknowledge(w)
        PROVE  IInv'
      BY <1>3, TakePreserves, LookupPreserves, SnapshotPreserves,
         UploadPreserves, AcknowledgePreserves
  <1>4. ASSUME NEW w \in Workers,
               MarkReady(w) \/ PersistFailure(w) \/ FailureLost(w)
        PROVE  IInv'
      BY <1>4, MarkReadyPreserves, PersistFailurePreserves,
         FailureLostPreserves
  <1>5. ASSUME NEW w \in Workers,
               \/ BuildFails(w) \/ StepRaises(w)
               \/ WorkerLost(w) \/ DeliveredAgain(w)
        PROVE  IInv'
      BY <1>5, FailingPreserves, RestoredPreserves
  <1>6. ASSUME UNCHANGED vars PROVE IInv'
      BY <1>6, StutterPreserves
  <1> QED
      BY <1>1, <1>2, <1>3, <1>4, <1>5, <1>6 DEF Next, WorkerStep

LEMMA Inductive == Spec => []IInv
  BY InitEstablishes, StepPreserves, PTL DEF Spec

-----------------------------------------------------------------------------
(* What the run checks on a small instance, for every instance.            *)

(* Every reachable state is of its type: in particular a delivery repeated *)
(* by the broker never exceeds one per fault and the one of the request.   *)
THEOREM TypeCorrect == Spec => []TypeOK
  BY Inductive, PTL DEF IInv

(* service.py uploads before it commits the status: a ready row has its    *)
(* sheet, whatever workers die and deliveries repeat.                      *)
THEOREM ReadyIsStored == Spec => []ReadyHasSheet
  BY Inductive, PTL DEF IInv

(* Nothing is uploaded for a request whose transaction rolled back.        *)
THEOREM StoredIsCommitted == Spec => []SheetHasRow
  BY Inductive, PTL DEF IInv

(* task_acks_late and task_reject_on_worker_lost: a pending row keeps a    *)
(* delivery until a task has skipped it or lost its failure.               *)
THEOREM PendingHasDelivery == Spec => []PendingIsCarried
  <1>1. IInv => PendingIsCarried
      BY DEF IInv, SentIsCarried, Carried, Runs, PendingIsCarried
  <1> QED
      BY <1>1, Inductive, PTL

-----------------------------------------------------------------------------
(* The pipeline implements the promise.                                    *)

Stored == {e \in Exports : sheet[e] # 0}

LEMMA PromiseInit == Init => Promise!Init
  BY DEF Init, Promise!Init

(* The four steps a seller can see, each a step of the promise.            *)
LEMMA CommitAccepts ==
  ASSUME IInv, NEW e \in Exports, Commit(e) PROVE Promise!Accept(e)
  <1>1. row[e] = "none"
      BY DEF IInv, Uncommitted, Commit
  <1> QED
      BY <1>1 DEF Commit, Promise!Accept

LEMMA UploadStores ==
  ASSUME IInv, NEW w \in Workers, Upload(w)
  PROVE  \E e \in Exports : Promise!Store(e)
  <1> DEFINE e == worker[w].export
  <1>1. worker[w] \in Job /\ worker[w] # Idle /\ e \in Exports
      BY BusyHasJob DEF IInv, Upload
  <1>2. row[e] # "none" /\ worker[w].edition # 0
      BY <1>1 DEF IInv, Progress, Upload
  <1>3. /\ sheet' = [sheet EXCEPT ![e] = worker[w].edition]
        /\ UNCHANGED row
        /\ sheet \in [Exports -> 0 .. MaxEdition]
      BY DEF Upload, IInv, TypeOK
  <1>4. Stored' = Stored \cup {e}
      BY <1>1, <1>2, <1>3 DEF Stored
  <1> QED
      BY <1>1, <1>2, <1>3, <1>4 DEF Promise!Store, Stored

LEMMA MarkReadySettles ==
  ASSUME IInv, NEW w \in Workers, MarkReady(w)
  PROVE  \E e \in Exports : Promise!Settle(e, "ready")
  <1> DEFINE e == worker[w].export
  <1>1. worker[w].at = "mark" /\ worker[w] # Idle /\ e \in Exports
      BY BusyHasJob DEF IInv, MarkReady, Markable
  <1>2. row[e] # "none" /\ sheet[e] # 0
      BY <1>1 DEF IInv, Progress
  <1>3. row' = [row EXCEPT ![e] = "ready"] /\ UNCHANGED sheet
      BY DEF MarkReady
  <1> QED
      BY <1>1, <1>2, <1>3 DEF Promise!Settle

LEMMA PersistFailureSettles ==
  ASSUME IInv, NEW w \in Workers, PersistFailure(w), row' # row
  PROVE  \E e \in Exports : Promise!Settle(e, "failed")
  <1> DEFINE e == worker[w].export
  <1>1. e \in Exports
      BY BusyHasJob DEF IInv, PersistFailure
  <1>2. /\ row[e] # "none"
        /\ row' = [row EXCEPT ![e] = "failed"]
        /\ UNCHANGED sheet
      BY DEF PersistFailure, Found, FailureStatus
  <1> QED
      BY <1>1, <1>2 DEF Promise!Settle

LEMMA StepImplements == IInv /\ [Next]_vars => [Promise!Next]_(Promise!vars)
  <1> SUFFICES ASSUME IInv, [Next]_vars, ~UNCHANGED <<row, sheet>>
               PROVE  Promise!Next
      BY DEF Promise!vars
  <1>1. ASSUME NEW e \in Exports, Commit(e) PROVE Promise!Next
      BY <1>1, CommitAccepts DEF Promise!Next
  <1>2. ASSUME NEW w \in Workers, Upload(w) PROVE Promise!Next
      BY <1>2, UploadStores DEF Promise!Next
  <1>3. ASSUME NEW w \in Workers, MarkReady(w) PROVE Promise!Next
      BY <1>3, MarkReadySettles DEF Promise!Next, Promise!Settled
  <1>4. ASSUME NEW w \in Workers, PersistFailure(w) PROVE Promise!Next
    <2>1. row' # row
        BY <1>4 DEF PersistFailure
    <2> QED
        BY <1>4, <2>1, PersistFailureSettles DEF Promise!Next, Promise!Settled
  <1>5. ASSUME NEW e \in Exports,
               Initiate(e) \/ Enqueue(e) \/ RequestDies(e)
        PROVE  FALSE
      BY <1>5 DEF Initiate, Enqueue, RequestDies
  <1>6. ASSUME \/ \E status \in {"draft", "ready"}, fits \in BOOLEAN :
                     Edit(status, fits)
               \/ Delete
        PROVE  FALSE
      BY <1>6 DEF Edit, Delete
  <1>7. ASSUME NEW w \in Workers,
               \/ \E e \in Exports : Take(w, e)
               \/ Lookup(w) \/ Snapshot(w) \/ BuildFails(w)
               \/ Acknowledge(w) \/ StepRaises(w) \/ FailureLost(w)
               \/ WorkerLost(w) \/ DeliveredAgain(w)
        PROVE  FALSE
      BY <1>7 DEF Take, Lookup, Snapshot, BuildFails, Acknowledge, StepRaises,
         FailureLost, WorkerLost, DeliveredAgain
  <1>8. Next
      BY DEF vars
  <1> QED
      BY <1>1, <1>2, <1>3, <1>4, <1>5, <1>6, <1>7, <1>8 DEF Next, WorkerStep

(* Every behaviour of the pipeline, seen through the rows and the bucket,  *)
(* is one the promise allows.                                              *)
THEOREM PipelineKeepsPromise == Spec => KeepsPromise
  <1>1. Init => Promise!Init
      BY PromiseInit
  <1>2. IInv /\ [Next]_vars => [Promise!Next]_(Promise!vars)
      BY StepImplements
  <1> QED
      BY <1>1, <1>2, Inductive, PTL DEF Spec, KeepsPromise, Promise!Spec
=============================================================================
