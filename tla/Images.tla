------------------------------- MODULE Images -------------------------------
(***************************************************************************)
(* The images of one product: the uploader page that selects files, posts  *)
(* them and polls (mfe-catalog image-uploader), the POST handler with its  *)
(* transaction, the bucket (modules/image/service.py, repository.py), and  *)
(* the deliveries of image.precheck (modules/image/tasks.py).              *)
(*                                                                         *)
(* An upload is its number; it stands for its bytes and for the row it     *)
(* inserts.  Files the handler refuses before it looks at the slot, the    *)
(* session's end and the deletion of the product are left out.  A GET of   *)
(* the list reads what is committed; its answer is applied later.          *)
(***************************************************************************)
EXTENDS Naturals, FiniteSets

CONSTANTS
    MaxSlots,    \* the slots of a product (4)
    MaxPolls,    \* the polls of one poll cycle (6)
    MaxTries,    \* the attempts of a precheck whose download fails (3)
    MaxUploads,  \* bound on the files the seller selects
    MaxFaults,   \* bound on failures of the bucket, database, network, workers
    MaxLoads     \* bound on page loads

ASSUME ImagesAssumption ==
    /\ MaxSlots \in Nat \ {0} /\ MaxPolls \in Nat \ {0} /\ MaxTries \in Nat \ {0}
    /\ MaxUploads \in Nat /\ MaxFaults \in Nat /\ MaxLoads \in Nat

VARIABLES
    upload,   \* the POST of a file: where it stands, its slot, its batch, ...
    object,   \* the bucket: the bytes at the path of a slot, 0 for none
    row,      \* product_images as committed: the row of a slot
    job,      \* the deliveries of image.precheck
    view,     \* images(): what the page shows of a slot
    poll,     \* the poll cycle of the page
    target,   \* reuploadTargetSlotIndex, 0 for null
    disabled, \* featureDisabled
    faults, loads,
    (***********************************************************************)
    (* Observers: they are never read by an action.                        *)
    (***********************************************************************)
    early,      \* uploads that looked at their slot while it had no row
    dropped,    \* uploads whose precheck ended without writing a verdict
    reset,      \* slots a re-upload showed as pending
    quit        \* the last poll cycle ended at its cap or on an error

store == <<upload, object, row, job>>
page == <<view, poll, target, disabled>>
observers == <<early, dropped, reset, quit>>
vars == <<upload, object, row, job, view, poll, target, disabled, faults,
          loads, early, dropped, reset, quit>>

Slots == 1 .. MaxSlots
Uploads == 1 .. MaxUploads
Jobs == 1 .. (MaxUploads + MaxFaults)
Statuses == {"none", "pending", "ready", "failed"}

NoUpload == [at |-> "new", slot |-> 1, batch |-> 0, good |-> FALSE,
             again |-> FALSE, here |-> FALSE]
NoRow == [image |-> 0, status |-> "none"]
NoJob == [at |-> "none", image |-> 0, tries |-> 0, bytes |-> 0]
NoView == [s \in Slots |-> "none"]
NoPoll == [at |-> "none", n |-> 0, list |-> NoView]

InFlight == {"sent", "free", "stored", "enqueued", "ok", "refused"}
Running == {"found", "fetched"}

TypeOK ==
    /\ upload \in [Uploads ->
           [at : InFlight \cup {"new", "over"}, slot : Slots, batch : 0 .. MaxUploads,
            good : BOOLEAN, again : BOOLEAN, here : BOOLEAN]]
    /\ object \in [Slots -> 0 .. MaxUploads]
    /\ row \in [Slots -> [image : 0 .. MaxUploads, status : Statuses]]
    /\ job \in [Jobs -> [at : Running \cup {"none", "queued", "over"},
                         image : 0 .. MaxUploads, tries : 0 .. MaxTries,
                         bytes : 0 .. MaxUploads]]
    /\ view \in [Slots -> Statuses]
    /\ poll \in [at : {"none", "closed", "waiting", "listed"}, n : 0 .. MaxPolls,
                 list : [Slots -> Statuses]]
    /\ target \in 0 .. MaxSlots
    /\ disabled \in BOOLEAN
    /\ faults \in 0 .. MaxFaults
    /\ loads \in 0 .. MaxLoads
    /\ early \subseteq Uploads
    /\ dropped \subseteq Uploads
    /\ reset \subseteq Slots
    /\ quit \in BOOLEAN

Init ==
    /\ upload = [u \in Uploads |-> NoUpload]
    /\ object = [s \in Slots |-> 0]
    /\ row = [s \in Slots |-> NoRow]
    /\ job = [d \in Jobs |-> NoJob]
    /\ view = NoView
    /\ poll = NoPoll
    /\ target = 0
    /\ disabled = FALSE
    /\ faults = 0
    /\ loads = 0
    /\ early = {}
    /\ dropped = {}
    /\ reset = {}
    /\ quit = FALSE

Fault == faults < MaxFaults /\ faults' = faults + 1

-----------------------------------------------------------------------------
(* The page.                                                               *)

Fresh == {u \in Uploads : upload[u].at = "new"}
IsNext(u) == u \in Fresh /\ \A v \in Fresh : u <= v
Shown == {s \in Slots : view[s] # "none"}

Post(slot, batch, good, again) ==
    [at |-> "sent", slot |-> slot, batch |-> batch, good |-> good,
     again |-> again, here |-> TRUE]

(* onFilesSelected: the slots are counted from those shown, not from those *)
(* taken or under way.                                                     *)
SelectFiles(n) ==
    LET taken == Cardinality(Shown)
    IN  /\ ~ disabled
        /\ taken + n <= MaxSlots
        /\ \E first \in Uploads :
              LET chosen == first .. (first + n - 1)
              IN  /\ IsNext(first)
                  /\ chosen \subseteq Fresh
                  /\ \E good \in [chosen -> BOOLEAN] :
                        upload' = [u \in Uploads |->
                            IF u \in chosen
                            THEN Post(taken + 1 + (u - first), first, good[u], FALSE)
                            ELSE upload[u]]
        /\ UNCHANGED <<object, row, job, page, faults, loads, observers>>

(* onReupload: the slot is shown as pending before the picker opens.       *)
OnReupload(s) ==
    /\ view[s] = "failed"
    /\ view' = [view EXCEPT ![s] = "pending"]
    /\ target' = s
    /\ reset' = reset \cup {s}
    /\ UNCHANGED <<store, poll, disabled, faults, loads, early, dropped, quit>>

(* onReuploadFileSelected                                                  *)
OnReuploadFileSelected ==
    /\ target # 0
    /\ target' = 0
    /\ \E u \in Uploads, good \in BOOLEAN :
          /\ IsNext(u)
          /\ upload' = IF view[target] = "none" THEN upload
                       ELSE [upload EXCEPT ![u] = Post(target, u, good, TRUE)]
    /\ UNCHANGED <<object, row, job, view, poll, disabled, faults, loads, observers>>

(* pollSub: none yet, closed, or open and at one of the two steps.         *)
Open(p) == p.at \in {"waiting", "listed"}
Closed == [NoPoll EXCEPT !.at = "closed"]

(* What is left of an upload the page no longer waits for.                 *)
Past(u) == [upload[u] EXCEPT !.batch = 0, !.again = FALSE, !.here = FALSE]
Over(u) == [upload EXCEPT ![u] = [Past(u) EXCEPT !.at = "over"]]

\* Mutant: a poll cycle that ended is taken for one under way.
PolledOnce(p) == IF p.at # "none" THEN p ELSE [NoPoll EXCEPT !.at = "waiting"]

(* startPolling, unless the cycle of another upload is under way.          *)
Polled(p) == IF Open(p) THEN p ELSE [NoPoll EXCEPT !.at = "waiting"]

(* The files of one selection other than u that the page still waits for.  *)
Awaited(u) ==
    {v \in Uploads \ {u} : /\ upload[v].here
                           /\ upload[v].batch = upload[u].batch
                           /\ upload[v].at \in InFlight}

(* 202: a placeholder is shown and polling starts.                         *)
UploadAccepted(u) ==
    LET s == upload[u].slot
    IN  /\ upload[u].at = "ok" /\ upload[u].here
        /\ upload' = Over(u)
        /\ view' = [view EXCEPT ![s] = IF @ = "none" \/ upload[u].again
                                       THEN "pending" ELSE @]
        /\ poll' = Polled(poll)
        /\ quit' = (quit /\ Open(poll))
        /\ UNCHANGED <<object, row, job, target, disabled, faults, loads,
                       early, dropped, reset>>

(* Any error becomes EMPTY; a selection of which nothing came, on a page   *)
(* that shows nothing, disables the page (once a file was accepted the     *)
(* page always shows something).                                           *)
UploadRefused(u) ==
    /\ upload[u].at = "refused" /\ upload[u].here
    /\ upload' = Over(u)
    /\ disabled' = (disabled \/ /\ ~ upload[u].again
                                /\ Awaited(u) = {}
                                /\ Shown = {})
    /\ UNCHANGED <<object, row, job, view, poll, target, faults, loads, observers>>

Listed == [s \in Slots |-> row[s].status]
HasPending(list) == \E s \in Slots : list[s] = "pending"

(* list_images, at the end of the delay.                                   *)
PollServed ==
    /\ poll.at = "waiting"
    /\ poll' = [poll EXCEPT !.at = "listed", !.n = @ + 1, !.list = Listed]
    /\ UNCHANGED <<store, view, target, disabled, faults, loads, observers>>

(* The answer replaces what is shown; the cycle goes on while a row of it  *)
(* is pending, up to the cap.                                              *)
PollAnswered ==
    /\ poll.at = "listed"
    /\ view' = IF poll.list = NoView THEN view ELSE poll.list
    /\ poll' = IF HasPending(poll.list) /\ poll.n < MaxPolls
               THEN [poll EXCEPT !.at = "waiting", !.list = NoView]
               ELSE Closed
    /\ quit' = (HasPending(poll.list) /\ poll.n = MaxPolls)
    /\ reset' = IF poll.list = NoView THEN reset ELSE {}
    /\ UNCHANGED <<store, target, disabled, faults, loads, early, dropped>>

(* An error is an empty list, and an empty list has nothing pending.       *)
PollFails ==
    /\ Open(poll)
    /\ Fault
    /\ poll' = Closed
    /\ quit' = TRUE
    /\ UNCHANGED <<store, view, target, disabled, loads, early, dropped, reset>>

(* The page is left or loaded again: it starts empty, what it posted goes  *)
(* on.                                                                     *)
Load ==
    /\ loads < MaxLoads
    /\ loads' = loads + 1
    /\ upload' = [u \in Uploads |-> Past(u)]
    /\ view' = NoView
    /\ poll' = NoPoll
    /\ target' = 0
    /\ disabled' = FALSE
    /\ reset' = {}
    /\ quit' = FALSE
    /\ UNCHANGED <<object, row, job, faults, early, dropped>>

-----------------------------------------------------------------------------
(* POST /products/{id}/images.                                             *)

Goes(u, to) == upload' = [upload EXCEPT ![u].at = to]

\* Mutant: the slot of a failed image counts as free.
OccupiedBySound(s) == row[s].image # 0 /\ row[s].status # "failed"

(* find_by_slot, whatever the status of the row.                           *)
Occupied(s) == row[s].image # 0

Look(u) ==
    /\ upload[u].at = "sent"
    /\ Goes(u, IF Occupied(upload[u].slot) THEN "refused" ELSE "free")
    /\ early' = IF row[upload[u].slot] = NoRow THEN early \cup {u} ELSE early
    /\ UNCHANGED <<object, row, job, page, faults, loads, dropped, reset, quit>>

(* The path depends on the slot only.                                      *)
Store(u) ==
    /\ upload[u].at = "free"
    /\ object' = [object EXCEPT ![upload[u].slot] = u]
    /\ Goes(u, "stored")
    /\ UNCHANGED <<row, job, page, faults, loads, observers>>

FirstDelivery(u) == [NoJob EXCEPT !.at = "queued", !.image = u]

(* The insert waits for another insert into the slot to end, then meets    *)
(* the unique constraint; the task is enqueued before the commit.          *)
InsertAndEnqueue(u) ==
    LET s == upload[u].slot
    IN  /\ upload[u].at = "stored"
        /\ \A v \in Uploads : ~ (upload[v].at = "enqueued" /\ upload[v].slot = s)
        /\ \/ /\ row[s].image # 0
              /\ Goes(u, "refused")
              /\ UNCHANGED job
           \/ /\ row[s].image = 0
              /\ Goes(u, "enqueued")
              /\ job' = [job EXCEPT ![u] = FirstDelivery(u)]
    /\ UNCHANGED <<object, row, page, faults, loads, observers>>

Commit(u) ==
    LET s == upload[u].slot
    IN  /\ upload[u].at = "enqueued"
        /\ row' = [row EXCEPT ![s] = [image |-> u, status |-> "pending"]]
        /\ Goes(u, "ok")
        /\ UNCHANGED <<object, job, page, faults, loads, observers>>

(* The bucket, the broker or the database refuses, or the process dies:    *)
(* the insert is rolled back, the object and the delivery stay.            *)
RequestDies(u) ==
    /\ upload[u].at \in {"sent", "free", "stored", "enqueued"}
    /\ Fault
    /\ Goes(u, "refused")
    /\ UNCHANGED <<object, row, job, page, loads, observers>>

-----------------------------------------------------------------------------
(* image.precheck                                                          *)

SlotOf(d) == upload[job[d].image].slot
Found(d) == row[SlotOf(d)].image = job[d].image

Ended(d) == [job EXCEPT ![d] = [NoJob EXCEPT !.at = "over"]]

(* A row the task cannot see is skipped, for good.                         *)
Lookup(d) ==
    /\ job[d].at = "queued"
    /\ \/ /\ Found(d)
          /\ job' = [job EXCEPT ![d].at = "found"]
          /\ UNCHANGED dropped
       \/ /\ ~ Found(d)
          /\ job' = Ended(d)
          /\ dropped' = dropped \cup {job[d].image}
    /\ UNCHANGED <<upload, object, row, page, faults, loads, early, reset, quit>>

(* Download what the path holds by now.                                    *)
Download(d) ==
    /\ job[d].at = "found"
    /\ job' = [job EXCEPT ![d].at = "fetched", ![d].bytes = object[SlotOf(d)]]
    /\ UNCHANGED <<upload, object, row, page, faults, loads, observers>>

(* GcsAdapterError, as often as it happens: retry, until the attempts run  *)
(* out.                                                                    *)
DownloadFails(d) ==
    /\ job[d].at = "found"
    /\ \/ /\ job[d].tries + 1 < MaxTries
          /\ job' = [job EXCEPT ![d].at = "queued", ![d].tries = @ + 1]
          /\ UNCHANGED dropped
       \/ /\ job[d].tries + 1 = MaxTries
          /\ job' = Ended(d)
          /\ dropped' = dropped \cup {job[d].image}
    /\ UNCHANGED <<upload, object, row, page, faults, loads, early, reset, quit>>

\* Mutant: only a good image gets its verdict.
VerdictOfPassing(u, s) == IF upload[u].good THEN "ready" ELSE row[s].status

(* The deterministic checks of the bytes.                                  *)
Verdict(u, s) == IF upload[u].good THEN "ready" ELSE "failed"

(* write_precheck_result, whatever the status of the row.                  *)
WriteVerdict(d) ==
    LET s == SlotOf(d)
    IN  /\ job[d].at = "fetched"
        /\ row' = [row EXCEPT ![s].status = Verdict(job[d].bytes, s)]
        /\ job' = Ended(d)
        /\ UNCHANGED <<upload, object, page, faults, loads, observers>>

(* The database refuses a read or the verdict: no such error is retried.   *)
TaskFails(d) ==
    /\ job[d].at \in Running \cup {"queued"}
    /\ Fault
    /\ job' = Ended(d)
    /\ dropped' = dropped \cup {job[d].image}
    /\ UNCHANGED <<upload, object, row, page, loads, early, reset, quit>>

\* Mutant: the delivery goes with its worker.
LostWithWorker(d) == [job[d] EXCEPT !.at = "over"]

(* task_reject_on_worker_lost                                              *)
BackInQueue(d) == [job[d] EXCEPT !.at = "queued", !.bytes = 0]

WorkerLost(d) ==
    /\ job[d].at \in Running
    /\ Fault
    /\ job' = [job EXCEPT ![d] = BackInQueue(d)]
    /\ UNCHANGED <<upload, object, row, page, loads, observers>>

(* The visibility timeout passes while the task still runs.                *)
DeliveredAgain(d) ==
    /\ job[d].at \in Running
    /\ Fault
    /\ job' = [job EXCEPT ![MaxUploads + faults'] = BackInQueue(d)]
    /\ UNCHANGED <<upload, object, row, page, loads, observers>>

-----------------------------------------------------------------------------
PageStep ==
    \/ \E n \in 1 .. MaxSlots : SelectFiles(n)
    \/ \E s \in Slots : OnReupload(s)
    \/ OnReuploadFileSelected
    \/ Load
    \/ PollFails

AnswerStep ==
    \/ \E u \in Uploads : UploadAccepted(u) \/ UploadRefused(u)
    \/ PollServed \/ PollAnswered

RequestStep(u) == Look(u) \/ Store(u) \/ InsertAndEnqueue(u) \/ Commit(u)

TaskStep(d) == Lookup(d) \/ Download(d) \/ WriteVerdict(d)

Next ==
    \/ PageStep
    \/ AnswerStep
    \/ \E u \in Uploads : RequestStep(u) \/ RequestDies(u)
    \/ \E d \in Jobs :
          \/ TaskStep(d)
          \/ DownloadFails(d) \/ TaskFails(d) \/ WorkerLost(d) \/ DeliveredAgain(d)

Spec == Init /\ [][Next]_vars

(* The worker pool keeps consuming, and runs what it took.                 *)
FairSpec == Spec /\ \A d \in Jobs : WF_vars(TaskStep(d))

-----------------------------------------------------------------------------
(* Properties.                                                             *)

(* The verdict of an image is about the image: the path of its slot holds  *)
(* its bytes, unless an upload that had looked at the slot before its row  *)
(* was committed stored over them; and while it holds them, the row says   *)
(* what the checks say of them (upload_image, _run_precheck_pipeline).     *)
VerdictOfOwnBytes ==
    \A s \in Slots :
        LET u == row[s].image
        IN  u # 0 =>
              \/ object[s] \in early \ {u}
              \/ /\ object[s] = u
                 /\ row[s].status = "ready" => upload[u].good
                 /\ row[s].status = "failed" => ~ upload[u].good

(* A pending image has a delivery of its precheck, unless one met it       *)
(* before its commit, ran out of attempts or failed on the database.       *)
PendingIsCarried ==
    \A s \in Slots :
        row[s].status = "pending" =>
            \/ row[s].image \in dropped
            \/ \E d \in Jobs : /\ job[d].image = row[s].image
                               /\ job[d].at \in Running \cup {"queued"}

(* A slot shown as pending is polled, unless the cycle reached its cap or  *)
(* met an error, or a re-upload showed it so (startPolling, pollImages).   *)
PendingIsPolled ==
    \A s \in Slots : view[s] = "pending" => Open(poll) \/ quit \/ s \in reset

(* An image whose delivery is on its way is judged.                        *)
PrecheckSettles ==
    \A s \in Slots :
        row[s].status = "pending" ~>
            row[s].status \in {"ready", "failed"} \/ row[s].image \in dropped

-----------------------------------------------------------------------------
(* What the code claims, and does not do.                                  *)

(* image-uploader.component.ts: "ImageService.upload() is re-called with   *)
(* the same slot idx; pollImages() restarts."                              *)
ReuploadRestartsPolling ==
    [][\A u \in Uploads :
          /\ upload[u].again
          /\ upload[u].at \in InFlight
          /\ upload'[u].at = "over"
          => Open(poll')]_vars
=============================================================================
