------------------------------ MODULE Monitor ------------------------------
(***************************************************************************)
(* The change monitor of one category: the gate that decides whether to    *)
(* scrape, the in-flight claim, the snapshots, the verdict, the fan-out to *)
(* the category's sellers (modules/monitor), and the read-through cache    *)
(* that serves the latest snapshot (core/cache.py).                        *)
(*                                                                         *)
(* The contents of a snapshot are a number: equal numbers have equal       *)
(* content hashes, and the distance of two numbers is the drift that the   *)
(* thresholds of the diff are about.  The sellers of the category are told *)
(* in one transaction, so one set of announced hashes stands for all.      *)
(* Deliveries of the two tasks are acknowledged when the task ends, also   *)
(* when it ends in an exception.                                           *)
(***************************************************************************)
EXTENDS Integers, Sequences, FiniteSets

CONSTANTS
    Workers,      \* the Celery worker processes
    Contents,     \* what a scrape of the category may find
    Threshold,    \* the drift beyond which a diff is blocked
    MaxTriggers,  \* bound on the scrapes that sellers trigger
    MaxFaults     \* bound on lost workers, exceptions, expiries of held claims

ASSUME MonitorAssumption ==
    /\ IsFiniteSet(Workers)
    /\ {"none", "orphan"} \cap Workers = {}
    /\ Contents \subseteq Nat \ {0}
    /\ Threshold \in Nat
    /\ MaxTriggers \in Nat
    /\ MaxFaults \in Nat

VARIABLES
    snaps,     \* category_snapshots in the order of captured_at
    fresh,     \* the latest snapshot is younger than its TTL
    claim,     \* catmonitor:snapshot:{id}: who set it, or an orphan
    scrapes,   \* the broker: deliveries of monitor.scrape_category
    fanouts,   \* the broker: deliveries of monitor.fanout_category_change
    worker,    \* what each worker process is doing
    notices,   \* notifications: the content hashes announced
    cache,     \* monitor:snapshot:{id}: the snapshot served, 0 for a miss
    fetched,   \* readers: the snapshots they fetched and did not store yet
    asked,
    faults,
    (***********************************************************************)
    (* Observers: they are never read by an action.                        *)
    (***********************************************************************)
    expired,   \* claims that expired while their holder was at work
    missed,    \* hashes whose announcement an exception or a death cut off
    raced      \* an evict was cut off, or a reader stored after an insert

tasks == <<scrapes, fanouts>>
serving == <<cache, fetched>>
observers == <<expired, missed, raced>>
vars == <<snaps, fresh, claim, scrapes, fanouts, worker, notices,
          cache, fetched, asked, faults, expired, missed, raced>>

None == "none"
Orphan == "orphan"
Idle == [at |-> "idle"]
Held == {"scrape", "insert", "diff", "evict", "announce", "release"}
At == Held \cup {"claim", "latest", "notify", "ack"}
Job == [at : At, task : {"scrape", "fanout"}, hash : Contents \cup {0},
        review : BOOLEAN]

TypeOK ==
    /\ snaps \in Seq(Contents)
    /\ fresh \in BOOLEAN
    /\ claim \in Workers \cup {None, Orphan}
    /\ scrapes \in Nat
    /\ fanouts \in [Contents -> Nat]
    /\ worker \in [Workers -> Job \cup {Idle}]
    /\ notices \subseteq Contents
    /\ cache \in 0 .. Len(snaps)
    /\ fetched \subseteq 1 .. Len(snaps)
    /\ asked \in 0 .. MaxTriggers
    /\ faults \in 0 .. MaxFaults
    /\ expired \in 0 .. faults
    /\ missed \subseteq Contents
    /\ raced \in BOOLEAN

Init ==
    /\ snaps = <<>>
    /\ fresh = FALSE
    /\ claim = None
    /\ scrapes = 0
    /\ fanouts = [h \in Contents |-> 0]
    /\ worker = [w \in Workers |-> Idle]
    /\ notices = {}
    /\ cache = 0
    /\ fetched = {}
    /\ asked = 0
    /\ faults = 0
    /\ expired = 0
    /\ missed = {}
    /\ raced = FALSE

Fault == faults < MaxFaults /\ faults' = faults + 1

Goes(w, to) == worker' = [worker EXCEPT ![w].at = to]

(* get_latest_snapshot and get_prior_snapshot; 0 stands for no row.        *)
Latest == IF snaps = <<>> THEN 0 ELSE snaps[Len(snaps)]
Prior == IF Len(snaps) < 2 THEN 0 ELSE snaps[Len(snaps) - 1]

\* Mutant: the first snapshot of a category is a change.
VerdictOfFirst(old, new) == IF old = new THEN "PASS" ELSE "REVIEW_REQUIRED"

(* diff_category_snapshot: nothing to diff against is a partial projection. *)
Verdict(old, new) ==
    CASE old = new -> "PASS"
      [] old # new /\ old = 0 -> "BLOCK"
      [] old # new /\ (old - new > Threshold \/ new - old > Threshold) -> "BLOCK"
      [] OTHER -> "REVIEW_REQUIRED"

-----------------------------------------------------------------------------
(* The world: a month passes, sellers add catalogues.                      *)

(* The TTL is a month and a task takes minutes: it ends between tasks.     *)
GrowOld ==
    /\ fresh
    /\ \A w \in Workers : worker[w] = Idle
    /\ fresh' = FALSE
    /\ UNCHANGED <<snaps, claim, tasks, worker, notices, serving,
                   asked, faults, observers>>

(* enqueue_category_scrape                                                 *)
Trigger ==
    /\ asked < MaxTriggers
    /\ asked' = asked + 1
    /\ scrapes' = scrapes + 1
    /\ UNCHANGED <<snaps, fresh, claim, fanouts, worker, notices,
                   serving, faults, observers>>

-----------------------------------------------------------------------------
(* monitor.scrape_category: run_dedupe_gate.                               *)

(* Guard (a): a fresh snapshot is reused.                                  *)
Reusable == fresh

TakeScrape(w) ==
    /\ worker[w] = Idle
    /\ scrapes > 0
    /\ scrapes' = scrapes - 1
    /\ worker' = [worker EXCEPT ![w] = [at |-> IF Reusable THEN "ack" ELSE "claim",
                                        task |-> "scrape", hash |-> 0,
                                        review |-> FALSE]]
    /\ UNCHANGED <<snaps, fresh, claim, fanouts, notices, serving,
                   asked, faults, observers>>

\* Mutant: SET without NX.
ClaimableAlways == TRUE

Claimable == claim = None

(* Guard (b/c): SET NX EX, or coalesce.                                    *)
Claim(w) ==
    /\ worker[w].at = "claim"
    /\ \/ /\ Claimable
          /\ claim' = w
          /\ Goes(w, "scrape")
       \/ /\ ~Claimable
          /\ Goes(w, "ack")
          /\ UNCHANGED claim
    /\ UNCHANGED <<snaps, fresh, tasks, notices, serving, asked,
                   faults, observers>>

(* The scrape finds whatever Meesho and the corpus say by now.             *)
Scrape(w, found) ==
    /\ worker[w].at = "scrape"
    /\ worker' = [worker EXCEPT ![w].at = "insert", ![w].hash = found]
    /\ UNCHANGED <<snaps, fresh, claim, tasks, notices, serving,
                   asked, faults, observers>>

Insert(w) ==
    /\ worker[w].at = "insert"
    /\ snaps' = Append(snaps, worker[w].hash)
    /\ fresh' = TRUE
    /\ Goes(w, "diff")
    /\ UNCHANGED <<claim, tasks, notices, serving, asked, faults,
                   observers>>

Reviews(w) == Verdict(Prior, worker[w].hash) = "REVIEW_REQUIRED"

(* The prior row is whatever is second latest by now.                      *)
Diff(w) ==
    /\ worker[w].at = "diff"
    /\ worker' = [worker EXCEPT ![w].at = "evict", ![w].review = Reviews(w)]
    /\ UNCHANGED <<snaps, fresh, claim, tasks, notices, serving,
                   asked, faults, observers>>

\* Mutant: only an announced change evicts.
EvictedIfReviewed(w) == IF worker[w].review THEN 0 ELSE cache

Evicted(w) == 0

Evict(w) ==
    /\ worker[w].at = "evict"
    /\ cache' = Evicted(w)
    /\ Goes(w, IF worker[w].review THEN "announce" ELSE "release")
    /\ UNCHANGED <<snaps, fresh, claim, tasks, notices, fetched,
                   asked, faults, observers>>

Announce(w) ==
    /\ worker[w].at = "announce"
    /\ fanouts' = [fanouts EXCEPT ![worker[w].hash] = @ + 1]
    /\ Goes(w, "release")
    /\ UNCHANGED <<snaps, fresh, claim, scrapes, notices, serving,
                   asked, faults, observers>>

(* The finally clause deletes the key, whoever set it.                     *)
Release(w) ==
    /\ worker[w].at = "release"
    /\ claim' = None
    /\ Goes(w, "ack")
    /\ UNCHANGED <<snaps, fresh, tasks, notices, serving, asked,
                   faults, observers>>

Abandoned(w) == IF claim = w THEN Orphan ELSE claim

(* The delete fails, which is only logged.                                 *)
ReleaseLost(w) ==
    /\ worker[w].at = "release"
    /\ Fault
    /\ claim' = Abandoned(w)
    /\ Goes(w, "ack")
    /\ UNCHANGED <<snaps, fresh, tasks, notices, serving, asked,
                   observers>>

-----------------------------------------------------------------------------
(* monitor.fanout_category_change, in one transaction.                     *)

TakeFanout(w, h) ==
    /\ worker[w] = Idle
    /\ fanouts[h] > 0
    /\ fanouts' = [fanouts EXCEPT ![h] = @ - 1]
    /\ worker' = [worker EXCEPT ![w] = [at |-> "latest", task |-> "fanout",
                                        hash |-> h, review |-> FALSE]]
    /\ UNCHANGED <<snaps, fresh, claim, scrapes, notices, serving,
                   asked, faults, observers>>

\* Mutant: the guard reads the row before the latest.
CurrentPrior(w) == Prior = worker[w].hash

Current(w) == Latest = worker[w].hash

(* The superseded guard.                                                   *)
FanoutLatest(w) ==
    /\ worker[w].at = "latest"
    /\ Goes(w, IF Current(w) THEN "notify" ELSE "ack")
    /\ UNCHANGED <<snaps, fresh, claim, tasks, notices, serving,
                   asked, faults, observers>>

(* The prior row is read by a statement of its own, which may see a newer  *)
(* insert.  Nothing else the transaction goes on to read is written here.  *)
FanoutNotify(w) ==
    /\ worker[w].at = "notify"
    /\ notices' = IF Reviews(w) THEN notices \cup {worker[w].hash} ELSE notices
    /\ Goes(w, "ack")
    /\ UNCHANGED <<snaps, fresh, claim, tasks, serving, asked, faults,
                   observers>>

-----------------------------------------------------------------------------
(* What goes wrong with either task.                                       *)

Acknowledge(w) ==
    /\ worker[w].at = "ack"
    /\ worker' = [worker EXCEPT ![w] = Idle]
    /\ UNCHANGED <<snaps, fresh, claim, tasks, notices, serving,
                   asked, faults, observers>>

CutsAnnouncement(w) == worker[w].at \in {"diff", "evict", "announce"}
CutsEvict(w) == worker[w].at \in {"diff", "evict"}
Fanning(w) == worker[w].at \in {"latest", "notify"}

\* Mutant: an exception leaves without the finally clause.
OnExceptionLeaves(w) == "ack"

OnException(w) == IF worker[w].at \in Held THEN "release" ELSE "ack"

(* An exception ends the task, through the finally clause if it holds the  *)
(* claim; the delivery is acknowledged all the same.                       *)
Raises(w) ==
    /\ worker[w] # Idle
    /\ worker[w].at \notin {"release", "ack"}
    /\ Fault
    /\ Goes(w, OnException(w))
    /\ missed' = IF CutsAnnouncement(w) \/ Fanning(w)
                 THEN missed \cup {worker[w].hash} ELSE missed
    /\ raced' = (raced \/ CutsEvict(w))
    /\ UNCHANGED <<snaps, fresh, claim, tasks, notices, serving,
                   asked, expired>>

\* Mutant: the delivery is acknowledged when the task is taken.
NotRestored(w) == UNCHANGED tasks

Restored(w) ==
    IF worker[w].task = "scrape"
    THEN /\ scrapes' = scrapes + 1
         /\ UNCHANGED fanouts
    ELSE /\ fanouts' = [fanouts EXCEPT ![worker[w].hash] = @ + 1]
         /\ UNCHANGED scrapes

(* The delivery goes to another worker, which finds a fresh snapshot if    *)
(* this one had inserted it.                                               *)
WorkerLost(w) ==
    /\ worker[w] # Idle
    /\ Fault
    /\ Restored(w)
    /\ claim' = Abandoned(w)
    /\ worker' = [worker EXCEPT ![w] = Idle]
    /\ missed' = IF CutsAnnouncement(w) THEN missed \cup {worker[w].hash}
                 ELSE missed
    /\ raced' = (raced \/ CutsEvict(w))
    /\ UNCHANGED <<snaps, fresh, notices, serving, asked, expired>>

(* The visibility timeout passes while the task still runs.                *)
DeliveredAgain(w) ==
    /\ worker[w] # Idle
    /\ Fault
    /\ Restored(w)
    /\ UNCHANGED <<snaps, fresh, claim, worker, notices, serving,
                   asked, observers>>

(* CATEGORY_INFLIGHT_TTL_SECONDS passes.                                   *)
OrphanExpires ==
    /\ claim = Orphan
    /\ claim' = None
    /\ UNCHANGED <<snaps, fresh, tasks, worker, notices, serving,
                   asked, faults, observers>>

HeldClaimExpires ==
    /\ claim \in Workers
    /\ Fault
    /\ claim' = None
    /\ expired' = expired + 1
    /\ UNCHANGED <<snaps, fresh, tasks, worker, notices, serving,
                   asked, missed, raced>>

-----------------------------------------------------------------------------
(* get_served_category_data through get_or_set.  Readers that fetched the  *)
(* same snapshot are one.                                                  *)

\* Mutant: the index of the latest row is off by one.
NewestOffByOne == Len(snaps) + 1

Newest == Len(snaps)

ReadFetch ==
    /\ cache = 0
    /\ snaps # <<>>
    /\ fetched' = fetched \cup {Newest}
    /\ UNCHANGED <<snaps, fresh, claim, tasks, worker, notices, cache,
                   asked, faults, observers>>

ReadStore(n) ==
    /\ cache' = n
    /\ fetched' = fetched \ {n}
    /\ raced' = (raced \/ n < Len(snaps))
    /\ UNCHANGED <<snaps, fresh, claim, tasks, worker, notices, asked,
                   faults, expired, missed>>

CacheExpires ==
    /\ cache # 0
    /\ cache' = 0
    /\ UNCHANGED <<snaps, fresh, claim, tasks, worker, notices,
                   fetched, asked, faults, observers>>

-----------------------------------------------------------------------------
WorkerStep ==
    \E w \in Workers :
        \/ TakeScrape(w)
        \/ Claim(w)
        \/ \E found \in Contents : Scrape(w, found)
        \/ Insert(w)
        \/ Diff(w)
        \/ Evict(w)
        \/ Announce(w)
        \/ Release(w)
        \/ \E h \in Contents : TakeFanout(w, h)
        \/ FanoutLatest(w)
        \/ FanoutNotify(w)
        \/ Acknowledge(w)

Next ==
    \/ GrowOld
    \/ Trigger
    \/ WorkerStep
    \/ \E w \in Workers :
         \/ ReleaseLost(w)
         \/ Raises(w)
         \/ WorkerLost(w)
         \/ DeliveredAgain(w)
    \/ OrphanExpires
    \/ HeldClaimExpires
    \/ ReadFetch
    \/ \E n \in fetched : ReadStore(n)
    \/ CacheExpires

Spec == Init /\ [][Next]_vars

(* Workers keep consuming their queues, and Valkey expires what it was     *)
(* told to expire.                                                         *)
FairSpec == Spec /\ WF_vars(WorkerStep) /\ WF_vars(OrphanExpires)

-----------------------------------------------------------------------------
(* What the code promises.                                                 *)

Holders == {w \in Workers : worker[w] # Idle /\ worker[w].at \in Held}

(* Two scrapes of the category overlap only as often as a claim expired    *)
(* under its holder.  A holder that outlives its claim deletes the claim   *)
(* of its successor, yet each expiry lets in one scrape more, never two.   *)
ClaimSerialises ==
    Cardinality(Holders) <= expired + (IF claim \in Workers THEN 1 ELSE 0)

Carries(w, h) ==
    /\ worker[w] # Idle
    /\ worker[w].hash = h
    /\ \/ worker[w].at = "diff"
       \/ worker[w].at \in {"evict", "announce"} /\ worker[w].review
       \/ Fanning(w)

(* A latest snapshot that changed within the thresholds is announced, or a *)
(* task that will announce it is queued or at work, or an exception or a   *)
(* death cut it off: neither overlapping scrapes nor the superseded guard  *)
(* lose the newest change.                                                 *)
LatestChangeIsCarried ==
    Len(snaps) > 1 /\ Verdict(Prior, Latest) = "REVIEW_REQUIRED" =>
        \/ Latest \in notices \cup missed
        \/ fanouts[Latest] > 0
        \/ \E w \in Workers : Carries(w, Latest)

(* No seller is told of a change that did not happen: an announced hash    *)
(* came after a different one, whatever rows the two reads of the fan-out  *)
(* and the read of the gate happened to see.                               *)
NoticeHasChange ==
    \A h \in notices :
        \E i \in 2 .. Len(snaps) : snaps[i] = h /\ snaps[i - 1] # h

(* A served snapshot that is not the latest has one of two causes: an      *)
(* evict still to come, or one that was cut off or overtaken by a reader.  *)
StaleIsExplained ==
    cache # 0 /\ cache # Len(snaps) =>
        raced \/ \E w \in Workers : worker[w] # Idle /\ CutsEvict(w)

(* A category is never locked for ever: the claim of a worker that died,   *)
(* raised or could not delete it goes too.                                 *)
ClaimEnds == claim # None ~> claim = None

(* The newest change is announced in the end, by whichever fan-out gets to *)
(* it: unless one is cut off, or a later capture is no change.             *)
Unannounced ==
    /\ Len(snaps) > 1
    /\ Verdict(Prior, Latest) = "REVIEW_REQUIRED"
    /\ Latest \notin notices \cup missed

ChangeIsAnnounced == Unannounced ~> ~ Unannounced
=============================================================================
