------------------------------ MODULE Billing ------------------------------
(***************************************************************************)
(* The subscriptions of one user: the subscribe and cancel routes, the     *)
(* Razorpay webhook router and the reconciliation pass                     *)
(* (modules/iam/service.py, modules/iam/tasks.py), the entitlement read by *)
(* core/plan_guard.py, and Razorpay itself as far as these call it.        *)
(*                                                                         *)
(* Subscriptions are numbered in the order of created_at (the start of the *)
(* subscribe transaction).  Time is counted in billing cycles; the end of  *)
(* a period is 0 when the column is NULL.  A webhook is either handled in  *)
(* one step, or split where its transaction reads: first the row, then,    *)
(* after the flush, users.plan, then the commit.  MaxOverlap bounds how    *)
(* many are split at once, so MaxOverlap = 0 is a router that serves one   *)
(* webhook at a time.  A transaction writes the columns it changed since   *)
(* it read the row, as the ORM does, and reads what is committed.          *)
(***************************************************************************)
EXTENDS Integers, Sequences, FiniteSets

CONSTANTS
    Subs,        \* the subscriptions the user may open: 1 .. n
    Tiers,       \* the tiers on sale; "ltd" is the one-time purchase
    MaxNow,      \* bound on the billing cycles that pass
    MaxEvents,   \* bound on the webhooks Razorpay emits
    MaxFaults,   \* bound on failed fetches and killed passes
    MaxOverlap   \* bound on the webhook transactions in flight together

ASSUME BillingAssumption ==
    /\ Subs \subseteq Nat \ {0}
    /\ {"free", "none", "unread"} \cap Tiers = {}
    /\ MaxNow \in Nat
    /\ MaxEvents \in Nat
    /\ MaxFaults \in Nat
    /\ MaxOverlap \in Nat

VARIABLES
    local,      \* subscriptions: the row of each sub
    plan,       \* users.plan
    seen,       \* webhook_events: the ids recorded
    payments,   \* payments: the webhook ids that left a row
    txns,       \* webhook transactions in flight, with what they read
    cancelling, \* subs between Razorpay's cancel and the commit of cancel
    phase,      \* where the reconciliation pass stands
    todo,       \* the subs its current loop still has to visit
    mem,        \* the rows Set 1 loaded, never refreshed
    got,        \* the fetch_subscription answer not yet applied
    asOf,       \* the pass's own now
    rzp,        \* Razorpay's side of each sub
    sent,       \* the webhooks Razorpay has emitted, in order
    now,
    faults,
    paid        \* observer: subs Razorpay has taken money for

database == <<local, plan, seen, payments>>
pass == <<phase, todo, mem, got, asOf>>
razorpay == <<rzp, sent, paid>>
vars == <<local, plan, seen, payments, txns, cancelling, phase, todo, mem,
          got, asOf, rzp, sent, now, faults, paid>>

NoRow == [status |-> "none", tier |-> "none", end |-> 0, sched |-> FALSE]
NoSub == [status |-> "none", tier |-> "none", end |-> 0, ending |-> FALSE]
NoAnswer == [status |-> "none", end |-> 0]

Blocking == {"created", "authenticated", "active", "past_due"}
NonTerminal == Blocking \cup {"halted"}
Terminal == {"cancelled", "halted", "completed"}
Over == Terminal \ {"halted"}
LocalStatus == NonTerminal \cup Terminal \cup {"none"}
Live == {"created", "authenticated", "active", "pending", "halted", "paused"}
RzpStatus == Live \cup {"none", "paid", "cancelled", "completed", "expired"}
EventType == {"authenticated", "activated", "charged", "pending", "halted",
              "cancelled", "completed", "updated", "captured", "failed",
              "refunded"}

Plans == Tiers \cup {"free"}
Row == [status : LocalStatus, tier : Tiers \cup {"none"}, end : 0 .. MaxNow,
        sched : BOOLEAN]
Event == [type : EventType, sub : Subs, end : 0 .. MaxNow, tier : Tiers,
          of : 0 .. MaxEvents]
Txn == [id : 1 .. MaxEvents, row : Row, plan : Plans \cup {"unread"}]
Ids == 1 .. Len(sent)

TypeOK ==
    /\ local \in [Subs -> Row]
    /\ plan \in Plans
    /\ seen \subseteq Ids
    /\ payments \subseteq Ids
    /\ txns \subseteq Txn
    /\ cancelling \subseteq Subs
    /\ phase \in {"idle", "set1", "set2"}
    /\ todo \subseteq Subs
    /\ mem \in [Subs -> Row]
    /\ got \in [status : RzpStatus, end : 0 .. MaxNow]
    /\ asOf \in 0 .. MaxNow
    /\ rzp \in [Subs -> [status : RzpStatus, tier : Tiers \cup {"none"},
                         end : 0 .. MaxNow, ending : BOOLEAN]]
    /\ sent \in Seq(Event)
    /\ Len(sent) <= MaxEvents
    /\ now \in 0 .. MaxNow
    /\ faults \in 0 .. MaxFaults
    /\ paid \subseteq Subs

Init ==
    /\ local = [s \in Subs |-> NoRow]
    /\ plan = "free"
    /\ seen = {}
    /\ payments = {}
    /\ txns = {}
    /\ cancelling = {}
    /\ phase = "idle"
    /\ todo = {}
    /\ mem = [s \in Subs |-> NoRow]
    /\ got = NoAnswer
    /\ asOf = 0
    /\ rzp = [s \in Subs |-> NoSub]
    /\ sent = <<>>
    /\ now = 0
    /\ faults = 0
    /\ paid = {}

-----------------------------------------------------------------------------
(* The webhook handlers: what each makes of the row and the plan it read.  *)
(* Without a row there is nothing to do; only a lifetime row has an order  *)
(* id, so payment.captured and payment.failed of a charge find none.       *)

Later(a, b) == IF a < b THEN b ELSE a   \* _apply_period_monotonic; NULL is 0

Same(r, p) == [row |-> r, plan |-> p]

\* Mutant: the mandate alone grants the plan.
AuthenticatedGrants(r, p) ==
    Same([r EXCEPT !.status = "authenticated"], r.tier)

Authenticated(r, p) ==
    IF r.status \in {"created", "authenticated"}
    THEN Same([r EXCEPT !.status = "authenticated"], p)
    ELSE Same(r, p)

Activated(r, p, end) ==
    Same([r EXCEPT !.status = "active", !.end = end], r.tier)

\* Mutants: every charge adds a cycle; sets the end; makes the row active.
ChargedAddsCycle(r, p, end) ==
    Same([r EXCEPT !.end = @ + 1,
                   !.status = IF @ = "past_due" THEN "active" ELSE @], p)

ChargedSets(r, p, end) ==
    Same([r EXCEPT !.end = end,
                   !.status = IF @ = "past_due" THEN "active" ELSE @], p)

ChargedReactivates(r, p, end) ==
    Same([r EXCEPT !.end = Later(@, end), !.status = "active"], p)

Charged(r, p, end) ==
    Same([r EXCEPT !.end = Later(@, end),
                   !.status = IF @ = "past_due" THEN "active" ELSE @], p)

\* Mutant: Razorpay's word for the status is stored as it is.
PendingRaw(r, p) ==
    Same([r EXCEPT !.status = IF @ = "active" THEN "pending" ELSE @], p)

Pending(r, p) ==
    Same([r EXCEPT !.status = IF @ = "active" THEN "past_due" ELSE @], p)

Halted(r, p) ==
    IF r.status \in {"past_due", "active"}
    THEN Same([r EXCEPT !.status = "halted"], "free")
    ELSE Same(r, p)

Cancelled(r, p) == Same([r EXCEPT !.status = "cancelled", !.sched = TRUE], p)

Completed(r, p) == Same([r EXCEPT !.status = "completed"], "free")

Updated(r, p, t) ==
    Same([r EXCEPT !.tier = t], IF r.status = "active" THEN t ELSE p)

Captured(r, p) == Same([r EXCEPT !.status = "active", !.end = 0], "ltd")

Handled(e, r, p) ==
    IF r = NoRow THEN Same(r, p)
    ELSE CASE e.type = "authenticated" -> Authenticated(r, p)
           [] e.type = "activated" -> Activated(r, p, e.end)
           [] e.type = "charged" -> Charged(r, p, e.end)
           [] e.type = "pending" -> Pending(r, p)
           [] e.type = "halted" -> Halted(r, p)
           [] e.type = "cancelled" -> Cancelled(r, p)
           [] e.type = "completed" -> Completed(r, p)
           [] e.type = "updated" -> Updated(r, p, e.tier)
           [] e.type = "captured" /\ r.tier = "ltd" -> Captured(r, p)
           [] OTHER -> Same(r, p)

(* The handlers that go on to read the user.                               *)
ReadsPlan(e, r) ==
    /\ r # NoRow
    /\ \/ e.type \in {"activated", "completed", "updated"}
       \/ e.type = "halted" /\ r.status \in {"past_due", "active"}
       \/ e.type = "captured" /\ r.tier = "ltd"

-----------------------------------------------------------------------------
(* What a transaction writes, and whom it waits for.                       *)

(* The columns that changed since they were read are written, the others   *)
(* keep what the table holds at the commit.                                *)
Merge(db, read, want) ==
    [c \in DOMAIN db |-> IF want[c] # read[c] THEN want[c] ELSE db[c]]

MergePlan(read, want) == IF want # read THEN want ELSE plan

Stored(s, read, want) == [local EXCEPT ![s] = Merge(@, read, want)]

\* Mutant: the index is missing.
NoIndex(rows) == TRUE

(* uq_subscriptions_one_active_per_user                                    *)
OneActive(rows) ==
    \A s, o \in Subs :
        rows[s].status = "active" /\ rows[o].status = "active" => s = o

(* A webhook transaction that has read the plan has flushed its row.       *)
Wants(t) == Handled(sent[t.id], t.row, t.plan).row

Flushed(t) == t.plan # "unread" /\ Wants(t) # t.row

(* The index takes the row, and no transaction of others holds its lock or *)
(* an index entry it would meet: a writer waits until they are over.       *)
MayWrite(s, read, want, others) ==
    LET rows == Stored(s, read, want)
    IN  /\ OneActive(rows)
        /\ want # read =>
             \A t \in others : Flushed(t) =>
                LET o == sent[t.id].sub
                IN  /\ o # s
                    /\ OneActive([rows EXCEPT ![o] = Merge(@, t.row, Wants(t))])

-----------------------------------------------------------------------------
(* subscribe and cancel.                                                   *)

(* A request that dies after Razorpay answered never takes its second      *)
(* step: Razorpay then holds an object no row knows.                       *)
SubscribePlace(s, t) ==
    /\ rzp[s] = NoSub
    /\ \A o \in Subs : o < s => rzp[o] # NoSub
    /\ \A o \in Subs : local[o].status \notin Blocking
    /\ rzp' = [rzp EXCEPT ![s] = [NoSub EXCEPT !.status = "created",
                                               !.tier = t]]
    /\ UNCHANGED <<database, txns, cancelling, pass, sent, paid, now, faults>>

SubscribeCommit(s) ==
    /\ rzp[s] # NoSub
    /\ local[s] = NoRow
    /\ local' = [local EXCEPT ![s] = [NoRow EXCEPT !.status = "created",
                                                   !.tier = rzp[s].tier]]
    /\ UNCHANGED <<plan, seen, payments, txns, cancelling, pass, razorpay,
                   now, faults>>

Cancellable(s) ==
    /\ local[s].status \in Blocking
    /\ local[s].tier # "ltd"
    /\ \A o \in Subs : o > s => local[o].status \notin Blocking

(* Razorpay refuses to cancel what is already over: the route fails and    *)
(* nothing changes.                                                        *)
CancelAsk(s) ==
    /\ Cancellable(s)
    /\ s \notin cancelling
    /\ rzp[s].status \in Live
    /\ rzp' = [rzp EXCEPT ![s].ending = TRUE]
    /\ cancelling' = cancelling \cup {s}
    /\ UNCHANGED <<database, txns, pass, sent, paid, now, faults>>

\* Mutant: the flag is set before Razorpay is asked.
AskedLater(s) == s \in cancelling \/ Cancellable(s)

Asked(s) == s \in cancelling

Scheduled(s) == [local[s] EXCEPT !.sched = TRUE]

CancelCommit(s) ==
    /\ Asked(s)
    /\ MayWrite(s, local[s], Scheduled(s), txns)
    /\ cancelling' = cancelling \ {s}
    /\ local' = [local EXCEPT ![s] = Scheduled(s)]
    /\ UNCHANGED <<plan, seen, payments, txns, pass, razorpay, now, faults>>

-----------------------------------------------------------------------------
(* Razorpay.  It mails the checkout link of a subscription itself, so one  *)
(* may be paid before, or without, the commit of its row; an order is paid *)
(* by the client that got its id in the response, after the commit.        *)
(* Cycles end before MaxNow, so that every paid period lapses inside the   *)
(* bound.  Pausing and expiring emit nothing that has a handler.           *)

Recurring(s) == rzp[s].tier # "ltd"

Payable(s) == Recurring(s) \/ local[s] # NoRow

Emit(s, types, end, t, of) ==
    /\ Len(sent) + Len(types) <= MaxEvents
    /\ sent' = sent \o [i \in 1 .. Len(types) |->
           [type |-> types[i], sub |-> s, end |-> end, tier |-> t, of |-> of]]

Moves(s, from, to, end, types) ==
    /\ Payable(s)
    /\ rzp[s].status \in from
    /\ rzp' = [rzp EXCEPT ![s].status = to, ![s].end = end]
    /\ Emit(s, types, end, rzp[s].tier, 0)

RzpUnchanged == UNCHANGED <<database, txns, cancelling, pass, now, faults>>

RzpAuthenticate(s) ==
    /\ Recurring(s)
    /\ Moves(s, {"created"}, "authenticated", 0, <<"authenticated">>)
    /\ UNCHANGED paid
    /\ RzpUnchanged

(* The first charge, or one that succeeds after retries.                   *)
RzpActivate(s) ==
    /\ Recurring(s)
    /\ now + 1 < MaxNow
    /\ Moves(s, {"created", "authenticated", "pending", "halted"}, "active",
             now + 1, <<"activated", "charged">>)
    /\ paid' = paid \cup {s}
    /\ RzpUnchanged

RzpRenew(s) ==
    /\ rzp[s].end <= now
    /\ ~rzp[s].ending
    /\ now + 1 < MaxNow
    /\ Moves(s, {"active"}, "active", now + 1, <<"charged">>)
    /\ UNCHANGED paid
    /\ RzpUnchanged

RzpPending(s) ==
    /\ rzp[s].end <= now
    /\ Moves(s, {"active"}, "pending", rzp[s].end, <<"pending">>)
    /\ UNCHANGED paid
    /\ RzpUnchanged

RzpHalt(s) ==
    /\ Moves(s, {"pending"}, "halted", rzp[s].end, <<"halted">>)
    /\ UNCHANGED paid
    /\ RzpUnchanged

(* At the end of the cycle if the seller asked, at once from the dashboard. *)
RzpCancel(s) ==
    /\ Recurring(s)
    /\ rzp[s].ending => rzp[s].end <= now
    /\ Moves(s, Live, "cancelled", rzp[s].end, <<"cancelled">>)
    /\ UNCHANGED paid
    /\ RzpUnchanged

RzpComplete(s) ==
    /\ rzp[s].end <= now
    /\ Moves(s, {"active"}, "completed", rzp[s].end, <<"completed">>)
    /\ UNCHANGED paid
    /\ RzpUnchanged

(* The plan of a subscription is changed once the seller has its row.      *)
RzpUpdate(s, t) ==
    /\ Recurring(s)
    /\ rzp[s].status = "active"
    /\ local[s] # NoRow
    /\ t \notin {"ltd", rzp[s].tier}
    /\ rzp' = [rzp EXCEPT ![s].tier = t]
    /\ Emit(s, <<"updated">>, rzp[s].end, t, 0)
    /\ UNCHANGED paid
    /\ RzpUnchanged

RzpCapture(s) ==
    /\ ~Recurring(s)
    /\ Moves(s, {"created"}, "paid", 0, <<"captured">>)
    /\ paid' = paid \cup {s}
    /\ RzpUnchanged

(* The payment leg of a charge, beside subscription.charged.               *)
RzpCaptureCharge(s) ==
    /\ Moves(s, {"active"}, "active", rzp[s].end, <<"captured">>)
    /\ UNCHANGED paid
    /\ RzpUnchanged

RzpPaymentFails(s) ==
    /\ Moves(s, {"created", "pending"}, rzp[s].status, rzp[s].end, <<"failed">>)
    /\ UNCHANGED paid
    /\ RzpUnchanged

RzpExpire(s) ==
    /\ Recurring(s)
    /\ Moves(s, {"created"}, "expired", 0, <<>>)
    /\ UNCHANGED paid
    /\ RzpUnchanged

RzpPause(s) ==
    /\ Moves(s, {"active"}, "paused", rzp[s].end, <<>>)
    /\ UNCHANGED paid
    /\ RzpUnchanged

RzpResume(s) ==
    /\ Moves(s, {"paused"}, "active", rzp[s].end, <<>>)
    /\ UNCHANGED paid
    /\ RzpUnchanged

RzpRefund(n) ==
    /\ sent[n].type \in {"charged", "captured"}
    /\ \A i \in Ids : sent[i].of # n
    /\ Emit(sent[n].sub, <<"refunded">>, 0, sent[n].tier, n)
    /\ UNCHANGED <<rzp, paid>>
    /\ RzpUnchanged

Tick ==
    /\ now < MaxNow
    /\ now' = now + 1
    /\ UNCHANGED <<database, txns, cancelling, pass, razorpay, faults>>

RzpStep(s) ==
    \/ RzpAuthenticate(s)
    \/ RzpActivate(s)
    \/ RzpRenew(s)
    \/ RzpPending(s)
    \/ RzpHalt(s)
    \/ RzpCancel(s)
    \/ RzpComplete(s)
    \/ \E t \in Tiers : RzpUpdate(s, t)
    \/ RzpCapture(s)
    \/ RzpCaptureCharge(s)
    \/ RzpPaymentFails(s)
    \/ RzpExpire(s)
    \/ RzpPause(s)
    \/ RzpResume(s)

-----------------------------------------------------------------------------
(* The webhook router.                                                     *)

(* A charge is recorded with the row it belongs to, the payment of an      *)
(* order with the row of the order, a refund with the payment it returns.  *)
LeavesPayment(e, r) ==
    \/ e.type = "charged" /\ r # NoRow
    \/ e.type \in {"captured", "failed"} /\ r.tier = "ltd"
    \/ e.type = "refunded" /\ e.of \in payments

Unclaimed(n) == n \in Ids \ seen /\ \A t \in txns : t.id # n

(* The commit of _route_webhook_in_session: the dedupe row, the handler's  *)
(* writes and the payment, or nothing when the index refuses the row.      *)
Effect(n, readRow, readPlan, others) ==
    LET e == sent[n]
        want == Handled(e, readRow, readPlan)
    IN  /\ MayWrite(e.sub, readRow, want.row, others)
        /\ local' = Stored(e.sub, readRow, want.row)
        /\ plan' = MergePlan(readPlan, want.plan)
        /\ payments' = IF LeavesPayment(e, readRow) THEN payments \cup {n}
                                                     ELSE payments
        /\ seen' = seen \cup {n}

Webhook(n) ==
    /\ Unclaimed(n)
    /\ Effect(n, local[sent[n].sub], plan, txns)
    /\ UNCHANGED <<txns, cancelling, pass, razorpay, now, faults>>

(* The handler's SELECT of the row, without a lock.                        *)
WebhookBegin(n) ==
    /\ Unclaimed(n)
    /\ Cardinality(txns) < MaxOverlap
    /\ txns' = txns \cup {[id |-> n, row |-> local[sent[n].sub],
                           plan |-> "unread"]}
    /\ UNCHANGED <<database, cancelling, pass, razorpay, now, faults>>

(* db.get(User): the row is flushed first, then users.plan is read.        *)
WebhookReadPlan(t) ==
    LET e == sent[t.id]
    IN  /\ t.plan = "unread"
        /\ ReadsPlan(e, t.row)
        /\ MayWrite(e.sub, t.row, Handled(e, t.row, plan).row, txns)
        /\ txns' = (txns \ {t}) \cup {[t EXCEPT !.plan = plan]}
        /\ UNCHANGED <<database, cancelling, pass, razorpay, now, faults>>

WebhookCommit(t) ==
    /\ ReadsPlan(sent[t.id], t.row) => t.plan # "unread"
    /\ Effect(t.id, t.row, t.plan, txns \ {t})
    /\ txns' = txns \ {t}
    /\ UNCHANGED <<cancelling, pass, razorpay, now, faults>>

(* The handler raised or the process died: the dedupe row goes too, and    *)
(* Razorpay will deliver the webhook again.                                *)
WebhookRollback(t) ==
    /\ txns' = txns \ {t}
    /\ UNCHANGED <<database, cancelling, pass, razorpay, now, faults>>

-----------------------------------------------------------------------------
(* billing.reconcile, one pass at a time: the Valkey lock is taken to      *)
(* outlive the pass that holds it.                                         *)

Load(rows) == [s \in Subs |-> IF s \in rows THEN local[s] ELSE NoRow]

\* Mutant: Set 1 loads the rows Razorpay reported as unpaid only.
DriftingPastDue ==
    {s \in Subs : local[s].status = "past_due" /\ local[s].tier # "ltd"}

DriftingSubs ==
    {s \in Subs : local[s].status \in NonTerminal /\ local[s].tier # "ltd"}

PassBegin ==
    /\ phase = "idle"
    /\ phase' = "set1"
    /\ todo' = DriftingSubs
    /\ mem' = Load(DriftingSubs)
    /\ asOf' = now
    /\ UNCHANGED <<database, txns, cancelling, got, razorpay, now, faults>>

(* One sub at a time: the answer waits in got until it is applied.         *)
Fetch(s) ==
    /\ phase = "set1"
    /\ s \in todo
    /\ got = NoAnswer
    /\ \A o \in todo : s <= o
    /\ got' = [status |-> rzp[s].status, end |-> rzp[s].end]
    /\ UNCHANGED <<database, txns, cancelling, phase, todo, mem, asOf,
                   razorpay, now, faults>>

Visited(s) ==
    /\ todo' = todo \ {s}
    /\ mem' = [mem EXCEPT ![s] = NoRow]

FetchFails(s) ==
    /\ phase = "set1"
    /\ s \in todo
    /\ got = NoAnswer
    /\ faults < MaxFaults
    /\ faults' = faults + 1
    /\ Visited(s)
    /\ UNCHANGED <<database, txns, cancelling, phase, got, asOf, razorpay,
                   now>>

(* _RZP_STATUS_TO_LOCAL                                                    *)
LocalOf(status) ==
    CASE status \in {"pending", "paused"} -> "past_due"
      [] status = "expired" -> "completed"
      [] OTHER -> status

(* The plan is read again for each sub; the row is the one Set 1 loaded.   *)
Converged(r, p, answer) ==
    LET target == LocalOf(answer.status)
        row == [r EXCEPT !.end = Later(@, answer.end)]
        moved == [row EXCEPT !.status = target]
    IN  IF r.status = "cancelled" \/ target = r.status THEN Same(row, p)
        ELSE CASE target = "active" -> Same(moved, r.tier)
               [] target = "halted" -> Same(moved, "free")
               [] target \in {"authenticated", "cancelled", "completed"} ->
                    Same(moved, p)
               [] OTHER -> Same(row, p)

(* The flush locks the row before the user is read, and who wrote the user *)
(* in between could have come first or after: one step is enough.          *)
Converge(s) ==
    /\ phase = "set1"
    /\ s \in todo
    /\ got # NoAnswer
    /\ \A o \in todo : s <= o
    /\ LET want == Converged(mem[s], plan, got)
       IN  /\ MayWrite(s, mem[s], want.row, txns)
           /\ local' = Stored(s, mem[s], want.row)
           /\ plan' = want.plan
    /\ Visited(s)
    /\ got' = NoAnswer
    /\ UNCHANGED <<seen, payments, txns, cancelling, phase, asOf, razorpay,
                   now, faults>>

PassOver ==
    /\ phase' = "idle"
    /\ todo' = {}
    /\ mem' = Load({})
    /\ got' = NoAnswer
    /\ asOf' = 0

(* The index refuses the row at the flush.  The session expires every row  *)
(* it holds, the except clause then reads sub.razorpay_subscription_id for *)
(* its log line, and that read raises out of the loop.                     *)
ConvergeRefused(s) ==
    /\ phase = "set1"
    /\ s \in todo
    /\ got # NoAnswer
    /\ \A o \in todo : s <= o
    /\ ~OneActive(Stored(s, mem[s], Converged(mem[s], plan, got).row))
    /\ PassOver
    /\ UNCHANGED <<database, txns, cancelling, razorpay, now, faults>>

LapsedSubs ==
    {s \in Subs : /\ local[s].status \in Terminal
                  /\ local[s].end # 0
                  /\ local[s].end < asOf}

SweepBegin ==
    /\ phase = "set1"
    /\ todo = {}
    /\ phase' = "set2"
    /\ todo' = LapsedSubs
    /\ UNCHANGED <<database, txns, cancelling, mem, got, asOf, razorpay, now,
                   faults>>

(* _subscription_is_entitled                                               *)
Entitles(r, at) ==
    \/ r.status \in {"active", "authenticated", "created", "completed"}
    \/ r.status = "cancelled" /\ r.end # 0 /\ at < r.end

OtherEntitles(s) == \E o \in Subs \ {s} : Entitles(local[o], asOf)

Sweep(s) ==
    /\ phase = "set2"
    /\ s \in todo
    /\ plan' = IF OtherEntitles(s) THEN plan ELSE "free"
    /\ todo' = todo \ {s}
    /\ UNCHANGED <<local, seen, payments, txns, cancelling, phase, mem, got,
                   asOf, razorpay, now, faults>>

PassEnd ==
    /\ phase = "set2"
    /\ todo = {}
    /\ PassOver
    /\ UNCHANGED <<database, txns, cancelling, razorpay, now, faults>>

(* The worker is killed: what was committed stays, the lock expires.       *)
PassDies ==
    /\ phase # "idle"
    /\ faults < MaxFaults
    /\ faults' = faults + 1
    /\ PassOver
    /\ UNCHANGED <<database, txns, cancelling, razorpay, now>>

PassStep ==
    \/ PassBegin
    \/ \E s \in Subs : Fetch(s) \/ Converge(s) \/ ConvergeRefused(s)
    \/ SweepBegin
    \/ \E s \in Subs : Sweep(s)
    \/ PassEnd

-----------------------------------------------------------------------------
Next ==
    \/ \E s \in Subs, t \in Tiers : SubscribePlace(s, t)
    \/ \E s \in Subs :
         \/ SubscribeCommit(s)
         \/ CancelAsk(s)
         \/ CancelCommit(s)
         \/ RzpStep(s)
         \/ FetchFails(s)
    \/ \E n \in Ids : Webhook(n) \/ WebhookBegin(n) \/ RzpRefund(n)
    \/ \E t \in txns :
         WebhookReadPlan(t) \/ WebhookCommit(t) \/ WebhookRollback(t)
    \/ PassStep
    \/ PassDies
    \/ Tick

Spec == Init /\ [][Next]_vars

(* Beat starts a pass every six hours and a worker runs it; time passes.   *)
(* Nothing obliges Razorpay, the seller or a webhook to do anything.       *)
FairSpec == Spec /\ WF_vars(PassStep) /\ WF_vars(Tick)

-----------------------------------------------------------------------------
(* What the code promises.                                                 *)

(* Whatever the order of webhooks, passes and crashes, the plan column is  *)
(* a paid plan only once Razorpay took money: for a lifetime purchase if   *)
(* it says "ltd", for a recurring subscription if it says anything else.   *)
PlanBacked ==
    plan # "free" => \E s \in paid : (plan = "ltd") = (rzp[s].tier = "ltd")

(* A row is active, past due or halted only for a subscription that was    *)
(* paid for, and its period never reaches past what Razorpay has charged.  *)
RowBacked ==
    \A s \in Subs :
        /\ local[s].status \in {"active", "past_due", "halted"} => s \in paid
        /\ local[s].end <= rzp[s].end

(* The cancellation the seller is shown has reached Razorpay.              *)
CancelBacked ==
    \A s \in Subs : local[s].sched => rzp[s].ending \/ rzp[s].status = "cancelled"

(* Written from what was read when the row had another period.             *)
ReadBefore(s) ==
    \/ \E t \in txns \ txns' :
         sent[t.id].sub = s /\ t.row.end # local[s].end
    \/ s \in todo \ todo' /\ mem[s].end # local[s].end

(* Whatever is late, repeated or replayed by a pass, a row's period never  *)
(* goes back and covers every charge whose payment is recorded, but for    *)
(* what activated sets and what was read before the period changed.        *)
PeriodKept ==
    [][\A s \in Subs :
        \/ /\ local'[s].end >= local[s].end
           /\ \A n \in payments' \ payments :
                sent[n].type = "charged" /\ sent[n].sub = s
                    => local'[s].end >= sent[n].end
        \/ \E n \in seen' \ seen : sent[n].type = "activated" /\ sent[n].sub = s
        \/ ReadBefore(s)]_vars

(* A recurring subscription takes the plan column from a lifetime purchase *)
(* by one way only: the commit of a webhook transaction that read its own  *)
(* row as active, so before the purchase was captured, whenever it read    *)
(* the plan.                                                               *)
LtdNotReplaced ==
    [][plan = "ltd" /\ plan' \notin {"ltd", "free"}
         => \E t \in txns \ txns' :
              t.row.status = "active" /\ t.row.tier # "ltd"]_vars

(* A row that is over is brought back by no webhook but activated: a late  *)
(* charge, retry or plan change leaves it over, unless its transaction     *)
(* read the row before it was over.                                        *)
WebhooksRespectOver ==
    [][\A n \in seen' \ seen :
        LET s == sent[n].sub
        IN  local[s].status \in Over /\ local'[s].status \in NonTerminal
            => \/ sent[n].type = "activated"
               \/ \E t \in txns \ txns' : t.row.status \notin Over]_vars

(* The sweep ends the plan of a user whose only subscription is over.      *)
CancelEventuallyDowngrades ==
    \A s \in Subs :
        rzp[s].status \in {"cancelled", "completed"} /\ local[s] # NoRow
            ~> plan = "free"

-----------------------------------------------------------------------------
(* What its comments and task specifications claim, and it does not do.    *)

(* tasks.py _reconcile_one: "NEVER re-activates a locally-cancelled sub".  *)
ReconcileNeverReactivates ==
    [][\A s \in Subs : Converge(s) =>
        (local[s].status = "cancelled" => local'[s].status = "cancelled")]_vars

(* service.py cancelled handler: "users.plan stays at tier until           *)
(* current_period_end - the Wave-4 reconciliation sweep does the eventual  *)
(* downgrade", when nothing else the user holds was ever paid for.         *)
SweepEventuallyDowngrades ==
    \A s \in Subs :
        <>[](/\ rzp[s].status = "cancelled"
             /\ local[s] # NoRow
             /\ paid \subseteq {s})
            => []<>(plan = "free")
=============================================================================
