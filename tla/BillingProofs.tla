--------------------------- MODULE BillingProofs ---------------------------
(***************************************************************************)
(* For any subscriptions, tiers and bounds: the types; that a paid plan    *)
(* and a row each have their payment; that a cancellation on display has   *)
(* reached Razorpay; that no late webhook leads a row out of an end it had *)
(* read, or takes its period back; and that a lifetime plan is overwritten *)
(* only by a transaction that read its own row as active.                  *)
(*                                                                         *)
(* None of these is inductive as it stands: a webhook writes what its      *)
(* event says onto a row read earlier, and a pass writes an answer onto a  *)
(* row loaded earlier.  IInv therefore says of everything in transit       *)
(* (emitted webhooks, webhook transactions, the loaded rows and the answer *)
(* of the pass) what Razorpay has already done.  LtdInv, on top of it,     *)
(* says that the row of a captured lifetime purchase stays active, so that *)
(* the index on active rows keeps every other row from being activated;    *)
(* FreshInv says that a transaction in flight is the only one of a webhook *)
(* nobody has processed.                                                   *)
(***************************************************************************)
EXTENDS Billing, SequenceTheorems, TLAPS

(* The statuses a row takes only from a subscription that was charged.     *)
Earned == {"active", "past_due", "halted"}

(* What Razorpay reports of a subscription only after a charge, and what   *)
(* it reports of an object that has no billing cycle.                      *)
Charging == {"active", "pending", "halted", "paused"}
Unbilled == {"none", "created", "paid"}

(* The events a one-time purchase can have.                                *)
OfOrders == {"captured", "failed", "refunded"}

(* A row, or a copy of it, agrees with Razorpay on the kind of tier, and   *)
(* claims no payment and no period that Razorpay has not charged.          *)
Shaped(r, s) ==
    /\ r.status # "none"
    /\ r.tier \in Tiers
    /\ (r.tier = "ltd") = (rzp[s].tier = "ltd")
    /\ r.status \in Earned => s \in paid
    /\ r.status \in Over => rzp[s].tier # "ltd"
    /\ r.end <= rzp[s].end

RzpInv ==
    \A s \in Subs :
        /\ rzp[s] # NoSub => rzp[s].status # "none" /\ rzp[s].tier \in Tiers
        /\ rzp[s].status \in Charging => s \in paid
        /\ s \in paid => rzp[s] # NoSub
        /\ rzp[s].status \notin Unbilled => rzp[s].tier # "ltd"
        /\ rzp[s].status \in Unbilled => rzp[s].end = 0
        /\ rzp[s].end <= now + 1

RowInv ==
    \A s \in Subs :
        /\ local[s] = NoRow \/ Shaped(local[s], s)
        /\ local[s] # NoRow => rzp[s] # NoSub

EventBacked(e) ==
    /\ rzp[e.sub] # NoSub
    /\ e.type = "activated" => e.sub \in paid /\ rzp[e.sub].tier # "ltd"
    /\ e.type = "captured" => e.sub \in paid
    /\ e.type = "updated" =>
         e.sub \in paid /\ rzp[e.sub].tier # "ltd" /\ e.tier # "ltd"
    /\ e.type = "cancelled" => rzp[e.sub].status = "cancelled"
    /\ e.type \notin OfOrders => rzp[e.sub].tier # "ltd"
    /\ e.end <= rzp[e.sub].end

EventInv == \A n \in 1 .. Len(sent) : EventBacked(sent[n])

(* What a webhook of s has read: no row, or one that is still there.       *)
ReadOf(r, s) == r = NoRow \/ (local[s] # NoRow /\ Shaped(r, s))

TxnInv == \A t \in txns : t.id \in Ids /\ ReadOf(t.row, sent[t.id].sub)

PassInv ==
    /\ phase = "idle" => got = NoAnswer
    /\ phase = "set1" =>
         /\ \A s \in todo :
              local[s] # NoRow /\ Shaped(mem[s], s) /\ mem[s].tier # "ltd"
         /\ \A s \in todo : (\A o \in todo : s <= o) =>
              /\ got.status \in {"active", "halted"} => s \in paid
              /\ got.end <= rzp[s].end

CancelInv ==
    \A s \in cancelling :
        local[s] # NoRow /\ (rzp[s].ending \/ rzp[s].status = "cancelled")

IInv ==
    /\ TypeOK
    /\ RzpInv
    /\ RowInv
    /\ EventInv
    /\ TxnInv
    /\ PassInv
    /\ CancelInv
    /\ PlanBacked
    /\ CancelBacked

-----------------------------------------------------------------------------
(* What Emit appends.                                                      *)
LEMMA EmitAppends ==
    ASSUME TypeOK, NEW s \in Subs, NEW types \in Seq(EventType),
           NEW end \in 0 .. MaxNow, NEW t \in Tiers, NEW of \in 0 .. MaxEvents,
           Emit(s, types, end, t, of)
    PROVE  /\ sent' \in Seq(Event)
           /\ Len(sent') <= MaxEvents
           /\ Len(sent') = Len(sent) + Len(types)
           /\ \A n \in 1 .. Len(sent) : sent'[n] = sent[n]
           /\ \A n \in Len(sent) + 1 .. Len(sent') :
                /\ sent'[n].sub = s
                /\ sent'[n].tier = t
                /\ sent'[n].end = end
                /\ sent'[n].type = types[n - Len(sent)]
  <1> DEFINE new == [i \in 1 .. Len(types) |->
           [type |-> types[i], sub |-> s, end |-> end, tier |-> t, of |-> of]]
  <1>1. sent \in Seq(Event) /\ Len(types) \in Nat /\ MaxEvents \in Nat
    BY BillingAssumption DEF TypeOK
  <1>2. \A i \in 1 .. Len(types) : new[i] \in Event
    BY DEF Event
  <1>3. new \in Seq(Event) /\ Len(new) = Len(types)
    BY <1>1, <1>2
  <1>4. sent' = sent \o new /\ Len(sent) + Len(types) <= MaxEvents
    BY DEF Emit
  <1>5. /\ sent \o new \in Seq(Event)
        /\ Len(sent \o new) = Len(sent) + Len(new)
        /\ \A n \in 1 .. Len(sent) : (sent \o new)[n] = sent[n]
        /\ \A n \in Len(sent) + 1 .. Len(sent) + Len(new) :
             (sent \o new)[n] = new[n - Len(sent)]
    BY <1>1, <1>3
  <1>6. \A n \in Len(sent) + 1 .. Len(sent) + Len(new) :
            n - Len(sent) \in 1 .. Len(types)
    BY <1>1, <1>3
  <1> QED
    BY <1>1, <1>3, <1>4, <1>5, <1>6

LEMMA ShapedIsRow ==
    ASSUME NEW r, NEW s, Shaped(r, s)
    PROVE  r # NoRow
  BY DEF Shaped, NoRow

(* What a handler returns is a row of the same kind, and the plan it wants *)
(* is the one it read, free, or one its event pays for.                    *)
LEMMA HandledShape ==
    ASSUME TypeOK, NEW e \in Event, NEW r \in Row, NEW p,
           Shaped(r, e.sub), EventBacked(e), RzpInv
    PROVE  LET w == Handled(e, r, p)
           IN  /\ w.row \in Row
               /\ Shaped(w.row, e.sub)
               /\ \/ w.plan \in {p, "free"}
                  \/ /\ w.plan \in Tiers
                     /\ e.sub \in paid
                     /\ (w.plan = "ltd") = (rzp[e.sub].tier = "ltd")
               /\ w.row.sched # r.sched => rzp[e.sub].status = "cancelled"
  <1> DEFINE w == Handled(e, r, p)
  <1>0. /\ r.status \in LocalStatus /\ r.tier \in Tiers /\ r.end \in 0 .. MaxNow
        /\ r.sched \in BOOLEAN /\ e.end \in 0 .. MaxNow /\ e.tier \in Tiers
        /\ e.type \in EventType /\ e.sub \in Subs /\ r # NoRow
    BY ShapedIsRow DEF Row, Event, Shaped
  <1>11. /\ rzp[e.sub].end \in 0 .. MaxNow /\ MaxNow \in Nat
         /\ r.end <= rzp[e.sub].end /\ e.end <= rzp[e.sub].end
    BY <1>0, BillingAssumption DEF TypeOK, Shaped, EventBacked
  <1>1. CASE e.type = "authenticated"
    BY <1>0, <1>11, <1>1 DEF Handled, Authenticated, Same, Shaped, Row, LocalStatus,
        NonTerminal, Blocking, Earned, Over, Terminal
  <1>2. CASE e.type = "activated"
    BY <1>0, <1>11, <1>2 DEF Handled, Activated, Same, Shaped, Row, LocalStatus,
        NonTerminal, Blocking, EventBacked, Earned, Over, Terminal
  <1>3. CASE e.type = "charged"
    BY <1>0, <1>11, <1>3 DEF Handled, Charged, Same, Shaped, Row, LocalStatus,
        NonTerminal, Blocking, Later, Earned, Over, Terminal
  <1>4. CASE e.type = "pending"
    BY <1>0, <1>11, <1>4 DEF Handled, Pending, Same, Shaped, Row, LocalStatus,
        NonTerminal, Blocking, Earned, Over, Terminal
  <1>5. CASE e.type = "halted"
    BY <1>0, <1>11, <1>5 DEF Handled, Halted, Same, Shaped, Row, LocalStatus,
        NonTerminal, Blocking, Earned, Over, Terminal
  <1>6. CASE e.type = "cancelled"
    BY <1>0, <1>11, <1>6 DEF Handled, Cancelled, Same, Shaped, Row, LocalStatus,
        Terminal, EventBacked, Earned, Over, OfOrders
  <1>7. CASE e.type = "completed"
    BY <1>0, <1>11, <1>7 DEF Handled, Completed, Same, Shaped, Row, LocalStatus,
        Terminal, EventBacked, Earned, Over, OfOrders
  <1>8. CASE e.type = "updated"
    BY <1>0, <1>11, <1>8 DEF Handled, Updated, Same, Shaped, Row, LocalStatus,
        EventBacked
  <1>9. CASE e.type = "captured" /\ r.tier = "ltd"
    <2>1. e.sub \in paid /\ rzp[e.sub].tier = "ltd"
      BY <1>9 DEF EventBacked, Shaped
    <2> DEFINE row == [r EXCEPT !.status = "active", !.end = 0]
    <2>2. w = [row |-> row, plan |-> "ltd"]
      BY <1>0, <1>9 DEF Handled, Captured, Same
    <2>3. 0 \in 0 .. MaxNow /\ "active" \in LocalStatus
      BY BillingAssumption DEF LocalStatus, NonTerminal, Blocking
    <2>4. row \in Row /\ row.status = "active" /\ row.tier = r.tier
            /\ row.sched = r.sched /\ row.end = 0
      BY <1>0, <2>3 DEF Row
    <2>5. Shaped(row, e.sub)
      <3>1. row.status \notin Over
        BY <2>4 DEF Over, Terminal
      <3> QED
        BY <1>0, <1>11, <2>1, <2>4, <3>1 DEF Shaped
    <2> HIDE DEF w, row
    <2> QED
      BY <1>0, <1>9, <2>1, <2>2, <2>4, <2>5 DEF w
  <1>10. CASE \/ e.type \in {"failed", "refunded"}
              \/ e.type = "captured" /\ r.tier # "ltd"
    <2>1. w = Same(r, p)
      BY <1>0, <1>10 DEF Handled
    <2>2. w.row = r /\ w.plan = p
      BY <2>1 DEF Same
    <2> HIDE DEF w
    <2> QED
      BY <2>2 DEF w
  <1> QED
    BY <1>0, <1>11, <1>1, <1>2, <1>3, <1>4, <1>5, <1>6, <1>7, <1>8, <1>9, <1>10
    DEF EventType

(* Merging a wanted row over the table keeps its type and kind.            *)
LEMMA MergeShape ==
    ASSUME NEW db \in Row, NEW read \in Row, NEW want \in Row, NEW s,
           Shaped(db, s), Shaped(read, s), Shaped(want, s)
    PROVE  /\ Merge(db, read, want) \in Row
           /\ Shaped(Merge(db, read, want), s)
           /\ Merge(db, read, want).sched =>
                db.sched \/ want.sched # read.sched
  <1> DEFINE m == Merge(db, read, want)
  <1>1. DOMAIN db = {"status", "tier", "end", "sched"}
    BY DEF Row
  <1>2. m = [c \in {"status", "tier", "end", "sched"} |->
               IF want[c] # read[c] THEN want[c] ELSE db[c]]
    BY <1>1 DEF Merge
  <1>3. /\ m.status \in {want.status, db.status}
        /\ m.tier \in {want.tier, db.tier}
        /\ m.end \in {want.end, db.end}
        /\ m.sched \in {want.sched, db.sched}
        /\ m.sched = IF want.sched # read.sched THEN want.sched ELSE db.sched
    BY <1>2
  <1>4. /\ m.status \in LocalStatus
        /\ m.tier \in Tiers \cup {"none"}
        /\ m.end \in 0 .. MaxNow
        /\ m.sched \in BOOLEAN
    BY <1>3 DEF Row
  <1>5. m \in Row
    BY <1>2, <1>4 DEF Row
  <1>6. Shaped(m, s)
    BY <1>3 DEF Shaped
  <1> QED
    BY <1>3, <1>4, <1>5, <1>6

LEMMA SentEvent ==
    ASSUME TypeOK, NEW n \in 1 .. Len(sent)
    PROVE  sent[n] \in Event /\ sent[n].sub \in Subs
  <1>1. sent \in Seq(Event)
    BY DEF TypeOK
  <1>2. sent[n] \in Event
    BY <1>1
  <1> QED
    BY <1>2 DEF Event

RzpRows == [Subs -> [status : RzpStatus, tier : Tiers \cup {"none"},
                     end : 0 .. MaxNow, ending : BOOLEAN]]

(* A row stays in agreement as long as payments are not taken back and     *)
(* periods only grow.                                                      *)
LEMMA ShapedKept ==
    ASSUME NEW s \in Subs, NEW r \in Row, Shaped(r, s),
           rzp \in RzpRows, rzp' \in RzpRows,
           s \in paid => s \in paid',
           (rzp'[s].tier = "ltd") = (rzp[s].tier = "ltd"),
           rzp[s].end <= rzp'[s].end
    PROVE  Shaped(r, s)'
  <1>1. r.end \in Int /\ rzp[s].end \in Int /\ rzp'[s].end \in Int
    BY BillingAssumption DEF Row, RzpRows
  <1>2. r.end <= rzp'[s].end
    BY <1>1 DEF Shaped
  <1> QED
    BY <1>2 DEF Shaped

LEMMA NoAnswerClaimsNothing ==
    ASSUME TypeOK, NEW s \in Subs
    PROVE  /\ NoAnswer.end <= rzp[s].end
           /\ NoAnswer.status \notin {"active", "halted"}
  BY BillingAssumption DEF TypeOK, NoAnswer

LEMMA InitInv == Init => IInv
  <1> SUFFICES ASSUME Init PROVE IInv
    OBVIOUS
  <1>1. TypeOK
    BY BillingAssumption DEF Init, TypeOK, Row, LocalStatus, NonTerminal,
        Blocking, NoRow, NoSub, NoAnswer, RzpStatus, Plans, Ids, Event
  <1>2. Len(sent) = 0
    BY DEF Init
  <1>3. EventInv /\ TxnInv
    BY <1>2 DEF Init, EventInv, TxnInv
  <1>4. RzpInv /\ RowInv
    BY DEF Init, RzpInv, RowInv, NoSub, NoRow, Charging, Unbilled
  <1>5. PassInv /\ CancelInv /\ PlanBacked
    BY DEF Init, PassInv, CancelInv, PlanBacked
  <1>6. CancelBacked
    BY DEF Init, CancelBacked, NoRow
  <1> QED
    BY <1>1, <1>3, <1>4, <1>5, <1>6 DEF IInv

(* Nothing is written where nothing changed.                               *)
LEMMA MergeNothing ==
    ASSUME NEW db \in Row, NEW r
    PROVE  Merge(db, r, r) = db
  BY DEF Merge, Row

(* Without a row the handlers do nothing.                                  *)
LEMMA HandledNothing ==
    ASSUME NEW e, NEW p
    PROVE  Handled(e, NoRow, p).row = NoRow /\ Handled(e, NoRow, p).plan = p
  BY DEF Handled, Same

(* What the commit of a webhook makes of its row, and of the plan.         *)
LEMMA EffectShape ==
    ASSUME IInv, NEW n \in Ids, NEW r \in Row, NEW p,
           ReadOf(r, sent[n].sub)
    PROVE  LET e == sent[n]
               w == Handled(e, r, p)
               m == Merge(local[e.sub], r, w.row)
           IN  /\ e \in Event /\ e.sub \in Subs
               /\ m \in Row
               /\ \/ m = local[e.sub]
                  \/ (local[e.sub] # NoRow /\ Shaped(m, e.sub))
               /\ m.sched => \/ local[e.sub].sched
                             \/ rzp[e.sub].status = "cancelled"
               /\ \/ w.plan \in {p, "free"}
                  \/ /\ w.plan \in Tiers
                     /\ e.sub \in paid
                     /\ (w.plan = "ltd") = (rzp[e.sub].tier = "ltd")
  <1> DEFINE e == sent[n]
             w == Handled(e, r, p)
             m == Merge(local[e.sub], r, w.row)
  <1>1. e \in Event /\ e.sub \in Subs
    BY SentEvent DEF IInv, Ids
  <1>2. EventBacked(e)
    BY DEF IInv, EventInv, Ids
  <1>3. local[e.sub] \in Row
    BY <1>1 DEF IInv, TypeOK
  <1> HIDE DEF e
  <1>4. CASE r = NoRow
    <2>1. w.row = r /\ w.plan = p
      BY <1>4, HandledNothing
    <2> HIDE DEF w
    <2>2. m = local[e.sub]
      BY <1>3, <2>1, MergeNothing
    <2> QED
      BY <1>1, <1>3, <2>1, <2>2 DEF w, e
  <1>5. CASE r # NoRow
    <2>1. local[e.sub] # NoRow /\ Shaped(r, e.sub)
      BY <1>5 DEF ReadOf, e
    <2>2. Shaped(local[e.sub], e.sub)
      BY <1>1, <2>1 DEF IInv, RowInv
    <2>3. /\ w.row \in Row
          /\ Shaped(w.row, e.sub)
          /\ \/ w.plan \in {p, "free"}
             \/ /\ w.plan \in Tiers
                /\ e.sub \in paid
                /\ (w.plan = "ltd") = (rzp[e.sub].tier = "ltd")
          /\ w.row.sched # r.sched => rzp[e.sub].status = "cancelled"
      BY <1>1, <1>2, <2>1, HandledShape DEF IInv
    <2> HIDE DEF w
    <2>4. m \in Row /\ Shaped(m, e.sub)
            /\ (m.sched => local[e.sub].sched \/ w.row.sched # r.sched)
      BY <1>3, <2>1, <2>2, <2>3, MergeShape
    <2> HIDE DEF m
    <2> QED
      BY <1>1, <2>1, <2>3, <2>4 DEF w, m, e
  <1> QED
    BY <1>4, <1>5

(* The commit of a webhook, whatever it read and whenever it read it.      *)
LEMMA EffectPreserves ==
    ASSUME IInv, NEW n \in Ids, NEW r \in Row, NEW p, NEW others,
           ReadOf(r, sent[n].sub), Effect(n, r, p, others),
           txns' \subseteq txns,
           UNCHANGED <<cancelling, pass, razorpay, now, faults>>
    PROVE  IInv'
  <1> USE DEF pass, razorpay
  <1> DEFINE e == sent[n]
             w == Handled(e, r, p)
             m == Merge(local[e.sub], r, w.row)
  <1>1. /\ e \in Event /\ e.sub \in Subs
        /\ m \in Row
        /\ m = local[e.sub] \/ (local[e.sub] # NoRow /\ Shaped(m, e.sub))
        /\ m.sched => local[e.sub].sched \/ rzp[e.sub].status = "cancelled"
        /\ \/ w.plan \in {p, "free"}
           \/ /\ w.plan \in Tiers
              /\ e.sub \in paid
              /\ (w.plan = "ltd") = (rzp[e.sub].tier = "ltd")
    BY EffectShape
  <1>2. local' = [local EXCEPT ![e.sub] = m]
    BY DEF Effect, Stored
  <1>3. plan' \in {plan, w.plan} /\ (plan' # plan => plan' = w.plan /\ w.plan # p)
    BY DEF Effect, MergePlan
  <1>4. /\ seen' = seen \cup {n}
        /\ payments' \subseteq payments \cup {n}
    BY DEF Effect
  <1> HIDE DEF e, w, m
  <1>5. local'[e.sub] = m /\ \A s \in Subs \ {e.sub} : local'[s] = local[s]
    BY <1>1, <1>2 DEF IInv, TypeOK
  <1>6. \A s \in Subs : local[s] # NoRow => local'[s] # NoRow
    BY <1>1, <1>5, ShapedIsRow
  <1>7. \/ plan' \in {plan, "free"}
        \/ /\ plan' \in Tiers
           /\ e.sub \in paid
           /\ (plan' = "ltd") = (rzp[e.sub].tier = "ltd")
    BY <1>1, <1>3
  <1>11. TypeOK'
    <2>1. local' \in [Subs -> Row]
      BY <1>1, <1>2 DEF IInv, TypeOK
    <2>2. plan' \in Plans
      BY <1>7 DEF IInv, TypeOK, Plans
    <2>3. seen' \subseteq Ids' /\ payments' \subseteq Ids'
      BY <1>4 DEF IInv, TypeOK, Ids
    <2> QED
      BY <2>1, <2>2, <2>3 DEF IInv, TypeOK
  <1>12. RzpInv'
    BY DEF IInv, RzpInv
  <1>13. RowInv'
    <2> SUFFICES ASSUME NEW s \in Subs
                 PROVE  (/\ local[s] = NoRow \/ Shaped(local[s], s)
                         /\ local[s] # NoRow => rzp[s] # NoSub)'
      BY DEF RowInv
    <2>1. rzp' = rzp /\ paid' = paid
      OBVIOUS
    <2>2. /\ local[s] = NoRow \/ Shaped(local[s], s)
          /\ local[s] # NoRow => rzp[s] # NoSub
      BY DEF IInv, RowInv
    <2>3. CASE local'[s] = local[s]
      BY <2>1, <2>2, <2>3 DEF Shaped
    <2>4. CASE local'[s] # local[s]
      <3>1. s = e.sub /\ local[s] # NoRow /\ Shaped(m, s) /\ local'[s] = m
        BY <1>1, <1>5, <2>4
      <3> QED
        BY <2>1, <2>2, <3>1 DEF Shaped
    <2> QED
      BY <2>3, <2>4
  <1>14. EventInv'
    BY DEF IInv, EventInv, EventBacked
  <1>15. TxnInv'
    <2> SUFFICES ASSUME NEW t \in txns
                 PROVE  (t.id \in Ids /\ ReadOf(t.row, sent[t.id].sub))'
      BY DEF TxnInv
    <2>1. t.id \in 1 .. Len(sent) /\ ReadOf(t.row, sent[t.id].sub)
      BY DEF IInv, TxnInv, Ids
    <2>2. sent[t.id].sub \in Subs
      BY <2>1, SentEvent DEF IInv
    <2> QED
      BY <1>6, <2>1, <2>2 DEF ReadOf, Shaped, Ids
  <1>16. PassInv'
    BY <1>6 DEF IInv, PassInv, TypeOK, Shaped
  <1>17. CancelInv'
    BY <1>6 DEF IInv, CancelInv, TypeOK
  <1>18. PlanBacked'
    BY <1>1, <1>7 DEF IInv, PlanBacked
  <1>19. CancelBacked'
    BY <1>1, <1>5 DEF IInv, CancelBacked
  <1> QED
    BY <1>11, <1>12, <1>13, <1>14, <1>15, <1>16, <1>17, <1>18, <1>19
    DEF IInv

(* A step of Razorpay on one subscription, with the webhooks it emits.     *)
LEMMA RzpPreserves ==
    ASSUME IInv, NEW s \in Subs,
           rzp' \in [Subs -> [status : RzpStatus, tier : Tiers \cup {"none"},
                             end : 0 .. MaxNow, ending : BOOLEAN]],
           \A o \in Subs \ {s} : rzp'[o] = rzp[o],
           rzp[s] # NoSub,
           rzp'[s].status # "none",
           rzp'[s].tier \in Tiers,
           (rzp'[s].tier = "ltd") = (rzp[s].tier = "ltd"),
           rzp'[s].ending = rzp[s].ending,
           rzp[s].status = "cancelled" => rzp'[s].status = "cancelled",
           paid' \in {paid, paid \cup {s}},
           rzp'[s].status \in Charging => s \in paid',
           rzp'[s].status \notin Unbilled => rzp[s].tier # "ltd",
           rzp'[s].status \in Unbilled => rzp'[s].end = 0,
           rzp[s].end <= rzp'[s].end,
           rzp'[s].end <= now + 1,
           sent' \in Seq(Event),
           Len(sent) <= Len(sent'),
           Len(sent') <= MaxEvents,
           \A n \in 1 .. Len(sent) : sent'[n] = sent[n],
           \A n \in Len(sent) + 1 .. Len(sent') :
             LET e == sent'[n]
             IN  /\ e.sub = s
                 /\ e.type = "activated" => s \in paid' /\ rzp[s].tier # "ltd"
                 /\ e.type = "captured" => s \in paid'
                 /\ e.type = "updated" =>
                      s \in paid' /\ rzp[s].tier # "ltd" /\ e.tier # "ltd"
                 /\ e.type = "cancelled" => rzp'[s].status = "cancelled"
                 /\ e.type \notin OfOrders => rzp[s].tier # "ltd"
                 /\ e.end <= rzp'[s].end,
           UNCHANGED <<database, txns, cancelling, pass, now, faults>>
    PROVE  IInv'
  <1> USE DEF database, pass
  <1>1. Len(sent) \in Nat /\ Len(sent') \in Nat
    BY DEF IInv, TypeOK
  <1>2. rzp'[s] # NoSub
    BY DEF NoSub
  <1>3. paid \subseteq paid' /\ paid' \subseteq Subs
    BY DEF IInv, TypeOK
  <1>4. \A x \in Subs : (rzp'[x].tier = "ltd") = (rzp[x].tier = "ltd")
    OBVIOUS
  <1>5. \A x \in Subs : /\ rzp[x].status = "cancelled" => rzp'[x].status = "cancelled"
                        /\ rzp'[x].ending = rzp[x].ending
    OBVIOUS
  <1>6. rzp \in RzpRows /\ rzp' \in RzpRows
    BY DEF IInv, TypeOK, RzpRows
  <1>7. \A x \in Subs : rzp[x].end \in Int /\ rzp'[x].end \in Int
    BY <1>6, BillingAssumption DEF RzpRows
  <1>8. \A x \in Subs : rzp[x].end <= rzp'[x].end
    BY <1>7
  <1>9. \A x \in Subs, r \in Row : Shaped(r, x) => Shaped(r, x)'
    BY <1>3, <1>4, <1>6, <1>8, ShapedKept
  <1>10. \A n \in Ids : n \in Ids' /\ sent'[n] = sent[n] /\ sent[n].sub \in Subs
    BY <1>1, SentEvent DEF IInv, Ids
  <1>11. TypeOK'
    <2>1. seen' \subseteq Ids' /\ payments' \subseteq Ids'
      BY <1>10 DEF IInv, TypeOK
    <2> QED
      BY <1>3, <2>1 DEF IInv, TypeOK
  <1>12. RzpInv'
    BY <1>2, <1>3 DEF IInv, RzpInv
  <1>13. RowInv'
    <2> SUFFICES ASSUME NEW x \in Subs
                 PROVE  (/\ local[x] = NoRow \/ Shaped(local[x], x)
                         /\ local[x] # NoRow => rzp[x] # NoSub)'
      BY DEF RowInv
    <2>1. local' = local /\ local[x] \in Row
      BY DEF IInv, TypeOK
    <2>2. /\ local[x] = NoRow \/ Shaped(local[x], x)
          /\ local[x] # NoRow => rzp[x] # NoSub
      BY DEF IInv, RowInv
    <2>3. Shaped(local[x], x) => Shaped(local[x], x)'
      <3>1. PICK r \in Row : r = local[x]
        BY <2>1
      <3>2. Shaped(r, x) => Shaped(r, x)'
        BY <1>9
      <3> QED
        BY <2>1, <3>1, <3>2 DEF Shaped
    <2> QED
      BY <1>2, <2>1, <2>2, <2>3
  <1>14. EventInv'
    <2> SUFFICES ASSUME NEW n \in 1 .. Len(sent')
                 PROVE  EventBacked(sent[n])'
      BY DEF EventInv
    <2>1. CASE n \in 1 .. Len(sent)
      <3>1. sent'[n] = sent[n] /\ EventBacked(sent[n]) /\ sent[n].sub \in Subs
        BY <1>10, <2>1 DEF IInv, EventInv, Ids
      <3>2. sent[n].end \in Int
        <4>1. sent[n] \in Event
          BY <2>1, SentEvent DEF IInv
        <4> QED
          BY <4>1, BillingAssumption DEF Event
      <3>3. sent[n].end <= rzp'[sent[n].sub].end
        BY <3>1, <3>2, <1>7, <1>8 DEF EventBacked
      <3> QED
        BY <3>1, <3>3, <1>2, <1>3, <1>4, <1>5 DEF EventBacked
    <2>2. CASE n \in Len(sent) + 1 .. Len(sent')
      BY <2>2, <1>2, <1>4 DEF EventBacked
    <2> QED
      BY <1>1, <2>1, <2>2
  <1>15. TxnInv'
    <2> SUFFICES ASSUME NEW t \in txns
                 PROVE  (t.id \in Ids /\ ReadOf(t.row, sent[t.id].sub))'
      BY DEF TxnInv
    <2>1. PICK r \in Row : r = t.row
      BY DEF IInv, TypeOK, Txn
    <2>2. t.id \in Ids /\ ReadOf(r, sent[t.id].sub)
      BY <2>1 DEF IInv, TxnInv
    <2>3. PICK x \in Subs : x = sent[t.id].sub /\ x = sent'[t.id].sub
      BY <2>2, <1>10
    <2>4. Shaped(r, x) => Shaped(r, x)'
      BY <1>9
    <2>5. ReadOf(r, x)'
      BY <2>2, <2>3, <2>4 DEF ReadOf
    <2> QED
      BY <2>1, <2>2, <2>3, <2>5, <1>10
  <1>16. PassInv'
    <2>1. UNCHANGED <<local, phase, todo, mem, got>> /\ todo \subseteq Subs
            /\ got.end \in Int
      BY BillingAssumption DEF IInv, TypeOK
    <2>2. ASSUME phase = "set1", NEW x \in todo
          PROVE  (local[x] # NoRow /\ Shaped(mem[x], x) /\ mem[x].tier # "ltd")'
      <3>1. local[x] # NoRow /\ Shaped(mem[x], x) /\ mem[x].tier # "ltd"
        BY <2>2 DEF IInv, PassInv
      <3>2. PICK r \in Row : r = mem[x]
        BY <2>1 DEF IInv, TypeOK
      <3>3. Shaped(r, x)'
        BY <2>1, <3>1, <3>2, <1>9
      <3> QED
        BY <2>1, <3>1, <3>2, <3>3
    <2>3. ASSUME phase = "set1", NEW x \in todo, \A o \in todo : x <= o
          PROVE  /\ got.status \in {"active", "halted"} => x \in paid'
                 /\ got.end <= rzp'[x].end
      <3>1. /\ got.status \in {"active", "halted"} => x \in paid
            /\ got.end <= rzp[x].end
        BY <2>3 DEF IInv, PassInv
      <3> QED
        BY <2>1, <3>1, <1>3, <1>7, <1>8
    <2>4. phase = "idle" => got = NoAnswer
      BY DEF IInv, PassInv
    <2> QED
      BY <2>1, <2>2, <2>3, <2>4 DEF PassInv
  <1>17. CancelInv' /\ CancelBacked'
    BY <1>5 DEF IInv, CancelInv, CancelBacked, TypeOK
  <1>18. PlanBacked'
    BY <1>3, <1>4 DEF IInv, PlanBacked, TypeOK
  <1> QED
    BY <1>11, <1>12, <1>13, <1>14, <1>15, <1>16, <1>17, <1>18 DEF IInv

(* The form all but RzpUpdate and RzpRefund have.                          *)
LEMMA MovesPreserves ==
    ASSUME IInv, NEW s \in Subs, NEW from \in SUBSET (Live \ {"none"}),
           NEW to \in RzpStatus \ {"none"}, NEW end \in 0 .. MaxNow,
           NEW types \in Seq(EventType),
           Moves(s, from, to, end, types),
           paid' \in {paid, paid \cup {s}},
           to \in Charging => s \in paid',
           to \notin Unbilled => rzp[s].tier # "ltd",
           to \in Unbilled => end = 0,
           rzp[s].end <= end,
           end <= now + 1,
           \A i \in 1 .. Len(types) :
             /\ types[i] = "activated" => s \in paid' /\ rzp[s].tier # "ltd"
             /\ types[i] = "captured" => s \in paid'
             /\ types[i] # "updated"
             /\ types[i] = "cancelled" => to = "cancelled"
             /\ types[i] \notin OfOrders => rzp[s].tier # "ltd",
           UNCHANGED <<database, txns, cancelling, pass, now, faults>>
    PROVE  IInv'
  <1>1. /\ rzp' = [rzp EXCEPT ![s].status = to, ![s].end = end]
        /\ rzp[s].status \in Live
        /\ Emit(s, types, end, rzp[s].tier, 0)
    BY DEF Moves
  <1>2. rzp[s] # NoSub /\ rzp[s].tier \in Tiers
    BY <1>1 DEF IInv, RzpInv, NoSub, Live
  <1>3. TypeOK /\ 0 \in 0 .. MaxEvents /\ Emit(s, types, end, rzp[s].tier, 0)
    BY <1>1, BillingAssumption DEF IInv
  <1>4. /\ sent' \in Seq(Event)
        /\ Len(sent') <= MaxEvents
        /\ Len(sent') = Len(sent) + Len(types)
        /\ \A n \in 1 .. Len(sent) : sent'[n] = sent[n]
        /\ \A n \in Len(sent) + 1 .. Len(sent') :
             /\ sent'[n].sub = s
             /\ sent'[n].tier = rzp[s].tier
             /\ sent'[n].end = end
             /\ sent'[n].type = types[n - Len(sent)]
    BY <1>2, <1>3, EmitAppends
  <1>5. Len(sent) \in Nat /\ Len(types) \in Nat
    BY DEF IInv, TypeOK
  <1>6. rzp[s] \in [status : RzpStatus, tier : Tiers \cup {"none"},
                    end : 0 .. MaxNow, ending : BOOLEAN]
    BY DEF IInv, TypeOK
  <1>7. /\ rzp'[s].status = to /\ rzp'[s].tier = rzp[s].tier
        /\ rzp'[s].end = end
        /\ rzp'[s].ending = rzp[s].ending
        /\ \A o \in Subs \ {s} : rzp'[o] = rzp[o]
        /\ rzp' \in [Subs -> [status : RzpStatus, tier : Tiers \cup {"none"},
                             end : 0 .. MaxNow, ending : BOOLEAN]]
    BY <1>1, <1>6 DEF IInv, TypeOK
  <1>8. \A n \in Len(sent) + 1 .. Len(sent') :
          LET e == sent'[n]
          IN  /\ e.sub = s
              /\ e.type = "activated" => s \in paid' /\ rzp[s].tier # "ltd"
              /\ e.type = "captured" => s \in paid'
              /\ e.type = "updated" =>
                   s \in paid' /\ rzp[s].tier # "ltd" /\ e.tier # "ltd"
              /\ e.type = "cancelled" => rzp'[s].status = "cancelled"
              /\ e.type \notin OfOrders => rzp[s].tier # "ltd"
              /\ e.end <= rzp'[s].end
    <2> SUFFICES ASSUME NEW n \in Len(sent) + 1 .. Len(sent')
                 PROVE  LET e == sent'[n]
                        IN  /\ e.sub = s
                            /\ e.type = "activated" =>
                                 s \in paid' /\ rzp[s].tier # "ltd"
                            /\ e.type = "captured" => s \in paid'
                            /\ e.type # "updated"
                            /\ e.type = "cancelled" =>
                                 rzp'[s].status = "cancelled"
                            /\ e.type \notin OfOrders => rzp[s].tier # "ltd"
                            /\ e.end <= rzp'[s].end
      OBVIOUS
    <2>1. n - Len(sent) \in 1 .. Len(types)
      BY <1>4, <1>5
    <2>2. sent'[n].end <= rzp'[s].end
      BY <1>4, <1>7
    <2> QED
      BY <1>4, <1>7, <2>1, <2>2
  <1>9. rzp[s].status # "cancelled"
    BY <1>1 DEF Live
  <1>10. /\ rzp'[s].status # "none"
         /\ rzp'[s].status \in Charging => s \in paid'
         /\ rzp'[s].status \notin Unbilled => rzp[s].tier # "ltd"
         /\ rzp'[s].status \in Unbilled => rzp'[s].end = 0
         /\ rzp[s].end <= rzp'[s].end
         /\ rzp'[s].end <= now + 1
         /\ rzp'[s].tier \in Tiers
         /\ rzp[s].status = "cancelled" => rzp'[s].status = "cancelled"
         /\ Len(sent) <= Len(sent')
    BY <1>2, <1>4, <1>5, <1>7, <1>9
  <1> QED
    BY <1>1, <1>2, <1>4, <1>7, <1>8, <1>10, RzpPreserves

LEMMA RzpStepPreserves ==
    ASSUME IInv, NEW s \in Subs, RzpStep(s)
    PROVE  IInv'
  <1>0. /\ rzp[s].end \in 0 .. MaxNow /\ now \in 0 .. MaxNow /\ MaxNow \in Nat
        /\ rzp[s].status \in Charging => s \in paid
        /\ rzp[s].status \notin Unbilled => rzp[s].tier # "ltd"
        /\ rzp[s].status \in Unbilled => rzp[s].end = 0
        /\ rzp[s].end <= now + 1
    BY BillingAssumption DEF IInv, TypeOK, RzpInv
  <1> USE DEF Charging, Unbilled
  <1>1. ASSUME RzpAuthenticate(s) PROVE IInv'
    <2> DEFINE from == {"created"}
               types == <<"authenticated">>
    <2>1. Moves(s, from, "authenticated", 0, types)
      BY <1>1 DEF RzpAuthenticate
    <2>2. types \in Seq(EventType)
      BY DEF EventType
    <2>3. \A i \in 1 .. Len(types) : types[i] \in {"authenticated"}
      OBVIOUS
    <2>4. from \in SUBSET (Live \ {"none"}) /\ "authenticated" \in RzpStatus \ {"none"}
      BY DEF Live, RzpStatus
    <2>5. 0 \in 0 .. MaxNow
      BY <1>0, <1>1 DEF RzpAuthenticate
    <2>6. paid' = paid /\ rzp[s].tier # "ltd"
            /\ rzp[s].end <= 0 /\ 0 <= now + 1
      BY <1>0, <1>1 DEF RzpAuthenticate, Recurring, Moves
    <2>7. UNCHANGED <<database, txns, cancelling, pass, now, faults>>
      BY <1>1 DEF RzpAuthenticate, RzpUnchanged
    <2> HIDE DEF from, types
    <2> QED
      BY <2>1, <2>2, <2>3, <2>4, <2>5, <2>6, <2>7, MovesPreserves
  <1>2. ASSUME RzpActivate(s) PROVE IInv'
    <2> DEFINE from == {"created", "authenticated", "pending", "halted"}
               types == <<"activated", "charged">>
    <2>1. Moves(s, from, "active", now + 1, types)
      BY <1>2 DEF RzpActivate
    <2>2. types \in Seq(EventType)
      BY DEF EventType
    <2>3. \A i \in 1 .. Len(types) : types[i] \in {"activated", "charged"}
      OBVIOUS
    <2>4. from \in SUBSET (Live \ {"none"}) /\ "active" \in RzpStatus \ {"none"}
      BY DEF Live, RzpStatus
    <2>5. now + 1 \in 0 .. MaxNow
      BY <1>0, <1>2 DEF RzpActivate
    <2>6. paid' = paid \cup {s} /\ rzp[s].tier # "ltd"
            /\ rzp[s].end <= now + 1 /\ now + 1 <= now + 1
      BY <1>0, <1>2 DEF RzpActivate, Recurring, Moves
    <2>7. UNCHANGED <<database, txns, cancelling, pass, now, faults>>
      BY <1>2 DEF RzpActivate, RzpUnchanged
    <2> HIDE DEF from, types
    <2> QED
      BY <2>1, <2>2, <2>3, <2>4, <2>5, <2>6, <2>7, MovesPreserves
  <1>3. ASSUME RzpRenew(s) PROVE IInv'
    <2> DEFINE from == {"active"}
               types == <<"charged">>
    <2>1. Moves(s, from, "active", now + 1, types)
      BY <1>3 DEF RzpRenew
    <2>2. types \in Seq(EventType)
      BY DEF EventType
    <2>3. \A i \in 1 .. Len(types) : types[i] \in {"charged"}
      OBVIOUS
    <2>4. from \in SUBSET (Live \ {"none"}) /\ "active" \in RzpStatus \ {"none"}
      BY DEF Live, RzpStatus
    <2>5. now + 1 \in 0 .. MaxNow
      BY <1>0, <1>3 DEF RzpRenew
    <2>6. paid' = paid /\ s \in paid /\ rzp[s].tier # "ltd"
            /\ rzp[s].end <= now + 1 /\ now + 1 <= now + 1
      BY <1>0, <1>3 DEF RzpRenew, Recurring, Moves
    <2>7. UNCHANGED <<database, txns, cancelling, pass, now, faults>>
      BY <1>3 DEF RzpRenew, RzpUnchanged
    <2> HIDE DEF from, types
    <2> QED
      BY <2>1, <2>2, <2>3, <2>4, <2>5, <2>6, <2>7, MovesPreserves
  <1>4. ASSUME RzpPending(s) PROVE IInv'
    <2> DEFINE from == {"active"}
               types == <<"pending">>
    <2>1. Moves(s, from, "pending", rzp[s].end, types)
      BY <1>4 DEF RzpPending
    <2>2. types \in Seq(EventType)
      BY DEF EventType
    <2>3. \A i \in 1 .. Len(types) : types[i] \in {"pending"}
      OBVIOUS
    <2>4. from \in SUBSET (Live \ {"none"}) /\ "pending" \in RzpStatus \ {"none"}
      BY DEF Live, RzpStatus
    <2>5. rzp[s].end \in 0 .. MaxNow
      BY <1>0, <1>4 DEF RzpPending
    <2>6. paid' = paid /\ s \in paid /\ rzp[s].tier # "ltd"
            /\ rzp[s].end <= rzp[s].end /\ rzp[s].end <= now + 1
      BY <1>0, <1>4 DEF RzpPending, Recurring, Moves
    <2>7. UNCHANGED <<database, txns, cancelling, pass, now, faults>>
      BY <1>4 DEF RzpPending, RzpUnchanged
    <2> HIDE DEF from, types
    <2> QED
      BY <2>1, <2>2, <2>3, <2>4, <2>5, <2>6, <2>7, MovesPreserves
  <1>5. ASSUME RzpHalt(s) PROVE IInv'
    <2> DEFINE from == {"pending"}
               types == <<"halted">>
    <2>1. Moves(s, from, "halted", rzp[s].end, types)
      BY <1>5 DEF RzpHalt
    <2>2. types \in Seq(EventType)
      BY DEF EventType
    <2>3. \A i \in 1 .. Len(types) : types[i] \in {"halted"}
      OBVIOUS
    <2>4. from \in SUBSET (Live \ {"none"}) /\ "halted" \in RzpStatus \ {"none"}
      BY DEF Live, RzpStatus
    <2>5. rzp[s].end \in 0 .. MaxNow
      BY <1>0, <1>5 DEF RzpHalt
    <2>6. paid' = paid /\ s \in paid /\ rzp[s].tier # "ltd"
            /\ rzp[s].end <= rzp[s].end /\ rzp[s].end <= now + 1
      BY <1>0, <1>5 DEF RzpHalt, Recurring, Moves
    <2>7. UNCHANGED <<database, txns, cancelling, pass, now, faults>>
      BY <1>5 DEF RzpHalt, RzpUnchanged
    <2> HIDE DEF from, types
    <2> QED
      BY <2>1, <2>2, <2>3, <2>4, <2>5, <2>6, <2>7, MovesPreserves
  <1>6. ASSUME RzpCancel(s) PROVE IInv'
    <2> DEFINE from == Live
               types == <<"cancelled">>
    <2>1. Moves(s, from, "cancelled", rzp[s].end, types)
      BY <1>6 DEF RzpCancel
    <2>2. types \in Seq(EventType)
      BY DEF EventType
    <2>3. \A i \in 1 .. Len(types) : types[i] \in {"cancelled"}
      OBVIOUS
    <2>4. from \in SUBSET (Live \ {"none"}) /\ "cancelled" \in RzpStatus \ {"none"}
      BY DEF Live, RzpStatus
    <2>5. rzp[s].end \in 0 .. MaxNow
      BY <1>0, <1>6 DEF RzpCancel
    <2>6. paid' = paid /\ rzp[s].tier # "ltd"
            /\ rzp[s].end <= rzp[s].end /\ rzp[s].end <= now + 1
      BY <1>0, <1>6 DEF RzpCancel, Recurring, Moves
    <2>7. UNCHANGED <<database, txns, cancelling, pass, now, faults>>
      BY <1>6 DEF RzpCancel, RzpUnchanged
    <2> HIDE DEF from, types
    <2> QED
      BY <2>1, <2>2, <2>3, <2>4, <2>5, <2>6, <2>7, MovesPreserves
  <1>7. ASSUME RzpComplete(s) PROVE IInv'
    <2> DEFINE from == {"active"}
               types == <<"completed">>
    <2>1. Moves(s, from, "completed", rzp[s].end, types)
      BY <1>7 DEF RzpComplete
    <2>2. types \in Seq(EventType)
      BY DEF EventType
    <2>3. \A i \in 1 .. Len(types) : types[i] \in {"completed"}
      OBVIOUS
    <2>4. from \in SUBSET (Live \ {"none"}) /\ "completed" \in RzpStatus \ {"none"}
      BY DEF Live, RzpStatus
    <2>5. rzp[s].end \in 0 .. MaxNow
      BY <1>0, <1>7 DEF RzpComplete
    <2>6. paid' = paid /\ rzp[s].tier # "ltd"
            /\ rzp[s].end <= rzp[s].end /\ rzp[s].end <= now + 1
      BY <1>0, <1>7 DEF RzpComplete, Recurring, Moves
    <2>7. UNCHANGED <<database, txns, cancelling, pass, now, faults>>
      BY <1>7 DEF RzpComplete, RzpUnchanged
    <2> HIDE DEF from, types
    <2> QED
      BY <2>1, <2>2, <2>3, <2>4, <2>5, <2>6, <2>7, MovesPreserves
  <1>8. ASSUME RzpCapture(s) PROVE IInv'
    <2> DEFINE from == {"created"}
               types == <<"captured">>
    <2>1. Moves(s, from, "paid", 0, types)
      BY <1>8 DEF RzpCapture
    <2>2. types \in Seq(EventType)
      BY DEF EventType
    <2>3. \A i \in 1 .. Len(types) : types[i] \in {"captured"}
      OBVIOUS
    <2>4. from \in SUBSET (Live \ {"none"}) /\ "paid" \in RzpStatus \ {"none"}
      BY DEF Live, RzpStatus
    <2>5. 0 \in 0 .. MaxNow
      BY <1>0, <1>8 DEF RzpCapture
    <2>6. paid' = paid \cup {s} /\ rzp[s].tier = "ltd"
            /\ rzp[s].end <= 0 /\ 0 <= now + 1 /\ "captured" \in OfOrders
      BY <1>0, <1>8 DEF RzpCapture, Recurring, Moves, OfOrders
    <2>7. UNCHANGED <<database, txns, cancelling, pass, now, faults>>
      BY <1>8 DEF RzpCapture, RzpUnchanged
    <2> HIDE DEF from, types
    <2> QED
      BY <2>1, <2>2, <2>3, <2>4, <2>5, <2>6, <2>7, MovesPreserves
  <1>9. ASSUME RzpPaymentFails(s) PROVE IInv'
    <2> DEFINE from == {"created", "pending"}
               types == <<"failed">>
    <2>1. Moves(s, from, rzp[s].status, rzp[s].end, types)
      BY <1>9 DEF RzpPaymentFails
    <2>2. types \in Seq(EventType)
      BY DEF EventType
    <2>3. \A i \in 1 .. Len(types) : types[i] \in {"failed"}
      OBVIOUS
    <2>4. from \in SUBSET (Live \ {"none"}) /\ rzp[s].status \in RzpStatus \ {"none"}
      BY <1>0, <1>9 DEF Live, RzpStatus, RzpPaymentFails, Moves
    <2>5. rzp[s].end \in 0 .. MaxNow
      BY <1>0, <1>9 DEF RzpPaymentFails
    <2>6. paid' = paid /\ "failed" \in OfOrders /\ (rzp[s].status \in Charging => s \in paid)
            /\ (rzp[s].status \notin Unbilled => rzp[s].tier # "ltd")
            /\ (rzp[s].status \in Unbilled => rzp[s].end = 0)
            /\ rzp[s].end <= rzp[s].end /\ rzp[s].end <= now + 1
      BY <1>0, <1>9 DEF RzpPaymentFails, Recurring, Moves, OfOrders
    <2>7. UNCHANGED <<database, txns, cancelling, pass, now, faults>>
      BY <1>9 DEF RzpPaymentFails, RzpUnchanged
    <2> HIDE DEF from, types
    <2> QED
      BY <2>1, <2>2, <2>3, <2>4, <2>5, <2>6, <2>7, MovesPreserves
  <1>11. ASSUME RzpCaptureCharge(s) PROVE IInv'
    <2> DEFINE from == {"active"}
               types == <<"captured">>
    <2>1. Moves(s, from, "active", rzp[s].end, types)
      BY <1>11 DEF RzpCaptureCharge
    <2>2. types \in Seq(EventType)
      BY DEF EventType
    <2>3. \A i \in 1 .. Len(types) : types[i] \in {"captured"}
      OBVIOUS
    <2>4. from \in SUBSET (Live \ {"none"}) /\ "active" \in RzpStatus \ {"none"}
      BY DEF Live, RzpStatus
    <2>5. rzp[s].end \in 0 .. MaxNow
      BY <1>0, <1>11 DEF RzpCaptureCharge
    <2>6. paid' = paid /\ s \in paid /\ rzp[s].tier # "ltd" /\ "captured" \in OfOrders
            /\ rzp[s].end <= rzp[s].end /\ rzp[s].end <= now + 1
      BY <1>0, <1>11 DEF RzpCaptureCharge, Recurring, Moves, OfOrders
    <2>7. UNCHANGED <<database, txns, cancelling, pass, now, faults>>
      BY <1>11 DEF RzpCaptureCharge, RzpUnchanged
    <2> HIDE DEF from, types
    <2> QED
      BY <2>1, <2>2, <2>3, <2>4, <2>5, <2>6, <2>7, MovesPreserves
  <1>12. ASSUME RzpExpire(s) PROVE IInv'
    <2> DEFINE from == {"created"}
               types == <<>>
    <2>1. Moves(s, from, "expired", 0, types)
      BY <1>12 DEF RzpExpire
    <2>2. types \in Seq(EventType)
      BY DEF EventType
    <2>3. 1 .. Len(types) = {}
      OBVIOUS
    <2>4. from \in SUBSET (Live \ {"none"}) /\ "expired" \in RzpStatus \ {"none"}
      BY DEF Live, RzpStatus
    <2>5. 0 \in 0 .. MaxNow
      BY <1>0, <1>12 DEF RzpExpire
    <2>6. paid' = paid /\ rzp[s].tier # "ltd"
            /\ rzp[s].end <= 0 /\ 0 <= now + 1
      BY <1>0, <1>12 DEF RzpExpire, Recurring, Moves
    <2>7. UNCHANGED <<database, txns, cancelling, pass, now, faults>>
      BY <1>12 DEF RzpExpire, RzpUnchanged
    <2> HIDE DEF from, types
    <2> QED
      BY <2>1, <2>2, <2>3, <2>4, <2>5, <2>6, <2>7, MovesPreserves
  <1>13. ASSUME RzpPause(s) PROVE IInv'
    <2> DEFINE from == {"active"}
               types == <<>>
    <2>1. Moves(s, from, "paused", rzp[s].end, types)
      BY <1>13 DEF RzpPause
    <2>2. types \in Seq(EventType)
      BY DEF EventType
    <2>3. 1 .. Len(types) = {}
      OBVIOUS
    <2>4. from \in SUBSET (Live \ {"none"}) /\ "paused" \in RzpStatus \ {"none"}
      BY DEF Live, RzpStatus
    <2>5. rzp[s].end \in 0 .. MaxNow
      BY <1>0, <1>13 DEF RzpPause
    <2>6. paid' = paid /\ s \in paid /\ rzp[s].tier # "ltd"
            /\ rzp[s].end <= rzp[s].end /\ rzp[s].end <= now + 1
      BY <1>0, <1>13 DEF RzpPause, Recurring, Moves
    <2>7. UNCHANGED <<database, txns, cancelling, pass, now, faults>>
      BY <1>13 DEF RzpPause, RzpUnchanged
    <2> HIDE DEF from, types
    <2> QED
      BY <2>1, <2>2, <2>3, <2>4, <2>5, <2>6, <2>7, MovesPreserves
  <1>14. ASSUME RzpResume(s) PROVE IInv'
    <2> DEFINE from == {"paused"}
               types == <<>>
    <2>1. Moves(s, from, "active", rzp[s].end, types)
      BY <1>14 DEF RzpResume
    <2>2. types \in Seq(EventType)
      BY DEF EventType
    <2>3. 1 .. Len(types) = {}
      OBVIOUS
    <2>4. from \in SUBSET (Live \ {"none"}) /\ "active" \in RzpStatus \ {"none"}
      BY DEF Live, RzpStatus
    <2>5. rzp[s].end \in 0 .. MaxNow
      BY <1>0, <1>14 DEF RzpResume
    <2>6. paid' = paid /\ s \in paid /\ rzp[s].tier # "ltd"
            /\ rzp[s].end <= rzp[s].end /\ rzp[s].end <= now + 1
      BY <1>0, <1>14 DEF RzpResume, Recurring, Moves
    <2>7. UNCHANGED <<database, txns, cancelling, pass, now, faults>>
      BY <1>14 DEF RzpResume, RzpUnchanged
    <2> HIDE DEF from, types
    <2> QED
      BY <2>1, <2>2, <2>3, <2>4, <2>5, <2>6, <2>7, MovesPreserves
  <1>10. ASSUME NEW t \in Tiers, RzpUpdate(s, t) PROVE IInv'
    <2>1. /\ rzp' = [rzp EXCEPT ![s].tier = t]
          /\ rzp[s].status = "active" /\ rzp[s].tier # "ltd" /\ t # "ltd"
          /\ Emit(s, <<"updated">>, rzp[s].end, t, 0)
          /\ paid' = paid
          /\ UNCHANGED <<database, txns, cancelling, pass, now, faults>>
      BY <1>10 DEF RzpUpdate, Recurring, RzpUnchanged
    <2>3. /\ sent' \in Seq(Event) /\ Len(sent') <= MaxEvents
          /\ Len(sent') = Len(sent) + 1
          /\ \A n \in 1 .. Len(sent) : sent'[n] = sent[n]
          /\ \A n \in Len(sent) + 1 .. Len(sent') :
               sent'[n].sub = s /\ sent'[n].tier = t /\ sent'[n].end = rzp[s].end
          /\ \A n \in Len(sent) + 1 .. Len(sent') : sent'[n].type = "updated"
      <3> DEFINE types == <<"updated">>
      <3>1. types \in Seq(EventType) /\ Len(types) = 1 /\ types[1] = "updated"
        BY DEF EventType
      <3>2. 0 \in 0 .. MaxEvents
        BY BillingAssumption
      <3>3. Emit(s, types, rzp[s].end, t, 0)
        BY <2>1
      <3>4. Len(sent) \in Nat
        BY DEF IInv, TypeOK
      <3> HIDE DEF types
      <3>5. /\ sent' \in Seq(Event) /\ Len(sent') <= MaxEvents
            /\ Len(sent') = Len(sent) + 1
            /\ \A n \in 1 .. Len(sent) : sent'[n] = sent[n]
            /\ \A n \in Len(sent) + 1 .. Len(sent') :
                 /\ sent'[n].sub = s
                 /\ sent'[n].tier = t
                 /\ sent'[n].end = rzp[s].end
                 /\ sent'[n].type = types[n - Len(sent)]
        <4>1. TypeOK
          BY DEF IInv
        <4>2. PICK z \in 0 .. MaxNow : z = rzp[s].end
          BY <1>0
        <4>3. PICK k \in 0 .. MaxEvents : k = 0
          BY <3>2
        <4>4. types \in Seq(EventType)
          BY <3>1
        <4>5. Emit(s, types, z, t, k)
          BY <3>3, <4>2, <4>3
        <4>6. /\ sent' \in Seq(Event)
              /\ Len(sent') <= MaxEvents
              /\ Len(sent') = Len(sent) + Len(types)
              /\ \A n \in 1 .. Len(sent) : sent'[n] = sent[n]
              /\ \A n \in Len(sent) + 1 .. Len(sent') :
                   /\ sent'[n].sub = s
                   /\ sent'[n].tier = t
                   /\ sent'[n].end = z
                   /\ sent'[n].type = types[n - Len(sent)]
          BY <4>1, <4>4, <4>5, EmitAppends
        <4> QED
          BY <3>1, <4>2, <4>6
      <3>6. \A n \in Len(sent) + 1 .. Len(sent') : n - Len(sent) = 1
        BY <3>4, <3>5
      <3> QED
        BY <3>1, <3>5, <3>6
    <2>4. Len(sent) \in Nat
      BY DEF IInv, TypeOK
    <2>6. s \in paid /\ rzp[s].end <= now + 1 /\ rzp[s].end <= rzp[s].end
      BY <1>0, <2>1
    <2>7. rzp[s] # NoSub
      BY <2>1 DEF NoSub
    <2>8. rzp[s] \in [status : RzpStatus, tier : Tiers \cup {"none"},
                      end : 0 .. MaxNow, ending : BOOLEAN]
      BY DEF IInv, TypeOK
    <2>9. /\ rzp'[s].status = "active" /\ rzp'[s].tier = t
          /\ rzp'[s].end = rzp[s].end
          /\ rzp'[s].ending = rzp[s].ending
          /\ \A o \in Subs \ {s} : rzp'[o] = rzp[o]
          /\ rzp' \in [Subs -> [status : RzpStatus, tier : Tiers \cup {"none"},
                               end : 0 .. MaxNow, ending : BOOLEAN]]
      BY <2>1, <2>8 DEF IInv, TypeOK
    <2> QED
      BY <2>1, <2>3, <2>4, <2>6, <2>7, <2>9, RzpPreserves
  <1> QED
    BY <1>1, <1>2, <1>3, <1>4, <1>5, <1>6, <1>7, <1>8, <1>9, <1>10, <1>11,
       <1>12, <1>13, <1>14 DEF RzpStep

LEMMA RefundPreserves ==
    ASSUME IInv, NEW n \in Ids, RzpRefund(n)
    PROVE  IInv'
  <1> DEFINE s == sent[n].sub
             types == <<"refunded">>
  <1>1. sent[n] \in Event /\ s \in Subs
    BY SentEvent DEF IInv, Ids
  <1>2. sent[n].tier \in Tiers
    BY <1>1 DEF Event
  <1>3. rzp[s] # NoSub
    BY DEF IInv, EventInv, EventBacked, Ids
  <1>4. /\ rzp[s].status # "none" /\ rzp[s].tier \in Tiers
        /\ rzp[s].status \in Charging => s \in paid
        /\ rzp[s].status \notin Unbilled => rzp[s].tier # "ltd"
        /\ rzp[s].status \in Unbilled => rzp[s].end = 0
        /\ rzp[s].end <= now + 1
    BY <1>1, <1>3 DEF IInv, RowInv, RzpInv
  <1>5. 0 <= rzp[s].end /\ rzp[s].end <= rzp[s].end
    BY <1>1, BillingAssumption DEF IInv, TypeOK
  <1>6. types \in Seq(EventType) /\ Len(types) = 1 /\ types[1] = "refunded"
          /\ types[1] \in OfOrders
    BY DEF EventType, OfOrders
  <1>7. 0 \in 0 .. MaxNow /\ n \in 0 .. MaxEvents /\ Len(sent) \in Nat
    BY BillingAssumption DEF IInv, TypeOK, Ids
  <1>8. Emit(s, types, 0, sent[n].tier, n)
    BY DEF RzpRefund
  <1>9. UNCHANGED <<database, txns, cancelling, pass, now, faults>>
    BY DEF RzpRefund, RzpUnchanged
  <1>10. rzp' = rzp /\ paid' = paid
    BY DEF RzpRefund
  <1> HIDE DEF s, types
  <1>11. /\ sent' \in Seq(Event) /\ Len(sent') <= MaxEvents
         /\ Len(sent') = Len(sent) + 1
         /\ \A i \in 1 .. Len(sent) : sent'[i] = sent[i]
         /\ \A i \in Len(sent) + 1 .. Len(sent') :
              /\ sent'[i].sub = s
              /\ sent'[i].end = 0
              /\ sent'[i].type = types[i - Len(sent)]
    <2>1. TypeOK
      BY DEF IInv
    <2>2. PICK t \in Tiers : t = sent[n].tier
      BY <1>2
    <2>3. types \in Seq(EventType)
      BY <1>6
    <2>4. PICK z \in 0 .. MaxNow : z = 0
      BY <1>7
    <2>5. s \in Subs /\ n \in 0 .. MaxEvents /\ Emit(s, types, z, t, n)
      BY <1>1, <1>7, <1>8, <2>2, <2>4
    <2>6. /\ sent' \in Seq(Event) /\ Len(sent') <= MaxEvents
          /\ Len(sent') = Len(sent) + Len(types)
          /\ \A i \in 1 .. Len(sent) : sent'[i] = sent[i]
          /\ \A i \in Len(sent) + 1 .. Len(sent') :
               /\ sent'[i].sub = s
               /\ sent'[i].tier = t
               /\ sent'[i].end = z
               /\ sent'[i].type = types[i - Len(sent)]
      BY <2>1, <2>3, <2>5, EmitAppends
    <2> QED
      BY <1>6, <2>4, <2>6
  <1>12. \A i \in Len(sent) + 1 .. Len(sent') : i - Len(sent) = 1
    BY <1>7, <1>11
  <1>13. rzp \in [Subs -> [status : RzpStatus, tier : Tiers \cup {"none"},
                           end : 0 .. MaxNow, ending : BOOLEAN]]
    BY DEF IInv, TypeOK
  <1> QED
    BY <1>1, <1>3, <1>4, <1>5, <1>6, <1>7, <1>9, <1>10, <1>11, <1>12, <1>13,
       RzpPreserves

-----------------------------------------------------------------------------
(* subscribe and cancel.                                                   *)
LEMMA SubscribePlacePreserves ==
    ASSUME IInv, NEW s \in Subs, NEW t \in Tiers, SubscribePlace(s, t)
    PROVE  IInv'
  <1> USE DEF database, pass
  <1>1. /\ rzp[s] = NoSub
        /\ rzp' = [rzp EXCEPT ![s] = [NoSub EXCEPT !.status = "created",
                                                   !.tier = t]]
        /\ UNCHANGED <<database, txns, cancelling, pass, sent, paid, now, faults>>
    BY DEF SubscribePlace
  <1>2. local[s] = NoRow /\ s \notin paid
    BY <1>1 DEF IInv, RowInv, RzpInv
  <1>3. /\ rzp'[s].status = "created" /\ rzp'[s].tier = t
        /\ rzp'[s] # NoSub /\ rzp'[s].end = 0
        /\ \A o \in Subs \ {s} : rzp'[o] = rzp[o]
        /\ rzp' \in [Subs -> [status : RzpStatus, tier : Tiers \cup {"none"},
                             end : 0 .. MaxNow, ending : BOOLEAN]]
    BY <1>1, BillingAssumption DEF IInv, TypeOK, NoSub, RzpStatus, Live
  <1>4. \A x \in Subs : rzp[x] # NoSub \/ local[x] # NoRow \/ x \in paid
                          => rzp'[x] = rzp[x]
    BY <1>1, <1>2, <1>3
  <1>5. TypeOK'
    BY <1>1, <1>3 DEF IInv, TypeOK, Ids
  <1>6. RzpInv'
    <2>1. 0 <= now + 1
      BY BillingAssumption DEF IInv, TypeOK
    <2> QED
      BY <1>1, <1>2, <1>3, <2>1 DEF IInv, RzpInv, Charging, Unbilled
  <1>7. RowInv'
    BY <1>1, <1>2, <1>3 DEF IInv, RowInv, Shaped
  <1>8. EventInv'
    <2> SUFFICES ASSUME NEW n \in 1 .. Len(sent)
                 PROVE  EventBacked(sent[n])'
      BY <1>1 DEF EventInv
    <2>1. EventBacked(sent[n]) /\ sent[n].sub \in Subs
      BY SentEvent DEF IInv, EventInv
    <2> QED
      BY <1>1, <1>4, <2>1 DEF EventBacked
  <1>9. TxnInv'
    <2> SUFFICES ASSUME NEW x \in txns
                 PROVE  (x.id \in Ids /\ ReadOf(x.row, sent[x.id].sub))'
      BY <1>1 DEF TxnInv
    <2>1. x.id \in 1 .. Len(sent) /\ ReadOf(x.row, sent[x.id].sub)
      BY DEF IInv, TxnInv, Ids
    <2>2. sent[x.id].sub \in Subs
      BY <2>1, SentEvent DEF IInv
    <2> QED
      BY <1>1, <1>4, <2>1, <2>2 DEF ReadOf, Shaped, Ids
  <1>10. PassInv'
    <2>1. todo \subseteq Subs
      BY DEF IInv, TypeOK
    <2>2. ASSUME phase = "set1", NEW x \in todo
          PROVE  (local[x] # NoRow /\ Shaped(mem[x], x) /\ mem[x].tier # "ltd")'
      <3>1. local[x] # NoRow /\ Shaped(mem[x], x) /\ mem[x].tier # "ltd"
        BY <2>2 DEF IInv, PassInv
      <3> QED
        BY <1>1, <1>4, <2>1, <3>1 DEF Shaped
    <2>3. ASSUME phase = "set1", NEW x \in todo
          PROVE  rzp'[x] = rzp[x]
      BY <1>4, <2>1, <2>3 DEF IInv, PassInv
    <2> QED
      BY <1>1, <2>2, <2>3 DEF IInv, PassInv
  <1>11. CancelInv'
    BY <1>1, <1>4 DEF IInv, CancelInv, TypeOK
  <1>12. PlanBacked'
    BY <1>1, <1>4 DEF IInv, PlanBacked, TypeOK
  <1>13. CancelBacked'
    BY <1>1, <1>2, <1>3 DEF IInv, CancelBacked, NoRow
  <1> QED
    BY <1>5, <1>6, <1>7, <1>8, <1>9, <1>10, <1>11, <1>12, <1>13 DEF IInv

(* A step that writes one row, to a row of its kind, and nothing else but  *)
(* cancelling.                                                             *)
LEMMA RowPreserves ==
    ASSUME IInv, NEW s \in Subs, NEW r \in Row, Shaped(r, s),
           rzp[s] # NoSub,
           r.sched => rzp[s].ending \/ rzp[s].status = "cancelled",
           local' = [local EXCEPT ![s] = r],
           cancelling' \subseteq cancelling,
           UNCHANGED <<plan, seen, payments, txns, pass, razorpay, now, faults>>
    PROVE  IInv'
  <1> USE DEF pass, razorpay
  <1>1. r # NoRow
    BY ShapedIsRow
  <1>2. local'[s] = r /\ \A x \in Subs \ {s} : local'[x] = local[x]
    BY DEF IInv, TypeOK
  <1>3. \A x \in Subs : local[x] # NoRow => local'[x] # NoRow
    BY <1>1, <1>2
  <1>4. TypeOK'
    BY DEF IInv, TypeOK, Ids
  <1>5. RzpInv'
    BY DEF IInv, RzpInv
  <1>6. RowInv'
    BY <1>2 DEF IInv, RowInv, Shaped
  <1>7. EventInv'
    <2> SUFFICES ASSUME NEW i \in 1 .. Len(sent)
                 PROVE  EventBacked(sent[i])'
      BY DEF EventInv
    <2>1. EventBacked(sent[i]) /\ sent[i].sub \in Subs
      BY SentEvent DEF IInv, EventInv
    <2> QED
      BY <2>1, <1>3 DEF EventBacked
  <1>8. TxnInv'
    <2> SUFFICES ASSUME NEW t \in txns
                 PROVE  (t.id \in Ids /\ ReadOf(t.row, sent[t.id].sub))'
      BY DEF TxnInv
    <2>1. t.id \in 1 .. Len(sent) /\ ReadOf(t.row, sent[t.id].sub)
      BY DEF IInv, TxnInv, Ids
    <2>2. sent[t.id].sub \in Subs
      BY <2>1, SentEvent DEF IInv
    <2> QED
      BY <1>3, <2>1, <2>2 DEF ReadOf, Shaped, Ids
  <1>9. PassInv'
    BY <1>3 DEF IInv, PassInv, TypeOK, Shaped
  <1>10. CancelInv'
    BY <1>3 DEF IInv, CancelInv, TypeOK
  <1>11. PlanBacked'
    BY DEF IInv, PlanBacked
  <1>12. CancelBacked'
    BY <1>2 DEF IInv, CancelBacked
  <1> QED
    BY <1>4, <1>5, <1>6, <1>7, <1>8, <1>9, <1>10, <1>11, <1>12 DEF IInv

LEMMA SubscribeCommitPreserves ==
    ASSUME IInv, NEW s \in Subs, SubscribeCommit(s)
    PROVE  IInv'
  <1> DEFINE r == [NoRow EXCEPT !.status = "created", !.tier = rzp[s].tier]
  <1>1. rzp[s] # NoSub /\ rzp[s].tier \in Tiers
    BY DEF SubscribeCommit, IInv, RzpInv
  <1>2. /\ NoRow \in Row /\ ~NoRow.sched /\ NoRow.end = 0
        /\ "created" \in LocalStatus
        /\ "created" \notin Earned \cup Over
        /\ 0 <= rzp[s].end
    BY BillingAssumption
    DEF IInv, TypeOK, NoRow, Row, LocalStatus, NonTerminal, Blocking, Earned,
        Over, Terminal
  <1>3. r \in Row /\ Shaped(r, s) /\ ~r.sched
    BY <1>1, <1>2 DEF Row, Shaped
  <1>4. /\ local' = [local EXCEPT ![s] = r]
        /\ cancelling' = cancelling
        /\ UNCHANGED <<plan, seen, payments, txns, pass, razorpay, now, faults>>
    BY DEF SubscribeCommit
  <1> HIDE DEF r
  <1> QED
    BY <1>1, <1>3, <1>4, RowPreserves

LEMMA CancelCommitPreserves ==
    ASSUME IInv, NEW s \in Subs, CancelCommit(s)
    PROVE  IInv'
  <1> DEFINE r == Scheduled(s)
  <1>1. /\ s \in cancelling
        /\ local' = [local EXCEPT ![s] = r]
        /\ cancelling' = cancelling \ {s}
        /\ UNCHANGED <<plan, seen, payments, txns, pass, razorpay, now, faults>>
    BY DEF CancelCommit, Asked
  <1>2. local[s] # NoRow /\ (rzp[s].ending \/ rzp[s].status = "cancelled")
    BY <1>1 DEF IInv, CancelInv
  <1>3. local[s] \in Row /\ Shaped(local[s], s) /\ rzp[s] # NoSub
    BY <1>2 DEF IInv, TypeOK, RowInv
  <1>4. r \in Row /\ Shaped(r, s)
    BY <1>3 DEF Scheduled, Row, Shaped
  <1> HIDE DEF r
  <1>5. cancelling' \subseteq cancelling
    BY <1>1
  <1> QED
    BY <1>1, <1>2, <1>3, <1>4, <1>5, RowPreserves

LEMMA CancelAskPreserves ==
    ASSUME IInv, NEW s \in Subs, CancelAsk(s)
    PROVE  IInv'
  <1> USE DEF database, pass
  <1>1. /\ rzp[s].status \in Live
        /\ local[s].status \in Blocking
        /\ rzp' = [rzp EXCEPT ![s].ending = TRUE]
        /\ cancelling' = cancelling \cup {s}
        /\ UNCHANGED <<database, txns, pass, sent, paid, now, faults>>
    BY DEF CancelAsk, Cancellable
  <1>2. local[s] # NoRow
    BY <1>1 DEF Blocking, NoRow
  <1>3. rzp[s] \in [status : RzpStatus, tier : Tiers \cup {"none"},
                    end : 0 .. MaxNow, ending : BOOLEAN]
    BY DEF IInv, TypeOK
  <1>4. /\ \A x \in Subs : rzp'[x].status = rzp[x].status
        /\ \A x \in Subs : rzp'[x].tier = rzp[x].tier
        /\ \A x \in Subs : rzp'[x].end = rzp[x].end
        /\ \A x \in Subs : rzp[x].ending => rzp'[x].ending
        /\ rzp'[s].ending
        /\ rzp' \in [Subs -> [status : RzpStatus, tier : Tiers \cup {"none"},
                             end : 0 .. MaxNow, ending : BOOLEAN]]
    BY <1>1, <1>3 DEF IInv, TypeOK
  <1>5. \A x \in Subs : rzp'[x] # NoSub <=> rzp[x] # NoSub
    <2>1. rzp'[s] # NoSub /\ rzp[s] # NoSub
      BY <1>1, <1>4 DEF NoSub, Live
    <2>2. \A x \in Subs \ {s} : rzp'[x] = rzp[x]
      BY <1>1 DEF IInv, TypeOK
    <2> QED
      BY <2>1, <2>2
  <1>6. TypeOK'
    BY <1>1, <1>4 DEF IInv, TypeOK, Ids
  <1>7. RzpInv'
    BY <1>1, <1>4, <1>5 DEF IInv, RzpInv
  <1>8. RowInv'
    BY <1>1, <1>4, <1>5 DEF IInv, RowInv, Shaped
  <1>9. EventInv'
    <2> SUFFICES ASSUME NEW i \in 1 .. Len(sent)
                 PROVE  EventBacked(sent[i])'
      BY <1>1 DEF EventInv
    <2>1. EventBacked(sent[i]) /\ sent[i].sub \in Subs
      BY SentEvent DEF IInv, EventInv
    <2> QED
      BY <2>1, <1>1, <1>4, <1>5 DEF EventBacked
  <1>10. TxnInv'
    <2> SUFFICES ASSUME NEW x \in txns
                 PROVE  (x.id \in Ids /\ ReadOf(x.row, sent[x.id].sub))'
      BY <1>1 DEF TxnInv
    <2>1. x.id \in 1 .. Len(sent) /\ ReadOf(x.row, sent[x.id].sub)
      BY DEF IInv, TxnInv, Ids
    <2>2. sent[x.id].sub \in Subs
      BY <2>1, SentEvent DEF IInv
    <2> QED
      BY <1>1, <1>4, <2>1, <2>2 DEF ReadOf, Shaped, Ids
  <1>11. PassInv'
    BY <1>1, <1>4 DEF IInv, PassInv, TypeOK, Shaped
  <1>12. CancelInv'
    BY <1>1, <1>2, <1>4 DEF IInv, CancelInv, TypeOK
  <1>13. PlanBacked'
    BY <1>1, <1>4 DEF IInv, PlanBacked, TypeOK
  <1>14. CancelBacked'
    BY <1>1, <1>4 DEF IInv, CancelBacked
  <1> QED
    BY <1>6, <1>7, <1>8, <1>9, <1>10, <1>11, <1>12, <1>13, <1>14 DEF IInv

-----------------------------------------------------------------------------
(* Webhooks.                                                               *)
LEMMA WebhookPreserves ==
    ASSUME IInv, NEW n \in Ids, Webhook(n)
    PROVE  IInv'
  <1>1. sent[n].sub \in Subs
    BY SentEvent DEF IInv, Ids
  <1>2. PICK r : r = local[sent[n].sub]
    OBVIOUS
  <1>3. r \in Row /\ ReadOf(r, sent[n].sub)
    BY <1>1, <1>2 DEF IInv, TypeOK, RowInv, ReadOf
  <1>4. PICK others : others = txns
    OBVIOUS
  <1>5. PICK p : p = plan
    OBVIOUS
  <1>6. /\ Effect(n, r, p, others)
        /\ txns' \subseteq txns
        /\ UNCHANGED <<cancelling, pass, razorpay, now, faults>>
    BY <1>2, <1>4, <1>5 DEF Webhook
  <1> QED
    BY <1>3, <1>6, EffectPreserves

(* A step that touches the transactions in flight and nothing else.        *)
LEMMA TxnsPreserves ==
    ASSUME IInv, txns' \subseteq Txn,
           \A t \in txns' : t.id \in Ids /\ ReadOf(t.row, sent[t.id].sub),
           UNCHANGED <<database, cancelling, pass, razorpay, now, faults>>
    PROVE  IInv'
  <1> USE DEF database, pass, razorpay
  <1>1. TypeOK'
    BY DEF IInv, TypeOK, Ids
  <1>2. TxnInv'
    BY DEF TxnInv, ReadOf, Shaped, Ids
  <1>3. RzpInv' /\ RowInv' /\ EventInv'
    BY DEF IInv, RzpInv, RowInv, EventInv, EventBacked, Shaped
  <1>4. PassInv' /\ CancelInv' /\ PlanBacked' /\ CancelBacked'
    BY DEF IInv, PassInv, CancelInv, PlanBacked, CancelBacked, Shaped
  <1> QED
    BY <1>1, <1>2, <1>3, <1>4 DEF IInv

LEMMA WebhookBeginPreserves ==
    ASSUME IInv, NEW n \in Ids, WebhookBegin(n)
    PROVE  IInv'
  <1> DEFINE new == [id |-> n, row |-> local[sent[n].sub], plan |-> "unread"]
  <1>1. sent[n].sub \in Subs
    BY SentEvent DEF IInv, Ids
  <1>2. /\ txns' = txns \cup {new}
        /\ UNCHANGED <<database, cancelling, pass, razorpay, now, faults>>
    BY DEF WebhookBegin
  <1>3. new \in Txn
    BY <1>1, BillingAssumption DEF IInv, TypeOK, Ids, Txn
  <1>4. new.id \in Ids /\ ReadOf(new.row, sent[new.id].sub)
    BY <1>1 DEF IInv, RowInv, ReadOf
  <1> HIDE DEF new
  <1>5. txns' \subseteq Txn
    BY <1>2, <1>3 DEF IInv, TypeOK
  <1>6. \A t \in txns' : t.id \in Ids /\ ReadOf(t.row, sent[t.id].sub)
    BY <1>2, <1>4 DEF IInv, TxnInv
  <1> QED
    BY <1>2, <1>5, <1>6, TxnsPreserves

LEMMA TxnPreserves ==
    ASSUME IInv, NEW t \in txns,
           WebhookReadPlan(t) \/ WebhookCommit(t) \/ WebhookRollback(t)
    PROVE  IInv'
  <1>1. /\ t \in Txn /\ t.id \in Ids /\ t.row \in Row
        /\ ReadOf(t.row, sent[t.id].sub)
    BY DEF IInv, TxnInv, TypeOK, Txn
  <1>2. CASE WebhookReadPlan(t)
    <2> DEFINE new == [t EXCEPT !.plan = plan]
    <2>1. /\ txns' = (txns \ {t}) \cup {new}
          /\ UNCHANGED <<database, cancelling, pass, razorpay, now, faults>>
      BY <1>2 DEF WebhookReadPlan
    <2>2. new \in Txn /\ new.id = t.id /\ new.row = t.row
      BY <1>1 DEF IInv, TypeOK, Txn
    <2> HIDE DEF new
    <2>3. txns' \subseteq Txn
      BY <2>1, <2>2 DEF IInv, TypeOK
    <2>4. \A u \in txns' : u.id \in Ids /\ ReadOf(u.row, sent[u.id].sub)
      BY <1>1, <2>1, <2>2 DEF IInv, TxnInv
    <2> QED
      BY <2>1, <2>3, <2>4, TxnsPreserves
  <1>3. CASE WebhookCommit(t)
    <2>1. PICK others, p : others = txns \ {t} /\ p = t.plan
      OBVIOUS
    <2>2. PICK n, r : n = t.id /\ r = t.row
      OBVIOUS
    <2>3. n \in Ids /\ r \in Row /\ ReadOf(r, sent[n].sub)
      BY <1>1, <2>2
    <2>4. /\ Effect(n, r, p, others)
          /\ txns' \subseteq txns
          /\ UNCHANGED <<cancelling, pass, razorpay, now, faults>>
      BY <1>3, <2>1, <2>2 DEF WebhookCommit
    <2> QED
      BY <2>3, <2>4, EffectPreserves
  <1>4. CASE WebhookRollback(t)
    <2>1. /\ txns' \subseteq txns
          /\ UNCHANGED <<database, cancelling, pass, razorpay, now, faults>>
      BY <1>4 DEF WebhookRollback
    <2>2. txns' \subseteq Txn
      BY <2>1 DEF IInv, TypeOK
    <2>3. \A u \in txns' : u.id \in Ids /\ ReadOf(u.row, sent[u.id].sub)
      BY <2>1 DEF IInv, TxnInv
    <2> QED
      BY <2>1, <2>2, <2>3, TxnsPreserves
  <1> QED
    BY <1>2, <1>3, <1>4

-----------------------------------------------------------------------------
(* The reconciliation pass.                                                *)

(* What a pass makes of a row it loaded, and the plan it wants.            *)
LEMMA ConvergedShape ==
    ASSUME NEW r \in Row, NEW p, NEW s, Shaped(r, s), BillingAssumption,
           NEW a \in [status : RzpStatus, end : 0 .. MaxNow],
           r.tier # "ltd", rzp[s].end \in Int,
           a.status \in {"active", "halted"} => s \in paid,
           a.end <= rzp[s].end
    PROVE  LET w == Converged(r, p, a)
           IN  /\ w.row \in Row
               /\ Shaped(w.row, s)
               /\ w.row.sched = r.sched
               /\ \/ w.plan \in {p, "free"}
                  \/ w.plan = r.tier /\ a.status = "active"
  <1> DEFINE target == LocalOf(a.status)
             row == [r EXCEPT !.end = Later(@, a.end)]
             moved == [row EXCEPT !.status = target]
             w == Converged(r, p, a)
  <1>1. /\ Later(r.end, a.end) \in 0 .. MaxNow
        /\ Later(r.end, a.end) <= rzp[s].end
    BY DEF Row, Later, Shaped
  <1>2. row \in Row /\ Shaped(row, s) /\ row.sched = r.sched
    BY <1>1 DEF Row, Shaped
  <1>3. ASSUME target \in LocalStatus \ {"none"},
               target \in Earned => s \in paid
        PROVE  moved \in Row /\ Shaped(moved, s) /\ moved.sched = r.sched
    BY <1>2, <1>3 DEF Row, Shaped
  <1>4. /\ w = IF r.status = "cancelled" \/ target = r.status
               THEN Same(row, p)
               ELSE CASE target = "active" -> Same(moved, r.tier)
                      [] target = "halted" -> Same(moved, "free")
                      [] target \in {"authenticated", "cancelled", "completed"}
                           -> Same(moved, p)
                      [] OTHER -> Same(row, p)
        /\ target = "active" => a.status = "active"
        /\ target = "halted" => a.status = "halted"
    BY DEF Converged, LocalOf
  <1>5. /\ {"active", "halted", "authenticated", "cancelled", "completed"}
             \subseteq LocalStatus \ {"none"}
        /\ {"authenticated", "cancelled", "completed"} \cap Earned = {}
    BY DEF LocalStatus, NonTerminal, Blocking, Terminal, Earned
  <1> HIDE DEF target, row, moved, w
  <1>6. CASE w = Same(row, p)
    BY <1>2, <1>6 DEF Same, w
  <1>7. CASE target = "active" /\ w = Same(moved, r.tier)
    BY <1>3, <1>4, <1>5, <1>7 DEF Same, w
  <1>8. CASE target = "halted" /\ w = Same(moved, "free")
    BY <1>3, <1>4, <1>5, <1>8 DEF Same, w
  <1>9. CASE /\ target \in {"authenticated", "cancelled", "completed"}
             /\ w = Same(moved, p)
    BY <1>3, <1>5, <1>9 DEF Same, w
  <1> QED
    BY <1>4, <1>6, <1>7, <1>8, <1>9

LEMMA ConvergePreserves ==
    ASSUME IInv, NEW s \in Subs, Converge(s)
    PROVE  IInv'
  <1> USE DEF razorpay
  <1> DEFINE w == Converged(mem[s], plan, got)
             m == Merge(local[s], mem[s], w.row)
  <1>1. /\ phase = "set1" /\ s \in todo
        /\ \A o \in todo : s <= o
        /\ local' = [local EXCEPT ![s] = m]
        /\ plan' = w.plan
        /\ todo' = todo \ {s}
        /\ mem' = [mem EXCEPT ![s] = NoRow]
        /\ got' = NoAnswer
        /\ UNCHANGED <<seen, payments, txns, cancelling, phase, asOf, razorpay,
                       now, faults>>
    BY DEF Converge, Stored, Visited
  <1>2. /\ mem[s] \in Row /\ Shaped(mem[s], s) /\ mem[s].tier # "ltd"
        /\ local[s] # NoRow
        /\ got \in [status : RzpStatus, end : 0 .. MaxNow]
        /\ got.status \in {"active", "halted"} => s \in paid
        /\ got.end <= rzp[s].end /\ rzp[s].end \in Int
    BY <1>1, BillingAssumption DEF IInv, TypeOK, PassInv
  <1>3. local[s] \in Row /\ Shaped(local[s], s) /\ rzp[s] # NoSub
    BY <1>2 DEF IInv, TypeOK, RowInv
  <1>4. /\ w.row \in Row /\ Shaped(w.row, s) /\ w.row.sched = mem[s].sched
        /\ \/ w.plan \in {plan, "free"}
           \/ w.plan = mem[s].tier /\ s \in paid
    BY <1>2, ConvergedShape, BillingAssumption
  <1> HIDE DEF w
  <1>5. m \in Row /\ Shaped(m, s) /\ (m.sched => local[s].sched)
    BY <1>2, <1>3, <1>4, MergeShape
  <1> HIDE DEF m
  <1>6. m # NoRow
    BY <1>5, ShapedIsRow
  <1>7. local'[s] = m /\ \A x \in Subs \ {s} : local'[x] = local[x]
    BY <1>1 DEF IInv, TypeOK
  <1>8. \A x \in Subs : local[x] # NoRow => local'[x] # NoRow
    BY <1>6, <1>7
  <1>9. TypeOK'
    <2>1. plan' \in Plans
      BY <1>1, <1>2, <1>4 DEF IInv, TypeOK, Plans, Shaped
    <2>2. NoRow \in Row /\ NoAnswer \in [status : RzpStatus, end : 0 .. MaxNow]
      BY BillingAssumption DEF NoRow, Row, LocalStatus, NoAnswer, RzpStatus
    <2>3. local' \in [Subs -> Row] /\ mem' \in [Subs -> Row] /\ todo' \subseteq Subs
      BY <1>1, <1>5, <2>2 DEF IInv, TypeOK
    <2> QED
      BY <1>1, <2>1, <2>2, <2>3 DEF IInv, TypeOK, Ids
  <1>10. RzpInv'
    BY <1>1 DEF IInv, RzpInv
  <1>11. RowInv'
    BY <1>1, <1>3, <1>5, <1>7 DEF IInv, RowInv, Shaped
  <1>12. EventInv'
    <2> SUFFICES ASSUME NEW i \in 1 .. Len(sent)
                 PROVE  EventBacked(sent[i])'
      BY <1>1 DEF EventInv
    <2>1. EventBacked(sent[i]) /\ sent[i].sub \in Subs
      BY SentEvent DEF IInv, EventInv
    <2> QED
      BY <2>1, <1>1, <1>8 DEF EventBacked
  <1>13. TxnInv'
    <2> SUFFICES ASSUME NEW t \in txns
                 PROVE  (t.id \in Ids /\ ReadOf(t.row, sent[t.id].sub))'
      BY <1>1 DEF TxnInv
    <2>1. t.id \in 1 .. Len(sent) /\ ReadOf(t.row, sent[t.id].sub)
      BY DEF IInv, TxnInv, Ids
    <2>2. sent[t.id].sub \in Subs
      BY <2>1, SentEvent DEF IInv
    <2> QED
      BY <1>1, <1>8, <2>1, <2>2 DEF ReadOf, Shaped, Ids
  <1>14. PassInv'
    <2>1. \A x \in todo' : mem'[x] = mem[x] /\ x \in todo /\ x \in Subs
      BY <1>1 DEF IInv, TypeOK
    <2>2. phase' = "set1" /\ got'.status = "none"
      BY <1>1 DEF NoAnswer
    <2>3. ASSUME NEW x \in todo'
          PROVE  (local[x] # NoRow /\ Shaped(mem[x], x) /\ mem[x].tier # "ltd")'
      BY <1>1, <1>8, <2>1, <2>3 DEF IInv, PassInv, Shaped
    <2>4. \A x \in todo' : /\ got'.status \notin {"active", "halted"}
                           /\ got'.end <= rzp'[x].end
      BY <1>1, <2>1, NoAnswerClaimsNothing DEF IInv
    <2> QED
      BY <2>2, <2>3, <2>4 DEF PassInv
  <1>15. CancelInv'
    BY <1>1, <1>8 DEF IInv, CancelInv, TypeOK
  <1>16. PlanBacked'
    <2>1. CASE plan' \in {plan, "free"}
      BY <1>1, <2>1 DEF IInv, PlanBacked
    <2>2. CASE plan' = mem[s].tier /\ s \in paid
      BY <1>1, <1>2, <2>2 DEF PlanBacked, Shaped
    <2> QED
      BY <1>1, <1>4, <2>1, <2>2
  <1>17. CancelBacked'
    BY <1>1, <1>5, <1>7 DEF IInv, CancelBacked
  <1> QED
    BY <1>9, <1>10, <1>11, <1>12, <1>13, <1>14, <1>15, <1>16, <1>17 DEF IInv

(* A step that leaves the rows, the webhooks and Razorpay alone, and the   *)
(* plan where it is or at free.                                            *)
LEMMA PassPreserves ==
    ASSUME IInv, UNCHANGED <<local, seen, payments, txns, cancelling, rzp,
                             sent, paid>>,
           plan' \in {plan, "free"},
           phase' \in {"idle", "set1", "set2"}, todo' \subseteq Subs,
           mem' \in [Subs -> Row],
           got' \in [status : RzpStatus, end : 0 .. MaxNow],
           asOf' \in 0 .. MaxNow, now' \in 0 .. MaxNow, now <= now',
           faults' \in 0 .. MaxFaults,
           PassInv'
    PROVE  IInv'
  <1>1. TypeOK'
    BY DEF IInv, TypeOK, Plans, Ids
  <1>2. RowInv' /\ EventInv' /\ TxnInv'
    BY DEF IInv, RowInv, EventInv, EventBacked, TxnInv, ReadOf, Shaped, Ids
  <1>4. RzpInv'
    <2>1. \A s \in Subs : rzp[s].end <= now + 1 => rzp[s].end <= now' + 1
      BY BillingAssumption DEF IInv, TypeOK
    <2> QED
      BY <2>1 DEF IInv, RzpInv
  <1>3. CancelInv' /\ PlanBacked' /\ CancelBacked'
    BY DEF IInv, CancelInv, PlanBacked, CancelBacked
  <1> QED
    BY <1>1, <1>2, <1>3, <1>4 DEF IInv

LEMMA PassOverPreserves ==
    ASSUME IInv, PassOver, faults' \in 0 .. MaxFaults,
           UNCHANGED <<database, txns, cancelling, razorpay, now>>
    PROVE  IInv'
  <1> USE DEF database, razorpay
  <1>1. NoRow \in Row /\ NoAnswer \in [status : RzpStatus, end : 0 .. MaxNow]
          /\ 0 \in 0 .. MaxNow
    BY BillingAssumption DEF NoRow, Row, LocalStatus, NoAnswer, RzpStatus
  <1>2. mem' = [s \in Subs |-> NoRow]
    BY DEF PassOver, Load
  <1>3. PassInv'
    BY DEF PassOver, PassInv
  <1>4. now \in 0 .. MaxNow
    BY DEF IInv, TypeOK
  <1> QED
    BY <1>1, <1>2, <1>3, <1>4, PassPreserves DEF PassOver

LEMMA PassBeginPreserves ==
    ASSUME IInv, PassBegin
    PROVE  IInv'
  <1> USE DEF database, razorpay
  <1>1. /\ phase = "idle" /\ phase' = "set1"
        /\ todo' = DriftingSubs
        /\ mem' = Load(DriftingSubs)
        /\ asOf' = now
        /\ UNCHANGED <<database, txns, cancelling, got, razorpay, now, faults>>
    BY DEF PassBegin
  <1>2. got' = NoAnswer
    BY <1>1 DEF IInv, PassInv
  <1>3. NoRow \in Row
    BY BillingAssumption DEF NoRow, Row, LocalStatus
  <1>4. mem' \in [Subs -> Row] /\ \A s \in todo' : mem'[s] = local[s]
    BY <1>1, <1>3 DEF IInv, TypeOK, Load, DriftingSubs
  <1>5. \A s \in todo' : /\ s \in Subs
                         /\ local[s] # NoRow
                         /\ local[s].tier # "ltd"
    BY <1>1 DEF DriftingSubs, NonTerminal, Blocking, NoRow
  <1>6. \A s \in todo' : Shaped(local[s], s)
    BY <1>5 DEF IInv, RowInv
  <1>8. \A s \in todo' : /\ got'.status \notin {"active", "halted"}
                         /\ got'.end <= rzp'[s].end
    BY <1>1, <1>2, <1>5, NoAnswerClaimsNothing DEF IInv
  <1>7. PassInv'
    BY <1>1, <1>2, <1>4, <1>5, <1>6, <1>8 DEF PassInv, Shaped
  <1> QED
    BY <1>1, <1>4, <1>5, <1>7, PassPreserves DEF IInv, TypeOK

LEMMA FetchPreserves ==
    ASSUME IInv, NEW s \in Subs, Fetch(s) \/ FetchFails(s)
    PROVE  IInv'
  <1> USE DEF database, razorpay
  <1>1. CASE Fetch(s)
    <2>1. /\ phase = "set1" /\ s \in todo
          /\ \A o \in todo : s <= o
          /\ got' = [status |-> rzp[s].status, end |-> rzp[s].end]
          /\ UNCHANGED <<database, txns, cancelling, phase, todo, mem, asOf,
                         razorpay, now, faults>>
      BY <1>1 DEF Fetch
    <2>2. got' \in [status : RzpStatus, end : 0 .. MaxNow]
      BY <2>1 DEF IInv, TypeOK
    <2>3. /\ got'.status \in {"active", "halted"} => s \in paid
          /\ got'.end = rzp[s].end
      BY <2>1 DEF IInv, RzpInv, Charging
    <2>6. rzp[s].end <= rzp[s].end
      BY BillingAssumption DEF IInv, TypeOK
    <2>4. \A x \in todo : (\A o \in todo : x <= o) => x = s
      <3> SUFFICES ASSUME NEW x \in todo, \A o \in todo : x <= o
                   PROVE  x = s
        OBVIOUS
      <3>1. x \in Nat /\ s \in Nat
        BY BillingAssumption DEF IInv, TypeOK
      <3>2. x <= s /\ s <= x
        BY <2>1
      <3> QED
        BY <3>1, <3>2
    <2>5. PassInv'
      BY <2>1, <2>3, <2>4, <2>6 DEF IInv, PassInv, Shaped
    <2> QED
      BY <2>1, <2>2, <2>5, PassPreserves DEF IInv, TypeOK
  <1>2. CASE FetchFails(s)
    <2>1. /\ phase = "set1" /\ got = NoAnswer
          /\ faults < MaxFaults /\ faults' = faults + 1
          /\ todo' = todo \ {s}
          /\ mem' = [mem EXCEPT ![s] = NoRow]
          /\ UNCHANGED <<database, txns, cancelling, phase, got, asOf, razorpay,
                         now>>
      BY <1>2 DEF FetchFails, Visited
    <2>2. NoRow \in Row
      BY BillingAssumption DEF NoRow, Row, LocalStatus
    <2>3. mem' \in [Subs -> Row] /\ \A x \in todo' : mem'[x] = mem[x]
      BY <2>1, <2>2 DEF IInv, TypeOK
    <2>4. faults' \in 0 .. MaxFaults
      BY <2>1, BillingAssumption DEF IInv, TypeOK
    <2>6. \A x \in todo : /\ got.status \notin {"active", "halted"}
                          /\ got.end <= rzp[x].end
      BY <2>1, NoAnswerClaimsNothing DEF IInv, TypeOK
    <2>5. PassInv'
      BY <2>1, <2>3, <2>6 DEF IInv, PassInv, Shaped
    <2> QED
      BY <2>1, <2>3, <2>4, <2>5, PassPreserves DEF IInv, TypeOK
  <1> QED
    BY <1>1, <1>2

LEMMA SweepPreserves ==
    ASSUME IInv, SweepBegin \/ \E s \in Subs : Sweep(s)
    PROVE  IInv'
  <1> USE DEF database, razorpay
  <1>1. CASE SweepBegin
    <2>1. /\ phase' = "set2" /\ todo' = LapsedSubs
          /\ UNCHANGED <<database, txns, cancelling, mem, got, asOf, razorpay,
                         now, faults>>
      BY <1>1 DEF SweepBegin
    <2>2. todo' \subseteq Subs
      BY <2>1 DEF LapsedSubs
    <2>3. PassInv'
      BY <2>1 DEF PassInv
    <2> QED
      BY <2>1, <2>2, <2>3, PassPreserves DEF IInv, TypeOK
  <1>2. CASE \E s \in Subs : Sweep(s)
    <2>1. PICK s \in Subs : Sweep(s)
      BY <1>2
    <2>2. /\ phase = "set2" /\ plan' \in {plan, "free"} /\ todo' = todo \ {s}
          /\ UNCHANGED <<local, seen, payments, txns, cancelling, phase, mem,
                         got, asOf, razorpay, now, faults>>
      BY <2>1 DEF Sweep
    <2>3. PassInv'
      BY <2>2 DEF PassInv
    <2> QED
      BY <2>2, <2>3, PassPreserves DEF IInv, TypeOK
  <1> QED
    BY <1>1, <1>2

LEMMA PassStepPreserves ==
    ASSUME IInv, PassStep \/ PassDies \/ Tick \/ (\E s \in Subs : FetchFails(s))
    PROVE  IInv'
  <1>1. CASE Tick
    <2>1. /\ now' \in 0 .. MaxNow /\ now <= now'
          /\ UNCHANGED <<database, txns, cancelling, pass, razorpay, faults>>
      BY <1>1, BillingAssumption DEF Tick, IInv, TypeOK
    <2>2. PassInv'
      BY <2>1 DEF IInv, PassInv, Shaped, database, pass, razorpay
    <2> QED
      BY <2>1, <2>2, PassPreserves
      DEF IInv, TypeOK, database, pass, razorpay
  <1>2. faults \in 0 .. MaxFaults
    BY DEF IInv, TypeOK
  <1>3. CASE PassDies
    <2>1. /\ PassOver /\ faults' \in 0 .. MaxFaults
          /\ UNCHANGED <<database, txns, cancelling, razorpay, now>>
      BY <1>2, <1>3, BillingAssumption DEF PassDies
    <2> QED
      BY <2>1, PassOverPreserves
  <1>4. ASSUME PassEnd \/ \E s \in Subs : ConvergeRefused(s)
        PROVE  IInv'
    <2>1. /\ PassOver /\ faults' = faults
          /\ UNCHANGED <<database, txns, cancelling, razorpay, now>>
      BY <1>4 DEF PassEnd, ConvergeRefused
    <2> QED
      BY <1>2, <2>1, PassOverPreserves
  <1> QED
    BY <1>1, <1>3, <1>4, PassBeginPreserves, FetchPreserves, ConvergePreserves,
       SweepPreserves DEF PassStep

-----------------------------------------------------------------------------
LEMMA NextPreserves == IInv /\ [Next]_vars => IInv'
  <1> SUFFICES ASSUME IInv, [Next]_vars PROVE IInv'
    OBVIOUS
  <1>1. CASE UNCHANGED vars
    <2>1. /\ UNCHANGED <<local, seen, payments, txns, cancelling, rzp, sent,
                         paid, plan, phase, todo, mem, got, asOf, now, faults>>
      BY <1>1 DEF vars
    <2>2. PassInv'
      BY <2>1 DEF IInv, PassInv, Shaped
    <2> QED
      BY <2>1, <2>2, PassPreserves DEF IInv, TypeOK
  <1>2. CASE \E s \in Subs, t \in Tiers : SubscribePlace(s, t)
    BY <1>2, SubscribePlacePreserves
  <1>3. CASE \E s \in Subs : SubscribeCommit(s)
    BY <1>3, SubscribeCommitPreserves
  <1>4. CASE \E s \in Subs : CancelAsk(s)
    BY <1>4, CancelAskPreserves
  <1>5. CASE \E s \in Subs : CancelCommit(s)
    BY <1>5, CancelCommitPreserves
  <1>6. CASE \E s \in Subs : RzpStep(s)
    BY <1>6, RzpStepPreserves
  <1>7. CASE \E n \in Ids : Webhook(n) \/ WebhookBegin(n)
    BY <1>7, WebhookPreserves, WebhookBeginPreserves
  <1>8. CASE \E n \in Ids : RzpRefund(n)
    BY <1>8, RefundPreserves
  <1>9. CASE \E t \in txns :
              WebhookReadPlan(t) \/ WebhookCommit(t) \/ WebhookRollback(t)
    BY <1>9, TxnPreserves
  <1>10. CASE PassStep \/ PassDies \/ Tick \/ (\E s \in Subs : FetchFails(s))
    BY <1>10, PassStepPreserves
  <1> QED
    BY <1>1, <1>2, <1>3, <1>4, <1>5, <1>6, <1>7, <1>8, <1>9, <1>10 DEF Next

LEMMA Inductive == Spec => []IInv
  BY InitInv, NextPreserves, PTL DEF Spec

(* Every variable keeps its type, the rows, the transactions in flight and *)
(* what the pass loaded among them: service.py and tasks.py only ever      *)
(* store the statuses the schema knows.                                    *)
THEOREM TypeCorrect == Spec => []TypeOK
  <1>1. IInv => TypeOK
    BY DEF IInv
  <1> QED
    BY <1>1, Inductive, PTL

(* No order of webhooks, passes and crashes leaves users.plan at a paid    *)
(* plan of a kind Razorpay never took money for.                           *)
THEOREM PlanIsBacked == Spec => []PlanBacked
  <1>1. IInv => PlanBacked
    BY DEF IInv
  <1> QED
    BY <1>1, Inductive, PTL

(* cancel_at_cycle_end on a row means Razorpay was asked to cancel.        *)
THEOREM CancelIsBacked == Spec => []CancelBacked
  <1>1. IInv => CancelBacked
    BY DEF IInv
  <1> QED
    BY <1>1, Inductive, PTL

(* A row is active, past due or halted only for a subscription that was    *)
(* paid for, and no order of late, repeated or overlapping webhooks and    *)
(* stale answers takes its period past what Razorpay has charged.          *)
THEOREM RowIsBacked == Spec => []RowBacked
  <1>1. IInv => RowBacked
    <2> SUFFICES ASSUME IInv, NEW s \in Subs
                 PROVE  /\ local[s].status \in Earned => s \in paid
                        /\ local[s].end <= rzp[s].end
      BY DEF RowBacked, Earned
    <2>1. CASE local[s] = NoRow
      BY <2>1, BillingAssumption DEF IInv, TypeOK, NoRow, Earned
    <2>2. CASE local[s] # NoRow
      BY <2>2 DEF IInv, RowInv, Shaped
    <2> QED
      BY <2>1, <2>2
  <1> QED
    BY <1>1, Inductive, PTL

-----------------------------------------------------------------------------
(* The lifetime purchase.  Its row stays active once it is, so the unique  *)
(* index keeps every other row from becoming active: a plan is then only   *)
(* granted with a row that was active when it was read.                    *)
LtdActive(s) == local[s].status = "active" /\ rzp[s].tier = "ltd"

LtdHeld == \E s \in Subs : LtdActive(s)

ReadsWell(r, s) ==
    r.status = "active" /\ rzp[s].tier = "ltd" => local[s].status = "active"

LtdInv ==
    /\ OneActive(local)
    /\ plan = "ltd" => LtdHeld
    /\ \A t \in txns : ReadsWell(t.row, sent[t.id].sub)

(* When a handler wants another plan: it grants what it makes active, it   *)
(* changes the tier of what it read active, or it is the purchase.         *)
LEMMA HandledGrants ==
    ASSUME TypeOK, NEW e \in Event, NEW r \in Row, NEW p,
           Shaped(r, e.sub), EventBacked(e)
    PROVE  LET w == Handled(e, r, p)
               buys == e.type = "captured" /\ r.tier = "ltd"
           IN  /\ w.plan \notin {p, "free"} =>
                    \/ buys
                    \/ /\ rzp[e.sub].tier # "ltd"
                       /\ w.plan # "ltd"
                       /\ r.status = "active" \/ w.row.status = "active"
               /\ buys => w.row.status = "active" /\ w.plan = "ltd"
               /\ e.type \in OfOrders /\ ~buys => w.row = r /\ w.plan = p
  <1> DEFINE w == Handled(e, r, p)
  <1>0. /\ r.status \in LocalStatus /\ r.tier \in Tiers /\ r.end \in 0 .. MaxNow
        /\ r.sched \in BOOLEAN /\ e.end \in 0 .. MaxNow /\ e.tier \in Tiers
        /\ e.type \in EventType /\ e.sub \in Subs /\ r # NoRow
    BY ShapedIsRow DEF Row, Event, Shaped
  <1> DEFINE buys == e.type = "captured" /\ r.tier = "ltd"
  <1>1. CASE e.type \in {"authenticated", "charged", "pending", "halted",
                         "cancelled", "completed"}
    <2>1. w.plan \in {p, "free"}
      BY <1>0, <1>1 DEF Handled, Authenticated, Charged, Pending, Halted,
          Cancelled, Completed, Same
    <2>2. ~buys /\ e.type \notin OfOrders
      BY <1>1 DEF OfOrders
    <2> HIDE DEF w
    <2> QED
      BY <2>1, <2>2 DEF w
  <1>2. CASE e.type = "activated"
    BY <1>0, <1>2 DEF Handled, Activated, Same, Shaped, Row, EventBacked,
        OfOrders
  <1>3. CASE e.type = "updated"
    BY <1>0, <1>3 DEF Handled, Updated, Same, Shaped, Row, EventBacked,
        OfOrders
  <1>4. CASE buys
    <2> DEFINE row == [r EXCEPT !.status = "active", !.end = 0]
    <2>1. w = [row |-> row, plan |-> "ltd"]
      BY <1>0, <1>4 DEF Handled, Captured, Same
    <2>2. row.status = "active"
      BY DEF Row
    <2> HIDE DEF w, row
    <2> QED
      BY <1>4, <2>1, <2>2 DEF w
  <1>5. CASE e.type \in OfOrders /\ ~buys
    <2>1. w = [row |-> r, plan |-> p]
      BY <1>0, <1>5 DEF Handled, Same, OfOrders
    <2> HIDE DEF w
    <2> QED
      BY <1>5, <2>1 DEF w
  <1> QED
    BY <1>0, <1>1, <1>2, <1>3, <1>4, <1>5 DEF EventType, OfOrders

(* What a handler makes of a row that is over.                             *)
LEMMA HandledOver ==
    ASSUME TypeOK, NEW e \in Event, NEW r \in Row, NEW p,
           Shaped(r, e.sub), EventBacked(e),
           r.status \in Over, e.type # "activated"
    PROVE  Handled(e, r, p).row.status \in Over
  <1>0. r.status \in {"cancelled", "completed"} /\ e.type \in EventType
          /\ r # NoRow
    BY ShapedIsRow DEF Over, Terminal, Event
  <1>1. r.tier # "ltd"
    BY DEF Shaped
  <1>2. CASE e.type = "authenticated"
    BY <1>0, <1>2 DEF Handled, Authenticated, Same
  <1>3. CASE e.type = "charged"
    BY <1>0, <1>3 DEF Handled, Charged, Same, Row
  <1>4. CASE e.type = "pending"
    BY <1>0, <1>4 DEF Handled, Pending, Same, Row
  <1>5. CASE e.type = "halted"
    BY <1>0, <1>5 DEF Handled, Halted, Same
  <1>6. CASE e.type = "cancelled"
    BY <1>0, <1>6 DEF Handled, Cancelled, Same, Row, Over, Terminal
  <1>7. CASE e.type = "completed"
    BY <1>0, <1>7 DEF Handled, Completed, Same, Row, Over, Terminal
  <1>8. CASE e.type = "updated"
    BY <1>0, <1>8 DEF Handled, Updated, Same, Row
  <1>9. CASE e.type \in OfOrders
    BY <1>0, <1>1, <1>9 DEF Handled, Same, OfOrders
  <1> QED
    BY <1>0, <1>2, <1>3, <1>4, <1>5, <1>6, <1>7, <1>8, <1>9
    DEF EventType, OfOrders

(* A pass grants a plan only with a row it makes active.                   *)
LEMMA ConvergedGrants ==
    ASSUME NEW r \in Row, NEW p, NEW a,
           Converged(r, p, a).plan \notin {p, "free"}
    PROVE  /\ Converged(r, p, a).plan = r.tier
           /\ Converged(r, p, a).row.status = "active"
           /\ r.status # "active"
  <1> DEFINE target == LocalOf(a.status)
             row == [r EXCEPT !.end = Later(@, a.end)]
             moved == [row EXCEPT !.status = target]
             w == Converged(r, p, a)
  <1>1. w = IF r.status = "cancelled" \/ target = r.status
            THEN Same(row, p)
            ELSE CASE target = "active" -> Same(moved, r.tier)
                   [] target = "halted" -> Same(moved, "free")
                   [] target \in {"authenticated", "cancelled", "completed"}
                        -> Same(moved, p)
                   [] OTHER -> Same(row, p)
    BY DEF Converged
  <1>2. moved.status = target
    BY DEF Row
  <1> HIDE DEF target, row, moved, w
  <1>3. w.plan \notin {p, "free"}
    BY DEF w
  <1>4. w = Same(moved, r.tier) /\ target = "active" /\ r.status # "active"
    BY <1>1, <1>3 DEF Same
  <1>5. w.plan = r.tier /\ w.row.status = "active"
    BY <1>2, <1>4 DEF Same
  <1> QED
    BY <1>4, <1>5 DEF w

LEMMA MergedStatus ==
    ASSUME NEW db \in Row, NEW read, NEW want
    PROVE  Merge(db, read, want).status =
             IF want.status # read.status THEN want.status ELSE db.status
  <1>1. "status" \in DOMAIN db
    BY DEF Row
  <1> QED
    BY <1>1 DEF Merge

(* A row of a lifetime purchase is active from its capture on, no second   *)
(* row is, and the plan says "ltd" only then.                              *)
LEMMA LtdKept ==
    ASSUME IInv, LtdInv,
           OneActive(local)',
           \A s \in Subs : local[s] # NoRow =>
             (rzp'[s].tier = "ltd") = (rzp[s].tier = "ltd"),
           \A s \in Subs : LtdActive(s) => local'[s].status = "active",
           \A n \in Ids : sent'[n] = sent[n],
           \A u \in txns' : \E t \in txns : t.id = u.id /\ t.row = u.row,
           plan' = "ltd" => plan = "ltd" \/ LtdHeld'
    PROVE  LtdInv'
  <1>1. \A s \in Subs : LtdActive(s) => local[s] # NoRow
    BY DEF LtdActive, NoRow
  <1>2. \A s \in Subs : LtdActive(s) => LtdActive(s)'
    BY <1>1 DEF LtdActive
  <1>3. LtdHeld => LtdHeld'
    BY <1>2 DEF LtdHeld
  <1>4. plan' = "ltd" => LtdHeld'
    BY <1>3 DEF LtdInv
  <1>5. ASSUME NEW u \in txns'
        PROVE  ReadsWell(u.row, sent[u.id].sub)'
    <2>1. PICK t \in txns : t.id = u.id /\ t.row = u.row
      OBVIOUS
    <2>2. ReadsWell(t.row, sent[t.id].sub) /\ ReadOf(t.row, sent[t.id].sub)
      BY DEF LtdInv, IInv, TxnInv
    <2>3. PICK s \in Subs : s = sent[t.id].sub /\ s = sent'[u.id].sub
      BY <2>1, SentEvent DEF IInv, TxnInv, Ids
    <2> SUFFICES ASSUME t.row.status = "active", rzp'[s].tier = "ltd"
                 PROVE  local'[s].status = "active"
      BY <2>1, <2>3 DEF ReadsWell
    <2>4. local[s] # NoRow
      BY <2>2, <2>3 DEF ReadOf, NoRow
    <2>5. LtdActive(s)
      BY <2>2, <2>3, <2>4 DEF ReadsWell, LtdActive
    <2> QED
      BY <2>5
  <1> QED
    BY <1>4, <1>5 DEF LtdInv

(* A webhook without a row changes neither rows nor plan.                  *)
LEMMA EffectNothing ==
    ASSUME IInv, NEW n \in Ids, NEW p, NEW others, Effect(n, NoRow, p, others)
    PROVE  local' = local /\ plan' = plan
  <1> DEFINE s == sent[n].sub
             w == Handled(sent[n], NoRow, p)
  <1>1. s \in Subs /\ local[s] \in Row
    BY SentEvent DEF IInv, TypeOK, Ids
  <1>2. w.row = NoRow /\ w.plan = p
    BY HandledNothing
  <1>3. /\ local' = [local EXCEPT ![s] = Merge(local[s], NoRow, w.row)]
        /\ plan' = MergePlan(p, w.plan)
    BY DEF Effect, Stored
  <1> HIDE DEF s, w
  <1>4. Merge(local[s], NoRow, w.row) = local[s]
    BY <1>1, <1>2, MergeNothing
  <1>5. [local EXCEPT ![s] = local[s]] = local
    BY <1>1 DEF IInv, TypeOK
  <1> QED
    BY <1>2, <1>3, <1>4, <1>5 DEF MergePlan

(* The commit of a webhook, whatever it read well.                         *)
LEMMA EffectLtd ==
    ASSUME IInv, LtdInv, NEW n \in Ids, NEW r \in Row, NEW p, NEW others,
           ReadOf(r, sent[n].sub), ReadsWell(r, sent[n].sub),
           Effect(n, r, p, others)
    PROVE  /\ OneActive(local')
           /\ \A s \in Subs : LtdActive(s) => local'[s].status = "active"
           /\ plan' = "ltd" =>
                plan = "ltd" \/ \E s \in Subs : local'[s].status = "active"
                                                /\ rzp[s].tier = "ltd"
           /\ plan = "ltd" /\ plan' \notin {"ltd", "free"} =>
                r.status = "active" /\ r.tier # "ltd"
           /\ /\ local[sent[n].sub].status \in Over
              /\ r.status \in Over
              /\ sent[n].type # "activated"
              => local'[sent[n].sub].status \in Over
  <1> DEFINE e == sent[n]
             s == e.sub
             w == Handled(e, r, p)
             m == Merge(local[s], r, w.row)
             buys == e.type = "captured" /\ r.tier = "ltd"
  <1>0. CASE r = NoRow
    <2>1. local' = local /\ plan' = plan
      BY <1>0, EffectNothing
    <2> QED
      BY <2>1 DEF LtdInv, LtdActive
  <1> SUFFICES ASSUME r # NoRow
               PROVE  /\ OneActive(local')
                      /\ \A x \in Subs :
                           LtdActive(x) => local'[x].status = "active"
                      /\ plan' = "ltd" =>
                           plan = "ltd" \/ \E x \in Subs :
                             local'[x].status = "active" /\ rzp[x].tier = "ltd"
                      /\ plan = "ltd" /\ plan' \notin {"ltd", "free"} =>
                           r.status = "active" /\ r.tier # "ltd"
                      /\ /\ local[s].status \in Over
                         /\ r.status \in Over
                         /\ e.type # "activated"
                         => local'[s].status \in Over
    BY <1>0
  <1>1. e \in Event /\ s \in Subs /\ EventBacked(e) /\ Shaped(r, s)
    BY SentEvent DEF IInv, EventInv, Ids, ReadOf
  <1>2. local[s] \in Row
    BY <1>1 DEF IInv, TypeOK
  <1>3. /\ local' = [local EXCEPT ![s] = m]
        /\ OneActive(local')
        /\ plan' = MergePlan(p, w.plan)
    BY DEF Effect, MayWrite, Stored
  <1>4. /\ w.plan \notin {p, "free"} =>
             \/ buys
             \/ /\ rzp[s].tier # "ltd"
                /\ w.plan # "ltd"
                /\ r.status = "active" \/ w.row.status = "active"
        /\ buys => w.row.status = "active" /\ w.plan = "ltd"
        /\ e.type \in OfOrders /\ ~buys => w.row = r /\ w.plan = p
    BY <1>1, HandledGrants DEF IInv
  <1>5. r.status \in Over /\ e.type # "activated" => w.row.status \in Over
    BY <1>1, HandledOver DEF IInv
  <1> HIDE DEF w
  <1>6. m.status = IF w.row.status # r.status THEN w.row.status
                   ELSE local[s].status
    BY <1>2, MergedStatus
  <1>7. plan' = IF w.plan # p THEN w.plan ELSE plan
    BY <1>3 DEF MergePlan
  <1> HIDE DEF m
  <1>8. local'[s] = m /\ \A x \in Subs \ {s} : local'[x] = local[x]
    BY <1>1, <1>3 DEF IInv, TypeOK
  <1>9. /\ rzp[s].tier = "ltd" => e.type \in OfOrders
        /\ (r.tier = "ltd") = (rzp[s].tier = "ltd")
        /\ buys => rzp[s].tier = "ltd"
    BY <1>1 DEF EventBacked, Shaped
  <1>10. r.status = "active" /\ rzp[s].tier = "ltd" =>
              local[s].status = "active"
    BY DEF ReadsWell
  <1> HIDE DEF s, e, buys
  <1>11. buys => m.status = "active"
    BY <1>4, <1>6, <1>9, <1>10
  <1>12. \A x \in Subs : LtdActive(x) => local'[x].status = "active"
    <2> SUFFICES ASSUME NEW x \in Subs, LtdActive(x)
                 PROVE  local'[x].status = "active"
      OBVIOUS
    <2>1. local[x].status = "active" /\ rzp[x].tier = "ltd"
      BY DEF LtdActive
    <2>2. CASE x = s /\ e.type \in OfOrders /\ ~buys
      BY <2>1, <2>2, <1>4, <1>6, <1>8
    <2>3. CASE x = s /\ buys
      BY <2>3, <1>8, <1>11
    <2> QED
      BY <2>1, <2>2, <2>3, <1>8, <1>9
  <1>13. plan' = "ltd" =>
           plan = "ltd" \/ \E x \in Subs : local'[x].status = "active"
                                           /\ rzp[x].tier = "ltd"
    <2> SUFFICES ASSUME plan' = "ltd", plan # "ltd"
                 PROVE  local'[s].status = "active" /\ rzp[s].tier = "ltd"
      BY <1>1 DEF s
    <2>1. w.plan \notin {p, "free"} /\ w.plan = "ltd"
      BY <1>7
    <2>2. buys
      BY <2>1, <1>4
    <2> QED
      BY <2>2, <1>8, <1>9, <1>11
  <1>14. plan = "ltd" /\ plan' \notin {"ltd", "free"} =>
           r.status = "active" /\ r.tier # "ltd"
    <2> SUFFICES ASSUME plan = "ltd", plan' \notin {"ltd", "free"}
                 PROVE  r.status = "active" /\ r.tier # "ltd"
      OBVIOUS
    <2>1. w.plan \notin {p, "free"} /\ w.plan # "ltd"
      BY <1>7
    <2>2. rzp[s].tier # "ltd" /\ (r.status = "active" \/ w.row.status = "active")
      BY <2>1, <1>4
    <2>3. ASSUME r.status # "active" PROVE FALSE
      <3>1. local'[s].status = "active"
        BY <2>2, <2>3, <1>6, <1>8
      <3>2. PICK x \in Subs : LtdActive(x)
        BY DEF LtdInv, LtdHeld
      <3>3. x # s /\ local'[x].status = "active"
        BY <2>2, <3>2, <1>12 DEF LtdActive
      <3> QED
        BY <3>1, <3>3, <1>1, <1>3 DEF OneActive, s
    <2> QED
      BY <2>2, <2>3, <1>9
  <1>15. local[s].status \in Over /\ r.status \in Over /\ e.type # "activated"
           => local'[s].status \in Over
    BY <1>5, <1>6, <1>8
  <1> QED
    BY <1>3, <1>12, <1>13, <1>14, <1>15

LEMMA ConvergeLtd ==
    ASSUME IInv, LtdInv, NEW s \in Subs, Converge(s)
    PROVE  /\ OneActive(local')
           /\ \A x \in Subs : LtdActive(x) => local'[x].status = "active"
           /\ plan' = "ltd" => plan = "ltd"
           /\ plan = "ltd" => plan' \in {"ltd", "free"}
  <1> DEFINE w == Converged(mem[s], plan, got)
             m == Merge(local[s], mem[s], w.row)
  <1>1. /\ phase = "set1" /\ s \in todo
        /\ OneActive(local')
        /\ local' = [local EXCEPT ![s] = m]
        /\ plan' = w.plan
    BY DEF Converge, MayWrite, Stored
  <1>2. /\ mem[s] \in Row /\ local[s] \in Row
        /\ mem[s].tier # "ltd" /\ rzp[s].tier # "ltd"
    BY <1>1 DEF IInv, TypeOK, PassInv, Shaped
  <1>3. w.plan \notin {plan, "free"} =>
          /\ w.plan = mem[s].tier
          /\ w.row.status = "active"
          /\ mem[s].status # "active"
    BY <1>2, ConvergedGrants
  <1> HIDE DEF w
  <1>4. m.status = IF w.row.status # mem[s].status THEN w.row.status
                   ELSE local[s].status
    BY <1>2, MergedStatus
  <1> HIDE DEF m
  <1>5. local'[s] = m /\ \A x \in Subs \ {s} : local'[x] = local[x]
    BY <1>1 DEF IInv, TypeOK
  <1>6. \A x \in Subs : LtdActive(x) => x # s /\ local'[x].status = "active"
    BY <1>2, <1>5 DEF LtdActive
  <1>7. ASSUME plan = "ltd", plan' \notin {"ltd", "free"}
        PROVE  FALSE
    <2>1. local'[s].status = "active"
      BY <1>1, <1>3, <1>4, <1>5, <1>7
    <2>2. PICK x \in Subs : LtdActive(x)
      BY <1>7 DEF LtdInv, LtdHeld
    <2> QED
      BY <2>1, <2>2, <1>1, <1>6 DEF OneActive
  <1> QED
    BY <1>1, <1>2, <1>3, <1>6, <1>7

LEMMA EmitKeeps ==
    ASSUME TypeOK, NEW s, NEW types, Len(types) \in Nat, NEW end, NEW t,
           NEW of, Emit(s, types, end, t, of)
    PROVE  \A n \in Ids : sent'[n] = sent[n]
  <1> DEFINE new == [i \in 1 .. Len(types) |->
           [type |-> types[i], sub |-> s, end |-> end, tier |-> t, of |-> of]]
             Any == {new[i] : i \in 1 .. Len(types)}
  <1>1. new \in Seq(Any)
    OBVIOUS
  <1>2. sent \in Seq(Event) /\ sent' = sent \o new
    BY DEF Emit, TypeOK
  <1>3. \A n \in 1 .. Len(sent) : (sent \o new)[n] = sent[n]
    <2> HIDE DEF new, Any
    <2> QED
      BY <1>1, <1>2
  <1> QED
    BY <1>2, <1>3 DEF Ids

(* Razorpay never turns a subscription into a lifetime purchase.           *)
LEMMA RzpKeepsKinds ==
    ASSUME IInv, NEW s \in Subs,
           RzpStep(s) \/ (\E n \in Ids : RzpRefund(n))
    PROVE  /\ UNCHANGED <<database, txns>>
           /\ \A x \in Subs : (rzp'[x].tier = "ltd") = (rzp[x].tier = "ltd")
           /\ \A n \in Ids : sent'[n] = sent[n]
  <1>0. TypeOK /\ \A x \in Subs : rzp[x] \in [status : RzpStatus,
               tier : Tiers \cup {"none"}, end : 0 .. MaxNow, ending : BOOLEAN]
    BY DEF IInv, TypeOK
  <1>1. ASSUME NEW from, NEW to, NEW end, NEW types, Len(types) \in Nat,
               Moves(s, from, to, end, types)
        PROVE  /\ \A x \in Subs : rzp'[x].tier = rzp[x].tier
               /\ \A n \in Ids : sent'[n] = sent[n]
    <2>1. rzp' = [rzp EXCEPT ![s].status = to, ![s].end = end]
            /\ Emit(s, types, end, rzp[s].tier, 0)
      BY <1>1 DEF Moves
    <2>2. rzp'[s].tier = rzp[s].tier /\ \A x \in Subs \ {s} : rzp'[x] = rzp[x]
      BY <1>0, <2>1 DEF TypeOK
    <2>3. \A n \in Ids : sent'[n] = sent[n]
      BY <1>0, <1>1, <2>1, EmitKeeps
    <2> QED
      BY <2>2, <2>3
  <1>2. CASE RzpUnchanged /\ \E t \in Tiers : RzpUpdate(s, t)
    <2>1. PICK t \in Tiers : RzpUpdate(s, t)
      BY <1>2
    <2>2. /\ rzp' = [rzp EXCEPT ![s].tier = t]
          /\ rzp[s].tier # "ltd" /\ t # "ltd"
          /\ Emit(s, <<"updated">>, rzp[s].end, t, 0)
      BY <2>1 DEF RzpUpdate, Recurring
    <2>3. \A n \in Ids : sent'[n] = sent[n]
      BY <1>0, <2>2, EmitKeeps
    <2>4. rzp'[s].tier = t /\ \A x \in Subs \ {s} : rzp'[x] = rzp[x]
      BY <1>0, <2>2 DEF TypeOK
    <2> QED
      BY <1>2, <2>2, <2>3, <2>4 DEF RzpUnchanged
  <1>3. CASE RzpUnchanged /\ \E n \in Ids : RzpRefund(n)
    <2>1. PICK n \in Ids : RzpRefund(n)
      BY <1>3
    <2>2. rzp' = rzp /\ Emit(sent[n].sub, <<"refunded">>, 0, sent[n].tier, n)
      BY <2>1 DEF RzpRefund
    <2>3. \A i \in Ids : sent'[i] = sent[i]
      BY <1>0, <2>2, EmitKeeps
    <2> QED
      BY <1>3, <2>2, <2>3 DEF RzpUnchanged
  <1>4. ASSUME NEW from, NEW to, NEW end, NEW a, NEW types,
               types = <<>> \/ types = <<a>> \/ types = <<a, "charged">>,
               Moves(s, from, to, end, types), RzpUnchanged
        PROVE  /\ UNCHANGED <<database, txns>>
               /\ \A x \in Subs : (rzp'[x].tier = "ltd") = (rzp[x].tier = "ltd")
               /\ \A n \in Ids : sent'[n] = sent[n]
    <2>1. Len(types) \in Nat
      BY <1>4
    <2> QED
      BY <1>1, <1>4, <2>1 DEF RzpUnchanged
  <1>5. CASE RzpAuthenticate(s)
    BY <1>4, <1>5 DEF RzpAuthenticate
  <1>6. CASE RzpActivate(s)
    BY <1>4, <1>6 DEF RzpActivate
  <1>7. CASE RzpRenew(s)
    BY <1>4, <1>7 DEF RzpRenew
  <1>8. CASE RzpPending(s)
    BY <1>4, <1>8 DEF RzpPending
  <1>9. CASE RzpHalt(s)
    BY <1>4, <1>9 DEF RzpHalt
  <1>10. CASE RzpCancel(s)
    BY <1>4, <1>10 DEF RzpCancel
  <1>11. CASE RzpComplete(s)
    BY <1>4, <1>11 DEF RzpComplete
  <1>12. CASE RzpCapture(s)
    BY <1>4, <1>12 DEF RzpCapture
  <1>13. CASE RzpPaymentFails(s)
    BY <1>4, <1>13 DEF RzpPaymentFails
  <1>14. (\E t \in Tiers : RzpUpdate(s, t)) \/ (\E n \in Ids : RzpRefund(n))
           => RzpUnchanged
    BY DEF RzpUpdate, RzpRefund
  <1>15. CASE RzpCaptureCharge(s)
    BY <1>4, <1>15 DEF RzpCaptureCharge
  <1>16. CASE RzpExpire(s)
    BY <1>4, <1>16 DEF RzpExpire
  <1>17. CASE RzpPause(s)
    BY <1>4, <1>17 DEF RzpPause
  <1>18. CASE RzpResume(s)
    BY <1>4, <1>18 DEF RzpResume
  <1> QED
    BY <1>2, <1>3, <1>5, <1>6, <1>7, <1>8, <1>9, <1>10, <1>11, <1>12, <1>13,
       <1>14, <1>15, <1>16, <1>17, <1>18 DEF RzpStep

(* One step of the action properties on the plan and on what is over.      *)
KeepsLtd ==
    plan = "ltd" /\ plan' \notin {"ltd", "free"}
        => \E t \in txns \ txns' : t.row.status = "active" /\ t.row.tier # "ltd"

KeepsOver ==
    \A n \in seen' \ seen :
        LET s == sent[n].sub
        IN  local[s].status \in Over /\ local'[s].status \in NonTerminal
            => \/ sent[n].type = "activated"
               \/ \E t \in txns \ txns' : t.row.status \notin Over

(* Steps that touch no row and nothing a transaction read of one.          *)
LEMMA QuietStep ==
    ASSUME IInv, LtdInv, UNCHANGED <<local, seen>>,
           plan' \in {plan, "free"},
           \A u \in txns' : \E t \in txns : t.id = u.id /\ t.row = u.row,
           \A s \in Subs : local[s] # NoRow =>
             (rzp'[s].tier = "ltd") = (rzp[s].tier = "ltd"),
           \A n \in Ids : sent'[n] = sent[n]
    PROVE  LtdInv' /\ KeepsLtd /\ KeepsOver
  <1>1. OneActive(local)'
    BY DEF LtdInv, OneActive
  <1>2. \A s \in Subs : LtdActive(s) => local'[s].status = "active"
    BY DEF LtdActive
  <1>3. plan' = "ltd" => plan = "ltd"
    OBVIOUS
  <1>4. LtdInv'
    BY <1>1, <1>2, <1>3, LtdKept
  <1> QED
    BY <1>4 DEF KeepsLtd, KeepsOver

LEMMA RowStepLtd ==
    ASSUME IInv, LtdInv, NEW s \in Subs, SubscribeCommit(s) \/ CancelCommit(s)
    PROVE  LtdInv' /\ KeepsLtd /\ KeepsOver
  <1> USE DEF razorpay
  <1>1. UNCHANGED <<plan, seen, txns, rzp, sent>>
    BY DEF SubscribeCommit, CancelCommit
  <1>2. /\ local'[s].status = "active" => local[s].status = "active"
        /\ LtdActive(s) => local'[s].status = "active"
        /\ \A x \in Subs \ {s} : local'[x] = local[x]
    <2>1. CASE SubscribeCommit(s)
      <3>1. /\ local[s] = NoRow
            /\ local' = [local EXCEPT ![s] = [NoRow EXCEPT !.status = "created",
                                                   !.tier = rzp[s].tier]]
        BY <2>1 DEF SubscribeCommit
      <3>2. local'[s].status = "created"
        BY <3>1 DEF IInv, TypeOK, NoRow
      <3> QED
        BY <3>1, <3>2 DEF IInv, TypeOK, NoRow, LtdActive
    <2>2. CASE CancelCommit(s)
      <3>1. local' = [local EXCEPT ![s] = Scheduled(s)] /\ local[s] \in Row
        BY <2>2 DEF CancelCommit, IInv, TypeOK
      <3>2. local'[s].status = local[s].status
        BY <3>1 DEF Scheduled, IInv, TypeOK, Row
      <3> QED
        BY <3>1, <3>2 DEF IInv, TypeOK, LtdActive
    <2> QED
      BY <2>1, <2>2
  <1>3. OneActive(local)'
    BY <1>2 DEF LtdInv, OneActive
  <1>4. \A x \in Subs : LtdActive(x) => local'[x].status = "active"
    BY <1>2 DEF LtdActive
  <1>5. LtdInv'
    BY <1>1, <1>3, <1>4, LtdKept
  <1> QED
    BY <1>1, <1>5 DEF KeepsLtd, KeepsOver

LEMMA OverIsNotOpen == Over \cap NonTerminal = {}
  BY DEF Over, Terminal, NonTerminal, Blocking

LEMMA RouterLtd ==
    ASSUME IInv, LtdInv, NEW n \in Ids, Webhook(n)
    PROVE  LtdInv' /\ KeepsLtd /\ KeepsOver
  <1> USE DEF razorpay
  <1> DEFINE s == sent[n].sub
  <1>1. s \in Subs
    BY SentEvent DEF IInv, Ids
  <1>2. PICK r, p, others : r = local[s] /\ p = plan /\ others = txns
    OBVIOUS
  <1>3. r \in Row /\ ReadOf(r, s) /\ ReadsWell(r, s)
    BY <1>1, <1>2 DEF IInv, TypeOK, RowInv, ReadOf, ReadsWell
  <1>4. /\ Effect(n, r, p, others)
        /\ UNCHANGED <<txns, rzp, sent>>
    BY <1>2 DEF Webhook
  <1>5. seen' = seen \cup {n}
    BY <1>4 DEF Effect
  <1>6. /\ OneActive(local')
        /\ \A x \in Subs : LtdActive(x) => local'[x].status = "active"
        /\ plan' = "ltd" =>
             plan = "ltd" \/ \E x \in Subs : local'[x].status = "active"
                                             /\ rzp[x].tier = "ltd"
        /\ plan = "ltd" /\ plan' \notin {"ltd", "free"} =>
             r.status = "active" /\ r.tier # "ltd"
        /\ /\ local[s].status \in Over
           /\ r.status \in Over
           /\ sent[n].type # "activated"
           => local'[s].status \in Over
    BY <1>3, <1>4, EffectLtd
  <1>7. r = NoRow \/ (r.tier = "ltd") = (rzp[s].tier = "ltd")
    BY <1>3 DEF ReadOf, Shaped
  <1> HIDE DEF s
  <1>8. LtdInv'
    <2>1. OneActive(local)'
      BY <1>6 DEF OneActive
    <2>2. plan' = "ltd" => plan = "ltd" \/ LtdHeld'
      BY <1>4, <1>6 DEF LtdHeld, LtdActive
    <2>3. \A u \in txns' : \E t \in txns : t.id = u.id /\ t.row = u.row
      BY <1>4
    <2> QED
      BY <1>4, <1>6, <2>1, <2>2, <2>3, LtdKept
  <1>9. KeepsLtd
    <2> SUFFICES ASSUME plan = "ltd", plan' \notin {"ltd", "free"}
                 PROVE  FALSE
      BY DEF KeepsLtd
    <2>1. local[s].status = "active" /\ rzp[s].tier # "ltd"
      BY <1>2, <1>6, <1>7 DEF NoRow
    <2>2. PICK x \in Subs : LtdActive(x)
      BY DEF LtdInv, LtdHeld
    <2> QED
      BY <1>1, <2>1, <2>2 DEF LtdInv, OneActive, LtdActive
  <1>10. KeepsOver
    BY <1>2, <1>5, <1>6, OverIsNotOpen DEF KeepsOver, s
  <1> QED
    BY <1>8, <1>9, <1>10

LEMMA BeginLtd ==
    ASSUME IInv, LtdInv, NEW n \in Ids, WebhookBegin(n)
    PROVE  LtdInv' /\ KeepsLtd /\ KeepsOver
  <1> DEFINE new == [id |-> n, row |-> local[sent[n].sub], plan |-> "unread"]
  <1>1. /\ txns' = txns \cup {new}
        /\ UNCHANGED <<local, plan, seen, rzp, sent>>
    BY DEF WebhookBegin, database, razorpay
  <1>2. ReadsWell(new.row, sent[new.id].sub)
    BY DEF ReadsWell
  <1> HIDE DEF new
  <1>3. ASSUME NEW t \in txns'
        PROVE  ReadsWell(t.row, sent[t.id].sub)'
    BY <1>1, <1>2, <1>3 DEF LtdInv, ReadsWell
  <1>4. OneActive(local)' /\ (plan' = "ltd" => LtdHeld')
    BY <1>1 DEF LtdInv, OneActive, LtdHeld, LtdActive
  <1> QED
    BY <1>1, <1>3, <1>4 DEF LtdInv, KeepsLtd, KeepsOver

LEMMA TxnLtd ==
    ASSUME IInv, LtdInv, NEW t \in txns,
           WebhookReadPlan(t) \/ WebhookCommit(t) \/ WebhookRollback(t)
    PROVE  LtdInv' /\ KeepsLtd /\ KeepsOver
  <1> USE DEF razorpay
  <1>1. CASE WebhookReadPlan(t) \/ WebhookRollback(t)
    <2>1. UNCHANGED <<local, seen, plan, rzp, sent>>
      BY <1>1 DEF WebhookReadPlan, WebhookRollback, database
    <2>2. \A u \in txns' : \E x \in txns : x.id = u.id /\ x.row = u.row
      <3>1. txns' \subseteq txns \cup {[t EXCEPT !.plan = plan]}
        BY <1>1 DEF WebhookReadPlan, WebhookRollback
      <3>2. /\ [t EXCEPT !.plan = plan].id = t.id
            /\ [t EXCEPT !.plan = plan].row = t.row
        BY DEF IInv, TypeOK, Txn
      <3> QED
        BY <3>1, <3>2
    <2> QED
      BY <2>1, <2>2, QuietStep
  <1>2. CASE WebhookCommit(t)
    <2>1. PICK n, r, p, others : /\ n = t.id /\ r = t.row /\ p = t.plan
                                 /\ others = txns \ {t}
      OBVIOUS
    <2> DEFINE s == sent[n].sub
    <2>2. n \in Ids /\ r \in Row /\ ReadOf(r, s) /\ ReadsWell(r, s)
      BY <2>1 DEF IInv, TxnInv, TypeOK, Txn, LtdInv
    <2>3. /\ Effect(n, r, p, others)
          /\ txns' = txns \ {t}
          /\ UNCHANGED <<rzp, sent>>
      BY <1>2, <2>1 DEF WebhookCommit
    <2>4. seen' = seen \cup {n}
      BY <2>3 DEF Effect
    <2>5. /\ OneActive(local')
          /\ \A x \in Subs : LtdActive(x) => local'[x].status = "active"
          /\ plan' = "ltd" =>
               plan = "ltd" \/ \E x \in Subs : local'[x].status = "active"
                                               /\ rzp[x].tier = "ltd"
          /\ plan = "ltd" /\ plan' \notin {"ltd", "free"} =>
               r.status = "active" /\ r.tier # "ltd"
          /\ /\ local[s].status \in Over
             /\ r.status \in Over
             /\ sent[n].type # "activated"
             => local'[s].status \in Over
      BY <2>2, <2>3, EffectLtd
    <2>6. t \in txns \ txns'
      BY <2>3
    <2> HIDE DEF s
    <2>7. LtdInv'
      <3>1. OneActive(local)'
        BY <2>5 DEF OneActive
      <3>2. plan' = "ltd" => plan = "ltd" \/ LtdHeld'
        BY <2>3, <2>5 DEF LtdHeld, LtdActive
      <3>3. \A u \in txns' : \E x \in txns : x.id = u.id /\ x.row = u.row
        BY <2>3
      <3> QED
        BY <2>3, <2>5, <3>1, <3>2, <3>3, LtdKept
    <2>8. KeepsLtd
      BY <2>1, <2>5, <2>6 DEF KeepsLtd
    <2>9. KeepsOver
      BY <2>1, <2>4, <2>5, <2>6, OverIsNotOpen DEF KeepsOver, s
    <2> QED
      BY <2>7, <2>8, <2>9
  <1> QED
    BY <1>1, <1>2

LEMMA PassLtd ==
    ASSUME IInv, LtdInv,
           PassStep \/ PassDies \/ Tick \/ (\E s \in Subs : FetchFails(s))
    PROVE  LtdInv' /\ KeepsLtd /\ KeepsOver
  <1> USE DEF razorpay, database
  <1>1. CASE \E s \in Subs : Converge(s)
    <2>1. PICK s \in Subs : Converge(s)
      BY <1>1
    <2>2. UNCHANGED <<seen, txns, rzp, sent>>
      BY <2>1 DEF Converge
    <2>3. /\ OneActive(local')
          /\ \A x \in Subs : LtdActive(x) => local'[x].status = "active"
          /\ plan' = "ltd" => plan = "ltd"
          /\ plan = "ltd" => plan' \in {"ltd", "free"}
      BY <2>1, ConvergeLtd
    <2>4. OneActive(local)'
      BY <2>3 DEF OneActive
    <2>5. LtdInv'
      BY <2>2, <2>3, <2>4, LtdKept
    <2> QED
      BY <2>2, <2>3, <2>5 DEF KeepsLtd, KeepsOver
  <1>2. ASSUME ~(\E s \in Subs : Converge(s))
        PROVE  UNCHANGED <<local, seen, txns, rzp, sent>>
                 /\ plan' \in {plan, "free"}
    BY <1>2 DEF PassStep, PassDies, Tick, FetchFails, PassBegin, Fetch,
        ConvergeRefused, SweepBegin, Sweep, PassEnd
  <1> QED
    BY <1>1, <1>2, QuietStep

LEMMA LtdInit == Init => LtdInv
  BY BillingAssumption DEF Init, LtdInv, OneActive, NoRow

LEMMA LtdStep == IInv /\ LtdInv /\ [Next]_vars => LtdInv' /\ [KeepsLtd /\ KeepsOver]_vars
  <1> SUFFICES ASSUME IInv, LtdInv, [Next]_vars
               PROVE  LtdInv' /\ [KeepsLtd /\ KeepsOver]_vars
    OBVIOUS
  <1>1. CASE UNCHANGED vars
    <2>1. UNCHANGED <<local, seen, plan, txns, rzp, sent>>
      BY <1>1 DEF vars
    <2> QED
      BY <1>1, <2>1, QuietStep
  <1>2. CASE \E s \in Subs, t \in Tiers : SubscribePlace(s, t)
    <2>1. PICK s \in Subs, t \in Tiers : SubscribePlace(s, t)
      BY <1>2
    <2>2. /\ UNCHANGED <<local, seen, plan, txns, sent>>
          /\ rzp[s] = NoSub
          /\ \A x \in Subs \ {s} : rzp'[x] = rzp[x]
      BY <2>1 DEF SubscribePlace, database, IInv, TypeOK
    <2>3. local[s] = NoRow
      BY <2>2 DEF IInv, RowInv
    <2> QED
      BY <2>2, <2>3, QuietStep
  <1>3. CASE \E s \in Subs : SubscribeCommit(s) \/ CancelCommit(s)
    BY <1>3, RowStepLtd
  <1>4. CASE \E s \in Subs : CancelAsk(s)
    <2>1. PICK s \in Subs : CancelAsk(s)
      BY <1>4
    <2>2. /\ UNCHANGED <<local, seen, plan, txns, sent>>
          /\ rzp' = [rzp EXCEPT ![s].ending = TRUE]
      BY <2>1 DEF CancelAsk, database
    <2>3. rzp[s] \in [status : RzpStatus, tier : Tiers \cup {"none"},
                      end : 0 .. MaxNow, ending : BOOLEAN]
      BY DEF IInv, TypeOK
    <2>4. \A x \in Subs : rzp'[x].tier = rzp[x].tier
      BY <2>2, <2>3 DEF IInv, TypeOK
    <2> QED
      BY <2>2, <2>4, QuietStep
  <1>5. CASE \/ \E s \in Subs : RzpStep(s)
             \/ \E n \in Ids : RzpRefund(n)
    <2>1. PICK s \in Subs : RzpStep(s) \/ \E n \in Ids : RzpRefund(n)
      BY <1>5, SentEvent DEF IInv, Ids
    <2>2. /\ UNCHANGED <<database, txns>>
          /\ \A x \in Subs : (rzp'[x].tier = "ltd") = (rzp[x].tier = "ltd")
          /\ \A n \in Ids : sent'[n] = sent[n]
      BY <2>1, RzpKeepsKinds
    <2> QED
      BY <2>2, QuietStep DEF database
  <1>6. CASE \E n \in Ids : Webhook(n) \/ WebhookBegin(n)
    BY <1>6, RouterLtd, BeginLtd
  <1>7. CASE \E t \in txns :
              WebhookReadPlan(t) \/ WebhookCommit(t) \/ WebhookRollback(t)
    BY <1>7, TxnLtd
  <1>8. CASE PassStep \/ PassDies \/ Tick \/ (\E s \in Subs : FetchFails(s))
    BY <1>8, PassLtd
  <1> QED
    BY <1>1, <1>2, <1>3, <1>4, <1>5, <1>6, <1>7, <1>8 DEF Next

LEMMA LtdInductive == Spec => []LtdInv
  BY LtdInit, LtdStep, Inductive, PTL DEF Spec

(* A recurring subscription takes the plan from a lifetime purchase only   *)
(* through a webhook transaction that read its own row as active before    *)
(* the capture, wherever the capture falls among its reads: the unique     *)
(* index stops every other way.                                            *)
THEOREM LtdKeepsPlan == Spec => LtdNotReplaced
  <1>1. IInv /\ LtdInv /\ [Next]_vars => [KeepsLtd]_vars
    BY LtdStep
  <1> QED
    BY <1>1, Inductive, LtdInductive, PTL DEF Spec, LtdNotReplaced, KeepsLtd

(* No late charge, retry or plan change reopens a row that was over when   *)
(* its transaction read it.                                                *)
THEOREM OverStaysOver == Spec => WebhooksRespectOver
  <1>1. IInv /\ LtdInv /\ [Next]_vars => [KeepsOver]_vars
    BY LtdStep
  <1> QED
    BY <1>1, Inductive, LtdInductive, PTL
    DEF Spec, WebhooksRespectOver, KeepsOver

-----------------------------------------------------------------------------
(* The period.  A handler that read the row as it is takes its end back by *)
(* activated alone: the purchase clears an end that is never set.          *)
FreshInv ==
    \A t \in txns : /\ t.id \notin seen
                    /\ \A u \in txns : u.id = t.id => u = t

Covered(s) ==
    /\ local'[s].end >= local[s].end
    /\ \A n \in payments' \ payments :
         sent[n].type = "charged" /\ sent[n].sub = s
             => local'[s].end >= sent[n].end

Reset(s) == \E n \in seen' \ seen : sent[n].type = "activated" /\ sent[n].sub = s

KeepsPeriod ==
    \A s \in Subs :
        \/ Covered(s)
        \/ Reset(s)
        \/ ReadBefore(s)

LEMMA HandledEnd ==
    ASSUME TypeOK, RzpInv, NEW e \in Event, NEW r \in Row, NEW p,
           Shaped(r, e.sub), EventBacked(e), e.type # "activated"
    PROVE  LET w == Handled(e, r, p)
           IN  /\ w.row.end >= r.end
               /\ e.type = "charged" => w.row.end >= e.end
  <1>1. /\ r.end \in 0 .. MaxNow /\ e.end \in 0 .. MaxNow /\ MaxNow \in Nat
        /\ e.sub \in Subs /\ rzp[e.sub].end \in 0 .. MaxNow
    BY BillingAssumption DEF Row, Event, TypeOK
  <1>2. r # NoRow /\ e.type \in EventType
    BY ShapedIsRow DEF Event
  <1>3. CASE e.type = "authenticated"
    BY <1>1, <1>2, <1>3 DEF Handled, Authenticated, Same, Row
  <1>4. CASE e.type = "charged"
    <2> DEFINE row == [r EXCEPT !.end = Later(@, e.end),
                                !.status = IF @ = "past_due" THEN "active"
                                                             ELSE @]
    <2>1. Handled(e, r, p) = [row |-> row, plan |-> p]
      BY <1>2, <1>4 DEF Handled, Charged, Same
    <2>2. row.end = Later(r.end, e.end)
      BY DEF Row
    <2> HIDE DEF row
    <2> QED
      BY <1>1, <2>1, <2>2 DEF Later
  <1>5. CASE e.type = "pending"
    BY <1>1, <1>2, <1>5 DEF Handled, Pending, Same, Row
  <1>6. CASE e.type = "halted"
    BY <1>1, <1>2, <1>6 DEF Handled, Halted, Same, Row
  <1>7. CASE e.type = "cancelled"
    <2> DEFINE row == [r EXCEPT !.status = "cancelled", !.sched = TRUE]
    <2>1. Handled(e, r, p) = [row |-> row, plan |-> p]
      BY <1>2, <1>7 DEF Handled, Cancelled, Same
    <2>2. row.end = r.end
      BY DEF Row
    <2> HIDE DEF row
    <2> QED
      BY <1>1, <1>7, <2>1, <2>2
  <1>8. CASE e.type = "completed"
    BY <1>1, <1>2, <1>8 DEF Handled, Completed, Same, Row
  <1>9. CASE e.type = "updated"
    BY <1>1, <1>2, <1>9 DEF Handled, Updated, Same, Row
  <1>10. CASE e.type = "captured" /\ r.tier = "ltd"
    <2>1. rzp[e.sub].end = 0
      BY <1>1, <1>10 DEF Shaped, RzpInv
    <2>2. r.end = 0
      BY <1>1, <2>1 DEF Shaped
    <2>3. Handled(e, r, p).row.end = 0
      BY <1>2, <1>10 DEF Handled, Captured, Same, Row
    <2> QED
      BY <1>10, <2>2, <2>3
  <1>11. CASE \/ e.type \in {"failed", "refunded"}
              \/ e.type = "captured" /\ r.tier # "ltd"
    <2>1. Handled(e, r, p) = [row |-> r, plan |-> p]
      BY <1>2, <1>11 DEF Handled, Same
    <2> QED
      BY <1>1, <1>11, <2>1
  <1> QED
    BY <1>2, <1>3, <1>4, <1>5, <1>6, <1>7, <1>8, <1>9, <1>10, <1>11
    DEF EventType

LEMMA MergedEnd ==
    ASSUME NEW db \in Row, NEW read, NEW want
    PROVE  Merge(db, read, want).end =
             IF want.end # read.end THEN want.end ELSE db.end
  <1>1. "end" \in DOMAIN db
    BY DEF Row
  <1> QED
    BY <1>1 DEF Merge

LEMMA RowEnds ==
    ASSUME TypeOK, NEW s \in Subs
    PROVE  local[s] \in Row /\ local[s].end \in Int /\ mem[s].end \in Int
  BY BillingAssumption DEF TypeOK, Row

(* The commit of a webhook that is processed for the first time.           *)
LEMMA EffectPeriod ==
    ASSUME IInv, NEW n \in Ids, n \notin seen, NEW r \in Row, NEW p,
           NEW others, ReadOf(r, sent[n].sub), Effect(n, r, p, others),
           NEW s \in Subs
    PROVE  \/ Covered(s)
           \/ Reset(s)
           \/ s = sent[n].sub /\ r.end # local[s].end
  <1> DEFINE e == sent[n]
             w == Handled(e, r, p)
             m == Merge(local[e.sub], r, w.row)
  <1>1. e \in Event /\ e.sub \in Subs /\ EventBacked(e)
    BY SentEvent DEF IInv, EventInv, Ids
  <1>2. local[s] \in Row /\ local[s].end \in Int
    BY RowEnds DEF IInv
  <1>3. /\ local' = [local EXCEPT ![e.sub] = m]
        /\ seen' = seen \cup {n}
        /\ payments' = IF LeavesPayment(e, r) THEN payments \cup {n} ELSE payments
    BY DEF Effect, Stored
  <1>4. e.type = "charged" /\ r = NoRow => payments' = payments
    BY <1>3 DEF LeavesPayment
  <1>5. CASE s # e.sub
    <2>1. local'[s] = local[s]
      BY <1>1, <1>3, <1>5 DEF IInv, TypeOK
    <2>2. \A i \in payments' \ payments : sent[i].sub # s
      BY <1>3, <1>5
    <2> QED
      BY <1>2, <2>1, <2>2 DEF Covered
  <1>6. CASE r = NoRow
    <2>1. local' = local
      BY <1>6, EffectNothing
    <2>2. \A i \in payments' \ payments : sent[i].type # "charged"
      BY <1>3, <1>4, <1>6
    <2> QED
      BY <1>2, <2>1, <2>2 DEF Covered
  <1>7. CASE s = e.sub /\ e.type = "activated"
    BY <1>3, <1>7 DEF Reset
  <1>8. CASE s = e.sub /\ r # NoRow /\ e.type # "activated" /\ r.end = local[s].end
    <2>1. Shaped(r, e.sub)
      BY <1>8 DEF ReadOf
    <2>2. w.row.end >= r.end /\ (e.type = "charged" => w.row.end >= e.end)
      BY <1>1, <1>8, <2>1, HandledEnd DEF IInv
    <2>3. local'[s] = m
      BY <1>1, <1>3, <1>8 DEF IInv, TypeOK
    <2> HIDE DEF w
    <2>4. m.end = IF w.row.end # r.end THEN w.row.end ELSE local[s].end
      BY <1>2, <1>8, MergedEnd
    <2> HIDE DEF m
    <2>5. local'[s].end = w.row.end
      BY <1>8, <2>3, <2>4
    <2>6. \A i \in payments' \ payments : i = n
      BY <1>3
    <2>7. local'[s].end >= local[s].end
      BY <1>8, <2>2, <2>5
    <2>8. \A i \in payments' \ payments :
            sent[i].type = "charged" => local'[s].end >= sent[i].end
      BY <2>2, <2>5, <2>6
    <2> QED
      BY <2>7, <2>8 DEF Covered
  <1> QED
    BY <1>5, <1>6, <1>7, <1>8

(* Steps that write no row and process no webhook.                         *)
LEMMA QuietPeriod ==
    ASSUME IInv, FreshInv, UNCHANGED <<local, seen, payments>>,
           txns' \subseteq txns
    PROVE  FreshInv' /\ KeepsPeriod
  <1>1. \A s \in Subs : Covered(s)
    BY RowEnds DEF Covered, IInv
  <1> QED
    BY <1>1 DEF FreshInv, KeepsPeriod

LEMMA WebhookPeriod ==
    ASSUME IInv, FreshInv, NEW n \in Ids, Webhook(n)
    PROVE  FreshInv' /\ KeepsPeriod
  <1>1. sent[n].sub \in Subs
    BY SentEvent DEF IInv, Ids
  <1>2. PICK r, p, others : r = local[sent[n].sub] /\ p = plan /\ others = txns
    OBVIOUS
  <1>3. r \in Row /\ ReadOf(r, sent[n].sub)
    BY <1>1, <1>2 DEF IInv, TypeOK, RowInv, ReadOf
  <1>4. /\ n \notin seen /\ \A t \in txns : t.id # n
        /\ Effect(n, r, p, others) /\ seen' = seen \cup {n} /\ txns' = txns
    BY <1>2 DEF Webhook, Unclaimed, Effect
  <1>5. ASSUME NEW s \in Subs PROVE Covered(s) \/ Reset(s)
    BY <1>2, <1>3, <1>4, EffectPeriod
  <1> QED
    BY <1>4, <1>5 DEF FreshInv, KeepsPeriod

LEMMA TxnPeriod ==
    ASSUME IInv, FreshInv, NEW t \in txns,
           WebhookReadPlan(t) \/ WebhookCommit(t) \/ WebhookRollback(t)
    PROVE  FreshInv' /\ KeepsPeriod
  <1>0. t \in Txn /\ t.id \in Ids /\ ReadOf(t.row, sent[t.id].sub)
    BY DEF IInv, TxnInv, TypeOK
  <1>1. CASE WebhookRollback(t)
    BY <1>1, QuietPeriod DEF WebhookRollback, database
  <1>2. CASE WebhookReadPlan(t)
    <2> DEFINE new == [t EXCEPT !.plan = plan]
    <2>1. txns' = (txns \ {t}) \cup {new} /\ UNCHANGED <<local, seen, payments>>
      BY <1>2 DEF WebhookReadPlan, database
    <2>2. new.id = t.id
      BY <1>0 DEF Txn
    <2> HIDE DEF new
    <2>3. FreshInv'
      BY <2>1, <2>2 DEF FreshInv
    <2>4. \A s \in Subs : Covered(s)
      BY <2>1, RowEnds DEF Covered, IInv
    <2> QED
      BY <2>3, <2>4 DEF KeepsPeriod
  <1>3. CASE WebhookCommit(t)
    <2>1. PICK n, r, p, others : /\ n = t.id /\ r = t.row /\ p = t.plan
                                 /\ others = txns \ {t}
      OBVIOUS
    <2>2. n \in Ids /\ n \notin seen /\ r \in Row /\ ReadOf(r, sent[n].sub)
      BY <1>0, <2>1 DEF FreshInv, Txn
    <2>3. /\ Effect(n, r, p, others) /\ seen' = seen \cup {n}
          /\ txns' = txns \ {t}
      BY <1>3, <2>1 DEF WebhookCommit, Effect
    <2>4. ASSUME NEW s \in Subs PROVE Covered(s) \/ Reset(s) \/ ReadBefore(s)
      <3>1. \/ Covered(s)
            \/ Reset(s)
            \/ s = sent[n].sub /\ r.end # local[s].end
        BY <2>2, <2>3, EffectPeriod
      <3>2. s = sent[n].sub /\ r.end # local[s].end => ReadBefore(s)
        BY <2>1, <2>3 DEF ReadBefore
      <3> QED
        BY <3>1, <3>2
    <2>5. FreshInv'
      BY <2>1, <2>3 DEF FreshInv
    <2> QED
      BY <2>4, <2>5 DEF KeepsPeriod
  <1> QED
    BY <1>1, <1>2, <1>3

LEMMA RowStepPeriod ==
    ASSUME IInv, FreshInv, NEW s \in Subs, SubscribeCommit(s) \/ CancelCommit(s)
    PROVE  FreshInv' /\ KeepsPeriod
  <1>1. UNCHANGED <<seen, payments, txns>>
    BY DEF SubscribeCommit, CancelCommit
  <1>2. \A x \in Subs : local'[x].end = local[x].end
    <2>1. CASE SubscribeCommit(s)
      <3>1. /\ local[s] = NoRow
            /\ local' = [local EXCEPT ![s] = [NoRow EXCEPT !.status = "created",
                                                   !.tier = rzp[s].tier]]
        BY <2>1 DEF SubscribeCommit
      <3>2. local'[s].end = 0 /\ local[s].end = 0
        BY <3>1 DEF IInv, TypeOK, NoRow
      <3> QED
        BY <3>1, <3>2 DEF IInv, TypeOK
    <2>2. CASE CancelCommit(s)
      <3>1. local' = [local EXCEPT ![s] = Scheduled(s)] /\ local[s] \in Row
        BY <2>2 DEF CancelCommit, IInv, TypeOK
      <3>2. Scheduled(s).end = local[s].end
        BY <3>1 DEF Scheduled, Row
      <3> QED
        BY <3>1, <3>2 DEF IInv, TypeOK
    <2> QED
      BY <2>1, <2>2
  <1>3. \A x \in Subs : Covered(x)
    BY <1>1, <1>2, RowEnds DEF Covered, IInv
  <1> QED
    BY <1>1, <1>3 DEF FreshInv, KeepsPeriod

(* A pass extends the period of the row it loaded.                         *)
LEMMA ConvergePeriod ==
    ASSUME IInv, FreshInv, NEW s \in Subs, Converge(s)
    PROVE  FreshInv' /\ KeepsPeriod
  <1> DEFINE w == Converged(mem[s], plan, got)
             m == Merge(local[s], mem[s], w.row)
  <1>1. /\ s \in todo /\ todo' = todo \ {s}
        /\ local' = [local EXCEPT ![s] = m]
        /\ UNCHANGED <<seen, payments, txns>>
    BY DEF Converge, Stored, Visited
  <1>2. /\ mem[s] \in Row /\ local[s] \in Row /\ got.end \in Int
        /\ mem[s].end \in Int /\ local[s].end \in Int
    BY RowEnds, BillingAssumption DEF IInv, TypeOK
  <1>3. w.row.end = Later(mem[s].end, got.end)
    <2> DEFINE target == LocalOf(got.status)
               row == [mem[s] EXCEPT !.end = Later(@, got.end)]
               moved == [row EXCEPT !.status = target]
    <2>1. row.end = Later(mem[s].end, got.end) /\ moved.end = row.end
      BY <1>2 DEF Row
    <2>2. w = IF mem[s].status = "cancelled" \/ target = mem[s].status
              THEN Same(row, plan)
              ELSE CASE target = "active" -> Same(moved, mem[s].tier)
                     [] target = "halted" -> Same(moved, "free")
                     [] target \in {"authenticated", "cancelled", "completed"}
                          -> Same(moved, plan)
                     [] OTHER -> Same(row, plan)
      BY DEF Converged
    <2> HIDE DEF target, row, moved, w
    <2>3. w.row \in {row, moved}
      BY <2>2 DEF Same
    <2> QED
      BY <2>1, <2>3
  <1> HIDE DEF w
  <1>4. m.end = IF w.row.end # mem[s].end THEN w.row.end ELSE local[s].end
    BY <1>2, MergedEnd
  <1> HIDE DEF m
  <1>5. local'[s] = m /\ \A x \in Subs \ {s} : local'[x] = local[x]
    BY <1>1 DEF IInv, TypeOK
  <1>6. mem[s].end # local[s].end => ReadBefore(s)
    BY <1>1 DEF ReadBefore
  <1>7. ASSUME mem[s].end = local[s].end PROVE local'[s].end >= local[s].end
    BY <1>2, <1>3, <1>4, <1>5, <1>7 DEF Later
  <1>8. \A x \in Subs \ {s} : Covered(x)
    BY <1>1, <1>5, RowEnds DEF Covered, IInv
  <1>9. Covered(s) \/ ReadBefore(s)
    BY <1>1, <1>6, <1>7 DEF Covered
  <1> QED
    BY <1>1, <1>8, <1>9 DEF FreshInv, KeepsPeriod

LEMMA FreshInit == Init => FreshInv
  BY DEF Init, FreshInv

LEMMA PeriodStep == IInv /\ FreshInv /\ [Next]_vars => FreshInv' /\ [KeepsPeriod]_vars
  <1> SUFFICES ASSUME IInv, FreshInv, [Next]_vars
               PROVE  FreshInv' /\ [KeepsPeriod]_vars
    OBVIOUS
  <1>1. CASE UNCHANGED vars
    BY <1>1, QuietPeriod DEF vars
  <1>2. CASE \/ \E s \in Subs, t \in Tiers : SubscribePlace(s, t)
             \/ \E s \in Subs : CancelAsk(s)
    BY <1>2, QuietPeriod DEF SubscribePlace, CancelAsk, database
  <1>3. CASE \E s \in Subs : SubscribeCommit(s) \/ CancelCommit(s)
    BY <1>3, RowStepPeriod
  <1>4. CASE \/ \E s \in Subs : RzpStep(s)
             \/ \E n \in Ids : RzpRefund(n)
    <2>1. PICK s \in Subs : RzpStep(s) \/ \E n \in Ids : RzpRefund(n)
      BY <1>4, SentEvent DEF IInv, Ids
    <2>2. UNCHANGED <<database, txns>>
      BY <2>1, RzpKeepsKinds
    <2> QED
      BY <2>2, QuietPeriod DEF database
  <1>5. CASE \E n \in Ids : WebhookBegin(n)
    <2>1. PICK n \in Ids : WebhookBegin(n)
      BY <1>5
    <2> DEFINE new == [id |-> n, row |-> local[sent[n].sub], plan |-> "unread"]
    <2>2. /\ n \notin seen /\ \A t \in txns : t.id # n
          /\ txns' = txns \cup {new} /\ UNCHANGED <<local, seen, payments>>
      BY <2>1 DEF WebhookBegin, Unclaimed, database
    <2>3. new.id = n
      OBVIOUS
    <2> HIDE DEF new
    <2>4. FreshInv'
      BY <2>2, <2>3 DEF FreshInv
    <2>5. \A s \in Subs : Covered(s)
      BY <2>2, RowEnds DEF Covered, IInv
    <2> QED
      BY <2>4, <2>5 DEF KeepsPeriod
  <1>6. CASE \E n \in Ids : Webhook(n)
    BY <1>6, WebhookPeriod
  <1>7. CASE \E t \in txns :
              WebhookReadPlan(t) \/ WebhookCommit(t) \/ WebhookRollback(t)
    BY <1>7, TxnPeriod
  <1>8. CASE \E s \in Subs : Converge(s)
    BY <1>8, ConvergePeriod
  <1>9. CASE /\ PassStep \/ PassDies \/ Tick \/ (\E s \in Subs : FetchFails(s))
             /\ ~(\E s \in Subs : Converge(s))
    <2>1. UNCHANGED <<local, seen, payments, txns>>
      BY <1>9 DEF PassStep, PassDies, Tick, FetchFails, PassBegin, Fetch,
          ConvergeRefused, SweepBegin, Sweep, PassEnd, database
    <2> QED
      BY <2>1, QuietPeriod
  <1> QED
    BY <1>1, <1>2, <1>3, <1>4, <1>5, <1>6, <1>7, <1>8, <1>9 DEF Next

LEMMA FreshInductive == Spec => []FreshInv
  BY FreshInit, PeriodStep, Inductive, PTL DEF Spec

(* Whatever is late, repeated or replayed by a pass, a row's period never  *)
(* goes back and covers every recorded charge, but for what activated sets *)
(* and what was read before the period changed: the monotonic rule of      *)
(* _apply_period_monotonic, for every write of the row.                    *)
THEOREM PeriodNeverRewinds == Spec => PeriodKept
  <1>1. IInv /\ FreshInv /\ [Next]_vars => [KeepsPeriod]_vars
    BY PeriodStep
  <1> QED
    BY <1>1, Inductive, FreshInductive, PTL
    DEF Spec, PeriodKept, KeepsPeriod, Covered, Reset
=============================================================================
