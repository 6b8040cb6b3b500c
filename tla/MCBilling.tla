----------------------------- MODULE MCBilling -----------------------------
(* Subscription numbers for the runs of Billing, and bounds that say which *)
(* cases are not looked at together.                                       *)
EXTENDS Billing

One == 1 .. 1
Two == 1 .. 2

Paused == \E s \in Subs : rzp[s].status \in {"paused", "expired"}

MovedBeforeRow ==
    \E s \in Subs : rzp[s].status \notin {"none", "created"} /\ local[s] = NoRow

PaymentLeg ==
    \E n \in Ids : sent[n].type \in {"captured", "failed"} /\ sent[n].tier # "ltd"

Weighs(odd, n) == IF odd THEN n ELSE 0

(* With one subscription: four webhooks in all, three of them not handled  *)
(* yet, and fewer with each rare case.  No step of the pass or of the      *)
(* clock changes either sum, so what fairness requires never leaves the    *)
(* bound.                                                                  *)
FewRareCases ==
    /\ Cardinality(Ids \ seen) <= 3
    /\ Len(sent) + faults + Weighs(PaymentLeg, 1) + Weighs(Paused, 2)
                 + Weighs(MovedBeforeRow, 3) <= 4

(* For the counterexample of the sweep, which needs no rare case.          *)
NoRareCase == ~PaymentLeg /\ ~Paused /\ ~MovedBeforeRow

(* With two, in the first period, "plus" only being changed to: three      *)
(* webhooks, or two beside a split transaction or a failed pass; or all    *)
(* four, and a transaction, of a subscription that is activated and then   *)
(* cancelled while a lifetime order is placed and captured.                *)
Overtaken ==
    /\ faults = 0
    /\ ~MovedBeforeRow
    /\ rzp[1].tier = "pro"
    /\ rzp[2].tier \in {"none", "ltd"}
    /\ \A n \in Ids :
         sent[n].type \in {"activated", "charged", "cancelled", "captured"}

FirstPeriod ==
    /\ now = 0
    /\ ~Paused
    /\ \A s \in Subs : rzp[s].status = "created" => rzp[s].tier # "plus"
    /\ Cardinality(txns) + faults <= 1
    /\ Overtaken \/ Len(sent) + Cardinality(txns) + faults <= 3
=============================================================================
