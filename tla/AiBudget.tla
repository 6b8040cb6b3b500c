------------------------------ MODULE AiBudget ------------------------------
(***************************************************************************)
(* The daily AI budget: ai_ops/budget_cap.py (two Valkey counters and one  *)
(* reservation key per call, changed by two Lua scripts) together with the *)
(* caller that drives it, ai_ops/client.py call_gemini, and the cost       *)
(* record it makes (ai_ops/cost_tracker.py record).                        *)
(*                                                                         *)
(* Money is counted in integer units of one rupee fraction.  The counters  *)
(* are keyed by the Kolkata date and every operation formats the key from  *)
(* the clock at the moment it runs, so only the counters of the current    *)
(* day are ever read or written: committed and pending below are those of  *)
(* today, and NewDay starts them from zero.                                *)
(***************************************************************************)
EXTENDS Integers, FiniteSets, Functions

CONSTANTS
    Calls,      \* the calls of call_gemini, each made once
    Cap,        \* settings.AI_DAILY_BUDGET_INR
    Estimates,  \* the amounts a call may reserve
    Costs,      \* the amounts one SDK call may cost
    MaxDay      \* bound on the midnights that pass

ASSUME BudgetAssumption ==
    /\ Cap \in Nat
    /\ Estimates \subseteq Nat
    /\ Costs \subseteq Nat
    /\ MaxDay \in Nat

VARIABLES
    committed,  \* ai:cost:daily:{today}
    pending,    \* ai:cost:pending:{today}
    live,       \* the calls whose ai:budget:reservation key exists
    reserved,   \* the amount that key holds (kept after the key is gone)
    pc,         \* where call_gemini stands
    attempt,    \* its loop variable: SDK calls that failed Layer 2 so far
    cost,       \* cost_inr_total
    due,        \* the amount the release in progress will commit
    day,        \* midnights passed
    (***********************************************************************)
    (* Observers: they are never read by an action.                        *)
    (***********************************************************************)
    fresh,      \* calls whose reservation is inside today's pending
    carried,    \* reserved on an earlier day, subtracted from today
    charge,     \* what the release of the call committed
    over        \* how far today's releases exceeded what they had reserved

store == <<committed, pending, live, reserved>>
call == <<pc, attempt, cost, due>>
observers == <<fresh, carried, charge, over>>
vars == <<committed, pending, live, reserved, pc, attempt, cost, due, day,
          fresh, carried, charge, over>>

Last == 2   \* range(3): the index of the third and last SDK call

InFlight == {"calling", "releasing_ok", "releasing_fallback"}
Finished == {"answered", "fallback", "gone"}

TypeOK ==
    /\ committed \in Nat
    /\ pending \in Int
    /\ live \subseteq Calls
    /\ reserved \in [Calls -> Nat]
    /\ pc \in [Calls -> {"idle"} \cup InFlight \cup Finished]
    /\ attempt \in [Calls -> 0 .. Last]
    /\ cost \in [Calls -> Nat]
    /\ due \in [Calls -> Nat]
    /\ day \in 0 .. MaxDay
    /\ fresh \subseteq Calls
    /\ carried \in Nat
    /\ charge \in [Calls -> Nat]
    /\ over \in Nat

Init ==
    /\ committed = 0
    /\ pending = 0
    /\ live = {}
    /\ reserved = [c \in Calls |-> 0]
    /\ pc = [c \in Calls |-> "idle"]
    /\ attempt = [c \in Calls |-> 0]
    /\ cost = [c \in Calls |-> 0]
    /\ due = [c \in Calls |-> 0]
    /\ day = 0
    /\ fresh = {}
    /\ carried = 0
    /\ charge = [c \in Calls |-> 0]
    /\ over = 0

-----------------------------------------------------------------------------
(***************************************************************************)
(* The two Lua scripts.  Each runs as one step inside Valkey.              *)
(***************************************************************************)

\* Mutant: the check forgets what is reserved but not yet committed.
FitsCommittedOnly(e) == committed + e <= Cap

\* The cap check of the reserve script: total > cap refuses.
Fits(e) == committed + pending + e <= Cap

\* The write half of the reserve script: pending up, reservation key set.
ReserveLua(c, e) ==
    /\ Fits(e)
    /\ pending' = pending + e
    /\ live' = live \cup {c}
    /\ reserved' = [reserved EXCEPT ![c] = e]
    /\ fresh' = fresh \cup {c}
    /\ UNCHANGED <<committed, carried, charge, over>>

\* Mutant of the release script: it takes the actual cost from pending
\* instead of the reserved amount.
GivesBackActual(c, actual) == actual

\* GET of the reservation key found something.
HasKey(c) == c \in live

\* What the script subtracts from pending.
GivesBack(c, actual) == reserved[c]

\* The release script: nothing at all without the key; with it, the key goes,
\* pending loses the reserved amount and committed gains the actual one.
ReleaseLua(c, actual) ==
    \/ /\ HasKey(c)
       /\ live' = live \ {c}
       /\ pending' = pending - GivesBack(c, actual)
       /\ committed' = committed + actual
       /\ charge' = [charge EXCEPT ![c] = @ + actual]
       /\ fresh' = fresh \ {c}
       /\ carried' = IF c \in fresh THEN carried ELSE carried + reserved[c]
       /\ over' = IF actual > reserved[c] THEN over + actual - reserved[c] ELSE over
       /\ UNCHANGED reserved
    \/ /\ ~HasKey(c)
       /\ UNCHANGED <<store, observers>>

-----------------------------------------------------------------------------
(***************************************************************************)
(* call_gemini                                                             *)
(***************************************************************************)

\* check_and_reserve succeeds and the first SDK call starts.
Reserve(c, e) ==
    /\ pc[c] = "idle"
    /\ ReserveLua(c, e)
    /\ pc' = [pc EXCEPT ![c] = "calling"]
    /\ UNCHANGED <<attempt, cost, due, day>>

\* BudgetExceededError, turned into the fallback of the workload.
Refuse(c, e) ==
    /\ pc[c] = "idle"
    /\ ~Fits(e)
    /\ pc' = [pc EXCEPT ![c] = "fallback"]
    /\ UNCHANGED <<store, attempt, cost, due, day, observers>>

\* Valkey ran the script but its reply was lost: the error is not a
\* BudgetExceededError, so it leaves call_gemini and nobody holds the id.
ReserveReplyLost(c, e) ==
    /\ pc[c] = "idle"
    /\ ReserveLua(c, e)
    /\ pc' = [pc EXCEPT ![c] = "gone"]
    /\ UNCHANGED <<attempt, cost, due, day>>

\* Mutants of the retry loop: every attempt commits only its own cost; one
\* retry too many; a failed call pays what it had reserved.
DueOfOneCall(c, k) == k
AttemptsLeftOffByOne(c) == attempt[c] <= Last
DueOnFailureReserved(c) == reserved[c]

\* What the release after an answer commits.  Before the last attempt the
\* client releases with the total; on the last one record() itself releases,
\* and it knows only the cost of that one call.
DueOnAnswer(c, k) == IF attempt[c] = Last THEN k ELSE cost[c] + k

DueOnFailure(c) == 0

AttemptsLeft(c) == attempt[c] < Last

NextAttempt(c) == attempt[c] + 1

\* An SDK call answers, its cost is recorded, and Layer 2 accepts the answer.
Accept(c, k) ==
    /\ pc[c] = "calling"
    /\ cost' = [cost EXCEPT ![c] = @ + k]
    /\ due' = [due EXCEPT ![c] = DueOnAnswer(c, k)]
    /\ pc' = [pc EXCEPT ![c] = "releasing_ok"]
    /\ UNCHANGED <<store, attempt, day, observers>>

\* Layer 2 rejects the answer and an attempt is left.
Retry(c, k) ==
    /\ pc[c] = "calling"
    /\ AttemptsLeft(c)
    /\ cost' = [cost EXCEPT ![c] = @ + k]
    /\ attempt' = [attempt EXCEPT ![c] = NextAttempt(c)]
    /\ UNCHANGED <<store, pc, due, day, observers>>

\* Layer 2 rejects the third answer: record() releases, then the fallback.
Exhaust(c, k) ==
    /\ pc[c] = "calling"
    /\ ~AttemptsLeft(c)
    /\ cost' = [cost EXCEPT ![c] = @ + k]
    /\ due' = [due EXCEPT ![c] = DueOnAnswer(c, k)]
    /\ pc' = [pc EXCEPT ![c] = "releasing_fallback"]
    /\ UNCHANGED <<store, attempt, day, observers>>

\* The SDK call fails for good: the reservation is released against zero.
SdkFail(c) ==
    /\ pc[c] = "calling"
    /\ due' = [due EXCEPT ![c] = DueOnFailure(c)]
    /\ pc' = [pc EXCEPT ![c] = "releasing_fallback"]
    /\ UNCHANGED <<store, attempt, cost, day, observers>>

\* Mutant: a call without an answer is tried again instead of falling back.
AfterReleaseAgain(c) == IF pc[c] = "releasing_ok" THEN "answered" ELSE "calling"

AfterRelease(c) == IF pc[c] = "releasing_ok" THEN "answered" ELSE "fallback"

\* release_reservation runs its script.
Release(c) ==
    /\ pc[c] \in {"releasing_ok", "releasing_fallback"}
    /\ ReleaseLua(c, due[c])
    /\ pc' = [pc EXCEPT ![c] = AfterRelease(c)]
    /\ UNCHANGED <<attempt, cost, due, day>>

\* release_reservation cannot reach Valkey: a warning, and the call goes on.
ReleaseLost(c) ==
    /\ pc[c] \in {"releasing_ok", "releasing_fallback"}
    /\ pc' = [pc EXCEPT ![c] = AfterRelease(c)]
    /\ UNCHANGED <<store, attempt, cost, due, day, observers>>

\* The process dies, or the request is cancelled, in the middle of the call.
Crash(c) ==
    /\ pc[c] \in InFlight
    /\ pc' = [pc EXCEPT ![c] = "gone"]
    /\ UNCHANGED <<store, attempt, cost, due, day, observers>>

(***************************************************************************)
(* The clock                                                               *)
(***************************************************************************)

\* 300 seconds after the reservation its key is gone, whether or not the call
\* is still in flight (the SDK call itself has no timeout of its own).
KeyExpires(c) ==
    /\ c \in live
    /\ live' = live \ {c}
    /\ UNCHANGED <<committed, pending, reserved, call, day, observers>>

\* Midnight in Kolkata: every later operation uses the keys of the new date.
NewDay ==
    /\ day < MaxDay
    /\ day' = day + 1
    /\ committed' = 0
    /\ pending' = 0
    /\ fresh' = {}
    /\ carried' = 0
    /\ over' = 0
    /\ UNCHANGED <<live, reserved, call, charge>>

CallStep(c) ==
    \/ \E e \in Estimates : Reserve(c, e) \/ Refuse(c, e) \/ ReserveReplyLost(c, e)
    \/ \E k \in Costs : Accept(c, k) \/ Retry(c, k) \/ Exhaust(c, k)
    \/ SdkFail(c)
    \/ Release(c)
    \/ ReleaseLost(c)

Next ==
    \/ \E c \in Calls : CallStep(c) \/ Crash(c) \/ KeyExpires(c)
    \/ NewDay

\* An SDK call returns or fails in the end (three transport retries, then an
\* error), and the coroutine that awaits it is scheduled again.
Fairness == \A c \in Calls : WF_vars(pc[c] \in InFlight /\ CallStep(c))

Spec == Init /\ [][Next]_vars
FairSpec == Spec /\ Fairness

-----------------------------------------------------------------------------
(***************************************************************************)
(* Properties                                                              *)
(***************************************************************************)

\* The cap holds up to the amount by which calls cost more than they had
\* reserved: however reservations, releases, expiries, crashes and midnights
\* interleave, committed + pending passes Cap by at most the overrun of the
\* releases made today (the reserve script checks both counters at once).
CapUpToOverrun == committed + pending <= Cap + over

\* The pending counter is exactly the sum of what today's calls reserved and
\* did not give back, less what calls that crossed midnight gave back to the
\* wrong day.  The first term holds the leaks: expired or crashed calls.
PendingLedger ==
    pending = SumFunctionOnSet(reserved, fresh) - carried

\* No call is charged to the budget beyond what it cost: the release happens
\* at most once per reservation although two code paths can make it.
NeverOvercharged == \A c \in Calls : charge[c] <= cost[c]

\* An answer accepted on the first or second attempt whose release found its
\* key is charged in full: a call has one charge or none, never a part of it.
EarlyAnswerChargedWhole ==
    \A c \in Calls :
        pc[c] = "answered" /\ attempt[c] < Last => charge[c] \in {0, cost[c]}

\* A call in flight comes to an end: call_gemini always returns.
CallsFinish == \A c \in Calls : pc[c] \in InFlight ~> pc[c] \in Finished

(***************************************************************************)
(* What the module's documentation says and the code does not do           *)
(***************************************************************************)

\* "if the caller crashes before releasing, the pending counter eventually
\* self-heals": with every call over and every key expired, none is pending.
PendingSelfHeals ==
    live = {} /\ (\A c \in Calls : pc[c] \in Finished) => pending = 0
=============================================================================
