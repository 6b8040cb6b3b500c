--------------------------- MODULE AiBudgetProofs ---------------------------
(***************************************************************************)
(* Theorems about AiBudget, for every set of calls, cap, estimate, cost    *)
(* and number of days.                                                     *)
(***************************************************************************)
EXTENDS AiBudget, TLAPS, FiniteSetTheorems, WellFoundedInduction

\* Type correctness, for every value of the constants: in particular attempt
\* never leaves range(3) and committed never goes below zero.
THEOREM TypeCorrect == Spec => []TypeOK
<1>1. Init => TypeOK
  BY BudgetAssumption DEF Init, TypeOK, InFlight, Finished, Last
<1>2. TypeOK /\ [Next]_vars => TypeOK'
  <2> SUFFICES ASSUME TypeOK, [Next]_vars PROVE TypeOK'
    OBVIOUS
  <2> USE BudgetAssumption DEF TypeOK, InFlight, Finished, Last, store, call, observers
  <2>1. ASSUME NEW c \in Calls, NEW e \in Estimates, Reserve(c, e) PROVE TypeOK'
    BY <2>1 DEF Reserve, ReserveLua
  <2>2. ASSUME NEW c \in Calls, NEW e \in Estimates, Refuse(c, e) PROVE TypeOK'
    BY <2>2 DEF Refuse
  <2>3. ASSUME NEW c \in Calls, NEW e \in Estimates, ReserveReplyLost(c, e) PROVE TypeOK'
    BY <2>3 DEF ReserveReplyLost, ReserveLua
  <2>4. ASSUME NEW c \in Calls, NEW k \in Costs, Accept(c, k) PROVE TypeOK'
    BY <2>4 DEF Accept, DueOnAnswer
  <2>5. ASSUME NEW c \in Calls, NEW k \in Costs, Retry(c, k) PROVE TypeOK'
    BY <2>5 DEF Retry, AttemptsLeft, NextAttempt
  <2>6. ASSUME NEW c \in Calls, NEW k \in Costs, Exhaust(c, k) PROVE TypeOK'
    BY <2>6 DEF Exhaust, AttemptsLeft, DueOnAnswer
  <2>7. ASSUME NEW c \in Calls, SdkFail(c) PROVE TypeOK'
    BY <2>7 DEF SdkFail, DueOnFailure
  <2>8. ASSUME NEW c \in Calls, Release(c) PROVE TypeOK'
    <3>1. CASE c \in live
      BY <2>8, <3>1 DEF Release, ReleaseLua, HasKey, GivesBack, AfterRelease
    <3>2. CASE c \notin live
      BY <2>8, <3>2 DEF Release, ReleaseLua, HasKey, GivesBack, AfterRelease
    <3> QED BY <3>1, <3>2
  <2>9. ASSUME NEW c \in Calls, ReleaseLost(c) PROVE TypeOK'
    BY <2>9 DEF ReleaseLost, AfterRelease
  <2>10. ASSUME NEW c \in Calls, Crash(c) PROVE TypeOK'
    BY <2>10 DEF Crash
  <2>11. ASSUME NEW c \in Calls, KeyExpires(c) PROVE TypeOK'
    BY <2>11 DEF KeyExpires
  <2>12. CASE NewDay
    BY <2>12 DEF NewDay
  <2>13. CASE UNCHANGED vars
    BY <2>13 DEF vars
  <2> QED
    BY <2>1, <2>2, <2>3, <2>4, <2>5, <2>6, <2>7, <2>8, <2>9, <2>10, <2>11,
       <2>12, <2>13 DEF Next, CallStep
<1> QED
  BY <1>1, <1>2, PTL DEF Spec

\* The cap holds up to the overrun of today's releases, for every cap and any
\* number of concurrent calls.  It is inductive given the types: a release
\* moves committed + pending by actual - reserved, and over by at least that.
THEOREM CapHolds == Spec => []CapUpToOverrun
<1>1. Init => CapUpToOverrun
  BY BudgetAssumption DEF Init, CapUpToOverrun
<1>2. TypeOK /\ CapUpToOverrun /\ [Next]_vars => CapUpToOverrun'
  <2> SUFFICES ASSUME TypeOK, CapUpToOverrun, [Next]_vars PROVE CapUpToOverrun'
    OBVIOUS
  <2> USE BudgetAssumption DEF TypeOK, CapUpToOverrun, store, call, observers
  <2>1. ASSUME NEW c \in Calls, NEW e \in Estimates, ReserveLua(c, e) PROVE CapUpToOverrun'
    BY <2>1 DEF ReserveLua, Fits
  <2>2. ASSUME NEW c \in Calls, Release(c) PROVE CapUpToOverrun'
    <3>1. CASE c \in live
      <4>1. /\ due[c] \in Nat /\ reserved[c] \in Nat
            /\ pending' = pending - reserved[c]
            /\ committed' = committed + due[c]
            /\ over' = IF due[c] > reserved[c] THEN over + due[c] - reserved[c] ELSE over
        BY <2>2, <3>1 DEF Release, ReleaseLua, HasKey, GivesBack
      <4> QED BY <4>1
    <3>2. CASE c \notin live
      BY <2>2, <3>2 DEF Release, ReleaseLua, HasKey, GivesBack
    <3> QED BY <3>1, <3>2
  <2>3. CASE NewDay
    BY <2>3 DEF NewDay
  <2>4. CASE UNCHANGED <<committed, pending, over>>
    BY <2>4
  <2> QED
    BY <2>1, <2>2, <2>3, <2>4 DEF Next, CallStep, Reserve, Refuse, ReserveReplyLost,
       Accept, Retry, Exhaust, SdkFail, ReleaseLost, Crash, KeyExpires, vars
<1> QED
  BY <1>1, <1>2, TypeCorrect, PTL DEF Spec

(***************************************************************************)
(* Why no call is overcharged.  The release commits due[c], which is at    *)
(* most what the call has cost, and it commits at most once: until the     *)
(* release nothing has been charged, and after it the call is over.        *)
(***************************************************************************)
ChargedOnce ==
    \A c \in Calls :
        /\ pc[c] \in {"idle"} \cup InFlight => charge[c] = 0
        /\ pc[c] \in {"releasing_ok", "releasing_fallback"} => due[c] <= cost[c]
        /\ charge[c] <= cost[c]

\* No call is charged to the budget beyond what it cost, whatever the retries,
\* crashes, lost replies and expiries.
THEOREM NoOvercharge == Spec => []NeverOvercharged
<1>1. Init => ChargedOnce
  BY DEF Init, ChargedOnce, InFlight
<1>2. TypeOK /\ ChargedOnce /\ [Next]_vars => ChargedOnce'
  <2> SUFFICES ASSUME TypeOK, ChargedOnce, [Next]_vars PROVE ChargedOnce'
    OBVIOUS
  <2> USE BudgetAssumption DEF TypeOK, ChargedOnce, InFlight, Finished, Last,
          store, call, observers
  <2>1. ASSUME NEW c \in Calls, NEW e \in Estimates,
               Reserve(c, e) \/ Refuse(c, e) \/ ReserveReplyLost(c, e)
        PROVE  ChargedOnce'
    BY <2>1 DEF Reserve, Refuse, ReserveReplyLost, ReserveLua
  <2>2. ASSUME NEW c \in Calls, NEW k \in Costs, Accept(c, k) PROVE ChargedOnce'
    BY <2>2 DEF Accept, DueOnAnswer
  <2>3. ASSUME NEW c \in Calls, NEW k \in Costs, Retry(c, k) PROVE ChargedOnce'
    BY <2>3 DEF Retry, AttemptsLeft, NextAttempt
  <2>4. ASSUME NEW c \in Calls, NEW k \in Costs, Exhaust(c, k) PROVE ChargedOnce'
    BY <2>4 DEF Exhaust, AttemptsLeft, DueOnAnswer
  <2>5. ASSUME NEW c \in Calls, SdkFail(c) PROVE ChargedOnce'
    BY <2>5 DEF SdkFail, DueOnFailure
  <2>6. ASSUME NEW c \in Calls, Release(c) PROVE ChargedOnce'
    <3>1. CASE c \in live
      BY <2>6, <3>1 DEF Release, ReleaseLua, HasKey, GivesBack, AfterRelease
    <3>2. CASE c \notin live
      BY <2>6, <3>2 DEF Release, ReleaseLua, HasKey, GivesBack, AfterRelease
    <3> QED BY <3>1, <3>2
  <2>7. ASSUME NEW c \in Calls, ReleaseLost(c) \/ Crash(c) PROVE ChargedOnce'
    BY <2>7 DEF ReleaseLost, Crash, AfterRelease
  <2>8. ASSUME NEW c \in Calls, KeyExpires(c) PROVE ChargedOnce'
    BY <2>8 DEF KeyExpires
  <2>9. CASE NewDay
    BY <2>9 DEF NewDay
  <2>10. CASE UNCHANGED vars
    BY <2>10 DEF vars
  <2> QED
    BY <2>1, <2>2, <2>3, <2>4, <2>5, <2>6, <2>7, <2>8, <2>9, <2>10 DEF Next, CallStep
<1>3. ChargedOnce => NeverOvercharged
  BY DEF ChargedOnce, NeverOvercharged
<1> QED
  BY <1>1, <1>2, <1>3, TypeCorrect, PTL DEF Spec

(***************************************************************************)
(* Why an early answer is charged whole or not at all: the release finds   *)
(* nothing charged yet, and what it commits is the total of the call.      *)
(***************************************************************************)
ChargedWhole ==
    \A c \in Calls :
        /\ pc[c] \in {"idle"} \cup InFlight => charge[c] = 0
        /\ pc[c] = "releasing_ok" /\ attempt[c] < Last => due[c] = cost[c]
        /\ pc[c] = "answered" /\ attempt[c] < Last => charge[c] \in {0, cost[c]}

\* An answer accepted on the first or second attempt is charged the total of
\* all its attempts or, when its key was gone or the release lost, nothing.
THEOREM EarlyAnswerWhole == Spec => []EarlyAnswerChargedWhole
<1>1. Init => ChargedWhole
  BY DEF Init, ChargedWhole, InFlight
<1>2. TypeOK /\ ChargedWhole /\ [Next]_vars => ChargedWhole'
  <2> SUFFICES ASSUME TypeOK, ChargedWhole, [Next]_vars PROVE ChargedWhole'
    OBVIOUS
  <2> USE BudgetAssumption DEF TypeOK, ChargedWhole, InFlight, Finished, Last,
          store, call, observers
  <2>1. ASSUME NEW c \in Calls, NEW e \in Estimates,
               Reserve(c, e) \/ Refuse(c, e) \/ ReserveReplyLost(c, e)
        PROVE  ChargedWhole'
    BY <2>1 DEF Reserve, Refuse, ReserveReplyLost, ReserveLua
  <2>2. ASSUME NEW c \in Calls, NEW k \in Costs, Accept(c, k) PROVE ChargedWhole'
    BY <2>2 DEF Accept, DueOnAnswer
  <2>3. ASSUME NEW c \in Calls, NEW k \in Costs, Retry(c, k) PROVE ChargedWhole'
    BY <2>3 DEF Retry, AttemptsLeft, NextAttempt
  <2>4. ASSUME NEW c \in Calls, NEW k \in Costs, Exhaust(c, k) PROVE ChargedWhole'
    BY <2>4 DEF Exhaust
  <2>5. ASSUME NEW c \in Calls, SdkFail(c) PROVE ChargedWhole'
    BY <2>5 DEF SdkFail
  <2>6. ASSUME NEW c \in Calls, Release(c) PROVE ChargedWhole'
    <3>1. CASE c \in live
      BY <2>6, <3>1 DEF Release, ReleaseLua, HasKey, AfterRelease
    <3>2. CASE c \notin live
      BY <2>6, <3>2 DEF Release, ReleaseLua, HasKey, AfterRelease
    <3> QED BY <3>1, <3>2
  <2>7. ASSUME NEW c \in Calls, ReleaseLost(c) \/ Crash(c) PROVE ChargedWhole'
    BY <2>7 DEF ReleaseLost, Crash, AfterRelease
  <2>8. ASSUME NEW c \in Calls, KeyExpires(c) PROVE ChargedWhole'
    BY <2>8 DEF KeyExpires
  <2>9. CASE NewDay
    BY <2>9 DEF NewDay
  <2>10. CASE UNCHANGED vars
    BY <2>10 DEF vars
  <2> QED
    BY <2>1, <2>2, <2>3, <2>4, <2>5, <2>6, <2>7, <2>8, <2>9, <2>10 DEF Next, CallStep
<1>3. ChargedWhole => EarlyAnswerChargedWhole
  BY DEF ChargedWhole, EarlyAnswerChargedWhole
<1> QED
  BY <1>1, <1>2, <1>3, TypeCorrect, PTL DEF Spec

-----------------------------------------------------------------------------
(***************************************************************************)
(* Sums over a finite set.  SumFunctionOnSet chooses a recursive function  *)
(* on the subsets of the set.  That such a function exists, that it is the *)
(* only one, and what it returns, are shown on a least counterexample: the *)
(* strict inclusion of finite sets is well founded.                        *)
(***************************************************************************)

\* A set of finite sets that is not empty has a least member.
LEMMA LeastSet ==
    ASSUME NEW T, T # {}, \A X \in T : IsFiniteSet(X)
    PROVE  \E X \in T : \A Y \in T : Y \subseteq X => Y = X
  <1>1. T \subseteq FiniteSubsetsOf(UNION T)
      BY DEF FiniteSubsetsOf
  <1>2. \E X \in T : \A Y \in T :
            ~ (<<Y, X>> \in StrictSubsetOrdering(UNION T))
      BY <1>1, FS_StrictSubsetOrderingWellFounded, WFMin
  <1> QED
      BY <1>1, <1>2 DEF StrictSubsetOrdering, FiniteSubsetsOf

First(s) == CHOOSE x \in s : TRUE

\* g is the function that the definition of the sum over S recurs on.
Sums(f, S, g) ==
    g = [s \in SUBSET S |->
            IF s = {} THEN 0 ELSE f[First(s)] + g[s \ {First(s)}]]

LEMMA FirstIn == ASSUME NEW s, s # {} PROVE First(s) \in s
  BY DEF First

LEMMA SumsUnfold ==
    ASSUME NEW f, NEW S, NEW g, Sums(f, S, g), NEW s \in SUBSET S
    PROVE  g[s] = IF s = {} THEN 0 ELSE f[First(s)] + g[s \ {First(s)}]
  BY DEF Sums

LEMMA SumsUnique ==
    ASSUME NEW f, NEW S, IsFiniteSet(S), NEW g, NEW h,
           Sums(f, S, g), Sums(f, S, h)
    PROVE  \A s \in SUBSET S : g[s] = h[s]
  <1> DEFINE T == {s \in SUBSET S : g[s] # h[s]}
  <1> SUFFICES ASSUME T # {} PROVE FALSE
      OBVIOUS
  <1>1. PICK s \in T : \A r \in T : r \subseteq s => r = s
    <2>1. \A X \in T : IsFiniteSet(X)
        BY FS_Subset
    <2> HIDE DEF T
    <2> QED
        BY <2>1, LeastSet
  <1>2. s # {}
      BY <1>1, SumsUnfold
  <1>3. First(s) \in s
      BY <1>2, FirstIn
  <1>4. g[s \ {First(s)}] = h[s \ {First(s)}]
      BY <1>1, <1>3
  <1>5. /\ g[s] = f[First(s)] + g[s \ {First(s)}]
        /\ h[s] = f[First(s)] + h[s \ {First(s)}]
      BY <1>1, <1>2, SumsUnfold
  <1> QED
      BY <1>1, <1>4, <1>5

LEMMA SumsRestrict ==
    ASSUME NEW f, NEW S, NEW g, Sums(f, S, g), NEW V \in SUBSET S
    PROVE  Sums(f, V, [s \in SUBSET V |-> g[s]])
  <1> DEFINE h == [s \in SUBSET V |-> g[s]]
  <1>1. ASSUME NEW s \in SUBSET V
        PROVE  h[s] = IF s = {} THEN 0 ELSE f[First(s)] + h[s \ {First(s)}]
    <2>1. g[s] = IF s = {} THEN 0 ELSE f[First(s)] + g[s \ {First(s)}]
        BY SumsUnfold
    <2> QED
        BY <2>1
  <1>2. h = [s \in SUBSET V |->
                IF s = {} THEN 0 ELSE f[First(s)] + h[s \ {First(s)}]]
    <2> HIDE DEF h
    <2>1. h = [s \in SUBSET V |-> h[s]]
        BY DEF h
    <2> QED
        BY <1>1, <2>1
  <1> QED
      BY <1>2 DEF Sums

LEMMA SumsExists ==
    ASSUME NEW f, NEW S, IsFiniteSet(S)
    PROVE  \E g : Sums(f, S, g)
  <1> DEFINE T == {s \in SUBSET S : ~ \E g : Sums(f, s, g)}
  <1> SUFFICES ASSUME T # {} PROVE FALSE
      OBVIOUS
  <1>1. PICK W \in T : \A r \in T : r \subseteq W => r = W
    <2>1. \A X \in T : IsFiniteSet(X)
        BY FS_Subset
    <2> HIDE DEF T
    <2> QED
        BY <2>1, LeastSet
  <1>2. IsFiniteSet(W) /\ W \subseteq S
      BY <1>1, FS_Subset
  <1> DEFINE G(s) == CHOOSE g : Sums(f, s, g)
  <1>3. \A s \in (SUBSET W) \ {W} : Sums(f, s, G(s))
      BY <1>1
  <1> HIDE DEF G
  <1>4. \A s \in (SUBSET W) \ {W} : \A v \in SUBSET s : G(s)[v] = G(v)[v]
    <2> SUFFICES ASSUME NEW s \in (SUBSET W) \ {W}, NEW v \in SUBSET s
                 PROVE  G(s)[v] = G(v)[v]
        OBVIOUS
    <2>1. v \in (SUBSET W) \ {W} /\ IsFiniteSet(v)
        BY <1>2, FS_Subset
    <2>2. Sums(f, v, G(v)) /\ Sums(f, v, [r \in SUBSET v |-> G(s)[r]])
        BY <1>3, <2>1, SumsRestrict
    <2>3. \A r \in SUBSET v : G(v)[r] = [q \in SUBSET v |-> G(s)[q]][r]
        BY <2>1, <2>2, SumsUnique
    <2> QED
        BY <2>3
  <1> DEFINE rest == W \ {First(W)}
             h == [s \in SUBSET W |->
                      IF s # W THEN G(s)[s]
                      ELSE IF W = {} THEN 0 ELSE f[First(W)] + G(rest)[rest]]
  <1>5. \A s \in SUBSET W :
            h[s] = IF s = {} THEN 0 ELSE f[First(s)] + h[s \ {First(s)}]
    <2> SUFFICES ASSUME NEW s \in SUBSET W
                 PROVE  h[s] = IF s = {} THEN 0
                               ELSE f[First(s)] + h[s \ {First(s)}]
        OBVIOUS
    <2>1. CASE s = W
      <3>1. CASE W = {}
          BY <2>1, <3>1
      <3>2. CASE W # {}
        <4>1. First(W) \in W
            BY <3>2, FirstIn
        <4>2. h[rest] = G(rest)[rest]
            BY <4>1
        <4> QED
            BY <2>1, <3>2, <4>2
      <3> QED
          BY <3>1, <3>2
    <2>2. CASE s # W
      <3>1. G(s)[s] = IF s = {} THEN 0
                      ELSE f[First(s)] + G(s)[s \ {First(s)}]
          BY <1>3, <2>2, SumsUnfold
      <3>2. G(s)[s \ {First(s)}] = G(s \ {First(s)})[s \ {First(s)}]
          BY <1>4, <2>2
      <3>3. h[s \ {First(s)}] = G(s \ {First(s)})[s \ {First(s)}]
          BY <2>2
      <3>4. h[s] = G(s)[s]
          BY <2>2
      <3> HIDE DEF h
      <3> QED
          BY <3>1, <3>2, <3>3, <3>4
    <2> QED
        BY <2>1, <2>2
  <1>6. h = [s \in SUBSET W |-> h[s]]
      OBVIOUS
  <1> HIDE DEF h
  <1>7. Sums(f, W, h)
      BY <1>5, <1>6 DEF Sums
  <1> QED
      BY <1>1, <1>7

LEMMA SumIs ==
    ASSUME NEW f, NEW S
    PROVE  SumFunctionOnSet(f, S) = (CHOOSE g : Sums(f, S, g))[S]
  BY DEF SumFunctionOnSet, FoldFunctionOnSet, MapThenFoldSet, Sums, First

\* A sum over a finite set is the first summand and the sum over the rest.
LEMMA SumFirst ==
    ASSUME NEW f, NEW S, IsFiniteSet(S)
    PROVE  SumFunctionOnSet(f, S) =
               IF S = {} THEN 0
               ELSE f[First(S)] + SumFunctionOnSet(f, S \ {First(S)})
  <1> DEFINE G(s) == CHOOSE g : Sums(f, s, g)
             rest == S \ {First(S)}
  <1>1. Sums(f, S, G(S))
      BY SumsExists
  <1>2. IsFiniteSet(rest)
      BY FS_Subset
  <1>3. Sums(f, rest, G(rest))
      BY <1>2, SumsExists
  <1>4. SumFunctionOnSet(f, S) = G(S)[S] /\ SumFunctionOnSet(f, rest) = G(rest)[rest]
      BY SumIs
  <1> HIDE DEF G
  <1>5. G(S)[S] = IF S = {} THEN 0 ELSE f[First(S)] + G(S)[rest]
      BY <1>1, SumsUnfold
  <1>6. rest \in SUBSET S
      OBVIOUS
  <1> HIDE DEF rest
  <1>7. Sums(f, rest, [s \in SUBSET rest |-> G(S)[s]])
      BY <1>1, <1>6, SumsRestrict
  <1>8. \A s \in SUBSET rest : [q \in SUBSET rest |-> G(S)[q]][s] = G(rest)[s]
      BY <1>2, <1>3, <1>7, SumsUnique
  <1>9. G(S)[rest] = G(rest)[rest]
      BY <1>8
  <1> QED
      BY <1>4, <1>5, <1>9 DEF rest

LEMMA SumEmpty == ASSUME NEW f PROVE SumFunctionOnSet(f, {}) = 0
  BY SumFirst, FS_EmptySet

\* A sum of integers is an integer.
LEMMA SumType ==
    ASSUME NEW f, NEW S, IsFiniteSet(S), \A x \in S : f[x] \in Int
    PROVE  SumFunctionOnSet(f, S) \in Int
  <1> DEFINE T == {s \in SUBSET S : SumFunctionOnSet(f, s) \notin Int}
  <1> SUFFICES ASSUME T # {} PROVE FALSE
      OBVIOUS
  <1>1. PICK s \in T : \A r \in T : r \subseteq s => r = s
    <2>1. \A X \in T : IsFiniteSet(X)
        BY FS_Subset
    <2> HIDE DEF T
    <2> QED
        BY <2>1, LeastSet
  <1>2. s # {} /\ First(s) \in s
    <2>1. SumFunctionOnSet(f, s) \notin Int
        BY <1>1
    <2>2. SumFunctionOnSet(f, {}) \in Int
        BY SumEmpty
    <2>3. s # {}
        BY <2>1, <2>2
    <2> QED
        BY <2>3, FirstIn
  <1>3. SumFunctionOnSet(f, s) = f[First(s)] + SumFunctionOnSet(f, s \ {First(s)})
      BY <1>1, <1>2, SumFirst, FS_Subset
  <1>4. SumFunctionOnSet(f, s \ {First(s)}) \in Int
      BY <1>1, <1>2
  <1> QED
      BY <1>1, <1>2, <1>3, <1>4

\* Any member may be taken out of a sum, not only the first one.
LEMMA SumTakeOut ==
    ASSUME NEW f, NEW S, IsFiniteSet(S), \A x \in S : f[x] \in Int, NEW y \in S
    PROVE  SumFunctionOnSet(f, S) = f[y] + SumFunctionOnSet(f, S \ {y})
  <1> DEFINE T == {s \in SUBSET S : \E z \in s : SumFunctionOnSet(f, s)
                                   # f[z] + SumFunctionOnSet(f, s \ {z})}
  <1> SUFFICES ASSUME T # {} PROVE FALSE
      OBVIOUS
  <1>1. PICK s \in T : \A r \in T : r \subseteq s => r = s
    <2>1. \A X \in T : IsFiniteSet(X)
        BY FS_Subset
    <2> HIDE DEF T
    <2> QED
        BY <2>1, LeastSet
  <1>2. PICK z \in s : SumFunctionOnSet(f, s) # f[z] + SumFunctionOnSet(f, s \ {z})
      BY <1>1
  <1> DEFINE w == First(s)
  <1>3. w \in s
      BY <1>2, FirstIn
  <1>4. IsFiniteSet(s) /\ IsFiniteSet(s \ {z}) /\ IsFiniteSet(s \ {w})
        /\ IsFiniteSet((s \ {w}) \ {z})
      BY <1>1, FS_Subset
  <1>5. SumFunctionOnSet(f, s) = f[w] + SumFunctionOnSet(f, s \ {w})
      BY <1>3, <1>4, SumFirst
  <1> HIDE DEF w
  <1>6. z # w
      BY <1>2, <1>5
  <1>7. ASSUME NEW p \in s, NEW q \in s \ {p}
        PROVE  SumFunctionOnSet(f, s \ {p}) = f[q] + SumFunctionOnSet(f, (s \ {p}) \ {q})
    <2>1. s \ {p} \in SUBSET S /\ s \ {p} \subseteq s /\ s \ {p} # s
        BY <1>1
    <2>2. s \ {p} \notin T
        BY <1>1, <2>1
    <2> QED
        BY <2>1, <2>2
  <1>8. /\ SumFunctionOnSet(f, s \ {w}) = f[z] + SumFunctionOnSet(f, (s \ {w}) \ {z})
        /\ SumFunctionOnSet(f, s \ {z}) = f[w] + SumFunctionOnSet(f, (s \ {z}) \ {w})
      BY <1>3, <1>6, <1>7
  <1>9. (s \ {w}) \ {z} = (s \ {z}) \ {w}
      OBVIOUS
  <1>10. SumFunctionOnSet(f, (s \ {w}) \ {z}) \in Int
    <2>1. \A x \in (s \ {w}) \ {z} : f[x] \in Int
        BY <1>1
    <2> QED
        BY <1>4, <2>1, SumType
  <1>11. f[z] \in Int /\ f[w] \in Int
      BY <1>1, <1>3
  <1> QED
      BY <1>2, <1>5, <1>8, <1>9, <1>10, <1>11

\* Functions that agree on the set have the same sum.
LEMMA SumAgree ==
    ASSUME NEW f, NEW g, NEW S, IsFiniteSet(S), \A x \in S : f[x] = g[x]
    PROVE  SumFunctionOnSet(f, S) = SumFunctionOnSet(g, S)
  <1> DEFINE T == {s \in SUBSET S : SumFunctionOnSet(f, s) # SumFunctionOnSet(g, s)}
  <1> SUFFICES ASSUME T # {} PROVE FALSE
      OBVIOUS
  <1>1. PICK s \in T : \A r \in T : r \subseteq s => r = s
    <2>1. \A X \in T : IsFiniteSet(X)
        BY FS_Subset
    <2> HIDE DEF T
    <2> QED
        BY <2>1, LeastSet
  <1>2. s # {} /\ First(s) \in s
      BY <1>1, FirstIn, SumEmpty
  <1>3. IsFiniteSet(s)
      BY <1>1, FS_Subset
  <1>4. SumFunctionOnSet(f, s \ {First(s)}) = SumFunctionOnSet(g, s \ {First(s)})
      BY <1>1, <1>2
  <1> QED
      BY <1>1, <1>2, <1>3, <1>4, SumFirst

(***************************************************************************)
(* Why the pending counter balances.  A call reserves once, so the amount  *)
(* of a call in today's sum never changes while it is there.               *)
(***************************************************************************)
Balanced ==
    /\ IsFiniteSet(fresh)
    /\ \A c \in Calls : pc[c] = "idle" => c \notin fresh
    /\ PendingLedger

\* The pending counter is the sum of what today's calls reserved and have not
\* given back, less what calls of an earlier day gave back today: for any set
\* of calls, also an infinite one, of which finitely many have reserved.
THEOREM LedgerBalances == Spec => []PendingLedger
<1>1. Init => Balanced
  BY FS_EmptySet, SumEmpty DEF Init, Balanced, PendingLedger
<1>2. TypeOK /\ Balanced /\ [Next]_vars => Balanced'
  <2> SUFFICES ASSUME TypeOK, Balanced, [Next]_vars PROVE Balanced'
    OBVIOUS
  <2>1. ASSUME NEW c \in Calls, NEW e \in Estimates, pc[c] = "idle",
               ReserveLua(c, e), \E s \in {"calling", "gone"} : pc' = [pc EXCEPT ![c] = s]
        PROVE  Balanced'
    <3> DEFINE f == reserved
               g == [reserved EXCEPT ![c] = e]
    <3>1. c \notin fresh /\ e \in Nat
      BY <2>1, BudgetAssumption DEF Balanced
    <3>2. fresh' = fresh \cup {c} /\ fresh' \ {c} = fresh
      BY <2>1, <3>1 DEF ReserveLua
    <3>3. IsFiniteSet(fresh) /\ IsFiniteSet(fresh')
      BY <3>2, FS_AddElement DEF Balanced
    <3>4. reserved' = g /\ reserved \in [Calls -> Nat] /\ fresh \subseteq Calls
      BY <2>1 DEF ReserveLua, TypeOK
    <3>5. \A x \in fresh' : g[x] \in Int
      BY <3>1, <3>2, <3>4
    <3>6. \A x \in fresh : reserved[x] = g[x] /\ reserved[x] \in Int
      BY <3>1, <3>4
    <3>7. g[c] = e
      BY <3>4
    <3> HIDE DEF g
    <3>8. SumFunctionOnSet(g, fresh') = g[c] + SumFunctionOnSet(g, fresh)
      BY <3>2, <3>3, <3>5, SumTakeOut
    <3>9. SumFunctionOnSet(g, fresh) = SumFunctionOnSet(reserved, fresh)
      BY <3>3, <3>6, SumAgree
    <3>10. SumFunctionOnSet(reserved, fresh) \in Int
      BY <3>3, <3>6, SumType
    <3>11. PendingLedger'
      <4>1. /\ pending' = pending + e /\ carried' = carried
            /\ pending = SumFunctionOnSet(reserved, fresh) - carried
            /\ carried \in Int
        BY <2>1 DEF ReserveLua, Balanced, PendingLedger, TypeOK
      <4>2. pending' = SumFunctionOnSet(g, fresh') - carried'
        BY <3>1, <3>7, <3>8, <3>9, <3>10, <4>1
      <4> QED
        BY <3>4, <4>2 DEF PendingLedger
    <3>12. \A d \in Calls : pc'[d] = "idle" => d \notin fresh'
      BY <2>1, <3>2 DEF Balanced, TypeOK
    <3> QED
      BY <3>3, <3>11, <3>12 DEF Balanced
  <2>2. ASSUME NEW c \in Calls, Release(c) PROVE Balanced'
    <3>1. \A d \in Calls : pc'[d] = "idle" => pc[d] = "idle"
      BY <2>2 DEF Release, AfterRelease, TypeOK
    <3>2. CASE c \in live
      <4>1. /\ fresh' = fresh \ {c} /\ reserved' = reserved
            /\ pending' = pending - reserved[c]
            /\ carried' = IF c \in fresh THEN carried ELSE carried + reserved[c]
        BY <2>2, <3>2 DEF Release, ReleaseLua, HasKey, GivesBack
      <4>2. IsFiniteSet(fresh) /\ IsFiniteSet(fresh')
        BY <4>1, FS_Subset DEF Balanced
      <4>3. reserved[c] \in Int /\ \A x \in fresh : reserved[x] \in Int
        BY DEF TypeOK
      <4>4. SumFunctionOnSet(reserved, fresh) \in Int
        BY <4>2, <4>3, SumType
      <4>5. SumFunctionOnSet(reserved, fresh') \in Int
        BY <4>1, <4>2, <4>3, SumType
      <4>6. PendingLedger'
        <5>1. CASE c \in fresh
          <6>1. SumFunctionOnSet(reserved, fresh)
                    = reserved[c] + SumFunctionOnSet(reserved, fresh')
            BY <4>1, <4>2, <4>3, <5>1, SumTakeOut
          <6> QED
            BY <4>1, <4>3, <4>4, <4>5, <5>1, <6>1 DEF PendingLedger, Balanced, TypeOK
        <5>2. CASE c \notin fresh
          <6>1. fresh' = fresh
            BY <4>1, <5>2
          <6> QED
            BY <4>1, <4>3, <4>4, <5>2, <6>1 DEF PendingLedger, Balanced, TypeOK
        <5> QED BY <5>1, <5>2
      <4> QED
        BY <3>1, <4>1, <4>2, <4>6 DEF Balanced
    <3>3. CASE c \notin live
      BY <2>2, <3>1, <3>3 DEF Release, ReleaseLua, HasKey, store, observers,
         Balanced, PendingLedger
    <3> QED BY <3>2, <3>3
  <2>3. CASE NewDay
    <3>1. pending' = 0 /\ fresh' = {} /\ carried' = 0
      BY <2>3 DEF NewDay
    <3> QED
      BY <3>1, FS_EmptySet, SumEmpty DEF Balanced, PendingLedger
  <2>4. ASSUME UNCHANGED <<pending, reserved, fresh, carried>>,
               \A d \in Calls : pc'[d] = "idle" => pc[d] = "idle"
        PROVE  Balanced'
    BY <2>4 DEF Balanced, PendingLedger
  <2>5. ASSUME NEW c \in Calls, NEW e \in Estimates, Refuse(c, e) PROVE Balanced'
    BY <2>4, <2>5 DEF Refuse, store, observers, TypeOK
  <2>6. ASSUME NEW c \in Calls, NEW k \in Costs, Accept(c, k) \/ Retry(c, k) \/ Exhaust(c, k)
        PROVE  Balanced'
    BY <2>4, <2>6 DEF Accept, Retry, Exhaust, store, observers, TypeOK
  <2>7. ASSUME NEW c \in Calls, SdkFail(c) \/ ReleaseLost(c) \/ Crash(c) PROVE Balanced'
    BY <2>4, <2>7 DEF SdkFail, ReleaseLost, Crash, AfterRelease, store, observers, TypeOK
  <2>8. ASSUME NEW c \in Calls, KeyExpires(c) PROVE Balanced'
    BY <2>4, <2>8 DEF KeyExpires, call, observers
  <2>9. CASE UNCHANGED vars
    BY <2>4, <2>9 DEF vars
  <2>10. ASSUME NEW c \in Calls, NEW e \in Estimates, Reserve(c, e) \/ ReserveReplyLost(c, e)
         PROVE  Balanced'
    BY <2>1, <2>10 DEF Reserve, ReserveReplyLost
  <2> QED
    BY <2>2, <2>3, <2>5, <2>6, <2>7, <2>8, <2>9, <2>10 DEF Next, CallStep
<1>3. Balanced => PendingLedger
  BY DEF Balanced
<1> QED
  BY <1>1, <1>2, <1>3, TypeCorrect, PTL DEF Spec

=============================================================================
