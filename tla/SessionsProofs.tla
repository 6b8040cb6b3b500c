--------------------------- MODULE SessionsProofs ---------------------------
(***************************************************************************)
(* Proofs about the allowlist of Sessions for any number of tabs, requests *)
(* under way, logins and tokens: a login has one accepted token, and the   *)
(* allowlist implements SessionPromise.  The tabs are not looked at: what  *)
(* holds of the allowlist holds whatever the browser sends.                *)
(***************************************************************************)
EXTENDS Sessions, TLAPS, FiniteSetTheorems, SequenceTheorems

Typed == origin \in Seq(Logins) /\ live \subseteq Tokens

(* The logins are numbered without a gap: the next number is fresh.        *)
Dense ==
    /\ Cardinality(Opened) \in Nat
    /\ Opened = 1 .. Cardinality(Opened)

IInv == Typed /\ Dense /\ OneTokenPerLogin

(* The credential of a login, as the refinement mapping has it.            *)
Held(l) == TheOne(TokensOf(l))

-----------------------------------------------------------------------------
(* The next token's number, and what an issued token does to the numbers.  *)

LEMMA IssueTypes ==
    ASSUME Typed, NEW l \in Logins,
           origin' = Append(origin, l)
    PROVE  /\ origin' \in Seq(Logins)
           /\ Len(origin) \in Nat
           /\ Tokens' = Tokens \cup {Len(origin) + 1}
           /\ Len(origin) + 1 \notin Tokens
           /\ \A k \in Tokens : origin'[k] = origin[k]
           /\ origin'[Len(origin) + 1] = l
           /\ Opened' = Opened \cup {l}
  <1>1. origin \in Seq(Logins) /\ Len(origin) \in Nat
      BY LenProperties DEF Typed
  <1>2. /\ origin' \in Seq(Logins)
        /\ Len(origin') = Len(origin) + 1
        /\ \A k \in 1 .. Len(origin) : origin'[k] = origin[k]
        /\ origin'[Len(origin) + 1] = l
      BY <1>1, AppendProperties
  <1>3. Tokens' = Tokens \cup {Len(origin) + 1}
      BY <1>1, <1>2 DEF Tokens
  <1>4. Opened' = Opened \cup {l}
      BY <1>1, <1>2, <1>3 DEF Opened, Tokens
  <1> QED
      BY <1>1, <1>2, <1>3, <1>4 DEF Tokens

LEMMA Counted == IInv => Len(origin) \in Nat
  BY LenProperties DEF IInv, Typed

-----------------------------------------------------------------------------
LEMMA InitEstablishes == Init => IInv
  <1> SUFFICES ASSUME Init PROVE IInv
      OBVIOUS
  <1>1. origin = <<>> /\ live = {} /\ Len(origin) = 0
      BY DEF Init
  <1>2. Opened = {}
      BY <1>1 DEF Opened, Tokens
  <1>3. Cardinality(Opened) = 0
      BY <1>2, FS_EmptySet
  <1>4. Typed
      BY <1>1 DEF Typed
  <1>5. Dense
      BY <1>2, <1>3 DEF Dense
  <1> QED
      BY <1>1, <1>4, <1>5 DEF IInv, OneTokenPerLogin

LEMMA StutterPreserves == IInv /\ UNCHANGED server => IInv'
  BY DEF IInv, Typed, Dense, OneTokenPerLogin, Opened, Tokens, server

(* What a rotation does to the allowlist.                                  *)
Rotates(old) ==
    /\ old \in live
    /\ live' = (live \ {old}) \cup {Len(origin) + 1}
    /\ origin' = Append(origin, origin[old])

(* What a login does to it.                                                *)
Opens(l) ==
    /\ l = Cardinality(Opened) + 1
    /\ l <= MaxLogins
    /\ live' = live \cup {Len(origin) + 1}
    /\ origin' = Append(origin, l)

(* What a logout does to it.                                               *)
Revokes(cookie) ==
    /\ live' = live \ {cookie}
    /\ UNCHANGED origin

(* Every step leaves the allowlist alone or does one of the three.         *)
LEMMA StepKinds ==
    ASSUME IInv, [Next]_vars
    PROVE  \/ UNCHANGED server
           \/ \E old \in live : Rotates(old)
           \/ \E l \in Nat : Opens(l)
           \/ \E cookie : Revokes(cookie)
  <1>1. CASE UNCHANGED vars
      BY <1>1 DEF vars, server
  <1>2. ASSUME NEW t \in Tabs, TabStep(t) PROVE UNCHANGED server
      BY <1>2 DEF TabStep, Age, SilentRefresh, DataRequest, Logout, Login, Load, server
  <1>3. ASSUME NEW i \in Slots, Answer(i) PROVE UNCHANGED server
    <2>1. ASSUME RefreshOk(i) \/ RefreshRefused(i) \/ RefreshLost(i) PROVE UNCHANGED server
        BY <2>1 DEF RefreshOk, RefreshRefused, RefreshLost, server
    <2>2. ASSUME LogoutOk(i) \/ LogoutLost(i) \/ LoginOk(i) \/ LoginLost(i)
          PROVE  UNCHANGED server
        BY <2>2 DEF LogoutOk, LogoutLost, LoginOk, LoginLost, server
    <2>3. ASSUME MeEnds(i) \/ DataRefused(i) \/ RetryEnds(i) PROVE UNCHANGED server
        BY <2>3 DEF MeEnds, DataRefused, RetryEnds, server
    <2> QED
        BY <1>3, <2>1, <2>2, <2>3 DEF Answer
  <1>4. ASSUME NEW i \in Slots, ServeRefresh(i)
        PROVE  UNCHANGED server \/ \E old \in live : Rotates(old)
      BY <1>4 DEF ServeRefresh, Known, Rotated, Rotates, server
  <1>5. ASSUME NEW i \in Slots, ServeLogout(i)
        PROVE  \E cookie : Revokes(cookie)
      BY <1>5 DEF ServeLogout, Revoked, Revokes
  <1>6. ASSUME NEW i \in Slots, ServeLogin(i)
        PROVE  \E l \in Nat : Opens(l)
      BY <1>6 DEF ServeLogin, Opens, IInv, Dense
  <1> QED
      BY <1>1, <1>2, <1>3, <1>4, <1>5, <1>6 DEF Next, Serve

-----------------------------------------------------------------------------
(* Each of them, on what the logins hold.                                  *)

LEMMA RotatesEffect ==
    ASSUME IInv, NEW old \in live, Rotates(old)
    PROVE  /\ origin[old] \in Logins
           /\ TokensOf(origin[old]) = {old}
           /\ TokensOf(origin[old])' = {Len(origin) + 1}
           /\ \A m \in Logins \ {origin[old]} : TokensOf(m)' = TokensOf(m)
           /\ Opened' = Opened
           /\ IInv'
  <1> DEFINE l == origin[old]
             new == Len(origin) + 1
  <1>1. old \in Tokens /\ l \in Logins /\ l \in Opened
    <2>1. old \in Tokens /\ origin \in Seq(Logins)
        BY DEF IInv, Typed
    <2> QED
        BY <2>1, ElementOfSeq DEF Tokens, Opened
  <1>2. /\ origin' \in Seq(Logins)
        /\ Len(origin) \in Nat
        /\ Tokens' = Tokens \cup {new}
        /\ new \notin Tokens
        /\ \A k \in Tokens : origin'[k] = origin[k]
        /\ origin'[new] = l
        /\ Opened' = Opened \cup {l}
      BY <1>1, IssueTypes DEF IInv, Rotates
  <1>3. live' = (live \ {old}) \cup {new} /\ live \subseteq Tokens
      BY DEF Rotates, IInv, Typed
  <1>4. TokensOf(l) = {old}
      BY DEF TokensOf, IInv, OneTokenPerLogin
  <1>5. TokensOf(l)' = {new}
    <2>1. \A k \in live' : origin'[k] = origin[old] <=> k = new
        BY <1>2, <1>3 DEF IInv, OneTokenPerLogin
    <2>2. TokensOf(origin[old])' = {k \in live' : origin'[k] = origin'[old]}
        BY DEF TokensOf
    <2> QED
        BY <1>1, <1>2, <1>3, <2>1, <2>2
  <1>6. \A m \in Logins \ {l} : TokensOf(m)' = TokensOf(m)
      BY <1>2, <1>3 DEF TokensOf
  <1>7. Opened' = Opened
      BY <1>1, <1>2
  <1>8. OneTokenPerLogin'
    <2>1. \A k, m \in live' : origin'[k] = origin'[m] => k = m
        BY <1>2, <1>3 DEF IInv, OneTokenPerLogin
    <2> QED
        BY <2>1 DEF OneTokenPerLogin
  <1>9. Typed'
      BY <1>2, <1>3 DEF Typed
  <1>10. Dense'
      BY <1>7 DEF Dense, IInv
  <1> QED
      BY <1>1, <1>4, <1>5, <1>6, <1>7, <1>8, <1>9, <1>10 DEF IInv

LEMMA OpensEffect ==
    ASSUME IInv, NEW l \in Nat, Opens(l)
    PROVE  /\ l \in Logins
           /\ \A m \in Logins : TokensOf(m)' =
                  IF m = l THEN {Len(origin) + 1} ELSE TokensOf(m)
           /\ Cardinality(Opened)' = l
           /\ IInv'
  <1> DEFINE new == Len(origin) + 1
  <1>1. l \in Logins /\ l \notin Opened /\ Opened = 1 .. (l - 1)
      BY SessionsAssumption DEF IInv, Dense, Opens, Logins
  <1>2. /\ origin' \in Seq(Logins)
        /\ Len(origin) \in Nat
        /\ Tokens' = Tokens \cup {new}
        /\ new \notin Tokens
        /\ \A k \in Tokens : origin'[k] = origin[k]
        /\ origin'[new] = l
        /\ Opened' = Opened \cup {l}
      BY <1>1, IssueTypes DEF IInv, Opens
  <1>3. live' = live \cup {new} /\ live \subseteq Tokens
      BY DEF Opens, IInv, Typed
  <1>4. \A k \in live : origin[k] # l
      BY <1>1, <1>3 DEF Opened
  <1>5. \A m \in Logins : TokensOf(m)' = IF m = l THEN {new} ELSE TokensOf(m)
      BY <1>2, <1>3, <1>4 DEF TokensOf
  <1>6. Opened' = 1 .. l
    <2>1. (1 .. (l - 1)) \cup {l} = 1 .. l
        BY <1>1, SessionsAssumption DEF Logins
    <2> QED
        BY <1>1, <1>2, <2>1
  <1>7. Cardinality(1 .. l) = l
      BY FS_Interval
  <1>8. Cardinality(Opened)' = l
      BY <1>6, <1>7
  <1>9. Dense'
      BY <1>6, <1>8 DEF Dense
  <1>10. OneTokenPerLogin'
      BY <1>2, <1>3, <1>4 DEF IInv, OneTokenPerLogin
  <1>11. Typed'
      BY <1>2, <1>3 DEF Typed
  <1> QED
      BY <1>1, <1>5, <1>8, <1>9, <1>10, <1>11 DEF IInv

LEMMA RevokesEffect ==
    ASSUME IInv, NEW cookie, Revokes(cookie)
    PROVE  /\ \A m \in Logins : TokensOf(m)' = TokensOf(m) \ {cookie}
           /\ IInv'
  <1>1. \A m \in Logins : TokensOf(m)' = TokensOf(m) \ {cookie}
      BY DEF TokensOf, Revokes
  <1>2. IInv'
      BY DEF IInv, Typed, Dense, OneTokenPerLogin, Opened, Tokens, Revokes
  <1> QED
      BY <1>1, <1>2

LEMMA StepPreserves == IInv /\ [Next]_vars => IInv'
  <1> SUFFICES ASSUME IInv, [Next]_vars PROVE IInv'
      OBVIOUS
  <1>1. CASE UNCHANGED server
      BY <1>1, StutterPreserves
  <1>2. ASSUME NEW old \in live, Rotates(old) PROVE IInv'
      BY <1>2, RotatesEffect
  <1>3. ASSUME NEW l \in Nat, Opens(l) PROVE IInv'
      BY <1>3, OpensEffect
  <1>4. ASSUME NEW cookie, Revokes(cookie) PROVE IInv'
      BY <1>4, RevokesEffect
  <1> QED
      BY <1>1, <1>2, <1>3, <1>4, StepKinds

LEMMA Inductive == Spec => []IInv
  BY InitEstablishes, StepPreserves, PTL DEF Spec

(* A login has at most one refresh token that is accepted, whatever the    *)
(* tabs send and in whatever order it is served: the rotation script, the  *)
(* login and the logout are all that write the allowlist.                  *)
THEOREM OneTokenHolds == Spec => []OneTokenPerLogin
  <1>1. IInv => OneTokenPerLogin
      BY DEF IInv
  <1> QED
      BY <1>1, Inductive, PTL

-----------------------------------------------------------------------------
(* The refinement.                                                         *)

LEMMA TheOneNone == TheOne({}) = 0
  BY DEF TheOne

LEMMA TheOneOne == ASSUME NEW k PROVE TheOne({k}) = k
  <1>1. (CHOOSE n \in {k} : TRUE) = k
      OBVIOUS
  <1> QED
      BY <1>1 DEF TheOne

Credential == [l \in Logins |-> Held(l)]

LEMMA PromiseInit == Init => Promise!Init
  <1> SUFFICES ASSUME Init PROVE Promise!Init
      OBVIOUS
  <1>1. origin = <<>> /\ live = {} /\ Len(origin) = 0
      BY DEF Init
  <1>2. Opened = {} /\ \A l \in Logins : TokensOf(l) = {}
      BY <1>1 DEF Opened, Tokens, TokensOf
  <1>3. Cardinality(Opened) = 0
      BY <1>2, FS_EmptySet
  <1> QED
      BY <1>1, <1>2, <1>3, TheOneNone DEF Promise!Init, Logins

LEMMA RotatesIsRenew ==
    ASSUME IInv, NEW old \in live, Rotates(old)
    PROVE  \E l \in Logins : Promise!Renew(l)
  <1>1. PICK l \in Logins : l = origin[old]
      BY RotatesEffect
  <1>2. PICK new \in Nat \ {0} : new = Len(origin) + 1
      BY Counted
  <1>3. /\ TokensOf(l) = {old}
        /\ TokensOf(l)' = {new}
        /\ \A m \in Logins \ {l} : TokensOf(m)' = TokensOf(m)
        /\ Opened' = Opened
    <2>1. TokensOf(l)' = TokensOf(origin[old])'
        BY <1>1, RotatesEffect, IssueTypes DEF TokensOf, IInv, Typed, Rotates
    <2> QED
        BY <1>1, <1>2, <2>1, RotatesEffect
  <1>4. Credential[l] = old /\ old \in Nat \ {0}
    <2>1. old \in Tokens
        BY DEF IInv, Typed
    <2>2. old \in Nat \ {0}
        BY <2>1, Counted DEF Tokens
    <2>3. Credential[l] = old
        BY <1>3, TheOneOne DEF Credential, Held
    <2> QED
        BY <2>2, <2>3
  <1>5. Held(l)' = new /\ \A m \in Logins \ {l} : Held(m)' = Held(m)
      BY <1>3, TheOneOne DEF Held
  <1>6. Credential' = [Credential EXCEPT ![l] = new]
      BY <1>5 DEF Credential
  <1>7. Len(origin') = new
      BY <1>1, <1>2, AppendProperties DEF IInv, Typed, Rotates
  <1>8. Cardinality(Opened)' = Cardinality(Opened)
      BY <1>3
  <1> QED
      BY <1>2, <1>4, <1>6, <1>7, <1>8 DEF Promise!Renew, Credential, Held

LEMMA OpensIsOpen ==
    ASSUME IInv, NEW l \in Nat, Opens(l)
    PROVE  Promise!Open
  <1>1. PICK new \in Nat \ {0} : new = Len(origin) + 1
      BY Counted
  <1>2. /\ l \in Logins
        /\ \A m \in Logins : TokensOf(m)' = IF m = l THEN {new} ELSE TokensOf(m)
        /\ Cardinality(Opened)' = l
      BY <1>1, OpensEffect
  <1>3. Held(l)' = new /\ \A m \in Logins \ {l} : Held(m)' = Held(m)
      BY <1>2, TheOneOne DEF Held
  <1>4. Credential' = [Credential EXCEPT ![l] = new]
      BY <1>2, <1>3 DEF Credential
  <1>5. Len(origin') = new
      BY <1>1, <1>2, AppendProperties DEF IInv, Typed, Opens
  <1>6. /\ Cardinality(Opened) \in Nat
        /\ l = Cardinality(Opened) + 1
        /\ Cardinality(Opened) < MaxLogins
      BY SessionsAssumption DEF IInv, Dense, Opens
  <1> QED
      BY <1>1, <1>2, <1>4, <1>5, <1>6 DEF Promise!Open, Credential, Held

LEMMA RevokesIsClose ==
    ASSUME IInv, NEW cookie, Revokes(cookie)
    PROVE  UNCHANGED Promise!vars \/ \E l \in Logins : Promise!Close(l)
  <1>1. \A m \in Logins : TokensOf(m)' = TokensOf(m) \ {cookie}
      BY RevokesEffect
  <1>2. UNCHANGED <<Cardinality(Opened), Len(origin)>>
      BY DEF Revokes, Opened, Tokens
  <1>3. CASE cookie \notin live
    <2>1. \A m \in Logins : TokensOf(m)' = TokensOf(m)
        BY <1>1, <1>3 DEF TokensOf
    <2>2. Credential' = Credential
        BY <2>1 DEF Credential, Held
    <2> QED
        BY <1>2, <2>2 DEF Promise!vars, Credential, Held
  <1>4. CASE cookie \in live
    <2>1. PICK l \in Logins : l = origin[cookie]
        BY <1>4, ElementOfSeq DEF IInv, Typed, Tokens
    <2>2. TokensOf(l) = {cookie} /\ cookie \in Nat \ {0}
      <3>1. cookie \in Tokens
          BY <1>4 DEF IInv, Typed
      <3>2. cookie \in Nat \ {0}
          BY <3>1, Counted DEF Tokens
      <3>3. TokensOf(l) = {cookie}
          BY <1>4, <2>1 DEF TokensOf, IInv, OneTokenPerLogin
      <3> QED
          BY <3>2, <3>3
    <2>3. /\ TokensOf(l)' = {}
          /\ \A m \in Logins \ {l} : TokensOf(m)' = TokensOf(m)
        BY <1>1, <2>1, <2>2 DEF TokensOf
    <2>4. Held(l)' = 0 /\ \A m \in Logins \ {l} : Held(m)' = Held(m)
        BY <2>3, TheOneNone DEF Held
    <2>5. Credential' = [Credential EXCEPT ![l] = 0]
        BY <2>4 DEF Credential
    <2>6. Credential[l] # 0
        BY <2>2, TheOneOne DEF Credential, Held
    <2> QED
        BY <1>2, <2>5, <2>6 DEF Promise!Close, Credential, Held
  <1> QED
      BY <1>3, <1>4

LEMMA StepImplements == IInv /\ [Next]_vars => [Promise!Next]_(Promise!vars)
  <1> SUFFICES ASSUME IInv, [Next]_vars PROVE [Promise!Next]_(Promise!vars)
      OBVIOUS
  <1>1. CASE UNCHANGED server
      BY <1>1 DEF server, Promise!vars, Opened, Tokens, TokensOf
  <1>2. ASSUME NEW old \in live, Rotates(old) PROVE Promise!Next
      BY <1>2, RotatesIsRenew DEF Promise!Next, Logins
  <1>3. ASSUME NEW l \in Nat, Opens(l) PROVE Promise!Next
      BY <1>3, OpensIsOpen DEF Promise!Next
  <1>4. ASSUME NEW cookie, Revokes(cookie)
        PROVE  UNCHANGED Promise!vars \/ Promise!Next
      BY <1>4, RevokesIsClose DEF Promise!Next, Logins
  <1> QED
      BY <1>1, <1>2, <1>3, <1>4, StepKinds

(* The allowlist implements SessionPromise: a login opens a session, a     *)
(* refresh replaces its one credential by one never issued before, a       *)
(* logout closes it, and a closed session is not renewed.                  *)
THEOREM AllowlistKeepsPromise == Spec => KeepsPromise
  BY PromiseInit, StepImplements, Inductive, PTL DEF Spec, KeepsPromise, Promise!Spec
=============================================================================
