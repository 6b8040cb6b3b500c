--------------------------- MODULE SessionPromise ---------------------------
(***************************************************************************)
(* What the refresh cookies promise, seen from outside: a login opens a    *)
(* session, a session holds one credential at a time, a renewal replaces   *)
(* it by one never issued before, and a closed session stays closed.       *)
(***************************************************************************)
EXTENDS Naturals

CONSTANT MaxLogins

VARIABLES
    opened,      \* the sessions 1 .. opened were opened
    issued,      \* the credentials 1 .. issued were issued
    credential   \* the credential of a session, 0 when it has none

vars == <<opened, issued, credential>>

Init ==
    /\ opened = 0
    /\ issued = 0
    /\ credential = [l \in 1 .. MaxLogins |-> 0]

Open ==
    /\ opened < MaxLogins
    /\ opened' = opened + 1
    /\ issued' = issued + 1
    /\ credential' = [credential EXCEPT ![opened + 1] = issued + 1]

Renew(l) ==
    /\ credential[l] # 0
    /\ issued' = issued + 1
    /\ credential' = [credential EXCEPT ![l] = issued + 1]
    /\ UNCHANGED opened

Close(l) ==
    /\ credential[l] # 0
    /\ credential' = [credential EXCEPT ![l] = 0]
    /\ UNCHANGED <<opened, issued>>

Next == Open \/ \E l \in 1 .. MaxLogins : Renew(l) \/ Close(l)

Spec == Init /\ [][Next]_vars
=============================================================================
