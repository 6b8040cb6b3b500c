------------------------------ MODULE Sessions ------------------------------
(***************************************************************************)
(* The sessions of one browser: the refresh cookie that its tabs share,    *)
(* the AuthService of each tab (libs/core/services/auth.service.ts), the   *)
(* interceptor that answers a 401, and the allowlist of refresh tokens     *)
(* that the login, refresh and logout endpoints keep (modules/iam).        *)
(*                                                                         *)
(* A refresh token is its number in the order of issue.  The allowlist     *)
(* lookup and the write that follows it are one step: rotation is one Lua  *)
(* script over the key the lookup found, and the logout deletes by key.    *)
(* Requests are served, and their answers applied, in any order.  Left     *)
(* out: the lapse of a token after its TTL, the two seconds in which       *)
(* refreshShared returns the token it has, and a second pepper.  Data      *)
(* requests that wait for one refresh stand for one.                       *)
(***************************************************************************)
EXTENDS Naturals, Sequences, FiniteSets

CONSTANTS
    Tabs,        \* the tabs of the browser
    MaxLogins,   \* bound on the logins the server accepts
    MaxTokens,   \* bound on the refresh tokens it issues
    Slots,       \* the places of requests under way: their number is the bound
    MaxFaults,   \* bound on lost requests and answers
    MaxLoads     \* bound on page loads

ASSUME SessionsAssumption ==
    /\ "gone" \notin Tabs
    /\ "none" \notin Slots
    /\ MaxLogins \in Nat /\ MaxTokens \in Nat
    /\ MaxFaults \in Nat /\ MaxLoads \in Nat

VARIABLES
    live,     \* cache:refresh:*, the allowlist of refresh tokens
    origin,   \* the login each token descends from, in order of issue
    jar,      \* the refresh_token cookie of the browser, 0 for none
    tab,      \* the AuthService of each tab
    flight,   \* the requests under way
    faults, loads,
    (***********************************************************************)
    (* Observers: they are never read by an action.                        *)
    (***********************************************************************)
    disturbed,  \* logins whose requests overlapped, were lost or reloaded,
                \* and logins that another login replaced in the cookie
    ended,      \* logins a tab asked to log out
    seen        \* what a tab went through

server == <<live, origin>>
counters == <<faults, loads>>
observers == <<disturbed, ended, seen>>
vars == <<live, origin, jar, tab, flight, faults, loads, disturbed, ended, seen>>

Tokens == 1 .. Len(origin)
Cookies == 0 .. Len(origin)
Logins == 1 .. MaxLogins
Opened == {origin[k] : k \in Tokens}

Gone == "gone"   \* the page that sent the request is no more
None == "none"
Empty == [kind |-> "none"]
AuthKinds == {"refresh", "logout", "login"}
Waiting == {"silent", "boot", "retry", "login"}

(* kind: the endpoint; cookie: the refresh token it carries; waits: what   *)
(* goes on in the tab when it is answered; token: the token of an answer;  *)
(* mixed: it overlapped with another request about sessions.               *)
Request ==
    [kind : AuthKinds \cup {"me", "api", "retry"}, tab : Tabs \cup {Gone},
     cookie : Nat, waits : SUBSET Waiting, at : {"out", "ok", "refused"},
     token : Nat, mixed : BOOLEAN]

(* _token, _loggedOut, _refreshInFlight (the slot of the request it stands *)
(* for) and whether _refreshTimer is set.                                  *)
AuthService ==
    [token : {"none", "good", "old"}, out : BOOLEAN, inFlight : Slots \cup {None},
     timer : BOOLEAN]
NoSession == [token |-> "none", out |-> FALSE, inFlight |-> None, timer |-> FALSE]

TypeOK ==
    /\ origin \in Seq(Logins)
    /\ live \subseteq Tokens
    /\ jar \in Cookies
    /\ tab \in [Tabs -> AuthService]
    /\ flight \in [Slots -> Request \cup {Empty}]
    /\ \A i \in Slots : flight[i] # Empty =>
           flight[i].cookie \in Cookies /\ flight[i].token \in Cookies
    /\ faults \in 0 .. MaxFaults
    /\ loads \in 0 .. MaxLoads
    /\ disturbed \subseteq Logins
    /\ ended \subseteq Logins
    /\ seen \in [Tabs -> [login : 0 .. MaxLogins, left : BOOLEAN,
                          pending : BOOLEAN, stalled : BOOLEAN]]

(* The tabs' bootstraps found no cookie.                                   *)
Init ==
    /\ live = {}
    /\ origin = <<>>
    /\ jar = 0
    /\ tab = [t \in Tabs |-> NoSession]
    /\ flight = [i \in Slots |-> Empty]
    /\ faults = 0
    /\ loads = 0
    /\ disturbed = {}
    /\ ended = {}
    /\ seen = [t \in Tabs |-> [login |-> 0, left |-> FALSE,
                               pending |-> FALSE, stalled |-> FALSE]]

-----------------------------------------------------------------------------
(* Requests.                                                               *)

Free(f) == {i \in Slots : f[i] = Empty}
FreeSlot(f) == CHOOSE i \in Free(f) : TRUE
Put(f, r) == [f EXCEPT ![FreeSlot(f)] = r]
Drop(f, i) == [f EXCEPT ![i] = Empty]

Asks(kind, t, cookie, wait, token) ==
    [kind |-> kind, tab |-> t, cookie |-> cookie, waits |-> wait, at |-> "out",
     token |-> token, mixed |-> FALSE]

(* Requests about sessions overlap unless they are refreshes of one tab:   *)
(* those the tab is to join in one.                                        *)
Overlapping(f, r) ==
    {i \in Slots : /\ f[i] # Empty
                   /\ f[i].kind \in AuthKinds
                   /\ f[i].tab # Gone
                   /\ \/ f[i].tab # r.tab
                      \/ {f[i].kind, r.kind} # {"refresh"}}

Send(f, r) ==
    LET met == Overlapping(f, r)
    IN  Put([i \in Slots |-> IF i \in met THEN [f[i] EXCEPT !.mixed = TRUE]
                                         ELSE f[i]],
            [r EXCEPT !.mixed = met # {}])

LoginsOf(r) == {origin[k] : k \in {r.cookie, r.token} \ {0}}
Mingled(f) ==
    UNION {LoginsOf(f[i]) : i \in {j \in Slots : f[j] # Empty /\ f[j].mixed}}

(* An answer that will put a token in the tab.                             *)
Resumes(f, t) ==
    \E i \in Slots :
        /\ f[i] # Empty
        /\ f[i].tab = t
        /\ f[i].kind \in {"login", "refresh", "me"}
        /\ f[i].waits # {"retry"}

\* Mutant: no request is joined.
RefreshAlone(f, u, t, wait) ==
    /\ Free(f) # {}
    /\ flight' = Send(f, Asks("refresh", t, jar, {wait}, 0))
    /\ tab' = [u EXCEPT ![t].inFlight = FreeSlot(f)]

(* _refreshNetwork: join the request in flight, or make one with the       *)
(* cookie the browser has; u is the tabs after what else the caller does.  *)
Refresh(f, u, t, wait) ==
    \/ /\ u[t].inFlight # None
       /\ flight' = [f EXCEPT ![u[t].inFlight].waits = @ \cup {wait}]
       /\ tab' = u
    \/ /\ u[t].inFlight = None
       /\ Free(f) # {}
       /\ flight' = Send(f, Asks("refresh", t, jar, {wait}, 0))
       /\ tab' = [u EXCEPT ![t].inFlight = FreeSlot(f)]

\* Mutant: the timer outlives the session.
ClearedKeepingTimer(u, t, out) ==
    [u EXCEPT ![t] = [NoSession EXCEPT !.out = out, !.timer = u[t].timer]]

(* What logout and forceLogout clear.                                      *)
Cleared(u, t, out) == [u EXCEPT ![t] = [NoSession EXCEPT !.out = out]]

(* logout and forceLogout: revoke the cookie, whoever put it there.        *)
Leave(f, u, t, cookie, out) ==
    /\ Free(f) # {}
    /\ flight' = Send(f, Asks("logout", t, cookie, {}, 0))
    /\ tab' = Cleared(u, t, out)
    /\ ended' = ended \cup {origin[k] : k \in {cookie} \ {0}}
    /\ seen' = [seen EXCEPT ![t].left = TRUE, ![t].pending = Resumes(f, t),
                            ![t].stalled = FALSE]

(* forceLogout, once: _loggedOut is the guard.                             *)
ForceLogout(f, u, t, cookie) ==
    \/ ~ u[t].out /\ Leave(f, u, t, cookie, TRUE)
    \/ /\ u[t].out
       /\ flight' = f
       /\ tab' = u
       /\ UNCHANGED <<ended, seen>>

-----------------------------------------------------------------------------
(* The tabs.                                                               *)

(* The access token's lifetime passes.                                     *)
Age(t) ==
    /\ tab[t].token = "good"
    /\ tab' = [tab EXCEPT ![t].token = "old"]
    /\ UNCHANGED <<server, jar, flight, counters, observers>>

(* The timer of scheduleRefresh fires: _doSilentRefresh.                   *)
SilentRefresh(t) ==
    /\ tab[t].timer
    /\ Refresh(flight, [tab EXCEPT ![t].timer = FALSE], t, "silent")
    /\ disturbed' = disturbed \cup Mingled(flight')
    /\ UNCHANGED <<server, jar, counters, ended, seen>>

(* A data request leaves with an access token that is too old.             *)
DataRequest(t) ==
    /\ tab[t].token = "old"
    /\ Free(flight) # {}
    /\ flight' = Put(flight, Asks("api", t, 0, {}, 0))
    /\ UNCHANGED <<server, jar, tab, counters, observers>>

(* Its 401: handle401 refreshes, also when the tab has logged out since.   *)
DataRefused(i) ==
    /\ flight[i] # Empty /\ flight[i].kind = "api"
    /\ Refresh(Drop(flight, i), tab, flight[i].tab, "retry")
    /\ disturbed' = disturbed \cup Mingled(flight')
    /\ UNCHANGED <<server, jar, counters, ended, seen>>

(* The retried request succeeds, or its error reaches the handler of a     *)
(* failed refresh.                                                         *)
RetryEnds(i) ==
    /\ flight[i] # Empty /\ flight[i].kind = "retry"
    /\ \/ /\ flight' = Drop(flight, i)
          /\ UNCHANGED <<tab, ended, seen>>
       \/ ForceLogout(Drop(flight, i), tab, flight[i].tab, jar)
    /\ disturbed' = disturbed \cup Mingled(flight')
    /\ UNCHANGED <<server, jar, counters>>

Booting(t) ==
    \E i \in Slots : /\ flight[i] # Empty
                     /\ flight[i].tab = t
                     /\ "boot" \in flight[i].waits

(* The seller logs out.                                                    *)
Logout(t) ==
    /\ tab[t].token # "none"
    /\ ~ Booting(t)
    /\ Leave(flight, tab, t, jar, FALSE)
    /\ disturbed' = disturbed \cup Mingled(flight')
    /\ UNCHANGED <<server, jar, counters>>

(* The seller sends a valid code or a Google credential.  A login replaces *)
(* the cookie of another without revoking its token.                       *)
Login(t) ==
    /\ tab[t].token = "none"
    /\ ~ Booting(t)
    /\ \A i \in Slots : flight[i] # Empty /\ flight[i].tab = t
                            => flight[i].kind # "login"
    /\ Free(flight) # {}
    /\ flight' = Send(flight, Asks("login", t, jar, {"login"}, 0))
    /\ disturbed' = disturbed \cup Mingled(flight') \cup
                        {origin[k] : k \in {jar} \ {0}}
    /\ seen' = [seen EXCEPT ![t].left = FALSE, ![t].pending = FALSE]
    /\ UNCHANGED <<server, jar, tab, counters, ended>>

(* The page is loaded again: what it waited for is cut off, the server may *)
(* still serve what it sent, and bootstrap refreshes.                      *)
Load(t) ==
    /\ loads < MaxLoads
    /\ loads' = loads + 1
    /\ LET mine == {i \in Slots : flight[i] # Empty /\ flight[i].tab = t}
           sent == {i \in mine : flight[i].kind \in AuthKinds}
           rest == [i \in Slots |->
                       IF i \notin mine THEN flight[i]
                       ELSE IF i \in sent /\ flight[i].at = "out"
                            THEN [flight[i] EXCEPT !.tab = Gone]
                            ELSE Empty]
       IN  /\ Refresh(rest, [tab EXCEPT ![t] = NoSession], t, "boot")
           /\ disturbed' = disturbed \cup Mingled(flight') \cup
                               UNION {LoginsOf(flight[i]) : i \in sent}
    /\ seen' = [seen EXCEPT ![t] = [login |-> 0, left |-> FALSE,
                                    pending |-> FALSE, stalled |-> FALSE]]
    /\ UNCHANGED <<server, jar, faults, ended>>

-----------------------------------------------------------------------------
(* The endpoints.                                                          *)

(* The answer leaves, unless the page is gone.                             *)
Answered(i, at, token) ==
    flight' = IF flight[i].tab = Gone THEN Drop(flight, i)
              ELSE [flight EXCEPT ![i].at = at, ![i].token = token]

Served(i, kind) ==
    flight[i] # Empty /\ flight[i].kind = kind /\ flight[i].at = "out"

\* Mutant: the script does not delete the key it replaces.
RotatedKept(old, new) == live \cup {new}

\* Mutant: the script deletes and does not set.
RotatedAway(old, new) == live \ {old}

(* REFRESH_ROTATE_LUA                                                      *)
Rotated(old, new) == (live \ {old}) \cup {new}

(* validate_refresh_allowlist                                              *)
Known(cookie) == cookie \in live

ServeRefresh(i) ==
    /\ Served(i, "refresh")
    /\ LET old == flight[i].cookie
           new == Len(origin) + 1
       IN  \/ /\ Known(old)
              /\ new <= MaxTokens
              /\ live' = Rotated(old, new)
              /\ origin' = Append(origin, origin[old])
              /\ Answered(i, "ok", new)
           \/ /\ ~ Known(old)
              /\ Answered(i, "refused", 0)
              /\ UNCHANGED server
    /\ UNCHANGED <<jar, tab, counters, observers>>

(* revoke_refresh_token: delete whatever the cookie names.                 *)
Revoked(cookie) == live \ {cookie}

ServeLogout(i) ==
    /\ Served(i, "logout")
    /\ live' = Revoked(flight[i].cookie)
    /\ Answered(i, "ok", 0)
    /\ UNCHANGED <<origin, jar, tab, counters, observers>>

(* verify_otp_and_issue_tokens and verify_google_and_issue_tokens, once    *)
(* the credential holds.                                                   *)
ServeLogin(i) ==
    /\ Served(i, "login")
    /\ Len(origin) < MaxTokens
    /\ LET l == Cardinality(Opened) + 1
           new == Len(origin) + 1
       IN  /\ l <= MaxLogins
           /\ live' = live \cup {new}
           /\ origin' = Append(origin, l)
           /\ Answered(i, "ok", new)
           /\ disturbed' = IF flight[i].mixed \/ flight[i].tab = Gone
                           THEN disturbed \cup {l} ELSE disturbed
    /\ UNCHANGED <<jar, tab, counters, ended, seen>>

-----------------------------------------------------------------------------
(* The answers.                                                            *)

Arrives(i, kind, at) ==
    /\ flight[i] # Empty
    /\ flight[i].kind = kind
    /\ flight[i].at = at

(* The rotated cookie is stored; _doSilentRefresh and bootstrap take the   *)
(* access token and ask /me, the interceptor repeats the data request.     *)
RefreshOk(i) ==
    LET r == flight[i]
        t == r.tab
        hydrates == r.waits \cap {"silent", "boot"}
        rest == Drop(flight, i)
        hydrated == IF hydrates = {} THEN rest
                    ELSE Put(rest, Asks("me", t, 0, hydrates, r.token))
    IN  /\ Arrives(i, "refresh", "ok")
        /\ hydrates # {} /\ "retry" \in r.waits => Free(flight) # {}
        /\ jar' = r.token
        /\ flight' = IF "retry" \notin r.waits THEN hydrated
                     ELSE Put(hydrated, Asks("retry", t, 0, {}, 0))
        /\ tab' = [tab EXCEPT ![t].inFlight = None,
                              ![t].token = IF hydrates = {} THEN @ ELSE "good"]
        /\ seen' = [seen EXCEPT ![t].login = IF hydrates = {} THEN @
                                            ELSE origin[r.token]]
        /\ UNCHANGED <<server, counters, disturbed, ended>>

(* The 401 clears the cookie, whatever it holds by then.                   *)
RefreshRefused(i) ==
    LET r == flight[i]
        done == [tab EXCEPT ![r.tab].inFlight = None]
    IN  /\ Arrives(i, "refresh", "refused")
        /\ jar' = 0
        /\ \/ /\ r.waits # {"boot"}
              /\ ForceLogout(Drop(flight, i), done, r.tab, 0)
           \/ /\ r.waits = {"boot"}
              /\ flight' = Drop(flight, i)
              /\ tab' = done
              /\ UNCHANGED <<ended, seen>>
        /\ disturbed' = disturbed \cup Mingled(flight')
        /\ UNCHANGED <<server, counters>>

(* The request or its answer is lost: an error that is not a 401.  The     *)
(* interceptor logs out on any error, the silent refresh gives up.         *)
RefreshLost(i) ==
    LET r == flight[i]
        done == [tab EXCEPT ![r.tab].inFlight = None]
    IN  /\ flight[i] # Empty /\ r.kind = "refresh" /\ r.tab # Gone
        /\ faults < MaxFaults
        /\ faults' = faults + 1
        /\ \/ /\ "retry" \in r.waits
              /\ ForceLogout(Drop(flight, i), done, r.tab, jar)
           \/ /\ "retry" \notin r.waits
              /\ flight' = Drop(flight, i)
              /\ tab' = done
              /\ seen' = [seen EXCEPT ![r.tab].stalled = TRUE]
              /\ UNCHANGED ended
        /\ disturbed' = disturbed \cup Mingled(flight') \cup LoginsOf(r)
        /\ UNCHANGED <<server, jar, loads>>

LogoutOk(i) ==
    /\ Arrives(i, "logout", "ok")
    /\ jar' = 0
    /\ flight' = Drop(flight, i)
    /\ UNCHANGED <<server, tab, counters, observers>>

(* Fire and forget: nobody learns of the error.                            *)
LogoutLost(i) ==
    /\ flight[i] # Empty /\ flight[i].kind = "logout" /\ flight[i].tab # Gone
    /\ faults < MaxFaults
    /\ faults' = faults + 1
    /\ flight' = Drop(flight, i)
    /\ UNCHANGED <<server, jar, tab, loads, observers>>

(* completeLogin: take the access token and ask /me.                       *)
LoginOk(i) ==
    LET r == flight[i]
    IN  /\ Arrives(i, "login", "ok")
        /\ jar' = r.token
        /\ flight' = Put(Drop(flight, i), Asks("me", r.tab, 0, {"login"}, r.token))
        /\ tab' = [tab EXCEPT ![r.tab].token = "good"]
        /\ seen' = [seen EXCEPT ![r.tab].login = origin[r.token]]
        /\ UNCHANGED <<server, counters, disturbed, ended>>

LoginLost(i) ==
    LET r == flight[i]
    IN  /\ flight[i] # Empty /\ r.kind = "login" /\ r.tab # Gone
        /\ faults < MaxFaults
        /\ faults' = faults + 1
        /\ flight' = Drop(flight, i)
        /\ disturbed' = disturbed \cup LoginsOf(r)
        /\ UNCHANGED <<server, jar, tab, loads, ended, seen>>

\* Mutant: the next refresh is scheduled only when /me succeeds.
KeptUnscheduled(u, t, login) ==
    IF login THEN [u EXCEPT ![t].token = "good", ![t].out = FALSE] ELSE u

(* /me failed: a login keeps a minimal session, the others only schedule.  *)
Kept(u, t, login) ==
    IF login THEN [u EXCEPT ![t].token = "good", ![t].out = FALSE,
                            ![t].timer = TRUE]
             ELSE [u EXCEPT ![t].timer = TRUE]

(* setSession and scheduleRefresh, also in a tab that logged out since.    *)
MeEnds(i) ==
    LET r == flight[i]
        t == r.tab
    IN  /\ flight[i] # Empty /\ r.kind = "me"
        /\ flight' = Drop(flight, i)
        /\ \/ /\ tab' = [tab EXCEPT ![t].token = "good", ![t].out = FALSE,
                                    ![t].timer = TRUE]
              /\ seen' = [seen EXCEPT ![t].login = origin[r.token],
                                      ![t].stalled = FALSE]
           \/ /\ tab' = Kept(tab, t, "login" \in r.waits)
              /\ seen' = [seen EXCEPT ![t].login = IF "login" \in r.waits
                                                   THEN origin[r.token] ELSE @,
                                      ![t].stalled = FALSE]
        /\ UNCHANGED <<server, jar, counters, disturbed, ended>>

-----------------------------------------------------------------------------
TabStep(t) ==
    \/ Age(t) \/ SilentRefresh(t) \/ DataRequest(t)
    \/ Logout(t) \/ Login(t) \/ Load(t)

Serve(i) == ServeRefresh(i) \/ ServeLogout(i) \/ ServeLogin(i)

Answer(i) ==
    \/ RefreshOk(i) \/ RefreshRefused(i) \/ RefreshLost(i)
    \/ LogoutOk(i) \/ LogoutLost(i) \/ LoginOk(i) \/ LoginLost(i)
    \/ MeEnds(i) \/ DataRefused(i) \/ RetryEnds(i)

Next ==
    \/ \E t \in Tabs : TabStep(t)
    \/ \E i \in Slots : Serve(i) \/ Answer(i)

Spec == Init /\ [][Next]_vars

-----------------------------------------------------------------------------
(* Properties.                                                             *)

TokensOf(l) == {k \in live : origin[k] = l}

(* A login has at most one refresh token that is accepted, however often   *)
(* and from however many tabs it is refreshed (REFRESH_ROTATE_LUA).        *)
OneTokenPerLogin == \A k, m \in live : origin[k] = origin[m] => k = m

(* A token that is accepted is the browser's cookie or on its way to it:   *)
(* no refresh, logout or login leaves one behind, unless its requests      *)
(* overlapped with those of another tab or with a logout, were lost, cut   *)
(* off by a page load, or another login took the cookie over.              *)
LiveIsHeld ==
    \A k \in live :
        \/ k = jar
        \/ \E i \in Slots : /\ flight[i] # Empty
                            /\ flight[i].tab # Gone
                            /\ flight[i].token = k
                            /\ flight[i].at = "ok"
        \/ origin[k] \in disturbed

(* The login whose session a tab shows has a token the server accepts,     *)
(* unless a tab logged it out: not even overlapping or lost requests leave *)
(* the tab with a session that nobody ended and that the server forgot.    *)
(* Whether the browser still has that token is LiveIsHeld.                 *)
SessionFollowsTab ==
    \A t \in Tabs :
        tab[t].token # "none" =>
            LET l == seen[t].login
            IN  l \in ended \/ TokensOf(l) # {}

(* A tab that logged out shows a session again only after a login or a     *)
(* load, or when it still waited for an answer at the logout (logout and   *)
(* forceLogout cut the timer off, never a subscription).                   *)
LogoutSticks ==
    \A t \in Tabs :
        seen[t].left /\ tab[t].token # "none" => seen[t].pending

(* A tab that shows a session renews it: a timer is set, or an answer that *)
(* sets one is awaited, or a silent refresh met an error that is not a 401 *)
(* (_doSilentRefresh schedules nothing then), or an answer that came after *)
(* a forced logout put the token back and left _loggedOut set, so that the *)
(* next forced logout does nothing.                                        *)
KeepsRenewing ==
    \A t \in Tabs :
        \/ tab[t].token = "none"
        \/ tab[t].timer
        \/ Resumes(flight, t)
        \/ seen[t].stalled
        \/ tab[t].out

TheOne(S) == IF S = {} THEN 0 ELSE CHOOSE k \in S : TRUE

(* The allowlist keeps the promise of SessionPromise.                      *)
Promise == INSTANCE SessionPromise WITH
    opened <- Cardinality(Opened),
    issued <- Len(origin),
    credential <- [l \in Logins |-> TheOne(TokensOf(l))]
KeepsPromise == Promise!Spec
=============================================================================
