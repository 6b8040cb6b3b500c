------------------------- MODULE SessionsTabsProofs -------------------------
(***************************************************************************)
(* Proofs about Sessions for any tabs, number of requests under way,       *)
(* logins, tokens, faults and loads: what the tabs show agrees with what   *)
(* the server accepts, and no accepted token is left behind, whatever      *)
(* order requests and answers take.                                        *)
(*                                                                         *)
(* The invariant has four layers, each proved on top of those before it:   *)
(*   Base     the types, what each kind of request carries (Shaped), that  *)
(*            a tab joins only a refresh of its own (Tracks), and that a   *)
(*            tab that boots has no other request (Boots);                 *)
(*   Agree    what a tab shows, and whether it waits for more (Agrees);    *)
(*   Unended  a login that no tab ended keeps an accepted token;           *)
(*   Holds    such a token is the cookie, or travels with the only request *)
(*            about sessions (Sole), or its login was disturbed.           *)
(* The requests and the tabs after part of a step are parameters f and u,  *)
(* as they are in the operators of Sessions.                               *)
(***************************************************************************)
EXTENDS SessionsProofs

(* What a request is, beyond its type: n tokens were issued, e and d are   *)
(* the cookies whose logins were ended and disturbed.                      *)
Shaped(r, n, e, d) ==
    /\ r.cookie \in 0 .. n
    /\ r.token \in 0 .. n
    /\ r.kind \notin AuthKinds => r.tab # Gone
    /\ r.kind = "refresh" =>
           r.waits # {} /\ r.waits \subseteq {"silent", "boot", "retry"}
    /\ r.kind \in {"login", "me"} => "retry" \notin r.waits
    /\ r.kind = "me" => r.token # 0
    /\ r.kind \in {"refresh", "login"} /\ r.at = "ok" => r.token # 0
    /\ r.at # "out" => r.tab # Gone
    /\ r.kind = "logout" => r.cookie \in e
    /\ r.tab = Gone => r.cookie \in d

(* A tab joins a refresh of its own.                                       *)
Tracks(f, u) ==
    \A t \in Tabs : u[t].inFlight # None =>
        /\ u[t].inFlight \in Slots
        /\ f[u[t].inFlight] # Empty
        /\ f[u[t].inFlight].kind = "refresh"
        /\ f[u[t].inFlight].tab = t

BootsIn(f, i, t) ==
    /\ f[i] # Empty
    /\ f[i].kind = "refresh"
    /\ f[i].tab = t
    /\ "boot" \in f[i].waits

(* A tab that boots has nothing but the refresh of its bootstrap.          *)
Boots(f, u) ==
    \A t \in Tabs, i \in Slots : BootsIn(f, i, t) =>
        /\ u[t].token = "none" /\ ~ u[t].timer /\ u[t].inFlight = i
        /\ \A j \in Slots \ {i} : f[j] # Empty => f[j].tab # t

Flights == [Slots -> Request \cup {Empty}]
Services == [Tabs -> AuthService]

Struct(f, u, n, e, d) ==
    /\ f \in Flights
    /\ u \in Services
    /\ \A i \in Slots : f[i] # Empty => Shaped(f[i], n, e, d)
    /\ Tracks(f, u)
    /\ Boots(f, u)

NoBoot(f, t) == \A i \in Slots : ~ BootsIn(f, i, t)

-----------------------------------------------------------------------------
(* Requests and services as records.                                       *)

LEMMA RequestFields ==
  ASSUME NEW r \in Request
  PROVE  /\ r # Empty
         /\ r.kind \in AuthKinds \cup {"me", "api", "retry"}
         /\ r.tab \in Tabs \cup {Gone} /\ r.cookie \in Nat
         /\ r.waits \subseteq Waiting /\ r.at \in {"out", "ok", "refused"}
         /\ r.token \in Nat /\ r.mixed \in BOOLEAN
  BY DEF Request, Empty, AuthKinds

(* Two requests that differ in whether they overlapped.                    *)
Alike(a, b) ==
    /\ a.kind = b.kind /\ a.tab = b.tab /\ a.cookie = b.cookie
    /\ a.waits = b.waits /\ a.at = b.at /\ a.token = b.token

LEMMA MixedRequest ==
  ASSUME NEW r \in Request, NEW m \in BOOLEAN
  PROVE  /\ [r EXCEPT !.mixed = m] \in Request
         /\ Alike([r EXCEPT !.mixed = m], r)
         /\ [r EXCEPT !.mixed = m].mixed = m
  BY DEF Request, Alike

LEMMA ServiceFields ==
  ASSUME NEW v \in AuthService
  PROVE  /\ v.token \in {"none", "good", "old"} /\ v.out \in BOOLEAN
         /\ v.inFlight \in Slots \cup {None} /\ v.timer \in BOOLEAN
  BY DEF AuthService

-----------------------------------------------------------------------------
(* What Send and Put do.                                                   *)

Adds(g, f, s, r) ==
    /\ g \in Flights
    /\ s \in Slots
    /\ f[s] = Empty
    /\ g[s] # Empty /\ Alike(g[s], r)
    /\ g[s].mixed <=> Overlapping(f, r) # {}
    /\ \A j \in Slots \ {s} :
           /\ f[j] = Empty => g[j] = Empty
           /\ f[j] # Empty =>
                  /\ g[j] # Empty /\ Alike(g[j], f[j])
                  /\ g[j].mixed <=> f[j].mixed \/ j \in Overlapping(f, r)

LEMMA FreeSlotIsFree ==
  ASSUME NEW f, Free(f) # {}
  PROVE  FreeSlot(f) \in Slots /\ f[FreeSlot(f)] = Empty
  <1>1. FreeSlot(f) \in Free(f)
      BY DEF FreeSlot
  <1> QED
      BY <1>1 DEF Free

LEMMA SendAdds ==
  ASSUME NEW f \in Flights, Free(f) # {}, NEW r \in Request
  PROVE  Adds(Send(f, r), f, FreeSlot(f), r)
  <1> DEFINE met == Overlapping(f, r)
             m == [i \in Slots |-> IF i \in met THEN [f[i] EXCEPT !.mixed = TRUE]
                                                ELSE f[i]]
             q == [r EXCEPT !.mixed = (met # {})]
             s == FreeSlot(f)
             g == [m EXCEPT ![s] = q]
  <1>1. met \subseteq Slots /\ \A i \in met : f[i] # Empty
      BY DEF Overlapping
  <1> HIDE DEF met
  <1>2. \A i \in Slots : f[i] \in Request \/ f[i] = Empty
      BY DEF Flights
  <1>3. ASSUME NEW i \in Slots
        PROVE  /\ m[i] \in Request \cup {Empty}
               /\ m[i] = Empty <=> f[i] = Empty
               /\ f[i] # Empty =>
                      Alike(m[i], f[i]) /\ (m[i].mixed <=> f[i].mixed \/ i \in met)
    <2>1. CASE i \in met
      <3>1. f[i] \in Request /\ m[i] = [f[i] EXCEPT !.mixed = TRUE]
          BY <1>1, <1>2, <2>1
      <3> QED
          BY <2>1, <3>1, MixedRequest, RequestFields
    <2>2. CASE i \notin met
      <3>1. m[i] = f[i]
          BY <2>2
      <3>2. Alike(f[i], f[i])
          BY DEF Alike
      <3> QED
          BY <1>2, <2>2, <3>1, <3>2
    <2> QED
        BY <2>1, <2>2
  <1>4. Free(m) = Free(f)
      BY <1>3 DEF Free
  <1>5. FreeSlot(m) = s
      BY <1>4 DEF FreeSlot
  <1>6. s \in Slots /\ f[s] = Empty
      BY FreeSlotIsFree
  <1>7. q \in Request /\ Alike(q, r) /\ (q.mixed <=> met # {}) /\ q # Empty
      BY MixedRequest, RequestFields
  <1>8. m \in [Slots -> Request \cup {Empty}]
      BY <1>3
  <1>9. Send(f, r) = g
      BY <1>5 DEF Send, Put, met
  <1> HIDE DEF m, q, s
  <1>10. g \in Flights /\ g[s] = q /\ \A j \in Slots \ {s} : g[j] = m[j]
      BY <1>6, <1>7, <1>8 DEF Flights
  <1> QED
      BY <1>3, <1>6, <1>7, <1>9, <1>10 DEF Adds, met, s

Puts(g, f, s, r) ==
    /\ g \in Flights
    /\ s \in Slots
    /\ f[s] = Empty
    /\ g[s] = r
    /\ \A j \in Slots \ {s} : g[j] = f[j]

LEMMA PutPuts ==
  ASSUME NEW f \in Flights, Free(f) # {}, NEW r \in Request
  PROVE  Puts(Put(f, r), f, FreeSlot(f), r)
  BY FreeSlotIsFree DEF Puts, Put, Flights

LEMMA DropIs ==
  ASSUME NEW f \in Flights, NEW i \in Slots
  PROVE  /\ Drop(f, i) \in Flights
         /\ Drop(f, i)[i] = Empty
         /\ \A j \in Slots \ {i} : Drop(f, i)[j] = f[j]
         /\ i \in Free(Drop(f, i))
  BY DEF Drop, Flights, Free

-----------------------------------------------------------------------------
(* The structure of requests and tabs, kept by each operator.              *)

LEMMA ShapedGrows ==
  ASSUME NEW f, NEW u, NEW n \in Nat, NEW e, NEW d,
         NEW n2 \in Nat, NEW e2, NEW d2, Struct(f, u, n, e, d),
         n <= n2, e \subseteq e2, d \subseteq d2
  PROVE  Struct(f, u, n2, e2, d2)
  <1>1. ASSUME NEW i \in Slots, f[i] # Empty PROVE Shaped(f[i], n2, e2, d2)
    <2>1. Shaped(f[i], n, e, d) /\ f[i] \in Request
        BY <1>1 DEF Struct, Flights
    <2>2. 0 .. n \subseteq 0 .. n2
        OBVIOUS
    <2> QED
        BY <2>1, <2>2 DEF Shaped
  <1> QED
      BY <1>1 DEF Struct

LEMMA AlikeShaped ==
  ASSUME NEW a, NEW b, NEW n, NEW e, NEW d, Alike(a, b), Shaped(b, n, e, d)
  PROVE  Shaped(a, n, e, d)
  BY DEF Alike, Shaped

LEMMA TracksNone ==
  ASSUME NEW f, NEW u, NEW t \in Tabs, Tracks(f, u), Boots(f, u),
         u[t].inFlight = None
  PROVE  NoBoot(f, t)
  <1> SUFFICES ASSUME NEW i \in Slots, BootsIn(f, i, t) PROVE FALSE
      BY DEF NoBoot
  <1> QED
      BY SessionsAssumption DEF Boots, None

LEMMA AloneBoots ==
  ASSUME NEW f \in Flights, NEW u, NEW t \in Tabs, NEW i \in Slots, Boots(f, u),
         f[i] # Empty, f[i].tab = t
  PROVE  NoBoot(Drop(f, i), t)
  <1> SUFFICES ASSUME NEW j \in Slots, BootsIn(Drop(f, i), j, t) PROVE FALSE
      BY DEF NoBoot
  <1>1. j # i /\ BootsIn(f, j, t)
      BY DropIs DEF BootsIn
  <1> QED
      BY <1>1 DEF Boots

LEMMA DropStruct ==
  ASSUME NEW f, NEW u, NEW n, NEW e, NEW d, Struct(f, u, n, e, d),
         NEW i \in Slots, \A t \in Tabs : u[t].inFlight # i
  PROVE  Struct(Drop(f, i), u, n, e, d)
  <1> DEFINE g == Drop(f, i)
  <1>1. f \in Flights
      BY DEF Struct
  <1>2. g \in Flights /\ g[i] = Empty /\ \A j \in Slots \ {i} : g[j] = f[j]
      BY <1>1, DropIs
  <1> HIDE DEF g
  <1>3. Tracks(g, u)
      BY <1>2 DEF Struct, Tracks
  <1>4. Boots(g, u)
    <2> SUFFICES ASSUME NEW t \in Tabs, NEW j \in Slots, BootsIn(g, j, t)
                 PROVE  /\ u[t].token = "none" /\ ~ u[t].timer /\ u[t].inFlight = j
                        /\ \A k \in Slots \ {j} : g[k] # Empty => g[k].tab # t
        BY DEF Boots
    <2>1. BootsIn(f, j, t)
        BY <1>2 DEF BootsIn
    <2> QED
        BY <1>2, <2>1 DEF Struct, Boots
  <1>5. \A j \in Slots : g[j] # Empty => Shaped(g[j], n, e, d)
      BY <1>2 DEF Struct
  <1> QED
      BY <1>2, <1>3, <1>4, <1>5 DEF Struct, g

(* A service is exchanged for one that stands for the same request, or for *)
(* none, in a tab that does not boot.                                      *)
LEMMA TabStruct ==
  ASSUME NEW f, NEW u, NEW n, NEW e, NEW d, Struct(f, u, n, e, d),
         NEW t \in Tabs, NoBoot(f, t),
         NEW v \in AuthService, v.inFlight \in {u[t].inFlight, None}
  PROVE  Struct(f, [u EXCEPT ![t] = v], n, e, d)
  <1> DEFINE w == [u EXCEPT ![t] = v]
  <1>1. w \in Services /\ w[t] = v /\ \A x \in Tabs \ {t} : w[x] = u[x]
      BY DEF Struct, Services
  <1> HIDE DEF w
  <1>2. Tracks(f, w)
      BY <1>1 DEF Struct, Tracks
  <1>3. Boots(f, w)
      BY <1>1 DEF Struct, Boots, NoBoot
  <1> QED
      BY <1>1, <1>2, <1>3 DEF Struct, w

(* A refresh is over, and its tab stands for none.                         *)
LEMMA EndStruct ==
  ASSUME NEW f, NEW u, NEW n, NEW e, NEW d, Struct(f, u, n, e, d),
         NEW i \in Slots, NEW t \in Tabs, f[i] # Empty, f[i].tab = t
  PROVE  /\ Struct(Drop(f, i), [u EXCEPT ![t].inFlight = None], n, e, d)
         /\ NoBoot(Drop(f, i), t)
  <1> DEFINE v == [u[t] EXCEPT !.inFlight = None]
             w == [u EXCEPT ![t] = v]
  <1>1. u[t] \in AuthService /\ f \in Flights /\ u \in Services
      BY DEF Struct, Services
  <1>2. v \in AuthService /\ v.inFlight = None
      BY <1>1 DEF AuthService
  <1>3. NoBoot(Drop(f, i), t)
      BY <1>1, AloneBoots DEF Struct
  <1>4. w \in Services /\ w[t] = v /\ \A x \in Tabs \ {t} : w[x] = u[x]
      BY <1>1, <1>2 DEF Services
  <1> HIDE DEF v
  <1>5. [u EXCEPT ![t].inFlight = None] = w
      BY <1>1 DEF v
  <1> HIDE DEF w
  <1> DEFINE g == Drop(f, i)
  <1>6. g \in Flights /\ g[i] = Empty /\ \A j \in Slots \ {i} : g[j] = f[j]
      BY <1>1, DropIs
  <1> HIDE DEF g
  <1>7. Tracks(g, w)
    <2> SUFFICES ASSUME NEW x \in Tabs, w[x].inFlight # None
                 PROVE  /\ w[x].inFlight \in Slots
                        /\ g[w[x].inFlight] # Empty
                        /\ g[w[x].inFlight].kind = "refresh"
                        /\ g[w[x].inFlight].tab = x
        BY DEF Tracks
    <2>1. x # t /\ w[x] = u[x]
        BY <1>2, <1>4
    <2>2. /\ u[x].inFlight \in Slots
          /\ f[u[x].inFlight] # Empty
          /\ f[u[x].inFlight].kind = "refresh"
          /\ f[u[x].inFlight].tab = x
        BY <2>1 DEF Struct, Tracks
    <2>3. u[x].inFlight # i
        BY <2>1, <2>2
    <2> QED
        BY <1>6, <2>1, <2>2, <2>3
  <1>8. Boots(g, w)
    <2> SUFFICES ASSUME NEW x \in Tabs, NEW j \in Slots, BootsIn(g, j, x)
                 PROVE  /\ w[x].token = "none" /\ ~ w[x].timer /\ w[x].inFlight = j
                        /\ \A k \in Slots \ {j} : g[k] # Empty => g[k].tab # x
        BY DEF Boots
    <2>1. x # t
        BY <1>3 DEF NoBoot, g
    <2>2. BootsIn(f, j, x)
        BY <1>6 DEF BootsIn
    <2> QED
        BY <1>4, <1>6, <2>1, <2>2 DEF Struct, Boots
  <1>9. \A j \in Slots : g[j] # Empty => Shaped(g[j], n, e, d)
      BY <1>6 DEF Struct
  <1> QED
      BY <1>3, <1>4, <1>5, <1>6, <1>7, <1>8, <1>9 DEF Struct, g

LEMMA PutStruct ==
  ASSUME NEW f, NEW u, NEW n, NEW e, NEW d, Struct(f, u, n, e, d),
         NEW g, NEW s, NEW r \in Request, Puts(g, f, s, r),
         r.kind # "refresh", Shaped(r, n, e, d), r.tab \in Tabs, NoBoot(f, r.tab)
  PROVE  Struct(g, u, n, e, d) /\ NoBoot(g, r.tab)
  <1>1. r # Empty
      BY RequestFields
  <1>2. Tracks(g, u)
      BY DEF Struct, Tracks, Puts
  <1>3. ASSUME NEW x \in Tabs, NEW j \in Slots, BootsIn(g, j, x)
        PROVE  BootsIn(f, j, x) /\ x # r.tab
      BY <1>3 DEF BootsIn, Puts, NoBoot
  <1>4. Boots(g, u)
    <2> SUFFICES ASSUME NEW x \in Tabs, NEW j \in Slots, BootsIn(g, j, x)
                 PROVE  /\ u[x].token = "none" /\ ~ u[x].timer /\ u[x].inFlight = j
                        /\ \A k \in Slots \ {j} : g[k] # Empty => g[k].tab # x
        BY DEF Boots
    <2> QED
        BY <1>3 DEF Struct, Boots, Puts
  <1>5. \A j \in Slots : g[j] # Empty => Shaped(g[j], n, e, d)
      BY DEF Struct, Puts
  <1> QED
      BY <1>2, <1>3, <1>4, <1>5 DEF Struct, Puts, NoBoot

LEMMA AddsShaped ==
  ASSUME NEW f, NEW u, NEW n, NEW e, NEW d, Struct(f, u, n, e, d),
         NEW g, NEW s, NEW r, Adds(g, f, s, r), Shaped(r, n, e, d)
  PROVE  \A j \in Slots : g[j] # Empty => Shaped(g[j], n, e, d)
  <1> SUFFICES ASSUME NEW j \in Slots, g[j] # Empty PROVE Shaped(g[j], n, e, d)
      OBVIOUS
  <1>1. CASE j = s
      BY <1>1, AlikeShaped DEF Adds
  <1>2. CASE j # s
      BY <1>2, AlikeShaped DEF Adds, Struct
  <1> QED
      BY <1>1, <1>2

LEMMA AddsBoots ==
  ASSUME NEW f, NEW g, NEW s, NEW r, Adds(g, f, s, r),
         NEW j \in Slots, NEW x
  PROVE  /\ j # s => (BootsIn(g, j, x) <=> BootsIn(f, j, x))
         /\ BootsIn(g, s, x) <=> r.kind = "refresh" /\ r.tab = x /\ "boot" \in r.waits
  BY DEF Adds, BootsIn, Alike

(* A tab without a refresh sends one, and stands for it.                   *)
LEMMA RefreshStruct ==
  ASSUME NEW f, NEW u, NEW n, NEW e, NEW d, Struct(f, u, n, e, d),
         NEW t \in Tabs, NEW r \in Request, r.kind = "refresh", r.tab = t,
         Shaped(r, n, e, d), u[t].inFlight = None,
         "boot" \in r.waits =>
             /\ u[t].token = "none" /\ ~ u[t].timer
             /\ \A j \in Slots : f[j] # Empty => f[j].tab # t,
         NEW g, NEW s, Adds(g, f, s, r)
  PROVE  Struct(g, [u EXCEPT ![t].inFlight = s], n, e, d)
  <1> DEFINE v == [u[t] EXCEPT !.inFlight = s]
             w == [u EXCEPT ![t] = v]
  <1>1. u[t] \in AuthService /\ u \in Services /\ s \in Slots
      BY DEF Struct, Services, Adds
  <1>2. /\ v \in AuthService /\ v.inFlight = s
        /\ v.token = u[t].token /\ v.timer = u[t].timer
      BY <1>1 DEF AuthService
  <1>3. w \in Services /\ w[t] = v /\ \A x \in Tabs \ {t} : w[x] = u[x]
      BY <1>1, <1>2 DEF Services
  <1> HIDE DEF v
  <1>4. [u EXCEPT ![t].inFlight = s] = w
      BY <1>1 DEF v
  <1> HIDE DEF w
  <1>5. NoBoot(f, t)
      BY TracksNone DEF Struct
  <1>6. Tracks(g, w)
    <2> SUFFICES ASSUME NEW x \in Tabs, w[x].inFlight # None
                 PROVE  /\ w[x].inFlight \in Slots
                        /\ g[w[x].inFlight] # Empty
                        /\ g[w[x].inFlight].kind = "refresh"
                        /\ g[w[x].inFlight].tab = x
        BY DEF Tracks
    <2>1. CASE x = t
        BY <1>2, <1>3, <2>1 DEF Adds, Alike
    <2>2. CASE x # t
      <3>1. /\ w[x] = u[x]
            /\ u[x].inFlight \in Slots
            /\ f[u[x].inFlight] # Empty
            /\ f[u[x].inFlight].kind = "refresh"
            /\ f[u[x].inFlight].tab = x
          BY <1>3, <2>2 DEF Struct, Tracks
      <3> QED
          BY <3>1 DEF Adds, Alike
    <2> QED
        BY <2>1, <2>2
  <1>7. Boots(g, w)
    <2> SUFFICES ASSUME NEW x \in Tabs, NEW j \in Slots, BootsIn(g, j, x)
                 PROVE  /\ w[x].token = "none" /\ ~ w[x].timer /\ w[x].inFlight = j
                        /\ \A k \in Slots \ {j} : g[k] # Empty => g[k].tab # x
        BY DEF Boots
    <2>1. CASE j = s
      <3>1. x = t /\ "boot" \in r.waits
          BY <2>1, AddsBoots
      <3>2. \A k \in Slots \ {s} : g[k] # Empty => g[k].tab # t
          BY <3>1 DEF Adds, Alike
      <3> QED
          BY <1>2, <1>3, <2>1, <3>1, <3>2
    <2>2. CASE j # s
      <3>1. BootsIn(f, j, x) /\ x # t
          BY <1>5, <2>2, AddsBoots DEF NoBoot
      <3>2. /\ u[x].token = "none" /\ ~ u[x].timer /\ u[x].inFlight = j
            /\ \A k \in Slots \ {j} : f[k] # Empty => f[k].tab # x
          BY <3>1 DEF Struct, Boots
      <3>3. \A k \in Slots \ {j} : g[k] # Empty => g[k].tab # x
          BY <3>1, <3>2 DEF Adds, Alike
      <3> QED
          BY <1>3, <3>1, <3>2, <3>3
    <2> QED
        BY <2>1, <2>2
  <1>8. \A j \in Slots : g[j] # Empty => Shaped(g[j], n, e, d)
      BY AddsShaped
  <1> QED
      BY <1>3, <1>4, <1>6, <1>7, <1>8 DEF Struct, Adds

(* Another request, of a tab that does not boot.                           *)
LEMMA SendStruct ==
  ASSUME NEW f, NEW u, NEW n, NEW e, NEW d, Struct(f, u, n, e, d),
         NEW r \in Request, r.kind # "refresh", Shaped(r, n, e, d), NoBoot(f, r.tab),
         NEW g, NEW s, Adds(g, f, s, r)
  PROVE  Struct(g, u, n, e, d) /\ NoBoot(g, r.tab)
  <1>1. Tracks(g, u)
    <2> SUFFICES ASSUME NEW x \in Tabs, u[x].inFlight # None
                 PROVE  /\ u[x].inFlight \in Slots
                        /\ g[u[x].inFlight] # Empty
                        /\ g[u[x].inFlight].kind = "refresh"
                        /\ g[u[x].inFlight].tab = x
        BY DEF Tracks
    <2>1. /\ u[x].inFlight \in Slots
          /\ f[u[x].inFlight] # Empty
          /\ f[u[x].inFlight].kind = "refresh"
          /\ f[u[x].inFlight].tab = x
        BY DEF Struct, Tracks
    <2> QED
        BY <2>1 DEF Adds, Alike
  <1>2. ASSUME NEW x, NEW j \in Slots, BootsIn(g, j, x)
        PROVE  BootsIn(f, j, x) /\ j # s /\ x # r.tab
    <2>1. j # s
        BY <1>2, AddsBoots
    <2> QED
        BY <1>2, <2>1, AddsBoots DEF NoBoot
  <1>3. Boots(g, u)
    <2> SUFFICES ASSUME NEW x \in Tabs, NEW j \in Slots, BootsIn(g, j, x)
                 PROVE  /\ u[x].token = "none" /\ ~ u[x].timer /\ u[x].inFlight = j
                        /\ \A k \in Slots \ {j} : g[k] # Empty => g[k].tab # x
        BY DEF Boots
    <2>1. BootsIn(f, j, x) /\ j # s /\ x # r.tab
        BY <1>2
    <2>2. /\ u[x].token = "none" /\ ~ u[x].timer /\ u[x].inFlight = j
          /\ \A k \in Slots \ {j} : f[k] # Empty => f[k].tab # x
        BY <2>1 DEF Struct, Boots
    <2> QED
        BY <2>1, <2>2 DEF Adds, Alike
  <1>4. \A j \in Slots : g[j] # Empty => Shaped(g[j], n, e, d)
      BY AddsShaped
  <1> QED
      BY <1>1, <1>2, <1>3, <1>4 DEF Struct, Adds, NoBoot

(* A request of a tab changes in a way that keeps it what it is.           *)
LEMMA ChangeStruct ==
  ASSUME NEW f, NEW u, NEW n, NEW e, NEW d, Struct(f, u, n, e, d),
         NEW i \in Slots, f[i] # Empty, NEW r \in Request,
         r.kind = f[i].kind, r.tab = f[i].tab,
         "boot" \in r.waits => "boot" \in f[i].waits,
         Shaped(r, n, e, d)
  PROVE  Struct([f EXCEPT ![i] = r], u, n, e, d)
  <1> DEFINE g == [f EXCEPT ![i] = r]
  <1>1. g \in Flights /\ g[i] = r /\ \A j \in Slots \ {i} : g[j] = f[j]
      BY DEF Struct, Flights
  <1>2. r # Empty
      BY RequestFields
  <1> HIDE DEF g
  <1>3. Tracks(g, u)
      BY <1>1, <1>2 DEF Struct, Tracks
  <1>4. Boots(g, u)
    <2> SUFFICES ASSUME NEW x \in Tabs, NEW j \in Slots, BootsIn(g, j, x)
                 PROVE  /\ u[x].token = "none" /\ ~ u[x].timer /\ u[x].inFlight = j
                        /\ \A k \in Slots \ {j} : g[k] # Empty => g[k].tab # x
        BY DEF Boots
    <2>1. BootsIn(f, j, x)
        BY <1>1 DEF BootsIn
    <2>2. /\ u[x].token = "none" /\ ~ u[x].timer /\ u[x].inFlight = j
          /\ \A k \in Slots \ {j} : f[k] # Empty => f[k].tab # x
        BY <2>1 DEF Struct, Boots
    <2> QED
        BY <1>1, <2>2
  <1>5. \A j \in Slots : g[j] # Empty => Shaped(g[j], n, e, d)
      BY <1>1 DEF Struct
  <1> QED
      BY <1>1, <1>3, <1>4, <1>5 DEF Struct, g

LEMMA JoinStruct ==
  ASSUME NEW f, NEW u, NEW n, NEW e, NEW d, Struct(f, u, n, e, d),
         NEW t \in Tabs, u[t].inFlight # None, NEW wait \in {"silent", "retry"}
  PROVE  Struct([f EXCEPT ![u[t].inFlight].waits = @ \cup {wait}], u, n, e, d)
  <1> DEFINE i == u[t].inFlight
             r == [f[i] EXCEPT !.waits = @ \cup {wait}]
  <1>1. i \in Slots /\ f[i] # Empty /\ f[i].kind = "refresh" /\ f[i] \in Request
        /\ f \in [Slots -> Request \cup {Empty}]
      BY DEF Struct, Tracks, Flights
  <1>2. /\ r \in Request /\ r.kind = f[i].kind /\ r.tab = f[i].tab
        /\ r.cookie = f[i].cookie /\ r.token = f[i].token /\ r.at = f[i].at
        /\ r.waits = f[i].waits \cup {wait}
      BY <1>1 DEF Request, Waiting
  <1>3. Shaped(f[i], n, e, d)
      BY <1>1 DEF Struct
  <1> HIDE DEF i
  <1>4. [f EXCEPT ![i].waits = @ \cup {wait}] = [f EXCEPT ![i] = r]
      BY <1>1
  <1> HIDE DEF r
  <1>5. Shaped(r, n, e, d)
      BY <1>1, <1>2, <1>3 DEF Shaped, AuthKinds
  <1>6. "boot" \in r.waits => "boot" \in f[i].waits
      BY <1>2
  <1>7. Struct([f EXCEPT ![i] = r], u, n, e, d)
      BY <1>1, <1>2, <1>5, <1>6, ChangeStruct
  <1> QED
      BY <1>4, <1>7 DEF i

-----------------------------------------------------------------------------
(* The operators that the tabs' steps are built from.                      *)

LEMMA RefreshKeeps ==
  ASSUME NEW f, NEW u, NEW n \in Nat, NEW e, NEW d, Struct(f, u, n, e, d),
         jar \in 0 .. n,
         NEW t \in Tabs, NEW wait \in {"silent", "retry"},
         Refresh(f, u, t, wait)
  PROVE  Struct(flight', tab', n, e, d)
  <1>1. CASE u[t].inFlight # None
             /\ flight' = [f EXCEPT ![u[t].inFlight].waits = @ \cup {wait}]
             /\ tab' = u
      BY <1>1, JoinStruct
  <1>2. CASE u[t].inFlight = None /\ Free(f) # {}
             /\ flight' = Send(f, Asks("refresh", t, jar, {wait}, 0))
             /\ tab' = [u EXCEPT ![t].inFlight = FreeSlot(f)]
    <2>1. /\ jar \in Nat /\ f \in Flights
          /\ "refresh" \in AuthKinds /\ {wait} \in SUBSET Waiting
        BY DEF Struct, AuthKinds, Waiting
    <2> DEFINE r == Asks("refresh", t, jar, {wait}, 0)
    <2>2. /\ r \in Request
          /\ r.kind = "refresh" /\ r.tab = t /\ r.cookie = jar
          /\ r.waits = {wait} /\ r.at = "out" /\ r.token = 0
        BY <2>1 DEF Asks, Request
    <2> HIDE DEF r
    <2>3. Shaped(r, n, e, d)
        BY <2>2, SessionsAssumption DEF Shaped, AuthKinds, Gone
    <2>4. Adds(flight', f, FreeSlot(f), r)
        BY <1>2, <2>1, <2>2, SendAdds DEF r
    <2> QED
        BY <1>2, <2>2, <2>3, <2>4, RefreshStruct
  <1> QED
      BY <1>1, <1>2 DEF Refresh

LEMMA ClearedService ==
  ASSUME NEW out \in BOOLEAN
  PROVE  LET v == [NoSession EXCEPT !.out = out]
         IN  /\ v \in AuthService /\ v.inFlight = None /\ v.token = "none"
             /\ ~ v.timer /\ v.out = out
  BY DEF NoSession, AuthService

LEMMA LeaveSends ==
  ASSUME NEW f, NEW u, NEW n \in Nat, NEW e, NEW d, Struct(f, u, n, e, d),
         NEW t \in Tabs, NEW cookie \in 0 .. n, cookie \in e, NEW out \in BOOLEAN,
         Leave(f, u, t, cookie, out)
  PROVE  \E r \in Request :
             /\ r.kind = "logout" /\ r.tab = t /\ r.cookie = cookie /\ r.at = "out"
             /\ r.token = 0
             /\ Shaped(r, n, e, d)
             /\ Adds(flight', f, FreeSlot(f), r)
  <1>1. f \in Flights
      BY DEF Struct
  <1> DEFINE r == Asks("logout", t, cookie, {}, 0)
  <1>2. /\ r \in Request
        /\ r.kind = "logout" /\ r.tab = t /\ r.cookie = cookie
        /\ r.waits = {} /\ r.at = "out" /\ r.token = 0
      BY DEF Asks, Request, AuthKinds
  <1> HIDE DEF r
  <1>3. Shaped(r, n, e, d)
      BY <1>2, SessionsAssumption DEF Shaped, AuthKinds, Gone
  <1>4. Adds(flight', f, FreeSlot(f), r)
      BY <1>1, <1>2, SendAdds DEF Leave, r
  <1> QED
      BY <1>2, <1>3, <1>4

LEMMA LeaveKeeps ==
  ASSUME NEW f, NEW u, NEW n \in Nat, NEW e, NEW d, Struct(f, u, n, e, d),
         NEW t \in Tabs, NoBoot(f, t), NEW cookie \in 0 .. n, cookie \in e,
         NEW out \in BOOLEAN, Leave(f, u, t, cookie, out)
  PROVE  Struct(flight', tab', n, e, d)
  <1>1. PICK r \in Request :
            /\ r.kind = "logout" /\ r.tab = t /\ Shaped(r, n, e, d)
            /\ Adds(flight', f, FreeSlot(f), r)
      BY LeaveSends
  <1>2. Struct(flight', u, n, e, d) /\ NoBoot(flight', t)
      BY <1>1, SendStruct
  <1>3. tab' = [u EXCEPT ![t] = [NoSession EXCEPT !.out = out]]
      BY DEF Leave, Cleared
  <1> QED
      BY <1>2, <1>3, ClearedService, TabStruct

LEMMA ForceLogoutKeeps ==
  ASSUME NEW f, NEW u, NEW n \in Nat, NEW e, NEW d, Struct(f, u, n, e, d),
         NEW t \in Tabs, NoBoot(f, t), NEW cookie \in 0 .. n,
         ~ u[t].out => cookie \in e,
         ForceLogout(f, u, t, cookie)
  PROVE  Struct(flight', tab', n, e, d)
  BY LeaveKeeps DEF ForceLogout

-----------------------------------------------------------------------------
(* The base of the invariant.                                              *)

EndedCookies == {k \in Cookies : k = 0 \/ origin[k] \in ended}
DisturbedCookies == {k \in Cookies : k = 0 \/ origin[k] \in disturbed}

Facts == Struct(flight, tab, Len(origin), EndedCookies, DisturbedCookies)

Ranges ==
    /\ jar \in Cookies
    /\ faults \in 0 .. MaxFaults
    /\ loads \in 0 .. MaxLoads
    /\ disturbed \subseteq Logins
    /\ ended \subseteq Logins
    /\ seen \in [Tabs -> [login : 0 .. MaxLogins, left : BOOLEAN,
                          pending : BOOLEAN, stalled : BOOLEAN]]

Base == IInv /\ Facts /\ Ranges

(* A step that leaves the server alone only adds to what is on record.     *)
Records == UNCHANGED server /\ ended \subseteq ended' /\ disturbed \subseteq disturbed'

LEMMA RecordsStruct ==
  ASSUME Base, Records
  PROVE  /\ Len(origin) \in Nat
         /\ Len(origin') = Len(origin)
         /\ jar \in 0 .. Len(origin)
         /\ Struct(flight, tab, Len(origin), EndedCookies', DisturbedCookies')
         /\ 0 \in EndedCookies'
         /\ \A k \in 0 .. Len(origin) :
                ended \cup {origin[j] : j \in {k} \ {0}} \subseteq ended'
                    => k \in EndedCookies'
  <1>1. Len(origin) \in Nat /\ origin' = origin
      BY Counted DEF Base, Records, server
  <1>2. EndedCookies \subseteq EndedCookies' /\ DisturbedCookies \subseteq DisturbedCookies'
      BY <1>1 DEF EndedCookies, DisturbedCookies, Cookies, Records
  <1>3. PICK e, d : e = EndedCookies' /\ d = DisturbedCookies'
      OBVIOUS
  <1>4. Struct(flight, tab, Len(origin), e, d)
      BY <1>1, <1>2, <1>3, ShapedGrows DEF Base, Facts
  <1>5. 0 \in EndedCookies'
      BY <1>1 DEF EndedCookies, Cookies
  <1>6. ASSUME NEW k \in 0 .. Len(origin),
               ended \cup {origin[j] : j \in {k} \ {0}} \subseteq ended'
        PROVE  k \in EndedCookies'
      BY <1>1, <1>6 DEF EndedCookies, Cookies
  <1> QED
      BY <1>1, <1>3, <1>4, <1>5, <1>6 DEF Base, Ranges, Cookies

LEMMA RecordsFacts ==
  ASSUME Base, Records,
         Struct(flight', tab', Len(origin), EndedCookies', DisturbedCookies')
  PROVE  Facts'
  <1>1. Len(origin') = Len(origin)
      BY DEF Records, server
  <1> QED
      BY <1>1 DEF Facts

LEMMA NewTab ==
  ASSUME NEW f, NEW u, NEW n, NEW e, NEW d, Struct(f, u, n, e, d),
         NEW t \in Tabs, NoBoot(f, t), NEW w \in Services,
         \A x \in Tabs \ {t} : w[x] = u[x],
         w[t].inFlight \in {u[t].inFlight, None}
  PROVE  Struct(f, w, n, e, d)
  <1>1. w = [u EXCEPT ![t] = w[t]] /\ w[t] \in AuthService
      BY DEF Struct, Services
  <1>2. Struct(f, [u EXCEPT ![t] = w[t]], n, e, d)
      BY <1>1, TabStruct
  <1> QED
      BY <1>1, <1>2

LEMMA NotBooting ==
  ASSUME NEW f, NEW u, NEW n, NEW e, NEW d, Struct(f, u, n, e, d),
         NEW t \in Tabs, u[t].token # "none" \/ u[t].timer
  PROVE  NoBoot(f, t)
  BY DEF Struct, Boots, NoBoot

(* Who sent a request that the page waits for.                             *)
LEMMA Sender ==
  ASSUME NEW f, NEW u, NEW n, NEW e, NEW d, Struct(f, u, n, e, d),
         NEW i \in Slots, f[i] # Empty
  PROVE  /\ f[i] \in Request
         /\ f[i].kind \notin AuthKinds \/ f[i].at # "out" \/ f[i].tab # Gone
                => f[i].tab \in Tabs
  <1>1. f[i] \in Request /\ Shaped(f[i], n, e, d)
      BY DEF Struct, Flights
  <1>2. f[i].tab \in Tabs \cup {Gone}
      BY <1>1 DEF Request
  <1> QED
      BY <1>1, <1>2 DEF Shaped

LEMMA OtherStruct ==
  ASSUME NEW f, NEW u, NEW n, NEW e, NEW d, Struct(f, u, n, e, d),
         NEW i \in Slots, f[i] # Empty, f[i].kind # "refresh"
  PROVE  Struct(Drop(f, i), u, n, e, d)
  <1>1. \A t \in Tabs : u[t].inFlight # i
      BY SessionsAssumption DEF Struct, Tracks, None
  <1> QED
      BY <1>1, DropStruct

-----------------------------------------------------------------------------
(* The tabs' steps.                                                        *)

LEMMA AgeFacts ==
  ASSUME Base, NEW t \in Tabs, Age(t) PROVE Facts'
  <1>1. Records
      BY DEF Age, Records, observers
  <1>2. PICK n, e, d :
          /\ n \in Nat /\ n = Len(origin)
          /\ e = EndedCookies' /\ d = DisturbedCookies'
          /\ Struct(flight, tab, n, e, d)
      BY <1>1, RecordsStruct
  <1>3. /\ tab' = [tab EXCEPT ![t].token = "old"] /\ flight' = flight
        /\ tab[t].token = "good"
      BY DEF Age
  <1>4. NoBoot(flight, t)
      BY <1>2, <1>3, NotBooting
  <1>5. /\ tab' \in Services /\ \A x \in Tabs \ {t} : tab'[x] = tab[x]
        /\ tab'[t].inFlight = tab[t].inFlight
      BY <1>2, <1>3 DEF Struct, Services, AuthService
  <1>6. Struct(flight', tab', n, e, d)
      BY <1>2, <1>3, <1>4, <1>5, NewTab
  <1> QED
      BY <1>1, <1>2, <1>6, RecordsFacts

LEMMA SilentRefreshFacts ==
  ASSUME Base, NEW t \in Tabs, SilentRefresh(t) PROVE Facts'
  <1>1. Records
      BY DEF SilentRefresh, Records
  <1>2. PICK n, e, d :
          /\ n \in Nat /\ n = Len(origin)
          /\ e = EndedCookies' /\ d = DisturbedCookies'
          /\ Struct(flight, tab, n, e, d) /\ jar \in 0 .. n
      BY <1>1, RecordsStruct
  <1> DEFINE u == [tab EXCEPT ![t].timer = FALSE]
  <1>3. tab[t].timer /\ Refresh(flight, u, t, "silent")
      BY DEF SilentRefresh
  <1>4. NoBoot(flight, t)
      BY <1>2, <1>3, NotBooting
  <1>5. /\ u \in Services /\ \A x \in Tabs \ {t} : u[x] = tab[x]
        /\ u[t].inFlight = tab[t].inFlight
      BY <1>2 DEF Struct, Services, AuthService
  <1> HIDE DEF u
  <1>6. Struct(flight, u, n, e, d)
      BY <1>2, <1>4, <1>5, NewTab
  <1>7. Struct(flight', tab', n, e, d)
      BY <1>2, <1>3, <1>6, RefreshKeeps
  <1> QED
      BY <1>1, <1>2, <1>7, RecordsFacts

LEMMA DataRequestFacts ==
  ASSUME Base, NEW t \in Tabs, DataRequest(t) PROVE Facts'
  <1>1. Records
      BY DEF DataRequest, Records, observers
  <1>2. PICK n, e, d :
          /\ n \in Nat /\ n = Len(origin)
          /\ e = EndedCookies' /\ d = DisturbedCookies'
          /\ Struct(flight, tab, n, e, d)
      BY <1>1, RecordsStruct
  <1> DEFINE r == Asks("api", t, 0, {}, 0)
  <1>3. /\ r \in Request /\ r.kind = "api" /\ r.tab = t
        /\ r.cookie = 0 /\ r.token = 0 /\ r.at = "out"
      BY DEF Asks, Request
  <1>4. /\ Free(flight) # {} /\ flight' = Put(flight, r) /\ tab' = tab
        /\ tab[t].token = "old"
      BY DEF DataRequest
  <1> HIDE DEF r
  <1>5. Puts(flight', flight, FreeSlot(flight), r)
      BY <1>2, <1>3, <1>4, PutPuts DEF Struct
  <1>6. Shaped(r, n, e, d)
      BY <1>2, <1>3, SessionsAssumption DEF Shaped, AuthKinds, Gone
  <1>7. NoBoot(flight, t)
      BY <1>2, <1>4, NotBooting
  <1>8. Struct(flight', tab', n, e, d)
      BY <1>2, <1>3, <1>4, <1>5, <1>6, <1>7, PutStruct
  <1> QED
      BY <1>1, <1>2, <1>8, RecordsFacts

LEMMA DataRefusedFacts ==
  ASSUME Base, NEW i \in Slots, DataRefused(i) PROVE Facts'
  <1>1. Records
      BY DEF DataRefused, Records
  <1>2. PICK n, e, d :
          /\ n \in Nat /\ n = Len(origin)
          /\ e = EndedCookies' /\ d = DisturbedCookies'
          /\ Struct(flight, tab, n, e, d) /\ jar \in 0 .. n
      BY <1>1, RecordsStruct
  <1>3. /\ flight[i] # Empty /\ flight[i].kind = "api"
        /\ Refresh(Drop(flight, i), tab, flight[i].tab, "retry")
      BY DEF DataRefused
  <1>4. flight[i].tab \in Tabs
      BY <1>2, <1>3, Sender DEF AuthKinds
  <1>5. Struct(Drop(flight, i), tab, n, e, d)
      BY <1>2, <1>3, OtherStruct
  <1>6. Struct(flight', tab', n, e, d)
      BY <1>2, <1>3, <1>4, <1>5, RefreshKeeps
  <1> QED
      BY <1>1, <1>2, <1>6, RecordsFacts

LEMMA RetryEndsFacts ==
  ASSUME Base, NEW i \in Slots, RetryEnds(i) PROVE Facts'
  <1>1. Records
      BY DEF RetryEnds, Records, ForceLogout, Leave
  <1>2. PICK n, e, d :
          /\ n \in Nat /\ n = Len(origin)
          /\ e = EndedCookies' /\ d = DisturbedCookies'
          /\ Struct(flight, tab, n, e, d) /\ jar \in 0 .. n
                 /\ (ended \cup {origin[j] : j \in {jar} \ {0}} \subseteq ended' => jar \in e)
      BY <1>1, RecordsStruct
  <1> DEFINE t == flight[i].tab
             f == Drop(flight, i)
  <1>3. /\ flight[i] # Empty /\ flight[i].kind = "retry"
        /\ \/ flight' = f /\ tab' = tab
           \/ ForceLogout(f, tab, t, jar)
      BY DEF RetryEnds
  <1>4. t \in Tabs
      BY <1>2, <1>3, Sender DEF AuthKinds
  <1>5. Struct(f, tab, n, e, d)
      BY <1>2, <1>3, OtherStruct
  <1>6. NoBoot(f, t)
      BY <1>2, <1>3, <1>4, AloneBoots DEF Struct
  <1>7. ASSUME ForceLogout(f, tab, t, jar) PROVE Struct(flight', tab', n, e, d)
    <2>1. ~ tab[t].out => jar \in e
        BY <1>2, <1>7 DEF ForceLogout, Leave
    <2> HIDE DEF f, t
    <2> QED
        BY <1>2, <1>4, <1>5, <1>6, <1>7, <2>1, ForceLogoutKeeps
  <1>8. Struct(flight', tab', n, e, d)
      BY <1>3, <1>5, <1>7
  <1> QED
      BY <1>1, <1>2, <1>8, RecordsFacts

LEMMA LogoutFacts ==
  ASSUME Base, NEW t \in Tabs, Logout(t) PROVE Facts'
  <1>1. Records
      BY DEF Logout, Records, Leave
  <1>2. PICK n, e, d :
          /\ n \in Nat /\ n = Len(origin)
          /\ e = EndedCookies' /\ d = DisturbedCookies'
          /\ Struct(flight, tab, n, e, d) /\ jar \in 0 .. n
                 /\ (ended \cup {origin[j] : j \in {jar} \ {0}} \subseteq ended' => jar \in e)
      BY <1>1, RecordsStruct
  <1>3. Leave(flight, tab, t, jar, FALSE) /\ tab[t].token # "none"
      BY DEF Logout
  <1>4. jar \in e
      BY <1>2, <1>3 DEF Leave
  <1>5. NoBoot(flight, t)
      BY <1>2, <1>3, NotBooting
  <1>6. Struct(flight', tab', n, e, d)
      BY <1>2, <1>3, <1>4, <1>5, LeaveKeeps
  <1> QED
      BY <1>1, <1>2, <1>6, RecordsFacts

LEMMA LoginFacts ==
  ASSUME Base, NEW t \in Tabs, Login(t) PROVE Facts'
  <1>1. Records
      BY DEF Login, Records
  <1>2. PICK n, e, d :
          /\ n \in Nat /\ n = Len(origin)
          /\ e = EndedCookies' /\ d = DisturbedCookies'
          /\ Struct(flight, tab, n, e, d) /\ jar \in 0 .. n
      BY <1>1, RecordsStruct
  <1> DEFINE r == Asks("login", t, jar, {"login"}, 0)
  <1>3. /\ r \in Request /\ r.kind = "login" /\ r.tab = t /\ r.waits = {"login"}
        /\ r.cookie = jar /\ r.token = 0 /\ r.at = "out"
      BY <1>2 DEF Asks, Request, AuthKinds, Waiting
  <1>4. /\ Free(flight) # {} /\ flight' = Send(flight, r) /\ tab' = tab
        /\ ~ Booting(t)
      BY DEF Login
  <1> HIDE DEF r
  <1>5. Adds(flight', flight, FreeSlot(flight), r)
      BY <1>2, <1>3, <1>4, SendAdds DEF Struct
  <1>6. Shaped(r, n, e, d)
      BY <1>2, <1>3, SessionsAssumption DEF Shaped, AuthKinds, Gone
  <1>7. NoBoot(flight, t)
      BY <1>4 DEF NoBoot, Booting, BootsIn
  <1>8. Struct(flight', tab', n, e, d)
      BY <1>2, <1>3, <1>4, <1>5, <1>6, <1>7, SendStruct
  <1> QED
      BY <1>1, <1>2, <1>8, RecordsFacts

(* What a page load leaves of the requests under way.                      *)
Rest(t) ==
    [i \in Slots |->
        IF flight[i] = Empty \/ flight[i].tab # t THEN flight[i]
        ELSE IF flight[i].kind \in AuthKinds /\ flight[i].at = "out"
             THEN [flight[i] EXCEPT !.tab = Gone]
             ELSE Empty]

Cut(t) == {i \in Slots : /\ flight[i] # Empty /\ flight[i].tab = t
                         /\ flight[i].kind \in AuthKinds}

LEMMA LoadSteps ==
  ASSUME NEW t \in Tabs, Load(t)
  PROVE  /\ Refresh(Rest(t), [tab EXCEPT ![t] = NoSession], t, "boot")
         /\ disturbed' = disturbed \cup Mingled(flight') \cup
                             UNION {LoginsOf(flight[i]) : i \in Cut(t)}
  <1> DEFINE mine == {i \in Slots : flight[i] # Empty /\ flight[i].tab = t}
             sent == {i \in mine : flight[i].kind \in AuthKinds}
             rest == [i \in Slots |->
                         IF i \notin mine THEN flight[i]
                         ELSE IF i \in sent /\ flight[i].at = "out"
                              THEN [flight[i] EXCEPT !.tab = Gone]
                              ELSE Empty]
  <1>1. /\ Refresh(rest, [tab EXCEPT ![t] = NoSession], t, "boot")
        /\ disturbed' = disturbed \cup Mingled(flight') \cup
                            UNION {LoginsOf(flight[i]) : i \in sent}
      BY DEF Load
  <1>2. sent = Cut(t)
      BY DEF Cut
  <1>3. rest = Rest(t)
      BY DEF Rest
  <1> HIDE DEF rest, sent
  <1> QED
      BY <1>1, <1>2, <1>3

(* A request without a tab left disturbed the login of its cookie.         *)
LEMMA RestStruct ==
  ASSUME NEW n \in Nat, NEW e, NEW d, NEW t \in Tabs,
         Struct(flight, tab, n, e, d),
         \A i \in Cut(t) : flight[i].cookie \in d
  PROVE  /\ Struct(Rest(t), [tab EXCEPT ![t] = NoSession], n, e, d)
         /\ \A i \in Slots : Rest(t)[i] # Empty => Rest(t)[i].tab # t
  <1> DEFINE g == Rest(t)
             w == [tab EXCEPT ![t] = NoSession]
  <1>1. /\ NoSession \in AuthService /\ NoSession.inFlight = None
        /\ NoSession.token = "none" /\ ~ NoSession.timer
      BY DEF NoSession, AuthService
  <1>2. w \in Services /\ w[t] = NoSession /\ \A x \in Tabs \ {t} : w[x] = tab[x]
      BY <1>1 DEF Struct, Services
  <1>3. ASSUME NEW i \in Slots
        PROVE  /\ g[i] \in Request \cup {Empty}
               /\ flight[i] = Empty \/ flight[i].tab # t => g[i] = flight[i]
               /\ g[i] # Empty =>
                      /\ g[i].tab # t
                      /\ flight[i] # Empty
                      /\ g[i] = flight[i] \/ g[i].tab = Gone
                      /\ Shaped(g[i], n, e, d)
    <2>1. flight[i] \in Request \cup {Empty} /\ (flight[i] # Empty => Shaped(flight[i], n, e, d))
        BY DEF Struct, Flights
    <2>2. CASE flight[i] = Empty \/ flight[i].tab # t
        BY <2>1, <2>2 DEF Rest
    <2>3. CASE flight[i] # Empty /\ flight[i].tab = t
               /\ flight[i].kind \in AuthKinds /\ flight[i].at = "out"
      <3>1. g[i] = [flight[i] EXCEPT !.tab = Gone]
          BY <2>3 DEF Rest
      <3>2. /\ g[i] \in Request /\ g[i].tab = Gone /\ g[i].kind = flight[i].kind
            /\ g[i].cookie = flight[i].cookie /\ g[i].token = flight[i].token
            /\ g[i].at = flight[i].at /\ g[i].waits = flight[i].waits
          BY <2>1, <2>3, <3>1 DEF Request
      <3>3. flight[i].cookie \in d
          BY <2>3 DEF Cut
      <3>4. Shaped(g[i], n, e, d)
          BY <2>1, <2>3, <3>2, <3>3 DEF Shaped, AuthKinds
      <3> QED
          BY <2>3, <3>2, <3>4, SessionsAssumption DEF Gone
    <2>4. CASE flight[i] # Empty /\ flight[i].tab = t
               /\ ~(flight[i].kind \in AuthKinds /\ flight[i].at = "out")
        BY <2>4 DEF Rest
    <2> QED
        BY <2>2, <2>3, <2>4
  <1>4. g \in Flights
    <2>1. g = [i \in Slots |-> g[i]]
        BY DEF Rest
    <2> QED
        BY <1>3, <2>1 DEF Flights
  <1> HIDE DEF g, w
  <1>5. Tracks(g, w)
    <2> SUFFICES ASSUME NEW x \in Tabs, w[x].inFlight # None
                 PROVE  /\ w[x].inFlight \in Slots
                        /\ g[w[x].inFlight] # Empty
                        /\ g[w[x].inFlight].kind = "refresh"
                        /\ g[w[x].inFlight].tab = x
        BY DEF Tracks
    <2>1. x # t /\ w[x] = tab[x]
        BY <1>1, <1>2
    <2>2. /\ tab[x].inFlight \in Slots
          /\ flight[tab[x].inFlight] # Empty
          /\ flight[tab[x].inFlight].kind = "refresh"
          /\ flight[tab[x].inFlight].tab = x
        BY <2>1 DEF Struct, Tracks
    <2> QED
        BY <1>3, <2>1, <2>2
  <1>6. Boots(g, w)
    <2> SUFFICES ASSUME NEW x \in Tabs, NEW j \in Slots, BootsIn(g, j, x)
                 PROVE  /\ w[x].token = "none" /\ ~ w[x].timer /\ w[x].inFlight = j
                        /\ \A k \in Slots \ {j} : g[k] # Empty => g[k].tab # x
        BY DEF Boots
    <2>1. x # t /\ x # Gone /\ g[j] = flight[j]
        BY <1>3, SessionsAssumption DEF BootsIn, Gone
    <2>2. BootsIn(flight, j, x)
        BY <2>1 DEF BootsIn
    <2>3. /\ tab[x].token = "none" /\ ~ tab[x].timer /\ tab[x].inFlight = j
          /\ \A k \in Slots \ {j} : flight[k] # Empty => flight[k].tab # x
        BY <2>2 DEF Struct, Boots
    <2>4. ASSUME NEW k \in Slots \ {j}, g[k] # Empty PROVE g[k].tab # x
        BY <1>3, <2>1, <2>3, <2>4
    <2> QED
        BY <1>2, <2>1, <2>3, <2>4
  <1> QED
      BY <1>2, <1>3, <1>4, <1>5, <1>6 DEF Struct, g, w

LEMMA LoadFacts ==
  ASSUME Base, NEW t \in Tabs, Load(t) PROVE Facts'
  <1>1. Records
      BY DEF Load, Records
  <1>2. PICK n, e, d :
          /\ n \in Nat /\ n = Len(origin)
          /\ e = EndedCookies' /\ d = DisturbedCookies'
          /\ Struct(flight, tab, n, e, d) /\ jar \in 0 .. n
      BY <1>1, RecordsStruct
  <1> DEFINE u == [tab EXCEPT ![t] = NoSession]
             f == Rest(t)
  <1>3. /\ Refresh(f, u, t, "boot")
        /\ UNION {LoginsOf(flight[i]) : i \in Cut(t)} \subseteq disturbed'
      BY LoadSteps
  <1>4. ASSUME NEW i \in Cut(t) PROVE flight[i].cookie \in d
    <2>1. flight[i].cookie \in 0 .. n
        BY <1>2 DEF Cut, Struct, Shaped
    <2>2. LoginsOf(flight[i]) \subseteq disturbed'
        BY <1>3
    <2>3. flight[i].cookie # 0 => origin[flight[i].cookie] \in disturbed'
        BY <2>2 DEF LoginsOf
    <2>4. origin' = origin
        BY <1>1 DEF Records, server
    <2> QED
        BY <1>2, <2>1, <2>3, <2>4 DEF DisturbedCookies, Cookies
  <1>5. /\ Struct(f, u, n, e, d)
        /\ \A i \in Slots : f[i] # Empty => f[i].tab # t
      BY <1>2, <1>4, RestStruct
  <1>6. u[t].inFlight = None /\ u[t].token = "none" /\ ~ u[t].timer
      BY <1>2 DEF NoSession, Struct, Services
  <1> HIDE DEF f, u
  <1> DEFINE r == Asks("refresh", t, jar, {"boot"}, 0)
  <1>7. /\ r \in Request /\ r.kind = "refresh" /\ r.tab = t /\ r.waits = {"boot"}
        /\ r.cookie = jar /\ r.token = 0 /\ r.at = "out"
      BY <1>2 DEF Asks, Request, AuthKinds, Waiting
  <1>8. /\ Free(f) # {} /\ flight' = Send(f, r)
        /\ tab' = [u EXCEPT ![t].inFlight = FreeSlot(f)]
      BY <1>3, <1>6 DEF Refresh
  <1> HIDE DEF r
  <1>9. Adds(flight', f, FreeSlot(f), r)
      BY <1>5, <1>7, <1>8, SendAdds DEF Struct
  <1>10. Shaped(r, n, e, d)
      BY <1>2, <1>7, SessionsAssumption DEF Shaped, AuthKinds, Gone
  <1>11. Struct(flight', tab', n, e, d)
      BY <1>5, <1>6, <1>7, <1>8, <1>9, <1>10, RefreshStruct
  <1> QED
      BY <1>1, <1>2, <1>11, RecordsFacts

-----------------------------------------------------------------------------
(* The endpoints.                                                          *)

(* Tokens are only added.                                                  *)
LEMMA ServeGrows ==
  ASSUME Base, ended' = ended, disturbed \subseteq disturbed',
         \/ origin' = origin
         \/ \E l \in Logins : origin' = Append(origin, l)
  PROVE  /\ Len(origin) \in Nat /\ Len(origin') \in Nat
         /\ Len(origin) <= Len(origin')
         /\ \A k \in Tokens : origin'[k] = origin[k]
         /\ Struct(flight, tab, Len(origin'), EndedCookies', DisturbedCookies')
  <1>1. /\ Len(origin) \in Nat /\ Len(origin') \in Nat
        /\ Len(origin) <= Len(origin')
        /\ \A k \in Tokens : origin'[k] = origin[k]
    <2>1. CASE origin' = origin
        BY <2>1, Counted DEF Base
    <2>2. CASE \E l \in Logins : origin' = Append(origin, l)
        BY <2>2, Counted, AppendProperties DEF Base, IInv, Typed, Tokens
    <2> QED
        BY <2>1, <2>2
  <1>2. EndedCookies \subseteq EndedCookies' /\ DisturbedCookies \subseteq DisturbedCookies'
    <2>1. Cookies \subseteq Cookies' /\ \A k \in Cookies : k = 0 \/ k \in Tokens
        BY <1>1 DEF Cookies, Tokens
    <2> QED
        BY <1>1, <2>1 DEF EndedCookies, DisturbedCookies
  <1>3. PICK n, e, d : n \in Nat /\ n = Len(origin') /\ e = EndedCookies' /\ d = DisturbedCookies'
      BY <1>1
  <1>4. Struct(flight, tab, n, e, d)
      BY <1>1, <1>2, <1>3, ShapedGrows DEF Base, Facts
  <1> QED
      BY <1>1, <1>3, <1>4

LEMMA AnsweredStruct ==
  ASSUME NEW n \in Nat, NEW e, NEW d, Struct(flight, tab, n, e, d),
         NEW i \in Slots, flight[i] # Empty,
         NEW at \in {"ok", "refused"}, NEW token \in 0 .. n,
         flight[i].kind \in {"refresh", "login"} /\ at = "ok" => token # 0,
         flight[i].kind # "me",
         Answered(i, at, token)
  PROVE  Struct(flight', tab, n, e, d)
  <1>1. flight[i] \in Request /\ Shaped(flight[i], n, e, d)
      BY DEF Struct, Flights
  <1>2. CASE flight[i].tab = Gone
    <2>1. \A t \in Tabs : tab[t].inFlight # i
        BY <1>2, SessionsAssumption DEF Struct, Tracks, Gone, None
    <2> QED
        BY <1>2, <2>1, DropStruct DEF Answered
  <1>3. CASE flight[i].tab # Gone
    <2> DEFINE r == [flight[i] EXCEPT !.at = at, !.token = token]
    <2>1. /\ r \in Request /\ r.kind = flight[i].kind /\ r.tab = flight[i].tab
          /\ r.cookie = flight[i].cookie /\ r.waits = flight[i].waits
          /\ r.at = at /\ r.token = token
      <3>1. token \in Nat /\ at \in {"out", "ok", "refused"} /\ flight[i] \in Request
          BY <1>1
      <3> QED
          BY <3>1 DEF Request
    <2>2. flight' = [flight EXCEPT ![i].at = at, ![i].token = token]
        BY <1>3 DEF Answered
    <2>3. flight' = [flight EXCEPT ![i] = r]
        BY <2>2 DEF Struct, Flights
    <2> HIDE DEF r
    <2>4. Shaped(r, n, e, d)
        BY <1>1, <1>3, <2>1 DEF Shaped
    <2>5. Struct([flight EXCEPT ![i] = r], tab, n, e, d)
        BY <2>1, <2>4, ChangeStruct
    <2> QED
        BY <2>3, <2>5
  <1> QED
      BY <1>2, <1>3

LEMMA ServeFacts ==
  ASSUME Base, NEW i \in Slots, Serve(i) PROVE Facts'
  <1>1. ended' = ended /\ disturbed \subseteq disturbed' /\ tab' = tab
      BY DEF Serve, ServeRefresh, ServeLogout, ServeLogin, observers
  <1>2. flight[i] # Empty
      BY DEF Serve, ServeRefresh, ServeLogout, ServeLogin, Served
  <1>3. ASSUME \/ origin' = origin
               \/ \E l \in Logins : origin' = Append(origin, l),
               NEW at \in {"ok", "refused"}, NEW token \in 0 .. Len(origin'),
               flight[i].kind \in {"refresh", "login"} /\ at = "ok" => token # 0,
               flight[i].kind # "me",
               Answered(i, at, token)
        PROVE  Facts'
    <2>1. PICK n, e, d :
            /\ n \in Nat /\ n = Len(origin')
            /\ e = EndedCookies' /\ d = DisturbedCookies'
            /\ Struct(flight, tab, n, e, d)
        BY <1>1, <1>3, ServeGrows
    <2>2. Struct(flight', tab', n, e, d)
        BY <1>1, <1>2, <1>3, <2>1, AnsweredStruct
    <2> QED
        BY <2>1, <2>2 DEF Facts
  <1>4. Len(origin) \in Nat /\ origin \in Seq(Logins) /\ live \subseteq 1 .. Len(origin)
      BY Counted DEF Base, IInv, Typed, Tokens
  <1>5. CASE ServeRefresh(i)
    <2>1. flight[i].kind = "refresh"
        BY <1>5 DEF ServeRefresh, Served
    <2>2. CASE /\ Known(flight[i].cookie)
               /\ origin' = Append(origin, origin[flight[i].cookie])
               /\ Answered(i, "ok", Len(origin) + 1)
      <3>1. origin[flight[i].cookie] \in Logins
          BY <1>4, <2>2, ElementOfSeq DEF Known
      <3>2. Len(origin') = Len(origin) + 1
          BY <1>4, <2>2, <3>1, AppendProperties
      <3>3. Len(origin) + 1 \in 0 .. Len(origin') /\ Len(origin) + 1 # 0
          BY <1>4, <3>2
      <3> QED
          BY <1>3, <2>1, <2>2, <3>1, <3>3
    <2>3. CASE Answered(i, "refused", 0) /\ UNCHANGED server
      <3>1. 0 \in 0 .. Len(origin') /\ origin' = origin
          BY <1>4, <2>3 DEF server
      <3> QED
          BY <1>3, <2>1, <2>3, <3>1
    <2> QED
        BY <1>5, <2>2, <2>3 DEF ServeRefresh
  <1>6. CASE ServeLogout(i)
    <2>1. /\ flight[i].kind = "logout" /\ Answered(i, "ok", 0) /\ origin' = origin
          /\ 0 \in 0 .. Len(origin')
        BY <1>4, <1>6 DEF ServeLogout, Served
    <2> QED
        BY <1>3, <2>1
  <1>7. CASE ServeLogin(i)
    <2>1. PICK l \in Logins :
              /\ origin' = Append(origin, l)
              /\ Answered(i, "ok", Len(origin) + 1)
      <3>1. Cardinality(Opened) + 1 \in Logins
          BY <1>7, SessionsAssumption DEF ServeLogin, Base, IInv, Dense, Logins
      <3> QED
          BY <1>7, <3>1 DEF ServeLogin
    <2>2. Len(origin') = Len(origin) + 1
        BY <1>4, <2>1, AppendProperties
    <2>3. Len(origin) + 1 \in 0 .. Len(origin') /\ Len(origin) + 1 # 0
        BY <1>4, <2>2
    <2>4. flight[i].kind = "login"
        BY <1>7 DEF ServeLogin, Served
    <2> QED
        BY <1>3, <2>1, <2>3, <2>4
  <1> QED
      BY <1>5, <1>6, <1>7 DEF Serve

-----------------------------------------------------------------------------
(* The answers.                                                            *)

LEMMA MeRequest ==
  ASSUME NEW n \in Nat, NEW e, NEW d, NEW t \in Tabs,
         NEW wait \in SUBSET {"silent", "boot", "login"},
         NEW token \in 1 .. n, 0 \in e
  PROVE  LET r == Asks("me", t, 0, wait, token)
         IN  /\ r \in Request /\ r.kind = "me" /\ r.tab = t /\ r.waits = wait
             /\ Shaped(r, n, e, d)
  <1> DEFINE r == Asks("me", t, 0, wait, token)
  <1>1. /\ token \in Nat /\ token # 0 /\ token \in 0 .. n
        /\ wait \in SUBSET Waiting /\ "retry" \notin wait
      BY DEF Waiting
  <1>2. /\ r \in Request /\ r.kind = "me" /\ r.tab = t /\ r.waits = wait
        /\ r.cookie = 0 /\ r.token = token /\ r.at = "out"
      BY <1>1 DEF Asks, Request
  <1> HIDE DEF r
  <1>3. Shaped(r, n, e, d)
      BY <1>1, <1>2, SessionsAssumption DEF Shaped, AuthKinds, Gone
  <1> QED
      BY <1>2, <1>3 DEF r

LEMMA RetryRequest ==
  ASSUME NEW n \in Nat, NEW e, NEW d, NEW t \in Tabs
  PROVE  LET r == Asks("retry", t, 0, {}, 0)
         IN  /\ r \in Request /\ r.kind = "retry" /\ r.tab = t
             /\ Shaped(r, n, e, d)
  <1> DEFINE r == Asks("retry", t, 0, {}, 0)
  <1>1. /\ r \in Request /\ r.kind = "retry" /\ r.tab = t /\ r.waits = {}
        /\ r.cookie = 0 /\ r.token = 0 /\ r.at = "out"
      BY DEF Asks, Request
  <1> HIDE DEF r
  <1>2. Shaped(r, n, e, d)
      BY <1>1, SessionsAssumption DEF Shaped, AuthKinds, Gone
  <1> QED
      BY <1>1, <1>2 DEF r

(* A request is put in a place that is free.                               *)
LEMMA PutKeeps ==
  ASSUME NEW f, NEW u, NEW n, NEW e, NEW d, Struct(f, u, n, e, d), Free(f) # {},
         NEW r \in Request, r.kind # "refresh", Shaped(r, n, e, d),
         r.tab \in Tabs, NoBoot(f, r.tab)
  PROVE  Struct(Put(f, r), u, n, e, d) /\ NoBoot(Put(f, r), r.tab)
  <1>1. Puts(Put(f, r), f, FreeSlot(f), r)
      BY PutPuts DEF Struct
  <1> QED
      BY <1>1, PutStruct

(* A request ends, and two others find a place if one was free.            *)
LEMMA RoomForTwo ==
  ASSUME NEW f \in Flights, NEW i \in Slots, f[i] # Empty, Free(f) # {},
         NEW r \in Request
  PROVE  Free(Put(Drop(f, i), r)) # {}
  <1>1. PICK j \in Slots : f[j] = Empty
      BY DEF Free
  <1>2. PICK g : /\ g = Drop(f, i) /\ g \in Flights /\ j # i
                 /\ g[j] = Empty /\ g[i] = Empty /\ Free(g) # {}
      BY <1>1, DropIs
  <1>3. Puts(Put(g, r), g, FreeSlot(g), r)
      BY <1>2, PutPuts
  <1>4. j \in Free(Put(g, r)) \/ i \in Free(Put(g, r))
      BY <1>2, <1>3 DEF Puts, Free
  <1> QED
      BY <1>2, <1>4

(* The refresh of a tab is over, and its service changes.                  *)
LEMMA EndsWith ==
  ASSUME NEW f, NEW u, NEW n, NEW e, NEW d, Struct(f, u, n, e, d),
         NEW i \in Slots, NEW t \in Tabs, f[i] # Empty, f[i].tab = t,
         NEW w \in Services, \A x \in Tabs \ {t} : w[x] = u[x],
         w[t].inFlight = None
  PROVE  Struct(Drop(f, i), w, n, e, d) /\ NoBoot(Drop(f, i), t)
  <1> DEFINE v == [u EXCEPT ![t].inFlight = None]
  <1>1. Struct(Drop(f, i), v, n, e, d) /\ NoBoot(Drop(f, i), t)
      BY EndStruct
  <1>2. \A x \in Tabs \ {t} : v[x] = u[x]
      BY DEF Struct, Services
  <1> HIDE DEF v
  <1>3. Struct(Drop(f, i), w, n, e, d)
      BY <1>1, <1>2, NewTab
  <1> QED
      BY <1>1, <1>3

LEMMA RefreshOkFacts ==
  ASSUME Base, NEW i \in Slots, RefreshOk(i) PROVE Facts'
  <1>1. Records
      BY DEF RefreshOk, Records
  <1>2. PICK n, e, d :
          /\ n \in Nat /\ n = Len(origin)
          /\ e = EndedCookies' /\ d = DisturbedCookies'
          /\ Struct(flight, tab, n, e, d) /\ 0 \in e
      BY <1>1, RecordsStruct
  <1> DEFINE r == flight[i]
             t == r.tab
             hydrates == r.waits \cap {"silent", "boot"}
             rest == Drop(flight, i)
             me == Asks("me", t, 0, hydrates, r.token)
             hydrated == IF hydrates = {} THEN rest ELSE Put(rest, me)
             retry == Asks("retry", t, 0, {}, 0)
  <1>3. /\ r # Empty /\ r.kind = "refresh" /\ r.at = "ok"
        /\ hydrates # {} /\ "retry" \in r.waits => Free(flight) # {}
        /\ flight' = IF "retry" \notin r.waits THEN hydrated ELSE Put(hydrated, retry)
        /\ tab' = [tab EXCEPT ![t].inFlight = None,
                              ![t].token = IF hydrates = {} THEN @ ELSE "good"]
      BY DEF RefreshOk, Arrives
  <1>4. t \in Tabs /\ r \in Request /\ Shaped(r, n, e, d)
      BY <1>2, <1>3, Sender DEF Struct
  <1>5. /\ tab' \in Services /\ \A x \in Tabs \ {t} : tab'[x] = tab[x]
        /\ tab'[t].inFlight = None
    <2> HIDE DEF t, hydrates
    <2>1. tab[t] \in AuthService /\ tab \in Services
        BY <1>2, <1>4 DEF Struct, Services
    <2> QED
        BY <1>3, <1>4, <2>1 DEF Services, AuthService
  <1>6. Struct(rest, tab', n, e, d) /\ NoBoot(rest, t)
    <2>1. flight[i] # Empty /\ flight[i].tab = t
        BY <1>3
    <2> HIDE DEF t, r, hydrates
    <2> QED
        BY <1>2, <1>4, <1>5, <2>1, EndsWith
  <1>7. i \in Free(rest) /\ flight \in Flights
      BY <1>2, DropIs DEF Struct
  <1>8. r.token \in 1 .. n
      BY <1>3, <1>4 DEF Shaped
  <1>9. /\ me \in Request /\ me.kind = "me" /\ me.tab = t
        /\ Shaped(me, n, e, d)
    <2>1. hydrates \in SUBSET {"silent", "boot", "login"}
        OBVIOUS
    <2> HIDE DEF r, t, hydrates
    <2> QED
        BY <1>2, <1>4, <1>8, <2>1, MeRequest
  <1>10. /\ retry \in Request /\ retry.kind = "retry" /\ retry.tab = t
         /\ Shaped(retry, n, e, d)
      BY <1>2, <1>4, RetryRequest
  <1>11. hydrates # {} /\ "retry" \in r.waits => Free(Put(rest, me)) # {}
    <2> HIDE DEF me, hydrates
    <2> QED
        BY <1>3, <1>7, <1>9, RoomForTwo
  <1> HIDE DEF me, retry, rest
  <1>12. Struct(hydrated, tab', n, e, d) /\ NoBoot(hydrated, t)
    <2>1. CASE hydrates = {}
        BY <1>6, <2>1
    <2>2. CASE hydrates # {}
      <3>1. Struct(Put(rest, me), tab', n, e, d) /\ NoBoot(Put(rest, me), t)
          BY <1>4, <1>6, <1>7, <1>9, PutKeeps
      <3> QED
          BY <2>2, <3>1
    <2> QED
        BY <2>1, <2>2
  <1>13. "retry" \in r.waits => Free(hydrated) # {}
      BY <1>7, <1>11
  <1> HIDE DEF hydrated
  <1>14. Struct(flight', tab', n, e, d)
    <2>1. CASE "retry" \notin r.waits
        BY <1>3, <1>12, <2>1
    <2>2. CASE "retry" \in r.waits
      <3>1. Struct(Put(hydrated, retry), tab', n, e, d)
          BY <1>4, <1>10, <1>12, <1>13, <2>2, PutKeeps
      <3> QED
          BY <1>3, <2>2, <3>1
    <2> QED
        BY <2>1, <2>2
  <1> QED
      BY <1>1, <1>2, <1>14, RecordsFacts

LEMMA RefreshRefusedFacts ==
  ASSUME Base, NEW i \in Slots, RefreshRefused(i) PROVE Facts'
  <1>1. Records
      BY DEF RefreshRefused, Records, ForceLogout, Leave
  <1>2. PICK n, e, d :
          /\ n \in Nat /\ n = Len(origin)
          /\ e = EndedCookies' /\ d = DisturbedCookies'
          /\ Struct(flight, tab, n, e, d) /\ 0 \in e
      BY <1>1, RecordsStruct
  <1> DEFINE t == flight[i].tab
             f == Drop(flight, i)
             u == [tab EXCEPT ![t].inFlight = None]
  <1>3. /\ flight[i] # Empty /\ flight[i].at = "refused"
        /\ \/ flight' = f /\ tab' = u
           \/ ForceLogout(f, u, t, 0)
      BY DEF RefreshRefused, Arrives
  <1>4. t \in Tabs
      BY <1>2, <1>3, Sender
  <1>5. Struct(f, u, n, e, d) /\ NoBoot(f, t)
      BY <1>2, <1>3, <1>4, EndStruct
  <1>6. ASSUME ForceLogout(f, u, t, 0) PROVE Struct(flight', tab', n, e, d)
    <2> HIDE DEF f, u, t
    <2>1. 0 \in 0 .. n
        BY <1>2
    <2> QED
        BY <1>2, <1>4, <1>5, <1>6, <2>1, ForceLogoutKeeps
  <1>7. Struct(flight', tab', n, e, d)
      BY <1>3, <1>5, <1>6
  <1> QED
      BY <1>1, <1>2, <1>7, RecordsFacts

LEMMA RefreshLostFacts ==
  ASSUME Base, NEW i \in Slots, RefreshLost(i) PROVE Facts'
  <1>1. Records
      BY DEF RefreshLost, Records, ForceLogout, Leave
  <1>2. PICK n, e, d :
          /\ n \in Nat /\ n = Len(origin)
          /\ e = EndedCookies' /\ d = DisturbedCookies'
          /\ Struct(flight, tab, n, e, d) /\ jar \in 0 .. n
                 /\ (ended \cup {origin[j] : j \in {jar} \ {0}} \subseteq ended' => jar \in e)
      BY <1>1, RecordsStruct
  <1> DEFINE t == flight[i].tab
             f == Drop(flight, i)
             u == [tab EXCEPT ![t].inFlight = None]
  <1>3. /\ flight[i] # Empty /\ t # Gone
        /\ \/ flight' = f /\ tab' = u
           \/ ForceLogout(f, u, t, jar)
      BY DEF RefreshLost
  <1>4. t \in Tabs
      BY <1>2, <1>3, Sender
  <1>5. Struct(f, u, n, e, d) /\ NoBoot(f, t)
      BY <1>2, <1>3, <1>4, EndStruct
  <1>6. ASSUME ForceLogout(f, u, t, jar) PROVE Struct(flight', tab', n, e, d)
    <2> HIDE DEF f, u, t
    <2>1. ~ u[t].out => jar \in e
        BY <1>2, <1>6 DEF ForceLogout, Leave
    <2> QED
        BY <1>2, <1>4, <1>5, <1>6, <2>1, ForceLogoutKeeps
  <1>7. Struct(flight', tab', n, e, d)
      BY <1>3, <1>5, <1>6
  <1> QED
      BY <1>1, <1>2, <1>7, RecordsFacts

(* The requests that are gone with no effect on a tab.                     *)
LEMMA UnheardFacts ==
  ASSUME Base, NEW i \in Slots, LogoutOk(i) \/ LogoutLost(i) \/ LoginLost(i)
  PROVE  Facts'
  <1>1. Records
      BY DEF LogoutOk, LogoutLost, LoginLost, Records, observers
  <1>2. PICK n, e, d :
          /\ n \in Nat /\ n = Len(origin)
          /\ e = EndedCookies' /\ d = DisturbedCookies'
          /\ Struct(flight, tab, n, e, d)
      BY <1>1, RecordsStruct
  <1>3. /\ flight[i] # Empty /\ flight[i].kind # "refresh"
        /\ flight' = Drop(flight, i) /\ tab' = tab
      BY DEF LogoutOk, LogoutLost, LoginLost, Arrives
  <1>4. Struct(flight', tab', n, e, d)
      BY <1>2, <1>3, OtherStruct
  <1> QED
      BY <1>1, <1>2, <1>4, RecordsFacts

LEMMA LoginOkFacts ==
  ASSUME Base, NEW i \in Slots, LoginOk(i) PROVE Facts'
  <1>1. Records
      BY DEF LoginOk, Records
  <1>2. PICK n, e, d :
          /\ n \in Nat /\ n = Len(origin)
          /\ e = EndedCookies' /\ d = DisturbedCookies'
          /\ Struct(flight, tab, n, e, d) /\ 0 \in e
      BY <1>1, RecordsStruct
  <1> DEFINE r == flight[i]
             t == r.tab
             f == Drop(flight, i)
             me == Asks("me", t, 0, {"login"}, r.token)
  <1>3. /\ r # Empty /\ r.kind = "login" /\ r.at = "ok"
        /\ flight' = Put(f, me)
        /\ tab' = [tab EXCEPT ![t].token = "good"]
      BY DEF LoginOk, Arrives
  <1>4. t \in Tabs /\ r \in Request /\ Shaped(r, n, e, d)
      BY <1>2, <1>3, Sender DEF Struct
  <1>5. /\ tab' \in Services /\ \A x \in Tabs \ {t} : tab'[x] = tab[x]
        /\ tab'[t].inFlight = tab[t].inFlight
    <2> HIDE DEF t
    <2>1. tab[t] \in AuthService /\ tab \in Services
        BY <1>2, <1>4 DEF Struct, Services
    <2> QED
        BY <1>3, <1>4, <2>1 DEF Services, AuthService
  <1>6. Struct(f, tab, n, e, d)
      BY <1>2, <1>3, OtherStruct
  <1>7. NoBoot(f, t) /\ i \in Free(f)
      BY <1>2, <1>3, <1>4, AloneBoots, DropIs DEF Struct
  <1>8. r.token \in 1 .. n
      BY <1>3, <1>4 DEF Shaped
  <1>9. /\ me \in Request /\ me.kind = "me" /\ me.tab = t
        /\ Shaped(me, n, e, d)
    <2>1. {"login"} \in SUBSET {"silent", "boot", "login"}
        OBVIOUS
    <2> HIDE DEF r, t
    <2> QED
        BY <1>2, <1>4, <1>8, <2>1, MeRequest
  <1> HIDE DEF me, f, t
  <1>10. Struct(f, tab', n, e, d)
      BY <1>4, <1>5, <1>6, <1>7, NewTab
  <1>11. Struct(flight', tab', n, e, d)
      BY <1>3, <1>4, <1>7, <1>9, <1>10, PutKeeps
  <1> QED
      BY <1>1, <1>2, <1>11, RecordsFacts

LEMMA MeEndsFacts ==
  ASSUME Base, NEW i \in Slots, MeEnds(i) PROVE Facts'
  <1>1. Records
      BY DEF MeEnds, Records
  <1>2. PICK n, e, d :
          /\ n \in Nat /\ n = Len(origin)
          /\ e = EndedCookies' /\ d = DisturbedCookies'
          /\ Struct(flight, tab, n, e, d)
      BY <1>1, RecordsStruct
  <1> DEFINE t == flight[i].tab
             f == Drop(flight, i)
  <1>3. /\ flight[i] # Empty /\ flight[i].kind = "me" /\ flight' = f
        /\ \/ tab' = [tab EXCEPT ![t].token = "good", ![t].out = FALSE,
                                 ![t].timer = TRUE]
           \/ tab' = [tab EXCEPT ![t].timer = TRUE]
      BY DEF MeEnds, Kept
  <1>4. t \in Tabs
      BY <1>2, <1>3, Sender DEF AuthKinds
  <1>5. /\ tab' \in Services /\ \A x \in Tabs \ {t} : tab'[x] = tab[x]
        /\ tab'[t].inFlight = tab[t].inFlight
    <2> HIDE DEF t
    <2>1. tab[t] \in AuthService /\ tab \in Services
        BY <1>2, <1>4 DEF Struct, Services
    <2>2. CASE tab' = [tab EXCEPT ![t].token = "good", ![t].out = FALSE,
                                  ![t].timer = TRUE]
        BY <1>4, <2>1, <2>2 DEF Services, AuthService
    <2>3. CASE tab' = [tab EXCEPT ![t].timer = TRUE]
        BY <1>4, <2>1, <2>3 DEF Services, AuthService
    <2> QED
        BY <1>3, <2>2, <2>3
  <1>6. Struct(f, tab, n, e, d) /\ NoBoot(f, t)
      BY <1>2, <1>3, <1>4, OtherStruct, AloneBoots DEF Struct
  <1> HIDE DEF t, f
  <1>7. Struct(flight', tab', n, e, d)
      BY <1>3, <1>4, <1>5, <1>6, NewTab
  <1> QED
      BY <1>1, <1>2, <1>7, RecordsFacts

-----------------------------------------------------------------------------
(* The ranges of the other variables.                                      *)

History == [login : 0 .. MaxLogins, left : BOOLEAN, pending : BOOLEAN,
            stalled : BOOLEAN]

LEMMA BaseTypes ==
  ASSUME Base
  PROVE  /\ Len(origin) \in Nat /\ origin \in Seq(Logins)
         /\ Tokens = 1 .. Len(origin) /\ Cookies = 0 .. Len(origin)
         /\ live \subseteq Tokens
         /\ \A k \in Cookies \ {0} : k \in Tokens /\ origin[k] \in Logins
         /\ jar \in Cookies /\ faults \in 0 .. MaxFaults /\ loads \in 0 .. MaxLoads
         /\ disturbed \subseteq Logins /\ ended \subseteq Logins
         /\ seen \in [Tabs -> History]
         /\ flight \in Flights /\ tab \in Services
         /\ Struct(flight, tab, Len(origin), EndedCookies, DisturbedCookies)
         /\ \A i \in Slots : flight[i] # Empty =>
                /\ flight[i] \in Request
                /\ Shaped(flight[i], Len(origin), EndedCookies, DisturbedCookies)
                /\ flight[i].cookie \in Cookies /\ flight[i].token \in Cookies
  <1>1. Len(origin) \in Nat /\ origin \in Seq(Logins) /\ live \subseteq Tokens
      BY Counted DEF Base, IInv, Typed
  <1>2. Tokens = 1 .. Len(origin) /\ Cookies = 0 .. Len(origin)
      BY DEF Tokens, Cookies
  <1>3. ASSUME NEW k \in Cookies \ {0} PROVE k \in Tokens /\ origin[k] \in Logins
    <2>1. k \in 1 .. Len(origin)
        BY <1>1, <1>2, <1>3
    <2> QED
        BY <1>1, <1>2, <2>1, ElementOfSeq
  <1>4. /\ jar \in Cookies /\ faults \in 0 .. MaxFaults /\ loads \in 0 .. MaxLoads
        /\ disturbed \subseteq Logins /\ ended \subseteq Logins
        /\ seen \in [Tabs -> History]
      BY DEF Base, Ranges, History
  <1>5. /\ flight \in Flights /\ tab \in Services
        /\ Struct(flight, tab, Len(origin), EndedCookies, DisturbedCookies)
        /\ \A i \in Slots : flight[i] # Empty =>
               Shaped(flight[i], Len(origin), EndedCookies, DisturbedCookies)
      BY DEF Base, Facts, Struct
  <1>6. \A i \in Slots : flight[i] # Empty =>
            /\ flight[i] \in Request
            /\ flight[i].cookie \in Cookies /\ flight[i].token \in Cookies
      BY <1>2, <1>5 DEF Flights, Shaped
  <1> QED
      BY <1>1, <1>2, <1>3, <1>4, <1>5, <1>6

LEMMA LoginsAreLogins ==
  ASSUME Base, NEW r, r.cookie \in Cookies, r.token \in Cookies
  PROVE  LoginsOf(r) \subseteq Logins
  BY BaseTypes DEF LoginsOf

(* What a step that leaves the server alone mingles.                       *)
LEMMA MingledAreLogins ==
  ASSUME Base, Facts', UNCHANGED server
  PROVE  Mingled(flight') \subseteq Logins
  <1>1. PICK f : f = flight'
      OBVIOUS
  <1>2. origin' = origin
      BY DEF server
  <1>3. ASSUME NEW i \in Slots, f[i] # Empty
        PROVE  f[i].cookie \in Cookies /\ f[i].token \in Cookies
    <2>1. Shaped(f[i], Len(origin'), EndedCookies', DisturbedCookies')
        BY <1>1, <1>3 DEF Facts, Struct
    <2> QED
        BY <1>2, <2>1 DEF Shaped, Cookies
  <1>4. \A i \in Slots : f[i] # Empty => LoginsOf(f[i]) \subseteq Logins
      BY <1>3, LoginsAreLogins
  <1>5. Mingled(f) \subseteq Logins
      BY <1>4 DEF Mingled
  <1> QED
      BY <1>1, <1>5

LEMMA LeaveRanges ==
  ASSUME Base, NEW f, NEW u, NEW t \in Tabs, NEW cookie \in Cookies, NEW out,
         Leave(f, u, t, cookie, out)
  PROVE  ended' \subseteq Logins /\ seen' \in [Tabs -> History]
  <1>1. ended' \subseteq Logins
      BY BaseTypes DEF Leave
  <1>2. Resumes(f, t) \in BOOLEAN
      BY DEF Resumes
  <1>3. PICK b \in BOOLEAN : b = Resumes(f, t)
      BY <1>2
  <1>4. seen' = [seen EXCEPT ![t].left = TRUE, ![t].pending = b, ![t].stalled = FALSE]
      BY <1>3 DEF Leave
  <1>5. seen' \in [Tabs -> History]
      BY <1>4, BaseTypes DEF History
  <1> QED
      BY <1>1, <1>5

LEMMA ForceLogoutRanges ==
  ASSUME Base, NEW f, NEW u, NEW t \in Tabs, NEW cookie \in Cookies,
         ForceLogout(f, u, t, cookie)
  PROVE  ended' \subseteq Logins /\ seen' \in [Tabs -> History]
  BY LeaveRanges, BaseTypes DEF ForceLogout

(* A step that leaves the server alone.                                    *)
LEMMA RangesGo ==
  ASSUME Base, UNCHANGED server, jar' \in Cookies,
         faults' \in 0 .. MaxFaults, loads' \in 0 .. MaxLoads,
         disturbed' \subseteq Logins, ended' \subseteq Logins,
         seen' \in [Tabs -> History]
  PROVE  Ranges'
  BY DEF Ranges, History, Cookies, server

LEMMA TabRanges ==
  ASSUME Base, Facts', NEW t \in Tabs, TabStep(t) PROVE Ranges'
  <1>1. UNCHANGED server /\ jar' = jar /\ faults' = faults
      BY DEF TabStep, Age, SilentRefresh, DataRequest, Logout, Login, Load, counters
  <1>2. Mingled(flight') \subseteq Logins
      BY <1>1, MingledAreLogins
  <1>3. loads' \in 0 .. MaxLoads
    <2>1. CASE loads' = loads
        BY <2>1, BaseTypes
    <2>2. CASE loads < MaxLoads /\ loads' = loads + 1
        BY <2>2, BaseTypes, SessionsAssumption
    <2> QED
        BY <2>1, <2>2
        DEF TabStep, Age, SilentRefresh, DataRequest, Logout, Login, Load, counters
  <1>4. disturbed' \subseteq Logins
    <2>1. CASE disturbed' = disturbed
        BY <2>1, BaseTypes
    <2>2. CASE disturbed' = disturbed \cup Mingled(flight')
        BY <1>2, <2>2, BaseTypes
    <2>3. CASE Login(t)
        BY <1>2, <2>3, BaseTypes DEF Login
    <2>4. CASE Load(t)
      <3>1. \A i \in Cut(t) : LoginsOf(flight[i]) \subseteq Logins
          BY BaseTypes, LoginsAreLogins DEF Cut
      <3>2. disturbed' = disturbed \cup Mingled(flight') \cup
                             UNION {LoginsOf(flight[i]) : i \in Cut(t)}
          BY <2>4, LoadSteps
      <3> QED
          BY <1>2, <3>1, <3>2, BaseTypes
    <2> QED
        BY <2>1, <2>2, <2>3, <2>4
        DEF TabStep, Age, SilentRefresh, DataRequest, Logout, observers
  <1>5. ended' \subseteq Logins /\ seen' \in [Tabs -> History]
    <2>1. CASE ended' = ended /\ seen' = seen
        BY <2>1, BaseTypes
    <2>2. CASE Logout(t)
        BY <2>2, LeaveRanges, BaseTypes DEF Logout
    <2>3. CASE Login(t)
        BY <2>3, BaseTypes DEF Login, History
    <2>4. CASE Load(t)
        BY <2>4, BaseTypes, SessionsAssumption DEF Load, History
    <2> QED
        BY <2>1, <2>2, <2>3, <2>4
        DEF TabStep, Age, SilentRefresh, DataRequest, observers
  <1> QED
      BY <1>1, <1>3, <1>4, <1>5, RangesGo, BaseTypes

LEMMA ServeRanges ==
  ASSUME Base, Facts', NEW i \in Slots, Serve(i) PROVE Ranges'
  <1>1. jar' = jar /\ UNCHANGED counters /\ ended' = ended /\ seen' = seen
      BY DEF Serve, ServeRefresh, ServeLogout, ServeLogin, observers
  <1>2. Cookies \subseteq Cookies'
    <2>1. \/ origin' = origin
          \/ \E l : origin' = Append(origin, l)
        BY DEF Serve, ServeRefresh, ServeLogout, ServeLogin, server
    <2>2. CASE origin' = origin
        BY <2>2 DEF Cookies
    <2>3. CASE \E l : origin' = Append(origin, l)
      <3>1. Len(origin) \in Nat
          BY BaseTypes
      <3>2. Len(origin') = Len(origin) + 1
          BY <2>3, BaseTypes
      <3> QED
          BY <3>1, <3>2 DEF Cookies
    <2> QED
        BY <2>1, <2>2, <2>3
  <1>3. disturbed' \subseteq Logins
    <2>1. CASE disturbed' = disturbed
        BY <2>1, BaseTypes
    <2>2. CASE ServeLogin(i)
      <3>1. Cardinality(Opened) + 1 \in Logins
          BY <2>2, SessionsAssumption DEF ServeLogin, Base, IInv, Dense, Logins
      <3> QED
          BY <2>2, <3>1, BaseTypes DEF ServeLogin
    <2> QED
        BY <2>1, <2>2 DEF Serve, ServeRefresh, ServeLogout, observers
  <1> QED
      BY <1>1, <1>2, <1>3, BaseTypes DEF Ranges, History, counters

LEMMA AnswerRanges ==
  ASSUME Base, Facts', NEW i \in Slots, Answer(i) PROVE Ranges'
  <1>1. UNCHANGED server
      BY DEF Answer, RefreshOk, RefreshRefused, RefreshLost, LogoutOk, LogoutLost,
             LoginOk, LoginLost, MeEnds, DataRefused, RetryEnds
  <1>2. Mingled(flight') \subseteq Logins
      BY <1>1, MingledAreLogins
  <1>3. flight[i] # Empty
      BY DEF Answer, RefreshOk, RefreshRefused, RefreshLost, LogoutOk, LogoutLost,
             LoginOk, LoginLost, MeEnds, DataRefused, RetryEnds, Arrives
  <1>4. /\ flight[i].token \in Cookies /\ LoginsOf(flight[i]) \subseteq Logins
        /\ flight[i].kind \notin AuthKinds \/ flight[i].at # "out" \/ flight[i].tab # Gone
               => flight[i].tab \in Tabs
      BY <1>3, BaseTypes, LoginsAreLogins, Sender
  <1>5. jar' \in Cookies
    <2>1. jar' \in {jar, 0, flight[i].token}
        BY DEF Answer, RefreshOk, RefreshRefused, RefreshLost, LogoutOk, LogoutLost,
               LoginOk, LoginLost, MeEnds, DataRefused, RetryEnds
    <2>2. jar \in Cookies /\ 0 \in Cookies
        BY BaseTypes
    <2> QED
        BY <1>4, <2>1, <2>2
  <1>6. faults' \in 0 .. MaxFaults /\ loads' = loads
    <2>1. /\ faults' = faults \/ (faults < MaxFaults /\ faults' = faults + 1)
          /\ loads' = loads
        BY DEF Answer, RefreshOk, RefreshRefused, RefreshLost, LogoutOk, LogoutLost,
               LoginOk, LoginLost, MeEnds, DataRefused, RetryEnds, counters
    <2> QED
        BY <2>1, BaseTypes, SessionsAssumption
  <1>7. disturbed' \subseteq Logins
    <2>1. \/ disturbed' = disturbed
          \/ disturbed' = disturbed \cup Mingled(flight')
          \/ disturbed' = disturbed \cup Mingled(flight') \cup LoginsOf(flight[i])
          \/ disturbed' = disturbed \cup LoginsOf(flight[i])
        BY DEF Answer, RefreshOk, RefreshRefused, RefreshLost, LogoutOk, LogoutLost,
               LoginOk, LoginLost, MeEnds, DataRefused, RetryEnds, observers
    <2> QED
        BY <1>2, <1>4, <2>1, BaseTypes
  <1>8. ended' \subseteq Logins /\ seen' \in [Tabs -> History]
    <2>1. CASE ended' = ended /\ seen' = seen
        BY <2>1, BaseTypes
    <2>2. ASSUME flight[i].tab \in Tabs, flight[i].token # 0,
                 RefreshOk(i) \/ LoginOk(i) \/ MeEnds(i)
          PROVE  ended' \subseteq Logins /\ seen' \in [Tabs -> History]
      <3>1. PICK t \in Tabs : t = flight[i].tab
          BY <2>2
      <3>2. PICK l \in 0 .. MaxLogins : l = origin[flight[i].token]
          BY <1>4, <2>2, BaseTypes, SessionsAssumption DEF Logins
      <3>3. /\ ended' = ended
            /\ \/ seen' = seen
               \/ seen' = [seen EXCEPT ![t].login = l]
               \/ seen' = [seen EXCEPT ![t].login = l, ![t].stalled = FALSE]
               \/ seen' = [seen EXCEPT ![t].login = @, ![t].stalled = FALSE]
               \/ seen' = [seen EXCEPT ![t].login = @]
          BY <2>2, <3>1, <3>2 DEF RefreshOk, LoginOk, MeEnds
      <3>4. seen' \in [Tabs -> History]
          BY <3>3, BaseTypes DEF History
      <3> QED
          BY <3>3, <3>4, BaseTypes
    <2>3. CASE RefreshOk(i) \/ LoginOk(i) \/ MeEnds(i)
      <3>1. flight[i].tab \in Tabs
          BY <1>4, <2>3 DEF RefreshOk, LoginOk, MeEnds, Arrives, AuthKinds
      <3>2. flight[i].token # 0
        <4>1. Shaped(flight[i], Len(origin), EndedCookies, DisturbedCookies)
            BY <1>3, BaseTypes
        <4> QED
            BY <2>3, <4>1 DEF RefreshOk, LoginOk, MeEnds, Arrives, Shaped
      <3> QED
          BY <2>2, <2>3, <3>1, <3>2
    <2>4. CASE RefreshRefused(i)
      <3>1. flight[i].tab \in Tabs /\ 0 \in Cookies
          BY <1>4, <2>4, BaseTypes DEF RefreshRefused, Arrives
      <3> QED
          BY <2>1, <2>4, <3>1, ForceLogoutRanges DEF RefreshRefused
    <2>5. CASE RefreshLost(i)
      <3>1. flight[i].tab \in Tabs /\ jar \in Cookies
          BY <1>4, <2>5, BaseTypes DEF RefreshLost
      <3>2. CASE ended' = ended /\ seen' = [seen EXCEPT ![flight[i].tab].stalled = TRUE]
          BY <3>1, <3>2, BaseTypes DEF History
      <3> QED
          BY <2>5, <3>1, <3>2, ForceLogoutRanges DEF RefreshLost
    <2>6. CASE RetryEnds(i)
      <3>1. flight[i].tab \in Tabs /\ jar \in Cookies
          BY <1>4, <2>6, BaseTypes DEF RetryEnds, AuthKinds
      <3> QED
          BY <2>1, <2>6, <3>1, ForceLogoutRanges DEF RetryEnds
    <2> QED
        BY <2>1, <2>3, <2>4, <2>5, <2>6
        DEF Answer, LogoutOk, LogoutLost, LoginLost, DataRefused, observers
  <1> QED
      BY <1>1, <1>5, <1>6, <1>7, <1>8, BaseTypes, RangesGo

-----------------------------------------------------------------------------
LEMMA BaseInit == Init => Base
  <1> SUFFICES ASSUME Init PROVE Base
      OBVIOUS
  <1>1. IInv /\ Len(origin) = 0 /\ origin = <<>>
      BY InitEstablishes DEF Init
  <1>2. Struct(flight, tab, Len(origin), EndedCookies, DisturbedCookies)
    <2>1. flight \in Flights /\ \A i \in Slots : flight[i] = Empty
        BY DEF Init, Flights
    <2>2. tab \in Services /\ \A t \in Tabs : tab[t].inFlight = None
        BY DEF Init, Services, NoSession, AuthService
    <2> QED
        BY <2>1, <2>2 DEF Struct, Tracks, Boots, BootsIn
  <1>3. Ranges
      BY <1>1, SessionsAssumption DEF Init, Ranges, Cookies
  <1> QED
      BY <1>1, <1>2, <1>3 DEF Base, Facts

LEMMA FactsStep == ASSUME Base, Next PROVE Facts' /\ Ranges'
  <1>1. ASSUME NEW t \in Tabs, TabStep(t) PROVE Facts'
      BY <1>1, AgeFacts, SilentRefreshFacts, DataRequestFacts, LogoutFacts,
         LoginFacts, LoadFacts DEF TabStep
  <1>2. ASSUME NEW i \in Slots, Answer(i) PROVE Facts'
      BY <1>2, RefreshOkFacts, RefreshRefusedFacts, RefreshLostFacts, UnheardFacts,
         LoginOkFacts, MeEndsFacts, DataRefusedFacts, RetryEndsFacts DEF Answer
  <1> QED
      BY <1>1, <1>2, ServeFacts, TabRanges, ServeRanges, AnswerRanges DEF Next

LEMMA BaseStep == Base /\ [Next]_vars => Base'
  <1> SUFFICES ASSUME Base, [Next]_vars PROVE Base'
      OBVIOUS
  <1>1. IInv'
      BY StepPreserves DEF Base
  <1>2. CASE Next
      BY <1>1, <1>2, FactsStep DEF Base
  <1>3. CASE UNCHANGED vars
      BY <1>1, <1>3 DEF Base, Facts, Ranges, vars, Cookies, EndedCookies,
                        DisturbedCookies
  <1> QED
      BY <1>2, <1>3

LEMMA BaseHolds == Spec => []Base
  <1> QED
      BY BaseInit, BaseStep, PTL DEF Spec

LEMMA BaseTypeOK == Base => TypeOK
  <1> SUFFICES ASSUME Base PROVE TypeOK
      OBVIOUS
  <1> QED
      BY BaseTypes DEF TypeOK, Flights, Services, History

(* The types of all variables.                                             *)
THEOREM SessionsTypes == Spec => []TypeOK
  <1> QED
      BY BaseHolds, BaseTypeOK, PTL

-----------------------------------------------------------------------------
(* What a tab shows: v is its service, h its history, f the requests under *)
(* way and o the logins so far.                                            *)

(* An answer that will set a timer.                                        *)
Renews(f, t) ==
    \E i \in Slots : /\ f[i] # Empty
                     /\ f[i].tab = t
                     /\ f[i].kind \in {"refresh", "me"}
                     /\ f[i].waits # {"retry"}

(* Its session is of a login that was opened; once it left and waited for  *)
(* nothing it has no way back; and what it shows it renews.                *)
Agrees(f, v, h, t, o) ==
    /\ v.token # "none" => h.login \in o
    /\ h.left = TRUE /\ h.pending = FALSE =>
           v.token = "none" /\ v.timer = FALSE /\ ~ Resumes(f, t)
    /\ \/ v.token = "none" \/ v.timer = TRUE \/ v.out = TRUE
       \/ h.stalled = TRUE
       \/ Renews(f, t)

Agree == \A x \in Tabs : Agrees(flight, tab[x], seen[x], x, Opened)

(* Requests that bring nothing new to a tab, and keep what it waits for.   *)
Quiet(g, f, t) ==
    /\ Resumes(g, t) => Resumes(f, t)
    /\ Renews(f, t) => Renews(g, t)

Same(w, v) == w.token = v.token /\ w.timer = v.timer /\ w.out = v.out

LEMMA QuietAgrees ==
  ASSUME NEW f, NEW v, NEW h, NEW t, NEW o, Agrees(f, v, h, t, o),
         NEW g, Quiet(g, f, t), NEW w, Same(w, v), NEW p, o \subseteq p
  PROVE  Agrees(g, w, h, t, p)
  BY DEF Agrees, Quiet, Same

LEMMA DropQuiet ==
  ASSUME NEW f \in Flights, NEW i \in Slots, NEW t, f[i] # Empty,
         \/ f[i].tab # t
         \/ f[i].kind \notin {"refresh", "me"}
         \/ f[i].waits = {"retry"}
  PROVE  Quiet(Drop(f, i), f, t)
  BY DropIs DEF Quiet, Resumes, Renews

LEMMA DropResumes ==
  ASSUME NEW f \in Flights, NEW i \in Slots, NEW t
  PROVE  Resumes(Drop(f, i), t) => Resumes(f, t)
  BY DropIs DEF Resumes

LEMMA AddsQuiet ==
  ASSUME NEW f, NEW g, NEW s, NEW r, Adds(g, f, s, r), NEW t
  PROVE  /\ Renews(f, t) => Renews(g, t)
         /\ r.tab # t \/ r.kind \notin {"login", "refresh", "me"} \/ r.waits = {"retry"}
                => Quiet(g, f, t)
         /\ r.tab = t /\ r.kind = "refresh" /\ r.waits # {"retry"} => Renews(g, t)
  <1>1. Renews(f, t) => Renews(g, t)
    <2> SUFFICES ASSUME NEW i \in Slots, f[i] # Empty, f[i].tab = t,
                        f[i].kind \in {"refresh", "me"}, f[i].waits # {"retry"}
                 PROVE  Renews(g, t)
        BY DEF Renews
    <2>1. i # s /\ g[i] # Empty /\ Alike(g[i], f[i])
        BY DEF Adds
    <2> QED
        BY <2>1 DEF Alike, Renews
  <1>2. ASSUME \/ r.tab # t
               \/ r.kind \notin {"login", "refresh", "me"}
               \/ r.waits = {"retry"},
               NEW i \in Slots, g[i] # Empty, g[i].tab = t,
               g[i].kind \in {"login", "refresh", "me"}, g[i].waits # {"retry"}
        PROVE  Resumes(f, t)
    <2>1. i # s
        BY <1>2 DEF Adds, Alike
    <2>2. f[i] # Empty /\ Alike(g[i], f[i])
        BY <1>2, <2>1 DEF Adds
    <2> QED
        BY <1>2, <2>2 DEF Alike, Resumes
  <1>3. r.tab = t /\ r.kind = "refresh" /\ r.waits # {"retry"} => Renews(g, t)
      BY DEF Adds, Alike, Renews
  <1>4. ASSUME \/ r.tab # t
               \/ r.kind \notin {"login", "refresh", "me"}
               \/ r.waits = {"retry"}
        PROVE  Resumes(g, t) => Resumes(f, t)
      BY <1>2, <1>4 DEF Resumes
  <1> QED
      BY <1>1, <1>3, <1>4 DEF Quiet

LEMMA PutsQuiet ==
  ASSUME NEW f, NEW g, NEW s, NEW r \in Request, Puts(g, f, s, r), NEW t
  PROVE  /\ Renews(f, t) => Renews(g, t)
         /\ r.tab # t \/ r.kind \notin {"login", "refresh", "me"} => Quiet(g, f, t)
         /\ r.tab = t /\ r.kind = "me" /\ r.waits # {"retry"} => Renews(g, t)
  <1>1. r # Empty
      BY RequestFields
  <1>2. Renews(f, t) => Renews(g, t)
      BY DEF Puts, Renews
  <1>3. ASSUME r.tab # t \/ r.kind \notin {"login", "refresh", "me"}
        PROVE  Resumes(g, t) => Resumes(f, t)
      BY <1>3 DEF Puts, Resumes
  <1>4. r.tab = t /\ r.kind = "me" /\ r.waits # {"retry"} => Renews(g, t)
      BY <1>1 DEF Puts, Renews
  <1> QED
      BY <1>2, <1>3, <1>4 DEF Quiet

LEMMA JoinQuiet ==
  ASSUME NEW f \in Flights, NEW i \in Slots, f[i] # Empty, f[i].kind = "refresh",
         f[i].waits # {}, NEW wait \in Waiting, NEW t,
         NEW g, g = [f EXCEPT ![i].waits = @ \cup {wait}]
  PROVE  /\ f[i].tab # t \/ wait = "retry" => Quiet(g, f, t)
         /\ f[i].tab = t /\ wait # "retry" => Renews(g, t)
  <1>1. f[i] \in Request /\ f \in [Slots -> Request \cup {Empty}]
      BY DEF Flights
  <1>2. /\ g[i].tab = f[i].tab /\ g[i].kind = "refresh"
        /\ g[i].waits = f[i].waits \cup {wait}
        /\ g[i] \in Request
      BY <1>1 DEF Request
  <1>3. g[i] # Empty /\ \A j \in Slots \ {i} : g[j] = f[j]
      BY <1>1, <1>2, RequestFields
  <1>4. wait = "retry" => (g[i].waits = {"retry"} <=> f[i].waits = {"retry"})
      BY <1>2
  <1>5. wait # "retry" => g[i].waits # {"retry"}
      BY <1>2
  <1>6. ASSUME f[i].tab # t \/ wait = "retry" PROVE Quiet(g, f, t)
    <2>1. Resumes(g, t) => Resumes(f, t)
        BY <1>2, <1>3, <1>4, <1>6 DEF Resumes
    <2>2. Renews(f, t) => Renews(g, t)
        BY <1>2, <1>3, <1>4, <1>6 DEF Renews
    <2> QED
        BY <2>1, <2>2 DEF Quiet
  <1>7. ASSUME f[i].tab = t, wait # "retry" PROVE Renews(g, t)
      BY <1>2, <1>3, <1>5, <1>7 DEF Renews
  <1> QED
      BY <1>6, <1>7

(* A refresh changes what the tabs stand for, and nothing they show.       *)
LEMMA RefreshQuiet ==
  ASSUME NEW f, NEW u, NEW n \in Nat, NEW e, NEW d, Struct(f, u, n, e, d),
         jar \in 0 .. n, NEW t \in Tabs, NEW wait \in {"silent", "boot", "retry"},
         Refresh(f, u, t, wait)
  PROVE  /\ \A x \in Tabs : Same(tab'[x], u[x])
         /\ \A x \in Tabs : x # t \/ wait = "retry" => Quiet(flight', f, x)
         /\ wait # "retry" => Renews(flight', t)
  <1>1. f \in Flights /\ u \in Services /\ wait \in Waiting
      BY DEF Struct, Waiting
  <1>2. CASE u[t].inFlight # None
             /\ flight' = [f EXCEPT ![u[t].inFlight].waits = @ \cup {wait}]
             /\ tab' = u
    <2> DEFINE i == u[t].inFlight
    <2>1. /\ i \in Slots /\ f[i] # Empty /\ f[i].kind = "refresh" /\ f[i].tab = t
          /\ f[i].waits # {}
        BY <1>2 DEF Struct, Tracks, Shaped
    <2>2. flight' = [f EXCEPT ![i].waits = @ \cup {wait}]
        BY <1>2
    <2> HIDE DEF i
    <2>3. /\ \A x \in Tabs : x # t \/ wait = "retry" => Quiet(flight', f, x)
          /\ wait # "retry" => Renews(flight', t)
        BY <1>1, <2>1, <2>2, JoinQuiet
    <2> QED
        BY <1>2, <2>3 DEF Same
  <1>3. CASE u[t].inFlight = None /\ Free(f) # {}
             /\ flight' = Send(f, Asks("refresh", t, jar, {wait}, 0))
             /\ tab' = [u EXCEPT ![t].inFlight = FreeSlot(f)]
    <2> DEFINE r == Asks("refresh", t, jar, {wait}, 0)
    <2>1. r \in Request /\ r.kind = "refresh" /\ r.tab = t /\ r.waits = {wait}
      <3>1. /\ jar \in Nat /\ "refresh" \in AuthKinds /\ {wait} \in SUBSET Waiting
          BY <1>1 DEF AuthKinds
      <3> QED
          BY <3>1 DEF Asks, Request
    <2>2. flight' = Send(f, r)
        BY <1>3
    <2> HIDE DEF r
    <2>3. Adds(flight', f, FreeSlot(f), r)
        BY <1>1, <1>3, <2>1, <2>2, SendAdds
    <2>4. /\ \A x \in Tabs : x # t \/ wait = "retry" => Quiet(flight', f, x)
          /\ wait # "retry" => Renews(flight', t)
      <3>1. PICK g, s : g = flight' /\ s = FreeSlot(f) /\ Adds(g, f, s, r)
          BY <2>3
      <3>2. wait # "retry" => r.waits # {"retry"}
          BY <2>1
      <3>3. \A x \in Tabs : x # t \/ wait = "retry" => Quiet(g, f, x)
          BY <2>1, <3>1, AddsQuiet
      <3> QED
          BY <2>1, <3>1, <3>2, <3>3, AddsQuiet
    <2>5. \A x \in Tabs : Same(tab'[x], u[x])
        BY <1>1, <1>3 DEF Same, Services, AuthService
    <2> QED
        BY <2>4, <2>5
  <1> QED
      BY <1>2, <1>3 DEF Refresh

LEMMA RefreshAgrees ==
  ASSUME NEW f, NEW u, NEW n \in Nat, NEW e, NEW d, Struct(f, u, n, e, d),
         jar \in 0 .. n, NEW t \in Tabs,
         Refresh(f, u, t, "retry"), NEW o,
         \A x \in Tabs : Agrees(f, u[x], seen[x], x, o)
  PROVE  \A x \in Tabs : Agrees(flight', tab'[x], seen[x], x, o)
  <1>1. \A x \in Tabs : Same(tab'[x], u[x]) /\ Quiet(flight', f, x)
      BY RefreshQuiet
  <1> QED
      BY <1>1, QuietAgrees

LEMMA LeaveAgrees ==
  ASSUME Base, NEW f, NEW u, NEW n \in Nat, NEW e, NEW d, Struct(f, u, n, e, d),
         NEW t \in Tabs, NEW cookie \in 0 .. n, cookie \in e, NEW out \in BOOLEAN,
         Leave(f, u, t, cookie, out), NEW o,
         \A x \in Tabs \ {t} : Agrees(f, u[x], seen[x], x, o)
  PROVE  \A x \in Tabs : Agrees(flight', tab'[x], seen'[x], x, o)
  <1>1. PICK r \in Request :
            /\ r.kind = "logout" /\ r.tab = t
            /\ Adds(flight', f, FreeSlot(f), r)
      BY LeaveSends
  <1>2. \A x \in Tabs : Quiet(flight', f, x)
    <2>1. PICK g, s : g = flight' /\ s = FreeSlot(f) /\ Adds(g, f, s, r)
        BY <1>1
    <2> QED
        BY <1>1, <2>1, AddsQuiet
  <1>3. tab' = [u EXCEPT ![t] = [NoSession EXCEPT !.out = out]] /\ u \in Services
      BY DEF Leave, Cleared, Struct
  <1>4. /\ tab'[t].token = "none" /\ tab'[t].timer = FALSE
        /\ \A x \in Tabs \ {t} : tab'[x] = u[x]
      BY <1>3, ClearedService DEF Services, NoSession
  <1>5. Resumes(f, t) \in BOOLEAN
      BY DEF Resumes
  <1>6. PICK b \in BOOLEAN : b = Resumes(f, t)
      BY <1>5
  <1>7. seen' = [seen EXCEPT ![t].left = TRUE, ![t].pending = b, ![t].stalled = FALSE]
      BY <1>6 DEF Leave
  <1>8. seen'[t].pending = b /\ \A x \in Tabs \ {t} : seen'[x] = seen[x]
      BY <1>7, BaseTypes DEF History
  <1>9. Agrees(flight', tab'[t], seen'[t], t, o)
    <2>1. b = FALSE => ~ Resumes(flight', t)
        BY <1>2, <1>6 DEF Quiet
    <2> QED
        BY <1>4, <1>8, <2>1 DEF Agrees
  <1>10. \A x \in Tabs \ {t} : Agrees(flight', tab'[x], seen'[x], x, o)
      BY <1>2, <1>4, <1>8, QuietAgrees DEF Same
  <1> QED
      BY <1>9, <1>10

(* A tab that may not log out any more is left as it is.                   *)
LEMMA ForceLogoutAgrees ==
  ASSUME Base, NEW f, NEW u, NEW n \in Nat, NEW e, NEW d, Struct(f, u, n, e, d),
         NEW t \in Tabs, NEW cookie \in 0 .. n, ~ u[t].out => cookie \in e,
         ForceLogout(f, u, t, cookie), NEW o,
         \A x \in Tabs \ {t} : Agrees(f, u[x], seen[x], x, o),
         u[t].out = TRUE => Agrees(f, u[t], seen[t], t, o)
  PROVE  \A x \in Tabs : Agrees(flight', tab'[x], seen'[x], x, o)
  <1>1. CASE ~ u[t].out /\ Leave(f, u, t, cookie, TRUE)
      BY <1>1, LeaveAgrees
  <1>2. CASE u[t].out /\ flight' = f /\ tab' = u /\ seen' = seen
    <2>1. u[t].out = TRUE
        BY <1>2 DEF Struct, Services, AuthService
    <2> QED
        BY <1>2, <2>1
  <1> QED
      BY <1>1, <1>2 DEF ForceLogout

LEMMA Loose ==
  ASSUME Base
  PROVE  \E n, c :
             /\ n \in Nat /\ c = 0 .. n /\ Cookies = c /\ jar \in c
             /\ Struct(flight, tab, n, c, c)
  <1>1. PICK n, c : n \in Nat /\ n = Len(origin) /\ c = 0 .. n /\ Cookies = c
      BY BaseTypes
  <1>2. EndedCookies \subseteq c /\ DisturbedCookies \subseteq c
      BY <1>1 DEF EndedCookies, DisturbedCookies
  <1>3. PICK e, d : e = EndedCookies /\ d = DisturbedCookies
      OBVIOUS
  <1>4. Struct(flight, tab, n, e, d) /\ e \subseteq c /\ d \subseteq c /\ n <= n
      BY <1>1, <1>2, <1>3, BaseTypes
  <1>5. Struct(flight, tab, n, c, c)
      BY <1>1, <1>4, ShapedGrows
  <1> QED
      BY <1>1, <1>5, BaseTypes

(* The sessions a step that leaves the server alone agrees with.           *)
LEMMA AgreeGo ==
  ASSUME NEW o, o = Opened, UNCHANGED server,
         \A x \in Tabs : Agrees(flight', tab'[x], seen'[x], x, o)
  PROVE  Agree'
  <1>1. Opened' = o
      BY DEF Opened, Tokens, server
  <1> QED
      BY <1>1 DEF Agree

LEMMA AgeAgree ==
  ASSUME Base, Agree, NEW t \in Tabs, Age(t) PROVE Agree'
  <1>1. PICK o : o = Opened
      OBVIOUS
  <1>2. tab' = [tab EXCEPT ![t].token = "old"] /\ tab[t].token = "good"
        /\ flight' = flight /\ seen' = seen /\ UNCHANGED server
      BY DEF Age, observers
  <1>3. ASSUME NEW x \in Tabs PROVE Agrees(flight, tab'[x], seen[x], x, o)
    <2>1. Agrees(flight, tab[x], seen[x], x, o)
        BY <1>1 DEF Agree
    <2>2. /\ tab'[x].timer = tab[x].timer /\ tab'[x].out = tab[x].out
          /\ tab[x].token = "none" => tab'[x].token = "none"
          /\ tab'[x].token # "none" => tab[x].token # "none"
        BY <1>2, BaseTypes DEF Services, AuthService
    <2> QED
        BY <2>1, <2>2 DEF Agrees
  <1> QED
      BY <1>1, <1>2, <1>3, AgreeGo

LEMMA SilentRefreshAgree ==
  ASSUME Base, Agree, NEW t \in Tabs, SilentRefresh(t) PROVE Agree'
  <1>1. PICK o : o = Opened
      OBVIOUS
  <1>2. PICK n, c : n \in Nat /\ jar \in 0 .. n /\ Struct(flight, tab, n, c, c)
      BY Loose
  <1> DEFINE u == [tab EXCEPT ![t].timer = FALSE]
  <1>3. /\ Refresh(flight, u, t, "silent") /\ tab[t].timer
        /\ seen' = seen /\ UNCHANGED server
      BY DEF SilentRefresh
  <1>4. /\ u \in Services /\ \A x \in Tabs \ {t} : u[x] = tab[x]
        /\ u[t].inFlight = tab[t].inFlight
        /\ u[t].token = tab[t].token /\ u[t].out = tab[t].out
        /\ tab[t].timer = TRUE
      BY <1>3, BaseTypes DEF Services, AuthService
  <1> HIDE DEF u
  <1>5. Struct(flight, u, n, c, c)
      BY <1>2, <1>3, <1>4, NotBooting, NewTab
  <1>6. /\ \A x \in Tabs : Same(tab'[x], u[x])
        /\ \A x \in Tabs \ {t} : Quiet(flight', flight, x)
        /\ Renews(flight', t)
      BY <1>2, <1>3, <1>5, RefreshQuiet
  <1>7. \A x \in Tabs : Agrees(flight, tab[x], seen[x], x, o)
      BY <1>1 DEF Agree
  <1>8. \A x \in Tabs \ {t} : Agrees(flight', tab'[x], seen[x], x, o)
    <2>1. \A x \in Tabs \ {t} : Same(tab'[x], tab[x])
        BY <1>4, <1>6
    <2> QED
        BY <1>6, <1>7, <2>1, QuietAgrees
  <1>9. Agrees(flight', tab'[t], seen[t], t, o)
      BY <1>4, <1>6, <1>7 DEF Agrees, Same
  <1> QED
      BY <1>1, <1>3, <1>8, <1>9, AgreeGo

LEMMA DataRequestAgree ==
  ASSUME Base, Agree, NEW t \in Tabs, DataRequest(t) PROVE Agree'
  <1>1. PICK o : o = Opened
      OBVIOUS
  <1> DEFINE r == Asks("api", t, 0, {}, 0)
  <1>2. r \in Request /\ r.kind = "api"
      BY DEF Asks, Request
  <1>3. /\ Free(flight) # {} /\ flight' = Put(flight, r) /\ tab' = tab
        /\ seen' = seen /\ UNCHANGED server
      BY DEF DataRequest, observers
  <1> HIDE DEF r
  <1>4. PICK g, s : g = flight' /\ Puts(g, flight, s, r)
      BY <1>2, <1>3, BaseTypes, PutPuts
  <1>5. \A x \in Tabs : Quiet(g, flight, x)
      BY <1>2, <1>4, PutsQuiet
  <1>6. \A x \in Tabs : Agrees(flight, tab[x], seen[x], x, o)
      BY <1>1 DEF Agree
  <1>7. \A x \in Tabs : Agrees(g, tab'[x], seen'[x], x, o)
      BY <1>3, <1>5, <1>6, QuietAgrees DEF Same
  <1> QED
      BY <1>1, <1>3, <1>4, <1>7, AgreeGo

LEMMA LogoutAgree ==
  ASSUME Base, Agree, NEW t \in Tabs, Logout(t) PROVE Agree'
  <1>1. PICK o : o = Opened
      OBVIOUS
  <1>2. PICK n, c : n \in Nat /\ c = 0 .. n /\ jar \in c /\ Struct(flight, tab, n, c, c)
      BY Loose
  <1>3. Leave(flight, tab, t, jar, FALSE) /\ UNCHANGED server
      BY DEF Logout
  <1>4. \A x \in Tabs : Agrees(flight, tab[x], seen[x], x, o)
      BY <1>1 DEF Agree
  <1>5. \A x \in Tabs : Agrees(flight', tab'[x], seen'[x], x, o)
      BY <1>2, <1>3, <1>4, LeaveAgrees
  <1> QED
      BY <1>1, <1>3, <1>5, AgreeGo

LEMMA LoginAgree ==
  ASSUME Base, Agree, NEW t \in Tabs, Login(t) PROVE Agree'
  <1>1. PICK o : o = Opened
      OBVIOUS
  <1> DEFINE r == Asks("login", t, jar, {"login"}, 0)
  <1>2. r \in Request /\ r.kind = "login" /\ r.tab = t
    <2>1. jar \in Nat
        BY BaseTypes
    <2> QED
        BY <2>1 DEF Asks, Request, AuthKinds, Waiting
  <1>3. /\ Free(flight) # {} /\ flight' = Send(flight, r) /\ tab' = tab
        /\ tab[t].token = "none"
        /\ seen' = [seen EXCEPT ![t].left = FALSE, ![t].pending = FALSE]
        /\ UNCHANGED server
      BY DEF Login
  <1> HIDE DEF r
  <1>4. PICK g, s : g = flight' /\ Adds(g, flight, s, r)
      BY <1>2, <1>3, BaseTypes, SendAdds
  <1>5. \A x \in Tabs \ {t} : Quiet(g, flight, x)
      BY <1>2, <1>4, AddsQuiet
  <1>6. \A x \in Tabs : Agrees(flight, tab[x], seen[x], x, o)
      BY <1>1 DEF Agree
  <1>7. seen'[t].left = FALSE /\ \A x \in Tabs \ {t} : seen'[x] = seen[x]
      BY <1>3, BaseTypes DEF History
  <1>8. \A x \in Tabs \ {t} : Agrees(g, tab'[x], seen'[x], x, o)
      BY <1>3, <1>5, <1>6, <1>7, QuietAgrees DEF Same
  <1>9. Agrees(g, tab'[t], seen'[t], t, o)
      BY <1>3, <1>7 DEF Agrees
  <1> QED
      BY <1>1, <1>3, <1>4, <1>8, <1>9, AgreeGo

LEMMA RestQuiet ==
  ASSUME Base, NEW t \in Tabs, NEW x \in Tabs \ {t}
  PROVE  Quiet(Rest(t), flight, x)
  <1> DEFINE g == Rest(t)
  <1>1. ASSUME NEW i \in Slots
        PROVE  /\ flight[i] # Empty /\ flight[i].tab = x => g[i] = flight[i]
               /\ g[i] # Empty /\ g[i].tab = x => g[i] = flight[i]
    <2>1. CASE flight[i] = Empty \/ flight[i].tab # t
        BY <2>1 DEF Rest
    <2>2. CASE flight[i] # Empty /\ flight[i].tab = t
      <3>1. g[i] = [flight[i] EXCEPT !.tab = Gone] \/ g[i] = Empty
          BY <2>2 DEF Rest
      <3>2. flight[i] \in Request
          BY <2>2, BaseTypes
      <3>3. g[i] # Empty => g[i].tab = Gone
          BY <3>1, <3>2 DEF Request
      <3> QED
          BY <2>2, <3>3, SessionsAssumption DEF Gone
    <2> QED
        BY <2>1, <2>2
  <1> HIDE DEF g
  <1>2. Quiet(g, flight, x)
      BY <1>1 DEF Quiet, Resumes, Renews
  <1> QED
      BY <1>2 DEF g

LEMMA LoadAgree ==
  ASSUME Base, Agree, NEW t \in Tabs, Load(t) PROVE Agree'
  <1>1. PICK o : o = Opened
      OBVIOUS
  <1>2. PICK n, c :
             /\ n \in Nat /\ c = 0 .. n /\ Cookies = c /\ jar \in c
             /\ Struct(flight, tab, n, c, c)
      BY Loose
  <1> DEFINE u == [tab EXCEPT ![t] = NoSession]
             f == Rest(t)
  <1>3. Refresh(f, u, t, "boot") /\ UNCHANGED server
      BY LoadSteps DEF Load
  <1>4. \A i \in Cut(t) : flight[i].cookie \in c
      BY <1>2, BaseTypes DEF Cut
  <1>5. Struct(f, u, n, c, c)
      BY <1>2, <1>4, RestStruct
  <1>6. u[t] = NoSession /\ \A x \in Tabs \ {t} : u[x] = tab[x]
      BY BaseTypes DEF Services
  <1>7. \A x \in Tabs \ {t} : Quiet(f, flight, x)
      BY RestQuiet
  <1> HIDE DEF f, u
  <1>8. /\ \A x \in Tabs : Same(tab'[x], u[x])
        /\ \A x \in Tabs \ {t} : Quiet(flight', f, x)
      BY <1>2, <1>3, <1>5, RefreshQuiet
  <1>9. \A x \in Tabs : Agrees(flight, tab[x], seen[x], x, o)
      BY <1>1 DEF Agree
  <1>10. seen'[t].left = FALSE /\ \A x \in Tabs \ {t} : seen'[x] = seen[x]
    <2>1. seen' = [seen EXCEPT ![t] = [login |-> 0, left |-> FALSE,
                                       pending |-> FALSE, stalled |-> FALSE]]
        BY DEF Load
    <2> QED
        BY <2>1, BaseTypes DEF History
  <1>11. ASSUME NEW x \in Tabs \ {t}
         PROVE  Agrees(flight', tab'[x], seen'[x], x, o)
    <2>1. Same(tab'[x], tab[x]) /\ Quiet(flight', flight, x)
        BY <1>6, <1>7, <1>8 DEF Quiet
    <2> QED
        BY <1>9, <1>10, <2>1, QuietAgrees
  <1>12. Agrees(flight', tab'[t], seen'[t], t, o)
      BY <1>6, <1>8, <1>10 DEF Agrees, Same, NoSession
  <1> QED
      BY <1>1, <1>3, <1>11, <1>12, AgreeGo

LEMMA ServeAgree ==
  ASSUME Base, Agree, NEW i \in Slots, Serve(i) PROVE Agree'
  <1>1. flight[i] # Empty /\ tab' = tab /\ seen' = seen
      BY DEF Serve, ServeRefresh, ServeLogout, ServeLogin, Served, observers
  <1>2. PICK at \in {"ok", "refused"}, token \in Nat : Answered(i, at, token)
      BY BaseTypes DEF Serve, ServeRefresh, ServeLogout, ServeLogin
  <1>3. PICK o, p : o = Opened /\ p = Opened'
      OBVIOUS
  <1>4. o \subseteq p
    <2>1. \/ origin' = origin
          \/ \E l : origin' = Append(origin, l)
        BY DEF Serve, ServeRefresh, ServeLogout, ServeLogin, server
    <2>2. CASE \E l : origin' = Append(origin, l)
      <3>1. Len(origin') = Len(origin) + 1 /\ \A k \in Tokens : origin'[k] = origin[k]
          BY <2>2, BaseTypes
      <3>2. Tokens \subseteq Tokens'
          BY <3>1, BaseTypes DEF Tokens
      <3> QED
          BY <1>3, <3>1, <3>2 DEF Opened
    <2> QED
        BY <1>3, <2>1, <2>2 DEF Opened, Tokens
  <1>5. ASSUME NEW x \in Tabs PROVE Quiet(flight', flight, x)
    <2>1. CASE flight[i].tab = Gone
      <3>1. flight' = Drop(flight, i) /\ flight[i].tab # x
          BY <1>2, <2>1, SessionsAssumption DEF Answered, Gone
      <3> QED
          BY <1>1, <3>1, BaseTypes, DropQuiet
    <2>2. CASE flight[i].tab # Gone
      <3>1. flight' = [flight EXCEPT ![i].at = at, ![i].token = token]
          BY <1>2, <2>2 DEF Answered
      <3>2. /\ flight'[i].kind = flight[i].kind /\ flight'[i].tab = flight[i].tab
            /\ flight'[i].waits = flight[i].waits /\ flight'[i] \in Request
            /\ \A j \in Slots \ {i} : flight'[j] = flight[j]
          BY <1>1, <3>1, BaseTypes DEF Flights, Request
      <3>3. flight'[i] # Empty
          BY <3>2, RequestFields
      <3> QED
          BY <1>1, <3>2, <3>3 DEF Quiet, Resumes, Renews
    <2> QED
        BY <2>1, <2>2
  <1>6. \A x \in Tabs : Agrees(flight, tab[x], seen[x], x, o)
      BY <1>3 DEF Agree
  <1>7. \A x \in Tabs : Agrees(flight', tab'[x], seen'[x], x, p)
      BY <1>1, <1>4, <1>5, <1>6, QuietAgrees DEF Same
  <1> QED
      BY <1>3, <1>7 DEF Agree

-----------------------------------------------------------------------------
(* The answers, and what the tabs show.                                    *)

(* A request ends that would not have brought a tab a session.             *)
LEMMA UnheardAgree ==
  ASSUME Base, Agree, NEW i \in Slots, LogoutOk(i) \/ LogoutLost(i) \/ LoginLost(i)
  PROVE  Agree'
  <1>1. PICK o : o = Opened
      OBVIOUS
  <1>2. /\ flight[i] # Empty /\ flight[i].kind \notin {"refresh", "me"}
        /\ flight' = Drop(flight, i) /\ tab' = tab /\ seen' = seen
        /\ UNCHANGED server
      BY DEF LogoutOk, LogoutLost, LoginLost, Arrives, observers
  <1>3. \A x \in Tabs : Quiet(flight', flight, x)
      BY <1>2, BaseTypes, DropQuiet
  <1>4. \A x \in Tabs : Agrees(flight, tab[x], seen[x], x, o)
      BY <1>1 DEF Agree
  <1>5. \A x \in Tabs : Agrees(flight', tab'[x], seen'[x], x, o)
      BY <1>2, <1>3, <1>4, QuietAgrees DEF Same
  <1> QED
      BY <1>1, <1>2, <1>5, AgreeGo

LEMMA DataRefusedAgree ==
  ASSUME Base, Agree, NEW i \in Slots, DataRefused(i) PROVE Agree'
  <1>1. PICK o : o = Opened
      OBVIOUS
  <1>2. PICK n, c : n \in Nat /\ jar \in 0 .. n /\ Struct(flight, tab, n, c, c)
      BY Loose
  <1> DEFINE f == Drop(flight, i)
             t == flight[i].tab
  <1>3. /\ flight[i] # Empty /\ flight[i].kind = "api"
        /\ Refresh(f, tab, t, "retry") /\ seen' = seen /\ UNCHANGED server
      BY DEF DataRefused
  <1>4. t \in Tabs /\ Struct(f, tab, n, c, c)
      BY <1>2, <1>3, Sender, OtherStruct DEF AuthKinds
  <1>5. \A x \in Tabs : Quiet(f, flight, x)
      BY <1>3, BaseTypes, DropQuiet
  <1>6. \A x \in Tabs : Agrees(flight, tab[x], seen[x], x, o)
      BY <1>1 DEF Agree
  <1> HIDE DEF f, t
  <1>7. \A x \in Tabs : Agrees(f, tab[x], seen[x], x, o)
      BY <1>5, <1>6, QuietAgrees DEF Same
  <1>8. \A x \in Tabs : Agrees(flight', tab'[x], seen[x], x, o)
      BY <1>2, <1>3, <1>4, <1>7, RefreshAgrees
  <1> QED
      BY <1>1, <1>3, <1>8, AgreeGo

LEMMA RetryEndsAgree ==
  ASSUME Base, Agree, NEW i \in Slots, RetryEnds(i) PROVE Agree'
  <1>1. PICK o : o = Opened
      OBVIOUS
  <1>2. PICK n, c : n \in Nat /\ c = 0 .. n /\ jar \in c /\ Struct(flight, tab, n, c, c)
      BY Loose
  <1> DEFINE f == Drop(flight, i)
             t == flight[i].tab
  <1>3. /\ flight[i] # Empty /\ flight[i].kind = "retry"
        /\ \/ flight' = f /\ tab' = tab /\ seen' = seen
           \/ ForceLogout(f, tab, t, jar)
        /\ UNCHANGED server
      BY DEF RetryEnds
  <1>4. t \in Tabs /\ Struct(f, tab, n, c, c)
      BY <1>2, <1>3, Sender, OtherStruct DEF AuthKinds
  <1>5. \A x \in Tabs : Quiet(f, flight, x)
      BY <1>3, BaseTypes, DropQuiet
  <1>6. \A x \in Tabs : Agrees(flight, tab[x], seen[x], x, o)
      BY <1>1 DEF Agree
  <1> HIDE DEF f, t
  <1>7. \A x \in Tabs : Agrees(f, tab[x], seen[x], x, o)
      BY <1>5, <1>6, QuietAgrees DEF Same
  <1>8. ASSUME ForceLogout(f, tab, t, jar)
        PROVE  \A x \in Tabs : Agrees(flight', tab'[x], seen'[x], x, o)
      BY <1>2, <1>4, <1>7, <1>8, ForceLogoutAgrees
  <1>9. \A x \in Tabs : Agrees(flight', tab'[x], seen'[x], x, o)
      BY <1>3, <1>7, <1>8
  <1> QED
      BY <1>1, <1>3, <1>9, AgreeGo

(* A refresh that failed: the tabs once it no longer stands for one.       *)
LEMMA RefreshOver ==
  ASSUME Base, Agree, NEW i \in Slots, flight[i] # Empty,
         flight[i].tab \in Tabs, NEW o, o = Opened
  PROVE  LET f == Drop(flight, i)
             t == flight[i].tab
             u == [tab EXCEPT ![t].inFlight = None]
         IN  /\ \A x \in Tabs : Same(u[x], tab[x])
             /\ \A x \in Tabs \ {t} : Agrees(f, u[x], seen[x], x, o)
             /\ u[t].out = TRUE => Agrees(f, u[t], seen[t], t, o)
             /\ \A n, c : Struct(flight, tab, n, c, c) => Struct(f, u, n, c, c)
  <1> DEFINE f == Drop(flight, i)
             t == flight[i].tab
             u == [tab EXCEPT ![t].inFlight = None]
  <1>1. \A x \in Tabs : Same(u[x], tab[x])
      BY BaseTypes DEF Services, AuthService, Same
  <1>2. \A n, c : Struct(flight, tab, n, c, c) => Struct(f, u, n, c, c)
      BY EndStruct
  <1>3. \A x \in Tabs \ {t} : Quiet(f, flight, x)
      BY BaseTypes, DropQuiet
  <1>4. Resumes(f, t) => Resumes(flight, t)
      BY BaseTypes, DropResumes
  <1>5. \A x \in Tabs : Agrees(flight, tab[x], seen[x], x, o)
      BY DEF Agree
  <1> HIDE DEF f, t, u
  <1>6. \A x \in Tabs \ {t} : Agrees(f, u[x], seen[x], x, o)
      BY <1>1, <1>3, <1>5, QuietAgrees
  <1>7. u[t].out = TRUE => Agrees(f, u[t], seen[t], t, o)
    <2>1. t \in Tabs
        BY DEF t
    <2> QED
        BY <1>1, <1>4, <1>5, <2>1 DEF Agrees, Same
  <1> QED
      BY <1>1, <1>2, <1>6, <1>7 DEF f, t, u

LEMMA RefreshRefusedAgree ==
  ASSUME Base, Agree, NEW i \in Slots, RefreshRefused(i) PROVE Agree'
  <1>1. PICK o : o = Opened
      OBVIOUS
  <1>2. PICK n, c : n \in Nat /\ c = 0 .. n /\ jar \in c /\ Struct(flight, tab, n, c, c)
      BY Loose
  <1> DEFINE f == Drop(flight, i)
             t == flight[i].tab
             u == [tab EXCEPT ![t].inFlight = None]
  <1>3. /\ flight[i] # Empty /\ flight[i].at = "refused" /\ flight[i].kind = "refresh"
        /\ \/ flight[i].waits = {"boot"} /\ flight' = f /\ tab' = u /\ seen' = seen
           \/ ForceLogout(f, u, t, 0)
        /\ UNCHANGED server
      BY DEF RefreshRefused, Arrives
  <1>4. t \in Tabs
      BY <1>2, <1>3, Sender
  <1>5. /\ \A x \in Tabs : Same(u[x], tab[x])
        /\ \A x \in Tabs \ {t} : Agrees(f, u[x], seen[x], x, o)
        /\ u[t].out = TRUE => Agrees(f, u[t], seen[t], t, o)
        /\ Struct(f, u, n, c, c)
      BY <1>1, <1>2, <1>3, <1>4, RefreshOver
  <1>6. ASSUME flight[i].waits = {"boot"}
        PROVE  \A x \in Tabs : Agrees(f, u[x], seen[x], x, o)
    <2>1. tab[t].token = "none"
        BY <1>2, <1>3, <1>4, <1>6 DEF Struct, Boots, BootsIn
    <2>2. Resumes(f, t) => Resumes(flight, t)
        BY BaseTypes, DropResumes
    <2>3. Agrees(flight, tab[t], seen[t], t, o)
        BY <1>1, <1>4 DEF Agree
    <2> HIDE DEF f, t, u
    <2>4. Agrees(f, u[t], seen[t], t, o)
        BY <1>4, <1>5, <2>1, <2>2, <2>3 DEF Agrees, Same
    <2> QED
        BY <1>5, <2>4
  <1>7. ASSUME ForceLogout(f, u, t, 0)
        PROVE  \A x \in Tabs : Agrees(flight', tab'[x], seen'[x], x, o)
    <2>1. 0 \in 0 .. n /\ 0 \in c
        BY <1>2
    <2> HIDE DEF f, t, u
    <2> QED
        BY <1>2, <1>4, <1>5, <1>7, <2>1, ForceLogoutAgrees
  <1>8. \A x \in Tabs : Agrees(flight', tab'[x], seen'[x], x, o)
      BY <1>3, <1>6, <1>7
  <1> QED
      BY <1>1, <1>3, <1>8, AgreeGo

LEMMA RefreshLostAgree ==
  ASSUME Base, Agree, NEW i \in Slots, RefreshLost(i) PROVE Agree'
  <1>1. PICK o : o = Opened
      OBVIOUS
  <1>2. PICK n, c : n \in Nat /\ c = 0 .. n /\ jar \in c /\ Struct(flight, tab, n, c, c)
      BY Loose
  <1> DEFINE f == Drop(flight, i)
             t == flight[i].tab
             u == [tab EXCEPT ![t].inFlight = None]
  <1>3. /\ flight[i] # Empty /\ flight[i].tab # Gone
        /\ \/ flight' = f /\ tab' = u /\ seen' = [seen EXCEPT ![t].stalled = TRUE]
           \/ ForceLogout(f, u, t, jar)
        /\ UNCHANGED server
      BY DEF RefreshLost
  <1>4. t \in Tabs
      BY <1>2, <1>3, Sender
  <1>5. /\ \A x \in Tabs : Same(u[x], tab[x])
        /\ \A x \in Tabs \ {t} : Agrees(f, u[x], seen[x], x, o)
        /\ u[t].out = TRUE => Agrees(f, u[t], seen[t], t, o)
        /\ Struct(f, u, n, c, c)
      BY <1>1, <1>2, <1>3, <1>4, RefreshOver
  <1>6. ASSUME seen' = [seen EXCEPT ![t].stalled = TRUE]
        PROVE  \A x \in Tabs : Agrees(f, u[x], seen'[x], x, o)
    <2>1. Resumes(f, t) => Resumes(flight, t)
        BY BaseTypes, DropResumes
    <2>2. Agrees(flight, tab[t], seen[t], t, o)
        BY <1>1, <1>4 DEF Agree
    <2> HIDE DEF f, t, u
    <2>3. /\ seen'[t].stalled = TRUE /\ seen'[t].left = seen[t].left
          /\ seen'[t].pending = seen[t].pending /\ seen'[t].login = seen[t].login
          /\ \A x \in Tabs \ {t} : seen'[x] = seen[x]
        BY <1>4, <1>6, BaseTypes DEF History
    <2>4. Agrees(f, u[t], seen'[t], t, o)
        BY <1>4, <1>5, <2>1, <2>2, <2>3 DEF Agrees, Same
    <2> QED
        BY <1>5, <2>3, <2>4
  <1>7. ASSUME ForceLogout(f, u, t, jar)
        PROVE  \A x \in Tabs : Agrees(flight', tab'[x], seen'[x], x, o)
    <2> HIDE DEF f, t, u
    <2> QED
        BY <1>2, <1>4, <1>5, <1>7, ForceLogoutAgrees
  <1>8. \A x \in Tabs : Agrees(flight', tab'[x], seen'[x], x, o)
      BY <1>3, <1>6, <1>7
  <1> QED
      BY <1>1, <1>3, <1>8, AgreeGo

(* A tab waited for an answer that brings it a session.                    *)
LEMMA Waited ==
  ASSUME NEW f, NEW i \in Slots, NEW t, f[i] # Empty, f[i].tab = t,
         f[i].kind \in {"login", "refresh", "me"}, f[i].waits # {"retry"},
         NEW v, NEW h, NEW o, Agrees(f, v, h, t, o)
  PROVE  ~(h.left = TRUE /\ h.pending = FALSE)
  BY DEF Agrees, Resumes

LEMMA MeEndsAgree ==
  ASSUME Base, Agree, NEW i \in Slots, MeEnds(i) PROVE Agree'
  <1>1. PICK o : o = Opened
      OBVIOUS
  <1> DEFINE f == Drop(flight, i)
             r == flight[i]
             t == r.tab
  <1>2. /\ flight[i] # Empty /\ r.kind = "me" /\ flight' = f /\ UNCHANGED server
      BY DEF MeEnds
  <1>3. t \in Tabs /\ r.token # 0 /\ r.token \in Cookies /\ r.waits # {"retry"}
    <2>1. Shaped(r, Len(origin), EndedCookies, DisturbedCookies)
        BY <1>2, BaseTypes
    <2> QED
        BY <1>2, <2>1, Sender, BaseTypes DEF Shaped, AuthKinds
  <1>4. origin[r.token] \in o
      BY <1>1, <1>3, BaseTypes DEF Opened
  <1>5. \A x \in Tabs : Agrees(flight, tab[x], seen[x], x, o)
      BY <1>1 DEF Agree
  <1>6. ~(seen[t].left = TRUE /\ seen[t].pending = FALSE)
      BY <1>2, <1>3, <1>5, Waited
  <1>7. \A x \in Tabs \ {t} : Quiet(f, flight, x)
      BY <1>2, BaseTypes, DropQuiet
  <1>8. PICK l : l = origin[r.token]
      OBVIOUS
  <1>9. /\ tab'[t].timer = TRUE /\ \A x \in Tabs \ {t} : tab'[x] = tab[x]
        /\ seen'[t].left = seen[t].left /\ seen'[t].pending = seen[t].pending
        /\ \A x \in Tabs \ {t} : seen'[x] = seen[x]
        /\ \/ seen'[t].login = l
           \/ seen'[t].login = seen[t].login /\ tab'[t].token = tab[t].token
    <2> HIDE DEF t
    <2>1. CASE /\ tab' = [tab EXCEPT ![t].token = "good", ![t].out = FALSE,
                                     ![t].timer = TRUE]
               /\ seen' = [seen EXCEPT ![t].login = l, ![t].stalled = FALSE]
        BY <1>3, <2>1, BaseTypes DEF Services, AuthService, History
    <2>2. CASE /\ tab' = [tab EXCEPT ![t].timer = TRUE]
               /\ seen' = [seen EXCEPT ![t].login = @, ![t].stalled = FALSE]
        BY <1>3, <2>2, BaseTypes DEF Services, AuthService, History
    <2> QED
        BY <1>8, <2>1, <2>2 DEF MeEnds, Kept, t
  <1> HIDE DEF f, t, r
  <1>10. Agrees(f, tab'[t], seen'[t], t, o)
      BY <1>3, <1>4, <1>5, <1>6, <1>8, <1>9 DEF Agrees
  <1>11. \A x \in Tabs \ {t} : Agrees(f, tab'[x], seen'[x], x, o)
      BY <1>5, <1>7, <1>9, QuietAgrees DEF Same
  <1> QED
      BY <1>1, <1>2, <1>10, <1>11, AgreeGo

(* A request is put, and the tab that gets it changes.                     *)
LEMMA PutQuiet ==
  ASSUME NEW f \in Flights, Free(f) # {}, NEW r \in Request, NEW t
  PROVE  /\ Put(f, r) \in Flights
         /\ Renews(f, t) => Renews(Put(f, r), t)
         /\ r.tab # t \/ r.kind \notin {"login", "refresh", "me"}
                => Quiet(Put(f, r), f, t)
         /\ r.tab = t /\ r.kind = "me" /\ r.waits # {"retry"} => Renews(Put(f, r), t)
  <1>1. PICK g, s : g = Put(f, r) /\ Puts(g, f, s, r)
      BY PutPuts
  <1>2. g \in Flights
      BY <1>1 DEF Puts
  <1> QED
      BY <1>1, <1>2, PutsQuiet

LEMMA LoginOkAgree ==
  ASSUME Base, Agree, NEW i \in Slots, LoginOk(i) PROVE Agree'
  <1>1. PICK o : o = Opened
      OBVIOUS
  <1> DEFINE f == Drop(flight, i)
             r == flight[i]
             t == r.tab
             me == Asks("me", t, 0, {"login"}, r.token)
  <1>2. /\ flight[i] # Empty /\ r.kind = "login" /\ r.at = "ok"
        /\ flight' = Put(f, me)
        /\ tab' = [tab EXCEPT ![t].token = "good"]
        /\ seen' = [seen EXCEPT ![t].login = origin[r.token]]
        /\ UNCHANGED server
      BY DEF LoginOk, Arrives
  <1>3. Shaped(r, Len(origin), EndedCookies, DisturbedCookies)
      BY <1>2, BaseTypes
  <1>4. t \in Tabs /\ r.token # 0 /\ r.token \in Cookies /\ r.waits # {"retry"}
      BY <1>2, <1>3, Sender, BaseTypes DEF Shaped
  <1>5. PICK l : l = origin[r.token] /\ l \in o
      BY <1>1, <1>4, BaseTypes DEF Opened
  <1>6. \A x \in Tabs : Agrees(flight, tab[x], seen[x], x, o)
      BY <1>1 DEF Agree
  <1>7. ~(seen[t].left = TRUE /\ seen[t].pending = FALSE)
      BY <1>2, <1>4, <1>6, Waited
  <1>8. f \in Flights /\ Free(f) # {}
      BY DropIs, BaseTypes
  <1>9. me \in Request /\ me.kind = "me" /\ me.tab = t /\ me.waits # {"retry"}
    <2>1. t \in Tabs \cup {Gone} /\ r.token \in Nat /\ {"login"} \in SUBSET Waiting
        BY <1>4, BaseTypes DEF Waiting
    <2> HIDE DEF t, r
    <2>2. me \in Request /\ me.kind = "me" /\ me.tab = t /\ me.waits = {"login"}
        BY <2>1 DEF Asks, Request
    <2> QED
        BY <2>2
  <1>10. \A x \in Tabs \ {t} : Quiet(f, flight, x)
      BY <1>2, BaseTypes, DropQuiet
  <1>11. /\ tab'[t].token = "good" /\ \A x \in Tabs \ {t} : tab'[x] = tab[x]
         /\ seen'[t].left = seen[t].left /\ seen'[t].pending = seen[t].pending
         /\ seen'[t].login = l /\ \A x \in Tabs \ {t} : seen'[x] = seen[x]
    <2> HIDE DEF t
    <2> QED
        BY <1>2, <1>4, <1>5, BaseTypes DEF Services, AuthService, History
  <1> HIDE DEF f, t, r, me
  <1>12. /\ Renews(flight', t)
         /\ \A x \in Tabs \ {t} : Quiet(flight', flight, x)
      BY <1>2, <1>8, <1>9, <1>10, PutQuiet DEF Quiet
  <1>13. Agrees(flight', tab'[t], seen'[t], t, o)
      BY <1>4, <1>5, <1>7, <1>11, <1>12 DEF Agrees
  <1>14. \A x \in Tabs \ {t} : Agrees(flight', tab'[x], seen'[x], x, o)
      BY <1>6, <1>11, <1>12, QuietAgrees DEF Same
  <1> QED
      BY <1>1, <1>2, <1>13, <1>14, AgreeGo

LEMMA RefreshOkAgree ==
  ASSUME Base, Agree, NEW i \in Slots, RefreshOk(i) PROVE Agree'
  <1>1. PICK o : o = Opened
      OBVIOUS
  <1> DEFINE r == flight[i]
             t == r.tab
             hydrates == r.waits \cap {"silent", "boot"}
             rest == Drop(flight, i)
             me == Asks("me", t, 0, hydrates, r.token)
             hydrated == IF hydrates = {} THEN rest ELSE Put(rest, me)
             retry == Asks("retry", t, 0, {}, 0)
  <1>2. /\ r # Empty /\ r.kind = "refresh" /\ r.at = "ok"
        /\ hydrates # {} /\ "retry" \in r.waits => Free(flight) # {}
        /\ flight' = IF "retry" \notin r.waits THEN hydrated ELSE Put(hydrated, retry)
        /\ tab' = [tab EXCEPT ![t].inFlight = None,
                              ![t].token = IF hydrates = {} THEN @ ELSE "good"]
        /\ seen' = [seen EXCEPT ![t].login = IF hydrates = {} THEN @
                                            ELSE origin[r.token]]
        /\ UNCHANGED server
      BY DEF RefreshOk, Arrives
  <1>3. Shaped(r, Len(origin), EndedCookies, DisturbedCookies)
      BY <1>2, BaseTypes
  <1>4. /\ t \in Tabs /\ r.token # 0 /\ r.token \in Cookies
        /\ hydrates = {} => r.waits = {"retry"}
        /\ hydrates # {} => r.waits # {"retry"}
      BY <1>2, <1>3, Sender, BaseTypes DEF Shaped
  <1>5. PICK l : l = origin[r.token] /\ l \in o
      BY <1>1, <1>4, BaseTypes DEF Opened
  <1>6. \A x \in Tabs : Agrees(flight, tab[x], seen[x], x, o)
      BY <1>1 DEF Agree
  <1>7. hydrates # {} => ~(seen[t].left = TRUE /\ seen[t].pending = FALSE)
      BY <1>2, <1>4, <1>6, Waited
  <1>8. rest \in Flights /\ i \in Free(rest) /\ rest[i] = Empty
        /\ \A j \in Slots \ {i} : rest[j] = flight[j]
      BY DropIs, BaseTypes
  <1>9. me \in Request /\ me.kind = "me" /\ me.tab = t /\ me.waits # {"retry"}
    <2>1. t \in Tabs \cup {Gone} /\ r.token \in Nat /\ hydrates \in SUBSET Waiting
          /\ hydrates # {"retry"}
        BY <1>4, BaseTypes DEF Waiting
    <2> HIDE DEF t, r, hydrates
    <2>2. me \in Request /\ me.kind = "me" /\ me.tab = t /\ me.waits = hydrates
        BY <2>1 DEF Asks, Request
    <2> QED
        BY <2>1, <2>2
  <1>10. retry \in Request /\ retry.kind = "retry" /\ retry.tab = t
    <2> HIDE DEF t, r
    <2> QED
        BY <1>4 DEF Asks, Request
  <1>11. /\ \A x \in Tabs \ {t} : Quiet(rest, flight, x)
         /\ hydrates = {} => Quiet(rest, flight, t)
      BY <1>2, <1>4, BaseTypes, DropQuiet
  <1>12. /\ \A x \in Tabs \ {t} : tab'[x] = tab[x] /\ seen'[x] = seen[x]
         /\ seen'[t].left = seen[t].left /\ seen'[t].pending = seen[t].pending
         /\ hydrates = {} => Same(tab'[t], tab[t]) /\ seen'[t] = seen[t]
         /\ hydrates # {} => seen'[t].login = l
    <2> HIDE DEF t, hydrates
    <2>1. CASE hydrates = {}
      <3>1. /\ tab' = [tab EXCEPT ![t].inFlight = None, ![t].token = @]
            /\ seen' = [seen EXCEPT ![t].login = @]
          BY <1>2, <2>1
      <3>2. seen[t] = [seen[t] EXCEPT !.login = @]
          BY <1>4, BaseTypes DEF History
      <3> QED
          BY <1>4, <2>1, <3>1, <3>2, BaseTypes DEF Services, AuthService, History, Same
    <2>2. CASE hydrates # {}
      <3>1. /\ tab' = [tab EXCEPT ![t].inFlight = None, ![t].token = "good"]
            /\ seen' = [seen EXCEPT ![t].login = l]
          BY <1>2, <1>5, <2>2
      <3> QED
          BY <1>4, <2>2, <3>1, BaseTypes DEF Services, AuthService, History
    <2> QED
        BY <2>1, <2>2
  <1>13. hydrates # {} /\ "retry" \in r.waits => Free(Put(rest, me)) # {}
    <2> HIDE DEF me, hydrates
    <2> QED
        BY <1>2, <1>9, BaseTypes, RoomForTwo
  <1> HIDE DEF r, t, hydrates, rest, me, retry
  <1>14. /\ hydrated \in Flights
         /\ \A x \in Tabs \ {t} : Quiet(hydrated, flight, x)
         /\ hydrates = {} => Quiet(hydrated, flight, t)
         /\ hydrates # {} => Renews(hydrated, t)
         /\ "retry" \in r.waits => Free(hydrated) # {}
    <2>1. CASE hydrates = {}
      <3>1. hydrated = rest
          BY <2>1
      <3> QED
          BY <1>8, <1>11, <2>1, <3>1
    <2>2. CASE hydrates # {}
      <3>1. hydrated = Put(rest, me)
          BY <2>2
      <3>2. \A x \in Tabs \ {t} : Quiet(Put(rest, me), flight, x)
          BY <1>8, <1>9, <1>11, PutQuiet DEF Quiet
      <3>3. Put(rest, me) \in Flights /\ Renews(Put(rest, me), t)
          BY <1>8, <1>9, PutQuiet
      <3> QED
          BY <1>13, <2>2, <3>1, <3>2, <3>3
    <2> QED
        BY <2>1, <2>2
  <1> HIDE DEF hydrated
  <1>15. /\ \A x \in Tabs \ {t} : Quiet(flight', flight, x)
         /\ hydrates = {} => Quiet(flight', flight, t)
         /\ hydrates # {} => Renews(flight', t)
    <2>1. CASE "retry" \notin r.waits
        BY <1>2, <1>14, <2>1
    <2>2. CASE "retry" \in r.waits
      <3>1. flight' = Put(hydrated, retry)
          BY <1>2, <2>2
      <3>2. /\ \A x \in Tabs : Quiet(Put(hydrated, retry), hydrated, x)
            /\ Renews(hydrated, t) => Renews(Put(hydrated, retry), t)
          BY <1>10, <1>14, <2>2, PutQuiet
      <3> QED
          BY <1>4, <1>14, <3>1, <3>2 DEF Quiet
    <2> QED
        BY <2>1, <2>2
  <1>16. Agrees(flight', tab'[t], seen'[t], t, o)
    <2>1. CASE hydrates = {}
        BY <1>4, <1>6, <1>12, <1>15, <2>1, QuietAgrees
    <2>2. CASE hydrates # {}
        BY <1>5, <1>7, <1>12, <1>15, <2>2 DEF Agrees
    <2> QED
        BY <2>1, <2>2
  <1>17. \A x \in Tabs \ {t} : Agrees(flight', tab'[x], seen'[x], x, o)
      BY <1>6, <1>12, <1>15, QuietAgrees DEF Same
  <1> QED
      BY <1>1, <1>2, <1>16, <1>17, AgreeGo

-----------------------------------------------------------------------------
(* A login that no tab ended keeps a token that is accepted.               *)
Unended == \A l \in Opened : l \in ended \/ TokensOf(l) # {}

LEMMA UnendedServe ==
  ASSUME Base, Unended, NEW i \in Slots, Serve(i) PROVE Unended'
  <1>1. ended' = ended /\ IInv
      BY DEF Serve, ServeRefresh, ServeLogout, ServeLogin, observers, Base
  <1>2. CASE ServeRefresh(i) /\ UNCHANGED server
      BY <1>1, <1>2 DEF Unended, Opened, TokensOf, Tokens, server
  <1>3. CASE ServeRefresh(i) /\ Rotates(flight[i].cookie)
    <2>1. PICK old \in live : Rotates(old)
        BY <1>3 DEF Rotates
    <2>2. /\ TokensOf(origin[old])' = {Len(origin) + 1}
          /\ \A m \in Logins \ {origin[old]} : TokensOf(m)' = TokensOf(m)
          /\ Opened' = Opened
        BY <1>1, <2>1, RotatesEffect
    <2>3. Opened \subseteq Logins
      <3>1. \A k \in Tokens : k \in Cookies \ {0}
          BY BaseTypes
      <3> QED
          BY <3>1, BaseTypes DEF Opened
    <2> SUFFICES ASSUME NEW l \in Opened', l \notin ended'
                 PROVE  TokensOf(l)' # {}
        BY DEF Unended
    <2>4. CASE l = origin[old]
      <3>1. old \in Tokens /\ l \in Logins
          BY <2>1, <2>3, <2>4, BaseTypes DEF Opened
      <3>2. origin' = Append(origin, l) /\ Len(origin) + 1 \in live'
          BY <2>1, <2>4 DEF Rotates
      <3>3. origin'[Len(origin) + 1] = l
          BY <1>1, <3>1, <3>2, IssueTypes DEF IInv
      <3> QED
          BY <3>2, <3>3 DEF TokensOf
    <2>5. CASE l # origin[old]
      <3>1. l \in Opened /\ l \in Logins \ {origin[old]} /\ l \notin ended
          BY <1>1, <2>2, <2>3, <2>5
      <3>2. TokensOf(l) # {}
          BY <3>1 DEF Unended
      <3> QED
          BY <2>2, <3>1, <3>2
    <2> QED
        BY <2>4, <2>5
  <1>4. CASE ServeLogout(i)
    <2>1. /\ live' = live \ {flight[i].cookie} /\ origin' = origin
          /\ flight[i] # Empty /\ flight[i].kind = "logout"
        BY <1>4 DEF ServeLogout, Served, Revoked
    <2>2. flight[i].cookie \in EndedCookies /\ 0 \notin live
      <3>1. Shaped(flight[i], Len(origin), EndedCookies, DisturbedCookies)
          BY <2>1, BaseTypes
      <3> QED
          BY <2>1, <3>1, BaseTypes DEF Shaped
    <2>3. flight[i].cookie \in live => origin[flight[i].cookie] \in ended
        BY <2>2 DEF EndedCookies
    <2> SUFFICES ASSUME NEW l \in Opened', l \notin ended'
                 PROVE  TokensOf(l)' # {}
        BY DEF Unended
    <2>4. l \in Opened /\ l \notin ended
        BY <1>1, <2>1 DEF Opened, Tokens
    <2>5. PICK k \in live : origin[k] = l
        BY <2>4 DEF Unended, TokensOf
    <2> QED
        BY <2>1, <2>3, <2>4, <2>5 DEF TokensOf
  <1>5. CASE ServeLogin(i)
    <2>1. PICK l \in Nat : Opens(l)
        BY <1>1, <1>5 DEF ServeLogin, Opens, IInv, Dense
    <2>2. l \in Logins /\ live' = live \cup {Len(origin) + 1} /\ origin' = Append(origin, l)
        BY <1>1, <2>1, SessionsAssumption DEF Opens, IInv, Dense, Logins
    <2>3. /\ \A k \in Tokens : origin'[k] = origin[k]
          /\ origin'[Len(origin) + 1] = l
          /\ Opened' = Opened \cup {l}
        BY <1>1, <2>2, IssueTypes DEF IInv
    <2> SUFFICES ASSUME NEW m \in Opened', m \notin ended'
                 PROVE  TokensOf(m)' # {}
        BY DEF Unended
    <2>4. CASE m = l
        BY <2>2, <2>3, <2>4 DEF TokensOf
    <2>5. CASE m # l
      <3>1. PICK k \in live : origin[k] = m
          BY <1>1, <2>3, <2>5 DEF Unended, TokensOf
      <3>2. k \in live' /\ origin'[k] = m
          BY <2>2, <2>3, <3>1, BaseTypes
      <3> QED
          BY <3>2 DEF TokensOf
    <2> QED
        BY <2>4, <2>5
  <1> QED
      BY <1>2, <1>3, <1>4, <1>5
      DEF Serve, ServeRefresh, Known, Rotated, Rotates

(* What the tabs show agrees with what the server accepts.                *)
Shown == Base /\ Agree /\ Unended

LEMMA ShownInit == Init => Shown
  <1> SUFFICES ASSUME Init PROVE Shown
      OBVIOUS
  <1>1. Base
      BY BaseInit
  <1>2. Agree
      BY DEF Init, Agree, Agrees, NoSession, Resumes
  <1>3. Opened = {}
      BY DEF Init, Opened, Tokens
  <1> QED
      BY <1>1, <1>2, <1>3 DEF Shown, Unended

LEMMA ShownStep == Shown /\ [Next]_vars => Shown'
  <1> SUFFICES ASSUME Base, Agree, Unended, [Next]_vars PROVE Shown'
      BY DEF Shown
  <1>1. Base'
      BY BaseStep
  <1>3. ASSUME UNCHANGED server, ended \subseteq ended' PROVE Unended'
      BY <1>3 DEF Unended, Opened, Tokens, TokensOf, server
  <1>2. CASE UNCHANGED vars
    <2>1. PICK o : o = Opened
        OBVIOUS
    <2>2. \A x \in Tabs : Agrees(flight', tab'[x], seen'[x], x, o)
        BY <1>2, <2>1 DEF vars, Agree
    <2>3. UNCHANGED server /\ ended' = ended
        BY <1>2 DEF vars, server
    <2>4. Agree'
        BY <2>1, <2>2, <2>3, AgreeGo
    <2> QED
        BY <1>1, <1>3, <2>3, <2>4 DEF Shown
  <1>4. ASSUME NEW t \in Tabs, TabStep(t) PROVE Shown'
    <2>1. Agree'
        BY <1>4, AgeAgree, SilentRefreshAgree, DataRequestAgree, LogoutAgree,
           LoginAgree, LoadAgree DEF TabStep
    <2>2. UNCHANGED server /\ ended \subseteq ended'
        BY <1>4 DEF TabStep, Age, SilentRefresh, DataRequest, Logout, Login, Load,
                    Leave, observers
    <2> QED
        BY <1>1, <1>3, <2>1, <2>2 DEF Shown
  <1>5. ASSUME NEW i \in Slots, Answer(i) PROVE Shown'
    <2>1. Agree'
        BY <1>5, RefreshOkAgree, RefreshRefusedAgree, RefreshLostAgree, UnheardAgree,
           LoginOkAgree, MeEndsAgree, DataRefusedAgree, RetryEndsAgree DEF Answer
    <2>2. UNCHANGED server /\ ended \subseteq ended'
        BY <1>5 DEF Answer, RefreshOk, RefreshRefused, RefreshLost, LogoutOk,
                    LogoutLost, LoginOk, LoginLost, MeEnds, DataRefused, RetryEnds,
                    ForceLogout, Leave, observers
    <2> QED
        BY <1>1, <1>3, <2>1, <2>2 DEF Shown
  <1>6. ASSUME NEW i \in Slots, Serve(i) PROVE Shown'
      BY <1>1, <1>6, ServeAgree, UnendedServe DEF Shown
  <1> QED
      BY <1>2, <1>4, <1>5, <1>6 DEF Next

LEMMA ShownHolds == Spec => []Shown
  <1> QED
      BY ShownInit, ShownStep, PTL DEF Spec

-----------------------------------------------------------------------------
(* Where an accepted token is.                                             *)

(* The requests about sessions whose answer reaches a tab.                 *)
Auth(f) == {i \in Slots : /\ f[i] # Empty
                          /\ f[i].kind \in AuthKinds
                          /\ f[i].tab # Gone}

(* Two of them overlapped, unless they are refreshes of one tab.           *)
Apart(f) ==
    \A i, j \in Auth(f) :
        \/ i = j
        \/ f[i].kind = "refresh" /\ f[j].kind = "refresh" /\ f[i].tab = f[j].tab
        \/ f[i].mixed /\ f[j].mixed

(* Request i is alone: it carries token k, that is still the cookie c, or  *)
(* its answer does.  Its tab joins it, if it is a refresh.                 *)
Sole(f, u, c, k, i) ==
    /\ Auth(f) = {i}
    /\ f[i].kind = "refresh" => u[f[i].tab].inFlight = i
    /\ \/ c = k /\ f[i].at = "out" /\ f[i].cookie = k /\ f[i].kind # "login"
       \/ f[i].at = "ok" /\ f[i].token = k /\ f[i].kind # "logout"

HeldIn(f, u, c, k) ==
    \/ c = k /\ Auth(f) = {}
    \/ \E i \in Slots : Sole(f, u, c, k, i)

Holds ==
    /\ Apart(flight)
    /\ \A k \in live : origin[k] \notin disturbed => HeldIn(flight, tab, jar, k)

Twin(a, b) ==
    /\ a.kind = b.kind /\ a.tab = b.tab /\ a.cookie = b.cookie
    /\ a.at = b.at /\ a.token = b.token /\ a.mixed = b.mixed

LEMMA FewerApart ==
  ASSUME NEW f, NEW g, Auth(g) \subseteq Auth(f),
         \A i \in Auth(g) : Twin(g[i], f[i]), Apart(f)
  PROVE  Apart(g)
  BY DEF Apart, Twin

LEMMA SameHeld ==
  ASSUME NEW f \in Flights, NEW g, Auth(g) = Auth(f),
         \A i \in Auth(f) : Twin(g[i], f[i]),
         NEW u, NEW w, \A x \in Tabs : w[x].inFlight = u[x].inFlight,
         NEW c, NEW k, HeldIn(f, u, c, k)
  PROVE  HeldIn(g, w, c, k)
  <1>1. CASE c = k /\ Auth(f) = {}
      BY <1>1 DEF HeldIn
  <1>2. ASSUME NEW i \in Slots, Sole(f, u, c, k, i) PROVE HeldIn(g, w, c, k)
    <2>1. i \in Auth(f) /\ Auth(g) = {i} /\ Twin(g[i], f[i])
        BY <1>2 DEF Sole
    <2>2. f[i].tab \in Tabs
        BY <2>1 DEF Auth, Flights, Request
    <2>3. Sole(g, w, c, k, i)
        BY <1>2, <2>1, <2>2 DEF Sole, Twin
    <2> QED
        BY <2>3 DEF HeldIn
  <1> QED
      BY <1>1, <1>2 DEF HeldIn

LEMMA DropAuth ==
  ASSUME NEW f \in Flights, NEW i \in Slots
  PROVE  /\ Auth(Drop(f, i)) = Auth(f) \ {i}
         /\ \A j \in Auth(f) \ {i} : Twin(Drop(f, i)[j], f[j])
  BY DropIs DEF Auth, Twin

LEMMA DropApart ==
  ASSUME NEW f \in Flights, NEW i \in Slots, Apart(f)
  PROVE  Apart(Drop(f, i))
  BY DropAuth, FewerApart

LEMMA OtherHeld ==
  ASSUME NEW f \in Flights, NEW i \in Slots, i \notin Auth(f),
         NEW u, NEW w, \A x \in Tabs : w[x].inFlight = u[x].inFlight,
         NEW c, NEW k, HeldIn(f, u, c, k)
  PROVE  HeldIn(Drop(f, i), w, c, k)
  <1>1. Auth(Drop(f, i)) = Auth(f) /\ \A j \in Auth(f) : Twin(Drop(f, i)[j], f[j])
      BY DropAuth
  <1> QED
      BY <1>1, SameHeld

LEMMA PutAuth ==
  ASSUME NEW f \in Flights, Free(f) # {}, NEW r \in Request, r.kind \notin AuthKinds
  PROVE  /\ Put(f, r) \in Flights
         /\ Auth(Put(f, r)) = Auth(f)
         /\ \A i \in Auth(f) : Twin(Put(f, r)[i], f[i])
  <1>1. PICK g, s : g = Put(f, r) /\ Puts(g, f, s, r)
      BY PutPuts
  <1>2. Auth(g) = Auth(f) /\ \A i \in Auth(f) : g[i] = f[i]
      BY <1>1 DEF Auth, Puts
  <1>3. g \in Flights
      BY <1>1 DEF Puts
  <1> QED
      BY <1>1, <1>2, <1>3 DEF Twin

LEMMA JoinAuth ==
  ASSUME NEW f, NEW i \in Slots, f[i] # Empty,
         NEW g, g[i] # Empty, Twin(g[i], f[i]), \A j \in Slots \ {i} : g[j] = f[j]
  PROVE  Auth(g) = Auth(f) /\ \A j \in Auth(f) : Twin(g[j], f[j])
  BY DEF Auth, Twin

LEMMA AddsAuth ==
  ASSUME NEW f, NEW g, NEW s, NEW r, Adds(g, f, s, r), r.kind \in AuthKinds,
         r.tab # Gone
  PROVE  /\ Auth(g) = Auth(f) \cup {s} /\ s \notin Auth(f)
         /\ Alike(g[s], r)
         /\ \A j \in Auth(f) : /\ Alike(g[j], f[j])
                               /\ f[j].mixed => g[j].mixed
                               /\ j \in Overlapping(f, r) => g[j].mixed /\ g[s].mixed
                               /\ j \notin Overlapping(f, r) =>
                                      /\ f[j].kind = "refresh" /\ r.kind = "refresh"
                                      /\ f[j].tab = r.tab
  <1>1. s \notin Auth(f) /\ s \in Auth(g)
      BY DEF Adds, Auth, Alike
  <1>2. \A j \in Slots \ {s} : j \in Auth(g) <=> j \in Auth(f)
      BY DEF Adds, Auth, Alike
  <1>3. Auth(g) = Auth(f) \cup {s}
      BY <1>1, <1>2 DEF Auth
  <1>4. ASSUME NEW j \in Auth(f)
        PROVE  /\ Alike(g[j], f[j])
               /\ f[j].mixed => g[j].mixed
               /\ j \in Overlapping(f, r) => g[j].mixed /\ g[s].mixed
      BY <1>1 DEF Adds, Auth
  <1>5. ASSUME NEW j \in Auth(f), j \notin Overlapping(f, r)
        PROVE  f[j].kind = "refresh" /\ r.kind = "refresh" /\ f[j].tab = r.tab
      BY <1>5 DEF Overlapping, Auth
  <1> QED
      BY <1>1, <1>3, <1>4, <1>5 DEF Adds

LEMMA AddsApart ==
  ASSUME NEW f, NEW g, NEW s, NEW r, Adds(g, f, s, r), r.kind \in AuthKinds,
         r.tab # Gone, Apart(f)
  PROVE  Apart(g)
  <1>1. ASSUME NEW j \in Auth(f)
        PROVE  \/ g[s].kind = "refresh" /\ g[j].kind = "refresh" /\ g[s].tab = g[j].tab
               \/ g[s].mixed /\ g[j].mixed
      BY AddsAuth DEF Alike
  <1>2. ASSUME NEW i \in Auth(f), NEW j \in Auth(f)
        PROVE  \/ i = j
               \/ g[i].kind = "refresh" /\ g[j].kind = "refresh" /\ g[i].tab = g[j].tab
               \/ g[i].mixed /\ g[j].mixed
      BY AddsAuth DEF Alike, Apart
  <1>3. Auth(g) = Auth(f) \cup {s}
      BY AddsAuth
  <1> QED
      BY <1>1, <1>2, <1>3 DEF Apart

(* A request about sessions leaves: it is alone, or the token's login is   *)
(* one of those that overlapped.                                           *)
LEMMA AddsHeld ==
  ASSUME NEW f \in Flights, NEW u, NEW g, NEW s, NEW r, Adds(g, f, s, r),
         r.kind \in AuthKinds, r.tab # Gone,
         r.kind = "refresh" => u[r.tab].inFlight = None,
         NEW c, NEW k, k # 0, HeldIn(f, u, c, k), origin[k] \notin Mingled(g)
  PROVE  c = k /\ Auth(g) = {s}
  <1>1. ASSUME NEW i \in Slots, Sole(f, u, c, k, i) PROVE FALSE
    <2>1. i \in Auth(f)
        BY <1>1 DEF Sole
    <2>2. CASE i \in Overlapping(f, r)
      <3>1. /\ g[i].mixed /\ g[i].cookie = f[i].cookie /\ g[i].token = f[i].token
            /\ g[i] # Empty
          BY <2>1, <2>2, AddsAuth DEF Alike, Auth
      <3>2. k \in {g[i].cookie, g[i].token} \ {0}
          BY <1>1, <3>1 DEF Sole
      <3>3. origin[k] \in LoginsOf(g[i])
          BY <3>2 DEF LoginsOf
      <3>4. origin[k] \in Mingled(g)
          BY <3>1, <3>3 DEF Mingled
      <3> QED
          BY <3>4
    <2>3. CASE i \notin Overlapping(f, r)
      <3>1. f[i].kind = "refresh" /\ r.kind = "refresh" /\ f[i].tab = r.tab
          BY <2>1, <2>3, AddsAuth
      <3>2. i = None
          BY <1>1, <3>1 DEF Sole
      <3> QED
          BY <3>2, SessionsAssumption DEF None
    <2> QED
        BY <2>2, <2>3
  <1>2. c = k /\ Auth(f) = {}
      BY <1>1 DEF HeldIn
  <1> QED
      BY <1>2, AddsAuth

LEMMA RefreshHeld ==
  ASSUME NEW f, NEW u, NEW n \in Nat, NEW e, NEW d, Struct(f, u, n, e, d),
         jar \in 0 .. n, NEW t \in Tabs, NEW wait \in {"silent", "boot", "retry"},
         Refresh(f, u, t, wait), Apart(f)
  PROVE  /\ Apart(flight')
         /\ \A k \in live : k # 0 /\ HeldIn(f, u, jar, k) /\ origin[k] \notin Mingled(flight')
                => HeldIn(flight', tab', jar, k)
  <1>1. f \in Flights /\ u \in Services /\ wait \in Waiting
      BY DEF Struct, Waiting
  <1>2. PICK g, w : g = flight' /\ w = tab'
      OBVIOUS
  <1>3. CASE u[t].inFlight # None
             /\ flight' = [f EXCEPT ![u[t].inFlight].waits = @ \cup {wait}]
             /\ tab' = u
    <2> DEFINE i == u[t].inFlight
    <2>1. i \in Slots /\ f[i] # Empty /\ f[i].kind = "refresh"
        BY <1>3 DEF Struct, Tracks
    <2>2. g = [f EXCEPT ![i].waits = @ \cup {wait}] /\ w = u
        BY <1>2, <1>3
    <2> HIDE DEF i
    <2>3. Auth(g) = Auth(f) /\ \A j \in Auth(f) : Twin(g[j], f[j])
      <3>1. f[i] \in Request /\ f \in [Slots -> Request \cup {Empty}]
          BY <1>1, <2>1 DEF Flights
      <3>2. g[i] \in Request /\ Twin(g[i], f[i]) /\ \A j \in Slots \ {i} : g[j] = f[j]
          BY <1>1, <2>1, <2>2, <3>1 DEF Request, Twin
      <3>3. g[i] # Empty
          BY <3>2, RequestFields
      <3> QED
          BY <2>1, <3>2, <3>3, JoinAuth
    <2>4. Apart(g)
        BY <2>3, FewerApart
    <2>5. \A k \in live : HeldIn(f, u, jar, k) => HeldIn(g, w, jar, k)
        BY <1>1, <2>2, <2>3, SameHeld
    <2> QED
        BY <1>2, <2>4, <2>5
  <1>4. CASE u[t].inFlight = None /\ Free(f) # {}
             /\ flight' = Send(f, Asks("refresh", t, jar, {wait}, 0))
             /\ tab' = [u EXCEPT ![t].inFlight = FreeSlot(f)]
    <2> DEFINE r == Asks("refresh", t, jar, {wait}, 0)
    <2>1. /\ r \in Request /\ r.kind = "refresh" /\ r.tab = t /\ r.cookie = jar
          /\ r.at = "out"
      <3>1. /\ jar \in Nat /\ "refresh" \in AuthKinds /\ {wait} \in SUBSET Waiting
          BY <1>1 DEF AuthKinds
      <3> QED
          BY <3>1 DEF Asks, Request
    <2>2. g = Send(f, r)
        BY <1>2, <1>4
    <2> HIDE DEF r
    <2>3. PICK s : s = FreeSlot(f) /\ Adds(g, f, s, r)
        BY <1>1, <1>4, <2>1, <2>2, SendAdds
    <2>4. r.kind \in AuthKinds /\ r.tab # Gone
        BY <2>1, SessionsAssumption DEF AuthKinds, Gone
    <2>5. Apart(g)
        BY <2>3, <2>4, AddsApart
    <2>6. w[t].inFlight = s
        BY <1>1, <1>2, <1>4, <2>3 DEF Services, AuthService
    <2>7. ASSUME NEW k \in live, k # 0, HeldIn(f, u, jar, k), origin[k] \notin Mingled(g)
          PROVE  HeldIn(g, w, jar, k)
      <3>1. jar = k /\ Auth(g) = {s}
        <4>1. r.kind = "refresh" => u[r.tab].inFlight = None
            BY <1>4, <2>1
        <4>2. Adds(g, f, s, r)
            BY <2>3
        <4> QED
            BY <1>1, <2>4, <2>7, <4>1, <4>2, AddsHeld
      <3>2. Alike(g[s], r) /\ s \in Slots
          BY <2>3 DEF Adds
      <3>3. Sole(g, w, jar, k, s)
          BY <2>1, <2>6, <3>1, <3>2 DEF Sole, Alike
      <3> QED
          BY <3>2, <3>3 DEF HeldIn
    <2> QED
        BY <1>2, <2>5, <2>7
  <1> QED
      BY <1>3, <1>4 DEF Refresh

LEMMA LeaveHeld ==
  ASSUME NEW f, NEW u, NEW n \in Nat, NEW e, NEW d, Struct(f, u, n, e, d),
         NEW t \in Tabs, NEW cookie \in 0 .. n, cookie \in e, NEW out \in BOOLEAN,
         Leave(f, u, t, cookie, out), Apart(f)
  PROVE  /\ Apart(flight')
         /\ \A k \in live : k # 0 /\ HeldIn(f, u, cookie, k)
                            /\ origin[k] \notin Mingled(flight')
                => HeldIn(flight', tab', cookie, k)
  <1>1. f \in Flights
      BY DEF Struct
  <1>2. PICK g, w : g = flight' /\ w = tab'
      OBVIOUS
  <1>3. PICK r, s :
            /\ r \in Request
            /\ r.kind = "logout" /\ r.tab = t /\ r.cookie = cookie /\ r.at = "out"
            /\ Adds(g, f, s, r)
      BY <1>2, LeaveSends
  <1>4. r.kind \in AuthKinds /\ r.tab # Gone
      BY <1>3, SessionsAssumption DEF AuthKinds, Gone
  <1>5. Apart(g)
      BY <1>3, <1>4, AddsApart
  <1>6. ASSUME NEW k \in live, k # 0, HeldIn(f, u, cookie, k), origin[k] \notin Mingled(g)
        PROVE  HeldIn(g, w, cookie, k)
    <2>1. cookie = k /\ Auth(g) = {s}
      <3>1. r.kind = "refresh" => u[r.tab].inFlight = None
          BY <1>3
      <3>2. Adds(g, f, s, r)
          BY <1>3
      <3> QED
          BY <1>1, <1>4, <1>6, <3>1, <3>2, AddsHeld
    <2>2. Alike(g[s], r) /\ s \in Slots
        BY <1>3 DEF Adds
    <2>3. Sole(g, w, cookie, k, s)
        BY <1>3, <2>1, <2>2 DEF Sole, Alike
    <2> QED
        BY <2>2, <2>3 DEF HeldIn
  <1> QED
      BY <1>2, <1>5, <1>6

LEMMA Alone ==
  ASSUME Holds, NEW i \in Auth(flight), NEW k \in live, origin[k] \notin disturbed
  PROVE  Sole(flight, tab, jar, k, i)
  BY DEF Holds, HeldIn, Sole

LEMMA LiveNumbers ==
  ASSUME Base, NEW k \in live
  PROVE  k # 0 /\ k \in Tokens
  BY BaseTypes

(* A step that leaves the server alone.                                    *)
LEMMA HoldsGo ==
  ASSUME UNCHANGED server, Apart(flight'),
         \A k \in live : origin[k] \notin disturbed' => HeldIn(flight', tab', jar', k)
  PROVE  Holds'
  BY DEF Holds, server

(* A step of a tab that sends nothing about sessions.                      *)
LEMMA HoldsSame ==
  ASSUME Base, Holds, UNCHANGED server, jar' = jar, disturbed \subseteq disturbed',
         Auth(flight') = Auth(flight),
         \A i \in Auth(flight) : Twin(flight'[i], flight[i]),
         \A x \in Tabs : tab'[x].inFlight = tab[x].inFlight
  PROVE  Holds'
  <1>1. PICK g, w : g = flight' /\ w = tab'
      OBVIOUS
  <1>2. Apart(g)
      BY <1>1, FewerApart DEF Holds
  <1>3. \A k \in live : HeldIn(flight, tab, jar, k) => HeldIn(g, w, jar, k)
      BY <1>1, BaseTypes, SameHeld
  <1> QED
      BY <1>1, <1>2, <1>3, HoldsGo DEF Holds

LEMMA AgeHolds ==
  ASSUME Base, Holds, NEW t \in Tabs, Age(t) PROVE Holds'
  <1>1. /\ UNCHANGED server /\ jar' = jar /\ flight' = flight /\ disturbed' = disturbed
        /\ tab' = [tab EXCEPT ![t].token = "old"]
      BY DEF Age, observers
  <1>2. \A x \in Tabs : tab'[x].inFlight = tab[x].inFlight
      BY <1>1, BaseTypes DEF Services, AuthService
  <1> QED
      BY <1>1, <1>2, HoldsSame DEF Twin

LEMMA DataRequestHolds ==
  ASSUME Base, Holds, NEW t \in Tabs, DataRequest(t) PROVE Holds'
  <1> DEFINE r == Asks("api", t, 0, {}, 0)
  <1>1. r \in Request /\ r.kind \notin AuthKinds
      BY DEF Asks, Request, AuthKinds
  <1>2. /\ UNCHANGED server /\ jar' = jar /\ disturbed' = disturbed /\ tab' = tab
        /\ Free(flight) # {} /\ flight' = Put(flight, r)
      BY DEF DataRequest, observers
  <1> HIDE DEF r
  <1>3. Auth(flight') = Auth(flight) /\ \A i \in Auth(flight) : Twin(flight'[i], flight[i])
      BY <1>1, <1>2, BaseTypes, PutAuth
  <1> QED
      BY <1>2, <1>3, HoldsSame

LEMMA SilentRefreshHolds ==
  ASSUME Base, Holds, NEW t \in Tabs, SilentRefresh(t) PROVE Holds'
  <1>1. PICK n, c : n \in Nat /\ jar \in 0 .. n /\ Struct(flight, tab, n, c, c)
      BY Loose
  <1> DEFINE u == [tab EXCEPT ![t].timer = FALSE]
  <1>2. /\ Refresh(flight, u, t, "silent") /\ tab[t].timer
        /\ jar' = jar /\ UNCHANGED server
        /\ disturbed' = disturbed \cup Mingled(flight')
      BY DEF SilentRefresh
  <1>3. /\ u \in Services /\ \A x \in Tabs \ {t} : u[x] = tab[x]
        /\ u[t].inFlight = tab[t].inFlight
      BY BaseTypes DEF Services, AuthService
  <1> HIDE DEF u
  <1>4. Struct(flight, u, n, c, c)
      BY <1>1, <1>2, <1>3, NotBooting, NewTab
  <1>5. /\ Apart(flight')
        /\ \A k \in live : k # 0 /\ HeldIn(flight, u, jar, k)
                           /\ origin[k] \notin Mingled(flight')
               => HeldIn(flight', tab', jar, k)
      BY <1>1, <1>2, <1>4, RefreshHeld DEF Holds
  <1>6. \A x \in Tabs : u[x].inFlight = tab[x].inFlight
      BY <1>3
  <1>7. \A i \in Auth(flight) : Twin(flight[i], flight[i])
      BY DEF Twin
  <1>8. \A k \in live : HeldIn(flight, tab, jar, k) => HeldIn(flight, u, jar, k)
      BY <1>6, <1>7, BaseTypes, SameHeld
  <1>9. \A k \in live : origin[k] \notin disturbed' => HeldIn(flight', tab', jar', k)
      BY <1>2, <1>5, <1>8, LiveNumbers DEF Holds
  <1> QED
      BY <1>2, <1>5, <1>9, HoldsGo

LEMMA LogoutHolds ==
  ASSUME Base, Holds, NEW t \in Tabs, Logout(t) PROVE Holds'
  <1>1. PICK n, c : n \in Nat /\ c = 0 .. n /\ jar \in c /\ Struct(flight, tab, n, c, c)
      BY Loose
  <1>2. /\ Leave(flight, tab, t, jar, FALSE) /\ jar' = jar /\ UNCHANGED server
        /\ disturbed' = disturbed \cup Mingled(flight')
      BY DEF Logout
  <1>3. /\ Apart(flight')
        /\ \A k \in live : k # 0 /\ HeldIn(flight, tab, jar, k)
                           /\ origin[k] \notin Mingled(flight')
               => HeldIn(flight', tab', jar, k)
      BY <1>1, <1>2, LeaveHeld DEF Holds
  <1>4. \A k \in live : origin[k] \notin disturbed' => HeldIn(flight', tab', jar', k)
      BY <1>2, <1>3, LiveNumbers DEF Holds
  <1> QED
      BY <1>2, <1>3, <1>4, HoldsGo

LEMMA LoginHolds ==
  ASSUME Base, Holds, NEW t \in Tabs, Login(t) PROVE Holds'
  <1> DEFINE r == Asks("login", t, jar, {"login"}, 0)
  <1>1. /\ r \in Request /\ r.kind = "login" /\ r.tab = t
        /\ r.kind \in AuthKinds /\ r.tab # Gone
    <2>1. jar \in Nat
        BY BaseTypes
    <2>2. r \in Request /\ r.kind = "login" /\ r.tab = t
        BY <2>1 DEF Asks, Request, AuthKinds, Waiting
    <2> HIDE DEF r
    <2> QED
        BY <2>2, SessionsAssumption DEF AuthKinds, Gone
  <1>2. /\ Free(flight) # {} /\ flight' = Send(flight, r)
        /\ disturbed' = disturbed \cup Mingled(flight') \cup
                            {origin[k] : k \in {jar} \ {0}}
        /\ UNCHANGED server
      BY DEF Login
  <1> HIDE DEF r
  <1>3. PICK g, s : g = flight' /\ Adds(g, flight, s, r)
      BY <1>1, <1>2, BaseTypes, SendAdds
  <1>4. Apart(g)
      BY <1>1, <1>3, AddsApart DEF Holds
  <1>5. ASSUME NEW k \in live, origin[k] \notin disturbed' PROVE FALSE
    <2>1. k # 0 /\ HeldIn(flight, tab, jar, k) /\ origin[k] \notin Mingled(g) /\ k # jar
        BY <1>2, <1>3, <1>5, LiveNumbers DEF Holds
    <2>2. r.kind = "refresh" => tab[r.tab].inFlight = None
        BY <1>1
    <2>3. Adds(g, flight, s, r) /\ flight \in Flights
        BY <1>3, BaseTypes
    <2>4. jar = k
        BY <1>1, <2>1, <2>2, <2>3, AddsHeld
    <2> QED
        BY <2>1, <2>4
  <1> QED
      BY <1>2, <1>3, <1>4, <1>5, HoldsGo

LEMMA LoadHolds ==
  ASSUME Base, Holds, NEW t \in Tabs, Load(t) PROVE Holds'
  <1>1. PICK n, c :
             /\ n \in Nat /\ c = 0 .. n /\ Cookies = c /\ jar \in c
             /\ Struct(flight, tab, n, c, c)
      BY Loose
  <1> DEFINE u == [tab EXCEPT ![t] = NoSession]
             f == Rest(t)
  <1>2. /\ Refresh(f, u, t, "boot") /\ UNCHANGED server /\ jar' = jar
        /\ disturbed' = disturbed \cup Mingled(flight') \cup
                            UNION {LoginsOf(flight[i]) : i \in Cut(t)}
      BY LoadSteps DEF Load
  <1>3. \A i \in Cut(t) : flight[i].cookie \in c
      BY <1>1, BaseTypes DEF Cut
  <1>4. Struct(f, u, n, c, c)
      BY <1>1, <1>3, RestStruct
  <1>5. \A x \in Tabs \ {t} : u[x] = tab[x]
      BY BaseTypes DEF Services
  <1>6. Auth(f) = Auth(flight) \ Cut(t) /\ \A i \in Auth(f) : f[i] = flight[i]
    <2>1. ASSUME NEW i \in Slots
          PROVE  /\ i \in Auth(f) <=> i \in Auth(flight) \ Cut(t)
                 /\ i \in Auth(f) => f[i] = flight[i]
      <3>1. CASE flight[i] = Empty \/ flight[i].tab # t
          BY <3>1 DEF Rest, Auth, Cut
      <3>2. CASE flight[i] # Empty /\ flight[i].tab = t
        <4>1. f[i] = [flight[i] EXCEPT !.tab = Gone] \/ f[i] = Empty
            BY <3>2 DEF Rest
        <4>2. flight[i] \in Request
            BY <3>2, BaseTypes
        <4>3. f[i] # Empty => f[i].tab = Gone
            BY <4>1, <4>2 DEF Request
        <4> QED
            BY <3>2, <4>3 DEF Auth, Cut
      <3> QED
          BY <3>1, <3>2
    <2> HIDE DEF f
    <2> QED
        BY <2>1 DEF Auth
  <1> HIDE DEF f, u
  <1>7. Apart(f)
      BY <1>6, FewerApart DEF Holds, Twin
  <1>8. ASSUME NEW k \in live, origin[k] \notin disturbed'
        PROVE  HeldIn(f, u, jar, k)
    <2>1. HeldIn(flight, tab, jar, k)
        BY <1>2, <1>8 DEF Holds
    <2>2. CASE jar = k /\ Auth(flight) = {}
        BY <1>6, <2>2 DEF HeldIn
    <2>3. ASSUME NEW i \in Slots, Sole(flight, tab, jar, k, i)
          PROVE  HeldIn(f, u, jar, k)
      <3>1. CASE i \in Cut(t)
        <4>1. k \in {flight[i].cookie, flight[i].token} \ {0}
            BY <1>8, <2>3, LiveNumbers DEF Sole
        <4>2. origin[k] \in LoginsOf(flight[i])
            BY <4>1 DEF LoginsOf
        <4> QED
            BY <1>2, <1>8, <3>1, <4>2
      <3>2. CASE i \notin Cut(t)
        <4>1. i \in Auth(flight) /\ flight[i].tab \in Tabs \ {t}
            BY <2>3, <3>2, BaseTypes DEF Sole, Auth, Cut, Request
        <4>2. Auth(f) = {i} /\ f[i] = flight[i]
            BY <1>6, <2>3, <3>2 DEF Sole
        <4>3. Sole(f, u, jar, k, i)
            BY <1>5, <2>3, <4>1, <4>2 DEF Sole
        <4> QED
            BY <4>3 DEF HeldIn
      <3> QED
          BY <3>1, <3>2
    <2> QED
        BY <2>1, <2>2, <2>3 DEF HeldIn
  <1>9. /\ Apart(flight')
        /\ \A k \in live : k # 0 /\ HeldIn(f, u, jar, k)
                           /\ origin[k] \notin Mingled(flight')
               => HeldIn(flight', tab', jar, k)
      BY <1>1, <1>2, <1>4, <1>7, RefreshHeld
  <1>10. \A k \in live : origin[k] \notin disturbed' => HeldIn(flight', tab', jar', k)
      BY <1>2, <1>8, <1>9, LiveNumbers
  <1> QED
      BY <1>2, <1>9, <1>10, HoldsGo

-----------------------------------------------------------------------------
(* The endpoints, and where the accepted tokens are.                       *)

(* A request whose page is gone is served, and nothing else changes.       *)
LEMMA GoneHeld ==
  ASSUME Base, Holds, NEW i \in Slots, flight[i] # Empty, flight[i].tab = Gone
  PROVE  /\ Apart(Drop(flight, i))
         /\ \A k : HeldIn(flight, tab, jar, k) => HeldIn(Drop(flight, i), tab, jar, k)
         /\ flight[i].cookie \in live => origin[flight[i].cookie] \in disturbed
  <1>1. i \notin Auth(flight) /\ flight \in Flights
      BY BaseTypes DEF Auth
  <1>2. Apart(Drop(flight, i))
      BY <1>1, DropApart DEF Holds
  <1>3. \A k : HeldIn(flight, tab, jar, k) => HeldIn(Drop(flight, i), tab, jar, k)
      BY <1>1, OtherHeld
  <1>4. flight[i].cookie \in DisturbedCookies
    <2>1. Shaped(flight[i], Len(origin), EndedCookies, DisturbedCookies)
        BY BaseTypes
    <2> QED
        BY <2>1 DEF Shaped
  <1>5. flight[i].cookie \in live => origin[flight[i].cookie] \in disturbed
      BY <1>4, LiveNumbers DEF DisturbedCookies
  <1> QED
      BY <1>2, <1>3, <1>5

(* A request that a page waits for is served.                              *)
LEMMA AnsweredAuth ==
  ASSUME Base, Holds, NEW i \in Auth(flight), NEW at \in {"ok", "refused"},
         NEW token \in Nat, Answered(i, at, token)
  PROVE  /\ Auth(flight') = Auth(flight)
         /\ Apart(flight')
         /\ flight'[i].at = at /\ flight'[i].token = token
         /\ flight'[i].kind = flight[i].kind /\ flight'[i].tab = flight[i].tab
  <1>1. /\ flight[i] # Empty /\ flight[i].tab # Gone /\ flight[i] \in Request
        /\ i \in Slots /\ flight \in [Slots -> Request \cup {Empty}]
      BY BaseTypes DEF Auth, Flights
  <1>2. flight' = [flight EXCEPT ![i].at = at, ![i].token = token]
      BY <1>1 DEF Answered
  <1>3. /\ flight'[i] \in Request
        /\ flight'[i].at = at /\ flight'[i].token = token
        /\ flight'[i].kind = flight[i].kind /\ flight'[i].tab = flight[i].tab
        /\ flight'[i].mixed = flight[i].mixed
        /\ \A j \in Slots \ {i} : flight'[j] = flight[j]
    <2>1. at \in {"out", "ok", "refused"}
        OBVIOUS
    <2> QED
        BY <1>1, <1>2, <2>1 DEF Request
  <1>4. flight'[i] # Empty
      BY <1>3, RequestFields
  <1>5. PICK g : g = flight'
      OBVIOUS
  <1>6. Auth(g) = Auth(flight)
      BY <1>1, <1>3, <1>4, <1>5 DEF Auth
  <1>7. \A j \in Auth(flight) : /\ g[j].kind = flight[j].kind
                                /\ g[j].tab = flight[j].tab
                                /\ g[j].mixed = flight[j].mixed
      BY <1>3, <1>5 DEF Auth
  <1>8. Apart(g)
      BY <1>6, <1>7 DEF Apart, Holds
  <1> QED
      BY <1>3, <1>5, <1>6, <1>8

(* Its token is the only one that is accepted, of the logins that nothing  *)
(* disturbed.                                                              *)
LEMMA ServedAlone ==
  ASSUME Base, Holds, NEW i \in Auth(flight), flight[i].at = "out",
         NEW k \in live, origin[k] \notin disturbed
  PROVE  /\ Auth(flight) = {i} /\ flight[i].cookie = k /\ flight[i].kind # "login"
         /\ flight[i].kind = "refresh" => tab[flight[i].tab].inFlight = i
  BY Alone DEF Sole

LEMMA ServeRefreshHolds ==
  ASSUME Base, Holds, NEW i \in Slots, ServeRefresh(i) PROVE Holds'
  <1>1. /\ flight[i] # Empty /\ flight[i].kind = "refresh" /\ flight[i].at = "out"
        /\ jar' = jar /\ tab' = tab /\ disturbed' = disturbed
      BY DEF ServeRefresh, Served, observers
  <1>2. PICK g, w : g = flight' /\ w = tab'
      OBVIOUS
  <1>3. CASE Rotates(flight[i].cookie) /\ Answered(i, "ok", Len(origin) + 1)
    <2> DEFINE old == flight[i].cookie
               new == Len(origin) + 1
    <2>1. PICK l \in Logins : l = origin[old] /\ old \in live
        BY <1>3, LiveNumbers, BaseTypes DEF Rotates
    <2>2. live' = (live \ {old}) \cup {new} /\ origin' = Append(origin, l)
        BY <1>3, <2>1 DEF Rotates
    <2>3. /\ \A k \in Tokens : origin'[k] = origin[k]
          /\ origin'[new] = l /\ new \in Nat
      <3>1. Typed /\ Len(origin) \in Nat
          BY BaseTypes DEF Base, IInv
      <3>2. origin' = Append(origin, l)
          BY <2>2
      <3>3. /\ \A k \in Tokens : origin'[k] = origin[k]
            /\ origin'[Len(origin) + 1] = l
          BY <3>1, <3>2, IssueTypes
      <3> QED
          BY <3>1, <3>3
    <2> SUFFICES /\ Apart(g)
                 /\ \A k \in live' : origin'[k] \notin disturbed
                        => HeldIn(g, tab, jar, k)
        BY <1>1, <1>2 DEF Holds
    <2>4. \A k \in live' : k = new \/ (k \in live \ {old} /\ origin'[k] = origin[k])
        BY <2>2, <2>3, LiveNumbers
    <2>5. CASE flight[i].tab = Gone
      <3>1. g = Drop(flight, i)
          BY <1>2, <1>3, <2>5 DEF Answered
      <3>2. l \in disturbed
          BY <1>1, <2>1, <2>5, GoneHeld
      <3> QED
          BY <1>1, <2>3, <2>4, <2>5, <3>1, <3>2, GoneHeld DEF Holds
    <2>6. CASE flight[i].tab # Gone
      <3>1. i \in Auth(flight)
          BY <1>1, <2>6 DEF Auth, AuthKinds
      <3>2. /\ Auth(g) = Auth(flight) /\ Apart(g)
            /\ g[i].at = "ok" /\ g[i].token = new
            /\ g[i].kind = flight[i].kind /\ g[i].tab = flight[i].tab
          BY <1>2, <1>3, <2>3, <3>1, AnsweredAuth
      <3>3. ASSUME NEW k \in live', origin'[k] \notin disturbed
            PROVE  HeldIn(g, tab, jar, k)
        <4>1. CASE k = new
          <5>1. Auth(flight) = {i} /\ tab[flight[i].tab].inFlight = i
              BY <1>1, <2>1, <2>3, <3>1, <3>3, <4>1, ServedAlone
          <5>2. Sole(g, tab, jar, k, i)
              BY <1>1, <3>2, <4>1, <5>1 DEF Sole
          <5> QED
              BY <5>2 DEF HeldIn
        <4>2. CASE k # new
          <5>1. k \in live \ {old} /\ origin[k] \notin disturbed
              BY <2>4, <3>3, <4>2
          <5>2. k = old
              BY <1>1, <3>1, <5>1, ServedAlone
          <5> QED
              BY <5>1, <5>2
        <4> QED
            BY <4>1, <4>2
      <3> QED
          BY <3>2, <3>3
    <2> QED
        BY <2>5, <2>6
  <1>4. CASE flight[i].cookie \notin live /\ Answered(i, "refused", 0) /\ UNCHANGED server
    <2>1. CASE flight[i].tab = Gone
      <3>1. flight' = Drop(flight, i)
          BY <1>4, <2>1 DEF Answered
      <3> QED
          BY <1>1, <1>4, <2>1, <3>1, GoneHeld, HoldsGo DEF Holds
    <2>2. CASE flight[i].tab # Gone
      <3>1. i \in Auth(flight)
          BY <1>1, <2>2 DEF Auth, AuthKinds
      <3>2. Apart(flight')
          BY <1>4, <3>1, AnsweredAuth
      <3>3. \A k \in live : origin[k] \in disturbed
          BY <1>1, <1>4, <3>1, ServedAlone
      <3> QED
          BY <1>1, <1>4, <3>2, <3>3, HoldsGo
    <2> QED
        BY <2>1, <2>2
  <1> QED
      BY <1>3, <1>4 DEF ServeRefresh, Known, Rotated, Rotates

LEMMA ServeLogoutHolds ==
  ASSUME Base, Holds, NEW i \in Slots, ServeLogout(i) PROVE Holds'
  <1>1. /\ flight[i] # Empty /\ flight[i].kind = "logout" /\ flight[i].at = "out"
        /\ jar' = jar /\ tab' = tab /\ disturbed' = disturbed
        /\ live' = live \ {flight[i].cookie} /\ origin' = origin
        /\ Answered(i, "ok", 0)
      BY DEF ServeLogout, Served, Revoked, observers
  <1>2. PICK g, w : g = flight' /\ w = tab'
      OBVIOUS
  <1>3. /\ Apart(g)
        /\ \A k \in live' : origin[k] \notin disturbed => HeldIn(g, tab, jar, k)
    <2>1. CASE flight[i].tab = Gone
      <3>1. g = Drop(flight, i)
          BY <1>1, <1>2, <2>1 DEF Answered
      <3> QED
          BY <1>1, <2>1, <3>1, GoneHeld DEF Holds
    <2>2. CASE flight[i].tab # Gone
      <3>1. i \in Auth(flight)
          BY <1>1, <2>2 DEF Auth, AuthKinds
      <3>2. Apart(g)
          BY <1>1, <1>2, <3>1, AnsweredAuth
      <3>3. \A k \in live' : origin[k] \in disturbed
          BY <1>1, <3>1, ServedAlone
      <3> QED
          BY <3>2, <3>3
    <2> QED
        BY <2>1, <2>2
  <1> QED
      BY <1>1, <1>2, <1>3 DEF Holds

LEMMA ServeLoginHolds ==
  ASSUME Base, Holds, NEW i \in Slots, ServeLogin(i) PROVE Holds'
  <1> DEFINE new == Len(origin) + 1
  <1>1. PICK l : l = Cardinality(Opened) + 1
      OBVIOUS
  <1>2. /\ flight[i] # Empty /\ flight[i].kind = "login" /\ flight[i].at = "out"
        /\ jar' = jar /\ tab' = tab
        /\ live' = live \cup {new} /\ origin' = Append(origin, l)
        /\ Answered(i, "ok", new) /\ l <= MaxLogins
        /\ disturbed' = IF flight[i].mixed \/ flight[i].tab = Gone
                        THEN disturbed \cup {l} ELSE disturbed
      BY <1>1 DEF ServeLogin, Served
  <1>3. l \in Logins
      BY <1>1, <1>2, SessionsAssumption DEF Base, IInv, Dense, Logins
  <1>4. /\ \A k \in Tokens : origin'[k] = origin[k]
        /\ origin'[new] = l /\ new \in Nat
    <2>1. Typed /\ Len(origin) \in Nat
        BY BaseTypes DEF Base, IInv
    <2>2. origin' = Append(origin, l)
        BY <1>2
    <2>3. /\ \A k \in Tokens : origin'[k] = origin[k]
          /\ origin'[Len(origin) + 1] = l
        BY <1>3, <2>1, <2>2, IssueTypes
    <2> QED
        BY <2>1, <2>3
  <1>5. PICK g, w : g = flight' /\ w = tab'
      OBVIOUS
  <1>6. \A k \in live' : k = new \/ (k \in live /\ origin'[k] = origin[k])
      BY <1>2, <1>4, LiveNumbers
  <1>7. /\ Apart(g)
        /\ \A k \in live' : origin'[k] \notin disturbed' => HeldIn(g, tab, jar, k)
    <2>1. CASE flight[i].tab = Gone
      <3>1. g = Drop(flight, i)
          BY <1>2, <1>5, <2>1 DEF Answered
      <3>2. disturbed' = disturbed \cup {l}
          BY <1>2, <2>1
      <3> QED
          BY <1>2, <1>4, <1>6, <2>1, <3>1, <3>2, GoneHeld DEF Holds
    <2>2. CASE flight[i].tab # Gone
      <3>1. i \in Auth(flight)
          BY <1>2, <2>2 DEF Auth, AuthKinds
      <3>2. /\ Auth(g) = Auth(flight) /\ Apart(g)
            /\ g[i].at = "ok" /\ g[i].token = new
            /\ g[i].kind = flight[i].kind /\ g[i].tab = flight[i].tab
          BY <1>2, <1>4, <1>5, <3>1, AnsweredAuth
      <3>3. ASSUME NEW k \in live', origin'[k] \notin disturbed'
            PROVE  HeldIn(g, tab, jar, k)
        <4>1. CASE k = new
          <5>1. ~ flight[i].mixed
              BY <1>2, <1>4, <3>3, <4>1
          <5>2. Auth(flight) = {i}
              BY <1>2, <3>1, <5>1 DEF Holds, Apart
          <5>3. Sole(g, tab, jar, k, i)
              BY <1>2, <3>2, <4>1, <5>2 DEF Sole
          <5> QED
              BY <3>1, <5>3 DEF HeldIn
        <4>2. CASE k # new
          <5>1. k \in live /\ origin[k] \notin disturbed
              BY <1>2, <1>6, <3>3, <4>2
          <5> QED
              BY <1>2, <3>1, <5>1, ServedAlone
        <4> QED
            BY <4>1, <4>2
      <3> QED
          BY <3>2, <3>3
    <2> QED
        BY <2>1, <2>2
  <1> QED
      BY <1>2, <1>5, <1>7 DEF Holds

-----------------------------------------------------------------------------
(* The answers, and where the accepted tokens are.                         *)

LEMMA UnheardHolds ==
  ASSUME Base, Holds, NEW i \in Slots, LogoutOk(i) \/ LogoutLost(i) \/ LoginLost(i)
  PROVE  Holds'
  <1>1. /\ flight[i] # Empty /\ flight' = Drop(flight, i) /\ tab' = tab
        /\ UNCHANGED server /\ disturbed \subseteq disturbed'
      BY DEF LogoutOk, LogoutLost, LoginLost, Arrives, observers
  <1>2. Shaped(flight[i], Len(origin), EndedCookies, DisturbedCookies)
      BY <1>1, BaseTypes
  <1>3. i \in Auth(flight)
      BY <1>1, <1>2 DEF LogoutOk, LogoutLost, LoginLost, Arrives, Auth, AuthKinds, Shaped
  <1>4. Apart(flight') /\ Auth(flight') = Auth(flight) \ {i}
      BY <1>1, BaseTypes, DropApart, DropAuth DEF Holds
  <1>5. ASSUME NEW k \in live, origin[k] \notin disturbed'
        PROVE  HeldIn(flight', tab', jar', k)
    <2>1. Sole(flight, tab, jar, k, i) /\ k # 0
        BY <1>1, <1>3, <1>5, Alone, LiveNumbers
    <2>2. CASE LogoutOk(i)
        BY <2>1, <2>2 DEF LogoutOk, Arrives, Sole
    <2>3. CASE LogoutLost(i)
      <3>1. jar' = k /\ Auth(flight') = {}
          BY <1>4, <2>1, <2>3 DEF LogoutLost, Sole
      <3> QED
          BY <3>1 DEF HeldIn
    <2>4. CASE LoginLost(i)
      <3>1. k \in {flight[i].cookie, flight[i].token} \ {0}
          BY <2>1 DEF Sole
      <3>2. origin[k] \in LoginsOf(flight[i])
          BY <3>1 DEF LoginsOf
      <3> QED
          BY <1>5, <2>4, <3>2 DEF LoginLost
    <2> QED
        BY <2>2, <2>3, <2>4
  <1> QED
      BY <1>1, <1>4, <1>5, HoldsGo

LEMMA MeEndsHolds ==
  ASSUME Base, Holds, NEW i \in Slots, MeEnds(i) PROVE Holds'
  <1> DEFINE t == flight[i].tab
  <1>1. /\ flight[i] # Empty /\ flight[i].kind = "me" /\ flight' = Drop(flight, i)
        /\ jar' = jar /\ UNCHANGED server /\ disturbed' = disturbed
        /\ \/ tab' = [tab EXCEPT ![t].token = "good", ![t].out = FALSE,
                                 ![t].timer = TRUE]
           \/ tab' = [tab EXCEPT ![t].timer = TRUE]
      BY DEF MeEnds, Kept
  <1>2. i \notin Auth(flight)
      BY <1>1 DEF Auth, AuthKinds
  <1>3. /\ Auth(flight') = Auth(flight)
        /\ \A j \in Auth(flight) : Twin(flight'[j], flight[j])
    <2>1. flight' = Drop(flight, i) /\ flight \in Flights
        BY <1>1, BaseTypes
    <2>2. /\ Auth(Drop(flight, i)) = Auth(flight) \ {i}
          /\ \A j \in Auth(flight) \ {i} : Twin(Drop(flight, i)[j], flight[j])
        BY <2>1, DropAuth
    <2> QED
        BY <1>2, <2>1, <2>2
  <1>4. \A x \in Tabs : tab'[x].inFlight = tab[x].inFlight
    <2> HIDE DEF t
    <2>1. CASE tab' = [tab EXCEPT ![t].token = "good", ![t].out = FALSE,
                                  ![t].timer = TRUE]
        BY <2>1, BaseTypes DEF Services, AuthService
    <2>2. CASE tab' = [tab EXCEPT ![t].timer = TRUE]
        BY <2>2, BaseTypes DEF Services, AuthService
    <2> QED
        BY <1>1, <2>1, <2>2
  <1> QED
      BY <1>1, <1>3, <1>4, HoldsSame

LEMMA DataRefusedHolds ==
  ASSUME Base, Holds, NEW i \in Slots, DataRefused(i) PROVE Holds'
  <1>1. PICK n, c : n \in Nat /\ jar \in 0 .. n /\ Struct(flight, tab, n, c, c)
      BY Loose
  <1> DEFINE f == Drop(flight, i)
             t == flight[i].tab
  <1>2. /\ flight[i] # Empty /\ flight[i].kind = "api"
        /\ Refresh(f, tab, t, "retry")
        /\ jar' = jar /\ UNCHANGED server
        /\ disturbed' = disturbed \cup Mingled(flight')
      BY DEF DataRefused
  <1>3. t \in Tabs /\ Struct(f, tab, n, c, c)
      BY <1>1, <1>2, Sender, OtherStruct DEF AuthKinds
  <1>4. i \notin Auth(flight)
      BY <1>2 DEF Auth, AuthKinds
  <1>5. Apart(f) /\ \A k \in live : HeldIn(flight, tab, jar, k) => HeldIn(f, tab, jar, k)
      BY <1>4, BaseTypes, DropApart, OtherHeld DEF Holds
  <1> HIDE DEF f, t
  <1>6. /\ Apart(flight')
        /\ \A k \in live : k # 0 /\ HeldIn(f, tab, jar, k)
                           /\ origin[k] \notin Mingled(flight')
               => HeldIn(flight', tab', jar, k)
      BY <1>1, <1>2, <1>3, <1>5, RefreshHeld
  <1>7. \A k \in live : origin[k] \notin disturbed' => HeldIn(flight', tab', jar', k)
      BY <1>2, <1>5, <1>6, LiveNumbers DEF Holds
  <1> QED
      BY <1>2, <1>6, <1>7, HoldsGo

LEMMA RetryEndsHolds ==
  ASSUME Base, Holds, NEW i \in Slots, RetryEnds(i) PROVE Holds'
  <1>1. PICK n, c : n \in Nat /\ c = 0 .. n /\ jar \in c /\ Struct(flight, tab, n, c, c)
      BY Loose
  <1> DEFINE f == Drop(flight, i)
             t == flight[i].tab
  <1>2. /\ flight[i] # Empty /\ flight[i].kind = "retry"
        /\ \/ flight' = f /\ tab' = tab
           \/ ForceLogout(f, tab, t, jar)
        /\ jar' = jar /\ UNCHANGED server
        /\ disturbed' = disturbed \cup Mingled(flight')
      BY DEF RetryEnds
  <1>3. t \in Tabs /\ Struct(f, tab, n, c, c)
      BY <1>1, <1>2, Sender, OtherStruct DEF AuthKinds
  <1>4. i \notin Auth(flight)
      BY <1>2 DEF Auth, AuthKinds
  <1>5. Apart(f) /\ \A k \in live : HeldIn(flight, tab, jar, k) => HeldIn(f, tab, jar, k)
      BY <1>4, BaseTypes, DropApart, OtherHeld DEF Holds
  <1> HIDE DEF f, t
  <1>6. /\ Apart(flight')
        /\ \A k \in live : k # 0 /\ HeldIn(f, tab, jar, k)
                           /\ origin[k] \notin Mingled(flight')
               => HeldIn(flight', tab', jar, k)
    <2>1. CASE flight' = f /\ tab' = tab
        BY <1>5, <2>1
    <2>2. CASE Leave(f, tab, t, jar, TRUE)
        BY <1>1, <1>3, <1>5, <2>2, LeaveHeld
    <2> QED
        BY <1>2, <2>1, <2>2 DEF ForceLogout
  <1>7. \A k \in live : origin[k] \notin disturbed' => HeldIn(flight', tab', jar', k)
      BY <1>2, <1>5, <1>6, LiveNumbers DEF Holds
  <1> QED
      BY <1>2, <1>6, <1>7, HoldsGo

(* A refresh that failed: whichever token is accepted was disturbed.       *)
LEMMA RefreshFailsHolds ==
  ASSUME Base, Holds, NEW i \in Slots, RefreshRefused(i) \/ RefreshLost(i)
  PROVE  Holds'
  <1>1. PICK n, c : n \in Nat /\ c = 0 .. n /\ jar \in c /\ Struct(flight, tab, n, c, c)
      BY Loose
  <1> DEFINE f == Drop(flight, i)
             t == flight[i].tab
             u == [tab EXCEPT ![t].inFlight = None]
  <1>2. /\ flight[i] # Empty /\ flight[i].kind = "refresh"
        /\ \/ flight' = f
           \/ \E cookie \in {0, jar} : ForceLogout(f, u, t, cookie)
        /\ UNCHANGED server
      BY DEF RefreshRefused, RefreshLost, Arrives
  <1>3. Shaped(flight[i], Len(origin), EndedCookies, DisturbedCookies)
      BY <1>2, BaseTypes
  <1>4. i \in Auth(flight) /\ t \in Tabs
      BY <1>1, <1>2, <1>3, Sender
      DEF RefreshRefused, RefreshLost, Arrives, Auth, AuthKinds, Shaped
  <1>5. Apart(f)
      BY BaseTypes, DropApart DEF Holds
  <1>6. Struct(f, u, n, c, c)
      BY <1>1, <1>2, <1>4, EndStruct
  <1>7. Apart(flight')
    <2>1. ASSUME NEW cookie \in {0, jar}, ForceLogout(f, u, t, cookie)
          PROVE  Apart(flight')
      <3>1. cookie \in 0 .. n /\ cookie \in c
          BY <1>1
      <3> HIDE DEF f, t, u
      <3>2. CASE Leave(f, u, t, cookie, TRUE)
          BY <1>1, <1>4, <1>5, <1>6, <3>1, <3>2, LeaveHeld
      <3>3. CASE flight' = f
          BY <1>5, <3>3
      <3> QED
          BY <2>1, <3>2, <3>3 DEF ForceLogout
    <2> QED
        BY <1>2, <1>5, <2>1
  <1>8. ASSUME NEW k \in live, origin[k] \notin disturbed' PROVE FALSE
    <2>1. origin[k] \notin disturbed
        BY <1>8 DEF RefreshRefused, RefreshLost
    <2>2. Sole(flight, tab, jar, k, i) /\ k # 0
        BY <1>4, <2>1, Alone, LiveNumbers
    <2>3. CASE RefreshRefused(i)
        BY <2>2, <2>3 DEF RefreshRefused, Arrives, Sole
    <2>4. CASE RefreshLost(i)
      <3>1. k \in {flight[i].cookie, flight[i].token} \ {0}
          BY <2>2 DEF Sole
      <3>2. origin[k] \in LoginsOf(flight[i])
          BY <3>1 DEF LoginsOf
      <3> QED
          BY <1>8, <2>4, <3>2 DEF RefreshLost
    <2> QED
        BY <2>3, <2>4
  <1> QED
      BY <1>2, <1>7, <1>8, HoldsGo

(* The answer of a refresh or a login: its token becomes the cookie.       *)
LEMMA TakenHolds ==
  ASSUME Base, Holds, NEW i \in Slots, flight[i] # Empty,
         flight[i].kind \in {"refresh", "login"}, flight[i].at = "ok",
         NEW f, f = Drop(flight, i), Auth(flight') = Auth(f),
         \A j \in Auth(f) : Twin(flight'[j], f[j]),
         jar' = flight[i].token, disturbed' = disturbed, UNCHANGED server
  PROVE  Holds'
  <1>1. PICK g, w : g = flight' /\ w = tab'
      OBVIOUS
  <1>2. Shaped(flight[i], Len(origin), EndedCookies, DisturbedCookies)
      BY BaseTypes
  <1>3. i \in Auth(flight)
      BY <1>2 DEF Auth, AuthKinds, Shaped
  <1>4. Apart(f) /\ Auth(f) = Auth(flight) \ {i}
      BY BaseTypes, DropApart, DropAuth DEF Holds
  <1>5. Apart(g)
      BY <1>1, <1>4, FewerApart
  <1>6. ASSUME NEW k \in live, origin[k] \notin disturbed
        PROVE  flight[i].token = k /\ Auth(g) = {}
    <2>1. Sole(flight, tab, jar, k, i)
        BY <1>3, <1>6, Alone
    <2> QED
        BY <1>1, <1>4, <2>1 DEF Sole
  <1>7. \A k \in live : origin[k] \notin disturbed' => HeldIn(g, w, jar', k)
      BY <1>6 DEF HeldIn
  <1> QED
      BY <1>1, <1>5, <1>7, HoldsGo

LEMMA LoginOkHolds ==
  ASSUME Base, Holds, NEW i \in Slots, LoginOk(i) PROVE Holds'
  <1> DEFINE r == flight[i]
             t == r.tab
             me == Asks("me", t, 0, {"login"}, r.token)
  <1>1. /\ r # Empty /\ r.kind = "login" /\ r.at = "ok" /\ jar' = r.token
        /\ flight' = Put(Drop(flight, i), me)
        /\ disturbed' = disturbed /\ UNCHANGED server
      BY DEF LoginOk, Arrives
  <1>2. r.tab \in Tabs \cup {Gone} /\ r.token \in Nat
      BY <1>1, BaseTypes DEF Request
  <1>3. me \in Request /\ me.kind \notin AuthKinds
    <2>1. {"login"} \in SUBSET Waiting
        BY DEF Waiting
    <2> HIDE DEF r
    <2> QED
        BY <1>2, <2>1 DEF Asks, Request, AuthKinds
  <1> HIDE DEF me
  <1>4. PICK f : f = Drop(flight, i) /\ f \in Flights /\ Free(f) # {}
      BY DropIs, BaseTypes
  <1>5. Auth(flight') = Auth(f) /\ \A j \in Auth(f) : Twin(flight'[j], f[j])
      BY <1>1, <1>3, <1>4, PutAuth
  <1> QED
      BY <1>1, <1>4, <1>5, TakenHolds

LEMMA RefreshOkHolds ==
  ASSUME Base, Holds, NEW i \in Slots, RefreshOk(i) PROVE Holds'
  <1> DEFINE r == flight[i]
             t == r.tab
             hydrates == r.waits \cap {"silent", "boot"}
             rest == Drop(flight, i)
             me == Asks("me", t, 0, hydrates, r.token)
             hydrated == IF hydrates = {} THEN rest ELSE Put(rest, me)
             retry == Asks("retry", t, 0, {}, 0)
  <1>1. /\ r # Empty /\ r.kind = "refresh" /\ r.at = "ok" /\ jar' = r.token
        /\ hydrates # {} /\ "retry" \in r.waits => Free(flight) # {}
        /\ flight' = IF "retry" \notin r.waits THEN hydrated ELSE Put(hydrated, retry)
        /\ disturbed' = disturbed /\ UNCHANGED server
      BY DEF RefreshOk, Arrives
  <1>2. r.tab \in Tabs \cup {Gone} /\ r.token \in Nat
      BY <1>1, BaseTypes DEF Request
  <1>3. me \in Request /\ me.kind \notin AuthKinds
    <2>1. hydrates \in SUBSET Waiting
        BY DEF Waiting
    <2> HIDE DEF r, hydrates
    <2> QED
        BY <1>2, <2>1 DEF Asks, Request, AuthKinds
  <1>4. retry \in Request /\ retry.kind \notin AuthKinds
    <2> HIDE DEF r
    <2> QED
        BY <1>2 DEF Asks, Request, AuthKinds
  <1>5. rest \in Flights /\ Free(rest) # {}
      BY DropIs, BaseTypes
  <1>6. hydrates # {} /\ "retry" \in r.waits => Free(Put(rest, me)) # {}
    <2> HIDE DEF me, hydrates
    <2> QED
        BY <1>1, <1>3, BaseTypes, RoomForTwo
  <1> HIDE DEF r, t, hydrates, rest, me, retry
  <1>7. /\ hydrated \in Flights
        /\ Auth(hydrated) = Auth(rest)
        /\ \A j \in Auth(rest) : Twin(hydrated[j], rest[j])
        /\ "retry" \in r.waits => Free(hydrated) # {}
    <2>1. CASE hydrates = {}
      <3>1. hydrated = rest
          BY <2>1
      <3> QED
          BY <1>5, <3>1 DEF Twin
    <2>2. CASE hydrates # {}
      <3>1. hydrated = Put(rest, me)
          BY <2>2
      <3>2. /\ Put(rest, me) \in Flights
            /\ Auth(Put(rest, me)) = Auth(rest)
            /\ \A j \in Auth(rest) : Twin(Put(rest, me)[j], rest[j])
          BY <1>3, <1>5, PutAuth
      <3> QED
          BY <1>6, <2>2, <3>1, <3>2
    <2> QED
        BY <2>1, <2>2
  <1> HIDE DEF hydrated
  <1>8. Auth(flight') = Auth(rest) /\ \A j \in Auth(rest) : Twin(flight'[j], rest[j])
    <2>1. CASE "retry" \notin r.waits
        BY <1>1, <1>7, <2>1
    <2>2. CASE "retry" \in r.waits
      <3>1. flight' = Put(hydrated, retry)
          BY <1>1, <2>2
      <3>2. /\ Auth(Put(hydrated, retry)) = Auth(hydrated)
            /\ \A j \in Auth(hydrated) : Twin(Put(hydrated, retry)[j], hydrated[j])
          BY <1>4, <1>7, <2>2, PutAuth
      <3> QED
          BY <1>7, <3>1, <3>2 DEF Twin
    <2> QED
        BY <2>1, <2>2
  <1> QED
      BY <1>1, <1>8, TakenHolds DEF r, rest

-----------------------------------------------------------------------------
(* The whole invariant.                                                    *)
Whole == Shown /\ Holds

LEMMA WholeInit == Init => Whole
  <1> SUFFICES ASSUME Init PROVE Holds
      BY ShownInit DEF Whole
  <1> QED
      BY DEF Init, Holds, Apart, Auth

LEMMA WholeStep == Whole /\ [Next]_vars => Whole'
  <1> SUFFICES ASSUME Shown, Holds, [Next]_vars PROVE Whole'
      BY DEF Whole
  <1>1. Shown' /\ Base
      BY ShownStep DEF Shown
  <1>2. CASE UNCHANGED vars
    <2>1. /\ UNCHANGED server /\ jar' = jar /\ disturbed' = disturbed
          /\ flight' = flight /\ tab' = tab
        BY <1>2 DEF vars, server
    <2>2. Holds'
        BY <1>1, <2>1, HoldsSame DEF Twin
    <2> QED
        BY <1>1, <2>2 DEF Whole
  <1>3. ASSUME NEW t \in Tabs, TabStep(t) PROVE Holds'
      BY <1>1, <1>3, AgeHolds, SilentRefreshHolds, DataRequestHolds, LogoutHolds,
         LoginHolds, LoadHolds DEF TabStep
  <1>4. ASSUME NEW i \in Slots, Serve(i) PROVE Holds'
      BY <1>1, <1>4, ServeRefreshHolds, ServeLogoutHolds, ServeLoginHolds DEF Serve
  <1>5. ASSUME NEW i \in Slots, Answer(i) PROVE Holds'
      BY <1>1, <1>5, RefreshOkHolds, RefreshFailsHolds, UnheardHolds, LoginOkHolds,
         MeEndsHolds, DataRefusedHolds, RetryEndsHolds DEF Answer
  <1> QED
      BY <1>1, <1>2, <1>3, <1>4, <1>5 DEF Next, Whole

LEMMA WholeHolds == Spec => []Whole
  <1> QED
      BY WholeInit, WholeStep, PTL DEF Spec

-----------------------------------------------------------------------------
(* A tab that shows a session shows one that the server accepts, or that a *)
(* tab logged out.                                                         *)
THEOREM TabsFollow == Spec => []SessionFollowsTab
  <1>1. Shown => SessionFollowsTab
      BY DEF Shown, Agree, Agrees, Unended, SessionFollowsTab
  <1> QED
      BY <1>1, ShownHolds, PTL

(* A tab that logged out has nothing left that brings a session back.      *)
THEOREM LogoutsStick == Spec => []LogoutSticks
  <1>1. Shown => LogoutSticks
    <2> SUFFICES ASSUME Shown, NEW t \in Tabs,
                        seen[t].left, tab[t].token # "none"
                 PROVE  seen[t].pending
        BY DEF LogoutSticks
    <2>1. seen[t].left \in BOOLEAN /\ seen[t].pending \in BOOLEAN
        BY BaseTypes DEF Shown, History
    <2>2. Agrees(flight, tab[t], seen[t], t, Opened)
        BY DEF Shown, Agree
    <2> QED
        BY <2>1, <2>2 DEF Agrees
  <1> QED
      BY <1>1, ShownHolds, PTL

(* A tab that shows a session has a timer, or awaits an answer that sets   *)
(* one, or is in one of the two situations the property names.             *)
THEOREM TabsRenew == Spec => []KeepsRenewing
  <1>1. Shown => KeepsRenewing
    <2> SUFFICES ASSUME Shown, NEW t \in Tabs
                 PROVE  \/ tab[t].token = "none"
                        \/ tab[t].timer
                        \/ Resumes(flight, t)
                        \/ seen[t].stalled
                        \/ tab[t].out
        BY DEF KeepsRenewing
    <2>1. Agrees(flight, tab[t], seen[t], t, Opened)
        BY DEF Shown, Agree
    <2>2. Renews(flight, t) => Resumes(flight, t)
        BY DEF Renews, Resumes
    <2> QED
        BY <2>1, <2>2 DEF Agrees
  <1> QED
      BY <1>1, ShownHolds, PTL

(* No accepted token is left behind: it is the cookie, or the answer that  *)
(* makes it the cookie is under way.                                       *)
THEOREM LiveHeld == Spec => []LiveIsHeld
  <1>1. Whole => LiveIsHeld
    <2> SUFFICES ASSUME Whole, NEW k \in live, origin[k] \notin disturbed
                 PROVE  \/ k = jar
                        \/ \E i \in Slots : /\ flight[i] # Empty
                                            /\ flight[i].tab # Gone
                                            /\ flight[i].token = k
                                            /\ flight[i].at = "ok"
        BY DEF LiveIsHeld
    <2>1. HeldIn(flight, tab, jar, k)
        BY DEF Whole, Holds
    <2>2. CASE jar = k /\ Auth(flight) = {}
        BY <2>2
    <2>3. ASSUME NEW i \in Slots, Sole(flight, tab, jar, k, i)
          PROVE  \/ k = jar
                 \/ /\ flight[i] # Empty /\ flight[i].tab # Gone
                    /\ flight[i].token = k /\ flight[i].at = "ok"
        BY <2>3 DEF Sole, Auth
    <2> QED
        BY <2>1, <2>2, <2>3 DEF HeldIn
  <1> QED
      BY <1>1, WholeHolds, PTL

=============================================================================
