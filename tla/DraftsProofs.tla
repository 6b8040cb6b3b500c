---------------------------- MODULE DraftsProofs ----------------------------
(***************************************************************************)
(* Proofs about Drafts for any number of fields, tabs, requests under way, *)
(* edits, patches and faults: type correctness and the three invariants    *)
(* the run checks, from the inductive invariant IInv.                      *)
(***************************************************************************)
EXTENDS Drafts, TLAPS

Underway == {"sent", "read", "merged"}

(* What a request carries at each of its steps.                            *)
Carries ==
    \A i \in Slots :
        request[i] # Empty =>
            /\ request[i].autosave => request[i].patch # NoValues
            /\ request[i].at = "read" => request[i].patch # NoValues
            /\ request[i].at = "merged" /\ request[i].patch = NoValues =>
                   request[i].merged = request[i].seen.fields

(* Whoever merged fields holds the lock, and nobody else does; until it    *)
(* commits, the row and the draft are what they were at its merge.         *)
Locking ==
    /\ \A i \in Slots : At(i, "merged") /\ request[i].patch # NoValues => lock = i
    /\ lock # None =>
           /\ At(lock, "merged")
           /\ request[lock].patch # NoValues
           /\ request[lock].merged = Merged(product.fields, request[lock].patch)
           /\ request[lock].count = draft.count

(* A debounce runs after an edit only; a form that is away has nothing.    *)
FormSound(t) ==
    /\ form[t].timer => form[t].values # NoValues
    /\ form[t].at = "away" => form[t] = Away /\ From(t) = {}

Forms == \A t \in Tabs : FormSound(t)

Stored(t) == \A f \in Fields : form[t].values[f] \in {0, product.fields[f]}

(* A form that was not overtaken has one save under way at most, which     *)
(* carries what it shows until it is edited again.                         *)
Tracked(t) ==
    /\ \A i, j \in From(t) : i = j
    /\ ~ form[t].timer /\ ~ form[t].loaned =>
           /\ \A i \in From(t) :
                  /\ request[i].at \in Underway => request[i].patch = form[t].values
                  /\ request[i].at = "ok" => Stored(t)
           /\ form[t].status = "saved" /\ From(t) = {} => Stored(t)

Tracking == \A t \in Tabs \ crossed : Tracked(t)

Server == Carries /\ Locking /\ ReadyIsComplete /\ DraftFollowsProduct
Client == Forms /\ Tracking

IInv == TypeOK /\ Server /\ Client

-----------------------------------------------------------------------------
(* Types.                                                                  *)

Form == [at : {"away", "open"}, values : Values, timer : BOOLEAN,
         status : {"idle", "saving", "saved", "error"}, loaned : BOOLEAN]
Product == [fields : Values, status : {"draft", "ready"}, deleted : BOOLEAN]

LEMMA Constants ==
    /\ NoValues \in Values
    /\ Away \in Form
    /\ Empty \notin Request
    /\ \A i \in Slots : i # None
  <1>1. NoValues \in Values
      BY DraftsAssumption DEF NoValues, Values
  <1>2. Away \in Form
      BY <1>1 DEF Away, Form
  <1>3. \A r \in Request : r.at # "none"
      BY DEF Request
  <1>4. Empty \notin Request
      BY <1>3 DEF Empty
  <1> QED
      BY <1>1, <1>2, <1>4, DraftsAssumption DEF None

LEMMA Patched ==
    ASSUME NEW from \in Tabs \cup {"api"}, NEW patch \in Values,
           NEW status \in {"none", "draft", "ready"}, NEW autosave \in BOOLEAN
    PROVE  /\ Patch(from, patch, status, autosave) \in Request
           /\ [Patch(from, patch, status, autosave) EXCEPT !.at = "ok"] \in Request
           /\ [Patch(from, patch, status, autosave) EXCEPT !.at = "refused"] \in Request
  BY Constants DEF Patch, Request

LEMMA Typed ==
    ASSUME TypeOK
    PROVE  /\ \A i \in Slots : request[i] = Empty \/ request[i] \in Request
           /\ \A i \in Slots : request[i] # Empty <=> request[i] \in Request
           /\ \A t \in Tabs : form[t] \in Form
           /\ product \in Product
           /\ draft.fields \in Values /\ draft.count \in Nat
           /\ draft = [fields |-> draft.fields, count |-> draft.count]
  BY Constants DEF TypeOK, Form, Product

LEMMA TypeParts ==
    TypeOK <=>
        /\ kind \in [Edits -> Kinds \cup {"none"}]
        /\ product \in Product
        /\ draft \in [fields : Values, count : Nat]
        /\ lock \in Slots \cup {None}
        /\ request \in [Slots -> Request \cup {Empty}]
        /\ form \in [Tabs -> Form]
        /\ patches \in 0 .. MaxPatches
        /\ faults \in 0 .. MaxFaults
        /\ loads \in 0 .. MaxLoads
        /\ saves \in Nat
        /\ bypassed \in BOOLEAN
        /\ loose \in BOOLEAN
        /\ crossed \subseteq Tabs
  BY DEF TypeOK, Form, Product

LEMMA TypeParts1 ==
    ASSUME kind' \in [Edits -> Kinds \cup {"none"}],
           product' \in Product,
           draft' \in [fields : Values, count : Nat],
           lock' \in Slots \cup {None},
           request' \in [Slots -> Request \cup {Empty}],
           form' \in [Tabs -> Form],
           patches' \in 0 .. MaxPatches,
           faults' \in 0 .. MaxFaults,
           loads' \in 0 .. MaxLoads,
           saves' \in Nat,
           bypassed' \in BOOLEAN,
           loose' \in BOOLEAN,
           crossed' \subseteq Tabs
    PROVE  TypeOK'
  BY DEF TypeOK, Form, Product

LEMMA InitTypes == Init => TypeOK
  <1> SUFFICES ASSUME Init PROVE TypeOK
      OBVIOUS
  <1>1. form \in [Tabs -> Form] /\ request \in [Slots -> Request \cup {Empty}]
      BY Constants DEF Init
  <1>2. product \in Product /\ draft \in [fields : Values, count : Nat]
      BY Constants DEF Init, Product
  <1>3. kind \in [Edits -> Kinds \cup {"none"}]
      BY DEF Init
  <1>4. patches \in 0 .. MaxPatches /\ faults \in 0 .. MaxFaults /\ loads \in 0 .. MaxLoads
      BY DraftsAssumption DEF Init
  <1> QED
      BY <1>1, <1>2, <1>3, <1>4, TypeParts DEF Init

(* What an action does to the forms' inputs.                               *)
LEMMA Entered ==
    ASSUME TypeOK, NEW k \in Kinds, Enter(k)
    PROVE  /\ NextEdit \in Edits
           /\ kind[NextEdit] = "none"
           /\ NextEdit \in 0 .. MaxEdits
           /\ NextEdit # 0
           /\ kind' \in [Edits -> Kinds \cup {"none"}]
           /\ \A e \in Edits : kind[e] # "none" => kind'[e] = kind[e]
  <1>1. NextEdit \in Unused
      BY DEF Enter, NextEdit
  <1>2. NextEdit \in Edits /\ kind[NextEdit] = "none"
      BY <1>1 DEF Unused
  <1>3. NextEdit \in 0 .. MaxEdits /\ NextEdit # 0
      BY <1>2, DraftsAssumption DEF Edits
  <1>4. kind' = [kind EXCEPT ![NextEdit] = k] /\ kind \in [Edits -> Kinds \cup {"none"}]
      BY DEF Enter, TypeOK
  <1> QED
      BY <1>2, <1>3, <1>4

LEMMA Counts ==
    ASSUME TypeOK
    PROVE  /\ faults' = faults \/ Fault => faults' \in 0 .. MaxFaults
           /\ loads < MaxLoads /\ loads' = loads + 1 => loads' \in 0 .. MaxLoads
           /\ patches < MaxPatches /\ patches' = patches + 1 => patches' \in 0 .. MaxPatches
  BY DraftsAssumption DEF TypeOK, Fault

LEMMA Slotted ==
    ASSUME Free # {}
    PROVE  FreeSlot \in Slots /\ request[FreeSlot] = Empty
  BY DEF FreeSlot, Free

LEMMA MergedTyped ==
    ASSUME NEW fields \in Values, NEW patch \in Values
    PROVE  Merged(fields, patch) \in Values
  BY DEF Merged, Values

(* Only slot i changes, to nothing or to an answer for a form.             *)
AnswerOnly(i, how) ==
    /\ request' \in [Slots -> Request \cup {Empty}]
    /\ \A j \in Slots \ {i} : request'[j] = request[j]
    /\ \/ request[i].from \notin Tabs /\ request'[i] = Empty
       \/ /\ request[i].from \in Tabs
          /\ request'[i] \in Request
          /\ request'[i].from = request[i].from
          /\ request'[i].at = how
          /\ request'[i].patch = NoValues
          /\ request'[i].autosave = FALSE

LEMMA Ended ==
    ASSUME TypeOK, NEW i \in Slots, NEW how \in {"ok", "refused"}, Ends(i, how)
    PROVE  AnswerOnly(i, how)
  <1> DEFINE a == [Patch(request[i].from, NoValues, "none", FALSE) EXCEPT !.at = how]
  <1>1. request \in [Slots -> Request \cup {Empty}]
      BY DEF TypeOK
  <1>2. CASE request[i].from \notin Tabs
    <2>1. request' = [request EXCEPT ![i] = Empty]
        BY <1>2 DEF Ends
    <2> QED
        BY <1>1, <1>2, <2>1 DEF AnswerOnly
  <1>3. CASE request[i].from \in Tabs
    <2>1. request' = [request EXCEPT ![i] = a]
        BY <1>3 DEF Ends
    <2>2. a \in Request
        BY <1>3, Patched, Constants
    <2>3. a.from = request[i].from /\ a.at = how /\ a.patch = NoValues /\ a.autosave = FALSE
        BY DEF Patch
    <2>4. request'[i] = a
        BY <1>1, <2>1
    <2>5. request' \in [Slots -> Request \cup {Empty}]
        BY <1>1, <2>1, <2>2
    <2>6. \A j \in Slots \ {i} : request'[j] = request[j]
        BY <1>1, <2>1
    <2> QED
        BY <1>3, <2>2, <2>3, <2>4, <2>5, <2>6 DEF AnswerOnly
  <1> QED
      BY <1>2, <1>3

-----------------------------------------------------------------------------
(* One lemma per action: its types, and what the invariants need of it.    *)


LEMMA Loaded ==
    ASSUME TypeOK, NEW t \in Tabs, Load(t)
    PROVE  /\ TypeOK'
           /\ form[t].at = "away"
           /\ form'[t] \in Form
           /\ form'[t].timer = FALSE /\ form'[t].status = "idle"
           /\ form'[t].at = "open"
           /\ \A u \in Tabs \ {t} : form'[u] = form[u]
  <1> DEFINE full == [Away EXCEPT !.at = "open", !.values = draft.fields]
             bare == [Away EXCEPT !.at = "open"]
  <1>1. full \in Form /\ bare \in Form
      BY Typed, Constants DEF Away, Form
  <1>2. /\ full.timer = FALSE /\ full.status = "idle" /\ full.at = "open"
        /\ bare.timer = FALSE /\ bare.status = "idle" /\ bare.at = "open"
      BY DEF Away
  <1>3. PICK new \in {full, bare} : form' = [form EXCEPT ![t] = new]
      BY DEF Load
  <1>4. form \in [Tabs -> Form]
      BY TypeParts
  <1>5. form' \in [Tabs -> Form] /\ form'[t] = new
      BY <1>1, <1>3, <1>4
  <1>6. \A u \in Tabs \ {t} : form'[u] = form[u]
      BY <1>3, <1>4
  <1>7. loads' \in 0 .. MaxLoads /\ faults' \in 0 .. MaxFaults
      BY Counts DEF Load
  <1>8. crossed' \subseteq Tabs /\ form[t].at = "away"
      BY DEF Load, TypeOK
  <1>9. TypeOK'
      BY <1>5, <1>7, <1>8, TypeParts, TypeParts1 DEF Load, server
  <1> QED
      BY <1>1, <1>2, <1>3, <1>5, <1>6, <1>8, <1>9

LEMMA EditedForm ==
    ASSUME TypeOK, NEW t \in Tabs, NEW f \in Fields, NEW e \in 0 .. MaxEdits, e # 0
    PROVE  /\ [form[t].values EXCEPT ![f] = e] \in Values
           /\ [form[t].values EXCEPT ![f] = e] # NoValues
  <1>1. form[t].values \in Values
      BY Typed DEF Form
  <1>2. [form[t].values EXCEPT ![f] = e][f] = e /\ NoValues[f] = 0
      BY <1>1 DEF Values, NoValues
  <1> QED
      BY <1>1, <1>2 DEF Values

(* Edit, and ApplySuggestion: the values change, nothing is sent.          *)
LEMMA EditTyped ==
    ASSUME TypeOK, NEW t \in Tabs, NEW f \in Fields,
           Edit(t, f) \/ ApplySuggestion(t, f)
    PROVE  /\ TypeOK'
           /\ form'[t].timer \/ form'[t].loaned
           /\ form'[t].values # NoValues
           /\ form'[t].at = "open"
           /\ \A u \in Tabs \ {t} : form'[u] = form[u]
           /\ \A d \in Edits : kind[d] # "none" => kind'[d] = kind[d]
           /\ UNCHANGED <<server, request, counters, observers>>
  <1> DEFINE e == NextEdit
             values == [form[t].values EXCEPT ![f] = e]
             typed == [form[t] EXCEPT !.values = values, !.timer = TRUE]
             lent == [form[t] EXCEPT !.values = values, !.loaned = TRUE]
  <1>1. PICK k \in Kinds : Enter(k)
      BY DEF Edit, ApplySuggestion, Kinds
  <1>2. e \in 0 .. MaxEdits /\ e # 0
      BY <1>1, Entered
  <1>3. values \in Values /\ values # NoValues
      BY <1>2, EditedForm
  <1>4. form \in [Tabs -> Form] /\ form[t] \in Form /\ form[t].at = "open"
      BY TypeParts DEF Edit, ApplySuggestion
  <1>5. typed \in Form /\ lent \in Form
      BY <1>3, <1>4 DEF Form
  <1>6. /\ typed.timer /\ typed.values = values /\ typed.at = "open"
        /\ lent.loaned /\ lent.values = values /\ lent.at = "open"
      BY <1>4 DEF Form
  <1>7. PICK new \in {typed, lent} : form' = [form EXCEPT ![t] = new]
    <2>1. CASE Edit(t, f)
      <3>1. form' = [form EXCEPT ![t] = typed]
          BY <2>1, <1>4 DEF Edit, Form
      <3> QED
          BY <3>1
    <2>2. CASE ApplySuggestion(t, f)
      <3>1. form' = [form EXCEPT ![t] = lent]
          BY <2>2, <1>4 DEF ApplySuggestion, Form
      <3> QED
          BY <3>1
    <2> QED
        BY <2>1, <2>2
  <1>8. form' \in [Tabs -> Form] /\ form'[t] = new
      BY <1>4, <1>5, <1>7
  <1>9. \A u \in Tabs \ {t} : form'[u] = form[u]
      BY <1>4, <1>7
  <1>10. UNCHANGED <<server, request, counters, observers>>
      BY DEF Edit, ApplySuggestion
  <1>11. TypeOK'
      BY <1>1, <1>8, <1>10, Entered, TypeParts, TypeParts1
         DEF server, counters, observers
  <1> QED
      BY <1>1, <1>3, <1>6, <1>7, <1>8, <1>9, <1>10, <1>11, Entered

(* A new request goes into an empty slot.                                  *)
Sends(i, r) ==
    /\ request[i] = Empty
    /\ r \in Request
    /\ r.at = "sent"
    /\ r.autosave => r.patch # NoValues
    /\ request' = [request EXCEPT ![i] = r]

LEMMA Autosaved ==
    ASSUME TypeOK, Forms, NEW t \in Tabs, PerformAutosave(t)
    PROVE  /\ TypeOK'
           /\ \E i \in Slots, r \in Request :
                 Sends(i, r) /\ r.from = t /\ r.patch = form[t].values
           /\ form'[t] = [form[t] EXCEPT !.timer = FALSE, !.status = "saving",
                                         !.loaned = FALSE]
           /\ \A u \in Tabs \ {t} : form'[u] = form[u]
           /\ crossed' = IF From(t) # {} THEN crossed \cup {t} ELSE crossed
           /\ UNCHANGED <<kind, server, counters, saves, bypassed, loose>>
  <1> DEFINE r == Patch(t, form[t].values, "none", TRUE)
             new == [form[t] EXCEPT !.timer = FALSE, !.status = "saving",
                                    !.loaned = FALSE]
  <1>1. /\ form \in [Tabs -> Form] /\ form[t] \in Form
        /\ request \in [Slots -> Request \cup {Empty}]
      BY TypeParts
  <1>2. form[t].values \in Values /\ form[t].values # NoValues
      BY <1>1 DEF PerformAutosave, Forms, FormSound, Form
  <1>3. r \in Request
      BY <1>2, Patched
  <1>4. r.at = "sent" /\ r.from = t /\ r.patch = form[t].values
      BY DEF Patch
  <1>5. FreeSlot \in Slots /\ request[FreeSlot] = Empty
      BY Slotted DEF PerformAutosave
  <1>6. request' = [request EXCEPT ![FreeSlot] = r]
      BY DEF PerformAutosave
  <1>7. Sends(FreeSlot, r)
      BY <1>2, <1>3, <1>4, <1>5, <1>6 DEF Sends
  <1>8. new \in Form
      BY <1>1 DEF Form
  <1>9. form' = [form EXCEPT ![t] = new]
      BY <1>1 DEF PerformAutosave, Form
  <1>10. /\ form' \in [Tabs -> Form] /\ form'[t] = new
         /\ \A u \in Tabs \ {t} : form'[u] = form[u]
      BY <1>1, <1>8, <1>9
  <1>11. request' \in [Slots -> Request \cup {Empty}]
      BY <1>1, <1>3, <1>6
  <1>12. /\ crossed' = IF From(t) # {} THEN crossed \cup {t} ELSE crossed
         /\ UNCHANGED <<kind, server, counters, saves, bypassed, loose>>
      BY DEF PerformAutosave
  <1>13. crossed' \subseteq Tabs
      BY <1>12 DEF TypeOK
  <1>14. TypeOK'
      BY <1>10, <1>11, <1>12, <1>13, TypeParts, TypeParts1 DEF server, counters
  <1>15. \E i \in Slots, q \in Request :
             Sends(i, q) /\ q.from = t /\ q.patch = form[t].values
      BY <1>3, <1>4, <1>5, <1>7
  <1> HIDE DEF r
  <1> QED
      BY <1>10, <1>12, <1>14, <1>15

(* Every request of the tab is dropped with its answer, or goes on alone.  *)
Orphaned(t) ==
    \A j \in Slots :
        \/ j \notin From(t) /\ request'[j] = request[j]
        \/ j \in From(t) /\ request'[j] = Empty /\ request[j].at \in {"ok", "refused"}
        \/ /\ j \in From(t) /\ request[j].at \notin {"ok", "refused"}
           /\ request'[j] \in Request
           /\ request'[j] = [request[j] EXCEPT !.from = "gone"]

LEMMA Left ==
    ASSUME TypeOK, NEW t \in Tabs, Leave(t)
    PROVE  /\ TypeOK'
           /\ Orphaned(t)
           /\ form'[t] = Away
           /\ \A u \in Tabs \ {t} : form'[u] = form[u]
           /\ crossed' = crossed \ {t}
           /\ UNCHANGED <<kind, server, counters, saves, bypassed, loose>>
  <1>1. form \in [Tabs -> Form] /\ request \in [Slots -> Request \cup {Empty}]
      BY TypeParts
  <1>2. form' = [form EXCEPT ![t] = Away]
      BY DEF Leave
  <1>3. /\ form' \in [Tabs -> Form] /\ form'[t] = Away
        /\ \A u \in Tabs \ {t} : form'[u] = form[u]
      BY <1>1, <1>2, Constants
  <1>4. ASSUME NEW j \in Slots
        PROVE  request'[j] = IF j \notin From(t) THEN request[j]
                             ELSE IF request[j].at \in {"ok", "refused"} THEN Empty
                             ELSE [request[j] EXCEPT !.from = "gone"]
      BY DEF Leave
  <1>5. ASSUME NEW j \in Slots, j \in From(t)
        PROVE  [request[j] EXCEPT !.from = "gone"] \in Request
    <2>1. request[j] \in Request
        BY <1>1, <1>5 DEF From
    <2> QED
        BY <2>1 DEF Request
  <1>6. Orphaned(t)
      BY <1>4, <1>5 DEF Orphaned
  <1>7. request' = [j \in Slots |-> request'[j]]
      BY DEF Leave
  <1>8. \A j \in Slots : request'[j] \in Request \cup {Empty}
      BY <1>1, <1>6 DEF Orphaned
  <1>9. request' \in [Slots -> Request \cup {Empty}]
      BY <1>7, <1>8
  <1>10. /\ crossed' = crossed \ {t}
         /\ UNCHANGED <<kind, server, counters, saves, bypassed, loose>>
      BY DEF Leave
  <1>11. crossed' \subseteq Tabs
      BY <1>10 DEF TypeOK
  <1>12. TypeOK'
      BY <1>3, <1>9, <1>10, <1>11, TypeParts, TypeParts1 DEF server, counters
  <1> QED
      BY <1>3, <1>6, <1>10, <1>12

LEMMA AnsweredTyped ==
    ASSUME TypeOK, NEW i \in Slots, Answered(i)
    PROVE  /\ TypeOK'
           /\ request[i] # Empty /\ request[i].at \in {"ok", "refused"}
           /\ request'[i] = Empty
           /\ \A j \in Slots \ {i} : request'[j] = request[j]
           /\ \A t \in Tabs \ {request[i].from} : form'[t] = form[t]
           /\ request[i].from \in Tabs =>
                  form'[request[i].from] =
                      [form[request[i].from] EXCEPT !.status =
                          IF request[i].at = "ok" THEN "saved" ELSE "error"]
           /\ UNCHANGED <<kind, server, counters, observers>>
  <1> DEFINE from == request[i].from
             how == IF request[i].at = "ok" THEN "saved" ELSE "error"
             new == [form[from] EXCEPT !.status = how]
  <1>1. form \in [Tabs -> Form] /\ request \in [Slots -> Request \cup {Empty}]
      BY TypeParts
  <1>2. request' = [request EXCEPT ![i] = Empty]
      BY DEF Answered
  <1>3. form' = [form EXCEPT ![from] = new]
      BY <1>1 DEF Answered
  <1>4. from \in Tabs => new \in Form
    <2>1. how \in {"idle", "saving", "saved", "error"}
        OBVIOUS
    <2> HIDE DEF how
    <2> QED
        BY <1>1, <2>1 DEF Form
  <1>5. form' \in [Tabs -> Form]
      BY <1>1, <1>3, <1>4
  <1>6. /\ \A t \in Tabs \ {from} : form'[t] = form[t]
        /\ from \in Tabs => form'[from] = new
      BY <1>1, <1>3
  <1>7. /\ request' \in [Slots -> Request \cup {Empty}]
        /\ request'[i] = Empty
        /\ \A j \in Slots \ {i} : request'[j] = request[j]
      BY <1>1, <1>2
  <1>8. /\ request[i] # Empty /\ request[i].at \in {"ok", "refused"}
        /\ UNCHANGED <<kind, server, counters, observers>>
      BY DEF Answered
  <1>9. TypeOK'
      BY <1>5, <1>7, <1>8, TypeParts, TypeParts1 DEF server, counters, observers
  <1> QED
      BY <1>6, <1>7, <1>8, <1>9

LEMMA ApiSent ==
    ASSUME TypeOK, NEW status \in {"none", "draft", "ready"}, ApiPatch(status)
    PROVE  /\ TypeOK'
           /\ \E i \in Slots, r \in Request : Sends(i, r) /\ r.from = "api"
           /\ \A d \in Edits : kind[d] # "none" => kind'[d] = kind[d]
           /\ UNCHANGED <<server, form, observers>>
  <1>1. request \in [Slots -> Request \cup {Empty}] /\ kind \in [Edits -> Kinds \cup {"none"}]
      BY TypeParts
  <1>2. FreeSlot \in Slots /\ request[FreeSlot] = Empty
      BY Slotted DEF ApiPatch
  <1>3. UNCHANGED <<server, form, faults, loads, observers>>
      BY DEF ApiPatch
  <1>4. /\ \E r \in Request : Sends(FreeSlot, r) /\ r.from = "api"
        /\ kind' \in [Edits -> Kinds \cup {"none"}]
        /\ \A d \in Edits : kind[d] # "none" => kind'[d] = kind[d]
    <2>1. ASSUME NEW patch \in Values,
                 request' = [request EXCEPT ![FreeSlot] = Patch("api", patch, status, FALSE)]
          PROVE  \E r \in Request : Sends(FreeSlot, r) /\ r.from = "api"
      <3> DEFINE r == Patch("api", patch, status, FALSE)
      <3>1. r \in Request
          BY Patched
      <3>2. r.at = "sent" /\ r.from = "api" /\ r.autosave = FALSE
          BY DEF Patch
      <3> QED
          BY <2>1, <3>1, <3>2, <1>2 DEF Sends
    <2>2. CASE /\ request' = [request EXCEPT ![FreeSlot] =
                                  Patch("api", NoValues, status, FALSE)]
               /\ UNCHANGED kind
        BY <2>1, <2>2, <1>1, Constants
    <2>3. ASSUME NEW f \in Fields, NEW e \in Edits,
                 \/ kind[e] # "none" /\ UNCHANGED kind
                 \/ e \in Unused /\ e = NextEdit /\ \E k \in Kinds : Enter(k),
                 request' = [request EXCEPT ![FreeSlot] =
                     Patch("api", [NoValues EXCEPT ![f] = e], status, FALSE)]
          PROVE  /\ \E r \in Request : Sends(FreeSlot, r) /\ r.from = "api"
                 /\ kind' \in [Edits -> Kinds \cup {"none"}]
                 /\ \A d \in Edits : kind[d] # "none" => kind'[d] = kind[d]
      <3>1. [NoValues EXCEPT ![f] = e] \in Values
          BY Constants, DraftsAssumption DEF Values, Edits
      <3>2. /\ kind' \in [Edits -> Kinds \cup {"none"}]
            /\ \A d \in Edits : kind[d] # "none" => kind'[d] = kind[d]
          BY <2>3, <1>1, Entered
      <3> QED
          BY <2>1, <2>3, <3>1, <3>2
    <2> QED
        BY <2>2, <2>3 DEF ApiPatch
  <1>5. request' \in [Slots -> Request \cup {Empty}]
      BY <1>1, <1>4 DEF Sends
  <1>6. patches' \in 0 .. MaxPatches
      BY Counts DEF ApiPatch
  <1>7. TypeOK'
      BY <1>3, <1>4, <1>5, <1>6, TypeParts, TypeParts1 DEF server, observers
  <1> QED
      BY <1>2, <1>3, <1>4, <1>7

(* Request i moves on in its transaction: what it was sent with stays.     *)
Continues(i) ==
    /\ request' \in [Slots -> Request \cup {Empty}]
    /\ \A j \in Slots \ {i} : request'[j] = request[j]
    /\ request'[i] \in Request
    /\ request'[i].from = request[i].from
    /\ request'[i].patch = request[i].patch
    /\ request'[i].autosave = request[i].autosave

LEMMA ReadTyped ==
    ASSUME TypeOK, NEW i \in Slots, Read(i)
    PROVE  /\ TypeOK'
           /\ request[i] \in Request /\ request[i].at = "sent"
           /\ \/ AnswerOnly(i, "refused")
              \/ /\ Continues(i)
                 /\ \/ request[i].patch # NoValues /\ request'[i].at = "read"
                    \/ request[i].patch = NoValues /\ request'[i].at = "merged"
                 /\ request'[i].merged = request'[i].seen.fields
           /\ UNCHANGED <<kind, server, form, counters, observers>>
  <1> DEFINE at == IF request[i].patch = NoValues THEN "merged" ELSE "read"
             seen == [fields |-> product.fields, status |-> product.status]
             r == [request[i] EXCEPT !.at = at, !.seen = seen, !.merged = product.fields]
  <1>1. request \in [Slots -> Request \cup {Empty}] /\ product \in Product
      BY TypeParts
  <1>2. request[i] \in Request /\ request[i].at = "sent"
      BY <1>1 DEF Read, At
  <1>3. UNCHANGED <<kind, server, form, counters, observers>>
      BY DEF Read
  <1>4. CASE Refused(i)
    <2>1. AnswerOnly(i, "refused")
        BY <1>4, Ended DEF Refused
    <2>2. request' \in [Slots -> Request \cup {Empty}]
        BY <2>1 DEF AnswerOnly
    <2>3. TypeOK'
        BY <1>3, <2>2, TypeParts, TypeParts1 DEF server, counters, observers
    <2> QED
        BY <1>2, <1>3, <2>1, <2>3
  <1>5. CASE request' = [request EXCEPT ![i].at = at, ![i].seen = seen,
                                        ![i].merged = product.fields]
    <2>1. request' = [request EXCEPT ![i] = r]
        BY <1>1, <1>2, <1>5 DEF Request
    <2>2. seen \in [fields : Values, status : {"draft", "ready"}]
        BY <1>1 DEF Product
    <2>3. at \in {"read", "merged"} /\ product.fields \in Values
        BY <1>1 DEF Product
    <2>4. r \in Request
        BY <1>2, <2>2, <2>3 DEF Request
    <2>5. /\ r.from = request[i].from /\ r.patch = request[i].patch
          /\ r.autosave = request[i].autosave
          /\ r.at = at /\ r.merged = r.seen.fields
        BY <1>2 DEF Request
    <2>6. request'[i] = r /\ request' \in [Slots -> Request \cup {Empty}]
        BY <1>1, <2>1, <2>4
    <2>7. \A j \in Slots \ {i} : request'[j] = request[j]
        BY <1>1, <2>1
    <2>8. Continues(i)
        BY <2>4, <2>5, <2>6, <2>7 DEF Continues
    <2>9. TypeOK'
        BY <1>3, <2>6, TypeParts, TypeParts1 DEF server, counters, observers
    <2> QED
        BY <1>2, <1>3, <2>5, <2>6, <2>8, <2>9
  <1> QED
      BY <1>4, <1>5 DEF Read

LEMMA UpdateTyped ==
    ASSUME TypeOK, NEW i \in Slots, Update(i)
    PROVE  /\ TypeOK'
           /\ request[i] \in Request /\ request[i].at = "read"
           /\ lock = None
           /\ \/ AnswerOnly(i, "refused") /\ lock' = lock
              \/ /\ Continues(i)
                 /\ lock' = i
                 /\ request'[i].at = "merged"
                 /\ request'[i].merged = Merged(product.fields, request[i].patch)
                 /\ request'[i].count = draft.count
           /\ UNCHANGED <<kind, product, draft, form, counters, observers>>
  <1> DEFINE fields == Merged(product.fields, request[i].patch)
             r == [request[i] EXCEPT !.at = "merged", !.merged = fields,
                                     !.count = draft.count]
  <1>1. /\ request \in [Slots -> Request \cup {Empty}] /\ product \in Product
        /\ draft \in [fields : Values, count : Nat] /\ lock \in Slots \cup {None}
      BY TypeParts
  <1>2. request[i] \in Request /\ request[i].at = "read" /\ lock = None
      BY <1>1 DEF Update, At, Unlocked
  <1>3. UNCHANGED <<kind, product, draft, form, counters, observers>>
      BY DEF Update
  <1>4. CASE Refused(i) /\ UNCHANGED lock
    <2>1. AnswerOnly(i, "refused")
        BY <1>4, Ended DEF Refused
    <2>2. request' \in [Slots -> Request \cup {Empty}]
        BY <2>1 DEF AnswerOnly
    <2>3. TypeOK'
        BY <1>1, <1>3, <1>4, <2>2, TypeParts, TypeParts1 DEF counters, observers
    <2> QED
        BY <1>2, <1>3, <1>4, <2>1, <2>3
  <1>5. CASE /\ lock' = i
             /\ request' = [request EXCEPT ![i].at = "merged", ![i].merged = fields,
                                           ![i].count = draft.count]
    <2>1. request' = [request EXCEPT ![i] = r]
        BY <1>1, <1>2, <1>5 DEF Request
    <2>2. fields \in Values
        BY <1>1, <1>2, MergedTyped DEF Product, Request
    <2> HIDE DEF fields
    <2>3. r \in Request
        BY <1>1, <1>2, <2>2 DEF Request
    <2>4. /\ r.from = request[i].from /\ r.patch = request[i].patch
          /\ r.autosave = request[i].autosave
          /\ r.at = "merged" /\ r.merged = fields /\ r.count = draft.count
        BY <1>2 DEF Request
    <2>5. request'[i] = r /\ request' \in [Slots -> Request \cup {Empty}]
        BY <1>1, <2>1, <2>3
    <2>6. \A j \in Slots \ {i} : request'[j] = request[j]
        BY <1>1, <2>1
    <2>7. Continues(i)
        BY <2>3, <2>4, <2>5, <2>6 DEF Continues
    <2>8. TypeOK'
        BY <1>3, <1>5, <2>5, TypeParts, TypeParts1 DEF counters, observers
    <2>9. request'[i].merged = Merged(product.fields, request[i].patch)
        BY <2>4, <2>5 DEF fields
    <2> QED
        BY <1>2, <1>3, <1>5, <2>4, <2>5, <2>7, <2>8, <2>9
  <1> QED
      BY <1>4, <1>5 DEF Update

LEMMA Freed ==
    ASSUME TypeOK, NEW i \in Slots
    PROVE  Released(i) \in Slots \cup {None}
  BY DEF TypeOK, Released

(* A transaction that is rolled back, or one whose answer alone is lost.   *)
LEMMA RefusedTyped ==
    ASSUME TypeOK, NEW i \in Slots, FinishRefused(i) \/ RequestDies(i)
    PROVE  /\ TypeOK'
           /\ request[i] \in Request
           /\ AnswerOnly(i, "refused")
           /\ lock' = Released(i)
           /\ UNCHANGED <<kind, product, draft, form, patches, loads, observers>>
  <1>1. /\ Refused(i) /\ lock' = Released(i) /\ request[i] # Empty
        /\ UNCHANGED <<kind, product, draft, form, patches, loads, observers>>
        /\ faults' = faults \/ Fault
      BY DEF FinishRefused, RequestDies, At, counters
  <1>2. AnswerOnly(i, "refused")
      BY <1>1, Ended DEF Refused
  <1>3. request' \in [Slots -> Request \cup {Empty}] /\ request[i] \in Request
      BY <1>1, <1>2, Typed DEF AnswerOnly
  <1>4. faults' \in 0 .. MaxFaults /\ lock' \in Slots \cup {None}
      BY <1>1, Counts, Freed
  <1>5. TypeOK'
      BY <1>1, <1>3, <1>4, TypeParts, TypeParts1 DEF observers
  <1> QED
      BY <1>1, <1>2, <1>3, <1>5

LEMMA DeleteTyped ==
    ASSUME TypeOK, Delete
    PROVE  /\ TypeOK'
           /\ product'.fields = product.fields /\ product'.status = product.status
           /\ UNCHANGED <<kind, draft, lock, request, form, counters, observers>>
  <1>1. product \in Product /\ product' = [product EXCEPT !.deleted = TRUE]
      BY TypeParts DEF Delete
  <1>2. /\ product' \in Product
        /\ product'.fields = product.fields /\ product'.status = product.status
      BY <1>1 DEF Product
  <1>3. UNCHANGED <<kind, draft, lock, request, form, counters, observers>>
      BY DEF Delete
  <1>4. TypeOK'
      BY <1>2, <1>3, TypeParts, TypeParts1 DEF counters, observers
  <1> QED
      BY <1>2, <1>3, <1>4

(* What the commit of request i leaves in the row.                         *)
LeftFields(i) == IF request[i].patch = NoValues THEN product.fields ELSE request[i].merged

LEMMA FinishTyped ==
    ASSUME TypeOK, NEW i \in Slots, Finish(i)
    PROVE  /\ TypeOK'
           /\ request[i] \in Request /\ request[i].at = "merged"
           /\ AnswerOnly(i, "ok")
           /\ lock' = Released(i)
           /\ product'.fields = LeftFields(i)
           /\ product'.status = StatusLeft(request[i])
           /\ request[i].status = "ready" => Complete(request[i].merged)
           /\ draft' = IF request[i].autosave
                       THEN [fields |-> request[i].merged, count |-> request[i].count + 1]
                       ELSE draft
           /\ saves' = IF request[i].autosave THEN saves + 1 ELSE saves
           /\ bypassed' = (~ request[i].autosave
                              /\ (bypassed \/ request[i].patch # NoValues))
           /\ loose' = (/\ product'.status = "ready"
                        /\ ~ Complete(LeftFields(i))
                        /\ loose \/ MayLeaveGaps(request[i]))
           /\ crossed' = IF request[i].patch = NoValues THEN crossed
                         ELSE crossed \cup {t \in Tabs \ {request[i].from} :
                                                form[t].at = "open"}
           /\ UNCHANGED <<kind, form, counters>>
  <1>1. /\ request \in [Slots -> Request \cup {Empty}] /\ product \in Product
        /\ draft \in [fields : Values, count : Nat] /\ saves \in Nat
        /\ crossed \subseteq Tabs
      BY TypeParts
  <1>2. request[i] \in Request /\ request[i].at = "merged"
      BY <1>1 DEF Finish, At
  <1>3. AnswerOnly(i, "ok")
      BY Ended DEF Finish
  <1>4. /\ product' = [product EXCEPT !.fields = LeftFields(i),
                                      !.status = StatusLeft(request[i])]
        /\ lock' = Released(i)
        /\ request[i].status = "ready" => Complete(request[i].merged)
        /\ UNCHANGED <<kind, form, counters>>
      BY DEF Finish, LeftFields, Checked
  <1>5. /\ draft' = IF request[i].autosave
                    THEN [fields |-> request[i].merged, count |-> request[i].count + 1]
                    ELSE draft
        /\ saves' = IF request[i].autosave THEN saves + 1 ELSE saves
      BY DEF Finish, Snapshot
  <1>6. /\ bypassed' = (~ request[i].autosave
                           /\ (bypassed \/ request[i].patch # NoValues))
        /\ loose' = (/\ product'.status = "ready"
                     /\ ~ Complete(LeftFields(i))
                     /\ loose \/ MayLeaveGaps(request[i]))
      BY DEF Finish, LeftFields
  <1>7. crossed' = IF request[i].patch = NoValues THEN crossed
                   ELSE crossed \cup {t \in Tabs \ {request[i].from} :
                                          form[t].at = "open"}
      BY DEF Finish
  <1>8. LeftFields(i) \in Values /\ StatusLeft(request[i]) \in {"draft", "ready"}
    <2>1. /\ request[i].merged \in Values
          /\ request[i].status \in {"none", "draft", "ready"}
        BY <1>2 DEF Request
    <2> QED
        BY <1>1, <2>1 DEF LeftFields, StatusLeft, Product
  <1>9. /\ product' \in Product /\ product'.fields = LeftFields(i)
        /\ product'.status = StatusLeft(request[i])
      BY <1>1, <1>4, <1>8 DEF Product
  <1>10. request[i].merged \in Values /\ request[i].count + 1 \in Nat
      BY <1>2 DEF Request
  <1>11. draft' \in [fields : Values, count : Nat] /\ saves' \in Nat
      BY <1>1, <1>5, <1>10
  <1>12. /\ request' \in [Slots -> Request \cup {Empty}]
         /\ lock' \in Slots \cup {None} /\ crossed' \subseteq Tabs
         /\ bypassed' \in BOOLEAN /\ loose' \in BOOLEAN
      BY <1>1, <1>3, <1>4, <1>6, <1>7, Freed DEF AnswerOnly
  <1>13. TypeOK'
      BY <1>4, <1>9, <1>11, <1>12, TypeParts, TypeParts1 DEF counters
  <1> QED
      BY <1>2, <1>3, <1>4, <1>5, <1>6, <1>7, <1>9, <1>13

-----------------------------------------------------------------------------
(* The server's invariants.                                                *)

(* A value once entered keeps its worth, so complete fields stay complete. *)
LEMMA StaysComplete ==
    ASSUME TypeOK, NEW fields \in Values, Complete(fields),
           \A d \in Edits : kind[d] # "none" => kind'[d] = kind[d]
    PROVE  \A f \in Compulsory : fields[f] # 0 /\ kind'[fields[f]] = "filled"
  <1> SUFFICES ASSUME NEW f \in Compulsory
               PROVE  fields[f] # 0 /\ kind'[fields[f]] = "filled"
      OBVIOUS
  <1>1. fields[f] # 0 /\ kind[fields[f]] = "filled"
      BY DEF Complete
  <1>2. fields[f] \in Edits
      BY <1>1, DraftsAssumption DEF Values, Edits
  <1> QED
      BY <1>1, <1>2

(* A step that leaves the row's fields and status and the draft alone.     *)
LEMMA StoreStays ==
    ASSUME TypeOK, ReadyIsComplete, DraftFollowsProduct,
           product'.fields = product.fields, product'.status = product.status,
           UNCHANGED <<draft, saves, bypassed, loose>>,
           \A d \in Edits : kind[d] # "none" => kind'[d] = kind[d]
    PROVE  ReadyIsComplete' /\ DraftFollowsProduct'
  <1>1. DraftFollowsProduct'
      BY DEF DraftFollowsProduct
  <1>2. product.fields \in Values
      BY Typed DEF Product
  <1>3. ReadyIsComplete'
    <2>1. Complete(product.fields) =>
              \A f \in Compulsory :
                  product.fields[f] # 0 /\ kind'[product.fields[f]] = "filled"
        BY <1>2, StaysComplete
    <2> QED
        BY <2>1 DEF ReadyIsComplete, Complete
  <1> QED
      BY <1>1, <1>3

(* One request moves without taking the lock, and lets it go if it had it. *)
LEMMA LockStays ==
    ASSUME TypeOK, Carries, Locking, NEW i \in Slots,
           product'.fields = product.fields, draft' = draft,
           \A j \in Slots \ {i} : request'[j] = request[j],
           lock' = Released(i),
           request'[i] # Empty =>
               /\ request'[i].autosave => request'[i].patch # NoValues
               /\ request'[i].at = "read" => request'[i].patch # NoValues
               /\ request'[i].at = "merged" =>
                      /\ request'[i].patch = NoValues
                      /\ request'[i].merged = request'[i].seen.fields
    PROVE  Carries' /\ Locking'
  <1>1. Carries'
    <2> SUFFICES ASSUME NEW j \in Slots, request'[j] # Empty
                 PROVE  /\ request'[j].autosave => request'[j].patch # NoValues
                        /\ request'[j].at = "read" => request'[j].patch # NoValues
                        /\ request'[j].at = "merged" /\ request'[j].patch = NoValues =>
                               request'[j].merged = request'[j].seen.fields
        BY DEF Carries, NoValues
    <2> QED
        BY DEF Carries
  <1>2. ASSUME NEW j \in Slots, request'[j] # Empty, request'[j].at = "merged",
               request'[j].patch # NoValues
        PROVE  lock' = j
    <2>1. j # i
        BY <1>2
    <2>2. lock = j
        BY <1>2, <2>1 DEF Locking, At
    <2> QED
        BY <2>1, <2>2 DEF Released
  <1>3. ASSUME lock' # None
        PROVE  lock' \in Slots \ {i} /\ lock' = lock /\ request'[lock'] = request[lock]
    <2>1. lock' = lock /\ lock # i
        BY <1>3 DEF Released
    <2> QED
        BY <1>3, <2>1 DEF TypeOK
  <1>4. ASSUME lock' # None
        PROVE  /\ request'[lock'] # Empty /\ request'[lock'].at = "merged"
               /\ request'[lock'].patch # NoValues
               /\ request'[lock'].merged = Merged(product'.fields, request'[lock'].patch)
               /\ request'[lock'].count = draft'.count
      BY <1>3, <1>4 DEF Locking, At
  <1>5. Locking'
      BY <1>2, <1>4 DEF Locking, At, Merged, NoValues
  <1> QED
      BY <1>1, <1>5

LEMMA NotHolder ==
    ASSUME TypeOK, Locking, NEW i \in Slots,
           request[i] = Empty \/ request[i].at # "merged"
    PROVE  Released(i) = lock
  BY Constants DEF TypeOK, Locking, At, Released

(* Loads, edits, answers, and what else leaves transactions alone.         *)
LEMMA ServerStays ==
    ASSUME TypeOK, Server, UNCHANGED <<product, draft, lock, request, saves, bypassed, loose>>,
           \A d \in Edits : kind[d] # "none" => kind'[d] = kind[d]
    PROVE  Server'
  <1>1. Carries' /\ Locking'
      BY DEF Server, Carries, Locking, At, Merged, NoValues
  <1>2. ReadyIsComplete' /\ DraftFollowsProduct'
      BY StoreStays DEF Server
  <1> QED
      BY <1>1, <1>2 DEF Server

LEMMA ServerSends ==
    ASSUME TypeOK, Server, NEW i \in Slots, NEW r \in Request, Sends(i, r),
           UNCHANGED <<server, saves, bypassed, loose>>,
           \A d \in Edits : kind[d] # "none" => kind'[d] = kind[d]
    PROVE  Server'
  <1>1. request'[i] = r /\ \A j \in Slots \ {i} : request'[j] = request[j]
      BY TypeParts DEF Sends
  <1>2. lock' = Released(i)
      BY NotHolder DEF Sends, Server, server
  <1>3. Carries' /\ Locking'
      BY <1>1, <1>2, LockStays DEF Server, server, Sends
  <1>4. ReadyIsComplete' /\ DraftFollowsProduct'
      BY StoreStays DEF Server, server
  <1> QED
      BY <1>3, <1>4 DEF Server

LEMMA ServerAnswers ==
    ASSUME TypeOK, Server, NEW i \in Slots, NEW how \in {"ok", "refused"},
           \/ AnswerOnly(i, how)
           \/ request'[i] = Empty /\ \A j \in Slots \ {i} : request'[j] = request[j],
           lock' = Released(i),
           UNCHANGED <<kind, product, draft, saves, bypassed, loose>>
    PROVE  Server'
  <1>1. /\ \A j \in Slots \ {i} : request'[j] = request[j]
        /\ request'[i] # Empty =>
               /\ request'[i].autosave => request'[i].patch # NoValues
               /\ request'[i].at # "read" /\ request'[i].at # "merged"
      BY DEF AnswerOnly
  <1>2. Carries' /\ Locking'
      BY <1>1, LockStays DEF Server
  <1>3. ReadyIsComplete' /\ DraftFollowsProduct'
      BY StoreStays DEF Server
  <1> QED
      BY <1>2, <1>3 DEF Server

LEMMA ServerRead ==
    ASSUME TypeOK, Server, NEW i \in Slots, Read(i)
    PROVE  Server'
  <1>1. /\ request[i] \in Request /\ request[i].at = "sent"
        /\ UNCHANGED <<kind, server, form, counters, observers>>
      BY ReadTyped
  <1>2. lock' = Released(i)
      BY <1>1, NotHolder DEF Server, server
  <1>3. CASE AnswerOnly(i, "refused")
      BY <1>1, <1>2, <1>3, ServerAnswers DEF server, observers
  <1>4. CASE /\ Continues(i)
             /\ \/ request[i].patch # NoValues /\ request'[i].at = "read"
                \/ request[i].patch = NoValues /\ request'[i].at = "merged"
             /\ request'[i].merged = request'[i].seen.fields
    <2>1. request[i].autosave => request[i].patch # NoValues
        BY <1>1, Constants DEF Server, Carries
    <2>2. /\ \A j \in Slots \ {i} : request'[j] = request[j]
          /\ request'[i].autosave => request'[i].patch # NoValues
          /\ request'[i].at = "read" => request'[i].patch # NoValues
          /\ request'[i].at = "merged" =>
                 /\ request'[i].patch = NoValues
                 /\ request'[i].merged = request'[i].seen.fields
        BY <1>4, <2>1 DEF Continues
    <2>3. Carries' /\ Locking'
        BY <1>1, <1>2, <2>2, LockStays DEF Server, server
    <2>4. ReadyIsComplete' /\ DraftFollowsProduct'
        BY <1>1, StoreStays DEF Server, server, observers
    <2> QED
        BY <2>3, <2>4 DEF Server
  <1> QED
      BY <1>3, <1>4, ReadTyped

LEMMA ServerUpdate ==
    ASSUME TypeOK, Server, NEW i \in Slots, Update(i)
    PROVE  Server'
  <1>1. /\ request[i] \in Request /\ request[i].at = "read" /\ lock = None
        /\ UNCHANGED <<kind, product, draft, form, counters, observers>>
      BY UpdateTyped
  <1>2. ReadyIsComplete' /\ DraftFollowsProduct'
      BY <1>1, StoreStays DEF Server, observers
  <1>3. CASE AnswerOnly(i, "refused") /\ lock' = lock
    <2>1. lock' = Released(i)
        BY <1>1, <1>3, NotHolder DEF Server
    <2> QED
        BY <1>1, <1>3, <2>1, ServerAnswers DEF observers
  <1>4. CASE /\ Continues(i)
             /\ lock' = i
             /\ request'[i].at = "merged"
             /\ request'[i].merged = Merged(product.fields, request[i].patch)
             /\ request'[i].count = draft.count
    <2>1. /\ request[i].patch # NoValues
          /\ request[i].autosave => request[i].patch # NoValues
        BY <1>1, Constants DEF Server, Carries
    <2>2. /\ request'[i].patch = request[i].patch
          /\ request'[i].autosave = request[i].autosave
          /\ request'[i] # Empty
          /\ \A j \in Slots \ {i} : request'[j] = request[j]
        BY <1>4, Constants DEF Continues
    <2>3. Carries'
      <3> SUFFICES ASSUME NEW j \in Slots, request'[j] # Empty
                   PROVE  /\ request'[j].autosave => request'[j].patch # NoValues
                          /\ request'[j].at = "read" => request'[j].patch # NoValues
                          /\ request'[j].at = "merged" /\ request'[j].patch = NoValues =>
                                 request'[j].merged = request'[j].seen.fields
          BY DEF Carries, NoValues
      <3> QED
          BY <1>4, <2>1, <2>2 DEF Server, Carries
    <2>4. ASSUME NEW j \in Slots, request'[j] # Empty, request'[j].at = "merged",
                 request'[j].patch # NoValues
          PROVE  lock' = j
        BY <1>1, <1>4, <2>2, <2>4, Constants DEF Server, Locking, At
    <2>5. /\ request'[lock'] # Empty /\ request'[lock'].at = "merged"
          /\ request'[lock'].patch # NoValues
          /\ request'[lock'].merged = Merged(product'.fields, request'[lock'].patch)
          /\ request'[lock'].count = draft'.count
        BY <1>1, <1>4, <2>1, <2>2
    <2>6. Locking'
        BY <2>4, <2>5 DEF Locking, At, Merged, NoValues
    <2> QED
        BY <1>2, <2>3, <2>6 DEF Server
  <1> QED
      BY <1>3, <1>4, UpdateTyped

(* The commit: the lock made the merge it writes the merge of the row, and *)
(* the check it made the check of what it leaves.                          *)
LEMMA ServerFinish ==
    ASSUME TypeOK, Server, NEW i \in Slots, Finish(i)
    PROVE  Server'
  <1> DEFINE r == request[i]
  <1>1. /\ r \in Request /\ r.at = "merged" /\ r # Empty
        /\ AnswerOnly(i, "ok")
        /\ lock' = Released(i)
        /\ UNCHANGED kind
      BY FinishTyped, Constants
  <1>2. /\ r.autosave => r.patch # NoValues
        /\ r.patch = NoValues => r.merged = r.seen.fields
        /\ r.patch # NoValues => lock = i
      BY <1>1 DEF Server, Carries, Locking, At
  <1>3. /\ \A j \in Slots \ {i} : request'[j] = request[j]
        /\ request'[i] # Empty =>
               /\ request'[i].autosave => request'[i].patch # NoValues
               /\ request'[i].at # "read" /\ request'[i].at # "merged"
      BY <1>1 DEF AnswerOnly
  <1>4. ASSUME r.patch = NoValues PROVE Carries' /\ Locking'
    <2>1. product'.fields = product.fields /\ draft' = draft
        BY <1>2, <1>4, FinishTyped DEF LeftFields
    <2> QED
        BY <1>1, <1>3, <2>1, LockStays DEF Server
  <1>5. ASSUME r.patch # NoValues PROVE Carries' /\ Locking'
    <2>1. lock = i /\ lock' = None
        BY <1>1, <1>2, <1>5 DEF Released
    <2>2. Carries'
      <3> SUFFICES ASSUME NEW j \in Slots, request'[j] # Empty
                   PROVE  /\ request'[j].autosave => request'[j].patch # NoValues
                          /\ request'[j].at = "read" => request'[j].patch # NoValues
                          /\ request'[j].at = "merged" /\ request'[j].patch = NoValues =>
                                 request'[j].merged = request'[j].seen.fields
          BY DEF Carries, NoValues
      <3> QED
          BY <1>3 DEF Server, Carries
    <2>3. ASSUME NEW j \in Slots, request'[j] # Empty, request'[j].at = "merged",
                 request'[j].patch # NoValues
          PROVE  FALSE
      <3>1. j # i
          BY <1>3, <2>3
      <3>2. lock = j
          BY <1>3, <2>3, <3>1 DEF Server, Locking, At
      <3> QED
          BY <2>1, <3>1, <3>2
    <2>4. Locking'
        BY <2>1, <2>3 DEF Locking, At, NoValues
    <2> QED
        BY <2>2, <2>4
  <1>6. DraftFollowsProduct'
    <2>1. draft.count = saves /\ (saves > 0 /\ ~ bypassed => draft.fields = product.fields)
        BY DEF Server, DraftFollowsProduct
    <2>2. CASE r.autosave
      <3>1. r.count = draft.count
          BY <1>2, <2>2, Constants DEF Server, Locking
      <3>2. draft' = [fields |-> r.merged, count |-> r.count + 1] /\ saves' = saves + 1
          BY <2>2, FinishTyped
      <3>3. product'.fields = r.merged
          BY <1>2, <2>2, FinishTyped DEF LeftFields
      <3> QED
          BY <2>1, <3>1, <3>2, <3>3 DEF DraftFollowsProduct
    <2>3. CASE ~ r.autosave
      <3>1. draft' = draft /\ saves' = saves
          BY <2>3, FinishTyped
      <3>2. bypassed' = (bypassed \/ r.patch # NoValues)
          BY <2>3, FinishTyped
      <3>3. r.patch = NoValues => product'.fields = product.fields
          BY FinishTyped DEF LeftFields
      <3> QED
          BY <2>1, <3>1, <3>2, <3>3 DEF DraftFollowsProduct
    <2> QED
        BY <2>2, <2>3
  <1>7. ReadyIsComplete'
    <2>1. /\ product'.fields = LeftFields(i)
          /\ r.status = "ready" => Complete(r.merged)
          /\ loose' = (/\ product'.status = "ready"
                       /\ ~ Complete(LeftFields(i))
                       /\ loose \/ MayLeaveGaps(r))
        BY FinishTyped
    <2>2. Complete(LeftFields(i)) \/ MayLeaveGaps(r)
      <3>1. CASE r.status # "ready"
          BY <3>1 DEF MayLeaveGaps
      <3>2. CASE r.status = "ready" /\ r.patch # NoValues
          BY <2>1, <3>2 DEF LeftFields
      <3>3. CASE r.status = "ready" /\ r.patch = NoValues
          BY <1>2, <2>1, <3>3 DEF LeftFields, MayLeaveGaps
      <3> QED
          BY <3>1, <3>2, <3>3
    <2>3. Complete(LeftFields(i)) => Complete(product.fields)'
        BY <1>1, <2>1 DEF Complete
    <2> QED
        BY <2>1, <2>2, <2>3 DEF ReadyIsComplete
  <1> QED
      BY <1>4, <1>5, <1>6, <1>7 DEF Server

LEMMA ServerLeave ==
    ASSUME TypeOK, Server, NEW t \in Tabs, Orphaned(t),
           UNCHANGED <<kind, server, saves, bypassed, loose>>
    PROVE  Server'
  <1>1. ASSUME NEW j \in Slots, request'[j] # Empty
        PROVE  /\ request[j] # Empty
               /\ request'[j].at = request[j].at /\ request'[j].patch = request[j].patch
               /\ request'[j].autosave = request[j].autosave
               /\ request'[j].merged = request[j].merged
               /\ request'[j].seen = request[j].seen
               /\ request'[j].count = request[j].count
    <2>1. CASE request'[j] = request[j]
        BY <1>1, <2>1
    <2>2. CASE j \in From(t) /\ request'[j] = [request[j] EXCEPT !.from = "gone"]
      <3>1. request[j] \in Request /\ request[j] # Empty
          BY <2>2, Typed DEF From
      <3> QED
          BY <2>2, <3>1 DEF Request
    <2> QED
        BY <1>1, <2>1, <2>2 DEF Orphaned
  <1>2. ASSUME NEW j \in Slots, request[j] # Empty, request[j].at = "merged"
        PROVE  request'[j] # Empty
      BY <1>2, Constants DEF Orphaned
  <1>3. Carries'
    <2> SUFFICES ASSUME NEW j \in Slots, request'[j] # Empty
                 PROVE  /\ request'[j].autosave => request'[j].patch # NoValues
                        /\ request'[j].at = "read" => request'[j].patch # NoValues
                        /\ request'[j].at = "merged" /\ request'[j].patch = NoValues =>
                               request'[j].merged = request'[j].seen.fields
        BY DEF Carries, NoValues
    <2> QED
        BY <1>1 DEF Server, Carries
  <1>4. lock' = lock /\ product' = product /\ draft' = draft
      BY DEF server
  <1>5. ASSUME NEW j \in Slots, request'[j] # Empty, request'[j].at = "merged",
               request'[j].patch # NoValues
        PROVE  lock' = j
      BY <1>1, <1>4, <1>5 DEF Server, Locking, At
  <1>6. ASSUME lock # None
        PROVE  /\ request'[lock] # Empty /\ request'[lock].at = "merged"
               /\ request'[lock].patch # NoValues
               /\ request'[lock].merged = Merged(product.fields, request'[lock].patch)
               /\ request'[lock].count = draft.count
    <2>1. lock \in Slots
        BY <1>6 DEF TypeOK
    <2>2. request[lock] # Empty /\ request[lock].at = "merged"
        BY <1>6 DEF Server, Locking, At
    <2> QED
        BY <1>1, <1>2, <1>6, <2>1, <2>2 DEF Server, Locking
  <1>7. Locking'
      BY <1>4, <1>5, <1>6 DEF Locking, At, Merged, NoValues
  <1>8. ReadyIsComplete' /\ DraftFollowsProduct'
      BY <1>4, StoreStays DEF Server
  <1> QED
      BY <1>3, <1>7, <1>8 DEF Server

(* Every step of the system keeps the server's invariants.                 *)
LEMMA ServerNext ==
    ASSUME TypeOK, Forms, Server, [Next]_vars
    PROVE  TypeOK' /\ Server'
  <1>1. CASE UNCHANGED vars
    <2>1. UNCHANGED <<kind, product, draft, lock, request, saves, bypassed, loose>>
        BY <1>1 DEF vars
    <2>2. TypeOK'
        BY <1>1, TypeParts, TypeParts1 DEF vars
    <2> QED
        BY <2>1, <2>2, ServerStays
  <1>2. ASSUME NEW t \in Tabs, Load(t) PROVE TypeOK' /\ Server'
    <2>1. UNCHANGED <<kind, product, draft, lock, request, saves, bypassed, loose>>
        BY <1>2 DEF Load, server
    <2> QED
        BY <1>2, <2>1, Loaded, ServerStays
  <1>3. ASSUME NEW t \in Tabs, NEW f \in Fields, Edit(t, f) \/ ApplySuggestion(t, f)
        PROVE  TypeOK' /\ Server'
      BY <1>3, EditTyped, ServerStays DEF server, observers
  <1>4. ASSUME NEW t \in Tabs, PerformAutosave(t) PROVE TypeOK' /\ Server'
      BY <1>4, Autosaved, ServerSends
  <1>5. ASSUME NEW t \in Tabs, Leave(t) PROVE TypeOK' /\ Server'
      BY <1>5, Left, ServerLeave
  <1>6. ASSUME NEW i \in Slots, Answered(i) PROVE TypeOK' /\ Server'
    <2>1. /\ TypeOK'
          /\ request[i].at # "merged" /\ request'[i] = Empty
          /\ \A j \in Slots \ {i} : request'[j] = request[j]
          /\ UNCHANGED <<kind, product, draft, lock, saves, bypassed, loose>>
        BY <1>6, AnsweredTyped DEF server, observers
    <2>2. lock' = Released(i)
        BY <2>1, NotHolder DEF Server
    <2> QED
        BY <2>1, <2>2, ServerAnswers
  <1>7. ASSUME NEW status \in {"none", "draft", "ready"}, ApiPatch(status)
        PROVE  TypeOK' /\ Server'
      BY <1>7, ApiSent, ServerSends DEF observers
  <1>8. ASSUME NEW i \in Slots, Read(i) PROVE TypeOK' /\ Server'
      BY <1>8, ReadTyped, ServerRead
  <1>9. ASSUME NEW i \in Slots, Update(i) PROVE TypeOK' /\ Server'
      BY <1>9, UpdateTyped, ServerUpdate
  <1>10. ASSUME NEW i \in Slots, Finish(i) PROVE TypeOK' /\ Server'
      BY <1>10, FinishTyped, ServerFinish
  <1>11. ASSUME NEW i \in Slots, FinishRefused(i) \/ RequestDies(i)
         PROVE  TypeOK' /\ Server'
      BY <1>11, RefusedTyped, ServerAnswers DEF observers
  <1>12. CASE Delete
    <2>1. /\ TypeOK'
          /\ product'.fields = product.fields /\ product'.status = product.status
          /\ UNCHANGED <<kind, draft, lock, request, saves, bypassed, loose>>
        BY <1>12, DeleteTyped DEF observers
    <2>2. Carries' /\ Locking'
        BY <2>1 DEF Server, Carries, Locking, At, Merged, NoValues
    <2>3. ReadyIsComplete' /\ DraftFollowsProduct'
        BY <2>1, StoreStays DEF Server
    <2> QED
        BY <2>1, <2>2, <2>3 DEF Server
  <1> QED
      BY <1>1, <1>2, <1>3, <1>4, <1>5, <1>6, <1>7, <1>8, <1>9, <1>10, <1>11, <1>12
         DEF Next, TabStep, RequestStep

-----------------------------------------------------------------------------
(* The forms' invariants.                                                  *)

(* A tab whose form, requests and stored values a step leaves alone.       *)
LEMMA TabStays ==
    ASSUME NEW t \in Tabs, FormSound(t), t \in crossed \/ Tracked(t),
           form'[t] = form[t], From(t)' = From(t),
           product'.fields = product.fields, t \in crossed => t \in crossed',
           \A j \in From(t) :
               /\ request'[j].at \in Underway =>
                      request[j].at \in Underway /\ request'[j].patch = request[j].patch
               /\ request'[j].at = "ok" => request[j].at = "ok"
    PROVE  FormSound(t)' /\ (t \in crossed' \/ Tracked(t)')
  <1>1. FormSound(t)'
      BY DEF FormSound, NoValues, Away
  <1>2. Stored(t) => Stored(t)'
      BY DEF Stored
  <1>3. Tracked(t) => Tracked(t)'
      BY <1>2 DEF Tracked, Underway
  <1> QED
      BY <1>1, <1>3

LEMMA FromKept ==
    ASSUME TypeOK, NEW i \in Slots, request[i] \in Request,
           Continues(i) \/ \E how \in {"ok", "refused"} : AnswerOnly(i, how),
           NEW t \in Tabs
    PROVE  From(t)' = From(t)
  <1>1. request[i] # Empty
      BY Constants
  <1>2. \A j \in Slots \ {i} : request'[j] = request[j]
      BY DEF Continues, AnswerOnly
  <1>3. i \in From(t)' <=> i \in From(t)
      BY <1>1, Constants DEF Continues, AnswerOnly, From, Empty
  <1>4. \A j \in Slots \ {i} : j \in From(t)' <=> j \in From(t)
      BY <1>2 DEF From, Empty
  <1>5. From(t)' \subseteq Slots /\ From(t) \subseteq Slots
      BY DEF From
  <1> QED
      BY <1>3, <1>4, <1>5

(* A request goes on, or is refused.                                       *)
LEMMA ClientSlot ==
    ASSUME TypeOK, Client, NEW i \in Slots, request[i] \in Request,
           \/ AnswerOnly(i, "refused")
           \/ /\ Continues(i) /\ request[i].at \in Underway
              /\ request'[i].at \in {"read", "merged"},
           form' = form, crossed' = crossed, product'.fields = product.fields
    PROVE  Client'
  <1> SUFFICES ASSUME NEW t \in Tabs
               PROVE  FormSound(t)' /\ (t \in crossed' \/ Tracked(t)')
      BY DEF Client, Forms, Tracking
  <1>1. FormSound(t) /\ (t \in crossed \/ Tracked(t))
      BY DEF Client, Forms, Tracking
  <1>2. From(t)' = From(t)
      BY FromKept
  <1>3. ASSUME NEW j \in From(t)
        PROVE  /\ request'[j].at \in Underway =>
                      request[j].at \in Underway /\ request'[j].patch = request[j].patch
               /\ request'[j].at = "ok" => request[j].at = "ok"
    <2>1. CASE j # i
        BY <2>1 DEF AnswerOnly, Continues, From
    <2>2. CASE j = i
        BY <2>2 DEF AnswerOnly, Continues, From, Underway
    <2> QED
        BY <2>1, <2>2
  <1> QED
      BY <1>1, <1>2, <1>3, TabStays

(* Steps that leave the requests and the row's fields alone, and all forms *)
(* but that of u.                                                          *)
LEMMA OtherTabs ==
    ASSUME Client, request' = request, product'.fields = product.fields,
           NEW u, NEW t \in Tabs \ {u}, form'[t] = form[t],
           t \in crossed' <=> t \in crossed
    PROVE  FormSound(t)' /\ (t \in crossed' \/ Tracked(t)')
  <1>1. FormSound(t) /\ (t \in crossed \/ Tracked(t))
      BY DEF Client, Forms, Tracking
  <1>2. From(t)' = From(t)
      BY DEF From, Empty
  <1>3. FormSound(t)'
      BY <1>1, <1>2 DEF FormSound, NoValues, Away
  <1>4. Tracked(t) => Tracked(t)'
      BY <1>2 DEF Tracked, Underway, Stored
  <1> QED
      BY <1>1, <1>3, <1>4

LEMMA ClientLoad ==
    ASSUME TypeOK, Client, NEW t \in Tabs, Load(t)
    PROVE  Client'
  <1>1. /\ form[t].at = "away"
        /\ form'[t].timer = FALSE /\ form'[t].status = "idle" /\ form'[t].at = "open"
        /\ \A u \in Tabs \ {t} : form'[u] = form[u]
      BY Loaded
  <1>2. request' = request /\ product' = product /\ crossed' = crossed \ {t}
      BY DEF Load, server
  <1>3. From(t)' = {}
      BY <1>1, <1>2 DEF Client, Forms, FormSound, From, Empty
  <1>4. FormSound(t)' /\ Tracked(t)'
      BY <1>1, <1>3 DEF FormSound, Tracked
  <1>5. \A u \in Tabs \ {t} : FormSound(u)' /\ (u \in crossed' \/ Tracked(u)')
      BY <1>1, <1>2, OtherTabs
  <1> QED
      BY <1>4, <1>5 DEF Client, Forms, Tracking

LEMMA ClientEdit ==
    ASSUME TypeOK, Client, NEW t \in Tabs, NEW f \in Fields,
           Edit(t, f) \/ ApplySuggestion(t, f)
    PROVE  Client'
  <1>1. /\ form'[t].timer \/ form'[t].loaned
        /\ form'[t].values # NoValues
        /\ form'[t].at = "open"
        /\ \A u \in Tabs \ {t} : form'[u] = form[u]
        /\ UNCHANGED <<server, request, counters, observers>>
      BY EditTyped
  <1>2. request' = request /\ product' = product /\ crossed' = crossed
      BY <1>1 DEF server, observers
  <1>3. FormSound(t)'
      BY <1>1 DEF FormSound, NoValues
  <1>4. t \notin crossed => Tracked(t)'
    <2>1. From(t)' = From(t)
        BY <1>2 DEF From, Empty
    <2>2. t \notin crossed => \A i, j \in From(t) : i = j
        BY DEF Client, Tracking, Tracked
    <2> QED
        BY <1>1, <2>1, <2>2 DEF Tracked
  <1>5. \A u \in Tabs \ {t} : FormSound(u)' /\ (u \in crossed' \/ Tracked(u)')
      BY <1>1, <1>2, OtherTabs
  <1> QED
      BY <1>2, <1>3, <1>4, <1>5 DEF Client, Forms, Tracking

(* A new request is from its sender only.                                  *)
LEMMA SentFrom ==
    ASSUME TypeOK, NEW i \in Slots, NEW r \in Request, Sends(i, r), NEW t
    PROVE  /\ r.from # t => From(t)' = From(t)
           /\ r.from = t => From(t)' = From(t) \cup {i}
           /\ i \notin From(t)
           /\ request'[i] = r
           /\ \A j \in From(t) : request'[j] = request[j]
  <1>1. /\ request'[i] = r /\ request[i] = Empty
        /\ \A j \in Slots \ {i} : request'[j] = request[j]
      BY TypeParts DEF Sends
  <1>2. i \notin From(t)
      BY <1>1 DEF From
  <1>3. \A j \in Slots \ {i} : j \in From(t)' <=> j \in From(t)
      BY <1>1 DEF From, Empty
  <1>4. i \in From(t)' <=> r.from = t
      BY <1>1, Constants DEF From, Empty
  <1>5. From(t)' \subseteq Slots /\ From(t) \subseteq Slots
      BY DEF From
  <1> QED
      BY <1>1, <1>2, <1>3, <1>4, <1>5

LEMMA ClientAutosave ==
    ASSUME TypeOK, Client, NEW t \in Tabs, PerformAutosave(t)
    PROVE  Client'
  <1>1. /\ form'[t] = [form[t] EXCEPT !.timer = FALSE, !.status = "saving",
                                      !.loaned = FALSE]
        /\ \A u \in Tabs \ {t} : form'[u] = form[u]
        /\ crossed' = IF From(t) # {} THEN crossed \cup {t} ELSE crossed
        /\ product' = product
      BY Autosaved DEF Client, server
  <1>2. PICK i \in Slots, r \in Request :
            Sends(i, r) /\ r.from = t /\ r.patch = form[t].values
      BY Autosaved DEF Client
  <1>3. /\ From(t)' = From(t) \cup {i} /\ request'[i] = r
        /\ r.at = "sent"
      BY <1>2, SentFrom DEF Sends
  <1>4. form'[t].status = "saving" /\ form'[t].values = form[t].values
        /\ form'[t].timer = FALSE /\ form'[t].at = form[t].at
      BY <1>1, Typed DEF Form
  <1>5. form[t].at # "away"
    <2>1. form[t].timer
        BY DEF PerformAutosave
    <2> QED
        BY <2>1 DEF Client, Forms, FormSound, Away
  <1>6. FormSound(t)'
      BY <1>4, <1>5 DEF FormSound
  <1>7. t \in crossed' \/ Tracked(t)'
    <2>1. CASE From(t) # {}
        BY <1>1, <2>1
    <2>2. CASE From(t) = {}
      <3>1. From(t)' = {i}
          BY <1>3, <2>2
      <3> QED
          BY <1>2, <1>3, <1>4, <3>1 DEF Tracked, Underway
    <2> QED
        BY <2>1, <2>2
  <1>8. ASSUME NEW u \in Tabs \ {t} PROVE FormSound(u)' /\ (u \in crossed' \/ Tracked(u)')
    <2>1. FormSound(u) /\ (u \in crossed \/ Tracked(u))
        BY DEF Client, Forms, Tracking
    <2>2. From(u)' = From(u) /\ \A j \in From(u) : request'[j] = request[j]
        BY <1>2, SentFrom
    <2> QED
        BY <1>1, <2>1, <2>2, TabStays
  <1> QED
      BY <1>6, <1>7, <1>8 DEF Client, Forms, Tracking

LEMMA ClientApi ==
    ASSUME TypeOK, Client, NEW status \in {"none", "draft", "ready"}, ApiPatch(status)
    PROVE  Client'
  <1>1. PICK i \in Slots, r \in Request : Sends(i, r) /\ r.from = "api"
      BY ApiSent
  <1>2. product' = product /\ form' = form /\ crossed' = crossed
      BY ApiSent DEF server, observers
  <1>3. ASSUME NEW u \in Tabs PROVE FormSound(u)' /\ (u \in crossed' \/ Tracked(u)')
    <2>1. FormSound(u) /\ (u \in crossed \/ Tracked(u))
        BY DEF Client, Forms, Tracking
    <2>2. From(u)' = From(u) /\ \A j \in From(u) : request'[j] = request[j]
        BY <1>1, SentFrom, DraftsAssumption
    <2> QED
        BY <1>2, <2>1, <2>2, TabStays
  <1> QED
      BY <1>3 DEF Client, Forms, Tracking

LEMMA ClientLeave ==
    ASSUME TypeOK, Client, NEW t \in Tabs, Leave(t)
    PROVE  Client'
  <1>1. /\ Orphaned(t)
        /\ form'[t] = Away
        /\ \A u \in Tabs \ {t} : form'[u] = form[u]
        /\ crossed' = crossed \ {t}
        /\ product' = product
      BY Left DEF server
  <1>2. ASSUME NEW j \in Slots
        PROVE  \/ j \notin From(t) /\ request'[j] = request[j]
               \/ j \in From(t) /\ request'[j] = Empty
               \/ j \in From(t) /\ request'[j].from = "gone"
    <2>1. j \in From(t) => request[j] \in Request
        BY Typed DEF From
    <2> QED
        BY <1>1, <2>1 DEF Orphaned, Request
  <1>3. ASSUME NEW u \in Tabs
        PROVE  From(u)' = IF u = t THEN {} ELSE From(u)
    <2>1. \A j \in Slots : j \in From(t) /\ u # t => j \notin From(u)
        BY DEF From
    <2>2. \A j \in Slots : j \in From(u)' <=> u # t /\ j \in From(u)
        BY <1>2, <2>1, DraftsAssumption DEF From, Empty
    <2>3. From(u)' \subseteq Slots /\ From(u) \subseteq Slots
        BY DEF From
    <2> QED
        BY <2>2, <2>3
  <1>4. FormSound(t)' /\ Tracked(t)'
    <2>1. From(t)' = {}
        BY <1>3
    <2> QED
        BY <1>1, <2>1 DEF FormSound, Tracked, Away, NoValues
  <1>5. ASSUME NEW u \in Tabs \ {t} PROVE FormSound(u)' /\ (u \in crossed' \/ Tracked(u)')
    <2>1. FormSound(u) /\ (u \in crossed \/ Tracked(u))
        BY DEF Client, Forms, Tracking
    <2>2. From(u)' = From(u)
        BY <1>3
    <2>3. \A j \in From(u) : request'[j] = request[j]
        BY <1>2 DEF From
    <2> QED
        BY <1>1, <2>1, <2>2, <2>3, TabStays
  <1> QED
      BY <1>4, <1>5 DEF Client, Forms, Tracking

LEMMA ClientAnswered ==
    ASSUME TypeOK, Client, NEW i \in Slots, Answered(i)
    PROVE  Client'
  <1> DEFINE from == request[i].from
  <1>1. /\ request[i] # Empty /\ request[i].at \in {"ok", "refused"}
        /\ request'[i] = Empty
        /\ \A j \in Slots \ {i} : request'[j] = request[j]
        /\ \A t \in Tabs \ {from} : form'[t] = form[t]
        /\ product' = product /\ crossed' = crossed
      BY AnsweredTyped DEF server, observers
  <1>2. ASSUME NEW u \in Tabs
        PROVE  From(u)' = IF u = from THEN From(u) \ {i} ELSE From(u)
    <2>1. \A j \in Slots : j \in From(u)' <=> j # i /\ j \in From(u)
        BY <1>1 DEF From, Empty
    <2>2. i \in From(u) <=> u = from
        BY <1>1 DEF From
    <2>3. From(u)' \subseteq Slots /\ From(u) \subseteq Slots
        BY DEF From
    <2> QED
        BY <2>1, <2>2, <2>3
  <1>3. ASSUME NEW t \in Tabs, t = from
        PROVE  FormSound(t)' /\ (t \in crossed' \/ Tracked(t)')
    <2>1. i \in From(t)
        BY <1>1, <1>3 DEF From
    <2>2. form[t].at # "away"
        BY <2>1 DEF Client, Forms, FormSound
    <2>3. /\ form'[t].timer = form[t].timer /\ form'[t].loaned = form[t].loaned
          /\ form'[t].values = form[t].values /\ form'[t].at = form[t].at
          /\ form'[t].status = "saved" => request[i].at = "ok"
      <3>1. form'[t] = [form[t] EXCEPT !.status =
                            IF request[i].at = "ok" THEN "saved" ELSE "error"]
          BY <1>3, AnsweredTyped
      <3> QED
          BY <3>1, Typed DEF Form
    <2>4. FormSound(t)'
        BY <2>2, <2>3 DEF Client, Forms, FormSound, NoValues
    <2>5. ASSUME t \notin crossed PROVE Tracked(t)'
      <3>1. Tracked(t)
          BY <2>5 DEF Client, Tracking
      <3>2. From(t)' = {}
          BY <1>2, <1>3, <2>1, <3>1 DEF Tracked
      <3>3. ~ form[t].timer /\ ~ form[t].loaned /\ request[i].at = "ok" => Stored(t)
          BY <2>1, <3>1 DEF Tracked
      <3>4. Stored(t) => Stored(t)'
          BY <1>1, <2>3 DEF Stored
      <3> QED
          BY <2>3, <3>2, <3>3, <3>4 DEF Tracked
    <2> QED
        BY <1>1, <2>4, <2>5
  <1>4. ASSUME NEW u \in Tabs, u # from
        PROVE  FormSound(u)' /\ (u \in crossed' \/ Tracked(u)')
    <2>1. FormSound(u) /\ (u \in crossed \/ Tracked(u))
        BY DEF Client, Forms, Tracking
    <2>2. From(u)' = From(u)
        BY <1>2, <1>4
    <2>3. \A j \in From(u) : request'[j] = request[j]
        BY <1>1, <1>4 DEF From
    <2> QED
        BY <1>1, <1>4, <2>1, <2>2, <2>3, TabStays
  <1> QED
      BY <1>3, <1>4 DEF Client, Forms, Tracking

(* The commit: another form is overtaken, the sender's own is stored.      *)
LEMMA ClientFinish ==
    ASSUME TypeOK, Server, Client, NEW i \in Slots, Finish(i)
    PROVE  Client'
  <1> DEFINE r == request[i]
  <1>1. /\ r \in Request /\ r.at = "merged"
        /\ AnswerOnly(i, "ok")
        /\ product'.fields = LeftFields(i)
        /\ crossed' = IF r.patch = NoValues THEN crossed
                      ELSE crossed \cup {t \in Tabs \ {r.from} : form[t].at = "open"}
        /\ form' = form
      BY FinishTyped
  <1>2. \A t \in Tabs : From(t)' = From(t)
      BY <1>1, FromKept
  <1>3. /\ \A j \in Slots \ {i} : request'[j] = request[j]
        /\ \A t \in Tabs : i \in From(t) => request'[i].at = "ok"
      BY <1>1 DEF AnswerOnly, From
  <1> SUFFICES ASSUME NEW t \in Tabs
               PROVE  FormSound(t)' /\ (t \in crossed' \/ Tracked(t)')
      BY DEF Client, Forms, Tracking
  <1>4. FormSound(t)'
      BY <1>1, <1>2 DEF Client, Forms, FormSound, NoValues, Away
  <1>5. ASSUME t \notin crossed' PROVE Tracked(t)'
    <2>1. Tracked(t)
        BY <1>1, <1>5 DEF Client, Tracking
    <2>2. CASE i \in From(t)
      <3>1. From(t)' = From(t) /\ From(t) = {i}
          BY <1>2, <2>1, <2>2 DEF Tracked
      <3>2. ASSUME ~ form[t].timer, ~ form[t].loaned PROVE Stored(t)'
        <4>1. r.patch = form[t].values
            BY <1>1, <2>1, <2>2, <3>2 DEF Tracked, Underway
        <4>2. CASE r.patch = NoValues
            BY <1>1, <4>1, <4>2 DEF Stored, NoValues
        <4>3. CASE r.patch # NoValues
          <5>1. lock = i /\ r.merged = Merged(product.fields, r.patch)
              BY <1>1, <4>3, Constants DEF Server, Locking, At
          <5>2. product'.fields = Merged(product.fields, r.patch)
              BY <1>1, <4>3, <5>1 DEF LeftFields
          <5>3. \A f \in Fields : r.patch[f] # 0 => product'.fields[f] = r.patch[f]
              BY <5>2 DEF Merged
          <5> QED
              BY <1>1, <4>1, <5>3 DEF Stored
        <4> QED
            BY <4>2, <4>3
      <3>3. request'[i].at = "ok"
          BY <1>3, <2>2
      <3> QED
          BY <1>1, <3>1, <3>2, <3>3 DEF Tracked, Underway
    <2>3. CASE i \notin From(t) /\ r.patch = NoValues
      <3>1. product'.fields = product.fields
          BY <1>1, <2>3 DEF LeftFields
      <3>2. \A j \in From(t) : request'[j] = request[j]
          BY <1>3, <2>3 DEF From
      <3>3. FormSound(t) /\ From(t)' = From(t) /\ form'[t] = form[t]
          BY <1>1, <1>2 DEF Client, Forms
      <3> QED
          BY <1>1, <1>5, <2>1, <2>3, <3>1, <3>2, <3>3, TabStays
    <2>4. CASE i \notin From(t) /\ r.patch # NoValues
      <3>1. r.from # t
          BY <1>1, <2>4, Constants DEF From
      <3>2. form[t].at # "open"
          BY <1>1, <1>5, <2>4, <3>1
      <3>3. form[t].at = "away"
          BY <3>2, Typed DEF Form
      <3>4. form[t] = Away /\ From(t) = {}
          BY <3>3 DEF Client, Forms, FormSound
      <3>5. form'[t].status = "idle"
          BY <1>1, <3>4 DEF Away
      <3>6. From(t)' = {}
          BY <1>2, <3>4
      <3> QED
          BY <3>5, <3>6 DEF Tracked
    <2> QED
        BY <2>2, <2>3, <2>4
  <1> QED
      BY <1>4, <1>5

LEMMA ClientNext ==
    ASSUME TypeOK, Server, Client, [Next]_vars
    PROVE  Client'
  <1>1. ASSUME request' = request, form' = form, crossed' = crossed,
               product'.fields = product.fields
        PROVE  Client'
    <2> SUFFICES ASSUME NEW t \in Tabs
                 PROVE  FormSound(t)' /\ (t \in crossed' \/ Tracked(t)')
        BY DEF Client, Forms, Tracking
    <2>2. FormSound(t) /\ (t \in crossed \/ Tracked(t))
        BY DEF Client, Forms, Tracking
    <2>3. From(t)' = From(t)
        BY <1>1 DEF From, Empty
    <2> QED
        BY <1>1, <2>2, <2>3, TabStays
  <1>2. CASE UNCHANGED vars
      BY <1>1, <1>2 DEF vars
  <1>3. CASE \E t \in Tabs : TabStep(t) \/ PerformAutosave(t)
      BY <1>3, ClientLoad, ClientLeave, ClientEdit, ClientAutosave DEF TabStep
  <1>4. ASSUME NEW i \in Slots, RequestStep(i) \/ RequestDies(i) PROVE Client'
    <2>1. CASE Read(i)
      <3>1. /\ request[i] \in Request /\ request[i].at = "sent"
            /\ \/ AnswerOnly(i, "refused")
               \/ Continues(i) /\ request'[i].at \in {"read", "merged"}
            /\ product' = product /\ form' = form /\ crossed' = crossed
          BY <2>1, ReadTyped DEF server, observers
      <3> QED
          BY <3>1, ClientSlot DEF Underway
    <2>2. CASE Update(i)
      <3>1. /\ request[i] \in Request /\ request[i].at = "read"
            /\ \/ AnswerOnly(i, "refused")
               \/ Continues(i) /\ request'[i].at = "merged"
            /\ product' = product /\ form' = form /\ crossed' = crossed
          BY <2>2, UpdateTyped DEF observers
      <3> QED
          BY <3>1, ClientSlot DEF Underway
    <2>3. CASE Finish(i)
        BY <2>3, ClientFinish
    <2>4. CASE FinishRefused(i) \/ RequestDies(i)
      <3>1. /\ request[i] \in Request /\ AnswerOnly(i, "refused")
            /\ product' = product /\ form' = form /\ crossed' = crossed
          BY <2>4, RefusedTyped DEF observers
      <3> QED
          BY <3>1, ClientSlot
    <2>5. CASE Answered(i)
        BY <2>5, ClientAnswered
    <2> QED
        BY <1>4, <2>1, <2>2, <2>3, <2>4, <2>5 DEF RequestStep
  <1>5. ASSUME NEW status \in {"none", "draft", "ready"}, ApiPatch(status) PROVE Client'
      BY <1>5, ClientApi
  <1>6. CASE Delete
    <2>1. /\ product'.fields = product.fields
          /\ request' = request /\ form' = form /\ crossed' = crossed
        BY <1>6, DeleteTyped DEF observers
    <2> QED
        BY <1>1, <2>1
  <1> QED
      BY <1>2, <1>3, <1>4, <1>5, <1>6 DEF Next

-----------------------------------------------------------------------------
LEMMA InitEstablishes == Init => IInv
  <1> SUFFICES ASSUME Init PROVE IInv
      OBVIOUS
  <1>1. TypeOK
      BY InitTypes
  <1>2. Server
    <2>1. Carries /\ Locking
        BY DEF Init, Carries, Locking, At
    <2>2. ReadyIsComplete /\ DraftFollowsProduct
        BY DEF Init, ReadyIsComplete, DraftFollowsProduct
    <2> QED
        BY <2>1, <2>2 DEF Server
  <1>3. Client
    <2>1. \A t \in Tabs : From(t) = {} /\ form[t] = Away
        BY DEF Init, From
    <2>2. Forms
      <3>1. \A t \in Tabs : ~ form[t].timer
          BY <2>1 DEF Away
      <3> QED
          BY <2>1, <3>1 DEF Forms, FormSound
    <2>3. Tracking
        BY <2>1 DEF Tracking, Tracked, Away
    <2> QED
        BY <2>2, <2>3 DEF Client
  <1> QED
      BY <1>1, <1>2, <1>3 DEF IInv

LEMMA NextPreserves == IInv /\ [Next]_vars => IInv'
  <1> SUFFICES ASSUME IInv, [Next]_vars PROVE IInv'
      OBVIOUS
  <1>1. TypeOK /\ Server /\ Client /\ Forms
      BY DEF IInv, Client
  <1>2. TypeOK' /\ Server'
      BY <1>1, ServerNext
  <1>3. Client'
      BY <1>1, ClientNext
  <1> QED
      BY <1>2, <1>3 DEF IInv

(* Every state satisfies the inductive invariant.                          *)
THEOREM Invariance == Spec => []IInv
  BY InitEstablishes, NextPreserves, PTL DEF Spec

(* Requests, forms, the row and its draft keep their types (the shapes of  *)
(* patch_product's inputs and of the two tables).                          *)
THEOREM TypeCorrect == Spec => []TypeOK
  <1>1. IInv => TypeOK
      BY DEF IInv
  <1> QED
      BY <1>1, Invariance, PTL

(* A ready product is complete unless a PATCH that need not look left the  *)
(* gap (patch_product steps 5 and 6), whatever transactions overlap.       *)
THEOREM ReadyComplete == Spec => []ReadyIsComplete
  <1>1. IInv => ReadyIsComplete
      BY DEF IInv, Server
  <1> QED
      BY <1>1, Invariance, PTL

(* The draft is the product as last autosaved and counts every autosave:   *)
(* upsert_draft loses no update, thanks to the lock the merge before it    *)
(* holds on the product's row.                                             *)
THEOREM DraftFollows == Spec => []DraftFollowsProduct
  <1>1. IInv => DraftFollowsProduct
      BY DEF IInv, Server
  <1> QED
      BY <1>1, Invariance, PTL

(* What a form shows as saved is stored (performAutosave), except for the  *)
(* causes SavedIsStored names.                                             *)
THEOREM SavedStored == Spec => []SavedIsStored
  <1>1. IInv => SavedIsStored
      BY DEF IInv, Client, Tracking, Tracked, Stored, SavedIsStored
  <1> QED
      BY <1>1, Invariance, PTL
=============================================================================
