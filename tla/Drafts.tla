------------------------------- MODULE Drafts -------------------------------
(***************************************************************************)
(* A product and its autosave draft: the catalog form in several tabs      *)
(* (mfe-catalog catalog-form), PATCH /products/{id} as transactions over   *)
(* products and product_drafts, and API clients that change the status     *)
(* (modules/catalog/service.py, repository.py).                            *)
(*                                                                         *)
(* A value is the number of the edit that gave it, 0 for a key that is not *)
(* there.  The first UPDATE takes the row's lock and the commit releases   *)
(* it; between them nobody sees what is written, so all that follows the   *)
(* merge is one step with the commit.  The session keeps the status it     *)
(* read first: SQLAlchemy reloads only the columns an UPDATE expired, and  *)
(* writes an attribute only when it changed.  The rules between fields are *)
(* part of completeness, and the three seconds after which "saved" goes    *)
(* away are left out.                                                      *)
(***************************************************************************)
EXTENDS Naturals, FiniteSets

CONSTANTS
    Fields,      \* the fields of the category's schema
    Compulsory,  \* those that must be filled before the product is ready
    Tabs,        \* the tabs with the form
    Slots,       \* the places of requests under way: their number is the bound
    MaxEdits,    \* bound on the values entered
    MaxPatches,  \* bound on the requests of API clients
    MaxFaults,   \* bound on requests that die and answers that are lost
    MaxLoads     \* bound on loads of the form

ASSUME DraftsAssumption ==
    /\ Compulsory \subseteq Fields
    /\ {"api", "gone"} \cap Tabs = {}
    /\ "none" \notin Slots
    /\ MaxEdits \in Nat /\ MaxPatches \in Nat
    /\ MaxFaults \in Nat /\ MaxLoads \in Nat

VARIABLES
    kind,     \* what each value entered is worth, "none" when not entered yet
    product,  \* products: fields_jsonb, status, deleted_at
    draft,    \* product_drafts: the snapshot and autosave_count, 0 for no row
    lock,     \* the transaction that holds the lock of the product's row
    request,  \* the PATCH requests under way
    form,     \* the form of each tab
    patches, faults, loads,
    (***********************************************************************)
    (* Observers: they are never read by an action.                        *)
    (***********************************************************************)
    saves,     \* autosaves that committed
    bypassed,  \* fields were written without a snapshot since the last one
    loose,     \* a PATCH that may do so left a ready product incomplete
    crossed    \* tabs whose values another write, or an overlap of their own
               \* saves, may have overtaken

server == <<product, draft, lock>>
counters == <<patches, faults, loads>>
observers == <<saves, bypassed, loose, crossed>>
vars == <<kind, product, draft, lock, request, form, patches, faults, loads,
          saves, bypassed, loose, crossed>>

None == "none"
Empty == [at |-> "none"]
Edits == 1 .. MaxEdits
Values == [Fields -> 0 .. MaxEdits]
NoValues == [f \in Fields |-> 0]
Kinds == {"filled", "blank", "invalid"}
Away == [at |-> "away", values |-> NoValues, timer |-> FALSE, status |-> "idle",
         loaned |-> FALSE]

Request ==
    [at : {"sent", "read", "merged", "ok", "refused"}, from : Tabs \cup {"api", "gone"},
     patch : Values, status : {"none", "draft", "ready"}, autosave : BOOLEAN,
     seen : [fields : Values, status : {"draft", "ready"}],
     merged : Values, count : Nat]

TypeOK ==
    /\ kind \in [Edits -> Kinds \cup {"none"}]
    /\ product \in [fields : Values, status : {"draft", "ready"}, deleted : BOOLEAN]
    /\ draft \in [fields : Values, count : Nat]
    /\ lock \in Slots \cup {None}
    /\ request \in [Slots -> Request \cup {Empty}]
    /\ form \in [Tabs -> [at : {"away", "open"}, values : Values, timer : BOOLEAN,
                          status : {"idle", "saving", "saved", "error"},
                          loaned : BOOLEAN]]
    /\ patches \in 0 .. MaxPatches
    /\ faults \in 0 .. MaxFaults
    /\ loads \in 0 .. MaxLoads
    /\ saves \in Nat
    /\ bypassed \in BOOLEAN
    /\ loose \in BOOLEAN
    /\ crossed \subseteq Tabs

Init ==
    /\ kind = [e \in Edits |-> "none"]
    /\ product = [fields |-> NoValues, status |-> "draft", deleted |-> FALSE]
    /\ draft = [fields |-> NoValues, count |-> 0]
    /\ lock = None
    /\ request = [i \in Slots |-> Empty]
    /\ form = [t \in Tabs |-> Away]
    /\ patches = 0 /\ faults = 0 /\ loads = 0
    /\ saves = 0
    /\ bypassed = FALSE
    /\ loose = FALSE
    /\ crossed = {}

Fault == faults < MaxFaults /\ faults' = faults + 1

-----------------------------------------------------------------------------
(* Values.                                                                 *)

Unused == {e \in Edits : kind[e] = "none"}
NextEdit == CHOOSE e \in Unused : TRUE

Enter(k) ==
    /\ Unused # {}
    /\ kind' = [kind EXCEPT ![NextEdit] = k]

\* Mutant: what is stored wins.
MergedUnder(fields, patch) ==
    [f \in Fields |-> IF fields[f] # 0 THEN fields[f] ELSE patch[f]]

(* fields_jsonb || patch                                                   *)
Merged(fields, patch) ==
    [f \in Fields |-> IF patch[f] # 0 THEN patch[f] ELSE fields[f]]

Valid(patch) == \A f \in Fields : patch[f] # 0 => kind[patch[f]] # "invalid"
Complete(fields) ==
    \A f \in Compulsory : fields[f] # 0 /\ kind[fields[f]] = "filled"

-----------------------------------------------------------------------------
(* The form.                                                               *)

Free == {i \in Slots : request[i] = Empty}
FreeSlot == CHOOSE i \in Free : TRUE
From(t) == {i \in Slots : request[i] # Empty /\ request[i].from = t}

Patch(from, patch, status, autosave) ==
    [at |-> "sent", from |-> from, patch |-> patch, status |-> status,
     autosave |-> autosave, seen |-> [fields |-> NoValues, status |-> "draft"],
     merged |-> NoValues, count |-> 0]

(* ngOnInit: the draft fills the form; without one, and when the request   *)
(* for it fails, the form is empty.                                        *)
Load(t) ==
    /\ form[t].at = "away"
    /\ ~ product.deleted
    /\ loads < MaxLoads
    /\ loads' = loads + 1
    /\ \/ /\ form' = [form EXCEPT ![t] = [Away EXCEPT !.at = "open",
                                                      !.values = draft.fields]]
          /\ UNCHANGED faults
       \/ /\ Fault
          /\ form' = [form EXCEPT ![t] = [Away EXCEPT !.at = "open"]]
    /\ crossed' = crossed \ {t}
    /\ UNCHANGED <<kind, server, request, patches, saves, bypassed, loose>>

(* onFieldBlur, onFieldChange: the debounce starts again.                  *)
Edit(t, f) ==
    /\ form[t].at = "open"
    /\ \E k \in Kinds : Enter(k)
    /\ form' = [form EXCEPT ![t].values[f] = NextEdit, ![t].timer = TRUE]
    /\ UNCHANGED <<server, request, counters, observers>>

(* applySuggestion: nothing is scheduled.                                  *)
ApplySuggestion(t, f) ==
    /\ form[t].at = "open"
    /\ Enter("filled")
    /\ form' = [form EXCEPT ![t].values[f] = NextEdit, ![t].loaned = TRUE]
    /\ UNCHANGED <<server, request, counters, observers>>

(* performAutosave: all values, whatever save is still under way.          *)
PerformAutosave(t) ==
    /\ form[t].timer
    /\ Free # {}
    /\ request' = [request EXCEPT ![FreeSlot] =
                      Patch(t, form[t].values, "none", TRUE)]
    /\ form' = [form EXCEPT ![t].timer = FALSE, ![t].status = "saving",
                            ![t].loaned = FALSE]
    /\ crossed' = IF From(t) # {} THEN crossed \cup {t} ELSE crossed
    /\ UNCHANGED <<kind, server, counters, saves, bypassed, loose>>

(* onNext, onCancel, a closed tab: the debounce goes, the requests do not. *)
Leave(t) ==
    /\ form[t].at = "open"
    /\ form' = [form EXCEPT ![t] = Away]
    /\ request' = [i \in Slots |->
                      IF i \notin From(t) THEN request[i]
                      ELSE IF request[i].at \in {"ok", "refused"} THEN Empty
                      ELSE [request[i] EXCEPT !.from = "gone"]]
    /\ crossed' = crossed \ {t}
    /\ UNCHANGED <<kind, server, counters, saves, bypassed, loose>>

Answered(i) ==
    /\ request[i] # Empty
    /\ request[i].at \in {"ok", "refused"}
    /\ request' = [request EXCEPT ![i] = Empty]
    /\ form' = [form EXCEPT ![request[i].from].status =
                    IF request[i].at = "ok" THEN "saved" ELSE "error"]
    /\ UNCHANGED <<kind, server, counters, observers>>

(* An API client sends a status, with or without a field: a new value or   *)
(* one entered before.                                                     *)
ApiPatch(status) ==
    /\ patches < MaxPatches
    /\ patches' = patches + 1
    /\ Free # {}
    /\ \/ /\ request' = [request EXCEPT ![FreeSlot] =
                            Patch("api", NoValues, status, FALSE)]
          /\ UNCHANGED kind
       \/ \E f \in Fields, e \in Edits :
             /\ \/ kind[e] # "none" /\ UNCHANGED kind
                \/ e \in Unused /\ e = NextEdit /\ \E k \in Kinds : Enter(k)
             /\ request' = [request EXCEPT ![FreeSlot] =
                    Patch("api", [NoValues EXCEPT ![f] = e], status, FALSE)]
    /\ UNCHANGED <<server, form, faults, loads, observers>>

-----------------------------------------------------------------------------
(* patch_product.                                                          *)

At(i, where) == request[i] # Empty /\ request[i].at = where

(* The answer, to a form that is still there.                              *)
Ends(i, how) ==
    request' = [request EXCEPT ![i] =
        IF request[i].from \notin Tabs THEN Empty
        ELSE [Patch(request[i].from, NoValues, "none", FALSE) EXCEPT !.at = how]]
Refused(i) == Ends(i, "refused")

Released(i) == IF lock = i THEN None ELSE lock

(* The row as the session first reads it, and the checks of the values.    *)
Read(i) ==
    /\ At(i, "sent")
    /\ \/ /\ product.deleted \/ ~ Valid(request[i].patch)
          /\ Refused(i)
       \/ /\ ~ product.deleted /\ Valid(request[i].patch)
          /\ request' = [request EXCEPT
                ![i].at = IF request[i].patch = NoValues THEN "merged" ELSE "read",
                ![i].seen = [fields |-> product.fields, status |-> product.status],
                ![i].merged = product.fields]
    /\ UNCHANGED <<kind, server, form, counters, observers>>

(* One transaction at a time gets past its first UPDATE of the row.        *)
Unlocked(i) == lock = None

(* update_fields_jsonb, and the count upsert_draft reads under its lock.   *)
Update(i) ==
    /\ At(i, "read")
    /\ Unlocked(i)
    /\ \/ /\ product.deleted
          /\ Refused(i)
          /\ UNCHANGED lock
       \/ /\ ~ product.deleted
          /\ lock' = i
          /\ request' = [request EXCEPT
                ![i].at = "merged",
                ![i].merged = Merged(product.fields, request[i].patch),
                ![i].count = draft.count]
    /\ UNCHANGED <<kind, product, draft, form, counters, observers>>

\* Mutant: completeness is looked up in the row as it was read.
CheckedAsRead(i) == Merged(request[i].seen.fields, request[i].patch)

(* What the ready transition looks at.                                     *)
Checked(i) == request[i].merged

\* Mutant: the snapshot is the row as it was read, with the patch.
SnapshotAsRead(i) == Merged(request[i].seen.fields, request[i].patch)

(* What upsert_draft stores.                                               *)
Snapshot(i) == request[i].merged

(* The status the commit leaves: written when it is not the one read.      *)
StatusLeft(r) ==
    IF r.status \notin {"none", r.seen.status} THEN r.status ELSE product.status

(* Not asked for "ready", or asked for it on a row another wrote since.    *)
MayLeaveGaps(r) ==
    \/ r.status # "ready"
    \/ r.patch = NoValues /\ r.seen.fields # product.fields

Writes(r) == r.patch # NoValues \/ r.status \notin {"none", r.seen.status}

(* The status, the snapshot and the commit.                                *)
Finish(i) ==
    LET r == request[i]
        fields == IF r.patch = NoValues THEN product.fields ELSE r.merged
    IN  /\ At(i, "merged")
        /\ ~ product.deleted
        /\ r.status = "ready" => Complete(Checked(i))
        /\ lock = i \/ ~ Writes(r) \/ lock = None
        /\ product' = [product EXCEPT !.fields = fields, !.status = StatusLeft(r)]
        /\ draft' = IF r.autosave THEN [fields |-> Snapshot(i), count |-> r.count + 1]
                    ELSE draft
        /\ lock' = Released(i)
        /\ Ends(i, "ok")
        /\ saves' = IF r.autosave THEN saves + 1 ELSE saves
        /\ bypassed' = (~ r.autosave /\ (bypassed \/ r.patch # NoValues))
        /\ loose' = (/\ product'.status = "ready"
                     /\ ~ Complete(fields)
                     /\ loose \/ MayLeaveGaps(r))
        /\ crossed' = IF r.patch = NoValues THEN crossed
                      ELSE crossed \cup {t \in Tabs \ {r.from} : form[t].at = "open"}
        /\ UNCHANGED <<kind, form, counters>>

(* Missing fields are refused, and the transaction is rolled back.         *)
FinishRefused(i) ==
    /\ At(i, "merged")
    /\ \/ product.deleted
       \/ request[i].status = "ready" /\ ~ Complete(Checked(i))
    /\ Refused(i)
    /\ lock' = Released(i)
    /\ UNCHANGED <<kind, product, draft, form, counters, observers>>

(* The database refuses or the process dies, or only the answer is lost.   *)
RequestDies(i) ==
    /\ request[i] # Empty
    /\ request[i].at # "refused"
    /\ Fault
    /\ Refused(i)
    /\ lock' = Released(i)
    /\ UNCHANGED <<kind, product, draft, form, patches, loads, observers>>

(* soft_delete                                                             *)
Delete ==
    /\ ~ product.deleted
    /\ lock = None
    /\ product' = [product EXCEPT !.deleted = TRUE]
    /\ UNCHANGED <<kind, draft, lock, request, form, counters, observers>>

-----------------------------------------------------------------------------
TabStep(t) ==
    \/ Load(t) \/ Leave(t)
    \/ \E f \in Fields : Edit(t, f) \/ ApplySuggestion(t, f)

RequestStep(i) == Read(i) \/ Update(i) \/ Finish(i) \/ FinishRefused(i) \/ Answered(i)

Next ==
    \/ \E t \in Tabs : TabStep(t) \/ PerformAutosave(t)
    \/ \E i \in Slots : RequestStep(i) \/ RequestDies(i)
    \/ \E status \in {"none", "draft", "ready"} : ApiPatch(status)
    \/ Delete

Spec == Init /\ [][Next]_vars

-----------------------------------------------------------------------------
(* Properties.                                                             *)

(* A ready product is complete, unless a PATCH that did not ask for ready  *)
(* was merged into it, or one without fields asked for ready on a row that *)
(* another wrote since it was read (patch_product steps 5 and 6).          *)
ReadyIsComplete ==
    product.status = "ready" => Complete(product.fields) \/ loose

(* The draft that fills the form again is the product as of its last       *)
(* autosave, and counts every autosave (upsert_draft under the row lock),  *)
(* unless a PATCH without the autosave header wrote fields since.          *)
DraftFollowsProduct ==
    /\ draft.count = saves
    /\ saves > 0 /\ ~ bypassed => draft.fields = product.fields

(* A form that shows "Saved" and has nothing under way has its values in   *)
(* the product, unless another client wrote, two of its saves overlapped,  *)
(* or a suggestion was applied since.                                      *)
SavedIsStored ==
    \A t \in Tabs :
        /\ form[t].status = "saved"
        /\ ~ form[t].timer
        /\ From(t) = {}
        => \/ t \in crossed
           \/ form[t].loaned
           \/ \A f \in Fields :
                  form[t].values[f] \in {0, product.fields[f]}
=============================================================================
