---------------------------- MODULE ImagesProofs ----------------------------
(***************************************************************************)
(* Proofs about Images for any number of slots, uploads, polls, attempts,  *)
(* faults and page loads: type correctness, and the three invariants the   *)
(* run checks, from the inductive invariant IInv.                          *)
(***************************************************************************)
EXTENDS Images, TLAPS, FiniteSetTheorems

Active == Running \cup {"queued"}
Past3 == {"free", "stored", "enqueued"}

(* A row names the upload that inserted it, and an answer its row.         *)
Rows ==
    \A s \in Slots :
        /\ row[s].image = 0 <=> row[s].status = "none"
        /\ row[s].image # 0 => /\ upload[row[s].image].slot = s
                               /\ upload[row[s].image].at \in {"ok", "over"}

(* An upload past the look at its slot found it empty; what is stored at   *)
(* the path is its own or that of another one that did; inserts into one   *)
(* slot exclude each other.                                                *)
Posts ==
    \A u \in Uploads :
        /\ upload[u].at \in Past3 => u \in early
        /\ upload[u].at \in {"stored", "enqueued"} =>
               object[upload[u].slot] \in {u} \cup early
        /\ upload[u].at = "enqueued" =>
               /\ row[upload[u].slot].image = 0
               /\ \A v \in Uploads :
                      upload[v].at = "enqueued" /\ upload[v].slot = upload[u].slot
                          => v = u
        /\ upload[u].at = "ok" => row[upload[u].slot].image = u

(* What a delivery is about, what it found, and what it fetched.           *)
Deliveries ==
    \A d \in Jobs :
        /\ d > MaxUploads + faults => job[d].at = "none"
        /\ job[d].at \in Active =>
               job[d].image \in Uploads /\ upload[job[d].image].at # "new"
        /\ job[d].at \in Active /\ d \in Uploads => job[d].image = d
        /\ job[d].at \in Running => Found(d)
        /\ job[d].at = "fetched" =>
               /\ job[d].bytes \in Uploads
               /\ \/ job[d].bytes = job[d].image
                  \/ object[SlotOf(d)] \in early \ {job[d].image}

Carried(u) == \E d \in Jobs : job[d].image = u /\ job[d].at \in Active

(* PendingIsCarried, from the moment the task is enqueued.                 *)
SentIsCarried ==
    /\ \A u \in Uploads : upload[u].at = "enqueued" => u \in dropped \/ Carried(u)
    /\ \A s \in Slots : row[s].status = "pending" =>
           row[s].image \in dropped \/ Carried(row[s].image)

(* A poll cycle starts when a row is committed: its lists have a row.      *)
Polls ==
    /\ Open(poll) => \E s \in Slots : row[s].image # 0
    /\ poll.at = "waiting" => poll.n < MaxPolls
    /\ poll.at = "listed" => poll.list # NoView

StoreInv == Rows /\ Posts /\ Deliveries /\ VerdictOfOwnBytes /\ SentIsCarried

IInv == TypeOK /\ StoreInv /\ Polls /\ PendingIsPolled

-----------------------------------------------------------------------------
(* Types.                                                                  *)

Ats == InFlight \cup {"new", "over"}
UploadType == [at : Ats, slot : Slots, batch : 0 .. MaxUploads, good : BOOLEAN,
               again : BOOLEAN, here : BOOLEAN]
JobType == [at : Running \cup {"none", "queued", "over"}, image : 0 .. MaxUploads,
            tries : 0 .. MaxTries, bytes : 0 .. MaxUploads]

LEMMA Ranges ==
    /\ \A u \in Uploads : u \in 0 .. MaxUploads
    /\ \A s \in Slots : s \in Nat \ {0} /\ s <= MaxSlots
    /\ 0 \in 0 .. MaxUploads /\ 0 \in 0 .. MaxTries /\ 0 \in 0 .. MaxPolls
    /\ 1 \in Slots
  BY ImagesAssumption DEF Uploads, Slots

LEMMA Constants ==
    /\ NoUpload \in UploadType
    /\ NoJob \in JobType
    /\ \A u \in Uploads : FirstDelivery(u) \in JobType
    /\ NoView \in [Slots -> Statuses]
    /\ \A s \in Slots, u \in Uploads, good, again \in BOOLEAN :
           Post(s, u, good, again) \in UploadType
  <1>1. NoUpload \in UploadType
      BY Ranges DEF NoUpload, UploadType, Ats, InFlight
  <1>2. NoJob \in JobType /\ \A u \in Uploads : FirstDelivery(u) \in JobType
      BY Ranges DEF NoJob, FirstDelivery, JobType, Running
  <1>3. NoView \in [Slots -> Statuses]
      BY DEF NoView, Statuses
  <1>4. \A s \in Slots, u \in Uploads, good, again \in BOOLEAN :
           Post(s, u, good, again) \in UploadType
      BY Ranges DEF Post, UploadType, Ats, InFlight
  <1> QED
      BY <1>1, <1>2, <1>3, <1>4

LEMMA InitTypes == Init => TypeOK
  <1> SUFFICES ASSUME Init PROVE TypeOK
      OBVIOUS
  <1>1. upload \in [Uploads -> UploadType] /\ job \in [Jobs -> JobType]
      BY Constants DEF Init
  <1>2. /\ view \in [Slots -> Statuses]
        /\ poll \in [at : {"none", "closed", "waiting", "listed"}, n : 0 .. MaxPolls,
                     list : [Slots -> Statuses]]
      BY Constants, Ranges DEF Init, NoPoll
  <1>3. /\ object \in [Slots -> 0 .. MaxUploads]
        /\ row \in [Slots -> [image : 0 .. MaxUploads, status : Statuses]]
      BY Ranges DEF Init, NoRow, Statuses
  <1>4. target \in 0 .. MaxSlots /\ faults \in 0 .. MaxFaults /\ loads \in 0 .. MaxLoads
      BY ImagesAssumption, SMT DEF Init
  <1>5. disabled \in BOOLEAN /\ quit \in BOOLEAN
      BY DEF Init
  <1>6. early \subseteq Uploads /\ dropped \subseteq Uploads /\ reset \subseteq Slots
      BY DEF Init
  <1> QED
      BY <1>1, <1>2, <1>3, <1>4, <1>5, <1>6 DEF TypeOK, UploadType, JobType, Ats

(* The types of one upload and of one delivery.                            *)
LEMMA Typed ==
    ASSUME TypeOK
    PROVE  /\ upload \in [Uploads -> UploadType]
           /\ job \in [Jobs -> JobType]
           /\ \A u \in Uploads : /\ upload[u] \in UploadType
                                 /\ upload[u].slot \in Slots
                                 /\ upload[u].at \in Ats
                                 /\ Past(u) \in UploadType
           /\ \A d \in Jobs : /\ job[d] \in JobType
                              /\ job[d].image \in 0 .. MaxUploads
                              /\ job[d].bytes \in 0 .. MaxUploads
                              /\ job[d].tries \in 0 .. MaxTries
  <1>1. upload \in [Uploads -> UploadType] /\ job \in [Jobs -> JobType]
      BY DEF TypeOK, UploadType, JobType, Ats
  <1>2. \A u \in Uploads : Past(u) \in UploadType
      BY <1>1, Ranges DEF UploadType, Past
  <1> QED
      BY <1>1, <1>2 DEF UploadType, JobType

(* What an action of the page does to the uploads.                         *)
PageMoves ==
    \A u \in Uploads :
        \/ upload[u].at = "new" /\ upload'[u].at \in {"new", "sent"}
        \/ /\ upload'[u].slot = upload[u].slot
           /\ upload'[u].good = upload[u].good
           /\ \/ upload'[u].at = upload[u].at
              \/ upload[u].at \in {"ok", "refused"} /\ upload'[u].at = "over"

LEMMA Selected ==
    ASSUME TypeOK, NEW n \in 1 .. MaxSlots, SelectFiles(n)
    PROVE  upload' \in [Uploads -> UploadType] /\ PageMoves
  <1>1. Cardinality(Shown) \in Nat
    <2>1. IsFiniteSet(Slots)
        BY ImagesAssumption, FS_Interval DEF Slots
    <2>2. IsFiniteSet(Shown)
        BY <2>1, FS_Subset DEF Shown
    <2> QED
        BY <2>2, FS_CardinalityType
  <1>1a. PICK first \in Uploads : \E good :
            /\ first .. (first + n - 1) \subseteq Fresh
            /\ good \in [first .. (first + n - 1) -> BOOLEAN]
            /\ upload' = [u \in Uploads |->
                   IF u \in first .. (first + n - 1)
                   THEN Post(Cardinality(Shown) + 1 + (u - first), first, good[u], FALSE)
                   ELSE upload[u]]
      BY DEF SelectFiles
  <1>2. PICK good :
            /\ first .. (first + n - 1) \subseteq Fresh
            /\ good \in [first .. (first + n - 1) -> BOOLEAN]
            /\ upload' = [u \in Uploads |->
                   IF u \in first .. (first + n - 1)
                   THEN Post(Cardinality(Shown) + 1 + (u - first), first, good[u], FALSE)
                   ELSE upload[u]]
      BY <1>1a
  <1>3. Cardinality(Shown) + n <= MaxSlots
      BY DEF SelectFiles
  <1>4. ASSUME NEW u \in Uploads, u \in first .. (first + n - 1)
        PROVE  /\ upload'[u] \in UploadType
               /\ upload[u].at = "new" /\ upload'[u].at = "sent"
    <2>1. Cardinality(Shown) + 1 + (u - first) \in Slots
        BY <1>1, <1>3, <1>4, ImagesAssumption DEF Slots, Uploads
    <2>2. upload'[u] = Post(Cardinality(Shown) + 1 + (u - first), first, good[u], FALSE)
        BY <1>2, <1>4
    <2>3. good[u] \in BOOLEAN
        BY <1>2, <1>4
    <2>4. upload'[u] \in UploadType
        BY <2>1, <2>2, <2>3, Constants
    <2>5. upload'[u].at = "sent"
        BY <2>2 DEF Post
    <2>6. upload[u].at = "new"
        BY <1>2, <1>4 DEF Fresh
    <2> QED
        BY <2>4, <2>5, <2>6
  <1>5. ASSUME NEW u \in Uploads, u \notin first .. (first + n - 1)
        PROVE  upload'[u] = upload[u] /\ upload'[u] \in UploadType
      BY <1>2, <1>5, Typed
  <1>6. upload' \in [Uploads -> UploadType]
      BY <1>2, <1>4, <1>5
  <1> QED
      BY <1>4, <1>5, <1>6 DEF PageMoves

(* What the page's part of an action keeps of the rest.                    *)
StoreKept ==
    /\ upload' \in [Uploads -> UploadType]
    /\ PageMoves
    /\ UNCHANGED <<object, row, job, early, dropped>>

LEMMA OverMoves ==
    ASSUME TypeOK, NEW u \in Uploads, upload[u].at \in {"ok", "refused"},
           upload' = Over(u)
    PROVE  upload' \in [Uploads -> UploadType] /\ PageMoves
  <1>1. [Past(u) EXCEPT !.at = "over"] \in UploadType
      BY Typed DEF UploadType, Ats
  <1>2. upload' = [upload EXCEPT ![u] = [Past(u) EXCEPT !.at = "over"]]
      BY DEF Over
  <1>3. upload' \in [Uploads -> UploadType]
      BY <1>1, <1>2, Typed
  <1>4. /\ upload'[u].at = "over"
        /\ upload'[u].slot = upload[u].slot
        /\ upload'[u].good = upload[u].good
    <2>1. upload'[u] = [Past(u) EXCEPT !.at = "over"]
        BY <1>2, Typed
    <2>2. upload[u] \in UploadType
        BY Typed
    <2> QED
        BY <2>1, <2>2 DEF Past, UploadType
  <1>5. \A v \in Uploads \ {u} : upload'[v] = upload[v]
      BY <1>2, Typed
  <1> QED
      BY <1>3, <1>4, <1>5 DEF PageMoves

LEMMA SameMoves ==
    ASSUME TypeOK, UNCHANGED upload
    PROVE  upload' \in [Uploads -> UploadType] /\ PageMoves
  BY Typed DEF PageMoves

LEMMA PageKeeps ==
    ASSUME TypeOK, PageStep \/ AnswerStep
    PROVE  StoreKept
  <1>1. ASSUME NEW n \in 1 .. MaxSlots, SelectFiles(n) PROVE StoreKept
      BY <1>1, Selected DEF SelectFiles, StoreKept, observers
  <1>2. ASSUME NEW s \in Slots, OnReupload(s) PROVE StoreKept
      BY <1>2, SameMoves DEF OnReupload, StoreKept, store
  <1>3. ASSUME OnReuploadFileSelected PROVE StoreKept
    <2>1. PICK u \in Uploads, good \in BOOLEAN :
              /\ IsNext(u)
              /\ upload' = IF view[target] = "none" THEN upload
                           ELSE [upload EXCEPT ![u] = Post(target, u, good, TRUE)]
        BY <1>3 DEF OnReuploadFileSelected
    <2>2. CASE upload' = upload
        BY <1>3, <2>2, SameMoves DEF OnReuploadFileSelected, StoreKept, observers
    <2>3. CASE upload' = [upload EXCEPT ![u] = Post(target, u, good, TRUE)]
      <3>1. target \in Slots
          BY <1>3 DEF OnReuploadFileSelected, TypeOK, Slots
      <3>2. Post(target, u, good, TRUE) \in UploadType
          BY <3>1, Constants
      <3>3. upload' \in [Uploads -> UploadType]
          BY <2>3, <3>2, Typed
      <3>4. upload[u].at = "new" /\ upload'[u].at = "sent"
          BY <2>1, <2>3, Typed DEF IsNext, Fresh, Post
      <3>5. \A v \in Uploads \ {u} : upload'[v] = upload[v]
          BY <2>3, Typed
      <3>6. PageMoves
          BY <3>4, <3>5 DEF PageMoves
      <3> QED
          BY <1>3, <3>3, <3>6 DEF OnReuploadFileSelected, StoreKept, observers
    <2> QED
        BY <2>1, <2>2, <2>3
  <1>4. ASSUME Load PROVE StoreKept
    <2>1. upload' = [u \in Uploads |-> Past(u)]
        BY <1>4 DEF Load
    <2>2. upload' \in [Uploads -> UploadType]
        BY <2>1, Typed
    <2>3. ASSUME NEW u \in Uploads
          PROVE  /\ upload'[u].slot = upload[u].slot
                 /\ upload'[u].good = upload[u].good
                 /\ upload'[u].at = upload[u].at
        BY <2>1, Typed DEF Past, UploadType
    <2>4. PageMoves
        BY <2>3 DEF PageMoves
    <2> QED
        BY <1>4, <2>2, <2>4 DEF Load, StoreKept
  <1>5. ASSUME PollFails PROVE StoreKept
      BY <1>5, SameMoves DEF PollFails, StoreKept, store
  <1>6. ASSUME NEW u \in Uploads, UploadAccepted(u) PROVE StoreKept
      BY <1>6, OverMoves DEF UploadAccepted, StoreKept
  <1>7. ASSUME NEW u \in Uploads, UploadRefused(u) PROVE StoreKept
      BY <1>7, OverMoves DEF UploadRefused, StoreKept, observers
  <1>8. ASSUME PollServed \/ PollAnswered PROVE StoreKept
      BY <1>8, SameMoves DEF PollServed, PollAnswered, StoreKept, store, observers
  <1> QED
      BY <1>1, <1>2, <1>3, <1>4, <1>5, <1>6, <1>7, <1>8 DEF PageStep, AnswerStep

(* What a step of a request or of a task does to the uploads.              *)
LEMMA GoesMoves ==
    ASSUME TypeOK, NEW u \in Uploads, NEW to \in Ats, Goes(u, to)
    PROVE  /\ upload' \in [Uploads -> UploadType]
           /\ upload'[u].at = to
           /\ \A v \in Uploads : /\ upload'[v].slot = upload[v].slot
                                 /\ upload'[v].good = upload[v].good
                                 /\ v # u => upload'[v] = upload[v]
  <1>1. upload[u] \in UploadType
      BY Typed
  <1>2. [upload[u] EXCEPT !.at = to] \in UploadType
      BY <1>1 DEF UploadType
  <1>3. upload' = [upload EXCEPT ![u] = [upload[u] EXCEPT !.at = to]]
      BY Typed DEF Goes
  <1>4. upload'[u] = [upload[u] EXCEPT !.at = to]
      BY <1>3, Typed
  <1>5. \A v \in Uploads \ {u} : upload'[v] = upload[v]
      BY <1>3, Typed
  <1>6. /\ upload'[u].at = to
        /\ upload'[u].slot = upload[u].slot
        /\ upload'[u].good = upload[u].good
      BY <1>1, <1>4 DEF UploadType
  <1> QED
      BY <1>2, <1>3, <1>5, <1>6, Typed

(* The rest of TypeOK, by action of the page.                              *)
PageTypes ==
    /\ view \in [Slots -> Statuses]
    /\ poll \in [at : {"none", "closed", "waiting", "listed"}, n : 0 .. MaxPolls,
                 list : [Slots -> Statuses]]
    /\ target \in 0 .. MaxSlots
    /\ disabled \in BOOLEAN
    /\ faults \in 0 .. MaxFaults
    /\ loads \in 0 .. MaxLoads
    /\ reset \subseteq Slots
    /\ quit \in BOOLEAN

PollType == [at : {"none", "closed", "waiting", "listed"}, n : 0 .. MaxPolls,
             list : [Slots -> Statuses]]

LEMMA PollConstants ==
    /\ NoPoll \in PollType
    /\ Closed \in PollType
    /\ [NoPoll EXCEPT !.at = "waiting"] \in PollType
  <1>1. NoPoll \in PollType
      BY Constants, Ranges DEF NoPoll, PollType
  <1> QED
      BY <1>1 DEF PollType, Closed

LEMMA FaultTypes == ASSUME TypeOK, Fault PROVE faults' \in 0 .. MaxFaults
  BY ImagesAssumption DEF TypeOK, Fault

LEMMA PageStepTypes ==
    ASSUME TypeOK, Polls, PageStep \/ AnswerStep
    PROVE  PageTypes'
  <1> USE DEF PageTypes
  <1>0. /\ PageTypes
        /\ poll \in PollType
      BY DEF TypeOK, PollType
  <1>1. ASSUME NEW n \in 1 .. MaxSlots, SelectFiles(n) PROVE PageTypes'
      BY <1>0, <1>1 DEF SelectFiles, observers, page
  <1>2. ASSUME NEW s \in Slots, OnReupload(s) PROVE PageTypes'
    <2>1. view' \in [Slots -> Statuses] /\ target' \in 0 .. MaxSlots /\ reset' \subseteq Slots
        BY <1>0, <1>2, Ranges DEF OnReupload, Statuses
    <2> QED
        BY <1>0, <1>2, <2>1 DEF OnReupload
  <1>3. ASSUME OnReuploadFileSelected PROVE PageTypes'
    <2>1. target' \in 0 .. MaxSlots
        BY <1>3, ImagesAssumption DEF OnReuploadFileSelected
    <2> QED
        BY <1>0, <1>3, <2>1 DEF OnReuploadFileSelected, observers
  <1>4. ASSUME Load PROVE PageTypes'
    <2>1. target' \in 0 .. MaxSlots /\ loads' \in 0 .. MaxLoads
        BY <1>0, <1>4, ImagesAssumption DEF Load
    <2>2. view' \in [Slots -> Statuses] /\ poll' \in PollType
        BY <1>4, Constants, PollConstants DEF Load
    <2>3. disabled' \in BOOLEAN /\ quit' \in BOOLEAN /\ reset' \subseteq Slots
        BY <1>4 DEF Load
    <2> QED
        BY <1>0, <1>4, <2>1, <2>2, <2>3 DEF Load, PollType
  <1>5. ASSUME PollFails PROVE PageTypes'
    <2>1. poll' \in PollType /\ faults' \in 0 .. MaxFaults
        BY <1>5, PollConstants, FaultTypes DEF PollFails
    <2>2. quit' \in BOOLEAN
        BY <1>5 DEF PollFails
    <2> QED
        BY <1>0, <1>5, <2>1, <2>2 DEF PollFails, PollType
  <1>6. ASSUME NEW u \in Uploads, UploadAccepted(u) PROVE PageTypes'
    <2>1. view' \in [Slots -> Statuses]
      <3>1. view' = [view EXCEPT ![upload[u].slot] =
                        IF @ = "none" \/ upload[u].again THEN "pending" ELSE @]
          BY <1>6 DEF UploadAccepted
      <3> QED
          BY <1>0, <3>1 DEF Statuses
    <2>2. poll' \in PollType
        BY <1>0, <1>6, PollConstants DEF UploadAccepted, Polled
    <2>3. quit' \in BOOLEAN
        BY <1>6 DEF UploadAccepted
    <2> QED
        BY <1>0, <1>6, <2>1, <2>2, <2>3 DEF UploadAccepted, PollType
  <1>7. ASSUME NEW u \in Uploads, UploadRefused(u) PROVE PageTypes'
    <2>1. disabled' \in BOOLEAN
        BY <1>7 DEF UploadRefused
    <2> QED
        BY <1>0, <1>7, <2>1 DEF UploadRefused, observers
  <1>8. ASSUME PollServed PROVE PageTypes'
    <2>1. Listed \in [Slots -> Statuses]
        BY DEF Listed, TypeOK
    <2>2. poll.n + 1 \in 0 .. MaxPolls
        BY <1>0, <1>8, ImagesAssumption DEF PollServed, Polls, PollType
    <2>3. poll' \in PollType
        BY <1>0, <1>8, <2>1, <2>2 DEF PollServed, PollType
    <2> QED
        BY <1>0, <1>8, <2>3 DEF PollServed, PollType, observers
  <1>9. ASSUME PollAnswered PROVE PageTypes'
    <2>1. view' \in [Slots -> Statuses]
        BY <1>0, <1>9 DEF PollAnswered
    <2>2. poll' \in PollType
      <3>1. [poll EXCEPT !.at = "waiting", !.list = NoView] \in PollType
          BY <1>0, Constants DEF PollType
      <3> QED
          BY <1>9, <3>1, PollConstants DEF PollAnswered
    <2>3. reset' \subseteq Slots
        BY <1>0, <1>9 DEF PollAnswered
    <2>4. quit' \in BOOLEAN
        BY <1>9 DEF PollAnswered
    <2> QED
        BY <1>0, <1>9, <2>1, <2>2, <2>3, <2>4 DEF PollAnswered, PollType
  <1> QED
      BY <1>1, <1>2, <1>3, <1>4, <1>5, <1>6, <1>7, <1>8, <1>9 DEF PageStep, AnswerStep

-----------------------------------------------------------------------------
(* Types, by step of a request and of a task.                              *)

RowType == [image : 0 .. MaxUploads, status : Statuses]

StoreTypes ==
    /\ upload \in [Uploads -> UploadType]
    /\ object \in [Slots -> 0 .. MaxUploads]
    /\ row \in [Slots -> RowType]
    /\ job \in [Jobs -> JobType]
    /\ early \subseteq Uploads
    /\ dropped \subseteq Uploads

LEMMA TypeParts == TypeOK <=> StoreTypes /\ PageTypes
  BY DEF TypeOK, StoreTypes, PageTypes, RowType, UploadType, JobType, Ats

LEMMA TypePartsNext == StoreTypes' /\ PageTypes' => TypeOK'
  BY DEF TypeOK, StoreTypes, PageTypes, RowType, UploadType, JobType, Ats

LEMMA RequestTypes ==
    ASSUME TypeOK, NEW u \in Uploads, RequestStep(u) \/ RequestDies(u)
    PROVE  TypeOK'
  <1>0. StoreTypes /\ PageTypes /\ upload[u].slot \in Slots /\ upload[u].at \in Ats
      BY TypeParts, Typed
  <1>1. CASE Look(u)
    <2>1. upload' \in [Uploads -> UploadType]
        BY <1>1, GoesMoves DEF Look, Ats, InFlight
    <2>2. early' \subseteq Uploads
        BY <1>0, <1>1 DEF Look, StoreTypes
    <2>3. StoreTypes' /\ PageTypes'
        BY <1>0, <1>1, <2>1, <2>2 DEF Look, StoreTypes, PageTypes, page
    <2> QED
        BY <2>3, TypePartsNext
  <1>2. CASE Store(u)
    <2>1. upload' \in [Uploads -> UploadType]
        BY <1>2, GoesMoves DEF Store, Ats, InFlight
    <2>2. object' \in [Slots -> 0 .. MaxUploads]
        BY <1>0, <1>2, Ranges DEF Store, StoreTypes
    <2>3. StoreTypes' /\ PageTypes'
        BY <1>0, <1>2, <2>1, <2>2 DEF Store, StoreTypes, PageTypes, page, observers
    <2> QED
        BY <2>3, TypePartsNext
  <1>3. CASE InsertAndEnqueue(u)
    <2>1. upload' \in [Uploads -> UploadType]
        BY <1>3, GoesMoves DEF InsertAndEnqueue, Ats, InFlight
    <2>2. job' \in [Jobs -> JobType]
        BY <1>0, <1>3, Constants DEF InsertAndEnqueue, StoreTypes
    <2>3. StoreTypes' /\ PageTypes'
        BY <1>0, <1>3, <2>1, <2>2 DEF InsertAndEnqueue, StoreTypes, PageTypes, page, observers
    <2> QED
        BY <2>3, TypePartsNext
  <1>4. CASE Commit(u)
    <2>1. upload' \in [Uploads -> UploadType]
        BY <1>4, GoesMoves DEF Commit, Ats, InFlight
    <2>2. row' \in [Slots -> RowType]
        BY <1>0, <1>4, Ranges DEF Commit, StoreTypes, RowType, Statuses
    <2>3. StoreTypes' /\ PageTypes'
        BY <1>0, <1>4, <2>1, <2>2 DEF Commit, StoreTypes, PageTypes, page, observers
    <2> QED
        BY <2>3, TypePartsNext
  <1>5. CASE RequestDies(u)
    <2>1. upload' \in [Uploads -> UploadType]
        BY <1>5, GoesMoves DEF RequestDies, Ats, InFlight
    <2>2. faults' \in 0 .. MaxFaults
        BY <1>5, FaultTypes DEF RequestDies
    <2>3. StoreTypes' /\ PageTypes'
        BY <1>0, <1>5, <2>1, <2>2 DEF RequestDies, StoreTypes, PageTypes, page, observers
    <2> QED
        BY <2>3, TypePartsNext
  <1> QED
      BY <1>1, <1>2, <1>3, <1>4, <1>5 DEF RequestStep

(* What happens to a delivery leaves it a delivery.                        *)
LEMMA JobChanges ==
    ASSUME TypeOK, NEW d \in Jobs
    PROVE  /\ [NoJob EXCEPT !.at = "over"] \in JobType
           /\ [job[d] EXCEPT !.at = "found"] \in JobType
           /\ BackInQueue(d) \in JobType
           /\ \A b \in 0 .. MaxUploads :
                  [job[d] EXCEPT !.at = "fetched", !.bytes = b] \in JobType
           /\ job[d].tries + 1 < MaxTries =>
                  [job[d] EXCEPT !.at = "queued", !.tries = @ + 1] \in JobType
  <1>1. job[d] \in JobType
      BY Typed
  <1>2. [NoJob EXCEPT !.at = "over"] \in JobType
      BY Constants DEF JobType
  <1>3. /\ [job[d] EXCEPT !.at = "found"] \in JobType
        /\ BackInQueue(d) \in JobType
        /\ \A b \in 0 .. MaxUploads :
               [job[d] EXCEPT !.at = "fetched", !.bytes = b] \in JobType
      BY <1>1, Ranges DEF JobType, Running, BackInQueue
  <1>4. ASSUME job[d].tries + 1 < MaxTries
        PROVE  [job[d] EXCEPT !.at = "queued", !.tries = @ + 1] \in JobType
    <2>1. job[d].tries \in 0 .. MaxTries
        BY Typed
    <2>2. job[d].tries + 1 \in 0 .. MaxTries
        BY <1>4, <2>1, ImagesAssumption
    <2> QED
        BY <1>1, <2>2 DEF JobType
  <1> QED
      BY <1>2, <1>3, <1>4

LEMMA TaskTypes ==
    ASSUME TypeOK, Deliveries, NEW d \in Jobs,
           \/ TaskStep(d) \/ DownloadFails(d) \/ TaskFails(d)
           \/ WorkerLost(d) \/ DeliveredAgain(d)
    PROVE  TypeOK'
  <1>0. StoreTypes /\ PageTypes /\ job \in [Jobs -> JobType]
      BY TypeParts, Typed
  <1>1. Ended(d) \in [Jobs -> JobType]
      BY <1>0, JobChanges DEF Ended
  <1>2. job[d].at \in Active => job[d].image \in Uploads
      BY DEF Deliveries
  <1>3. CASE Lookup(d)
    <2>1. job' \in [Jobs -> JobType]
      <3>1. [job[d] EXCEPT !.at = "found"] \in JobType
          BY JobChanges
      <3>2. job' = [job EXCEPT ![d] = [job[d] EXCEPT !.at = "found"]] \/ job' = Ended(d)
          BY <1>3, <1>0 DEF Lookup
      <3> QED
          BY <1>0, <1>1, <3>1, <3>2
    <2>2. dropped' \subseteq Uploads
        BY <1>0, <1>2, <1>3 DEF Lookup, Active, StoreTypes
    <2>3. StoreTypes' /\ PageTypes'
        BY <1>0, <1>3, <2>1, <2>2 DEF Lookup, StoreTypes, PageTypes, page
    <2> QED
        BY <2>3, TypePartsNext
  <1>4. CASE Download(d)
    <2>1. object[SlotOf(d)] \in 0 .. MaxUploads
        BY <1>0, <1>2, <1>4, Typed DEF Download, SlotOf, Active, Running, StoreTypes
    <2>2. job' = [job EXCEPT ![d] = [job[d] EXCEPT !.at = "fetched",
                                                   !.bytes = object[SlotOf(d)]]]
        BY <1>0, <1>4 DEF Download
    <2>3. job' \in [Jobs -> JobType]
        BY <1>0, <2>1, <2>2, JobChanges
    <2>4. StoreTypes' /\ PageTypes'
        BY <1>0, <1>4, <2>3 DEF Download, StoreTypes, PageTypes, page, observers
    <2> QED
        BY <2>4, TypePartsNext
  <1>5. CASE DownloadFails(d)
    <2>1. job' \in [Jobs -> JobType]
      <3>1. \/ /\ job[d].tries + 1 < MaxTries
               /\ job' = [job EXCEPT ![d] = [job[d] EXCEPT !.at = "queued",
                                                           !.tries = @ + 1]]
            \/ job' = Ended(d)
          BY <1>0, <1>5 DEF DownloadFails
      <3> QED
          BY <1>0, <1>1, <3>1, JobChanges
    <2>2. dropped' \subseteq Uploads
        BY <1>0, <1>2, <1>5 DEF DownloadFails, Active, Running, StoreTypes
    <2>3. StoreTypes' /\ PageTypes'
        BY <1>0, <1>5, <2>1, <2>2 DEF DownloadFails, StoreTypes, PageTypes, page
    <2> QED
        BY <2>3, TypePartsNext
  <1>6. CASE WriteVerdict(d)
    <2>1. SlotOf(d) \in Slots
        BY <1>2, <1>6, Typed DEF WriteVerdict, SlotOf, Active, Running
    <2>2. Verdict(job[d].bytes, SlotOf(d)) \in Statuses
        BY DEF Verdict, Statuses
    <2>3. row' \in [Slots -> RowType]
      <3>1. row' = [row EXCEPT ![SlotOf(d)] =
                       [row[SlotOf(d)] EXCEPT !.status = Verdict(job[d].bytes, SlotOf(d))]]
          BY <1>0, <1>6, <2>1 DEF WriteVerdict, StoreTypes
      <3>2. [row[SlotOf(d)] EXCEPT !.status = Verdict(job[d].bytes, SlotOf(d))] \in RowType
          BY <1>0, <2>1, <2>2 DEF RowType, StoreTypes
      <3> QED
          BY <1>0, <3>1, <3>2 DEF StoreTypes
    <2>4. StoreTypes' /\ PageTypes'
        BY <1>0, <1>1, <1>6, <2>3 DEF WriteVerdict, StoreTypes, PageTypes, page, observers
    <2> QED
        BY <2>4, TypePartsNext
  <1>7. CASE TaskFails(d)
    <2>1. dropped' \subseteq Uploads /\ faults' \in 0 .. MaxFaults
        BY <1>0, <1>2, <1>7, FaultTypes DEF TaskFails, Active, StoreTypes
    <2>2. StoreTypes' /\ PageTypes'
        BY <1>0, <1>1, <1>7, <2>1 DEF TaskFails, StoreTypes, PageTypes, page
    <2> QED
        BY <2>2, TypePartsNext
  <1>8. CASE WorkerLost(d) \/ DeliveredAgain(d)
    <2>1. job' \in [Jobs -> JobType]
        BY <1>0, <1>8, JobChanges DEF WorkerLost, DeliveredAgain
    <2>2. faults' \in 0 .. MaxFaults
        BY <1>8, FaultTypes DEF WorkerLost, DeliveredAgain
    <2>3. StoreTypes' /\ PageTypes'
        BY <1>0, <1>8, <2>1, <2>2
           DEF WorkerLost, DeliveredAgain, StoreTypes, PageTypes, page, observers
    <2> QED
        BY <2>3, TypePartsNext
  <1> QED
      BY <1>3, <1>4, <1>5, <1>6, <1>7, <1>8 DEF TaskStep

LEMMA StepTypes == IInv /\ [Next]_vars => TypeOK'
  <1> SUFFICES ASSUME IInv, [Next]_vars PROVE TypeOK'
      OBVIOUS
  <1>0. TypeOK /\ Deliveries /\ Polls
      BY DEF IInv, StoreInv
  <1>1. CASE PageStep \/ AnswerStep
    <2>1. StoreTypes'
        BY <1>0, <1>1, PageKeeps, TypeParts DEF StoreKept, StoreTypes
    <2> QED
        BY <1>0, <1>1, <2>1, PageStepTypes, TypePartsNext
  <1>2. ASSUME NEW u \in Uploads, RequestStep(u) \/ RequestDies(u) PROVE TypeOK'
      BY <1>0, <1>2, RequestTypes
  <1>3. ASSUME NEW d \in Jobs,
               \/ TaskStep(d) \/ DownloadFails(d) \/ TaskFails(d)
               \/ WorkerLost(d) \/ DeliveredAgain(d)
        PROVE  TypeOK'
      BY <1>0, <1>3, TaskTypes
  <1>4. CASE UNCHANGED vars
      BY <1>0, <1>4 DEF vars, TypeOK
  <1> QED
      BY <1>1, <1>2, <1>3, <1>4 DEF Next

-----------------------------------------------------------------------------
(* StoreInv, by the page.                                                  *)

(* An upload that left "new" keeps its slot and its bytes' worth.          *)
LEMMA PageFrame ==
    ASSUME TypeOK, StoreKept, NEW u \in Uploads
    PROVE  /\ upload[u].at # "new" => /\ upload'[u].slot = upload[u].slot
                                      /\ upload'[u].good = upload[u].good
                                      /\ upload'[u].at # "new"
           /\ upload'[u].at \in Past3 \cup {"ok"} =>
                  upload[u].at = upload'[u].at /\ upload'[u].slot = upload[u].slot
           /\ upload[u].at \in {"ok", "over"} => upload'[u].at \in {"ok", "over"}
  BY DEF StoreKept, PageMoves, Past3

LEMMA RowImages ==
    ASSUME TypeOK, NEW s \in Slots, row[s].image # 0
    PROVE  row[s].image \in Uploads
  <1>1. row[s].image \in 0 .. MaxUploads
      BY DEF TypeOK
  <1> QED
      BY <1>1, ImagesAssumption DEF Uploads

LEMMA Beyond ==
    ASSUME NEW a \in Nat, NEW b \in Nat, NEW c \in Nat, NEW d \in Nat,
           d > a + c, b <= c
    PROVE  d > a + b
  OBVIOUS

LEMMA PageStore ==
    ASSUME TypeOK, StoreInv, StoreKept, faults' \in {faults, faults + 1}
    PROVE  StoreInv'
  <1>0. /\ Rows /\ Posts /\ Deliveries /\ VerdictOfOwnBytes /\ SentIsCarried
        /\ UNCHANGED <<object, row, job, early, dropped>>
        /\ faults \in Nat
      BY ImagesAssumption DEF StoreInv, StoreKept, TypeOK
  <1>1. \A s \in Slots : row[s].image # 0 => row[s].image \in Uploads
      BY RowImages
  <1>2. Rows'
      BY <1>0, <1>1, PageFrame DEF Rows
  <1>3. Posts'
    <2> SUFFICES ASSUME NEW u \in Uploads
                 PROVE  /\ upload'[u].at \in Past3 => u \in early
                        /\ upload'[u].at \in {"stored", "enqueued"} =>
                               object[upload'[u].slot] \in {u} \cup early
                        /\ upload'[u].at = "enqueued" =>
                               /\ row[upload'[u].slot].image = 0
                               /\ \A v \in Uploads :
                                      upload'[v].at = "enqueued"
                                          /\ upload'[v].slot = upload'[u].slot => v = u
                        /\ upload'[u].at = "ok" => row[upload'[u].slot].image = u
        BY <1>0 DEF Posts
    <2> QED
        BY <1>0, PageFrame DEF Posts, Past3
  <1>4. Deliveries'
    <2> SUFFICES ASSUME NEW d \in Jobs
                 PROVE  /\ d > MaxUploads + faults' => job[d].at = "none"
                        /\ job[d].at \in Active =>
                               job[d].image \in Uploads /\ upload'[job[d].image].at # "new"
                        /\ job[d].at \in Active /\ d \in Uploads => job[d].image = d
                        /\ job[d].at \in Running =>
                               row[upload'[job[d].image].slot].image = job[d].image
                        /\ job[d].at = "fetched" =>
                               /\ job[d].bytes \in Uploads
                               /\ \/ job[d].bytes = job[d].image
                                  \/ object[upload'[job[d].image].slot]
                                         \in early \ {job[d].image}
        BY <1>0 DEF Deliveries, Found, SlotOf
    <2>1. d > MaxUploads + faults' => d > MaxUploads + faults
      <3>1. faults \in Nat /\ faults' \in Nat /\ faults <= faults'
          BY <1>0
      <3>2. d \in Nat
          BY ImagesAssumption DEF Jobs
      <3>3. MaxUploads \in Nat
          BY ImagesAssumption
      <3> QED
          BY <3>1, <3>2, <3>3, Beyond
    <2>2. job[d].at \in Active =>
              /\ job[d].image \in Uploads
              /\ upload[job[d].image].at # "new"
              /\ upload'[job[d].image].at # "new"
              /\ upload'[job[d].image].slot = upload[job[d].image].slot
        BY <1>0, PageFrame DEF Deliveries
    <2> QED
        BY <1>0, <2>1, <2>2 DEF Deliveries, Found, SlotOf, Active, Running
  <1>5. VerdictOfOwnBytes'
    <2>1. \A s \in Slots : row[s].image # 0 =>
              upload'[row[s].image].good = upload[row[s].image].good
        BY <1>0, <1>1, PageFrame DEF Rows
    <2> QED
        BY <1>0, <2>1 DEF VerdictOfOwnBytes
  <1>6. SentIsCarried'
    <2>1. \A u : Carried(u)' <=> Carried(u)
        BY <1>0 DEF Carried
    <2> QED
        BY <1>0, <2>1, PageFrame DEF SentIsCarried, Past3
  <1> QED
      BY <1>2, <1>3, <1>4, <1>5, <1>6 DEF StoreInv

-----------------------------------------------------------------------------
(* StoreInv, by the steps of a request.                                    *)

LEMMA LookStore ==
    ASSUME TypeOK, StoreInv, NEW u \in Uploads, Look(u)
    PROVE  StoreInv'
  <1>0. /\ Rows /\ Posts /\ Deliveries /\ VerdictOfOwnBytes /\ SentIsCarried
        /\ UNCHANGED <<object, row, job, dropped, faults>>
        /\ early \subseteq early' /\ early' \subseteq early \cup {u}
        /\ upload[u].at = "sent"
      BY DEF StoreInv, Look, page
  <1>1. /\ upload'[u].at \in {"refused", "free"}
        /\ \A v \in Uploads : /\ upload'[v].slot = upload[v].slot
                              /\ upload'[v].good = upload[v].good
                              /\ v # u => upload'[v] = upload[v]
      BY GoesMoves DEF Look, Ats, InFlight
  <1>2. upload'[u].at = "free" => u \in early'
    <2>1. ASSUME row[upload[u].slot].image = 0 PROVE row[upload[u].slot] = NoRow
        BY <1>0, <2>1, Typed DEF Rows, NoRow, TypeOK
    <2>2. upload'[u].at = "free" => row[upload[u].slot].image = 0
        BY <1>1, GoesMoves DEF Look, Occupied, Ats, InFlight
    <2> QED
        BY <2>1, <2>2 DEF Look
  <1>3. \A s \in Slots : row[s].image # 0 => row[s].image \in Uploads \ {u}
      BY <1>0, RowImages DEF Rows
  <1>4. Rows'
      BY <1>0, <1>1, <1>3 DEF Rows
  <1>5. Posts'
      BY <1>0, <1>1, <1>2 DEF Posts, Past3
  <1>6. Deliveries'
      BY <1>0, <1>1 DEF Deliveries, Found, SlotOf, Active, Running
  <1>7. VerdictOfOwnBytes'
      BY <1>0, <1>1, <1>3 DEF VerdictOfOwnBytes
  <1>8. SentIsCarried'
      BY <1>0, <1>1 DEF SentIsCarried, Carried
  <1> QED
      BY <1>4, <1>5, <1>6, <1>7, <1>8 DEF StoreInv

LEMMA StoreStore ==
    ASSUME TypeOK, StoreInv, NEW u \in Uploads, Store(u)
    PROVE  StoreInv'
  <1>0. /\ Rows /\ Posts /\ Deliveries /\ VerdictOfOwnBytes /\ SentIsCarried
        /\ UNCHANGED <<row, job, early, dropped, faults>>
        /\ upload[u].at = "free" /\ upload[u].slot \in Slots
      BY Typed DEF StoreInv, Store, page, observers
  <1>1. /\ upload'[u].at = "stored"
        /\ \A v \in Uploads : /\ upload'[v].slot = upload[v].slot
                              /\ upload'[v].good = upload[v].good
                              /\ v # u => upload'[v] = upload[v]
      BY GoesMoves DEF Store, Ats, InFlight
  <1>2. \A s \in Slots : /\ s = upload[u].slot => object'[s] = u
                         /\ s # upload[u].slot => object'[s] = object[s]
      BY <1>0 DEF Store, TypeOK
  <1>3. u \in early
      BY <1>0 DEF Posts, Past3
  <1>4. \A s \in Slots : row[s].image # 0 => row[s].image \in Uploads \ {u}
      BY <1>0, RowImages DEF Rows
  <1>5. Rows'
      BY <1>0, <1>1, <1>4 DEF Rows
  <1>6. Posts'
    <2> SUFFICES ASSUME NEW v \in Uploads
                 PROVE  /\ upload'[v].at \in Past3 => v \in early
                        /\ upload'[v].at \in {"stored", "enqueued"} =>
                               object'[upload[v].slot] \in {v} \cup early
                        /\ upload'[v].at = "enqueued" =>
                               /\ row[upload[v].slot].image = 0
                               /\ \A w \in Uploads :
                                      upload'[w].at = "enqueued"
                                          /\ upload[w].slot = upload[v].slot => w = v
                        /\ upload'[v].at = "ok" => row[upload[v].slot].image = v
        BY <1>0, <1>1 DEF Posts
    <2>1. upload[v].slot \in Slots
        BY Typed
    <2>2. CASE v = u
        BY <1>0, <1>1, <1>2, <1>3, <2>1, <2>2 DEF Past3
    <2>3. CASE v # u
      <3>1. upload'[v] = upload[v]
          BY <1>1, <2>3
      <3>2. upload[v].at = "enqueued" =>
                \A w \in Uploads : upload'[w].at = "enqueued"
                    /\ upload[w].slot = upload[v].slot => w = v
          BY <1>0, <1>1 DEF Posts
      <3> QED
          BY <1>0, <1>2, <1>3, <2>1, <3>1, <3>2 DEF Posts
    <2> QED
        BY <2>2, <2>3
  <1>7. Deliveries'
    <2> SUFFICES ASSUME NEW d \in Jobs
                 PROVE  /\ d > MaxUploads + faults => job[d].at = "none"
                        /\ job[d].at \in Active =>
                               job[d].image \in Uploads /\ upload'[job[d].image].at # "new"
                        /\ job[d].at \in Active /\ d \in Uploads => job[d].image = d
                        /\ job[d].at \in Running =>
                               row[upload'[job[d].image].slot].image = job[d].image
                        /\ job[d].at = "fetched" =>
                               /\ job[d].bytes \in Uploads
                               /\ \/ job[d].bytes = job[d].image
                                  \/ object'[upload'[job[d].image].slot]
                                         \in early \ {job[d].image}
        BY <1>0 DEF Deliveries, Found, SlotOf
    <2>1. job[d].at \in Active =>
              /\ job[d].image \in Uploads
              /\ upload'[job[d].image].at # "new"
              /\ upload'[job[d].image].slot = upload[job[d].image].slot
              /\ upload[job[d].image].slot \in Slots
        BY <1>0, <1>1, Typed DEF Deliveries
    <2>2. job[d].at \in Running => job[d].image # u
      <3> SUFFICES ASSUME job[d].at \in Running PROVE job[d].image # u
          OBVIOUS
      <3>1. row[upload[job[d].image].slot].image = job[d].image
          BY <1>0 DEF Deliveries, Found, SlotOf
      <3>2. upload[job[d].image].slot \in Slots /\ job[d].image \in Uploads
          BY <2>1 DEF Active
      <3>3. job[d].image # 0
          BY <3>2, ImagesAssumption DEF Uploads
      <3> QED
          BY <1>4, <3>1, <3>2, <3>3
    <2> QED
        BY <1>0, <1>2, <1>3, <2>1, <2>2 DEF Deliveries, Found, SlotOf, Active, Running
  <1>8. VerdictOfOwnBytes'
      BY <1>0, <1>1, <1>2, <1>3, <1>4 DEF VerdictOfOwnBytes
  <1>9. SentIsCarried'
      BY <1>0, <1>1 DEF SentIsCarried, Carried
  <1> QED
      BY <1>5, <1>6, <1>7, <1>8, <1>9 DEF StoreInv

LEMMA Indices ==
    ASSUME NEW u \in Uploads
    PROVE  u \in Jobs /\ \A k \in Nat : ~ (u > MaxUploads + k)
  BY ImagesAssumption DEF Uploads, Jobs

LEMMA InsertStore ==
    ASSUME TypeOK, StoreInv, NEW u \in Uploads, InsertAndEnqueue(u)
    PROVE  StoreInv'
  <1>0. /\ Rows /\ Posts /\ Deliveries /\ VerdictOfOwnBytes /\ SentIsCarried
        /\ UNCHANGED <<object, row, early, dropped, faults>>
        /\ upload[u].at = "stored" /\ faults \in Nat
      BY ImagesAssumption DEF StoreInv, InsertAndEnqueue, page, observers, TypeOK
  <1>1. /\ upload'[u].at \in {"refused", "enqueued"}
        /\ \A v \in Uploads : /\ upload'[v].slot = upload[v].slot
                              /\ upload'[v].good = upload[v].good
                              /\ v # u => upload'[v] = upload[v]
      BY GoesMoves DEF InsertAndEnqueue, Ats, InFlight
  <1>2. \A s \in Slots : row[s].image # 0 => row[s].image \in Uploads \ {u}
      BY <1>0, RowImages DEF Rows
  <1>3. \/ upload'[u].at = "refused" /\ job' = job
        \/ /\ upload'[u].at = "enqueued"
           /\ row[upload[u].slot].image = 0
           /\ job' = [job EXCEPT ![u] = FirstDelivery(u)]
      BY GoesMoves DEF InsertAndEnqueue, Ats, InFlight
  <1>4. \A v \in Uploads :
            upload[v].at = "enqueued" => upload[v].slot # upload[u].slot
      BY DEF InsertAndEnqueue
  <1>5. \A d \in Jobs :
            \/ job'[d] = job[d]
            \/ /\ d = u
               /\ job'[d].at = "queued" /\ job'[d].image = u
               /\ upload'[u].at = "enqueued"
      BY <1>3, Typed DEF FirstDelivery, NoJob
  <1>6. Rows'
      BY <1>0, <1>1, <1>2 DEF Rows
  <1>7. Posts'
    <2>1. \A v \in Uploads : upload'[v].at \in Past3 => v \in early
        BY <1>0, <1>1 DEF Posts, Past3
    <2>2. \A v \in Uploads :
              upload'[v].at \in {"stored", "enqueued"} =>
                  object[upload[v].slot] \in {v} \cup early
        BY <1>0, <1>1 DEF Posts
    <2>3. \A v, w \in Uploads :
              /\ upload'[v].at = "enqueued" /\ upload'[w].at = "enqueued"
              /\ upload[v].slot = upload[w].slot
              => w = v
        BY <1>0, <1>1, <1>4 DEF Posts
    <2>4. \A v \in Uploads :
              upload'[v].at = "enqueued" => row[upload[v].slot].image = 0
        BY <1>0, <1>1, <1>3 DEF Posts
    <2>5. \A v \in Uploads : upload'[v].at = "ok" => row[upload[v].slot].image = v
        BY <1>0, <1>1 DEF Posts
    <2> QED
        BY <1>0, <1>1, <2>1, <2>2, <2>3, <2>4, <2>5 DEF Posts
  <1>8. Deliveries'
    <2> SUFFICES ASSUME NEW d \in Jobs
                 PROVE  /\ d > MaxUploads + faults => job'[d].at = "none"
                        /\ job'[d].at \in Active =>
                               job'[d].image \in Uploads /\ upload'[job'[d].image].at # "new"
                        /\ job'[d].at \in Active /\ d \in Uploads => job'[d].image = d
                        /\ job'[d].at \in Running =>
                               row[upload'[job'[d].image].slot].image = job'[d].image
                        /\ job'[d].at = "fetched" =>
                               /\ job'[d].bytes \in Uploads
                               /\ \/ job'[d].bytes = job'[d].image
                                  \/ object[upload'[job'[d].image].slot]
                                         \in early \ {job'[d].image}
        BY <1>0 DEF Deliveries, Found, SlotOf
    <2>1. CASE job'[d] = job[d]
        BY <1>0, <1>1, <2>1 DEF Deliveries, Found, SlotOf, Active, Running
    <2>2. CASE d = u /\ job'[d].at = "queued" /\ job'[d].image = u
                   /\ upload'[u].at = "enqueued"
        BY <1>0, <2>2, Indices DEF Active, Running
    <2> QED
        BY <1>5, <2>1, <2>2
  <1>9. VerdictOfOwnBytes'
      BY <1>0, <1>1, <1>2 DEF VerdictOfOwnBytes
  <1>10. SentIsCarried'
    <2>1. \A v : Carried(v) => Carried(v)'
        BY <1>0, <1>5, Indices DEF Carried, Active, Deliveries
    <2>2. upload'[u].at = "enqueued" => Carried(u)'
      <3>1. ASSUME upload'[u].at = "enqueued" PROVE job'[u] = FirstDelivery(u)
          BY <1>3, <3>1, Typed, Indices
      <3> QED
          BY <3>1, Indices DEF Carried, Active, FirstDelivery, NoJob
    <2> QED
        BY <1>0, <1>1, <2>1, <2>2 DEF SentIsCarried
  <1> QED
      BY <1>6, <1>7, <1>8, <1>9, <1>10 DEF StoreInv

LEMMA CommitStore ==
    ASSUME TypeOK, StoreInv, NEW u \in Uploads, Commit(u)
    PROVE  StoreInv'
  <1>0. /\ Rows /\ Posts /\ Deliveries /\ VerdictOfOwnBytes /\ SentIsCarried
        /\ UNCHANGED <<object, job, early, dropped, faults>>
        /\ upload[u].at = "enqueued" /\ upload[u].slot \in Slots
      BY Typed DEF StoreInv, Commit, page, observers
  <1>1. /\ upload'[u].at = "ok"
        /\ \A v \in Uploads : /\ upload'[v].slot = upload[v].slot
                              /\ upload'[v].good = upload[v].good
                              /\ v # u => upload'[v] = upload[v]
      BY GoesMoves DEF Commit, Ats, InFlight
  <1>2. /\ row[upload[u].slot].image = 0
        /\ row'[upload[u].slot].image = u /\ row'[upload[u].slot].status = "pending"
        /\ \A s \in Slots : s # upload[u].slot => row'[s] = row[s]
    <2>1. row' = [row EXCEPT ![upload[u].slot] = [image |-> u, status |-> "pending"]]
        BY DEF Commit
    <2>2. row[upload[u].slot].image = 0
        BY <1>0 DEF Posts
    <2> QED
        BY <1>0, <2>1, <2>2 DEF TypeOK
  <1>3. \A s \in Slots : row[s].image # 0 => row[s].image \in Uploads \ {u}
      BY <1>0, RowImages DEF Rows
  <1>4. \A v \in Uploads : v # 0
      BY ImagesAssumption DEF Uploads
  <1>5. Rows'
      BY <1>0, <1>1, <1>2, <1>3, <1>4 DEF Rows
  <1>6. Posts'
    <2>1. \A v \in Uploads : upload'[v].at \in Past3 => v \in early
        BY <1>0, <1>1 DEF Posts, Past3
    <2>2. \A v \in Uploads :
              upload'[v].at \in {"stored", "enqueued"} =>
                  object[upload[v].slot] \in {v} \cup early
        BY <1>0, <1>1 DEF Posts
    <2>3. \A v, w \in Uploads :
              /\ upload'[v].at = "enqueued" /\ upload'[w].at = "enqueued"
              /\ upload[v].slot = upload[w].slot
              => w = v
        BY <1>0, <1>1 DEF Posts
    <2>4. \A v \in Uploads :
              upload'[v].at = "enqueued" =>
                  upload[v].at = "enqueued" /\ upload[v].slot # upload[u].slot
        BY <1>0, <1>1 DEF Posts
    <2>5. \A v \in Uploads :
              upload'[v].at = "enqueued" => row'[upload[v].slot].image = 0
        BY <1>0, <1>2, <2>4, Typed DEF Posts
    <2>6. \A v \in Uploads : upload'[v].at = "ok" => row'[upload[v].slot].image = v
        BY <1>0, <1>1, <1>2, <1>4, Typed DEF Posts
    <2> QED
        BY <1>0, <1>1, <2>1, <2>2, <2>3, <2>5, <2>6 DEF Posts
  <1>7. Deliveries'
    <2> SUFFICES ASSUME NEW d \in Jobs
                 PROVE  /\ d > MaxUploads + faults => job[d].at = "none"
                        /\ job[d].at \in Active =>
                               job[d].image \in Uploads /\ upload'[job[d].image].at # "new"
                        /\ job[d].at \in Active /\ d \in Uploads => job[d].image = d
                        /\ job[d].at \in Running =>
                               row'[upload'[job[d].image].slot].image = job[d].image
                        /\ job[d].at = "fetched" =>
                               /\ job[d].bytes \in Uploads
                               /\ \/ job[d].bytes = job[d].image
                                  \/ object[upload'[job[d].image].slot]
                                         \in early \ {job[d].image}
        BY <1>0 DEF Deliveries, Found, SlotOf
    <2>1. job[d].at \in Active =>
              /\ job[d].image \in Uploads /\ job[d].image # 0
              /\ upload'[job[d].image].at # "new"
              /\ upload'[job[d].image].slot = upload[job[d].image].slot
              /\ upload[job[d].image].slot \in Slots
        BY <1>0, <1>1, Typed, ImagesAssumption DEF Deliveries, Uploads
    <2>2. job[d].at \in Running =>
              row[upload[job[d].image].slot].image = job[d].image
        BY <1>0 DEF Deliveries, Found, SlotOf
    <2>3. job[d].at \in Running =>
              row'[upload'[job[d].image].slot].image = job[d].image
        BY <1>2, <2>1, <2>2 DEF Active
    <2> QED
        BY <1>0, <2>1, <2>3 DEF Deliveries, SlotOf, Active, Running
  <1>8. VerdictOfOwnBytes'
    <2> SUFFICES ASSUME NEW s \in Slots, row'[s].image # 0
                 PROVE  \/ object[s] \in early \ {row'[s].image}
                        \/ /\ object[s] = row'[s].image
                           /\ row'[s].status = "ready" => upload'[row'[s].image].good
                           /\ row'[s].status = "failed" => ~ upload'[row'[s].image].good
        BY <1>0 DEF VerdictOfOwnBytes
    <2>1. CASE s = upload[u].slot
        BY <1>0, <1>2, <2>1 DEF Posts
    <2>2. CASE s # upload[u].slot
        BY <1>0, <1>1, <1>2, <1>3, <2>2 DEF VerdictOfOwnBytes
    <2> QED
        BY <2>1, <2>2
  <1>9. SentIsCarried'
    <2>1. u \in dropped \/ Carried(u)
        BY <1>0 DEF SentIsCarried
    <2>2. \A v : Carried(v)' <=> Carried(v)
        BY <1>0 DEF Carried
    <2> QED
        BY <1>0, <1>1, <1>2, <2>1, <2>2 DEF SentIsCarried
  <1> QED
      BY <1>5, <1>6, <1>7, <1>8, <1>9 DEF StoreInv

LEMMA DiesStore ==
    ASSUME TypeOK, StoreInv, NEW u \in Uploads, RequestDies(u)
    PROVE  StoreInv'
  <1>0. /\ Rows /\ Posts /\ Deliveries /\ VerdictOfOwnBytes /\ SentIsCarried
        /\ UNCHANGED <<object, row, job, early, dropped>>
        /\ upload[u].at \in {"sent", "free", "stored", "enqueued"}
        /\ faults \in Nat /\ faults' = faults + 1
      BY ImagesAssumption DEF StoreInv, RequestDies, page, observers, Fault, TypeOK
  <1>1. /\ upload'[u].at = "refused"
        /\ \A v \in Uploads : /\ upload'[v].slot = upload[v].slot
                              /\ upload'[v].good = upload[v].good
                              /\ v # u => upload'[v] = upload[v]
      BY GoesMoves DEF RequestDies, Ats, InFlight
  <1>2. \A s \in Slots : row[s].image # 0 => row[s].image \in Uploads \ {u}
      BY <1>0, RowImages DEF Rows
  <1>3. Rows'
      BY <1>0, <1>1, <1>2 DEF Rows
  <1>4. Posts'
      BY <1>0, <1>1 DEF Posts, Past3
  <1>5. Deliveries'
    <2>1. \A d \in Jobs : d > MaxUploads + faults' => d > MaxUploads + faults
      <3>1. \A d \in Jobs : d \in Nat
          BY ImagesAssumption DEF Jobs
      <3>2. faults' \in Nat /\ faults <= faults' /\ MaxUploads \in Nat
          BY <1>0, ImagesAssumption
      <3> QED
          BY <1>0, <3>1, <3>2, Beyond
    <2> QED
        BY <1>0, <1>1, <2>1 DEF Deliveries, Found, SlotOf, Active, Running
  <1>6. VerdictOfOwnBytes'
      BY <1>0, <1>1, <1>2 DEF VerdictOfOwnBytes
  <1>7. SentIsCarried'
      BY <1>0, <1>1 DEF SentIsCarried, Carried
  <1> QED
      BY <1>3, <1>4, <1>5, <1>6, <1>7 DEF StoreInv

-----------------------------------------------------------------------------
(* StoreInv, by the steps of a task.                                       *)

(* What a step of delivery d does to the deliveries.                       *)
JobStep(d) ==
    \A e \in Jobs :
        \/ job'[e] = job[e]
        \/ e = d /\ job'[e].at = "over"
        \/ /\ job'[e].at = "queued" /\ job'[e].image = job[d].image
           /\ job[d].at \in Active
           /\ \/ e = d
              \/ faults' # 0 /\ e = MaxUploads + faults'
        \/ /\ e = d /\ job[d].at \in Active /\ job'[e].image = job[d].image
           /\ Found(d)
           /\ \/ job'[e].at = "found"
              \/ /\ job'[e].at = "fetched"
                 /\ job'[e].bytes = object[SlotOf(d)]

LEMMA Extra ==
    ASSUME NEW a \in Nat, NEW b \in Nat, b # 0
    PROVE  a + b \notin 1 .. a /\ ~ (a + b > a + b)
  OBVIOUS

LEMMA TaskFrame ==
    ASSUME TypeOK, StoreInv, NEW d \in Jobs, JobStep(d),
           UNCHANGED <<upload, object, early>>,
           \A s \in Slots : row'[s].image = row[s].image,
           faults' \in {faults, faults + 1},
           job[d].at \in Active
    PROVE  Posts' /\ Deliveries'
  <1>0. /\ Rows /\ Posts /\ Deliveries /\ VerdictOfOwnBytes
        /\ faults \in Nat /\ faults' \in Nat /\ faults <= faults'
        /\ MaxUploads \in Nat
      BY ImagesAssumption DEF StoreInv, TypeOK
  <1>1. Posts'
      BY <1>0, Typed DEF Posts
  <1>2. Deliveries'
    <2> SUFFICES ASSUME NEW e \in Jobs
                 PROVE  /\ e > MaxUploads + faults' => job'[e].at = "none"
                        /\ job'[e].at \in Active =>
                               job'[e].image \in Uploads /\ upload[job'[e].image].at # "new"
                        /\ job'[e].at \in Active /\ e \in Uploads => job'[e].image = e
                        /\ job'[e].at \in Running =>
                               row'[upload[job'[e].image].slot].image = job'[e].image
                        /\ job'[e].at = "fetched" =>
                               /\ job'[e].bytes \in Uploads
                               /\ \/ job'[e].bytes = job'[e].image
                                  \/ object[upload[job'[e].image].slot]
                                         \in early \ {job'[e].image}
        BY DEF Deliveries, Found, SlotOf
    <2>1. e \in Nat
        BY ImagesAssumption DEF Jobs
    <2>2. e > MaxUploads + faults' => e > MaxUploads + faults
        BY <1>0, <2>1, Beyond
    <2>3. /\ job[d].image \in Uploads
          /\ upload[job[d].image].at # "new"
          /\ upload[job[d].image].slot \in Slots
        BY <1>0, Typed DEF Deliveries
    <2>4. ~ (d > MaxUploads + faults)
        BY <1>0 DEF Deliveries, Active, Running
    <2>5. CASE job'[e] = job[e]
      <3>1. job[e].at \in Active => upload[job[e].image].slot \in Slots
          BY <1>0, Typed DEF Deliveries
      <3>2. e > MaxUploads + faults' => job'[e].at = "none"
          BY <1>0, <2>2, <2>5 DEF Deliveries
      <3>3. job'[e].at \in Running =>
                row'[upload[job'[e].image].slot].image = job'[e].image
          BY <1>0, <2>5, <3>1 DEF Deliveries, Found, SlotOf, Active
      <3> QED
          BY <1>0, <2>5, <3>2, <3>3 DEF Deliveries, SlotOf
    <2>6. CASE e = d /\ job'[e].at = "over"
        BY <2>2, <2>4, <2>6 DEF Active, Running
    <2>7. CASE /\ job'[e].at = "queued" /\ job'[e].image = job[d].image
               /\ \/ e = d
                  \/ faults' # 0 /\ e = MaxUploads + faults'
      <3>0. faults' # 0 /\ e = MaxUploads + faults' =>
                e \notin Uploads /\ ~ (e > MaxUploads + faults')
          BY <1>0, Extra DEF Uploads
      <3>1. ~ (e > MaxUploads + faults')
        <4>1. CASE e = d
            BY <2>2, <2>4, <4>1
        <4> QED
            BY <2>7, <3>0, <4>1
      <3>2. e \in Uploads => e = d
          BY <2>7, <3>0
      <3> QED
          BY <1>0, <2>3, <2>7, <3>1, <3>2 DEF Deliveries, Active, Running
    <2>8. CASE /\ e = d /\ job'[e].image = job[d].image
               /\ Found(d)
               /\ \/ job'[e].at = "found"
                  \/ /\ job'[e].at = "fetched"
                     /\ job'[e].bytes = object[SlotOf(d)]
      <3>1. /\ ~ (e > MaxUploads + faults')
            /\ d \in Uploads => job[d].image = d
          BY <1>0, <2>2, <2>4, <2>8 DEF Deliveries
      <3>2. row'[upload[job[d].image].slot].image = job[d].image
          BY <2>3, <2>8 DEF Found, SlotOf
      <3>3. object[SlotOf(d)] \in {job[d].image} \cup early
        <4>1. row[SlotOf(d)].image = job[d].image /\ SlotOf(d) \in Slots
            BY <2>3, <2>8 DEF Found, SlotOf
        <4>2. job[d].image # 0
            BY <2>3, ImagesAssumption DEF Uploads
        <4> QED
            BY <1>0, <4>1, <4>2 DEF VerdictOfOwnBytes
      <3>4. early \subseteq Uploads
          BY DEF TypeOK
      <3> QED
          BY <2>3, <2>8, <3>1, <3>2, <3>3, <3>4 DEF SlotOf, Active, Running
    <2> QED
        BY <2>5, <2>6, <2>7, <2>8 DEF JobStep
  <1> QED
      BY <1>1, <1>2

(* A step that writes no verdict and loses no image without noting it.     *)
LEMMA QuietTask ==
    ASSUME TypeOK, StoreInv, NEW d \in Jobs, NEW u, u = job[d].image, JobStep(d),
           UNCHANGED <<upload, object, early, row>>,
           faults' \in {faults, faults + 1},
           job[d].at \in Active,
           dropped \subseteq dropped',
           Carried(u)' \/ u \in dropped',
           \A e \in Jobs \ {d} :
               job[e].at \in Active /\ job[e].image # u => job'[e] = job[e]
    PROVE  StoreInv'
  <1>0. Rows /\ Posts /\ Deliveries /\ VerdictOfOwnBytes /\ SentIsCarried
      BY DEF StoreInv
  <1>1. Posts' /\ Deliveries'
      BY TaskFrame
  <1>2. Rows' /\ VerdictOfOwnBytes'
      BY <1>0 DEF Rows, VerdictOfOwnBytes
  <1>3. ASSUME NEW v, v \in dropped \/ Carried(v) PROVE v \in dropped' \/ Carried(v)'
    <2>1. CASE v \in dropped \/ v = u
        BY <2>1
    <2>2. ASSUME v # u, NEW e \in Jobs, job[e].image = v, job[e].at \in Active
          PROVE  Carried(v)'
        BY <2>2 DEF Carried
    <2> QED
        BY <1>3, <2>1, <2>2 DEF Carried
  <1>4. SentIsCarried'
      BY <1>0, <1>3 DEF SentIsCarried
  <1> QED
      BY <1>1, <1>2, <1>4 DEF StoreInv

LEMMA EndedStep ==
    ASSUME TypeOK, NEW d \in Jobs, job' = Ended(d)
    PROVE  /\ job'[d].at = "over"
           /\ \A e \in Jobs \ {d} : job'[e] = job[e]
  BY Typed DEF Ended, NoJob

LEMMA LookupStore ==
    ASSUME TypeOK, StoreInv, NEW d \in Jobs, Lookup(d)
    PROVE  StoreInv'
  <1>a. PICK u : u = job[d].image
      OBVIOUS
  <1>0. job[d].at = "queued" /\ job[d].at \in Active
      BY DEF Lookup, Active
  <1>1. CASE Found(d) /\ job' = [job EXCEPT ![d].at = "found"] /\ UNCHANGED dropped
    <2>1. /\ job'[d].at = "found" /\ job'[d].image = job[d].image
          /\ \A e \in Jobs \ {d} : job'[e] = job[e]
        BY <1>1, Typed DEF JobType
    <2>2. JobStep(d)
        BY <1>0, <1>1, <2>1 DEF JobStep
    <2>3. Carried(u)'
        BY <1>a, <2>1 DEF Carried, Active, Running
    <2> QED
        BY <1>0, <1>1, <2>1, <2>2, <2>3, <1>a, QuietTask DEF Lookup
  <1>2. CASE job' = Ended(d) /\ dropped' = dropped \cup {job[d].image}
    <2>1. JobStep(d)
        BY <1>2, EndedStep DEF JobStep
    <2> QED
        BY <1>0, <1>2, <2>1, EndedStep, <1>a, QuietTask DEF Lookup
  <1> QED
      BY <1>1, <1>2 DEF Lookup

LEMMA DownloadStore ==
    ASSUME TypeOK, StoreInv, NEW d \in Jobs, Download(d)
    PROVE  StoreInv'
  <1>a. PICK u : u = job[d].image
      OBVIOUS
  <1>0. job[d].at \in Active /\ Found(d)
      BY DEF Download, Active, Running, StoreInv, Deliveries
  <1>1. /\ job'[d].at = "fetched" /\ job'[d].image = job[d].image
        /\ job'[d].bytes = object[SlotOf(d)]
        /\ \A e \in Jobs \ {d} : job'[e] = job[e]
      BY Typed DEF Download, JobType
  <1>2. JobStep(d)
      BY <1>0, <1>1 DEF JobStep
  <1>3. Carried(u)'
      BY <1>a, <1>1 DEF Carried, Active, Running
  <1> QED
      BY <1>0, <1>1, <1>2, <1>3, <1>a, QuietTask DEF Download, observers

LEMMA DownloadFailsStore ==
    ASSUME TypeOK, StoreInv, NEW d \in Jobs, DownloadFails(d)
    PROVE  StoreInv'
  <1>a. PICK u : u = job[d].image
      OBVIOUS
  <1>0. job[d].at \in Active
      BY DEF DownloadFails, Active, Running
  <1>1. CASE job' = [job EXCEPT ![d].at = "queued", ![d].tries = @ + 1] /\ UNCHANGED dropped
    <2>1. /\ job'[d].at = "queued" /\ job'[d].image = job[d].image
          /\ \A e \in Jobs \ {d} : job'[e] = job[e]
        BY <1>1, Typed DEF JobType
    <2>2. JobStep(d)
        BY <1>0, <2>1 DEF JobStep
    <2>3. Carried(u)'
        BY <1>a, <2>1 DEF Carried, Active, Running
    <2> QED
        BY <1>0, <1>1, <2>1, <2>2, <2>3, <1>a, QuietTask DEF DownloadFails
  <1>2. CASE job' = Ended(d) /\ dropped' = dropped \cup {job[d].image}
    <2>1. JobStep(d)
        BY <1>2, EndedStep DEF JobStep
    <2> QED
        BY <1>0, <1>2, <2>1, EndedStep, <1>a, QuietTask DEF DownloadFails
  <1> QED
      BY <1>1, <1>2 DEF DownloadFails

LEMMA TaskFailsStore ==
    ASSUME TypeOK, StoreInv, NEW d \in Jobs, TaskFails(d)
    PROVE  StoreInv'
  <1>a. PICK u : u = job[d].image
      OBVIOUS
  <1>0. job[d].at \in Active
      BY DEF TaskFails, Active, Running
  <1>1. JobStep(d)
      BY EndedStep DEF JobStep, TaskFails
  <1> QED
      BY <1>0, <1>1, EndedStep, <1>a, QuietTask DEF TaskFails, Fault

LEMMA WorkerLostStore ==
    ASSUME TypeOK, StoreInv, NEW d \in Jobs, WorkerLost(d)
    PROVE  StoreInv'
  <1>a. PICK u : u = job[d].image
      OBVIOUS
  <1>0. job[d].at \in Active
      BY DEF WorkerLost, Active
  <1>1. /\ job'[d].at = "queued" /\ job'[d].image = job[d].image
        /\ \A e \in Jobs \ {d} : job'[e] = job[e]
      BY Typed DEF WorkerLost, BackInQueue, JobType
  <1>2. JobStep(d)
      BY <1>0, <1>1 DEF JobStep
  <1>3. Carried(u)'
      BY <1>a, <1>1 DEF Carried, Active, Running
  <1> QED
      BY <1>0, <1>1, <1>2, <1>3, <1>a, QuietTask DEF WorkerLost, Fault, observers

LEMMA DeliveredAgainStore ==
    ASSUME TypeOK, StoreInv, NEW d \in Jobs, DeliveredAgain(d)
    PROVE  StoreInv'
  <1>a. PICK u : u = job[d].image
      OBVIOUS
  <1>b. PICK e \in Jobs : e = MaxUploads + faults'
      BY FaultTypes, ImagesAssumption DEF DeliveredAgain, Jobs, Fault, TypeOK
  <1>0. /\ job[d].at \in Active /\ faults' = faults + 1
        /\ faults' # 0
      BY ImagesAssumption DEF DeliveredAgain, Active, Fault, TypeOK
  <1>1. job[e].at = "none"
    <2>1. e > MaxUploads + faults
        BY <1>b, <1>0, ImagesAssumption DEF TypeOK
    <2> QED
        BY <2>1 DEF StoreInv, Deliveries
  <1>2. job' = [job EXCEPT ![e] = BackInQueue(d)]
      BY <1>b DEF DeliveredAgain
  <1>3. /\ job'[e].at = "queued" /\ job'[e].image = job[d].image
        /\ \A f \in Jobs \ {e} : job'[f] = job[f]
    <2>1. job[d] \in JobType
        BY Typed
    <2>2. BackInQueue(d).at = "queued" /\ BackInQueue(d).image = job[d].image
        BY <2>1 DEF BackInQueue, JobType
    <2> QED
        BY <1>2, <2>2, Typed
  <1>4. JobStep(d)
      BY <1>b, <1>0, <1>3 DEF JobStep
  <1>5. Carried(u)'
      BY <1>a, <1>3 DEF Carried, Active
  <1>6. \A f \in Jobs \ {d} : job[f].at \in Active => job'[f] = job[f]
      BY <1>1, <1>3 DEF Active, Running
  <1>7. UNCHANGED <<upload, object, early, row, dropped>>
      BY DEF DeliveredAgain, observers
  <1> QED
      BY <1>a, <1>0, <1>4, <1>5, <1>6, <1>7, QuietTask

LEMMA VerdictStore ==
    ASSUME TypeOK, StoreInv, NEW d \in Jobs, WriteVerdict(d)
    PROVE  StoreInv'
  <1>a. PICK u \in Uploads : u = job[d].image
      BY DEF StoreInv, Deliveries, WriteVerdict, Active, Running
  <1>s. PICK s \in Slots : s = upload[u].slot
      BY Typed
  <1>0. /\ Rows /\ Posts /\ Deliveries /\ VerdictOfOwnBytes /\ SentIsCarried
        /\ UNCHANGED <<upload, object, early, dropped, faults>>
        /\ job[d].at = "fetched" /\ job[d].at \in Active
        /\ u # 0 /\ SlotOf(d) = s
      BY <1>a, <1>s, ImagesAssumption
         DEF StoreInv, WriteVerdict, page, observers, Active, Running, Uploads, SlotOf
  <1>1. /\ row[s].image = u
        /\ job[d].bytes \in Uploads
        /\ job[d].bytes = u \/ object[s] \in early \ {u}
      BY <1>0, <1>a DEF Deliveries, Found, Running
  <1>2. /\ row'[s].image = u
        /\ row'[s].status = Verdict(job[d].bytes, s)
        /\ \A o \in Slots \ {s} : row'[o] = row[o]
    <2>1. row[s] \in RowType /\ row \in [Slots -> RowType]
        BY DEF TypeOK, RowType
    <2>2. row' = [row EXCEPT ![s] = [row[s] EXCEPT !.status = Verdict(job[d].bytes, s)]]
        BY <1>0, <2>1 DEF WriteVerdict
    <2>3. row'[s] = [row[s] EXCEPT !.status = Verdict(job[d].bytes, s)]
        BY <2>1, <2>2
    <2>4. \A o \in Slots \ {s} : row'[o] = row[o]
        BY <2>1, <2>2
    <2> QED
        BY <1>1, <2>1, <2>3, <2>4 DEF RowType
  <1>3. \A o \in Slots : row'[o].image = row[o].image
      BY <1>1, <1>2
  <1>4. JobStep(d) /\ \A e \in Jobs \ {d} : job'[e] = job[e]
      BY EndedStep DEF WriteVerdict, JobStep
  <1>5. Posts' /\ Deliveries'
      BY <1>0, <1>3, <1>4, TaskFrame
  <1>6. Verdict(job[d].bytes, s) \in {"ready", "failed"}
      BY DEF Verdict
  <1>7. Rows'
      BY <1>0, <1>1, <1>2, <1>3, <1>6 DEF Rows
  <1>8. VerdictOfOwnBytes'
    <2> SUFFICES ASSUME NEW o \in Slots, row[o].image # 0
                 PROVE  \/ object[o] \in early \ {row[o].image}
                        \/ /\ object[o] = row[o].image
                           /\ row'[o].status = "ready" => upload[row[o].image].good
                           /\ row'[o].status = "failed" => ~ upload[row[o].image].good
        BY <1>0, <1>3 DEF VerdictOfOwnBytes
    <2>1. CASE o = s
        BY <1>0, <1>1, <1>2, <2>1 DEF VerdictOfOwnBytes, Verdict
    <2>2. CASE o # s
        BY <1>0, <1>2, <2>2 DEF VerdictOfOwnBytes
    <2> QED
        BY <2>1, <2>2
  <1>9. ASSUME NEW v, v # u, Carried(v) PROVE Carried(v)'
      BY <1>a, <1>4, <1>9 DEF Carried
  <1>10. SentIsCarried'
    <2>1. \A v \in Uploads : upload[v].at = "enqueued" => v # u
        BY <1>0, <1>1, <1>s DEF Posts
    <2>2. \A o \in Slots \ {s} : row[o].image # 0 => row[o].image # u
        BY <1>0, <1>s DEF Rows
    <2>3. \A o \in Slots : row'[o].status = "pending" =>
              row[o].status = "pending" /\ row[o].image # u
        BY <1>0, <1>2, <1>6, <2>2 DEF Rows
    <2> QED
        BY <1>0, <1>3, <1>9, <2>1, <2>3 DEF SentIsCarried
  <1> QED
      BY <1>5, <1>7, <1>8, <1>10 DEF StoreInv

-----------------------------------------------------------------------------
(* The page's invariants.                                                  *)

LEMMA RowsGrow ==
    ASSUME TypeOK, StoreInv, [Next]_vars
    PROVE  \A s \in Slots : row[s].image # 0 => row'[s].image = row[s].image
  <1>1. CASE UNCHANGED row
      BY <1>1
  <1>2. ASSUME NEW u \in Uploads, Commit(u)
        PROVE  \A s \in Slots : row[s].image # 0 => row'[s].image = row[s].image
    <2>1. row[upload[u].slot].image = 0
        BY <1>2 DEF StoreInv, Posts, Commit
    <2> QED
        BY <1>2, <2>1, Typed DEF Commit, TypeOK
  <1>3. ASSUME NEW d \in Jobs, WriteVerdict(d)
        PROVE  \A s \in Slots : row'[s].image = row[s].image
      BY <1>3 DEF WriteVerdict, TypeOK
  <1>4. CASE PageStep \/ AnswerStep
      BY <1>1, <1>4, PageKeeps DEF StoreKept
  <1>5. ASSUME NEW u \in Uploads,
               Look(u) \/ Store(u) \/ InsertAndEnqueue(u) \/ RequestDies(u)
        PROVE  UNCHANGED row
      BY <1>5 DEF Look, Store, InsertAndEnqueue, RequestDies
  <1>6. ASSUME NEW d \in Jobs,
               \/ Lookup(d) \/ Download(d) \/ DownloadFails(d) \/ TaskFails(d)
               \/ WorkerLost(d) \/ DeliveredAgain(d)
        PROVE  UNCHANGED row
      BY <1>6 DEF Lookup, Download, DownloadFails, TaskFails, WorkerLost, DeliveredAgain
  <1>7. CASE UNCHANGED vars
      BY <1>1, <1>7 DEF vars
  <1> QED
      BY <1>1, <1>2, <1>3, <1>4, <1>5, <1>6, <1>7 DEF Next, RequestStep, TaskStep

(* What an action of the page or an answer to it owes: Polls and           *)
(* PendingIsPolled once it is taken.                                       *)
LEMMA PageHolds ==
    ASSUME TypeOK, StoreInv, Polls, PendingIsPolled, PageStep \/ AnswerStep
    PROVE  Polls' /\ PendingIsPolled'
  <1>0. /\ Rows /\ Posts /\ row' = row
        /\ poll \in PollType /\ poll.n \in 0 .. MaxPolls
        /\ view \in [Slots -> Statuses]
        /\ MaxPolls \in Nat \ {0}
      BY PageKeeps, ImagesAssumption DEF StoreInv, StoreKept, TypeOK, PollType
  <1>1. ASSUME UNCHANGED <<view, poll, quit, reset>>
        PROVE  Polls' /\ PendingIsPolled'
      BY <1>0, <1>1 DEF Polls, PendingIsPolled, Open
  <1>2. ASSUME NEW s \in Slots, OnReupload(s) PROVE Polls' /\ PendingIsPolled'
    <2>1. /\ UNCHANGED <<poll, quit>> /\ reset' = reset \cup {s}
          /\ \A o \in Slots \ {s} : view'[o] = view[o]
        BY <1>0, <1>2 DEF OnReupload
    <2> QED
        BY <1>0, <2>1 DEF Polls, PendingIsPolled, Open
  <1>3. ASSUME NEW u \in Uploads, UploadAccepted(u) PROVE Polls' /\ PendingIsPolled'
    <2>1. upload[u].slot \in Slots /\ row'[upload[u].slot].image # 0
        BY <1>0, <1>3, Typed, ImagesAssumption DEF Posts, UploadAccepted, Uploads
    <2>2. CASE Open(poll)
        BY <1>0, <1>3, <2>1, <2>2
           DEF UploadAccepted, Polled, Polls, PendingIsPolled, Open
    <2>3. CASE ~ Open(poll)
      <3>1. poll'.at = "waiting" /\ poll'.n = 0
          BY <1>3, <2>3 DEF UploadAccepted, Polled, NoPoll
      <3> QED
          BY <1>0, <2>1, <3>1 DEF Polls, PendingIsPolled, Open
    <2> QED
        BY <2>2, <2>3
  <1>4. ASSUME PollServed PROVE Polls' /\ PendingIsPolled'
    <2>1. /\ poll'.at = "listed" /\ poll'.list = Listed
          /\ poll.at = "waiting"
        BY <1>0, <1>4 DEF PollServed, PollType
    <2>2. PICK s \in Slots : row[s].image # 0
        BY <2>1 DEF Polls, Open
    <2>3. Listed[s] # "none"
        BY <1>0, <2>2 DEF Listed, Rows
    <2>4. Listed # NoView
        BY <2>3 DEF NoView
    <2> QED
        BY <1>0, <2>1, <2>2, <2>4 DEF Polls, PendingIsPolled, Open
  <1>5. ASSUME PollAnswered PROVE Polls' /\ PendingIsPolled'
    <2>1. poll.at = "listed" /\ view' = poll.list
        BY <1>5 DEF PollAnswered, Polls
    <2>2. CASE HasPending(poll.list) /\ poll.n < MaxPolls
      <3>1. poll'.at = "waiting" /\ poll'.n = poll.n
          BY <1>0, <1>5, <2>2 DEF PollAnswered, PollType
      <3> QED
          BY <1>0, <2>1, <2>2, <3>1 DEF Polls, PendingIsPolled, Open
    <2>3. CASE ~ (HasPending(poll.list) /\ poll.n < MaxPolls)
      <3>1. poll'.at = "closed"
          BY <1>5, <2>3 DEF PollAnswered, Closed, NoPoll
      <3>2. HasPending(poll.list) => poll.n = MaxPolls
          BY <1>0, <2>3
      <3>3. quit' = (HasPending(poll.list) /\ poll.n = MaxPolls)
          BY <1>5 DEF PollAnswered
      <3> QED
          BY <2>1, <3>1, <3>2, <3>3 DEF Polls, PendingIsPolled, Open, HasPending
    <2> QED
        BY <2>2, <2>3
  <1>6. ASSUME PollFails PROVE Polls' /\ PendingIsPolled'
    <2>1. poll'.at = "closed" /\ quit'
        BY <1>6 DEF PollFails, Closed, NoPoll
    <2> QED
        BY <2>1 DEF Polls, PendingIsPolled, Open
  <1>7. ASSUME Load PROVE Polls' /\ PendingIsPolled'
      BY <1>7 DEF Load, NoPoll, NoView, Polls, PendingIsPolled, Open
  <1>8. ASSUME NEW n \in 1 .. MaxSlots, SelectFiles(n)
        PROVE  UNCHANGED <<view, poll, quit, reset>>
      BY <1>8 DEF SelectFiles, page, observers
  <1>9. ASSUME OnReuploadFileSelected PROVE UNCHANGED <<view, poll, quit, reset>>
      BY <1>9 DEF OnReuploadFileSelected, observers
  <1>10. ASSUME NEW u \in Uploads, UploadRefused(u)
         PROVE  UNCHANGED <<view, poll, quit, reset>>
      BY <1>10 DEF UploadRefused, observers
  <1> QED
      BY <1>1, <1>2, <1>3, <1>4, <1>5, <1>6, <1>7, <1>8, <1>9, <1>10
         DEF PageStep, AnswerStep

(* The page is not touched by a request or a task.                         *)
LEMMA RestHolds ==
    ASSUME TypeOK, StoreInv, Polls, PendingIsPolled, [Next]_vars,
           UNCHANGED <<view, poll, quit, reset>>
    PROVE  Polls' /\ PendingIsPolled'
  BY RowsGrow DEF Polls, PendingIsPolled, Open

LEMMA PageFaults ==
    ASSUME PageStep \/ AnswerStep
    PROVE  faults' \in {faults, faults + 1}
  <1>1. ASSUME NEW n \in 1 .. MaxSlots, SelectFiles(n) PROVE faults' = faults
      BY <1>1 DEF SelectFiles
  <1>2. ASSUME NEW s \in Slots, OnReupload(s) PROVE faults' = faults
      BY <1>2 DEF OnReupload
  <1>3. ASSUME OnReuploadFileSelected \/ Load PROVE faults' = faults
      BY <1>3 DEF OnReuploadFileSelected, Load
  <1>4. ASSUME PollFails PROVE faults' = faults + 1
      BY <1>4 DEF PollFails, Fault
  <1>5. ASSUME AnswerStep PROVE faults' = faults
      BY <1>5 DEF AnswerStep, UploadAccepted, UploadRefused, PollServed, PollAnswered
  <1> QED
      BY <1>1, <1>2, <1>3, <1>4, <1>5 DEF PageStep

-----------------------------------------------------------------------------
(* The inductive invariant.                                                *)

LEMMA InitHolds == Init => IInv
  <1> SUFFICES ASSUME Init PROVE IInv
      OBVIOUS
  <1>1. TypeOK
      BY InitTypes
  <1>2. \A u \in Uploads : upload[u].at = "new"
      BY DEF Init, NoUpload
  <1>3. \A s \in Slots : row[s].image = 0 /\ row[s].status = "none"
      BY DEF Init, NoRow
  <1>4. \A d \in Jobs : job[d].at = "none"
      BY DEF Init, NoJob
  <1>5. poll.at = "none" /\ \A s \in Slots : view[s] = "none"
      BY DEF Init, NoPoll, NoView
  <1>6. Rows /\ VerdictOfOwnBytes /\ SentIsCarried
      BY <1>2, <1>3 DEF Rows, VerdictOfOwnBytes, SentIsCarried
  <1>7. Posts
      BY <1>2 DEF Posts, Past3
  <1>8. Deliveries
      BY <1>4 DEF Deliveries, Active, Running
  <1>9. Polls /\ PendingIsPolled
      BY <1>5 DEF Polls, PendingIsPolled, Open
  <1> QED
      BY <1>1, <1>6, <1>7, <1>8, <1>9 DEF IInv, StoreInv

LEMMA StepHolds == IInv /\ [Next]_vars => IInv'
  <1> SUFFICES ASSUME IInv, [Next]_vars PROVE IInv'
      OBVIOUS
  <1>0. TypeOK /\ StoreInv /\ Polls /\ PendingIsPolled
      BY DEF IInv
  <1>1. TypeOK'
      BY StepTypes
  <1>2. CASE PageStep \/ AnswerStep
    <2>1. StoreInv'
        BY <1>0, <1>2, PageKeeps, PageFaults, PageStore
    <2>2. Polls' /\ PendingIsPolled'
        BY <1>0, <1>2, PageHolds
    <2> QED
        BY <1>1, <2>1, <2>2 DEF IInv
  <1>3. ASSUME NEW u \in Uploads, RequestStep(u) \/ RequestDies(u)
        PROVE  IInv'
    <2>1. StoreInv'
        BY <1>0, <1>3, LookStore, StoreStore, InsertStore, CommitStore, DiesStore
           DEF RequestStep
    <2>2. UNCHANGED <<view, poll, quit, reset>>
        BY <1>3 DEF RequestStep, Look, Store, InsertAndEnqueue, Commit, RequestDies,
                    page, observers
    <2> QED
        BY <1>0, <1>1, <2>1, <2>2, RestHolds DEF IInv
  <1>4. ASSUME NEW d \in Jobs,
               \/ TaskStep(d) \/ DownloadFails(d) \/ TaskFails(d)
               \/ WorkerLost(d) \/ DeliveredAgain(d)
        PROVE  IInv'
    <2>1. StoreInv'
        BY <1>0, <1>4, LookupStore, DownloadStore, VerdictStore, DownloadFailsStore,
           TaskFailsStore, WorkerLostStore, DeliveredAgainStore DEF TaskStep
    <2>2. UNCHANGED <<view, poll, quit, reset>>
        BY <1>4 DEF TaskStep, Lookup, Download, WriteVerdict, DownloadFails, TaskFails,
                    WorkerLost, DeliveredAgain, page, observers
    <2> QED
        BY <1>0, <1>1, <2>1, <2>2, RestHolds DEF IInv
  <1>5. CASE UNCHANGED vars
    <2>1. UNCHANGED <<store, page, faults, loads, observers>>
        BY <1>5 DEF vars, store, page, observers
    <2>2. StoreInv'
        BY <1>0, <2>1, SameMoves, PageStore DEF StoreKept, store, observers
    <2>3. UNCHANGED <<view, poll, quit, reset>>
        BY <1>5 DEF vars
    <2> QED
        BY <1>0, <1>1, <2>2, <2>3, RestHolds DEF IInv
  <1> QED
      BY <1>2, <1>3, <1>4, <1>5 DEF Next

(* Every reachable state satisfies the inductive invariant.                *)
THEOREM Invariance == Spec => []IInv
  <1> QED
      BY InitHolds, StepHolds, PTL DEF Spec

(* The variables keep their types: no handler leaves a row, a delivery or  *)
(* a slot of the page in a state the code does not name.                   *)
THEOREM TypeCorrect == Spec => []TypeOK
  <1>1. IInv => TypeOK
      BY DEF IInv
  <1> QED
      BY <1>1, Invariance, PTL

(* The row of a slot says what the checks say of its own image while the   *)
(* path holds its bytes, and only an upload that looked before the row was *)
(* committed can have stored others (upload_image, _run_precheck_pipeline).*)
THEOREM VerdictHolds == Spec => []VerdictOfOwnBytes
  <1>1. IInv => VerdictOfOwnBytes
      BY DEF IInv, StoreInv
  <1> QED
      BY <1>1, Invariance, PTL

(* A pending image has a delivery of its precheck, however often workers   *)
(* are lost and deliveries repeated (image.precheck under late acks).      *)
THEOREM PendingCarried == Spec => []PendingIsCarried
  <1>1. IInv => PendingIsCarried
      BY DEF IInv, StoreInv, SentIsCarried, PendingIsCarried, Carried, Active
  <1> QED
      BY <1>1, Invariance, PTL

(* A slot the page shows as pending is polled, unless the cycle reached    *)
(* its cap or met an error, or a re-upload showed it so (pollImages).      *)
THEOREM PendingPolled == Spec => []PendingIsPolled
  <1>1. IInv => PendingIsPolled
      BY DEF IInv
  <1> QED
      BY <1>1, Invariance, PTL
=============================================================================
