---------------------------- MODULE MonitorProofs ----------------------------
(***************************************************************************)
(* Proofs about Monitor for any finite set of workers, any contents,       *)
(* threshold and bounds: that overlapping scrapes, unannounced changes and *)
(* stale reads have only the causes the module names, from the inductive   *)
(* invariant IInv.                                                         *)
(***************************************************************************)
EXTENDS Monitor, FiniteSetTheorems, WellFoundedInduction, TLAPS

(* What a task has established by the step it stands at.                   *)
Shaped(j) ==
    /\ j.task = "fanout" => j.hash # 0
    /\ j.at \in {"insert", "diff", "evict", "announce"} => j.hash # 0
    /\ j.at \in {"latest", "notify"} => j.task = "fanout"

Shape == \A w \in Workers : worker[w] # Idle => Shaped(worker[w])

(* A claim that names a worker names one that scrapes.                     *)
ClaimNamesHolder == claim \in Workers => claim \in Holders

IInv ==
    /\ TypeOK
    /\ Shape
    /\ ClaimNamesHolder
    /\ ClaimSerialises
    /\ LatestChangeIsCarried
    /\ StaleIsExplained

LEMMA InitEstablishes == Init => IInv
  <1> SUFFICES ASSUME Init PROVE IInv
      OBVIOUS
  <1> USE MonitorAssumption DEF Init
  <1>1. TypeOK
    <2>1. snaps \in Seq(Contents) /\ Len(snaps) = 0
        OBVIOUS
    <2>2. cache \in 0 .. Len(snaps) /\ fetched \subseteq 1 .. Len(snaps)
        BY <2>1
    <2>3. /\ asked \in 0 .. MaxTriggers
          /\ faults \in 0 .. MaxFaults
          /\ expired \in 0 .. faults
        OBVIOUS
    <2>4. worker \in [Workers -> Job \cup {Idle}]
        OBVIOUS
    <2>5. fanouts \in [Contents -> Nat] /\ scrapes \in Nat
        OBVIOUS
    <2> QED
        BY <2>1, <2>2, <2>3, <2>4, <2>5 DEF TypeOK, None
  <1>2. Shape
      BY DEF Shape
  <1>3. claim \notin Workers
      BY DEF None
  <1>4. Holders = {}
      BY DEF Holders
  <1>5. Cardinality(Holders) = 0
      BY <1>4, FS_EmptySet
  <1>6. ClaimNamesHolder /\ ClaimSerialises
      BY <1>3, <1>5 DEF ClaimNamesHolder, ClaimSerialises
  <1>7. Len(snaps) = 0
      OBVIOUS
  <1>8. LatestChangeIsCarried /\ StaleIsExplained
      BY <1>7 DEF LatestChangeIsCarried, StaleIsExplained
  <1> QED
      BY <1>1, <1>2, <1>6, <1>8 DEF IInv

-----------------------------------------------------------------------------
(* One worker goes from what it does to next.                              *)

LEMMA BusyHasJob ==
  ASSUME TypeOK, NEW w \in Workers, worker[w].at # "idle"
  PROVE  worker[w] \in Job /\ worker[w] # Idle
  BY DEF TypeOK, Job, Idle

LEMMA JobIsBusy ==
  ASSUME NEW j \in Job
  PROVE  /\ j # Idle /\ j.at # "idle" /\ j.at \in At
         /\ j.task \in {"scrape", "fanout"}
         /\ j.hash \in Contents \cup {0} /\ j.review \in BOOLEAN
  BY DEF Job, Idle, At, Held

LEMMA IdleIsIdle == Idle.at = "idle" /\ Idle \notin Job
  BY DEF Job, Idle, At, Held

Turns(w, next) == worker' = [worker EXCEPT ![w] = next]

LEMMA WorkerTurns ==
  ASSUME TypeOK, NEW w \in Workers, NEW next \in Job \cup {Idle},
         Turns(w, next)
  PROVE  /\ worker' \in [Workers -> Job \cup {Idle}]
         /\ worker'[w] = next
         /\ \A v \in Workers \ {w} : worker'[v] = worker[v]
  <1>1. worker \in [Workers -> Job \cup {Idle}]
      BY DEF TypeOK
  <1> QED
      BY <1>1 DEF Turns

(* Goes changes where a task stands and nothing else.                      *)
LEMMA GoesTurns ==
  ASSUME TypeOK, NEW w \in Workers, worker[w].at # "idle",
         NEW to \in At, Goes(w, to)
  PROVE  LET next == [worker[w] EXCEPT !.at = to]
         IN  /\ next \in Job
             /\ Turns(w, next)
             /\ next.at = to
             /\ next.task = worker[w].task
             /\ next.hash = worker[w].hash
             /\ next.review = worker[w].review
  <1>1. worker[w] \in Job
      BY BusyHasJob
  <1> QED
      BY <1>1 DEF Job, Goes, Turns

LEMMA ShapeTurns ==
  ASSUME TypeOK, Shape, NEW w \in Workers, NEW next \in Job \cup {Idle},
         Turns(w, next), next # Idle => Shaped(next)
  PROVE  Shape'
  <1>1. /\ worker'[w] = next
        /\ \A v \in Workers \ {w} : worker'[v] = worker[v]
      BY WorkerTurns
  <1> QED
      BY <1>1 DEF Shape, Shaped

-----------------------------------------------------------------------------
(* The claim and those who scrape.                                         *)

LEMMA HoldersTurn ==
  ASSUME TypeOK, NEW w \in Workers, NEW next \in Job \cup {Idle},
         Turns(w, next)
  PROVE  /\ next # Idle /\ next.at \in Held => Holders' = Holders \cup {w}
         /\ ~(next # Idle /\ next.at \in Held) => Holders' = Holders \ {w}
  <1>1. /\ worker'[w] = next
        /\ \A v \in Workers \ {w} : worker'[v] = worker[v]
      BY WorkerTurns
  <1> QED
      BY <1>1 DEF Holders, Held

LEMMA HoldersCounted ==
  IsFiniteSet(Holders) /\ Cardinality(Holders) \in Nat
  <1>1. Holders \in SUBSET Workers
      BY DEF Holders
  <1>2. IsFiniteSet(Holders)
      BY <1>1, FS_Subset, MonitorAssumption
  <1> QED
      BY <1>2, FS_CardinalityType

ClaimInv == ClaimNamesHolder /\ ClaimSerialises

(* Nobody joins, and the claim stays with one of those who scrape.         *)
LEMMA ClaimStays ==
  ASSUME TypeOK, ClaimInv, Holders' \subseteq Holders,
         UNCHANGED <<claim, expired>>,
         claim \in Workers => claim \in Holders'
  PROVE  ClaimInv'
  <1>1. IsFiniteSet(Holders) /\ Cardinality(Holders) \in Nat
      BY HoldersCounted
  <1>2. Holders' \in SUBSET Holders
      OBVIOUS
  <1>3. IsFiniteSet(Holders') /\ Cardinality(Holders') <= Cardinality(Holders)
      BY <1>1, <1>2, FS_Subset
  <1>4. Cardinality(Holders') \in Nat
      BY <1>3, FS_CardinalityType
  <1>5. expired \in Nat
      BY MonitorAssumption DEF TypeOK
  <1>6. ClaimSerialises'
      BY <1>1, <1>3, <1>4, <1>5 DEF ClaimInv, ClaimSerialises
  <1> QED
      BY <1>6 DEF ClaimInv, ClaimNamesHolder

(* One of those who scrape stops, and with it whichever claim there is.    *)
LEMMA ClaimGoes ==
  ASSUME TypeOK, ClaimInv, NEW w \in Holders, Holders' = Holders \ {w},
         claim' \notin Workers, UNCHANGED expired
  PROVE  ClaimInv'
  <1>1. IsFiniteSet(Holders) /\ Cardinality(Holders) \in Nat
      BY HoldersCounted
  <1>2. Cardinality(Holders') = Cardinality(Holders) - 1
      BY <1>1, FS_RemoveElement
  <1>3. expired \in Nat
      BY MonitorAssumption DEF TypeOK
  <1>4. Cardinality(Holders) <= expired + 1
      BY <1>1, <1>3 DEF ClaimInv, ClaimSerialises
  <1>5. Cardinality(Holders') <= expired
      BY <1>1, <1>2, <1>3, <1>4
  <1>6. ClaimSerialises'
      BY <1>3, <1>5 DEF ClaimSerialises
  <1> QED
      BY <1>6 DEF ClaimInv, ClaimNamesHolder

(* Steps that leave both the claim and where the workers stand alone.      *)
LEMMA ClaimUntouched ==
  ASSUME TypeOK, ClaimInv, UNCHANGED <<worker, claim, expired>>
  PROVE  ClaimInv'
  <1>1. Holders' = Holders
      BY DEF Holders, Held
  <1> QED
      BY <1>1, ClaimStays DEF ClaimInv, ClaimNamesHolder

(* A task that neither takes nor gives up the claim goes on.               *)
LEMMA ClaimTurns ==
  ASSUME TypeOK, ClaimInv, NEW w \in Workers, NEW next \in Job \cup {Idle},
         Turns(w, next), UNCHANGED <<claim, expired>>,
         next # Idle /\ next.at \in Held => w \in Holders,
         claim = w => next # Idle /\ next.at \in Held
  PROVE  ClaimInv'
  <1>1. Holders' = Holders \cup {w} \/ Holders' = Holders \ {w}
      BY HoldersTurn
  <1>2. Holders' \subseteq Holders
      BY <1>1, HoldersTurn
  <1>3. claim \in Workers => claim \in Holders'
      BY <1>1, HoldersTurn DEF ClaimInv, ClaimNamesHolder
  <1> QED
      BY <1>2, <1>3, ClaimStays

-----------------------------------------------------------------------------
(* The change that is to be announced, and the snapshot that is served.    *)

Due == Len(snaps) > 1 /\ Verdict(Prior, Latest) = "REVIEW_REQUIRED"

Kept(w, h) ==
    \/ h \in notices \cup missed
    \/ fanouts[h] > 0
    \/ Carries(w, h)

Evicting(w) == worker[w] # Idle /\ CutsEvict(w)

LEMMA DueIsChange ==
  ASSUME TypeOK, Due PROVE Latest \in Contents /\ Latest # 0
  <1>1. snaps \in Seq(Contents) /\ snaps # <<>> /\ Len(snaps) \in 1 .. Len(snaps)
      BY DEF TypeOK, Due
  <1> QED
      BY <1>1, MonitorAssumption DEF Latest

LEMMA DueStays == ASSUME UNCHANGED snaps PROVE (Due' <=> Due) /\ Latest' = Latest
  BY DEF Due, Prior, Latest, Verdict

(* A worker's step keeps the invariant if it hands the change and the      *)
(* evict on, or leaves a trace of them.                                    *)
LEMMA TurnPreserves ==
  ASSUME IInv, NEW w \in Workers, NEW next \in Job \cup {Idle},
         Turns(w, next), TypeOK', ClaimInv',
         next # Idle => Shaped(next),
         UNCHANGED snaps, notices \subseteq notices', missed \subseteq missed',
         raced => raced', cache' = cache \/ cache' = 0,
         \A h \in Contents : h = Latest /\ Due /\ Kept(w, h) => Kept(w, h)',
         Evicting(w) => raced' \/ Evicting(w)' \/ cache' = 0
  PROVE  IInv'
  <1>1. \A v \in Workers \ {w} : worker'[v] = worker[v]
      BY WorkerTurns DEF IInv
  <1>2. Shape'
      BY ShapeTurns DEF IInv
  <1>3. LatestChangeIsCarried'
    <2> SUFFICES ASSUME Due
                 PROVE  \/ Latest \in notices' \cup missed'
                        \/ fanouts'[Latest] > 0
                        \/ \E v \in Workers : Carries(v, Latest)'
        BY DueStays DEF LatestChangeIsCarried, Due, Carries
    <2>1. PICK h \in Contents : h = Latest
        BY DueIsChange DEF IInv
    <2>2. \A v \in Workers \ {w} : Carries(v, h) => Carries(v, h)'
        BY <1>1 DEF Carries, Fanning
    <2>3. \/ h \in notices \cup missed \/ fanouts[h] > 0
          \/ \E v \in Workers : Carries(v, h)
        BY <2>1 DEF IInv, LatestChangeIsCarried, Due
    <2>4. CASE Kept(w, h)
      <3>1. Kept(w, h)'
          BY <2>1, <2>4
      <3> QED
          BY <2>1, <3>1, DueStays DEF Kept
    <2>5. CASE ~Kept(w, h)
        BY <2>1, <2>2, <2>3, <2>5, DueStays DEF Kept
    <2> QED
        BY <2>4, <2>5
  <1>4. StaleIsExplained'
    <2> SUFFICES ASSUME cache' # 0, cache' # Len(snaps), ~raced'
                 PROVE  \E v \in Workers : Evicting(v)'
        BY DEF StaleIsExplained, Evicting
    <2>1. PICK v \in Workers : Evicting(v)
        BY DEF IInv, StaleIsExplained, Evicting
    <2>2. CASE v = w
        BY <2>1, <2>2
    <2>3. CASE v # w
        BY <1>1, <2>1, <2>3 DEF Evicting, CutsEvict
    <2> QED
        BY <2>2, <2>3
  <1> QED
      BY <1>2, <1>3, <1>4 DEF IInv, ClaimInv

(* A step of the world keeps the invariant if it does with the claim and   *)
(* the cache.                                                              *)
LEMMA WorldPreserves ==
  ASSUME IInv, TypeOK', ClaimInv', StaleIsExplained',
         UNCHANGED <<snaps, worker, notices, missed>>,
         \A h \in Contents : fanouts[h] > 0 => fanouts'[h] > 0
  PROVE  IInv'
  <1>1. Shape'
      BY DEF IInv, Shape, Shaped
  <1>2. LatestChangeIsCarried'
    <2> SUFFICES ASSUME Due
                 PROVE  \/ Latest \in notices' \cup missed'
                        \/ fanouts'[Latest] > 0
                        \/ \E v \in Workers : Carries(v, Latest)'
        BY DueStays DEF LatestChangeIsCarried, Due, Carries
    <2>1. Latest \in Contents
        BY DueIsChange DEF IInv
    <2>2. \A v \in Workers : Carries(v, Latest) => Carries(v, Latest)'
        BY DueStays DEF Carries, Fanning
    <2> QED
        BY <2>1, <2>2 DEF IInv, LatestChangeIsCarried, Due
  <1> QED
      BY <1>1, <1>2 DEF IInv, ClaimInv

LEMMA ServesAsBefore ==
  ASSUME StaleIsExplained, UNCHANGED <<snaps, cache, worker>>, raced => raced'
  PROVE  StaleIsExplained'
  BY DEF StaleIsExplained, CutsEvict

LEMMA FaultCounts ==
  ASSUME TypeOK, Fault
  PROVE  /\ faults' \in 0 .. MaxFaults
         /\ faults' = faults + 1
         /\ faults \in Nat
         /\ expired \in 0 .. faults'
         /\ expired + 1 \in 0 .. faults'
  BY MonitorAssumption DEF TypeOK, Fault

-----------------------------------------------------------------------------
(* The world: time, sellers, Valkey, readers.                              *)

LEMMA TypeParts ==
  ASSUME TypeOK
  PROVE  /\ claim \in Workers \cup {None, Orphan}
         /\ scrapes \in Nat /\ scrapes + 1 \in Nat
         /\ fanouts \in [Contents -> Nat]
         /\ worker \in [Workers -> Job \cup {Idle}]
         /\ faults \in 0 .. MaxFaults
         /\ expired \in 0 .. faults
         /\ raced \in BOOLEAN
  BY DEF TypeOK

LEMMA NobodyNamed == None \notin Workers /\ Orphan \notin Workers
  BY MonitorAssumption DEF None, Orphan

LEMMA CalmPreserves ==
  ASSUME IInv, GrowOld \/ Trigger PROVE IInv'
  <1>1. /\ UNCHANGED <<snaps, claim, fanouts, worker, notices, cache, fetched,
                       faults, expired, missed, raced>>
        /\ fresh' \in BOOLEAN
        /\ scrapes' \in Nat
        /\ asked' \in 0 .. MaxTriggers
    <2>1. asked \in 0 .. MaxTriggers /\ scrapes \in Nat /\ fresh \in BOOLEAN
        BY DEF IInv, TypeOK
    <2>2. CASE GrowOld
        BY <2>1, <2>2 DEF GrowOld, tasks, serving, observers
    <2>3. CASE Trigger
      <3>1. asked + 1 \in 0 .. MaxTriggers
          BY <2>1, <2>3, MonitorAssumption DEF Trigger
      <3> QED
          BY <2>1, <2>3, <3>1 DEF Trigger, serving, observers
    <2> QED
        BY <2>2, <2>3
  <1>2. TypeOK'
      BY <1>1 DEF IInv, TypeOK
  <1>3. ClaimInv'
      BY <1>1, ClaimUntouched DEF IInv, ClaimInv
  <1>4. StaleIsExplained'
      BY <1>1, ServesAsBefore DEF IInv
  <1> QED
      BY <1>1, <1>2, <1>3, <1>4, WorldPreserves

LEMMA OrphanExpiresPreserves == ASSUME IInv, OrphanExpires PROVE IInv'
  <1>1. /\ claim = Orphan /\ claim' = None
        /\ UNCHANGED <<snaps, fresh, scrapes, fanouts, worker, notices, cache,
                       fetched, asked, faults, expired, missed, raced>>
      BY DEF OrphanExpires, tasks, serving, observers
  <1>2. TypeOK'
      BY <1>1 DEF IInv, TypeOK
  <1>3. Holders' = Holders
      BY <1>1 DEF Holders, Held
  <1>4. ClaimInv'
      BY <1>1, <1>3, NobodyNamed
      DEF IInv, ClaimInv, ClaimNamesHolder, ClaimSerialises
  <1>5. StaleIsExplained'
      BY <1>1, ServesAsBefore DEF IInv
  <1> QED
      BY <1>1, <1>2, <1>4, <1>5, WorldPreserves

(* The one step that lets two tasks scrape, and it is counted.             *)
LEMMA HeldClaimExpiresPreserves == ASSUME IInv, HeldClaimExpires PROVE IInv'
  <1>1. /\ claim \in Workers /\ claim' = None
        /\ expired' = expired + 1
        /\ Fault
        /\ UNCHANGED <<snaps, fresh, scrapes, fanouts, worker, notices, cache,
                       fetched, asked, missed, raced>>
      BY DEF HeldClaimExpires, tasks, serving
  <1>2. faults' \in 0 .. MaxFaults /\ expired' \in 0 .. faults'
      BY <1>1, FaultCounts DEF IInv
  <1>3. TypeOK'
      BY <1>1, <1>2 DEF IInv, TypeOK
  <1>4. Holders' = Holders
      BY <1>1 DEF Holders, Held
  <1>5. ClaimSerialises'
    <2>1. Cardinality(Holders) \in Nat /\ expired \in Nat
        BY HoldersCounted, MonitorAssumption DEF IInv, TypeOK
    <2>2. Cardinality(Holders) <= expired + 1
        BY <1>1 DEF IInv, ClaimSerialises
    <2> QED
        BY <1>1, <1>4, <2>1, <2>2, NobodyNamed DEF ClaimSerialises
  <1>6. ClaimInv'
      BY <1>1, <1>5, NobodyNamed DEF ClaimInv, ClaimNamesHolder
  <1>7. StaleIsExplained'
      BY <1>1, ServesAsBefore DEF IInv
  <1> QED
      BY <1>1, <1>3, <1>6, <1>7, WorldPreserves

(* A reader stores the latest snapshot, or the race is on record.          *)
LEMMA ReadingPreserves ==
  ASSUME IInv, ReadFetch \/ (\E n \in fetched : ReadStore(n)) \/ CacheExpires
  PROVE  IInv'
  <1>1. UNCHANGED <<snaps, fresh, claim, scrapes, fanouts, worker, notices,
                    asked, faults, expired, missed>>
      BY DEF ReadFetch, ReadStore, CacheExpires, tasks, observers
  <1>2. /\ cache' \in 0 .. Len(snaps)
        /\ fetched' \subseteq 1 .. Len(snaps)
        /\ raced' \in BOOLEAN
        /\ StaleIsExplained'
    <2>1. /\ Len(snaps) \in Nat
          /\ cache \in 0 .. Len(snaps)
          /\ fetched \subseteq 1 .. Len(snaps)
          /\ raced \in BOOLEAN
        BY DEF IInv, TypeOK
    <2>2. CASE ReadFetch
      <3>1. /\ UNCHANGED <<cache, raced>>
            /\ fetched' = fetched \cup {Len(snaps)}
            /\ snaps # <<>>
          BY <2>2 DEF ReadFetch, Newest, observers
      <3>2. Len(snaps) \in 1 .. Len(snaps)
          BY <3>1 DEF IInv, TypeOK
      <3>3. StaleIsExplained'
          BY <1>1, <3>1, ServesAsBefore DEF IInv
      <3> QED
          BY <2>1, <3>1, <3>2, <3>3
    <2>3. ASSUME NEW n \in fetched, ReadStore(n)
          PROVE  /\ cache' \in 0 .. Len(snaps)
                 /\ fetched' \subseteq 1 .. Len(snaps)
                 /\ raced' \in BOOLEAN
                 /\ StaleIsExplained'
      <3>1. /\ cache' = n
            /\ fetched' = fetched \ {n}
            /\ raced' = (raced \/ n < Len(snaps))
          BY <2>3 DEF ReadStore
      <3>2. n \in 1 .. Len(snaps)
          BY <2>1
      <3>3. n < Len(snaps) => raced'
          BY <3>1
      <3>4. StaleIsExplained'
          BY <1>1, <2>1, <3>1, <3>2, <3>3 DEF StaleIsExplained
      <3> QED
          BY <2>1, <3>1, <3>2, <3>4
    <2>4. CASE CacheExpires
      <3>1. cache' = 0 /\ UNCHANGED <<fetched, raced>>
          BY <2>4 DEF CacheExpires, observers
      <3> QED
          BY <2>1, <3>1 DEF StaleIsExplained
    <2> QED
        BY <2>2, <2>3, <2>4
  <1>3. TypeOK'
      BY <1>1, <1>2 DEF IInv, TypeOK
  <1>4. ClaimInv'
      BY <1>1, ClaimUntouched DEF IInv, ClaimInv
  <1> QED
      BY <1>1, <1>2, <1>3, <1>4, WorldPreserves

-----------------------------------------------------------------------------
(* monitor.scrape_category.                                                *)

LEMMA TakeScrapePreserves ==
  ASSUME IInv, NEW w \in Workers, TakeScrape(w) PROVE IInv'
  <1> DEFINE next == [at |-> IF Reusable THEN "ack" ELSE "claim",
                      task |-> "scrape", hash |-> 0, review |-> FALSE]
  <1>1. /\ worker[w] = Idle
        /\ Turns(w, next)
        /\ scrapes > 0
        /\ scrapes' = scrapes - 1
        /\ UNCHANGED <<snaps, fresh, claim, fanouts, notices, cache, fetched,
                       asked, faults, expired, missed, raced>>
      BY DEF TakeScrape, Turns, serving, observers
  <1>2. /\ next \in Job
        /\ next.at \notin Held
        /\ Shaped(next)
      BY DEF Job, At, Held, Shaped, Reusable
  <1> HIDE DEF next
  <1>3. next \in Job \cup {Idle} /\ next # Idle
      BY <1>2, IdleIsIdle
  <1>4. worker' \in [Workers -> Job \cup {Idle}]
      BY <1>1, <1>3, WorkerTurns DEF IInv
  <1>5. scrapes' \in Nat
      BY <1>1 DEF IInv, TypeOK
  <1>6. TypeOK'
      BY <1>1, <1>4, <1>5 DEF IInv, TypeOK
  <1>7. w \notin Holders
      BY <1>1 DEF Holders
  <1>8. claim # w
      BY <1>7 DEF IInv, ClaimNamesHolder
  <1>9. ClaimInv'
      BY <1>1, <1>2, <1>3, <1>8, ClaimTurns DEF IInv, ClaimInv
  <1>10. \A h \in Contents : Kept(w, h) => Kept(w, h)'
      BY <1>1 DEF Kept, Carries
  <1>11. ~Evicting(w)
      BY <1>1 DEF Evicting
  <1> QED
      BY <1>1, <1>2, <1>3, <1>6, <1>9, <1>10, <1>11, TurnPreserves

(* The claim is free: one more scrapes, and the claim names it.            *)
LEMMA ClaimPreserves ==
  ASSUME IInv, NEW w \in Workers, Claim(w) PROVE IInv'
  <1>1. /\ worker[w].at = "claim"
        /\ UNCHANGED <<snaps, fresh, scrapes, fanouts, notices, cache, fetched,
                       asked, faults, expired, missed, raced>>
      BY DEF Claim, tasks, serving, observers
  <1>2. worker[w] # Idle /\ worker[w] \in Job
      BY <1>1, BusyHasJob DEF IInv
  <1>3. w \notin Holders
      BY <1>1 DEF Holders, Held
  <1>4. claim # w
      BY <1>3 DEF IInv, ClaimNamesHolder
  <1>5. \A h : ~Carries(w, h)
      BY <1>1 DEF Carries, Fanning
  <1>6. ~Evicting(w)
      BY <1>1 DEF Evicting, CutsEvict
  <1>7. \A h \in Contents : Kept(w, h) => Kept(w, h)'
      BY <1>1, <1>5 DEF Kept
  <1>8. Shaped(worker[w])
      BY <1>2 DEF IInv, Shape
  <1>9. CASE Claimable /\ claim' = w /\ Goes(w, "scrape")
    <2> DEFINE next == [worker[w] EXCEPT !.at = "scrape"]
    <2>1. /\ next \in Job
          /\ Turns(w, next)
          /\ next.at = "scrape"
          /\ next.task = worker[w].task
          /\ next.hash = worker[w].hash
        BY <1>1, <1>9, GoesTurns DEF IInv, At, Held
    <2> HIDE DEF next
    <2>2. next \in Job \cup {Idle} /\ next # Idle /\ Shaped(next)
        BY <1>8, <2>1, IdleIsIdle DEF Shaped
    <2>3. worker' \in [Workers -> Job \cup {Idle}]
        BY <2>1, <2>2, WorkerTurns DEF IInv
    <2>4. TypeOK'
        BY <1>1, <1>9, <2>3 DEF IInv, TypeOK
    <2>5. Holders' = Holders \cup {w}
        BY <2>1, <2>2, HoldersTurn DEF IInv, Held
    <2>6. Cardinality(Holders') = Cardinality(Holders) + 1
        BY <1>3, <2>5, HoldersCounted, FS_AddElement
    <2>7. Cardinality(Holders) <= expired
        BY <1>9, NobodyNamed, HoldersCounted, MonitorAssumption
        DEF IInv, TypeOK, ClaimSerialises, Claimable
    <2>8. Cardinality(Holders') <= expired + 1
        BY <2>6, <2>7, HoldersCounted, MonitorAssumption DEF IInv, TypeOK
    <2>9. ClaimInv'
        BY <1>1, <1>9, <2>5, <2>8
        DEF ClaimInv, ClaimNamesHolder, ClaimSerialises
    <2> QED
        BY <1>1, <1>6, <1>7, <2>1, <2>2, <2>4, <2>9, TurnPreserves
  <1>10. CASE Goes(w, "ack") /\ UNCHANGED claim
    <2> DEFINE next == [worker[w] EXCEPT !.at = "ack"]
    <2>1. /\ next \in Job
          /\ Turns(w, next)
          /\ next.at = "ack"
          /\ next.task = worker[w].task
          /\ next.hash = worker[w].hash
        BY <1>1, <1>10, GoesTurns DEF IInv, At
    <2> HIDE DEF next
    <2>2. next \in Job \cup {Idle} /\ next # Idle /\ Shaped(next)
        BY <1>8, <2>1, IdleIsIdle DEF Shaped
    <2>3. worker' \in [Workers -> Job \cup {Idle}]
        BY <2>1, <2>2, WorkerTurns DEF IInv
    <2>4. TypeOK'
        BY <1>1, <1>10, <2>3 DEF IInv, TypeOK
    <2>5. next.at \notin Held
        BY <2>1 DEF Held
    <2>6. ClaimInv'
        BY <1>1, <1>4, <1>10, <2>1, <2>2, <2>5, ClaimTurns DEF IInv, ClaimInv
    <2> QED
        BY <1>1, <1>6, <1>7, <2>1, <2>2, <2>4, <2>6, TurnPreserves
  <1> QED
      BY <1>9, <1>10 DEF Claim

(* A step of the scrape that holds on to what it holds.                    *)
LEMMA HoldingPreserves ==
  ASSUME IInv, NEW w \in Workers, NEW next \in Job, Turns(w, next),
         Shaped(next), worker[w].at \in Held, next.at \in Held,
         UNCHANGED <<snaps, fresh, claim, scrapes, notices, fetched, asked,
                     faults, expired, missed, raced>>,
         cache' = cache \/ cache' = 0,
         fanouts' \in [Contents -> Nat],
         \A h \in Contents : h = Latest /\ Due /\ Kept(w, h) => Kept(w, h)',
         CutsEvict(w) => next.at \in {"diff", "evict"} \/ cache' = 0
  PROVE  IInv'
  <1>1. next \in Job \cup {Idle} /\ next # Idle
      BY IdleIsIdle
  <1>2. /\ worker' \in [Workers -> Job \cup {Idle}]
        /\ worker'[w] = next
      BY <1>1, WorkerTurns DEF IInv
  <1>3. cache' \in 0 .. Len(snaps)
      BY DEF IInv, TypeOK
  <1>4. TypeOK'
      BY <1>2, <1>3 DEF IInv, TypeOK
  <1>5. w \in Holders
      BY IdleIsIdle DEF Holders, Held
  <1>6. ClaimInv'
      BY <1>1, <1>5, ClaimTurns DEF IInv, ClaimInv
  <1>7. Evicting(w) => Evicting(w)' \/ cache' = 0
      BY <1>1, <1>2 DEF Evicting, CutsEvict
  <1> QED
      BY <1>1, <1>4, <1>6, <1>7, TurnPreserves

LEMMA ScrapePreserves ==
  ASSUME IInv, NEW w \in Workers, NEW found \in Contents, Scrape(w, found)
  PROVE  IInv'
  <1> DEFINE next == [worker[w] EXCEPT !.at = "insert", !.hash = found]
  <1>1. /\ worker[w].at = "scrape"
        /\ Turns(w, next)
        /\ UNCHANGED <<snaps, fresh, claim, scrapes, fanouts, notices, cache,
                       fetched, asked, faults, expired, missed, raced>>
      BY DEF Scrape, Turns, tasks, serving, observers
  <1>2. worker[w] \in Job
      BY <1>1, BusyHasJob DEF IInv
  <1>3. next \in Job /\ next.at = "insert" /\ next.hash = found
      BY <1>2 DEF Job, At, Held
  <1> HIDE DEF next
  <1>4. found # 0
      BY MonitorAssumption
  <1>5. Shaped(next)
      BY <1>3, <1>4 DEF Shaped
  <1>6. worker[w].at \in Held /\ next.at \in Held /\ ~CutsEvict(w)
      BY <1>1, <1>3 DEF Held, CutsEvict
  <1>7. \A h \in Contents : Kept(w, h) => Kept(w, h)'
      BY <1>1 DEF Kept, Carries, Fanning
  <1>8. fanouts' \in [Contents -> Nat]
      BY <1>1 DEF IInv, TypeOK
  <1> QED
      BY <1>1, <1>3, <1>5, <1>6, <1>7, <1>8, HoldingPreserves

(* The task that adds a row carries it, and its evict is to come.          *)
LEMMA InsertPreserves ==
  ASSUME IInv, NEW w \in Workers, Insert(w) PROVE IInv'
  <1> DEFINE next == [worker[w] EXCEPT !.at = "diff"]
             c == worker[w].hash
  <1>1. /\ worker[w].at = "insert"
        /\ snaps' = Append(snaps, c)
        /\ fresh' = TRUE
        /\ UNCHANGED <<claim, scrapes, fanouts, notices, cache, fetched,
                       asked, faults, expired, missed, raced>>
      BY DEF Insert, tasks, serving, observers
  <1>2. /\ next \in Job
        /\ Turns(w, next)
        /\ next.at = "diff"
        /\ next.task = worker[w].task
        /\ next.hash = c
      BY <1>1, GoesTurns DEF IInv, Insert, At, Held
  <1>3. worker[w] \in Job /\ worker[w] # Idle
      BY <1>1, BusyHasJob DEF IInv
  <1>4. Shaped(worker[w])
      BY <1>3 DEF IInv, Shape
  <1>5. c \in Contents
      BY <1>1, <1>3, <1>4, JobIsBusy DEF Shaped
  <1> HIDE DEF next, c
  <1>6. next \in Job \cup {Idle} /\ next # Idle /\ Shaped(next)
      BY <1>1, <1>2, <1>4, IdleIsIdle DEF Shaped, c
  <1>7. /\ worker' \in [Workers -> Job \cup {Idle}]
        /\ worker'[w] = next
      BY <1>2, <1>6, WorkerTurns DEF IInv
  <1>8. /\ snaps' \in Seq(Contents)
        /\ Len(snaps') = Len(snaps) + 1
        /\ Len(snaps) \in Nat
        /\ snaps'[Len(snaps')] = c
      BY <1>1, <1>5 DEF IInv, TypeOK
  <1>9. cache \in 0 .. Len(snaps') /\ fetched \subseteq 1 .. Len(snaps')
      BY <1>8 DEF IInv, TypeOK
  <1>10. TypeOK'
      BY <1>1, <1>7, <1>8, <1>9 DEF IInv, TypeOK
  <1>11. Shape'
      BY <1>2, <1>6, ShapeTurns DEF IInv
  <1>12. w \in Holders /\ next.at \in Held
      BY <1>1, <1>2, <1>3 DEF Holders, Held
  <1>13. ClaimInv'
      BY <1>1, <1>2, <1>6, <1>12, ClaimTurns DEF IInv, ClaimInv
  <1>14. LatestChangeIsCarried'
    <2>1. PICK h \in Contents : h = c
        BY <1>5
    <2>2. Latest' = h
        BY <1>8, <2>1 DEF Latest
    <2>3. Carries(w, h)'
        BY <1>2, <1>6, <1>7, <2>1 DEF Carries
    <2> QED
        BY <2>2, <2>3 DEF LatestChangeIsCarried, Carries
  <1>15. StaleIsExplained'
      BY <1>2, <1>6, <1>7 DEF StaleIsExplained, CutsEvict
  <1> QED
      BY <1>10, <1>11, <1>13, <1>14, <1>15 DEF IInv, ClaimInv

(* A gate that reads a change of the latest content sees it is one.        *)
LEMMA DiffPreserves ==
  ASSUME IInv, NEW w \in Workers, Diff(w) PROVE IInv'
  <1> DEFINE next == [worker[w] EXCEPT !.at = "evict", !.review = Reviews(w)]
  <1>1. /\ worker[w].at = "diff"
        /\ Turns(w, next)
        /\ UNCHANGED <<snaps, fresh, claim, scrapes, fanouts, notices, cache,
                       fetched, asked, faults, expired, missed, raced>>
      BY DEF Diff, Turns, tasks, serving, observers
  <1>2. worker[w] \in Job /\ worker[w] # Idle
      BY <1>1, BusyHasJob DEF IInv
  <1>3. Reviews(w) \in BOOLEAN
      BY DEF Reviews
  <1>4. /\ next \in Job
        /\ next.at = "evict"
        /\ next.task = worker[w].task
        /\ next.hash = worker[w].hash
        /\ next.review = Reviews(w)
      BY <1>2, <1>3 DEF Job, At, Held
  <1> HIDE DEF next
  <1>5. Shaped(worker[w])
      BY <1>2 DEF IInv, Shape
  <1>6. Shaped(next)
      BY <1>1, <1>4, <1>5 DEF Shaped
  <1>7. worker[w].at \in Held /\ next.at \in Held
      BY <1>1, <1>4 DEF Held
  <1>8. worker'[w] = next
      BY <1>1, <1>4, WorkerTurns DEF IInv
  <1>9. ASSUME NEW h \in Contents, h = Latest, Due, Kept(w, h)
        PROVE  Kept(w, h)'
    <2>1. CASE h \in notices \cup missed \/ fanouts[h] > 0
        BY <1>1, <2>1 DEF Kept
    <2>2. CASE Carries(w, h)
      <3>1. worker[w].hash = h
          BY <2>2 DEF Carries
      <3>2. Reviews(w)
          BY <1>9, <3>1 DEF Due, Reviews
      <3>3. next # Idle
          BY <1>4, IdleIsIdle
      <3> QED
          BY <1>4, <1>8, <3>1, <3>2, <3>3 DEF Kept, Carries
    <2> QED
        BY <1>9, <2>1, <2>2 DEF Kept
  <1>10. fanouts' \in [Contents -> Nat]
      BY <1>1 DEF IInv, TypeOK
  <1> QED
      BY <1>1, <1>4, <1>6, <1>7, <1>9, <1>10, HoldingPreserves

LEMMA EvictPreserves ==
  ASSUME IInv, NEW w \in Workers, Evict(w) PROVE IInv'
  <1> DEFINE to == IF worker[w].review THEN "announce" ELSE "release"
             next == [worker[w] EXCEPT !.at = to]
  <1>1. /\ worker[w].at = "evict"
        /\ cache' = 0
        /\ UNCHANGED <<snaps, fresh, claim, scrapes, fanouts, notices,
                       fetched, asked, faults, expired, missed, raced>>
      BY DEF Evict, Evicted, tasks, observers
  <1>2. to \in At /\ Goes(w, to)
      BY DEF Evict, At, Held
  <1>3. /\ next \in Job
        /\ Turns(w, next)
        /\ next.at = to
        /\ next.task = worker[w].task
        /\ next.hash = worker[w].hash
        /\ next.review = worker[w].review
      BY <1>1, <1>2, GoesTurns DEF IInv
  <1>4. worker[w] \in Job /\ worker[w] # Idle
      BY <1>1, BusyHasJob DEF IInv
  <1>5. Shaped(worker[w])
      BY <1>4 DEF IInv, Shape
  <1> HIDE DEF next
  <1>6. Shaped(next)
      BY <1>1, <1>3, <1>5 DEF Shaped
  <1>7. worker[w].at \in Held /\ next.at \in Held
      BY <1>1, <1>3 DEF Held
  <1>8. worker'[w] = next /\ next # Idle
      BY <1>3, WorkerTurns, IdleIsIdle DEF IInv
  <1>9. \A h \in Contents : Kept(w, h) => Kept(w, h)'
      BY <1>1, <1>3, <1>8 DEF Kept, Carries, Fanning
  <1>10. fanouts' \in [Contents -> Nat]
      BY <1>1 DEF IInv, TypeOK
  <1> QED
      BY <1>1, <1>3, <1>6, <1>7, <1>9, <1>10, HoldingPreserves

(* The announcement passes from the gate to the broker.                    *)
LEMMA AnnouncePreserves ==
  ASSUME IInv, NEW w \in Workers, Announce(w) PROVE IInv'
  <1> DEFINE next == [worker[w] EXCEPT !.at = "release"]
             c == worker[w].hash
  <1>1. /\ worker[w].at = "announce"
        /\ fanouts' = [fanouts EXCEPT ![c] = fanouts[c] + 1]
        /\ UNCHANGED <<snaps, fresh, claim, scrapes, notices, cache,
                       fetched, asked, faults, expired, missed, raced>>
      BY DEF Announce, serving, observers
  <1>2. /\ next \in Job
        /\ Turns(w, next)
        /\ next.at = "release"
        /\ next.task = worker[w].task
        /\ next.hash = c
      BY <1>1, GoesTurns DEF IInv, Announce, At, Held
  <1>3. worker[w] \in Job /\ worker[w] # Idle
      BY <1>1, BusyHasJob DEF IInv
  <1>4. Shaped(worker[w])
      BY <1>3 DEF IInv, Shape
  <1>5. c \in Contents
      BY <1>1, <1>3, <1>4, JobIsBusy DEF Shaped
  <1> HIDE DEF next, c
  <1>6. Shaped(next)
      BY <1>1, <1>2, <1>4 DEF Shaped, c
  <1>7. worker[w].at \in Held /\ next.at \in Held /\ ~CutsEvict(w)
      BY <1>1, <1>2 DEF Held, CutsEvict
  <1>8. fanouts \in [Contents -> Nat]
      BY DEF IInv, TypeOK
  <1>9. fanouts[c] \in Nat /\ fanouts[c] + 1 \in Nat /\ fanouts[c] + 1 > 0
      BY <1>5, <1>8
  <1>10. /\ fanouts' \in [Contents -> Nat]
         /\ fanouts'[c] > 0
         /\ \A h \in Contents : h # c => fanouts'[h] = fanouts[h]
      BY <1>1, <1>5, <1>8, <1>9
  <1>11. \A h : Carries(w, h) => h = c
      BY DEF Carries, c
  <1>12. \A h \in Contents : Kept(w, h) => Kept(w, h)'
      BY <1>1, <1>10, <1>11 DEF Kept
  <1> QED
      BY <1>1, <1>2, <1>6, <1>7, <1>10, <1>12, HoldingPreserves

(* Whoever set the claim, one scrape less stands against one claim less.   *)
LEMMA ReleasingPreserves ==
  ASSUME IInv, NEW w \in Workers, Release(w) \/ ReleaseLost(w) PROVE IInv'
  <1> DEFINE next == [worker[w] EXCEPT !.at = "ack"]
  <1>1. /\ worker[w].at = "release"
        /\ Goes(w, "ack")
        /\ claim' \in {None, Abandoned(w)}
        /\ faults' \in 0 .. MaxFaults /\ expired \in 0 .. faults'
        /\ UNCHANGED <<snaps, fresh, scrapes, fanouts, notices, cache, fetched,
                       asked, expired, missed, raced>>
    <2>1. CASE Release(w)
        BY <2>1 DEF Release, tasks, serving, observers, IInv, TypeOK
    <2>2. CASE ReleaseLost(w)
        BY <2>2, FaultCounts DEF ReleaseLost, tasks, serving, observers, IInv
    <2> QED
        BY <2>1, <2>2
  <1>2. "ack" \in At
      BY DEF At
  <1>3. /\ next \in Job
        /\ Turns(w, next)
        /\ next.at = "ack"
        /\ next.task = worker[w].task
        /\ next.hash = worker[w].hash
      BY <1>1, <1>2, GoesTurns DEF IInv
  <1>4. worker[w] \in Job /\ worker[w] # Idle
      BY <1>1, BusyHasJob DEF IInv
  <1>5. Shaped(worker[w])
      BY <1>4 DEF IInv, Shape
  <1> HIDE DEF next
  <1>6. next \in Job \cup {Idle} /\ next # Idle /\ Shaped(next)
      BY <1>3, <1>5, IdleIsIdle DEF Shaped
  <1>7. worker' \in [Workers -> Job \cup {Idle}]
      BY <1>3, <1>6, WorkerTurns DEF IInv
  <1>8. claim' \in Workers \cup {None, Orphan}
      BY <1>1 DEF IInv, TypeOK, Abandoned
  <1>9. TypeOK'
      BY <1>1, <1>7, <1>8 DEF IInv, TypeOK
  <1>10. w \in Holders
      BY <1>1, <1>4 DEF Holders, Held
  <1>11. Holders' = Holders \ {w}
      BY <1>3, <1>6, HoldersTurn DEF IInv, Held
  <1>12. ClaimInv'
    <2>1. CASE claim' \notin Workers
        BY <1>1, <1>10, <1>11, <2>1, ClaimGoes DEF IInv, ClaimInv
    <2>2. CASE claim' \in Workers
      <3>1. claim' = claim /\ claim # w
          BY <1>1, <2>2, NobodyNamed DEF Abandoned
      <3>2. Holders' \subseteq Holders
          BY <1>11
      <3>3. claim \in Holders'
          BY <1>11, <2>2, <3>1 DEF IInv, ClaimNamesHolder
      <3> QED
          BY <1>1, <3>1, <3>2, <3>3, ClaimStays DEF IInv, ClaimInv
    <2> QED
        BY <2>1, <2>2
  <1>13. \A h \in Contents : Kept(w, h) => Kept(w, h)'
      BY <1>1 DEF Kept, Carries, Fanning
  <1>14. ~Evicting(w)
      BY <1>1 DEF Evicting, CutsEvict
  <1> QED
      BY <1>1, <1>3, <1>6, <1>9, <1>12, <1>13, <1>14, TurnPreserves

-----------------------------------------------------------------------------
(* monitor.fanout_category_change.                                         *)

(* A worker that does not scrape turns to something that is not a scrape.  *)
LEMMA AsidePreserves ==
  ASSUME IInv, NEW w \in Workers, NEW next \in Job \cup {Idle},
         Turns(w, next), next # Idle => Shaped(next),
         worker[w].at \notin Held, next.at \notin Held,
         UNCHANGED <<snaps, fresh, claim, cache, fetched, asked, expired, raced>>,
         scrapes' \in Nat, fanouts' \in [Contents -> Nat],
         faults' \in 0 .. MaxFaults, expired \in 0 .. faults',
         notices' \subseteq Contents, notices \subseteq notices',
         missed' \subseteq Contents, missed \subseteq missed',
         \A h \in Contents : h = Latest /\ Due /\ Kept(w, h) => Kept(w, h)'
  PROVE  IInv'
  <1>1. worker' \in [Workers -> Job \cup {Idle}]
      BY WorkerTurns DEF IInv
  <1>2. TypeOK'
      BY <1>1 DEF IInv, TypeOK
  <1>3. w \notin Holders
      BY DEF Holders
  <1>4. claim # w
      BY <1>3 DEF IInv, ClaimNamesHolder
  <1>5. ClaimInv'
      BY <1>4, ClaimTurns DEF IInv, ClaimInv
  <1>6. ~Evicting(w)
      BY DEF Evicting, CutsEvict, Held
  <1> QED
      BY <1>2, <1>5, <1>6, TurnPreserves

LEMMA SameData ==
  ASSUME TypeOK, UNCHANGED <<scrapes, fanouts, notices, faults, expired, missed>>
  PROVE  /\ scrapes' \in Nat /\ fanouts' \in [Contents -> Nat]
         /\ faults' \in 0 .. MaxFaults /\ expired \in 0 .. faults'
         /\ notices' \subseteq Contents /\ notices \subseteq notices'
         /\ missed' \subseteq Contents /\ missed \subseteq missed'
  BY DEF TypeOK

LEMMA TakeFanoutPreserves ==
  ASSUME IInv, NEW w \in Workers, NEW h \in Contents, TakeFanout(w, h)
  PROVE  IInv'
  <1> DEFINE next == [at |-> "latest", task |-> "fanout", hash |-> h,
                      review |-> FALSE]
  <1>1. /\ worker[w] = Idle
        /\ Turns(w, next)
        /\ fanouts[h] > 0
        /\ fanouts' = [fanouts EXCEPT ![h] = fanouts[h] - 1]
        /\ UNCHANGED <<snaps, fresh, claim, scrapes, notices, cache, fetched,
                       asked, faults, expired, missed, raced>>
      BY DEF TakeFanout, Turns, serving, observers
  <1>2. h # 0
      BY MonitorAssumption
  <1>3. /\ next \in Job
        /\ next.at = "latest"
        /\ next.hash = h
        /\ Shaped(next)
      BY <1>2 DEF Job, At, Shaped
  <1> HIDE DEF next
  <1>4. next \in Job \cup {Idle} /\ next # Idle
      BY <1>3, IdleIsIdle
  <1>5. worker[w].at \notin Held /\ next.at \notin Held
      BY <1>1, <1>3, IdleIsIdle DEF Held
  <1>6. fanouts \in [Contents -> Nat] /\ fanouts[h] - 1 \in Nat
      BY <1>1 DEF IInv, TypeOK
  <1>7. /\ fanouts' \in [Contents -> Nat]
        /\ \A x \in Contents : x # h => fanouts'[x] = fanouts[x]
      BY <1>1, <1>6
  <1>8. worker'[w] = next
      BY <1>1, <1>4, WorkerTurns DEF IInv
  <1>9. Carries(w, h)'
      BY <1>3, <1>4, <1>8 DEF Carries, Fanning
  <1>10. \A x \in Contents : Kept(w, x) => Kept(w, x)'
    <2> SUFFICES ASSUME NEW x \in Contents, Kept(w, x) PROVE Kept(w, x)'
        OBVIOUS
    <2>1. CASE x = h
        BY <1>9, <2>1 DEF Kept
    <2>2. CASE x # h
        BY <1>1, <1>7, <2>2 DEF Kept, Carries
    <2> QED
        BY <2>1, <2>2
  <1>11. /\ scrapes' \in Nat
         /\ faults' \in 0 .. MaxFaults /\ expired \in 0 .. faults'
         /\ notices' \subseteq Contents /\ notices \subseteq notices'
         /\ missed' \subseteq Contents /\ missed \subseteq missed'
      BY <1>1 DEF IInv, TypeOK
  <1> QED
      BY <1>1, <1>3, <1>4, <1>5, <1>7, <1>10, <1>11, AsidePreserves

(* The superseded guard lets the latest content pass.                      *)
LEMMA FanoutLatestPreserves ==
  ASSUME IInv, NEW w \in Workers, FanoutLatest(w) PROVE IInv'
  <1> DEFINE to == IF Current(w) THEN "notify" ELSE "ack"
             next == [worker[w] EXCEPT !.at = to]
  <1>1. /\ worker[w].at = "latest"
        /\ Goes(w, to)
        /\ to \in At
        /\ UNCHANGED <<snaps, fresh, claim, scrapes, fanouts, notices, cache,
                       fetched, asked, faults, expired, missed, raced>>
      BY DEF FanoutLatest, tasks, serving, observers, At
  <1>2. /\ next \in Job
        /\ Turns(w, next)
        /\ next.at = to
        /\ next.task = worker[w].task
        /\ next.hash = worker[w].hash
      BY <1>1, GoesTurns DEF IInv
  <1>3. worker[w] \in Job /\ worker[w] # Idle
      BY <1>1, BusyHasJob DEF IInv
  <1>4. Shaped(worker[w])
      BY <1>3 DEF IInv, Shape
  <1> HIDE DEF next
  <1>5. next \in Job \cup {Idle} /\ next # Idle /\ Shaped(next)
      BY <1>1, <1>2, <1>4, IdleIsIdle DEF Shaped
  <1>6. worker[w].at \notin Held /\ next.at \notin Held
      BY <1>1, <1>2 DEF Held
  <1>7. worker'[w] = next
      BY <1>2, <1>5, WorkerTurns DEF IInv
  <1>8. ASSUME NEW h \in Contents, h = Latest, Kept(w, h)
        PROVE  Kept(w, h)'
    <2>1. CASE h \in notices \cup missed \/ fanouts[h] > 0
        BY <1>1, <2>1 DEF Kept
    <2>2. CASE Carries(w, h)
      <3>1. next.at = "notify" /\ next.hash = h
          BY <1>2, <1>8, <2>2 DEF Carries, Current
      <3> QED
          BY <1>5, <1>7, <3>1 DEF Kept, Carries, Fanning
    <2> QED
        BY <1>8, <2>1, <2>2 DEF Kept
  <1>9. /\ scrapes' \in Nat /\ fanouts' \in [Contents -> Nat]
        /\ faults' \in 0 .. MaxFaults /\ expired \in 0 .. faults'
        /\ notices' \subseteq Contents /\ notices \subseteq notices'
        /\ missed' \subseteq Contents /\ missed \subseteq missed'
      BY <1>1, SameData DEF IInv
  <1> QED
      BY <1>1, <1>2, <1>5, <1>6, <1>8, <1>9, AsidePreserves

(* A fan-out of the latest content sees the change the gate saw.           *)
LEMMA FanoutNotifyPreserves ==
  ASSUME IInv, NEW w \in Workers, FanoutNotify(w) PROVE IInv'
  <1> DEFINE next == [worker[w] EXCEPT !.at = "ack"]
  <1>1. /\ worker[w].at = "notify"
        /\ Goes(w, "ack")
        /\ notices' = IF Reviews(w) THEN notices \cup {worker[w].hash}
                      ELSE notices
        /\ UNCHANGED <<snaps, fresh, claim, scrapes, fanouts, cache, fetched,
                       asked, faults, expired, missed, raced>>
      BY DEF FanoutNotify, tasks, serving, observers
  <1>2. "ack" \in At
      BY DEF At
  <1>3. /\ next \in Job
        /\ Turns(w, next)
        /\ next.at = "ack"
        /\ next.task = worker[w].task
        /\ next.hash = worker[w].hash
      BY <1>1, <1>2, GoesTurns DEF IInv
  <1>4. worker[w] \in Job /\ worker[w] # Idle
      BY <1>1, BusyHasJob DEF IInv
  <1>5. Shaped(worker[w])
      BY <1>4 DEF IInv, Shape
  <1>6. worker[w].hash \in Contents
      BY <1>1, <1>4, <1>5, JobIsBusy DEF Shaped
  <1> HIDE DEF next
  <1>7. next \in Job \cup {Idle} /\ next # Idle /\ Shaped(next)
      BY <1>3, <1>5, IdleIsIdle DEF Shaped
  <1>8. worker[w].at \notin Held /\ next.at \notin Held
      BY <1>1, <1>3 DEF Held
  <1>9. ASSUME NEW h \in Contents, h = Latest, Due, Kept(w, h)
        PROVE  Kept(w, h)'
    <2>1. CASE h \in notices \cup missed \/ fanouts[h] > 0
        BY <1>1, <2>1 DEF Kept
    <2>2. CASE Carries(w, h)
      <3>1. worker[w].hash = h
          BY <2>2 DEF Carries
      <3>2. Reviews(w)
          BY <1>9, <3>1 DEF Due, Reviews
      <3> QED
          BY <1>1, <3>1, <3>2 DEF Kept
    <2> QED
        BY <1>9, <2>1, <2>2 DEF Kept
  <1>10. /\ scrapes' \in Nat /\ fanouts' \in [Contents -> Nat]
         /\ faults' \in 0 .. MaxFaults /\ expired \in 0 .. faults'
         /\ notices' \subseteq Contents /\ notices \subseteq notices'
         /\ missed' \subseteq Contents /\ missed \subseteq missed'
      BY <1>1, <1>6 DEF IInv, TypeOK
  <1> QED
      BY <1>1, <1>3, <1>7, <1>8, <1>9, <1>10, AsidePreserves

LEMMA AcknowledgePreserves ==
  ASSUME IInv, NEW w \in Workers, Acknowledge(w) PROVE IInv'
  <1>1. /\ worker[w].at = "ack"
        /\ Turns(w, Idle)
        /\ UNCHANGED <<snaps, fresh, claim, scrapes, fanouts, notices, cache,
                       fetched, asked, faults, expired, missed, raced>>
      BY DEF Acknowledge, Turns, tasks, serving, observers
  <1>2. Idle \in Job \cup {Idle} /\ (Idle # Idle => Shaped(Idle))
      OBVIOUS
  <1>3. worker[w].at \notin Held /\ Idle.at \notin Held
      BY <1>1, IdleIsIdle DEF Held
  <1>4. \A h \in Contents : Kept(w, h) => Kept(w, h)'
      BY <1>1 DEF Kept, Carries, Fanning
  <1>5. /\ scrapes' \in Nat /\ fanouts' \in [Contents -> Nat]
        /\ faults' \in 0 .. MaxFaults /\ expired \in 0 .. faults'
        /\ notices' \subseteq Contents /\ notices \subseteq notices'
        /\ missed' \subseteq Contents /\ missed \subseteq missed'
      BY <1>1, SameData DEF IInv
  <1> QED
      BY <1>1, <1>2, <1>3, <1>4, <1>5, AsidePreserves

-----------------------------------------------------------------------------
(* What goes wrong with either task.                                       *)

(* What is cut off goes on record.                                         *)
LEMMA RaisesPreserves ==
  ASSUME IInv, NEW w \in Workers, Raises(w) PROVE IInv'
  <1> DEFINE to == OnException(w)
             next == [worker[w] EXCEPT !.at = to]
             cut == CutsAnnouncement(w) \/ Fanning(w)
  <1>1. /\ worker[w] # Idle
        /\ worker[w].at \notin {"release", "ack"}
        /\ Fault
        /\ Goes(w, to)
        /\ missed' = IF cut THEN missed \cup {worker[w].hash} ELSE missed
        /\ raced' = (raced \/ CutsEvict(w))
        /\ UNCHANGED <<snaps, fresh, claim, scrapes, fanouts, notices, cache,
                       fetched, asked, expired>>
      BY DEF Raises, tasks, serving
  <1>2. to \in At /\ (to \in Held <=> worker[w].at \in Held)
      BY DEF OnException, At, Held
  <1>3. worker[w] \in Job /\ worker[w].at # "idle"
      BY <1>1, JobIsBusy DEF IInv, TypeOK
  <1>4. /\ next \in Job
        /\ Turns(w, next)
        /\ next.at = to
        /\ next.task = worker[w].task
        /\ next.hash = worker[w].hash
      BY <1>1, <1>2, <1>3, GoesTurns DEF IInv
  <1>5. Shaped(worker[w])
      BY <1>1 DEF IInv, Shape
  <1>6. cut => worker[w].hash \in Contents
      BY <1>3, <1>5, JobIsBusy DEF Shaped, CutsAnnouncement, Fanning
  <1>7. to \in {"release", "ack"}
      BY DEF OnException
  <1> HIDE DEF next
  <1>8. next \in Job \cup {Idle} /\ next # Idle /\ Shaped(next)
      BY <1>4, <1>5, <1>7, IdleIsIdle DEF Shaped
  <1>9. faults' \in 0 .. MaxFaults /\ expired \in 0 .. faults'
      BY <1>1, FaultCounts DEF IInv
  <1>10. missed' \subseteq Contents /\ missed \subseteq missed'
      BY <1>1, <1>6 DEF IInv, TypeOK
  <1>11. worker' \in [Workers -> Job \cup {Idle}]
      BY <1>4, <1>8, WorkerTurns DEF IInv
  <1>12. raced' \in BOOLEAN
      BY <1>1
  <1>13. TypeOK'
      BY <1>1, <1>9, <1>10, <1>11, <1>12 DEF IInv, TypeOK
  <1>14. worker[w].at \in Held <=> w \in Holders
      BY <1>1 DEF Holders
  <1>15. claim = w => w \in Holders
      BY DEF IInv, ClaimNamesHolder
  <1>16. ClaimInv'
      BY <1>1, <1>2, <1>4, <1>8, <1>14, <1>15, ClaimTurns DEF IInv, ClaimInv
  <1>17. \A h \in Contents : Kept(w, h) => Kept(w, h)'
    <2> SUFFICES ASSUME NEW h \in Contents, Kept(w, h) PROVE Kept(w, h)'
        OBVIOUS
    <2>1. CASE h \in notices \cup missed \/ fanouts[h] > 0
        BY <1>1, <1>10, <2>1 DEF Kept
    <2>2. CASE Carries(w, h)
        BY <1>1, <2>2 DEF Kept, Carries, CutsAnnouncement
    <2> QED
        BY <2>1, <2>2 DEF Kept
  <1>18. raced => raced'
      BY <1>1
  <1>19. Evicting(w) => raced'
      BY <1>1 DEF Evicting
  <1> QED
      BY <1>1, <1>4, <1>8, <1>10, <1>13, <1>16, <1>17, <1>18, <1>19,
         TurnPreserves

(* A delivery that comes back takes an announcement to be made with it.    *)
LEMMA RestoredGrows ==
  ASSUME TypeOK, NEW w \in Workers, worker[w] \in Job, Shaped(worker[w]),
         Restored(w)
  PROVE  /\ scrapes' \in Nat
         /\ fanouts' \in [Contents -> Nat]
         /\ \A h \in Contents : fanouts[h] > 0 => fanouts'[h] > 0
         /\ worker[w].task = "fanout" => fanouts'[worker[w].hash] > 0
  <1> DEFINE c == worker[w].hash
  <1>1. fanouts \in [Contents -> Nat] /\ scrapes \in Nat
      BY DEF TypeOK
  <1>2. CASE worker[w].task = "scrape"
    <2>1. scrapes' = scrapes + 1 /\ UNCHANGED fanouts
        BY <1>2 DEF Restored
    <2> QED
        BY <1>1, <1>2, <2>1
  <1>3. CASE worker[w].task # "scrape"
    <2>1. fanouts' = [fanouts EXCEPT ![c] = fanouts[c] + 1] /\ UNCHANGED scrapes
        BY <1>3 DEF Restored
    <2>2. c \in Contents
        BY <1>3, JobIsBusy DEF Shaped
    <2> HIDE DEF c
    <2>3. fanouts[c] + 1 \in Nat /\ fanouts[c] + 1 > 0
        BY <1>1, <2>2
    <2>4. /\ fanouts' \in [Contents -> Nat]
          /\ fanouts'[c] > 0
          /\ \A h \in Contents : h # c => fanouts'[h] = fanouts[h]
        BY <1>1, <2>1, <2>2, <2>3
    <2> QED
        BY <1>1, <2>1, <2>4 DEF c
  <1> QED
      BY <1>2, <1>3

LEMMA WorkerLostPreserves ==
  ASSUME IInv, NEW w \in Workers, WorkerLost(w) PROVE IInv'
  <1>1. /\ worker[w] # Idle
        /\ Fault
        /\ Restored(w)
        /\ claim' = Abandoned(w)
        /\ Turns(w, Idle)
        /\ missed' = IF CutsAnnouncement(w) THEN missed \cup {worker[w].hash}
                     ELSE missed
        /\ raced' = (raced \/ CutsEvict(w))
        /\ UNCHANGED <<snaps, fresh, notices, cache, fetched, asked, expired>>
      BY DEF WorkerLost, Turns, serving
  <1>2. worker[w] \in Job
      BY <1>1 DEF IInv, TypeOK
  <1>3. Shaped(worker[w])
      BY <1>1 DEF IInv, Shape
  <1>4. /\ scrapes' \in Nat
        /\ fanouts' \in [Contents -> Nat]
        /\ \A h \in Contents : fanouts[h] > 0 => fanouts'[h] > 0
        /\ worker[w].task = "fanout" => fanouts'[worker[w].hash] > 0
      BY <1>1, <1>2, <1>3, RestoredGrows DEF IInv
  <1>5. CutsAnnouncement(w) => worker[w].hash \in Contents
      BY <1>2, <1>3, JobIsBusy DEF Shaped, CutsAnnouncement
  <1>6. missed' \subseteq Contents /\ missed \subseteq missed'
      BY <1>1, <1>5 DEF IInv, TypeOK
  <1>7. faults' \in 0 .. MaxFaults /\ expired \in 0 .. faults'
      BY <1>1, FaultCounts DEF IInv
  <1>8. Idle \in Job \cup {Idle}
      OBVIOUS
  <1>9. worker' \in [Workers -> Job \cup {Idle}]
      BY <1>1, <1>8, WorkerTurns DEF IInv
  <1>10. claim' \in Workers \cup {None, Orphan} /\ raced' \in BOOLEAN
      BY <1>1 DEF IInv, TypeOK, Abandoned
  <1>11. TypeOK'
      BY <1>1, <1>4, <1>6, <1>7, <1>9, <1>10 DEF IInv, TypeOK
  <1>12. Holders' = Holders \ {w}
      BY <1>1, <1>8, HoldersTurn DEF IInv
  <1>13. ClaimInv'
    <2>1. CASE claim = w
      <3>1. w \in Holders
          BY <2>1 DEF IInv, ClaimNamesHolder
      <3>2. claim' \notin Workers
          BY <1>1, <2>1, NobodyNamed DEF Abandoned
      <3> QED
          BY <1>1, <1>12, <3>1, <3>2, ClaimGoes DEF IInv, ClaimInv
    <2>2. CASE claim # w
      <3>1. UNCHANGED claim
          BY <1>1, <2>2 DEF Abandoned
      <3>2. Holders' \subseteq Holders
          BY <1>12
      <3>3. claim \in Workers => claim \in Holders'
          BY <1>12, <2>2 DEF IInv, ClaimNamesHolder
      <3> QED
          BY <1>1, <3>1, <3>2, <3>3, ClaimStays DEF IInv, ClaimInv
    <2> QED
        BY <2>1, <2>2
  <1>14. \A h \in Contents : Kept(w, h) => Kept(w, h)'
    <2> SUFFICES ASSUME NEW h \in Contents, Kept(w, h) PROVE Kept(w, h)'
        OBVIOUS
    <2>1. CASE h \in notices \cup missed \/ fanouts[h] > 0
        BY <1>1, <1>4, <1>6, <2>1 DEF Kept
    <2>2. CASE Carries(w, h)
      <3>1. worker[w].hash = h
          BY <2>2 DEF Carries
      <3>2. CASE CutsAnnouncement(w)
          BY <1>1, <3>1, <3>2 DEF Kept
      <3>3. CASE Fanning(w)
        <4>1. worker[w].task = "fanout"
            BY <1>3, <3>3 DEF Shaped, Fanning
        <4> QED
            BY <1>4, <3>1, <4>1 DEF Kept
      <3> QED
          BY <2>2, <3>2, <3>3 DEF Carries, CutsAnnouncement
    <2> QED
        BY <2>1, <2>2 DEF Kept
  <1>15. raced => raced'
      BY <1>1
  <1>16. Evicting(w) => raced'
      BY <1>1 DEF Evicting
  <1> QED
      BY <1>1, <1>6, <1>8, <1>11, <1>13, <1>14, <1>15, <1>16, TurnPreserves

LEMMA DeliveredAgainPreserves ==
  ASSUME IInv, NEW w \in Workers, DeliveredAgain(w) PROVE IInv'
  <1>1. /\ worker[w] # Idle
        /\ Fault
        /\ Restored(w)
        /\ UNCHANGED <<snaps, fresh, claim, worker, notices, cache, fetched,
                       asked, expired, missed, raced>>
      BY DEF DeliveredAgain, serving, observers
  <1>2. worker[w] \in Job /\ Shaped(worker[w])
      BY <1>1 DEF IInv, TypeOK, Shape
  <1>3. /\ scrapes' \in Nat
        /\ fanouts' \in [Contents -> Nat]
        /\ \A h \in Contents : fanouts[h] > 0 => fanouts'[h] > 0
      BY <1>1, <1>2, RestoredGrows DEF IInv
  <1>4. faults' \in 0 .. MaxFaults /\ expired \in 0 .. faults'
      BY <1>1, FaultCounts DEF IInv
  <1>5. TypeOK'
      BY <1>1, <1>3, <1>4 DEF IInv, TypeOK
  <1>6. ClaimInv'
      BY <1>1, ClaimUntouched DEF IInv, ClaimInv
  <1>7. StaleIsExplained'
      BY <1>1, ServesAsBefore DEF IInv
  <1> QED
      BY <1>1, <1>3, <1>5, <1>6, <1>7, WorldPreserves

-----------------------------------------------------------------------------
LEMMA StutterPreserves == ASSUME IInv, UNCHANGED vars PROVE IInv'
  <1>1. UNCHANGED <<snaps, fresh, claim, scrapes, fanouts, worker, notices,
                    cache, fetched, asked, faults, expired, missed, raced>>
      BY DEF vars
  <1>2. TypeOK'
      BY <1>1 DEF IInv, TypeOK
  <1>3. ClaimInv'
      BY <1>1, ClaimUntouched DEF IInv, ClaimInv
  <1>4. StaleIsExplained'
      BY <1>1, ServesAsBefore DEF IInv
  <1> QED
      BY <1>1, <1>2, <1>3, <1>4, WorldPreserves

LEMMA StepPreserves == IInv /\ [Next]_vars => IInv'
  <1> SUFFICES ASSUME IInv, [Next]_vars PROVE IInv'
      OBVIOUS
  <1>1. ASSUME \/ GrowOld \/ Trigger \/ OrphanExpires \/ HeldClaimExpires
               \/ ReadFetch \/ (\E n \in fetched : ReadStore(n))
               \/ CacheExpires
        PROVE  IInv'
      BY <1>1, CalmPreserves, OrphanExpiresPreserves,
         HeldClaimExpiresPreserves, ReadingPreserves
  <1>2. ASSUME NEW w \in Workers,
               \/ TakeScrape(w) \/ Claim(w)
               \/ (\E found \in Contents : Scrape(w, found))
               \/ Insert(w)
        PROVE  IInv'
      BY <1>2, TakeScrapePreserves, ClaimPreserves, ScrapePreserves,
         InsertPreserves
  <1>3. ASSUME NEW w \in Workers,
               Diff(w) \/ Evict(w) \/ Announce(w) \/ Release(w)
        PROVE  IInv'
      BY <1>3, DiffPreserves, EvictPreserves, AnnouncePreserves,
         ReleasingPreserves
  <1>4. ASSUME NEW w \in Workers,
               \/ (\E h \in Contents : TakeFanout(w, h))
               \/ FanoutLatest(w) \/ FanoutNotify(w) \/ Acknowledge(w)
        PROVE  IInv'
      BY <1>4, TakeFanoutPreserves, FanoutLatestPreserves,
         FanoutNotifyPreserves, AcknowledgePreserves
  <1>5. ASSUME NEW w \in Workers,
               \/ ReleaseLost(w) \/ Raises(w)
               \/ WorkerLost(w) \/ DeliveredAgain(w)
        PROVE  IInv'
      BY <1>5, ReleasingPreserves, RaisesPreserves, WorkerLostPreserves,
         DeliveredAgainPreserves
  <1>6. ASSUME UNCHANGED vars PROVE IInv'
      BY <1>6, StutterPreserves
  <1> QED
      BY <1>1, <1>2, <1>3, <1>4, <1>5, <1>6 DEF Next, WorkerStep

LEMMA Inductive == Spec => []IInv
  BY InitEstablishes, StepPreserves, PTL DEF Spec

-----------------------------------------------------------------------------
(* What a notice rests on: the rows the gate and the fan-out have seen are *)
(* there for good, because the table of snapshots only grows.              *)

Differs(h) == \E k \in 1 .. Len(snaps) : snaps[k] # h
Changed(h) == \E i \in 2 .. Len(snaps) : snaps[i] = h /\ snaps[i - 1] # h

(* What a task knows of the table by the step it stands at.                *)
Aside == {"latest", "notify", "ack"}

Evidence(j) ==
    /\ j.task = "fanout" => j.at \in Aside /\ Differs(j.hash)
    /\ j.at = "evict" /\ j.review => Differs(j.hash)
    /\ j.at = "announce" => Differs(j.hash)
    /\ j.at = "notify" => Changed(j.hash)

Noticed ==
    /\ \A h \in Contents : fanouts[h] > 0 => Differs(h)
    /\ \A w \in Workers : worker[w] # Idle => Evidence(worker[w])
    /\ \A h \in notices : Changed(h)

(* A set of finite sets that is not empty has a least member.              *)
LEMMA LeastSet ==
  ASSUME NEW T, T # {}, \A X \in T : IsFiniteSet(X)
  PROVE  \E X \in T : \A Y \in T : Y \subseteq X => Y = X
  <1>1. T \subseteq FiniteSubsetsOf(UNION T)
      BY DEF FiniteSubsetsOf
  <1>2. \E X \in T : \A Y \in T :
            ~ (<<Y, X>> \in StrictSubsetOrdering(UNION T))
      BY <1>1, FS_StrictSubsetOrderingWellFounded, WFMin
  <1> QED
      BY <1>1, <1>2 DEF StrictSubsetOrdering, FiniteSubsetsOf

(* Between a row and a later one that differs from it, the content of the  *)
(* later one comes up: the shortest stretch of rows from the former to one *)
(* with that content ends where it does.                                   *)
LEMMA FirstChange ==
  ASSUME TypeOK, NEW m \in 1 .. Len(snaps), NEW k \in 1 .. m,
         snaps[k] # snaps[m]
  PROVE  Changed(snaps[m])
  <1> DEFINE Same == {j \in k .. m : snaps[j] = snaps[m]}
             T == {k .. j : j \in Same}
  <1>1. Len(snaps) \in Nat /\ k \in Nat /\ m \in Nat /\ m \in Same
      BY DEF TypeOK
  <1>2. PICK i \in Same : \A j \in Same : k .. j \subseteq k .. i => k .. j = k .. i
    <2>1. k .. m \in T
        BY <1>1
    <2>2. ASSUME NEW X \in T PROVE IsFiniteSet(X)
      <3>1. PICK j \in Same : X = k .. j
          OBVIOUS
      <3> QED
          BY <1>1, <3>1, FS_Interval
    <2>3. \E X \in T : \A Y \in T : Y \subseteq X => Y = X
      <3> HIDE DEF T
      <3> QED
          BY <2>1, <2>2, LeastSet
    <2>4. PICK X \in T : \A Y \in T : Y \subseteq X => Y = X
        BY <2>3
    <2>5. PICK i \in Same : X = k .. i
        OBVIOUS
    <2>6. \A j \in Same : k .. j \in T
        OBVIOUS
    <2> HIDE DEF T, Same
    <2> QED
        BY <2>4, <2>5, <2>6
  <1>3. \A j \in Same : ~(j < i)
    <2> SUFFICES ASSUME NEW j \in Same, j < i PROVE FALSE
        OBVIOUS
    <2>1. k .. j \subseteq k .. i /\ i \in k .. i /\ i \notin k .. j
        BY <1>1
    <2> QED
        BY <1>2, <2>1
  <1>4. i # k /\ i \in 2 .. Len(snaps) /\ snaps[i] = snaps[m]
      BY <1>1
  <1>5. i - 1 \in k .. m /\ i - 1 < i
      BY <1>1, <1>4
  <1>6. snaps[i - 1] # snaps[m]
      BY <1>3, <1>5
  <1> QED
      BY <1>4, <1>6 DEF Changed

TableGrows ==
    \/ snaps' = snaps
    \/ \E h \in Contents : snaps' = Append(snaps, h)

LEMMA EvidenceStays ==
  ASSUME TypeOK, TableGrows
  PROVE  /\ \A h : Differs(h) => Differs(h)'
         /\ \A h : Changed(h) => Changed(h)'
         /\ \A j : Evidence(j) => Evidence(j)'
  <1>1. /\ Len(snaps) \in Nat /\ Len(snaps') \in Nat
        /\ Len(snaps) <= Len(snaps')
        /\ \A i \in 1 .. Len(snaps) : snaps'[i] = snaps[i]
      BY DEF TypeOK, TableGrows
  <1>2. ASSUME NEW h, Differs(h) PROVE Differs(h)'
    <2>1. PICK k \in 1 .. Len(snaps) : snaps[k] # h
        BY <1>2 DEF Differs
    <2>2. k \in 1 .. Len(snaps') /\ snaps'[k] # h
        BY <1>1, <2>1
    <2> QED
        BY <2>2 DEF Differs
  <1>3. ASSUME NEW h, Changed(h) PROVE Changed(h)'
    <2>1. PICK i \in 2 .. Len(snaps) : snaps[i] = h /\ snaps[i - 1] # h
        BY <1>3 DEF Changed
    <2>2. i \in 1 .. Len(snaps) /\ i - 1 \in 1 .. Len(snaps)
        BY <1>1
    <2>3. i \in 2 .. Len(snaps') /\ snaps'[i] = h /\ snaps'[i - 1] # h
        BY <1>1, <2>1, <2>2
    <2> QED
        BY <2>3 DEF Changed
  <1> QED
      BY <1>2, <1>3 DEF Evidence

(* A worker's step keeps the evidence if its next state has it, and if it  *)
(* queues and announces only what it has evidence of.                      *)
LEMMA NoticedTurns ==
  ASSUME TypeOK, Noticed, TableGrows,
         NEW w \in Workers, NEW next \in Job \cup {Idle}, Turns(w, next),
         next # Idle => Evidence(next)',
         \A h \in Contents : fanouts'[h] > 0 => fanouts[h] > 0 \/ Differs(h)',
         \A h \in notices' : h \in notices \/ Changed(h)'
  PROVE  Noticed'
  <1>1. /\ worker'[w] = next
        /\ \A v \in Workers \ {w} : worker'[v] = worker[v]
      BY WorkerTurns
  <1>2. ASSUME NEW v \in Workers, NEW j, j = worker'[v], j # Idle
        PROVE  Evidence(j)'
    <2>1. CASE v = w
        BY <1>1, <1>2, <2>1
    <2>2. CASE v # w
      <3>1. j = worker[v] /\ Evidence(j)
          BY <1>1, <1>2, <2>2 DEF Noticed
      <3> QED
          BY <3>1, EvidenceStays
    <2> QED
        BY <2>1, <2>2
  <1>3. \A v \in Workers : (worker[v] # Idle => Evidence(worker[v]))'
      BY <1>2 DEF Evidence, Differs, Changed, Idle
  <1>4. \A h \in Contents : (fanouts[h] > 0 => Differs(h))'
      BY EvidenceStays DEF Noticed
  <1>5. \A h \in notices' : Changed(h)'
      BY EvidenceStays DEF Noticed
  <1> QED
      BY <1>3, <1>4, <1>5 DEF Noticed

LEMMA NoticedRests ==
  ASSUME Noticed, UNCHANGED <<snaps, fanouts, worker, notices>>
  PROVE  Noticed'
  BY DEF Noticed, Evidence, Differs, Changed, Idle

(* A task that goes on, and whose next step needs no more evidence.        *)
LEMMA NoticedGoes ==
  ASSUME IInv, Noticed, NEW w \in Workers, worker[w].at # "idle",
         NEW to \in At, Goes(w, to),
         TableGrows,
         worker[w].at \in Aside => to \in Aside,
         to # "evict",
         to = "announce" => worker[w].at = "evict" /\ worker[w].review,
         to = "notify" => Changed(worker[w].hash),
         \A h \in Contents : fanouts'[h] > 0 => fanouts[h] > 0 \/ Differs(h)',
         \A h \in notices' : h \in notices \/ Changed(h)'
  PROVE  Noticed'
  <1> DEFINE j == worker[w]
             next == [j EXCEPT !.at = to]
  <1>1. /\ next \in Job /\ Turns(w, next)
        /\ next.at = to /\ next.task = j.task
        /\ next.hash = j.hash /\ next.review = j.review
      BY GoesTurns DEF IInv
  <1>2. Evidence(j) /\ TypeOK
      BY BusyHasJob DEF IInv, Noticed
  <1> HIDE DEF next
  <1>3. Evidence(next)
      BY <1>1, <1>2 DEF Evidence, Aside
  <1>4. ASSUME NEW k, Evidence(k), k = next PROVE Evidence(k)'
      BY <1>2, <1>4, EvidenceStays
  <1>5. ASSUME NEW k \in Job \cup {Idle}, k = next PROVE Noticed'
    <2>1. Turns(w, k) /\ Evidence(k)'
        BY <1>1, <1>3, <1>4, <1>5 DEF Turns
    <2> QED
        BY <1>2, <2>1, NoticedTurns
  <1> QED
      BY <1>1, <1>5

(* A worker that takes a task, finishes one or dies.                       *)
LEMMA NoticedTakes ==
  ASSUME IInv, Noticed, NEW w \in Workers, NEW next \in Job \cup {Idle},
         Turns(w, next), UNCHANGED <<snaps, notices>>,
         next # Idle => Evidence(next),
         \A h \in Contents : fanouts'[h] > 0 => fanouts[h] > 0 \/ Differs(h)
  PROVE  Noticed'
  <1>1. TypeOK /\ TableGrows
      BY DEF IInv, TableGrows
  <1>2. \A h \in Contents : fanouts'[h] > 0 => fanouts[h] > 0 \/ Differs(h)'
      BY <1>1, EvidenceStays
  <1>3. next # Idle => Evidence(next)'
      BY <1>1, EvidenceStays
  <1>4. \A h \in notices' : h \in notices \/ Changed(h)'
      OBVIOUS
  <1> QED
      BY <1>1, <1>2, <1>3, <1>4, NoticedTurns

LEMMA NoticedScrapes ==
  ASSUME IInv, Noticed, NEW w \in Workers,
         TakeScrape(w) \/ Claim(w) \/ (\E found \in Contents : Scrape(w, found))
  PROVE  Noticed'
  <1>1. CASE TakeScrape(w)
    <2> DEFINE next == [at |-> IF Reusable THEN "ack" ELSE "claim",
                        task |-> "scrape", hash |-> 0, review |-> FALSE]
    <2>1. next \in Job /\ Evidence(next)
        BY DEF Job, At, Held, Evidence
    <2>2. Turns(w, next) /\ UNCHANGED <<snaps, notices, fanouts>>
        BY <1>1 DEF TakeScrape, Turns
    <2> HIDE DEF next
    <2> QED
        BY <2>1, <2>2, NoticedTakes
  <1>2. CASE Claim(w)
    <2>1. PICK to \in {"scrape", "ack"} : Goes(w, to)
        BY <1>2 DEF Claim
    <2>2. /\ UNCHANGED <<snaps, notices, fanouts>>
          /\ worker[w].at = "claim"
        BY <1>2 DEF Claim, tasks
    <2> QED
        BY <2>1, <2>2, NoticedGoes DEF At, Held, Aside, TableGrows
  <1>3. CASE \E found \in Contents : Scrape(w, found)
    <2>1. PICK found \in Contents : Scrape(w, found)
        BY <1>3
    <2> DEFINE next == [worker[w] EXCEPT !.at = "insert", !.hash = found]
    <2>2. /\ worker[w] \in Job /\ worker[w].at = "scrape"
          /\ UNCHANGED <<snaps, notices, fanouts>>
          /\ worker' = [worker EXCEPT ![w].at = "insert", ![w].hash = found]
        BY <2>1, BusyHasJob DEF Scrape, IInv, tasks
    <2>3. /\ next \in Job /\ next.at = "insert" /\ next.task = worker[w].task
        BY <2>2 DEF Job, At, Held
    <2>4. Turns(w, next)
        BY <2>2 DEF Turns
    <2>5. worker[w].task # "fanout"
        BY <2>2, JobIsBusy DEF Noticed, Evidence, Aside
    <2>6. Evidence(next)
        BY <2>3, <2>5 DEF Evidence
    <2> HIDE DEF next
    <2> QED
        BY <2>2, <2>3, <2>4, <2>6, NoticedTakes
  <1> QED
      BY <1>1, <1>2, <1>3

LEMMA NoticedInserts ==
  ASSUME IInv, Noticed, NEW w \in Workers, Insert(w) \/ Diff(w) \/ Evict(w)
  PROVE  Noticed'
  <1>1. /\ worker[w] \in Job /\ worker[w].at \in {"insert", "diff", "evict"}
        /\ worker[w].hash \in Contents
    <2>1. worker[w] \in Job /\ worker[w].at \in {"insert", "diff", "evict"}
        BY BusyHasJob DEF IInv, Insert, Diff, Evict
    <2> QED
        BY <2>1, JobIsBusy DEF IInv, Shape, Shaped
  <1>2. UNCHANGED <<notices, fanouts>>
      BY DEF Insert, Diff, Evict, tasks
  <1>3. CASE Insert(w)
    <2>1. TableGrows
        BY <1>1, <1>3 DEF Insert, TableGrows
    <2> QED
        BY <1>1, <1>2, <1>3, <2>1, NoticedGoes DEF At, Held, Aside, Insert
  <1>4. CASE Evict(w)
    <2>1. PICK to \in {"announce", "release"} :
              Goes(w, to) /\ (to = "announce" => worker[w].review)
        BY <1>4 DEF Evict
    <2>2. TableGrows /\ worker[w].at = "evict"
        BY <1>4 DEF Evict, TableGrows
    <2> QED
        BY <1>1, <1>2, <2>1, <2>2, NoticedGoes DEF At, Held, Aside
  <1>5. CASE Diff(w)
    <2> DEFINE next == [worker[w] EXCEPT !.at = "evict", !.review = Reviews(w)]
    <2>1. Reviews(w) \in BOOLEAN
        BY DEF Reviews
    <2>2. /\ worker' = [worker EXCEPT ![w].at = "evict", ![w].review = Reviews(w)]
          /\ snaps' = snaps /\ worker[w].at = "diff"
        BY <1>5 DEF Diff
    <2>3. /\ next \in Job /\ next.at = "evict" /\ next.task = worker[w].task
          /\ next.hash = worker[w].hash /\ next.review = Reviews(w)
        BY <1>1, <2>1 DEF Job, At, Held
    <2>4. Turns(w, next)
        BY <2>2 DEF Turns
    <2>5. ASSUME Reviews(w) PROVE Differs(worker[w].hash)
      <3>1. worker[w].hash # Prior /\ Prior # 0
        <4>1. Prior # worker[w].hash
            BY <2>5 DEF Reviews, Verdict
        <4>2. ~(Prior # worker[w].hash /\ Prior = 0)
            BY <2>5 DEF Reviews, Verdict
        <4> QED
            BY <4>1, <4>2
      <3>2. Len(snaps) \in Nat /\ ~(Len(snaps) < 2)
        <4>1. Len(snaps) \in Nat
            BY DEF IInv, TypeOK
        <4>2. ~(Len(snaps) < 2)
            BY <3>1 DEF Prior
        <4> QED
            BY <4>1, <4>2
      <3>3. Prior = snaps[Len(snaps) - 1] /\ Len(snaps) - 1 \in 1 .. Len(snaps)
          BY <3>2 DEF Prior
      <3> QED
          BY <3>1, <3>3 DEF Differs
    <2>6. worker[w].task # "fanout"
        BY <1>1, <2>2, JobIsBusy DEF Noticed, Evidence, Aside
    <2>7. Evidence(next)
        BY <2>3, <2>5, <2>6 DEF Evidence
    <2> HIDE DEF next
    <2> QED
        BY <1>2, <2>2, <2>3, <2>4, <2>7, NoticedTakes
  <1> QED
      BY <1>3, <1>4, <1>5

LEMMA NoticedAnnounces ==
  ASSUME IInv, Noticed, NEW w \in Workers,
         Announce(w) \/ Release(w) \/ ReleaseLost(w)
  PROVE  Noticed'
  <1>1. /\ worker[w].at \in {"announce", "release"} /\ snaps' = snaps
        /\ notices' = notices
      BY DEF Announce, Release, ReleaseLost
  <1>2. TableGrows /\ TypeOK /\ worker[w] \in Job /\ worker[w] # Idle
      BY <1>1, BusyHasJob DEF TableGrows, IInv
  <1>3. CASE Announce(w)
    <2>1. /\ Goes(w, "release") /\ worker[w].at = "announce"
          /\ fanouts' = [fanouts EXCEPT ![worker[w].hash] = @ + 1]
        BY <1>3 DEF Announce
    <2>2. ASSUME NEW h \in Contents, h = worker[w].hash PROVE Differs(h)
      <3>1. Evidence(worker[w])
          BY <1>2 DEF Noticed
      <3> QED
          BY <2>1, <2>2, <3>1 DEF Evidence
    <2>3. \A h \in Contents : fanouts'[h] > 0 => fanouts[h] > 0 \/ Differs(h)'
        BY <1>2, <2>1, <2>2, EvidenceStays DEF TypeOK
    <2> QED
        BY <1>1, <1>2, <2>1, <2>3, NoticedGoes DEF At, Held, Aside
  <1>4. CASE Release(w) \/ ReleaseLost(w)
    <2>1. Goes(w, "ack") /\ fanouts' = fanouts
        BY <1>4 DEF Release, ReleaseLost, tasks
    <2> QED
        BY <1>1, <1>2, <2>1, NoticedGoes DEF At, Held, Aside
  <1> QED
      BY <1>3, <1>4

LEMMA NoticedFans ==
  ASSUME IInv, Noticed, NEW w \in Workers,
         \/ (\E h \in Contents : TakeFanout(w, h))
         \/ FanoutLatest(w) \/ FanoutNotify(w) \/ Acknowledge(w)
  PROVE  Noticed'
  <1>1. snaps' = snaps /\ TableGrows /\ TypeOK
      BY DEF TakeFanout, FanoutLatest, FanoutNotify, Acknowledge, TableGrows, IInv
  <1>2. ASSUME NEW h \in Contents, TakeFanout(w, h) PROVE Noticed'
    <2> DEFINE next == [at |-> "latest", task |-> "fanout", hash |-> h,
                        review |-> FALSE]
    <2>1. /\ Turns(w, next) /\ fanouts[h] > 0 /\ notices' = notices
          /\ fanouts' = [fanouts EXCEPT ![h] = @ - 1]
        BY <1>2 DEF TakeFanout, Turns
    <2>2. next \in Job
        BY DEF Job, At, Held
    <2>3. Evidence(next)
        BY <2>1 DEF Evidence, Noticed, Aside
    <2>4. \A g \in Contents : fanouts'[g] > 0 => fanouts[g] > 0 \/ Differs(g)
        BY <1>1, <2>1 DEF TypeOK
    <2> HIDE DEF next
    <2> QED
        BY <1>1, <2>1, <2>2, <2>3, <2>4, NoticedTakes
  <1>3. CASE FanoutLatest(w)
    <2>1. PICK to \in {"notify", "ack"} :
              Goes(w, to) /\ (to = "notify" => Latest = worker[w].hash)
        BY <1>3 DEF FanoutLatest, Current
    <2>2. /\ worker[w].at = "latest" /\ UNCHANGED <<notices, fanouts>>
          /\ worker[w] # Idle /\ worker[w] \in Job
        BY <1>1, <1>3, BusyHasJob DEF FanoutLatest, tasks
    <2>3. ASSUME to = "notify" PROVE Changed(worker[w].hash)
      <3>1. worker[w].task = "fanout" /\ worker[w].hash # 0
          BY <2>2 DEF IInv, Shape, Shaped
      <3>2. PICK k \in 1 .. Len(snaps) : snaps[k] # worker[w].hash
          BY <2>2, <3>1 DEF Noticed, Evidence, Differs
      <3>3. Len(snaps) \in Nat /\ snaps[Len(snaps)] = worker[w].hash
          BY <1>1, <2>1, <2>3, <3>1 DEF Latest, TypeOK
      <3>4. Len(snaps) \in 1 .. Len(snaps) /\ k \in 1 .. Len(snaps)
          BY <3>2, <3>3
      <3> QED
          BY <1>1, <3>2, <3>3, <3>4, FirstChange
    <2> QED
        BY <1>1, <2>1, <2>2, <2>3, NoticedGoes DEF At, Held, Aside
  <1>4. CASE FanoutNotify(w)
    <2>1. /\ Goes(w, "ack") /\ worker[w].at = "notify" /\ fanouts' = fanouts
          /\ notices' \subseteq notices \cup {worker[w].hash}
        BY <1>4 DEF FanoutNotify, tasks
    <2>2. worker[w] # Idle
        BY <1>1, <2>1, BusyHasJob
    <2>3. ASSUME NEW h, h = worker[w].hash PROVE Changed(h)
        BY <2>1, <2>2, <2>3 DEF Noticed, Evidence
    <2>4. \A h \in notices' : h \in notices \/ Changed(h)'
        BY <1>1, <2>1, <2>3, EvidenceStays
    <2> QED
        BY <1>1, <2>1, <2>4, NoticedGoes DEF At, Held, Aside
  <1>5. CASE Acknowledge(w)
    <2>1. Turns(w, Idle) /\ UNCHANGED <<fanouts, notices>>
        BY <1>5 DEF Acknowledge, Turns, tasks
    <2> QED
        BY <1>1, <2>1, NoticedTakes
  <1> QED
      BY <1>2, <1>3, <1>4, <1>5

(* A delivery that comes back is one that there was evidence for.          *)
LEMMA NoticedRestored ==
  ASSUME IInv, Noticed, NEW w \in Workers, worker[w] # Idle, Restored(w)
  PROVE  \A h \in Contents : fanouts'[h] > 0 => fanouts[h] > 0 \/ Differs(h)
  <1>1. CASE worker[w].task = "scrape"
      BY <1>1 DEF Restored
  <1>2. CASE worker[w].task # "scrape"
    <2>1. worker[w] \in Job
        BY DEF IInv, TypeOK
    <2>2. worker[w].task = "fanout"
        BY <1>2, <2>1, JobIsBusy
    <2>3. ASSUME NEW h \in Contents, h = worker[w].hash PROVE Differs(h)
        BY <2>2, <2>3 DEF Noticed, Evidence
    <2>4. fanouts' = [fanouts EXCEPT ![worker[w].hash] = @ + 1]
        BY <1>2 DEF Restored
    <2> QED
        BY <2>3, <2>4 DEF IInv, TypeOK
  <1> QED
      BY <1>1, <1>2

LEMMA NoticedFails ==
  ASSUME IInv, Noticed, NEW w \in Workers,
         Raises(w) \/ WorkerLost(w) \/ DeliveredAgain(w)
  PROVE  Noticed'
  <1>1. /\ UNCHANGED <<snaps, notices>> /\ worker[w] # Idle
        /\ TableGrows /\ TypeOK /\ worker[w] \in Job
      BY DEF Raises, WorkerLost, DeliveredAgain, TableGrows, IInv, TypeOK
  <1>2. CASE Raises(w)
    <2>1. PICK to \in {"release", "ack"} :
              Goes(w, to) /\ (to = "release" => worker[w].at \in Held)
        BY <1>2 DEF Raises, OnException
    <2>2. fanouts' = fanouts /\ worker[w].at # "idle"
        BY <1>1, <1>2, JobIsBusy DEF Raises, tasks
    <2> QED
        BY <1>1, <2>1, <2>2, NoticedGoes DEF At, Held, Aside
  <1>3. CASE WorkerLost(w)
    <2>1. Turns(w, Idle) /\ Restored(w)
        BY <1>3 DEF WorkerLost, Turns
    <2> QED
        BY <1>1, <2>1, NoticedRestored, NoticedTakes
  <1>4. CASE DeliveredAgain(w)
    <2>1. worker' = worker /\ Restored(w)
        BY <1>4 DEF DeliveredAgain
    <2>2. Turns(w, worker[w]) /\ Evidence(worker[w])
        BY <1>1, <2>1 DEF Turns, TypeOK, Noticed
    <2> QED
        BY <1>1, <2>1, <2>2, NoticedRestored, NoticedTakes
  <1> QED
      BY <1>2, <1>3, <1>4

LEMMA NoticedStep == IInv /\ Noticed /\ [Next]_vars => Noticed'
  <1> SUFFICES ASSUME IInv, Noticed, [Next]_vars PROVE Noticed'
      OBVIOUS
  <1>1. ASSUME \/ GrowOld \/ Trigger \/ OrphanExpires \/ HeldClaimExpires
               \/ ReadFetch \/ (\E n \in fetched : ReadStore(n))
               \/ CacheExpires \/ UNCHANGED vars
        PROVE  Noticed'
    <2>1. UNCHANGED <<snaps, fanouts, worker, notices>>
        BY <1>1 DEF GrowOld, Trigger, OrphanExpires, HeldClaimExpires,
           ReadFetch, ReadStore, CacheExpires, vars, tasks
    <2> QED
        BY <2>1, NoticedRests
  <1>2. ASSUME NEW w \in Workers,
               \/ TakeScrape(w) \/ Claim(w)
               \/ (\E found \in Contents : Scrape(w, found))
               \/ Insert(w) \/ Diff(w) \/ Evict(w)
        PROVE  Noticed'
      BY <1>2, NoticedScrapes, NoticedInserts
  <1>3. ASSUME NEW w \in Workers,
               Announce(w) \/ Release(w) \/ ReleaseLost(w)
        PROVE  Noticed'
      BY <1>3, NoticedAnnounces
  <1>4. ASSUME NEW w \in Workers,
               \/ (\E h \in Contents : TakeFanout(w, h))
               \/ FanoutLatest(w) \/ FanoutNotify(w) \/ Acknowledge(w)
        PROVE  Noticed'
      BY <1>4, NoticedFans
  <1>5. ASSUME NEW w \in Workers,
               Raises(w) \/ WorkerLost(w) \/ DeliveredAgain(w)
        PROVE  Noticed'
      BY <1>5, NoticedFails
  <1> QED
      BY <1>1, <1>2, <1>3, <1>4, <1>5 DEF Next, WorkerStep

LEMMA InitNoticed == Init => Noticed
  BY DEF Init, Noticed

-----------------------------------------------------------------------------
(* What the run checks on a small instance, for every instance.            *)

(* Every reachable state is of its type: the served and the fetched        *)
(* snapshots are rows that exist, and no expiry goes uncounted.            *)
THEOREM TypeCorrect == Spec => []TypeOK
  BY Inductive, PTL DEF IInv

(* The SET NX of run_dedupe_gate with its finally clause that deletes the  *)
(* key, whoever set it: each expiry of a held claim lets in at most one    *)
(* scrape more.                                                            *)
THEOREM ScrapesSerialised == Spec => []ClaimSerialises
  BY Inductive, PTL DEF IInv

(* Gate, broker and fan-out hand the newest change on: it is announced, on *)
(* its way, or cut off by an exception or a death.                         *)
THEOREM ChangeIsCarried == Spec => []LatestChangeIsCarried
  BY Inductive, PTL DEF IInv

(* get_or_set and evict: an older snapshot is served only before an evict  *)
(* to come, or after one cut off or overtaken by a reader.                 *)
THEOREM StaleHasCause == Spec => []StaleIsExplained
  BY Inductive, PTL DEF IInv

(* The two reads of the fan-out and the read of the gate, made at three    *)
(* moments of a table that grows: a hash is announced only if it followed  *)
(* a different one.                                                        *)
THEOREM NoticeIsEarned == Spec => []NoticeHasChange
<1>1. Noticed => NoticeHasChange
  BY DEF Noticed, NoticeHasChange, Changed
<1> QED
  BY <1>1, InitNoticed, NoticedStep, Inductive, PTL DEF Spec
=============================================================================
