-------------------------- MODULE RegistrationProofs --------------------------
(***************************************************************************)
(* Proofs about Registration, for any number of pages, cards, joins,       *)
(* leaves and reads: a reported registration has its access bit, and the   *)
(* catalogue of the current version is never stale.                        *)
(***************************************************************************)
EXTENDS Registration, FiniteSetTheorems, TLAPS

Joins == [step : {"idle", "check", "rehydrate", "insert", "grant", "ok", "already", "error"},
          auto : BOOLEAN]
LeaveSteps == {"idle", "delete", "revoke", "ok", "error"}
Reads == [client : Clients, current : BOOLEAN, step : {"version", "lookup", "database", "store"},
          version : Nat, value : {"none", "yes", "no"}]

Shapes ==
    /\ row \in BOOLEAN /\ bit \in BOOLEAN
    /\ join \in [Clients -> Joins] /\ leave \in [Clients -> LeaveSteps]
    /\ version \in Nat /\ cache \in [Versions -> {"none", "yes", "no"}]
    /\ reads \subseteq Reads
    /\ leaves \in 0..MaxLeaves /\ missed \in BOOLEAN

\* Until somebody unregisters nothing takes the row away, and the bit goes only
\* with the data of Redis.
AccessInv ==
    /\ SuccessHasAccess
    /\ leaves = 0 => \A c \in Clients :
          /\ leave[c] = "idle"
          /\ join[c].step \in {"rehydrate", "grant", "ok"} => row
          /\ join[c].step = "ok" /\ "restart" \notin events => bit

Granting == {c \in Clients : join[c].step = "grant"}
Revoking == {c \in Clients : leave[c] = "revoke"}
Deleting == {c \in Clients : leave[c] = "delete"}

\* Every version stands for one change of the row: the changes alternate, and those
\* that end a registration are at most the leaves sent.  So the versions stay among
\* those the model's cache has keys for.
VersionInv ==
    version + Cardinality(Granting) + Cardinality(Revoking) + 2 * Cardinality(Deleting)
        <= 2 * leaves + (IF row THEN 1 ELSE 0)

Quiet == "restart" \notin events

\* Nothing knows a version before it is current.
FreshInv ==
    /\ CatalogueFresh
    /\ Quiet => /\ \A r \in reads : r.version <= version
                /\ \A v \in Versions : version < v => cache[v] = "none"

RegistrationInv == Shapes /\ AccessInv /\ VersionInv /\ FreshInv

-----------------------------------------------------------------------------
(* Counting requests *)

\* The clients are finitely many, so the requests in any step can be counted.
LEMMA ClientCounts ==
    ASSUME NEW S \in SUBSET Clients
    PROVE  IsFiniteSet(S) /\ Cardinality(S) \in Nat
  <1>1. IsFiniteSet(S)
    BY FS_Subset, RegistrationAssumption
  <1>2. QED
    BY <1>1, FS_CardinalityType

\* One request more.
LEMMA OneMore ==
    ASSUME NEW S \in SUBSET Clients, NEW c \in Clients, c \notin S
    PROVE  Cardinality(S \cup {c}) = Cardinality(S) + 1
  BY ClientCounts, FS_AddElement

\* One request less.
LEMMA OneLess ==
    ASSUME NEW S \in SUBSET Clients, NEW c \in S
    PROVE  Cardinality(S \ {c}) = Cardinality(S) - 1
  BY ClientCounts, FS_RemoveElement

\* The sets of requests under way are sets of clients.
LEMMA Counted ==
    /\ Granting \in SUBSET Clients /\ Revoking \in SUBSET Clients /\ Deleting \in SUBSET Clients
    /\ Cardinality(Granting) \in Nat /\ Cardinality(Revoking) \in Nat /\ Cardinality(Deleting) \in Nat
  <1>1. Granting \in SUBSET Clients /\ Revoking \in SUBSET Clients /\ Deleting \in SUBSET Clients
    BY DEF Granting, Revoking, Deleting
  <1>2. QED
    BY <1>1, ClientCounts

\* auction_catalog_version: a version within the count is one the cache has a key for.
LEMMA VersionInRange ==
    ASSUME NEW v \in Nat, NEW l \in 0..MaxLeaves, NEW o \in 0..1,
           NEW G \in SUBSET Clients, NEW R \in SUBSET Clients, NEW D \in SUBSET Clients,
           v + Cardinality(G) + Cardinality(R) + 2 * Cardinality(D) <= 2 * l + o
    PROVE  v \in Versions
  <1>1. Cardinality(G) \in Nat /\ Cardinality(R) \in Nat /\ Cardinality(D) \in Nat /\ MaxLeaves \in Nat
    BY ClientCounts, RegistrationAssumption
  <1>2. v <= 2 * l + 1
    BY <1>1
  <1>3. QED
    BY <1>1, <1>2 DEF Versions

\* useQuery's refetch adds a read at its first step; the reads nobody waits for go on
\* where they were.
LEMMA RefetchedReads ==
    ASSUME reads \subseteq Reads, NEW c \in Clients
    PROVE  /\ Refetched(c) \subseteq Reads
           /\ \A x \in Refetched(c) :
                 \/ x.step = "version" /\ x.version = 0
                 \/ \E r \in reads : x.step = r.step /\ x.version = r.version /\ x.value = r.value
  <1> DEFINE old(r) == [r EXCEPT !.current = r.current /\ r.client # c]
  <1>1. Read(c) \in Reads /\ Read(c).step = "version" /\ Read(c).version = 0
    BY DEF Read, Reads
  <1>2. ASSUME NEW r \in reads
        PROVE  /\ old(r) \in Reads
               /\ old(r).step = r.step /\ old(r).version = r.version /\ old(r).value = r.value
    <2>1. r \in Reads /\ (r.current /\ r.client # c) \in BOOLEAN
      BY <1>2
    <2>2. QED
      BY <2>1 DEF Reads
  <1>3. \A x \in Refetched(c) : x = Read(c) \/ \E r \in reads : x = old(r)
    BY DEF Refetched
  <1> HIDE DEF old
  <1>4. QED
    BY <1>1, <1>2, <1>3
-----------------------------------------------------------------------------
(* The inductive invariant *)

\* Every tab has loaded the catalogue, no request is under way.
LEMMA RegistrationInit == Init => RegistrationInv
  <1> SUFFICES ASSUME Init PROVE RegistrationInv
    OBVIOUS
  <1> USE RegistrationAssumption DEF Init
  <1>1. Shapes
    <2>1. missed \in BOOLEAN
      OBVIOUS
    <2>2. QED
      BY <2>1 DEF Shapes, Joins, LeaveSteps, IdleJoin
  <1>2. AccessInv
    BY DEF AccessInv, SuccessHasAccess, IdleJoin
  <1>3. VersionInv
    <2>1. Granting = {} /\ Revoking = {} /\ Deleting = {}
      BY DEF Granting, Revoking, Deleting, IdleJoin
    <2>2. version = 0 /\ leaves = 0 /\ (IF row THEN 1 ELSE 0) \in 0..1
      OBVIOUS
    <2>3. QED
      BY <2>1, <2>2, FS_EmptySet DEF VersionInv
  <1>4. FreshInv
    <2>1. version = 0 /\ 0 \in Versions /\ reads = {}
      BY DEF Versions
    <2>2. QED
      BY <2>1 DEF FreshInv, CatalogueFresh, Quiet
  <1>5. QED
    BY <1>1, <1>2, <1>3, <1>4 DEF RegistrationInv

\* What a step of a client does at most to what the invariant is about: a join is
\* sent or forgotten, a leave is forgotten, a read is started.
ClientOnly ==
    /\ UNCHANGED <<row, bit, version, cache, leaves, missed>>
    /\ join' \in [Clients -> Joins] /\ leave' \in [Clients -> LeaveSteps]
    /\ \A b \in Clients :
          /\ join'[b] = join[b] \/ (join'[b].step \in {"idle", "check"} /\ join[b].step # "grant")
          /\ leave'[b] = leave[b] \/ (leave'[b] = "idle" /\ leave[b] \in {"ok", "error"})
    /\ reads' = reads \/ \E c \in Clients : reads' = Refetched(c)
    /\ "restart" \in events' <=> "restart" \in events
    /\ granted' = granted \/ \E c \in Clients : join[c].step = "ok"

\* Such a step keeps the invariant.
LEMMA ClientOnlySteps ==
    ASSUME RegistrationInv, ClientOnly
    PROVE  RegistrationInv'
  <1> USE DEF RegistrationInv, ClientOnly
  <1>1. /\ Granting' = Granting /\ Revoking' = Revoking /\ Deleting' = Deleting
        /\ Invalidating' = Invalidating
    BY DEF Shapes, Granting, Revoking, Deleting, Invalidating
  <1>2. /\ reads' \subseteq Reads
        /\ \A x \in reads' :
              \/ x.step = "version" /\ x.version = 0
              \/ \E r \in reads : x.step = r.step /\ x.version = r.version /\ x.value = r.value
    BY RefetchedReads DEF Shapes
  <1>3. Shapes'
    BY <1>2 DEF Shapes
  <1>4. AccessInv'
    BY DEF AccessInv, SuccessHasAccess, Quiet
  <1>5. VersionInv'
    BY <1>1 DEF VersionInv
  <1>6. FreshInv'
    <2>1. CatalogueFresh'
      BY <1>1, <1>2 DEF FreshInv, CatalogueFresh, Quiet, YesNo
    <2>2. version \in Nat
      BY DEF Shapes
    <2>3. QED
      BY <1>2, <2>1, <2>2 DEF FreshInv, Quiet
  <1>7. QED
    BY <1>3, <1>4, <1>5, <1>6

\* The buttons and modals of the pages and cards, and the clock.
LEMMA ButtonsAreClientOnly ==
    ASSUME Shapes,
           \/ \E c \in Clients, auto \in BOOLEAN : SendJoin(c, auto)
           \/ \E c \in Cards : ActionClick(c) \/ CloseModal(c)
           \/ Tick
    PROVE  ClientOnly
  <1> USE DEF Shapes
  <1>1. CASE \E c \in Clients, auto \in BOOLEAN : SendJoin(c, auto)
    <2>1. PICK c \in Clients, auto \in BOOLEAN : SendJoin(c, auto)
      BY <1>1
    <2>2. [step |-> "check", auto |-> auto] \in Joins
      BY DEF Joins
    <2>3. QED
      BY <2>1, <2>2 DEF SendJoin, serverUnchanged, redisVars, ClientOnly
  <1>2. CASE \E c \in Cards : ActionClick(c) \/ CloseModal(c)
    BY <1>2 DEF ActionClick, CloseModal, serverUnchanged, redisVars, histVars, ClientOnly
  <1>3. CASE Tick
    BY <1>3 DEF Tick, redisVars, clientVars, histVars, ClientOnly
  <1>4. QED
    BY <1>1, <1>2, <1>3

\* onSuccess and onError of the two mutations, and a refetch.
LEMMA AnswersAreClientOnly ==
    ASSUME Shapes, NEW c \in Clients, Refetch(c) \/ ClientStep(c)
    PROVE  ClientOnly
  <1> USE DEF Shapes, serverUnchanged, redisVars
  <1>1. IdleJoin \in Joins /\ IdleJoin.step = "idle"
    BY DEF IdleJoin, Joins
  <1>2. CASE Refetch(c)
    BY <1>2 DEF Refetch, Event, Happen, clientVars, ClientOnly
  <1>3. CASE JoinSuccess(c)
    BY <1>1, <1>3 DEF JoinSuccess, NoEvent, ClientOnly
  <1>4. CASE JoinError(c)
    BY <1>1, <1>4 DEF JoinError, NoEvent, Event, Happen, ClientOnly
  <1>5. CASE LeaveSettled(c)
    BY <1>5 DEF LeaveSettled, NoEvent, Event, Happen, ClientOnly, LeaveSteps
  <1>6. QED
    BY <1>2, <1>3, <1>4, <1>5 DEF ClientStep

\* The user unregisters: from here on the access may go.
LEMMA SendLeaveStep ==
    ASSUME RegistrationInv, NEW c \in Clients, SendLeave(c)
    PROVE  RegistrationInv'
  <1> USE DEF RegistrationInv
  <1>1. /\ UNCHANGED <<row, bit, version, cache, join, reads, granted, missed, events>>
        /\ leave[c] = "idle" /\ leave' = [leave EXCEPT ![c] = "delete"]
        /\ leaves' = leaves + 1 /\ leaves < MaxLeaves
    BY DEF SendLeave, serverUnchanged, redisVars
  <1>2. /\ Granting' = Granting /\ Revoking' = Revoking
        /\ c \notin Deleting /\ Deleting' = Deleting \cup {c}
        /\ Invalidating' = Invalidating
    BY <1>1 DEF Shapes, Granting, Revoking, Deleting, Invalidating
  <1>3. Shapes'
    <2>1. leaves' \in 0..MaxLeaves
      BY <1>1, RegistrationAssumption DEF Shapes
    <2>2. leave' \in [Clients -> LeaveSteps]
      BY <1>1 DEF Shapes, LeaveSteps
    <2>3. QED
      BY <1>1, <2>1, <2>2 DEF Shapes
  <1>4. AccessInv'
    <2>1. leaves' # 0
      BY <1>1 DEF Shapes
    <2>2. QED
      BY <2>1 DEF AccessInv, SuccessHasAccess, Quiet
  <1>5. VersionInv'
    <2>1. Cardinality(Deleting') = Cardinality(Deleting) + 1
      BY <1>2, Counted, OneMore
    <2>2. (IF row THEN 1 ELSE 0) \in 0..1 /\ version \in Nat /\ leaves \in Nat
      BY DEF Shapes
    <2>3. QED
      BY <1>1, <1>2, <2>1, <2>2, Counted DEF VersionInv
  <1>6. FreshInv'
    BY <1>1, <1>2 DEF FreshInv, CatalogueFresh, Quiet
  <1>7. QED
    BY <1>3, <1>4, <1>5, <1>6

\* join_auction_service up to its insert: a registration that exists is rehydrated.
LEMMA JoinCheckStep ==
    ASSUME RegistrationInv, NEW c \in Clients, JoinCheck(c)
    PROVE  RegistrationInv'
  <1> USE DEF RegistrationInv
  <1>1. /\ UNCHANGED <<row, bit, version, cache, leave, reads, leaves, granted, missed>>
        /\ join[c].step = "check" /\ (Quiet' <=> Quiet)
        /\ \E s \in {"rehydrate", "error", "insert"} :
              (s = "rehydrate" => row) /\ join' = [join EXCEPT ![c].step = s]
    BY DEF JoinCheck, JoinTo, joinUnchanged, redisVars, Happen, Unless, Event, Quiet
  <1>2. /\ join' \in [Clients -> Joins] /\ \A b \in Clients : b # c => join'[b] = join[b]
        /\ join'[c].step \in {"rehydrate", "error", "insert"} /\ (join'[c].step = "rehydrate" => row)
    BY <1>1 DEF Shapes, Joins
  <1>3. /\ Granting' = Granting /\ Revoking' = Revoking /\ Deleting' = Deleting
        /\ Invalidating' = Invalidating
    BY <1>1, <1>2 DEF Granting, Revoking, Deleting, Invalidating
  <1>4. Shapes'
    BY <1>1, <1>2 DEF Shapes
  <1>5. AccessInv'
    BY <1>1, <1>2 DEF AccessInv, SuccessHasAccess, Quiet
  <1>6. VersionInv'
    BY <1>1, <1>3 DEF VersionInv
  <1>7. FreshInv'
    BY <1>1, <1>3 DEF FreshInv, CatalogueFresh, Quiet
  <1>8. QED
    BY <1>4, <1>5, <1>6, <1>7

\* The insert of join_auction_service: a row that is new awaits its invalidation.
LEMMA JoinInsertStep ==
    ASSUME RegistrationInv, NEW c \in Clients, JoinInsert(c)
    PROVE  RegistrationInv'
  <1> USE DEF RegistrationInv
  <1>1. /\ UNCHANGED <<bit, version, cache, leave, reads, leaves, granted, missed>>
        /\ join[c].step = "insert" /\ (Quiet' <=> Quiet)
        /\ \/ row' = row /\ \E s \in {"already", "error"} : join' = [join EXCEPT ![c].step = s]
           \/ ~row /\ row' = TRUE /\ join' = [join EXCEPT ![c].step = "grant"]
    BY DEF JoinInsert, JoinTo, joinUnchanged, redisVars, NoEvent, Happen, Event, Quiet, Shapes
  <1>2. /\ join' \in [Clients -> Joins] /\ \A b \in Clients : b # c => join'[b] = join[b]
        /\ \/ row' = row /\ join'[c].step \in {"already", "error"}
           \/ ~row /\ row' = TRUE /\ join'[c].step = "grant"
    BY <1>1 DEF Shapes, Joins
  <1>3. Shapes'
    BY <1>1, <1>2 DEF Shapes
  <1>4. AccessInv'
    BY <1>1, <1>2 DEF AccessInv, SuccessHasAccess, Quiet
  <1>5. VersionInv' /\ FreshInv'
    <2>1. Revoking' = Revoking /\ Deleting' = Deleting /\ c \notin Granting
      BY <1>1 DEF Granting, Revoking, Deleting
    <2>2. CASE row' = row /\ join'[c].step \in {"already", "error"}
      <3>1. Granting' = Granting /\ Invalidating' = Invalidating /\ row' = row
        BY <1>1, <1>2, <2>2 DEF Granting, Invalidating, Shapes
      <3>2. UNCHANGED <<row, version, cache, reads, leaves, missed>> /\ (Quiet' <=> Quiet)
        BY <1>1, <3>1
      <3>3. VersionInv'
        BY <2>1, <3>1, <3>2 DEF VersionInv
      <3>4. FreshInv'
        BY <3>1, <3>2 DEF FreshInv, CatalogueFresh, Quiet
      <3>5. QED
        BY <3>3, <3>4
    <2>3. CASE ~row /\ row' = TRUE /\ join'[c].step = "grant"
      <3>1. Granting' = Granting \cup {c} /\ Invalidating'
        BY <1>1, <1>2, <2>3 DEF Granting, Invalidating
      <3>2. Cardinality(Granting') = Cardinality(Granting) + 1
        BY <2>1, <3>1, Counted, OneMore
      <3>3. VersionInv'
        <4>1. /\ (IF row THEN 1 ELSE 0) = 0 /\ (IF row' THEN 1 ELSE 0) = 1
              /\ version \in Nat /\ leaves \in Nat
          BY <1>1, <2>3 DEF Shapes
        <4>2. QED
          BY <1>1, <2>1, <3>2, <4>1, Counted DEF VersionInv
      <3>4. QED
        BY <1>1, <3>1, <3>3 DEF FreshInv, CatalogueFresh, Quiet
    <2>4. QED
      BY <1>2, <2>2, <2>3
  <1>6. QED
    BY <1>3, <1>4, <1>5

\* set_participant_bit and invalidate_auction_catalog: no key of the new version
\* has been written and no read knows it.  A SETBIT or an INCR that fails is a miss.
LEMMA JoinGrantStep ==
    ASSUME RegistrationInv, NEW c \in Clients, JoinGrant(c)
    PROVE  RegistrationInv'
  <1> USE DEF RegistrationInv
  <1>1. /\ UNCHANGED <<row, cache, leave, reads, leaves, granted>>
        /\ join[c].step \in {"rehydrate", "grant"} /\ (Quiet' <=> Quiet)
        /\ \/ bit' = TRUE /\ join' = [join EXCEPT ![c].step = "ok"]
           \/ bit' = bit /\ join' = [join EXCEPT ![c].step = "error"]
        /\ \/ join[c].step = "grant" /\ version' = version + 1 /\ missed' = FALSE
           \/ join[c].step = "grant" /\ version' = version /\ missed' = TRUE
           \/ join[c].step # "grant" /\ UNCHANGED <<version, missed>>
    BY DEF JoinGrant, Grant, Invalidate, JoinTo, Happen, Unless, Event, Quiet, joinUnchanged, Shapes
  <1>2. /\ join' \in [Clients -> Joins] /\ \A b \in Clients : b # c => join'[b] = join[b]
        /\ \/ join'[c].step = "ok" /\ bit' = TRUE
           \/ join'[c].step = "error" /\ bit' = bit
    BY <1>1 DEF Shapes, Joins
  <1>3. Shapes'
    <2>1. version' \in Nat
      BY <1>1 DEF Shapes
    <2>2. missed' \in BOOLEAN
      BY <1>1 DEF Shapes
    <2>3. bit' \in BOOLEAN
      BY <1>2 DEF Shapes
    <2>4. QED
      BY <1>1, <1>2, <2>1, <2>2, <2>3 DEF Shapes
  <1>4. AccessInv'
    BY <1>1, <1>2 DEF AccessInv, SuccessHasAccess, Quiet
  <1>5. /\ Revoking' = Revoking /\ Deleting' = Deleting /\ Granting' = Granting \ {c}
        /\ Cardinality(Granting') \in Nat
        /\ join[c].step = "grant" => Cardinality(Granting') = Cardinality(Granting) - 1
        /\ join[c].step # "grant" => Granting' = Granting
    <2>1. Revoking' = Revoking /\ Deleting' = Deleting /\ Granting' = Granting \ {c}
      BY <1>1, <1>2 DEF Granting, Revoking, Deleting
    <2>2. join[c].step = "grant" => Cardinality(Granting') = Cardinality(Granting) - 1
      BY <2>1, Counted, OneLess DEF Granting
    <2>3. join[c].step # "grant" => Granting' = Granting
      BY <2>1 DEF Granting
    <2>4. QED
      BY <2>1, <2>2, <2>3, Counted, ClientCounts
  <1>6. VersionInv'
    <2>1. (IF row THEN 1 ELSE 0) \in 0..1 /\ version \in Nat /\ leaves \in Nat
      BY DEF Shapes
    <2>2. CASE join[c].step = "grant"
      BY <1>1, <1>5, <2>1, <2>2, Counted DEF VersionInv
    <2>3. CASE join[c].step # "grant"
      BY <1>1, <1>5, <2>1, <2>3, Counted DEF VersionInv
    <2>4. QED
      BY <2>2, <2>3
  <1>7. FreshInv'
    <2>1. CASE join[c].step = "grant" /\ version' = version /\ missed' = TRUE
      BY <1>1, <2>1 DEF FreshInv, CatalogueFresh, Quiet
    <2>2. CASE join[c].step # "grant" /\ UNCHANGED <<version, missed>>
      <3>1. Invalidating' = Invalidating
        BY <1>1, <1>2, <2>2 DEF Invalidating
      <3>2. QED
        BY <1>1, <2>2, <3>1 DEF FreshInv, CatalogueFresh, Quiet
    <2>3. CASE join[c].step = "grant" /\ version' = version + 1
      <3>1. version' \in Versions /\ version \in Nat
        <4>1. /\ version' \in Nat /\ leaves' \in 0..MaxLeaves /\ (IF row' THEN 1 ELSE 0) \in 0..1
              /\ Granting' \in SUBSET Clients /\ Revoking' \in SUBSET Clients
              /\ Deleting' \in SUBSET Clients
          BY <1>3, <1>5, Counted DEF Shapes
        <4>2. QED
          BY <4>1, <1>6, VersionInRange DEF VersionInv, Shapes
      <3>2. Quiet => cache'[version'] = "none" /\ \A r \in reads' : r.version < version'
        BY <1>1, <2>3, <3>1 DEF FreshInv, Quiet, Shapes, Reads
      <3>3. QED
        BY <1>1, <2>3, <3>1, <3>2 DEF FreshInv, CatalogueFresh, Quiet, Shapes, Reads, Versions
    <2>4. QED
      BY <1>1, <2>1, <2>2, <2>3
  <1>8. QED
    BY <1>3, <1>4, <1>6, <1>7

\* leave_auction_service deletes the row, and then owes the catalogue a version.
LEMMA LeaveDeleteStep ==
    ASSUME RegistrationInv, NEW c \in Clients, LeaveDelete(c)
    PROVE  RegistrationInv'
  <1> USE DEF RegistrationInv
  <1>1. /\ UNCHANGED <<bit, version, cache, join, reads, leaves, granted, missed>>
        /\ leave[c] = "delete" /\ (Quiet' <=> Quiet)
        /\ \/ row' = row /\ leave' = [leave EXCEPT ![c] = "error"]
           \/ row /\ row' = FALSE /\ leave' = [leave EXCEPT ![c] = "revoke"]
    BY DEF LeaveDelete, LeaveTo, leaveUnchanged, redisVars, NoEvent, Happen, Event, Quiet, Shapes
  <1>2. leave' \in [Clients -> LeaveSteps] /\ row' \in BOOLEAN
    BY <1>1 DEF Shapes, LeaveSteps
  <1>3. Shapes'
    BY <1>1, <1>2 DEF Shapes
  <1>4. AccessInv'
    <2>1. leaves' # 0
      BY <1>1 DEF AccessInv
    <2>2. QED
      BY <2>1 DEF AccessInv, SuccessHasAccess, Quiet
  <1>5. Granting' = Granting /\ c \in Deleting /\ Deleting' = Deleting \ {c} /\ c \notin Revoking
    BY <1>1 DEF Granting, Deleting, Revoking, Shapes
  <1>6. Cardinality(Deleting') = Cardinality(Deleting) - 1
    BY <1>5, Counted, OneLess
  <1>7. version \in Nat /\ leaves \in Nat /\ (IF row THEN 1 ELSE 0) \in 0..1
    BY DEF Shapes
  <1>8. CASE row' = row /\ leave' = [leave EXCEPT ![c] = "error"]
    <2>1. Revoking' = Revoking /\ Invalidating' = Invalidating
      BY <1>1, <1>8 DEF Revoking, Invalidating, Shapes
    <2>2. VersionInv'
      BY <1>1, <1>5, <1>6, <1>7, <1>8, <2>1, Counted DEF VersionInv
    <2>3. FreshInv'
      BY <1>1, <1>8, <2>1 DEF FreshInv, CatalogueFresh, Quiet
    <2>4. QED
      BY <1>3, <1>4, <2>2, <2>3
  <1>9. CASE row /\ row' = FALSE /\ leave' = [leave EXCEPT ![c] = "revoke"]
    <2>1. Revoking' = Revoking \cup {c} /\ Invalidating'
      BY <1>9 DEF Revoking, Invalidating, Shapes
    <2>2. Cardinality(Revoking') = Cardinality(Revoking) + 1
      BY <1>5, <2>1, Counted, OneMore
    <2>3. (IF row THEN 1 ELSE 0) = 1 /\ (IF row' THEN 1 ELSE 0) = 0
      BY <1>9
    <2>4. VersionInv'
      BY <1>1, <1>5, <1>6, <1>7, <2>2, <2>3, Counted DEF VersionInv
    <2>5. FreshInv'
      BY <1>1, <2>1 DEF FreshInv, CatalogueFresh, Quiet
    <2>6. QED
      BY <1>3, <1>4, <2>4, <2>5
  <1>10. QED
    BY <1>1, <1>8, <1>9

\* The rest of leave_auction_service: the bit goes, or not, and the version is new.
LEMMA LeaveRevokeStep ==
    ASSUME RegistrationInv, NEW c \in Clients, LeaveRevoke(c)
    PROVE  RegistrationInv'
  <1> USE DEF RegistrationInv
  <1>1. /\ UNCHANGED <<row, cache, join, reads, leaves, granted>>
        /\ leave[c] = "revoke" /\ leave' = [leave EXCEPT ![c] = "ok"]
        /\ (version' = version + 1 /\ missed' = FALSE) \/ (version' = version /\ missed' = TRUE)
        /\ bit' \in BOOLEAN /\ (Quiet' <=> Quiet)
    BY DEF LeaveRevoke, LeaveTo, Invalidate, Happen, Unless, Quiet, leaveUnchanged
  <1>2. leave' \in [Clients -> LeaveSteps] /\ version' \in Nat
    BY <1>1 DEF Shapes, LeaveSteps
  <1>3. missed' \in BOOLEAN
    BY <1>1
  <1>4. Shapes'
    BY <1>1, <1>2, <1>3 DEF Shapes
  <1>5. AccessInv'
    <2>1. leaves' # 0
      BY <1>1 DEF AccessInv
    <2>2. QED
      BY <2>1 DEF AccessInv, SuccessHasAccess, Quiet
  <1>6. /\ Granting' = Granting /\ Deleting' = Deleting
        /\ c \in Revoking /\ Revoking' = Revoking \ {c}
    BY <1>1 DEF Granting, Deleting, Revoking, Shapes
  <1>7. Cardinality(Revoking') = Cardinality(Revoking) - 1
    BY <1>6, Counted, OneLess
  <1>8. version \in Nat /\ leaves \in Nat /\ (IF row THEN 1 ELSE 0) \in 0..1
    BY DEF Shapes
  <1>9. VersionInv'
    BY <1>1, <1>6, <1>7, <1>8, Counted DEF VersionInv
  <1>10. version' \in Versions
    <2>1. /\ leaves' \in 0..MaxLeaves /\ (IF row' THEN 1 ELSE 0) \in 0..1
          /\ Granting' \in SUBSET Clients /\ Revoking' \in SUBSET Clients
          /\ Deleting' \in SUBSET Clients
      BY <1>4, <1>6, Counted DEF Shapes
    <2>2. QED
      BY <2>1, <1>2, <1>9, VersionInRange DEF VersionInv
  <1>11. FreshInv'
    <2>1. CASE version' = version + 1
      <3>1. Quiet => cache'[version'] = "none" /\ \A r \in reads' : r.version < version'
        BY <1>1, <1>8, <1>10, <2>1 DEF FreshInv, Shapes, Reads
      <3>2. QED
        BY <1>1, <1>8, <1>10, <2>1, <3>1 DEF FreshInv, CatalogueFresh, Quiet, Shapes, Reads, Versions
    <2>2. CASE version' = version /\ missed' = TRUE
      BY <1>1, <2>2 DEF FreshInv, CatalogueFresh, Quiet
    <2>3. QED
      BY <1>1, <2>1, <2>2
  <1>12. QED
    BY <1>4, <1>5, <1>9, <1>11

\* get_auctions_service: while no change of the row awaits its version, what a read
\* stores under the current version is what the database holds.
LEMMA ReadSteps ==
    ASSUME RegistrationInv, NEW r \in reads,
           ReadVersion(r) \/ ReadCache(r) \/ ReadDatabase(r) \/ ReadStore(r)
    PROVE  RegistrationInv'
  <1> USE DEF RegistrationInv
  <1>1. UNCHANGED <<row, bit, version, join, leave, leaves, granted, missed>> /\ (Quiet' <=> Quiet)
    BY DEF ReadVersion, ReadCache, ReadDatabase, ReadStore, readUnchanged, NoEvent, Happen, Unless,
           Event, Quiet
  <1>2. r \in Reads /\ reads \subseteq Reads /\ version \in Nat
    BY DEF Shapes
  <1>3. AccessInv'
    BY <1>1 DEF AccessInv, SuccessHasAccess, Quiet
  <1>4. VersionInv'
    BY <1>1 DEF VersionInv, Granting, Revoking, Deleting
  <1>5. Invalidating' = Invalidating /\ (Quiet' <=> Quiet)
    BY <1>1 DEF Invalidating, Quiet
  <1>6. CASE ReadStore(r)
    <2>1. /\ r.step = "store" /\ reads' = reads \ {r}
          /\ UNCHANGED cache \/ cache' = [cache EXCEPT ![r.version] = r.value]
      BY <1>6 DEF ReadStore, Answer
    <2>2. Shapes'
      BY <1>1, <1>2, <2>1 DEF Shapes, Reads
    <2>3. FreshInv'
      <3>1. /\ r.version \in Nat /\ Quiet => r.version <= version
            /\ \A v \in Versions : v # r.version => cache'[v] = cache[v]
            /\ r.version \in Versions => cache'[r.version] \in {cache[r.version], r.value}
        BY <1>2, <2>1 DEF Shapes, FreshInv, Reads
      <3>2. version \in Versions
        BY <1>2, Counted, VersionInRange DEF VersionInv, Shapes
      <3>3. CatalogueFresh'
        BY <1>1, <1>5, <2>1, <3>1, <3>2 DEF FreshInv, CatalogueFresh, Quiet
      <3>4. Quiet => \A v \in Versions : version < v => cache'[v] = "none"
        BY <1>2, <3>1 DEF FreshInv, Versions
      <3>5. QED
        BY <1>1, <1>5, <2>1, <3>3, <3>4 DEF FreshInv
    <2>4. QED
      BY <1>3, <1>4, <2>2, <2>3
  <1>7. CASE ~ReadStore(r)
    <2>1. UNCHANGED cache
      BY <1>7 DEF ReadVersion, ReadCache, ReadDatabase
    <2>2. /\ reads' \subseteq Reads
          /\ \A x \in reads' : \/ x \in reads
                               \/ x.step = "lookup" /\ x.version \in {version, 0}
                               \/ x.step = "version" /\ x.version = 0
                               \/ x.step = "database" /\ x.version = r.version
                               \/ x.step = "store" /\ x.version = r.version /\ x.value = YesNo(row)
      <3> DEFINE Old == reads' = reads \ {r}
                 Becomes(n) == n \in Reads /\ reads' = (reads \ {r}) \cup {n}
      <3>1. CASE ReadVersion(r)
        <4>1. PICK v \in {version, 0} : Becomes([r EXCEPT !.step = "lookup", !.version = v])
          BY <1>2, <3>1 DEF ReadVersion, ReadTo, Reads
        <4>2. QED
          BY <1>2, <4>1 DEF Reads
      <3>2. CASE ReadCache(r)
        <4>1. Old \/ Becomes([r EXCEPT !.step = "database"])
          BY <1>2, <3>2 DEF ReadCache, ReadTo, Answer, Reads
        <4>2. QED
          BY <1>2, <4>1 DEF Reads
      <3>3. CASE ReadDatabase(r)
        <4>1. Read(r.client) \in Reads /\ Read(r.client).step = "version" /\ Read(r.client).version = 0
          BY <1>2 DEF Read, Reads
        <4>2. \/ Becomes([r EXCEPT !.step = "store", !.value = YesNo(row)])
              \/ Old \/ Becomes(Read(r.client))
          BY <1>2, <3>3, <4>1 DEF ReadDatabase, ReadTo, Reads, YesNo
        <4>3. QED
          BY <1>2, <4>1, <4>2 DEF Reads
      <3>4. QED
        BY <1>7, <3>1, <3>2, <3>3
    <2>3. Shapes'
      BY <1>1, <2>1, <2>2 DEF Shapes
    <2>4. FreshInv'
      <3>1. CatalogueFresh'
        BY <1>1, <1>5, <2>1, <2>2 DEF FreshInv, CatalogueFresh, Quiet, YesNo
      <3>2. Quiet => \A x \in reads' : x.version <= version
        BY <1>2, <2>2 DEF FreshInv
      <3>3. QED
        BY <1>1, <1>5, <2>1, <3>1, <3>2 DEF FreshInv
    <2>5. QED
      BY <1>3, <1>4, <2>3, <2>4
  <1>8. QED
    BY <1>6, <1>7

\* Redis loses its data: access and freshness are no longer promised, and the count
\* of the versions starts anew.
LEMMA RestartStep ==
    ASSUME RegistrationInv, RedisRestart
    PROVE  RegistrationInv'
  <1> USE DEF RegistrationInv
  <1>1. /\ UNCHANGED <<row, join, leave, reads, leaves, granted>>
        /\ bit' = FALSE /\ version' = 0 /\ cache' = [v \in Versions |-> "none"]
        /\ UNCHANGED missed /\ events' = events \cup {"restart"}
    BY DEF RedisRestart, Event, Happen, clientVars
  <1>2. Shapes'
    BY <1>1 DEF Shapes
  <1>3. AccessInv'
    BY <1>1 DEF AccessInv, SuccessHasAccess, Quiet
  <1>4. VersionInv'
    <2>1. Granting' = Granting /\ Revoking' = Revoking /\ Deleting' = Deleting
      BY <1>1 DEF Granting, Revoking, Deleting
    <2>2. version \in Nat /\ leaves \in Nat /\ (IF row THEN 1 ELSE 0) \in 0..1
      BY DEF Shapes
    <2>3. QED
      BY <1>1, <2>1, <2>2, Counted DEF VersionInv
  <1>5. FreshInv'
    BY <1>1 DEF FreshInv, CatalogueFresh, Quiet
  <1>6. QED
    BY <1>2, <1>3, <1>4, <1>5

\* Every step of the clients and of the server keeps the invariant.
LEMMA RegistrationStep == RegistrationInv /\ [Next]_vars => RegistrationInv'
  <1> SUFFICES ASSUME RegistrationInv, [Next]_vars PROVE RegistrationInv'
    OBVIOUS
  <1>1. CASE UNCHANGED vars
    BY <1>1 DEF vars, redisVars, clientVars, histVars, RegistrationInv, Shapes, AccessInv, SuccessHasAccess,
                VersionInv, Granting, Revoking, Deleting, FreshInv, CatalogueFresh, Invalidating, Quiet
  <1>2. ASSUME NEW p \in Pages, JoinAuction(p) \/ AutoJoin(p) \/ Unregister(p)
        PROVE  RegistrationInv'
    <2>1. p \in Clients
      BY DEF Clients
    <2>2. SendLeave(p) \/ \E auto \in BOOLEAN : SendJoin(p, auto)
      BY <1>2 DEF JoinAuction, AutoJoin, Unregister
    <2>3. QED
      BY <2>1, <2>2, SendLeaveStep, ButtonsAreClientOnly, ClientOnlySteps DEF RegistrationInv
  <1>3. ASSUME NEW c \in Cards,
               ActionClick(c) \/ CloseModal(c) \/ ConfirmRegistration(c) \/ ConfirmLeave(c)
        PROVE  RegistrationInv'
    <2>1. c \in Clients
      BY DEF Clients
    <2>2. \/ ActionClick(c) \/ CloseModal(c) \/ SendLeave(c)
          \/ \E auto \in BOOLEAN : SendJoin(c, auto)
      BY <1>3 DEF ConfirmRegistration, ConfirmLeave
    <2>3. QED
      BY <2>1, <2>2, SendLeaveStep, ButtonsAreClientOnly, ClientOnlySteps DEF RegistrationInv
  <1>4. ASSUME NEW c \in Clients, Refetch(c) \/ ClientStep(c)
        PROVE  RegistrationInv'
    BY <1>4, AnswersAreClientOnly, ClientOnlySteps DEF RegistrationInv
  <1>5. CASE ServerStep
    BY <1>5, JoinCheckStep, JoinInsertStep, JoinGrantStep, LeaveDeleteStep, LeaveRevokeStep, ReadSteps
       DEF ServerStep
  <1>6. CASE Tick
    BY <1>6, ButtonsAreClientOnly, ClientOnlySteps DEF RegistrationInv
  <1>7. QED
    BY <1>1, <1>2, <1>3, <1>4, <1>5, <1>6, RestartStep DEF Next

\* The invariant of the registration.
THEOREM RegistrationInvariant == Spec => []RegistrationInv
  BY RegistrationInit, RegistrationStep, PTL DEF Spec

-----------------------------------------------------------------------------
(* The results *)

\* join_auction_service: a registration that was reported as successful has its row
\* and its access bit, for any number of tabs that join at once.
THEOREM ReportedJoinsHaveAccess == Spec => []SuccessHasAccess
  <1>1. RegistrationInv => SuccessHasAccess
    BY DEF RegistrationInv, AccessInv
  <1>2. QED
    BY <1>1, RegistrationInvariant, PTL

\* get_auctions_service: the catalogue of the current version says of the user's
\* registration what the database says.
THEOREM CatalogueIsFresh == Spec => []CatalogueFresh
  <1>1. RegistrationInv => CatalogueFresh
    BY DEF RegistrationInv, FreshInv
  <1>2. QED
    BY <1>1, RegistrationInvariant, PTL
===============================================================================
