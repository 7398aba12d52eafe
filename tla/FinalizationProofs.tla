------------------------- MODULE FinalizationProofs -------------------------
(***************************************************************************)
(* Proofs about Finalization: no accepted bid is lost, and what is written *)
(* to PostgreSQL is the outcome of all accepted bids.  Faults of every kind *)
(* and in any number are allowed; only the second needs that the auction's *)
(* configuration can be read.                                              *)
(***************************************************************************)
EXTENDS Finalization, FiniteSetTheorems, SequenceTheorems, WellFoundedInduction, TLAPS

USE DEF histVars

ConfigReadable == "config" \notin Faults

SyncSteps == {"idle", "config", "read", "update", "insert", "clean", "commit", "dlq"}
OnLedger == {"config", "read", "update", "insert", "clean"}

Syncers == [step : SyncSteps, at : Nat, attempt : Nat, type : AuctionTypes,
            reserve : Nat, bids : SUBSET Bids]

\* The parts of the state the arguments below compute with.
Shapes ==
    /\ syncer \in Syncers
    /\ "known" \in DOMAIN runtime
    /\ fetched \in Nat /\ syncCommitted \in Nat
    /\ syncLog \in Seq({"this", "other", "bad"})
    /\ zset \subseteq Bids

Accepting == engine \in {"select", "script"}
Closed == ended /\ ~Accepting
HandedOver == \E p \in DOMAIN syncLog : syncLog[p] = "this"

\* The auction is handed over only once no actor can accept a bid any more; as long
\* as every actor knows the end and keeps to it.
WindowInv ==
    /\ Shapes
    /\ Accepting => runtime.known
    /\ engine \in {"drain", "hset", "sync"} => ended
    /\ clock \in {"grace", "expired"} => ~Accepting
    /\ sweeper # "idle" => clock \in {"grace", "expired"}
    /\ HandedOver => Closed
    /\ syncer.step \in OnLedger => HandedOver

\* What the sync worker has read covers the sorted set until it deletes it, but for
\* the bids that came later.
BookInv ==
    /\ NoAcceptedBidLost
    /\ syncer.step \in {"update", "insert"} => zset \subseteq syncer.bids \cup late
    /\ syncer.step = "clean" => zset \subseteq dbBids \cup late

Outcome == WinnerOf(AuctionType, Reserve, accepted)
Done == dbBids = accepted /\ dbWinner = Outcome

\* Every pass of the sync worker either works on all accepted bids or finds the
\* work of an earlier pass done.
OutcomeInv ==
    /\ dbWinner \in {Nobody, Outcome}
    /\ dbWinner # Nobody \/ dbBids # {} => Closed
    /\ dbBids = {} \/ Done
    /\ zset = accepted \/ (zset = {} /\ Done)
    /\ syncer.step \in {"read", "update"} => syncer.type = AuctionType /\ syncer.reserve = Reserve
    /\ syncer.step \in {"update", "insert"} => syncer.bids = accepted \/ (syncer.bids = {} /\ Done)
    /\ syncer.step = "insert" /\ syncer.bids = accepted => dbWinner = Outcome
    /\ syncer.step = "clean" => Done

-----------------------------------------------------------------------------
(* The window *)

\* Initially nothing is handed over.
LEMMA WindowInit == Init => WindowInv
  <1> SUFFICES ASSUME Init PROVE WindowInv
    OBVIOUS
  <1>1. Shapes
    BY DEF Init, Shapes, Syncers, SyncSteps, Idle, Defaults, AuctionTypes
  <1>2. ~HandedOver
    BY DEF Init, HandedOver
  <1>3. QED
    BY <1>1, <1>2 DEF Init, WindowInv, Accepting, ended, Idle, OnLedger

\* An appended record hands the auction over exactly when it is this auction's.
LEMMA AppendRecord ==
    ASSUME syncLog \in Seq({"this", "other", "bad"}), NEW k \in {"this", "other", "bad"},
           syncLog' = Append(syncLog, k)
    PROVE  /\ syncLog' \in Seq({"this", "other", "bad"})
           /\ HandedOver => HandedOver'
           /\ HandedOver' => HandedOver \/ k = "this"
  <1>1. /\ syncLog' \in Seq({"this", "other", "bad"})
        /\ Len(syncLog') = Len(syncLog) + 1
        /\ \A i \in 1..Len(syncLog) : syncLog'[i] = syncLog[i]
        /\ syncLog'[Len(syncLog) + 1] = k
    BY AppendProperties
  <1>2. /\ Len(syncLog) \in Nat
        /\ DOMAIN syncLog = 1..Len(syncLog)
        /\ DOMAIN syncLog' = 1..Len(syncLog')
    BY <1>1, LenProperties
  <1>3. HandedOver => HandedOver'
    BY <1>1, <1>2 DEF HandedOver
  <1>4. ASSUME HandedOver' PROVE HandedOver \/ k = "this"
    <2>1. PICK p \in DOMAIN syncLog' : syncLog'[p] = "this"
      BY <1>4 DEF HandedOver
    <2>2. CASE p = Len(syncLog) + 1
      BY <2>1, <2>2, <1>1
    <2>3. CASE p # Len(syncLog) + 1
      BY <2>1, <2>3, <1>1, <1>2 DEF HandedOver
    <2>4. QED
      BY <2>2, <2>3
  <1>5. QED
    BY <1>1, <1>3, <1>4

\* A failed attempt leads to the next one or to the dead-letter topic.
LEMMA RetryShape ==
    ASSUME syncer \in Syncers, Retry
    PROVE  syncer' \in Syncers /\ syncer'.step \in {"config", "dlq"}
  <1>1. CASE syncer.attempt >= MaxAttempts
    BY <1>1 DEF Retry, Syncers, SyncSteps
  <1>2. CASE ~(syncer.attempt >= MaxAttempts)
    <2>1. syncer.attempt + 1 \in Nat
      BY DEF Syncers
    <2>2. syncer' = [syncer EXCEPT !.step = "config", !.attempt = syncer.attempt + 1]
      BY <1>2 DEF Retry
    <2>3. QED
      BY <2>1, <2>2 DEF Syncers, SyncSteps
  <1>3. QED
    BY <1>1, <1>2

\* The steps of the sync worker leave the engine, the sweeper and the clock alone.
LEMMA WindowSyncer ==
    ASSUME WindowInv, SyncerStep
    PROVE  WindowInv'
  <1>1. /\ UNCHANGED <<stateKey, syncLog, engine, runtime, sweeper, clock>>
        /\ HandedOver' = HandedOver
    BY DEF SyncerStep, SyncFetch, SyncConfig, SyncRead, SyncUpdate, SyncInsert, SyncClean,
           SyncCommit, SyncDlq, syncUnchanged, engineVars, HandedOver
  <1>2. /\ Shapes'
        /\ syncer'.step \in OnLedger => HandedOver
    <2> USE <1>1 DEF WindowInv, Shapes, OnLedger
    <2>0. /\ Idle \in Syncers /\ Idle.step = "idle" /\ Idle.at = 0
          /\ Reserve \in Nat /\ AuctionType \in AuctionTypes /\ "REVERSE" \in AuctionTypes
      BY FinalizationAssumption DEF Idle, Syncers, SyncSteps, AuctionTypes
    <2>1. CASE SyncFetch
      <3>1. syncLog[fetched + 1] \in {"this", "other", "bad"} /\ fetched + 1 \in DOMAIN syncLog
        BY <2>1, LenProperties, ElementOfSeq DEF SyncFetch
      <3>2. PICK step \in {"config", "commit", "dlq"} :
              /\ syncer' = [Idle EXCEPT !.at = fetched + 1, !.attempt = 1, !.step = step]
              /\ step = "config" => syncLog[fetched + 1] = "this"
        BY <2>1, <3>1 DEF SyncFetch
      <3>3. fetched + 1 \in Nat /\ fetched' = fetched + 1
        BY <2>1 DEF SyncFetch
      <3>4. syncer' = [step |-> step, at |-> fetched + 1, attempt |-> 1, type |-> "REVERSE",
                       reserve |-> 0, bids |-> {}]
        BY <3>2 DEF Idle
      <3>5. syncer' \in Syncers /\ syncer'.step = step
        BY <2>0, <3>3, <3>4 DEF Syncers, SyncSteps
      <3>6. syncer'.step \in OnLedger => HandedOver
        BY <3>1, <3>2, <3>5 DEF HandedOver
      <3>7. UNCHANGED <<syncCommitted, zset>>
        BY <2>1 DEF SyncFetch
      <3>8. QED
        BY <3>3, <3>5, <3>6, <3>7
    <2>2. CASE SyncConfig
      <3>1. CASE Retry
        BY <2>2, <3>1, RetryShape DEF SyncConfig
      <3>2. CASE ~Retry
        BY <2>0, <2>2, <3>2 DEF SyncConfig, Syncers, SyncSteps
      <3>3. QED
        BY <3>1, <3>2
    <2>3. CASE SyncRead
      <3>1. CASE Retry
        BY <2>3, <3>1, RetryShape DEF SyncRead
      <3>2. CASE ~Retry
        BY <2>3, <3>2 DEF SyncRead, Syncers, SyncSteps
      <3>3. QED
        BY <3>1, <3>2
    <2>4. CASE SyncUpdate
      <3>1. CASE Retry
        BY <2>4, <3>1, RetryShape DEF SyncUpdate
      <3>2. CASE ~Retry
        BY <2>4, <3>2 DEF SyncUpdate, Syncers, SyncSteps, To
      <3>3. QED
        BY <3>1, <3>2
    <2>5. CASE SyncInsert
      <3>1. CASE Retry
        BY <2>5, <3>1, RetryShape DEF SyncInsert
      <3>2. CASE ~Retry
        BY <2>5, <3>2 DEF SyncInsert, Syncers, SyncSteps, To
      <3>3. QED
        BY <3>1, <3>2
    <2>6. CASE SyncClean
      BY <2>6 DEF SyncClean, To, Syncers, SyncSteps
    <2>7. CASE SyncCommit
      BY <2>0, <2>7 DEF SyncCommit, Syncers
    <2>8. CASE SyncDlq
      BY <2>0, <2>8 DEF SyncDlq, To, Syncers, SyncSteps
    <2>9. QED
      BY <2>1, <2>2, <2>3, <2>4, <2>5, <2>6, <2>7, <2>8 DEF SyncerStep
  <1>3. QED
    BY <1>1, <1>2 DEF WindowInv, Accepting, Closed, ended

\* The engine accepts nothing once the auction has ended, and closes it only then.
LEMMA WindowEngine ==
    ASSUME WindowInv, EngineStep \/ \E b \in Bids : Deliver(b), ~strayed'
    PROVE  WindowInv'
  <1>1. UNCHANGED <<stateKey, clock, sweeper, syncer, fetched, syncCommitted>> /\ ended' = ended
    BY DEF EngineStep, Deliver, Load, CloseTimer, CloseRead, CloseState, CloseSync, Decide, Accept,
           redisVars, kafkaVars, workerVars, ended
  <1>2. ASSUME UNCHANGED syncLog,
               zset' \subseteq Bids, "known" \in DOMAIN runtime',
               Accepting' => runtime'.known,
               engine' \in {"drain", "hset", "sync"} => ended,
               Accepting' => ~ended \/ Accepting
        PROVE  WindowInv'
    BY <1>1, <1>2 DEF WindowInv, Shapes, HandedOver, Closed, Accepting, ended
  <1> USE DEF WindowInv, Shapes, Accepting
  <1>3. CASE \E b \in Bids : Deliver(b)
    BY <1>2, <1>3 DEF Deliver, redisVars, kafkaVars
  <1>4. CASE Load
    <2>1. PICK bids : runtime' = Seed(Configured, bids) /\ engine' = LoopTop(runtime')
      BY <1>4 DEF Load
    <2>2. UNCHANGED <<syncLog, zset>>
      BY <1>4 DEF Load, redisVars, kafkaVars
    <2>3. "known" \in DOMAIN runtime' /\ runtime'.known
      BY <2>1 DEF Seed, Configured
    <2>4. QED
      BY <1>2, <2>1, <2>2, <2>3 DEF LoopTop
  <1>5. CASE CloseTimer
    BY <1>2, <1>5 DEF CloseTimer, redisVars, kafkaVars
  <1>6. CASE CloseRead
    BY <1>2, <1>6 DEF CloseRead, redisVars
  <1>7. CASE CloseState
    BY <1>2, <1>7 DEF CloseState, kafkaVars
  <1>8. CASE CloseSync
    <2>1. /\ engine = "sync" /\ engine' \in {"absent", "load"} /\ UNCHANGED <<zset, runtime>>
          /\ UNCHANGED syncLog \/ syncLog' = Append(syncLog, "this")
      BY <1>8 DEF CloseSync, redisVars
    <2>2. CASE UNCHANGED syncLog
      BY <1>2, <2>1, <2>2
    <2>3. CASE syncLog' = Append(syncLog, "this")
      <3>1. syncLog' \in Seq({"this", "other", "bad"}) /\ (HandedOver => HandedOver')
        BY <2>3, AppendRecord
      <3>2. QED
        BY <1>1, <2>1, <3>1 DEF Closed, ended
    <2>4. QED
      BY <2>1, <2>2, <2>3
  <1>9. ASSUME NEW b \in Bids, Decide(b) PROVE WindowInv'
    BY <1>2, <1>9 DEF Decide, LoopTop, redisVars
  <1>10. ASSUME NEW b \in Bids, Accept(b) PROVE WindowInv'
    <2>1. /\ "known" \in DOMAIN runtime' /\ runtime'.known = runtime.known
          /\ engine = "script" /\ engine' = LoopTop(runtime)
          /\ UNCHANGED syncLog /\ zset' \subseteq Bids
      BY <1>10 DEF Accept
    <2>2. QED
      BY <1>2, <2>1 DEF LoopTop
  <1>11. QED
    BY <1>3, <1>4, <1>5, <1>6, <1>7, <1>8, <1>9, <1>10 DEF EngineStep

\* The sweeper publishes after the grace; time passes it only when no actor can
\* accept; foreign records and crashes hand nothing over.
LEMMA WindowRest ==
    ASSUME WindowInv, ~strayed',
           \/ SweeperStep \/ Tick \/ EngineCrash \/ WorkerCrash
           \/ \E kind \in Foreign : ForeignRecord(kind)
           \/ UNCHANGED vars
    PROVE  WindowInv'
  <1> USE DEF WindowInv, Shapes, Accepting, Closed, ended
  <1>1. CASE SweepPublish
    <2>1. /\ sweeper = "publish" /\ UNCHANGED <<redisVars, engineVars, syncer, fetched, syncCommitted, clock>>
          /\ UNCHANGED syncLog \/ syncLog' = Append(syncLog, "this")
      BY <1>1 DEF SweepPublish, sweepUnchanged
    <2>2. CASE UNCHANGED syncLog
      BY <2>1, <2>2 DEF HandedOver, redisVars, engineVars
    <2>3. CASE syncLog' = Append(syncLog, "this")
      <3>1. syncLog' \in Seq({"this", "other", "bad"}) /\ (HandedOver => HandedOver')
        BY <2>3, AppendRecord
      <3>2. QED
        BY <2>1, <3>1 DEF redisVars, engineVars
    <2>4. QED
      BY <2>1, <2>2, <2>3
  <1>2. CASE SweepQuery \/ SweepMark
    BY <1>2 DEF SweepQuery, SweepMark, sweepUnchanged, redisVars, engineVars, HandedOver
  <1>3. CASE Tick
    BY <1>3 DEF Tick, kafkaVars, engineVars, workerVars, HandedOver
  <1>4. CASE EngineCrash
    BY <1>4 DEF EngineCrash, Defaults, redisVars, kafkaVars, workerVars, HandedOver
  <1>5. CASE WorkerCrash
    <2>1. syncer' \in Syncers /\ syncer'.step = "idle"
      BY <1>5 DEF WorkerCrash, Idle, Syncers, SyncSteps, AuctionTypes
    <2>2. QED
      BY <1>5, <2>1 DEF WorkerCrash, OnLedger, redisVars, kafkaVars, engineVars, HandedOver
  <1>6. ASSUME NEW kind \in Foreign, ForeignRecord(kind) PROVE WindowInv'
    <2>1. kind \in {"this", "other", "bad"} /\ kind # "this"
      BY FinalizationAssumption
    <2>2. /\ syncLog' = Append(syncLog, kind)
          /\ UNCHANGED <<redisVars, syncCommitted, engineVars, workerVars, clock>>
      BY <1>6 DEF ForeignRecord
    <2>3. /\ syncLog' \in Seq({"this", "other", "bad"})
          /\ HandedOver' = HandedOver
      BY <2>1, <2>2, AppendRecord DEF HandedOver
    <2>4. QED
      BY <2>2, <2>3 DEF redisVars, engineVars, workerVars
  <1>7. CASE UNCHANGED vars
    BY <1>7 DEF vars, redisVars, kafkaVars, engineVars, workerVars, HandedOver
  <1>8. QED
    BY <1>1, <1>2, <1>3, <1>4, <1>5, <1>6, <1>7 DEF SweeperStep

\* WindowInv is inductive until an actor strays.
LEMMA WindowStep ==
    ASSUME WindowInv, [Next]_vars, ~strayed'
    PROVE  WindowInv'
  BY WindowSyncer, WindowEngine, WindowRest DEF Next

\* That an actor has strayed is not forgotten.
LEMMA StrayedStays ==
    ASSUME [Next]_vars, ~strayed'
    PROVE  ~strayed
  <1>1. CASE Load
    BY <1>1 DEF Load
  <1>2. CASE Tick
    BY <1>2 DEF Tick
  <1>3. CASE ~Load /\ ~Tick
    BY <1>3 DEF Next, EngineStep, SyncerStep, SweeperStep, EngineCrash, WorkerCrash, ForeignRecord,
       Deliver, Decide, Accept, CloseTimer, CloseRead, CloseState, CloseSync, SyncFetch, SyncConfig,
       SyncRead, SyncUpdate, SyncInsert, SyncClean, SyncCommit, SyncDlq, syncUnchanged, SweepQuery,
       SweepPublish, SweepMark, sweepUnchanged, vars
  <1>4. QED
    BY <1>1, <1>2, <1>3

-----------------------------------------------------------------------------
(* Types *)

LogTypes ==
    /\ syncLog \in Seq({"this", "other", "bad"}) /\ Len(syncLog) <= MaxSync
    /\ syncCommitted \in 0..fetched /\ fetched \in 0..Len(syncLog)
    /\ dlq \subseteq 1..Len(syncLog)

DataTypes ==
    /\ zset \subseteq Bids /\ stateKey \in BOOLEAN /\ stateHash \in BOOLEAN
    /\ status \in {"ACTIVE", "COMPLETED"}
    /\ dbWinner \in Ids \cup {Nobody} /\ dbBids \subseteq Bids
    /\ accepted \subseteq Bids /\ late \subseteq accepted /\ strayed \in BOOLEAN

Runtimes == [type : AuctionTypes, price : Nat, step : Nat, reserve : Nat, known : BOOLEAN]

ActorTypes ==
    /\ backlog \subseteq Bids /\ inbox \subseteq backlog /\ Cardinality(inbox) <= 1
    /\ engine \in {"absent", "load", "select", "script", "drain", "hset", "sync"}
    /\ runtime \in Runtimes
    /\ closing \in [winner : Ids \cup {Nobody}, state : BOOLEAN]

\* The sync worker holds a record that it has fetched.
SyncerTypes ==
    /\ syncer \in Syncers
    /\ syncer.at <= fetched /\ syncer.attempt <= MaxAttempts
    /\ syncer.step # "idle" => syncer.at # 0

TaskTypes ==
    /\ sweeper \in {"idle", "publish", "mark"}
    /\ clock \in {"open", "ended", "grace", "expired"}
    /\ budget \in 0..MaxFaults

TypeInv == LogTypes /\ DataTypes /\ ActorTypes /\ SyncerTypes /\ TaskTypes

\* The parts make up TypeOK.
LEMMA TypesHold == TypeInv => TypeOK
  <1> SUFFICES ASSUME TypeInv PROVE TypeOK
    OBVIOUS
  <1>1. syncer \in [step : SyncSteps, at : 0..fetched, attempt : 0..MaxAttempts, type : AuctionTypes,
                    reserve : Nat, bids : SUBSET Bids]
    <2>1. syncer \in Syncers /\ syncer.at <= fetched /\ syncer.attempt <= MaxAttempts
      BY DEF TypeInv, SyncerTypes
    <2>2. syncer.at \in Nat /\ syncer.attempt \in Nat
      BY <2>1 DEF Syncers
    <2>3. fetched \in Nat /\ MaxAttempts \in Nat
      BY FinalizationAssumption DEF TypeInv, LogTypes
    <2>4. syncer.at \in 0..fetched /\ syncer.attempt \in 0..MaxAttempts
      BY <2>1, <2>2, <2>3
    <2>5. QED
      BY <2>1, <2>4 DEF Syncers
  <1>2. DOMAIN syncLog = 1..Len(syncLog)
    BY DEF TypeInv, LogTypes
  <1>3. QED
    BY <1>1, <1>2 DEF TypeInv, TypeOK, LogTypes, DataTypes, ActorTypes, TaskTypes, Runtimes, SyncSteps

\* A non-empty set of naturals has a least element.
LEMMA LeastAmount ==
    ASSUME NEW T, T \subseteq Nat, T # {}
    PROVE  \E x \in T : \A y \in T : x <= y
  <1>1. \E x \in T : \A y \in T : ~(<<y, x>> \in OpToRel(<, Nat))
    BY NatLessThanWellFounded, WFMin
  <1>2. \A x, y \in T : ~(<<y, x>> \in OpToRel(<, Nat)) => x <= y
    BY DEF OpToRel
  <1>3. QED
    BY <1>1, <1>2

\* The best of some bids is one of them.
LEMMA BestIsMember ==
    ASSUME NEW type \in AuctionTypes, NEW bids \in SUBSET Bids, bids # {}
    PROVE  BestBid(type, bids) \in bids
  <1>1. MaxPrice \in Nat /\ \A d \in bids : d.amount \in Nat /\ d.amount < MaxPrice
    BY FinalizationAssumption
  <1>2. \E d \in bids : \A x \in bids : RanksFirst(type, d.amount, x.amount)
    <2>1. CASE type = "REVERSE"
      <3> DEFINE T == {d.amount : d \in bids}
      <3>1. T \subseteq Nat /\ T # {}
        BY <1>1
      <3>2. \E a \in T : \A b \in T : a <= b
        BY <3>1, LeastAmount
      <3>3. QED
        BY <3>2, <2>1 DEF RanksFirst
    <2>2. CASE type = "FORWARD"
      <3> DEFINE T == {MaxPrice - d.amount : d \in bids}
      <3>1. T \subseteq Nat /\ T # {}
        BY <1>1
      <3>2. PICK a \in T : \A b \in T : a <= b
        BY <3>1, LeastAmount
      <3>3. PICK d \in bids : a = MaxPrice - d.amount
        OBVIOUS
      <3>4. \A x \in bids : MaxPrice - d.amount <= MaxPrice - x.amount
        BY <3>2, <3>3
      <3>5. QED
        BY <1>1, <2>2, <3>4 DEF RanksFirst
    <2>3. QED
      BY <2>1, <2>2 DEF AuctionTypes
  <1>3. QED
    BY <1>2 DEF BestBid

\* A winner is the bidder of one of the bids, or nobody.
LEMMA WinnerType ==
    ASSUME NEW type \in AuctionTypes, NEW reserve, NEW bids \in SUBSET Bids
    PROVE  WinnerOf(type, reserve, bids) \in Ids \cup {Nobody}
  <1>1. CASE bids = {}
    BY <1>1 DEF WinnerOf
  <1>2. CASE bids # {}
    BY <1>2, BestIsMember DEF WinnerOf, Ids
  <1>3. QED
    BY <1>1, <1>2

\* load_runtime yields a runtime, whatever bids it finds.
LEMMA SeedType ==
    ASSUME NEW rt \in Runtimes, NEW bids \in SUBSET Bids
    PROVE  Seed(rt, bids) \in Runtimes
  <1>1. CASE bids = {}
    BY <1>1 DEF Seed
  <1>2. CASE bids # {}
    <2>1. rt.type \in AuctionTypes
      BY DEF Runtimes
    <2>2. BestBid(rt.type, bids) \in Bids
      BY <1>2, <2>1, BestIsMember
    <2>3. BestBid(rt.type, bids).amount \in Nat
      BY <2>2, FinalizationAssumption
    <2>4. QED
      BY <1>2, <2>3 DEF Seed, Runtimes
  <1>3. QED
    BY <1>1, <1>2

\* The initial state has its types.
LEMMA TypesInit == Init => TypeInv
  <1> SUFFICES ASSUME Init PROVE TypeInv
    OBVIOUS
  <1>1. LogTypes
    BY FinalizationAssumption DEF Init, LogTypes
  <1>2. DataTypes
    BY DEF Init, DataTypes
  <1>3. ActorTypes
    BY FinalizationAssumption, FS_EmptySet DEF Init, ActorTypes, Runtimes, Defaults, AuctionTypes
  <1>4. SyncerTypes
    BY FinalizationAssumption DEF Init, SyncerTypes, Syncers, SyncSteps, Idle, AuctionTypes
  <1>5. TaskTypes
    BY FinalizationAssumption DEF Init, TaskTypes
  <1>6. QED
    BY <1>1, <1>2, <1>3, <1>4, <1>5 DEF TypeInv

\* Faults are taken from the budget.
LEMMA BudgetType ==
    ASSUME budget \in 0..MaxFaults, NoFault \/ \E kind : Fault(kind)
    PROVE  budget' \in 0..MaxFaults
  BY FinalizationAssumption DEF NoFault, Fault

\* A record is appended: what was fetched and dead-lettered stays in the log.
LEMMA AppendTypes ==
    ASSUME LogTypes, NEW k \in {"this", "other", "bad"}, Len(syncLog) < MaxSync,
           syncLog' = Append(syncLog, k), UNCHANGED <<syncCommitted, fetched, dlq>>
    PROVE  LogTypes'
  <1>1. /\ syncLog' \in Seq({"this", "other", "bad"}) /\ Len(syncLog') = Len(syncLog) + 1
        /\ Len(syncLog) \in Nat
    BY DEF LogTypes
  <1>2. QED
    BY <1>1, FinalizationAssumption DEF LogTypes

\* Time, foreign records, crashes and deliveries.
LEMMA EnvironmentTypes ==
    ASSUME TypeInv, \/ Tick \/ EngineCrash \/ WorkerCrash \/ UNCHANGED vars
                    \/ \E kind \in Foreign : ForeignRecord(kind)
                    \/ \E b \in Bids : Deliver(b)
    PROVE  TypeInv'
  <1> USE DEF TypeInv
  <1>1. CASE Tick
    <2>1. budget' \in 0..MaxFaults
      BY <1>1, BudgetType DEF Tick, TaskTypes
    <2>2. TaskTypes' /\ DataTypes'
      BY <1>1, <2>1 DEF Tick, TaskTypes, DataTypes, dbVars, workerVars
    <2>3. LogTypes' /\ ActorTypes' /\ SyncerTypes'
      BY <1>1 DEF Tick, LogTypes, ActorTypes, SyncerTypes, kafkaVars, engineVars, workerVars
    <2>4. QED
      BY <2>2, <2>3
  <1>2. CASE EngineCrash
    <2>1. budget' \in 0..MaxFaults
      BY <1>2, BudgetType DEF EngineCrash, TaskTypes
    <2>2. LogTypes' /\ DataTypes' /\ SyncerTypes' /\ TaskTypes'
      BY <1>2, <2>1 DEF EngineCrash, LogTypes, DataTypes, SyncerTypes, TaskTypes,
                        redisVars, kafkaVars, dbVars, workerVars
    <2>3. ActorTypes'
      BY <1>2, FinalizationAssumption, FS_EmptySet
         DEF EngineCrash, ActorTypes, kafkaVars, Runtimes, Defaults, AuctionTypes
    <2>4. QED
      BY <2>2, <2>3
  <1>3. CASE WorkerCrash
    <2>1. budget' \in 0..MaxFaults
      BY <1>3, BudgetType DEF WorkerCrash, TaskTypes
    <2>2. DataTypes' /\ ActorTypes' /\ TaskTypes'
      BY <1>3, <2>1 DEF WorkerCrash, DataTypes, ActorTypes, TaskTypes,
                        redisVars, kafkaVars, dbVars, engineVars
    <2>3. LogTypes'
      BY <1>3 DEF WorkerCrash, LogTypes, kafkaVars
    <2>4. SyncerTypes'
      BY <1>3, FinalizationAssumption
         DEF WorkerCrash, SyncerTypes, Syncers, SyncSteps, Idle, AuctionTypes, LogTypes, kafkaVars
    <2>5. QED
      BY <2>2, <2>3, <2>4
  <1>4. ASSUME NEW kind \in Foreign, ForeignRecord(kind) PROVE TypeInv'
    <2>1. LogTypes'
      BY <1>4, AppendTypes, FinalizationAssumption DEF ForeignRecord, workerVars
    <2>2. DataTypes' /\ ActorTypes' /\ SyncerTypes' /\ TaskTypes'
      BY <1>4 DEF ForeignRecord, DataTypes, ActorTypes, SyncerTypes, TaskTypes,
                  redisVars, dbVars, engineVars, workerVars
    <2>3. QED
      BY <2>1, <2>2
  <1>5. ASSUME NEW b \in Bids, Deliver(b) PROVE TypeInv'
    <2>1. Cardinality({b}) = 1
      BY FS_Singleton
    <2>2. ActorTypes'
      BY <1>5, <2>1 DEF Deliver, ActorTypes, kafkaVars
    <2>3. LogTypes' /\ DataTypes' /\ SyncerTypes' /\ TaskTypes'
      BY <1>5 DEF Deliver, LogTypes, DataTypes, SyncerTypes, TaskTypes,
                  redisVars, kafkaVars, dbVars, workerVars
    <2>4. QED
      BY <2>2, <2>3
  <1>6. CASE UNCHANGED vars
    BY <1>6 DEF vars, redisVars, kafkaVars, dbVars, engineVars, workerVars, LogTypes, DataTypes,
                ActorTypes, SyncerTypes, TaskTypes
  <1>7. QED
    BY <1>1, <1>2, <1>3, <1>4, <1>5, <1>6

\* The engine.
LEMMA EngineTypes ==
    ASSUME TypeInv, EngineStep
    PROVE  TypeInv'
  <1> USE DEF TypeInv
  <1>0. Cardinality({}) = 0 /\ \A rt : LoopTop(rt) \in {"drain", "select"}
    BY FS_EmptySet DEF LoopTop
  <1>1. CASE Load
    <2>1. Configured \in Runtimes /\ Defaults \in Runtimes
      BY FinalizationAssumption DEF Configured, Defaults, Runtimes, AuctionTypes
    <2>2. PICK rt \in Runtimes : runtime' = rt /\ engine' = LoopTop(rt)
      <3>1. PICK rt \in {Configured, Defaults}, bids \in {zset, {}} :
                runtime' = Seed(rt, bids) /\ engine' = LoopTop(runtime')
        BY <1>1 DEF Load
      <3>2. bids \in SUBSET Bids
        BY DEF DataTypes
      <3>3. QED
        BY <2>1, <3>1, <3>2, SeedType
    <2>3. ActorTypes'
      BY <1>0, <1>1, <2>2 DEF Load, ActorTypes, kafkaVars
    <2>4. budget' \in 0..MaxFaults
      BY <1>1, BudgetType DEF Load, TaskTypes
    <2>5. strayed' \in BOOLEAN
      BY <1>1 DEF Load
    <2>6. LogTypes' /\ DataTypes' /\ SyncerTypes' /\ TaskTypes'
      BY <1>1, <2>4, <2>5 DEF Load, LogTypes, DataTypes, SyncerTypes, TaskTypes,
                  redisVars, kafkaVars, dbVars, workerVars
    <2>7. QED
      BY <2>3, <2>6
  <1>2. CASE CloseTimer
    BY <1>2 DEF CloseTimer, LogTypes, DataTypes, ActorTypes, SyncerTypes, TaskTypes,
                redisVars, kafkaVars, dbVars, workerVars
  <1>3. CASE CloseRead
    <2>1. \A bids \in SUBSET Bids : WinnerOf(runtime.type, runtime.reserve, bids) \in Ids \cup {Nobody}
      BY WinnerType DEF ActorTypes, Runtimes
    <2>2. closing' \in [winner : Ids \cup {Nobody}, state : BOOLEAN] /\ engine' \in {"hset", "load"}
      <3>1. CASE UNCHANGED closing /\ engine' = "load"
        BY <3>1 DEF ActorTypes
      <3>2. CASE ~(UNCHANGED closing /\ engine' = "load")
        <4>1. PICK bids \in {zset, {}}, state \in {stateHash, FALSE} :
                 /\ closing' = [winner |-> WinnerOf(runtime.type, runtime.reserve, bids), state |-> state]
                 /\ engine' = "hset"
          BY <1>3, <3>2 DEF CloseRead, DataTypes
        <4>2. bids \in SUBSET Bids /\ state \in BOOLEAN
          BY DEF DataTypes
        <4>3. QED
          BY <2>1, <4>1, <4>2
      <3>3. QED
        BY <3>1, <3>2
    <2>3. inbox' = {} /\ backlog' \subseteq Bids /\ UNCHANGED runtime
      BY <1>3 DEF CloseRead, ActorTypes
    <2>4. ActorTypes'
      BY <1>0, <2>2, <2>3 DEF ActorTypes
    <2>5. budget' \in 0..MaxFaults
      BY <1>3, BudgetType DEF CloseRead, TaskTypes
    <2>6. LogTypes' /\ DataTypes' /\ SyncerTypes' /\ TaskTypes'
      BY <1>3, <2>5 DEF CloseRead, LogTypes, DataTypes, SyncerTypes, TaskTypes,
                  redisVars, dbVars, workerVars
    <2>7. QED
      BY <2>4, <2>6
  <1>4. CASE CloseState
    <2>1. DataTypes'
      BY <1>4 DEF CloseState, DataTypes, ActorTypes, dbVars
    <2>2. budget' \in 0..MaxFaults
      BY <1>4, BudgetType DEF CloseState, TaskTypes
    <2>3. LogTypes' /\ ActorTypes' /\ SyncerTypes' /\ TaskTypes'
      BY <1>4, <2>2 DEF CloseState, LogTypes, ActorTypes, SyncerTypes, TaskTypes, kafkaVars, workerVars
    <2>4. QED
      BY <2>1, <2>3
  <1>5. CASE CloseSync
    <2>1. budget' \in 0..MaxFaults
      BY <1>5, BudgetType DEF CloseSync, TaskTypes
    <2>2. LogTypes'
      <3>1. CASE UNCHANGED syncLog
        BY <1>5, <3>1 DEF CloseSync, LogTypes, workerVars
      <3>2. CASE Len(syncLog) < MaxSync /\ syncLog' = Append(syncLog, "this")
        BY <1>5, <3>2, AppendTypes DEF CloseSync, workerVars
      <3>3. QED
        BY <1>5, <3>1, <3>2 DEF CloseSync
    <2>3. ActorTypes'
      <3>1. /\ UNCHANGED <<backlog, runtime, closing>> /\ engine' \in {"absent", "load"}
            /\ inbox' = {} \/ inbox' = inbox
        BY <1>5 DEF CloseSync
      <3>2. inbox' \subseteq backlog' /\ Cardinality(inbox') <= 1
        <4>1. CASE inbox' = {}
          BY <1>0, <3>1, <4>1
        <4>2. CASE inbox' = inbox
          BY <3>1, <4>2 DEF ActorTypes
        <4>3. QED
          BY <3>1, <4>1, <4>2
      <3>3. QED
        BY <3>1, <3>2 DEF ActorTypes
    <2>4. DataTypes' /\ SyncerTypes' /\ TaskTypes'
      BY <1>5, <2>1 DEF CloseSync, DataTypes, SyncerTypes, TaskTypes, redisVars, dbVars, workerVars
    <2>5. QED
      BY <2>2, <2>3, <2>4
  <1>6. ASSUME NEW b \in Bids, Decide(b) PROVE TypeInv'
    <2>1. ActorTypes'
      BY <1>0, <1>6 DEF Decide, ActorTypes
    <2>2. LogTypes' /\ DataTypes' /\ SyncerTypes' /\ TaskTypes'
      BY <1>6 DEF Decide, LogTypes, DataTypes, SyncerTypes, TaskTypes, redisVars, dbVars, workerVars
    <2>3. QED
      BY <2>1, <2>2
  <1>7. ASSUME NEW b \in Bids, Accept(b) PROVE TypeInv'
    <2>1. b.amount \in Nat
      BY FinalizationAssumption
    <2>2. runtime' \in Runtimes
      BY <1>7, <2>1 DEF Accept, ActorTypes, Runtimes
    <2>3. ActorTypes'
      <3>1. backlog' \subseteq Bids /\ inbox' = {} /\ UNCHANGED closing /\ engine' \in {"drain", "select"}
        BY <1>0, <1>7 DEF Accept, ActorTypes
      <3>2. QED
        BY <1>0, <2>2, <3>1 DEF ActorTypes
    <2>4. LogTypes' /\ DataTypes' /\ SyncerTypes' /\ TaskTypes'
      BY <1>7 DEF Accept, LogTypes, DataTypes, SyncerTypes, TaskTypes, dbVars, workerVars
    <2>5. QED
      BY <2>3, <2>4
  <1>8. QED
    BY <1>1, <1>2, <1>3, <1>4, <1>5, <1>6, <1>7 DEF EngineStep

\* The sync worker's record after a change of its step and its locals.
LEMMA SyncerMoves ==
    ASSUME SyncerTypes, NEW step \in SyncSteps \ {"idle"}, syncer.step # "idle", UNCHANGED fetched,
           syncer' \in Syncers, syncer'.step = step, syncer'.at = syncer.at,
           syncer'.attempt <= MaxAttempts
    PROVE  SyncerTypes'
  BY DEF SyncerTypes

\* A failed attempt is counted.
LEMMA RetryTypes ==
    ASSUME SyncerTypes, syncer.step # "idle", Retry, UNCHANGED fetched
    PROVE  SyncerTypes'
  <1>1. syncer \in Syncers /\ syncer.attempt <= MaxAttempts /\ syncer.attempt \in Nat /\ MaxAttempts \in Nat
    BY FinalizationAssumption DEF SyncerTypes, Syncers
  <1>2. syncer' \in Syncers /\ syncer'.step \in {"config", "dlq"}
    BY <1>1, RetryShape
  <1>3. syncer'.at = syncer.at /\ syncer'.attempt <= MaxAttempts
    <2>1. CASE syncer.attempt >= MaxAttempts
      BY <1>1, <2>1 DEF Retry, Syncers
    <2>2. CASE ~(syncer.attempt >= MaxAttempts)
      <3>1. syncer' = [syncer EXCEPT !.step = "config", !.attempt = syncer.attempt + 1]
        BY <2>2 DEF Retry
      <3>2. syncer'.at = syncer.at /\ syncer'.attempt = syncer.attempt + 1
        BY <1>1, <3>1 DEF Syncers
      <3>3. QED
        BY <1>1, <2>2, <3>2
    <2>3. QED
      BY <2>1, <2>2
  <1>4. QED
    BY <1>2, <1>3, SyncerMoves DEF SyncSteps

\* The sync worker goes on to another step.
LEMMA ToTypes ==
    ASSUME SyncerTypes, syncer.step # "idle", NEW step \in SyncSteps \ {"idle"}, To(step),
           UNCHANGED fetched
    PROVE  SyncerTypes'
  <1>1. syncer' \in Syncers /\ syncer'.step = step /\ syncer'.at = syncer.at
        /\ syncer'.attempt = syncer.attempt
    BY DEF To, SyncerTypes, Syncers, SyncSteps
  <1>2. QED
    BY <1>1, SyncerMoves DEF SyncerTypes

\* The sync worker is done with its record.
LEMMA IdleTypes ==
    ASSUME syncer' = Idle, fetched' \in Nat
    PROVE  SyncerTypes'
  BY FinalizationAssumption DEF SyncerTypes, Syncers, SyncSteps, Idle, AuctionTypes

\* The record that is fetched.
LEMMA SyncFetchTypes ==
    ASSUME TypeInv, SyncFetch
    PROVE  SyncerTypes' /\ LogTypes'
  <1>1. /\ syncLog \in Seq({"this", "other", "bad"}) /\ Len(syncLog) \in Nat
        /\ fetched \in Nat /\ fetched + 1 \in 1..Len(syncLog) /\ syncCommitted \in 0..fetched
        /\ dlq \subseteq 1..Len(syncLog) /\ Len(syncLog) <= MaxSync
    BY DEF SyncFetch, TypeInv, LogTypes
  <1>2. /\ fetched' = fetched + 1 /\ UNCHANGED <<syncLog, syncCommitted, dlq>>
    BY DEF SyncFetch, syncUnchanged
  <1>3. LogTypes'
    BY <1>1, <1>2 DEF LogTypes
  <1>4. syncLog[fetched + 1] \in {"this", "other", "bad"}
    BY <1>1
  <1>5. PICK s \in {"config", "commit", "dlq"} :
            syncer' = [Idle EXCEPT !.at = fetched + 1, !.attempt = 1, !.step = s]
    BY <1>4 DEF SyncFetch
  <1>6. syncer' = [step |-> s, at |-> fetched + 1, attempt |-> 1, type |-> "REVERSE", reserve |-> 0, bids |-> {}]
    BY <1>5 DEF Idle
  <1>7. fetched + 1 \in Nat /\ fetched + 1 # 0 /\ fetched + 1 <= fetched' /\ 1 <= MaxAttempts
    BY <1>1, <1>2, FinalizationAssumption
  <1>8. syncer' \in Syncers /\ syncer'.at = fetched + 1 /\ syncer'.attempt = 1
    BY <1>6, <1>7 DEF Syncers, SyncSteps, AuctionTypes
  <1>9. SyncerTypes'
    BY <1>7, <1>8 DEF SyncerTypes
  <1>10. QED
    BY <1>3, <1>9

\* The sync worker.
LEMMA SyncTypes ==
    ASSUME TypeInv, SyncerStep
    PROVE  TypeInv'
  <1> USE DEF TypeInv
  <1>1. ActorTypes' /\ UNCHANGED <<stateKey, syncLog, sweeper, clock, accepted, late, strayed>>
    BY DEF SyncerStep, SyncFetch, SyncConfig, SyncRead, SyncUpdate, SyncInsert, SyncClean,
           SyncCommit, SyncDlq, syncUnchanged, engineVars, ActorTypes
  <1>2. TaskTypes'
    <2>1. NoFault \/ \E kind : Fault(kind)
      <3>1. CASE SyncFetch
        BY <3>1 DEF SyncFetch, NoFault
      <3>2. CASE ~SyncFetch
        BY <3>2 DEF SyncerStep, SyncConfig, SyncRead, SyncUpdate, SyncInsert, SyncClean,
                    SyncCommit, SyncDlq
      <3>3. QED
        BY <3>1, <3>2
    <2>2. budget' \in 0..MaxFaults
      BY <2>1, BudgetType DEF TaskTypes
    <2>3. QED
      BY <1>1, <2>2 DEF TaskTypes
  <1>3. syncer \in Syncers /\ syncer.at \in Nat /\ fetched \in Nat /\ Len(syncLog) \in Nat
    BY DEF SyncerTypes, Syncers, LogTypes
  <1>4. DataTypes'
    <2>1. syncer.type \in AuctionTypes /\ syncer.bids \in SUBSET Bids
      BY <1>3 DEF Syncers
    <2>2. CASE SyncUpdate
      <3>1. PICK winner \in Ids \cup {Nobody} : winner = WinnerOf(syncer.type, syncer.reserve, syncer.bids)
        BY <2>1, WinnerType
      <3>2. dbWinner' \in Ids \cup {Nobody} /\ status' \in {"ACTIVE", "COMPLETED"}
        BY <2>2, <3>1 DEF SyncUpdate, DataTypes
      <3>3. QED
        BY <1>1, <2>2, <3>2 DEF SyncUpdate, DataTypes
    <2>3. CASE SyncInsert
      BY <1>1, <2>1, <2>3 DEF SyncInsert, DataTypes
    <2>4. CASE SyncClean
      BY <1>1, <2>4 DEF SyncClean, DataTypes, dbVars
    <2>5. CASE SyncFetch \/ SyncConfig \/ SyncRead \/ SyncCommit \/ SyncDlq
      BY <1>1, <2>5 DEF SyncFetch, SyncConfig, SyncRead, SyncCommit, SyncDlq, DataTypes, dbVars
    <2>6. QED
      BY <2>2, <2>3, <2>4, <2>5 DEF SyncerStep
  <1>5. LogTypes'
    <2>1. CASE SyncFetch
      BY <2>1, SyncFetchTypes
    <2>2. CASE SyncCommit
      <3>1. syncCommitted' \in {syncCommitted, syncer.at} /\ UNCHANGED <<fetched, dlq>>
        BY <2>2 DEF SyncCommit
      <3>2. syncer.at \in 0..fetched
        BY <1>3 DEF SyncerTypes
      <3>3. QED
        BY <1>1, <3>1, <3>2 DEF LogTypes
    <2>3. CASE SyncDlq
      <3>1. dlq' = dlq \/ dlq' = dlq \cup {syncer.at}
        BY <2>3 DEF SyncDlq
      <3>2. syncer.at # 0 /\ syncer.at <= fetched /\ UNCHANGED <<fetched, syncCommitted>>
        BY <2>3 DEF SyncDlq, SyncerTypes
      <3>3. syncer.at \in 1..Len(syncLog)
        BY <1>3, <3>2 DEF LogTypes
      <3>4. QED
        BY <1>1, <3>1, <3>2, <3>3 DEF LogTypes
    <2>4. CASE SyncConfig \/ SyncRead \/ SyncUpdate \/ SyncInsert \/ SyncClean
      BY <1>1, <2>4 DEF SyncConfig, SyncRead, SyncUpdate, SyncInsert, SyncClean, LogTypes
    <2>5. QED
      BY <2>1, <2>2, <2>3, <2>4 DEF SyncerStep
  <1>6. SyncerTypes'
    <2>1. CASE SyncFetch
      BY <2>1, SyncFetchTypes
    <2>2. CASE Retry /\ syncer.step # "idle" /\ UNCHANGED fetched
      BY <2>2, RetryTypes
    <2>3. CASE syncer' = Idle /\ UNCHANGED fetched
      BY <1>3, <2>3, IdleTypes
    <2>4. ASSUME NEW s \in SyncSteps \ {"idle"}, To(s), syncer.step # "idle", UNCHANGED fetched
          PROVE  SyncerTypes'
      BY <2>4, ToTypes
    <2>5. CASE SyncConfig
      <3>1. UNCHANGED fetched /\ syncer.step # "idle"
        BY <2>5 DEF SyncConfig
      <3>2. ASSUME NEW t \in AuctionTypes, NEW r \in Nat,
                   syncer' = [syncer EXCEPT !.step = "read", !.type = t, !.reserve = r]
            PROVE  SyncerTypes'
        <4>1. syncer' \in Syncers /\ syncer'.step = "read" /\ syncer'.at = syncer.at
              /\ syncer'.attempt = syncer.attempt
          BY <1>3, <3>2 DEF Syncers, SyncSteps
        <4>2. QED
          BY <3>1, <4>1, SyncerMoves DEF SyncerTypes, SyncSteps
      <3>3. QED
        BY <2>2, <2>5, <3>1, <3>2, FinalizationAssumption DEF SyncConfig, AuctionTypes
    <2>6. CASE SyncRead
      <3>1. UNCHANGED fetched /\ syncer.step # "idle" /\ zset \in SUBSET Bids
        BY <2>6 DEF SyncRead, DataTypes
      <3>2. ASSUME syncer' = [syncer EXCEPT !.step = "update", !.bids = zset] PROVE SyncerTypes'
        <4>1. syncer' \in Syncers /\ syncer'.step = "update" /\ syncer'.at = syncer.at
              /\ syncer'.attempt = syncer.attempt
          BY <1>3, <3>1, <3>2 DEF Syncers, SyncSteps
        <4>2. QED
          BY <3>1, <4>1, SyncerMoves DEF SyncerTypes, SyncSteps
      <3>3. QED
        BY <2>2, <2>6, <3>1, <3>2 DEF SyncRead
    <2>7. CASE SyncUpdate \/ SyncInsert \/ SyncClean \/ SyncCommit \/ SyncDlq
      BY <2>2, <2>3, <2>4, <2>7 DEF SyncUpdate, SyncInsert, SyncClean, SyncCommit, SyncDlq, SyncSteps
    <2>8. QED
      BY <2>1, <2>5, <2>6, <2>7 DEF SyncerStep
  <1>7. QED
    BY <1>1, <1>2, <1>4, <1>5, <1>6

\* The sweeper.
LEMMA SweepTypes ==
    ASSUME TypeInv, SweeperStep
    PROVE  TypeInv'
  <1> USE DEF TypeInv
  <1>1. NoFault \/ \E kind : Fault(kind)
    BY DEF SweeperStep, SweepQuery, SweepPublish, SweepMark
  <1>2. budget' \in 0..MaxFaults
    BY <1>1, BudgetType DEF TaskTypes
  <1>3. TaskTypes'
    BY <1>2 DEF SweeperStep, SweepQuery, SweepPublish, SweepMark, sweepUnchanged, TaskTypes
  <1>4. DataTypes' /\ ActorTypes' /\ SyncerTypes'
    BY DEF SweeperStep, SweepQuery, SweepPublish, SweepMark, sweepUnchanged, DataTypes, ActorTypes,
           SyncerTypes, redisVars, engineVars
  <1>5. LogTypes'
    <2>1. UNCHANGED <<syncCommitted, fetched, dlq>>
      BY DEF SweeperStep, SweepQuery, SweepPublish, SweepMark, sweepUnchanged
    <2>2. UNCHANGED syncLog \/ (Len(syncLog) < MaxSync /\ syncLog' = Append(syncLog, "this"))
      BY DEF SweeperStep, SweepQuery, SweepPublish, SweepMark
    <2>3. CASE UNCHANGED syncLog
      BY <2>1, <2>3 DEF LogTypes
    <2>4. QED
      BY <2>1, <2>2, <2>3, AppendTypes
  <1>6. QED
    BY <1>3, <1>4, <1>5

\* TypeInv is inductive.
LEMMA TypesStep == TypeInv /\ [Next]_vars => TypeInv'
  BY EnvironmentTypes, EngineTypes, SyncTypes, SweepTypes DEF Next

\* Under faults of every kind, offsets never run past the records, an actor has
\* one task at most, and the sync worker counts its attempts up to the limit.
THEOREM TypeCorrect == Spec => []TypeOK
  BY TypesInit, TypesStep, TypesHold, PTL DEF Spec

-----------------------------------------------------------------------------
(* No accepted bid is lost *)

\* Steps that leave the book and the sync worker alone keep BookInv.
LEMMA BookFrame ==
    ASSUME BookInv, UNCHANGED <<zset, dbBids, accepted, late>>, ~strayed' => ~strayed,
           UNCHANGED syncer \/ syncer'.step \notin {"update", "insert", "clean"}
    PROVE  BookInv'
  BY DEF BookInv, NoAcceptedBidLost

\* BookInv is inductive, given the window.
LEMMA BookStep ==
    ASSUME TypeInv, ~strayed => WindowInv, BookInv, [Next]_vars
    PROVE  BookInv'
  <1>0. syncer \in Syncers /\ (~strayed' => ~strayed)
    BY StrayedStays DEF TypeInv, SyncerTypes
  <1>1. ASSUME Retry PROVE syncer'.step \notin {"update", "insert", "clean"}
    BY <1>0, <1>1, RetryShape
  <1>2. ASSUME NEW b \in Bids, Accept(b) PROVE BookInv'
    <2>1. ~strayed => syncer.step \notin OnLedger
      BY <1>2 DEF Accept, WindowInv, Closed, Accepting
    <2>2. /\ UNCHANGED <<syncer, strayed, dbBids>>
          /\ zset' = zset \cup {b} /\ accepted' = accepted \cup {b}
          /\ late' = IF syncer.step \in {"update", "insert", "clean"} THEN late \cup {b} ELSE late
      BY <1>2 DEF Accept, workerVars, dbVars
    <2>3. QED
      BY <2>1, <2>2 DEF BookInv, NoAcceptedBidLost, OnLedger
  <1>3. CASE SyncRead
    <2>1. CASE Retry
      BY <1>0, <1>1, <1>3, <2>1, BookFrame DEF SyncRead, syncUnchanged, dbVars
    <2>2. CASE ~Retry
      BY <1>0, <1>3, <2>2 DEF SyncRead, syncUnchanged, dbVars, BookInv, NoAcceptedBidLost, Syncers
    <2>3. QED
      BY <2>1, <2>2
  <1>4. CASE SyncUpdate
    <2>1. CASE Retry
      BY <1>0, <1>1, <1>4, <2>1, BookFrame DEF SyncUpdate, syncUnchanged
    <2>2. CASE ~Retry
      BY <1>0, <1>4, <2>2 DEF SyncUpdate, To, syncUnchanged, BookInv, NoAcceptedBidLost, Syncers
    <2>3. QED
      BY <2>1, <2>2
  <1>5. CASE SyncInsert
    <2>1. CASE Retry /\ UNCHANGED dbBids
      BY <1>0, <1>1, <1>5, <2>1, BookFrame DEF SyncInsert, syncUnchanged
    <2>2. CASE To("clean") /\ dbBids' = dbBids \cup syncer.bids
      BY <1>0, <1>5, <2>2 DEF SyncInsert, To, syncUnchanged, BookInv, NoAcceptedBidLost, Syncers
    <2>3. QED
      BY <1>5, <2>1, <2>2 DEF SyncInsert
  <1>6. CASE SyncClean
    BY <1>0, <1>6 DEF SyncClean, To, syncUnchanged, dbVars, BookInv, NoAcceptedBidLost, Syncers
  <1>7. CASE SyncConfig
    <2>1. CASE Retry
      BY <1>0, <1>1, <1>7, <2>1, BookFrame DEF SyncConfig, syncUnchanged, dbVars
    <2>2. CASE ~Retry
      BY <1>0, <1>7, <2>2, BookFrame DEF SyncConfig, syncUnchanged, dbVars, Syncers
    <2>3. QED
      BY <2>1, <2>2
  <1>8. CASE SyncFetch
    <2>1. PICK step \in {"config", "commit", "dlq"} :
            syncer' = [Idle EXCEPT !.at = fetched + 1, !.attempt = 1, !.step = step]
      <3>1. syncLog[fetched + 1] \in {"this", "other", "bad"}
        BY <1>8, LenProperties, ElementOfSeq DEF SyncFetch, TypeInv, LogTypes
      <3>2. QED
        BY <1>8, <3>1 DEF SyncFetch
    <2>2. syncer'.step = step
      BY <2>1 DEF Idle
    <2>3. QED
      BY <1>0, <1>8, <2>2, BookFrame DEF SyncFetch, syncUnchanged, dbVars
  <1>9. CASE SyncCommit \/ SyncDlq
    BY <1>0, <1>9, BookFrame DEF SyncCommit, SyncDlq, To, Idle, syncUnchanged, dbVars, Syncers
  <1>10. CASE WorkerCrash
    BY <1>0, <1>10, BookFrame DEF WorkerCrash, Idle, redisVars, dbVars
  <1>11. CASE \/ Tick \/ EngineCrash \/ SweeperStep \/ UNCHANGED vars
              \/ \E kind \in Foreign : ForeignRecord(kind)
              \/ \E b \in Bids : Deliver(b) \/ Decide(b)
              \/ Load \/ CloseTimer \/ CloseRead \/ CloseState \/ CloseSync
    <2>1. UNCHANGED <<zset, dbBids, accepted, late, syncer>>
      BY <1>11 DEF Tick, EngineCrash, SweeperStep, SweepQuery, SweepPublish, SweepMark,
         sweepUnchanged, ForeignRecord, Deliver, Decide, Load, CloseTimer, CloseRead, CloseState,
         CloseSync, vars, redisVars, dbVars, workerVars
    <2>2. QED
      BY <1>0, <2>1, BookFrame
  <1>12. QED
    BY <1>2, <1>3, <1>4, <1>5, <1>6, <1>7, <1>8, <1>9, <1>10, <1>11 DEF Next, EngineStep, SyncerStep

\* Under every number and mix of faults and every number of records, an accepted bid
\* is in Redis or in the bids table, unless it was accepted between the sync worker's
\* ZRANGE and its DEL; and none is accepted there before an actor did not know the end
\* of the auction or missed it.
THEOREM AcceptedBidsNeverLost == Spec => []NoAcceptedBidLost
  <1> DEFINE Inv == TypeInv /\ (~strayed => WindowInv) /\ BookInv
  <1>1. Init => Inv
    BY TypesInit, WindowInit DEF Init, BookInv, NoAcceptedBidLost, Idle
  <1>2. Inv /\ [Next]_vars => Inv'
    BY TypesStep, StrayedStays, WindowStep, BookStep
  <1>3. Inv => NoAcceptedBidLost
    BY DEF BookInv
  <1>4. QED
    BY <1>1, <1>2, <1>3, PTL DEF Spec

-----------------------------------------------------------------------------
(* The recorded outcome *)

\* A closed auction stays closed.
LEMMA ClosedStays ==
    ASSUME WindowInv, WindowInv', Closed, [Next]_vars
    PROVE  Closed'
  <1> USE DEF WindowInv, Closed, Accepting, ended
  <1>1. CASE Load
    BY <1>1 DEF Load, LoopTop
  <1>2. CASE \/ \E b \in Bids : Deliver(b) \/ Decide(b) \/ Accept(b)
             \/ CloseTimer \/ CloseRead \/ CloseState \/ CloseSync
    BY <1>2 DEF Deliver, Decide, Accept, CloseTimer, CloseRead, CloseState, CloseSync
  <1>3. CASE Tick \/ EngineCrash
    BY <1>3 DEF Tick, EngineCrash, engineVars
  <1>4. CASE \/ WorkerCrash \/ SweeperStep \/ SyncerStep \/ UNCHANGED vars
             \/ \E kind \in Foreign : ForeignRecord(kind)
    <2>1. UNCHANGED <<engine, clock>>
      BY <1>4 DEF WorkerCrash, SweeperStep, SyncerStep, ForeignRecord, SweepQuery, SweepPublish,
         SweepMark, sweepUnchanged, SyncFetch, SyncConfig, SyncRead, SyncUpdate, SyncInsert,
         SyncClean, SyncCommit, SyncDlq, syncUnchanged, vars, engineVars
    <2>2. QED
      BY <2>1
  <1>5. QED
    BY <1>1, <1>2, <1>3, <1>4 DEF Next, EngineStep

\* Steps that leave the book, the database and the sync worker's work alone.
LEMMA OutcomeFrame ==
    ASSUME OutcomeInv, UNCHANGED <<zset, dbBids, dbWinner, accepted>>, Closed => Closed',
           \/ UNCHANGED syncer
           \/ syncer'.step \notin {"read", "update", "insert", "clean"}
    PROVE  OutcomeInv'
  BY DEF OutcomeInv, Outcome, Done

\* The pass of the sync worker over the ledger.
LEMMA OutcomeSyncer ==
    ASSUME ConfigReadable, WindowInv, OutcomeInv, SyncerStep, Closed => Closed'
    PROVE  OutcomeInv'
  <1>0. syncer \in Syncers /\ accepted' = accepted /\ Outcome' = Outcome
    BY DEF WindowInv, Shapes, SyncerStep, SyncFetch, SyncConfig, SyncRead, SyncUpdate, SyncInsert,
           SyncClean, SyncCommit, SyncDlq, syncUnchanged, Outcome
  <1>1. ASSUME Retry PROVE syncer'.step \notin {"read", "update", "insert", "clean"}
    BY <1>0, <1>1, RetryShape
  <1>2. CASE SyncFetch
    <2>1. PICK step \in {"config", "commit", "dlq"} :
            syncer' = [Idle EXCEPT !.at = fetched + 1, !.attempt = 1, !.step = step]
      <3>1. syncLog[fetched + 1] \in {"this", "other", "bad"}
        BY <1>2, LenProperties, ElementOfSeq DEF SyncFetch, WindowInv, Shapes
      <3>2. QED
        BY <1>2, <3>1 DEF SyncFetch
    <2>2. syncer'.step = step
      BY <2>1 DEF Idle
    <2>3. QED
      BY <1>0, <1>2, <2>2, OutcomeFrame DEF SyncFetch, dbVars
  <1>3. CASE SyncConfig
    <2>1. UNCHANGED <<zset, dbBids, dbWinner>>
      BY <1>3 DEF SyncConfig, dbVars
    <2>2. CASE Retry
      BY <1>0, <1>1, <2>1, <2>2, OutcomeFrame
    <2>3. CASE ~Retry
      <3>1. syncer' = [syncer EXCEPT !.step = "read", !.type = AuctionType, !.reserve = Reserve]
        BY <1>3, <2>3 DEF SyncConfig, Fault, ConfigReadable
      <3>2. syncer'.step = "read" /\ syncer'.type = AuctionType /\ syncer'.reserve = Reserve
        BY <1>0, <3>1 DEF Syncers
      <3>3. QED
        BY <1>0, <2>1, <3>2 DEF OutcomeInv, Done
    <2>4. QED
      BY <2>2, <2>3
  <1>4. CASE SyncRead
    <2>1. UNCHANGED <<zset, dbBids, dbWinner>>
      BY <1>4 DEF SyncRead, dbVars
    <2>2. CASE Retry
      BY <1>0, <1>1, <2>1, <2>2, OutcomeFrame
    <2>3. CASE ~Retry
      <3>1. /\ syncer.step = "read" /\ syncer'.step = "update" /\ syncer'.bids = zset
            /\ syncer'.type = syncer.type /\ syncer'.reserve = syncer.reserve
        BY <1>0, <1>4, <2>3 DEF SyncRead, Syncers
      <3>2. QED
        BY <1>0, <2>1, <3>1 DEF OutcomeInv, Done
    <2>4. QED
      BY <2>2, <2>3
  <1>5. CASE SyncUpdate
    <2>1. UNCHANGED <<zset, dbBids>> /\ syncer.step = "update"
      BY <1>5 DEF SyncUpdate
    <2>2. CASE Retry /\ UNCHANGED dbWinner
      BY <1>0, <1>1, <2>1, <2>2, OutcomeFrame
    <2>3. CASE ~(Retry /\ UNCHANGED dbWinner)
      <3> DEFINE winner == WinnerOf(AuctionType, Reserve, syncer.bids)
      <3>1. /\ To("insert")
            /\ dbWinner' = IF winner = Nobody THEN dbWinner ELSE winner
        BY <1>5, <2>1, <2>3 DEF SyncUpdate, OutcomeInv
      <3>2. syncer'.step = "insert" /\ syncer'.bids = syncer.bids
        BY <1>0, <3>1 DEF To, Syncers
      <3>3. Closed'
        BY <2>1 DEF WindowInv, OnLedger
      <3>4. CASE syncer.bids = accepted
        <4>1. dbWinner' = Outcome
          BY <3>1, <3>4 DEF Outcome, OutcomeInv
        <4>2. QED
          BY <1>0, <2>1, <3>2, <3>3, <3>4, <4>1 DEF OutcomeInv, Done
      <3>5. CASE syncer.bids = {} /\ Done
        <4>1. dbWinner' = dbWinner
          BY <3>1, <3>5 DEF WinnerOf
        <4>2. QED
          BY <1>0, <2>1, <3>2, <3>3, <3>5, <4>1 DEF OutcomeInv, Done
      <3>6. QED
        BY <2>1, <3>4, <3>5 DEF OutcomeInv
    <2>4. QED
      BY <2>2, <2>3
  <1>6. CASE SyncInsert
    <2>1. UNCHANGED <<zset, dbWinner>> /\ syncer.step = "insert"
      BY <1>6 DEF SyncInsert
    <2>2. CASE Retry /\ UNCHANGED dbBids
      BY <1>0, <1>1, <2>1, <2>2, OutcomeFrame
    <2>3. CASE To("clean") /\ dbBids' = dbBids \cup syncer.bids
      <3>1. syncer'.step = "clean"
        BY <1>0, <2>3 DEF To, Syncers
      <3>2. dbBids' = accepted /\ dbWinner = Outcome
        BY <2>1, <2>3 DEF OutcomeInv, Done
      <3>3. Closed'
        BY <2>1 DEF WindowInv, OnLedger
      <3>4. QED
        BY <1>0, <2>1, <3>1, <3>2, <3>3 DEF OutcomeInv, Done
    <2>4. QED
      BY <1>6, <2>2, <2>3 DEF SyncInsert
  <1>7. CASE SyncClean
    <2>1. /\ Done /\ UNCHANGED <<dbBids, dbWinner>> /\ (zset' = zset \/ zset' = {})
          /\ To("commit")
      BY <1>7 DEF SyncClean, OutcomeInv, dbVars
    <2>2. syncer'.step = "commit"
      BY <1>0, <2>1 DEF To, Syncers
    <2>3. QED
      BY <1>0, <2>1, <2>2 DEF OutcomeInv, Done
  <1>8. CASE SyncCommit \/ SyncDlq
    <2>1. UNCHANGED <<zset, dbBids, dbWinner>>
      BY <1>8 DEF SyncCommit, SyncDlq, dbVars
    <2>2. syncer'.step \in {"idle", "commit"}
      BY <1>0, <1>8 DEF SyncCommit, SyncDlq, To, Idle, Syncers
    <2>3. QED
      BY <1>0, <2>1, <2>2, OutcomeFrame
  <1>9. QED
    BY <1>2, <1>3, <1>4, <1>5, <1>6, <1>7, <1>8 DEF SyncerStep

\* OutcomeInv is inductive, given the window.
LEMMA OutcomeStep ==
    ASSUME ConfigReadable, WindowInv, WindowInv', OutcomeInv, [Next]_vars
    PROVE  OutcomeInv'
  <1>0. Closed => Closed'
    BY ClosedStays
  <1>1. ASSUME NEW b \in Bids, Accept(b) PROVE OutcomeInv'
    <2>1. /\ ~Closed /\ syncer.step \notin OnLedger
          /\ UNCHANGED <<syncer, dbBids, dbWinner>>
          /\ zset' = zset \cup {b} /\ accepted' = accepted \cup {b}
      BY <1>1 DEF Accept, WindowInv, Closed, Accepting, workerVars, dbVars
    <2>2. dbWinner = Nobody /\ dbBids = {} /\ zset = accepted
      BY <2>1 DEF OutcomeInv, Done
    <2>3. QED
      BY <2>1, <2>2 DEF OutcomeInv, OnLedger
  <1>2. CASE SyncerStep
    BY <1>0, <1>2, OutcomeSyncer
  <1>3. CASE WorkerCrash
    BY <1>0, <1>3, OutcomeFrame DEF WorkerCrash, Idle, redisVars, dbVars
  <1>4. CASE \/ Tick \/ EngineCrash \/ SweeperStep \/ UNCHANGED vars
             \/ \E kind \in Foreign : ForeignRecord(kind)
             \/ \E b \in Bids : Deliver(b) \/ Decide(b)
             \/ Load \/ CloseTimer \/ CloseRead \/ CloseState \/ CloseSync
    <2>1. UNCHANGED <<zset, dbBids, dbWinner, accepted, syncer>>
      BY <1>4 DEF Tick, EngineCrash, SweeperStep, SweepQuery, SweepPublish, SweepMark,
         sweepUnchanged, ForeignRecord, Deliver, Decide, Load, CloseTimer, CloseRead, CloseState,
         CloseSync, vars, redisVars, dbVars, workerVars
    <2>2. QED
      BY <1>0, <2>1, OutcomeFrame
  <1>5. QED
    BY <1>1, <1>2, <1>3, <1>4 DEF Next, EngineStep

\* As long as the configuration can be read and no actor has missed the end of the
\* auction, a recorded winner is the best accepted bid that meets the reserve, and
\* bids in the table are all the accepted ones: replays after the cleanup, double
\* closes, crashes between the statements of the sync worker and exhausted retries
\* included.
THEOREM RecordedOutcomeIsFinal ==
    ASSUME ConfigReadable PROVE Spec => []FinalOutcome
  <1> DEFINE Inv == ~strayed => WindowInv /\ OutcomeInv
  <1>1. Init => Inv
    <2> SUFFICES ASSUME Init PROVE OutcomeInv
      BY WindowInit
    <2>1. Outcome = Nobody
      BY DEF Init, Outcome, WinnerOf
    <2>2. QED
      BY <2>1 DEF Init, OutcomeInv, Done, Idle
  <1>2. Inv /\ [Next]_vars => Inv'
    BY StrayedStays, WindowStep, OutcomeStep
  <1>3. Inv => FinalOutcome
    BY DEF OutcomeInv, Done, FinalOutcome, Outcome
  <1>4. QED
    BY <1>1, <1>2, <1>3, PTL DEF Spec
=============================================================================
