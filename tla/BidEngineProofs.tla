--------------------------- MODULE BidEngineProofs ---------------------------
(***************************************************************************)
(* Theorems about BidEngine, for every value of its constants:             *)
(*                                                                         *)
(*   Part 1  its types, and the hand-shake between worker and actor;       *)
(*   Part 2  no bid is lost, none is accepted twice and no decision is     *)
(*           dropped, under faults of every kind;                          *)
(*   Part 3  the engine implements the sequential book of AuctionLedger.   *)
(*                                                                         *)
(* In part 2, NoBidLost speaks of the committed offset only.  It is        *)
(* inductive once we know, for every engine, why committing its next       *)
(* record is safe: each record before the one a worker holds, a queued one *)
(* or a retried commit is settled, unless it is still ahead of it in the   *)
(* same engine.                                                            *)
(*                                                                         *)
(* Part 3 excludes four kinds of fault: with each of them an actor decides *)
(* from a price that is not the ledger's (a second owner, a reply that is  *)
(* lost, a read whose error is swallowed, an auction without its state).   *)
(***************************************************************************)
EXTENDS BidEngine, SequenceTheorems, WellFoundedInduction, TLAPS

-----------------------------------------------------------------------------
(* Part 1: operators *)

\* A non-empty set of naturals has a least element.
LEMMA LeastNat ==
    ASSUME NEW T, T \subseteq Nat, T # {}
    PROVE  \E x \in T : \A y \in T : x <= y
<1>1. \E x \in T : \A y \in T : ~(<<y, x>> \in OpToRel(<, Nat))
  BY NatLessThanWellFounded, WFMin
<1>2. \A x, y \in T : ~(<<y, x>> \in OpToRel(<, Nat)) => x <= y
  BY DEF OpToRel
<1> QED BY <1>1, <1>2

\* ZRANGE / ZREVRANGE 0 0 returns a member of the sorted set that ranks first.
LEMMA BestBidProperties ==
    ASSUME NEW type \in AuctionTypes, NEW bids, bids # {},
           \A d \in bids : d.amount \in Nat /\ d.amount <= MaxPrice
    PROVE  /\ BestBid(type, bids) \in bids
           /\ \A x \in bids : RanksFirst(type, BestBid(type, bids).amount, x.amount)
<1> USE ConstantsAssumption
<1>1. \E d \in bids : \A x \in bids : RanksFirst(type, d.amount, x.amount)
  <2>1. CASE type = "REVERSE"
    <3> DEFINE T == {d.amount : d \in bids}
    <3>1. T \subseteq Nat /\ T # {}
      OBVIOUS
    <3>2. \E a \in T : \A b \in T : a <= b
      BY <3>1, LeastNat
    <3> QED BY <3>2, <2>1 DEF RanksFirst
  <2>2. CASE type = "FORWARD"
    <3> DEFINE T == {MaxPrice - d.amount : d \in bids}
    <3>1. T \subseteq Nat /\ T # {}
      OBVIOUS
    <3>2. \E a \in T : \A b \in T : a <= b
      BY <3>1, LeastNat
    <3>3. PICK d \in bids : \A b \in T : MaxPrice - d.amount <= b
      BY <3>2
    <3>4. \A x \in bids : MaxPrice - d.amount <= MaxPrice - x.amount
      BY <3>3
    <3> QED BY <3>4, <2>2 DEF RanksFirst
  <2> QED BY <2>1, <2>2 DEF AuctionTypes
<1> QED BY <1>1 DEF BestBid

-----------------------------------------------------------------------------
(* Types and the one outstanding task                                      *)
(*                                                                         *)
(* TypeOK alone is not inductive: a decision is built from the record the  *)
(* actor works on, which exists because of OneTaskOutstanding.             *)

TypeInv == TypeOK /\ OneTaskOutstanding

\* The initial state has its types.
LEMMA InitTypes == Init => TypeInv
<1> SUFFICES ASSUME Init PROVE TypeInv
  OBVIOUS
<1> USE ConstantsAssumption DEF Init
<1>1. KafkaTypes
  <2>1. log \in Seq(Bids) /\ Len(log) = 0
    OBVIOUS
  <2>2. committed \in 0 .. Len(log) /\ Len(log) <= MaxLog
    BY <2>1
  <2> QED BY <2>1, <2>2 DEF KafkaTypes
<1>2. RedisTypes
  BY DEF RedisTypes
<1>7. EnvTypes
  BY DEF EnvTypes
<1>3. WorkerTypes
  BY DEF WorkerTypes, WorkerSteps
<1>4. ActorTypes
  BY DEF ActorTypes, ActorSteps, Runtime, Defaults, AuctionTypes
<1>5. PublisherTypes
  BY DEF PublisherTypes, PublisherSteps
<1>6. OneTaskOutstanding
  BY DEF OneTaskOutstanding, Working
<1> QED BY <1>1, <1>2, <1>3, <1>4, <1>5, <1>6, <1>7 DEF TypeInv, TypeOK

\* A bid is appended: all positions stay within the longer log.
LEMMA IngestTypes ==
    ASSUME TypeInv, NEW b \in Bids, IngestBid(b)
    PROVE  TypeInv'
<1> USE DEF TypeInv, TypeOK, IngestBid
<1>1. /\ log' \in Seq(Bids) /\ Len(log') = Len(log) + 1 /\ Len(log) \in Nat
      /\ Len(log') <= MaxLog
  BY ConstantsAssumption, AppendProperties DEF KafkaTypes
<1>2. KafkaTypes'
  BY <1>1 DEF KafkaTypes
<1>3. RedisTypes' /\ PublisherTypes' /\ EnvTypes'
  BY DEF RedisTypes, redisVars, PublisherTypes, pubVars, EnvTypes, envVars
<1>4. \A q \in Seq(1 .. Len(log)) : q \in Seq(1 .. Len(log'))
  <2>1. 1 .. Len(log) \subseteq 1 .. Len(log')
    BY <1>1
  <2> QED BY <2>1, SeqMonotonic
<1>5. WorkerTypes'
  BY <1>1, <1>4 DEF WorkerTypes, workerVars
<1>6. ActorTypes'
  BY <1>1, <1>4 DEF ActorTypes, actorVars
<1>7. OneTaskOutstanding'
  BY <1>1 DEF OneTaskOutstanding, Working, workerVars, actorVars
<1> QED BY <1>2, <1>3, <1>5, <1>6, <1>7

\* The end time passes, or the scheduler hydrates Redis.
LEMMA EnvironmentTypes ==
    ASSUME TypeInv, EndTimePasses \/ Hydrate
    PROVE  TypeInv'
<1> USE DEF TypeInv, TypeOK, EndTimePasses, Hydrate
<1>1. KafkaTypes' /\ RedisTypes' /\ EnvTypes'
  BY DEF KafkaTypes, kafkaVars, RedisTypes, redisVars, EnvTypes, envVars
<1>2. WorkerTypes' /\ ActorTypes' /\ PublisherTypes'
  BY DEF WorkerTypes, workerVars, ActorTypes, actorVars, PublisherTypes, pubVars, kafkaVars
<1>3. OneTaskOutstanding'
  BY DEF OneTaskOutstanding, Working, kafkaVars, workerVars, actorVars
<1> QED BY <1>1, <1>2, <1>3

\* The partition is assigned.
LEMMA AssignTypes ==
    ASSUME TypeInv, NEW e \in Engines, Assign(e)
    PROVE  TypeInv'
<1> USE DEF TypeInv, TypeOK, Assign, Fault, NoFault
<1>1. KafkaTypes' /\ WorkerTypes'
  BY DEF KafkaTypes, WorkerTypes
<1>2. RedisTypes' /\ ActorTypes' /\ PublisherTypes'
  BY DEF RedisTypes, redisVars, ActorTypes, actorVars, PublisherTypes, pubVars
<1>3. EnvTypes'
  BY ConstantsAssumption DEF EnvTypes
<1>4. OneTaskOutstanding'
  BY DEF OneTaskOutstanding, Working, actorVars
<1> QED BY <1>1, <1>2, <1>3, <1>4

\* A process dies with the task its worker waited for.
LEMMA CrashTypes ==
    ASSUME TypeInv, NEW e \in Engines, Crash(e)
    PROVE  TypeInv'
<1> USE DEF TypeInv, TypeOK, Crash, Fault
<1>1. KafkaTypes' /\ RedisTypes' /\ EnvTypes'
  BY DEF KafkaTypes, RedisTypes, redisVars, EnvTypes
<1>2. WorkerTypes'
  BY DEF WorkerTypes, WorkerSteps, KafkaTypes
<1>3. ActorTypes'
  <2>1. Defaults \in Runtime
    BY ConstantsAssumption DEF Runtime, Defaults, AuctionTypes
  <2>2. Len(log) \in Nat /\ log' = log
    BY DEF KafkaTypes
  <2> QED BY <2>1, <2>2 DEF ActorTypes, ActorSteps
<1>4. PublisherTypes'
  BY DEF PublisherTypes, PublisherSteps
<1>5. OneTaskOutstanding'
  BY DEF OneTaskOutstanding, Working, WorkerTypes, ActorTypes
<1> QED BY <1>1, <1>2, <1>3, <1>4, <1>5

\* A record is fetched.
LEMMA FetchTypes ==
    ASSUME TypeInv, NEW e \in Engines, Fetch(e)
    PROVE  TypeInv'
<1> USE DEF TypeInv, TypeOK, Fetch
<1>1. Len(log) \in Nat /\ position[e] + 1 \in 1 .. Len(log)
  BY DEF KafkaTypes, WorkerTypes
<1>2. Append(queue[e], position[e] + 1) \in Seq(1 .. Len(log))
  BY <1>1, AppendProperties DEF WorkerTypes
<1>3. WorkerTypes'
  BY <1>1, <1>2 DEF WorkerTypes, kafkaVars
<1>4. KafkaTypes' /\ RedisTypes' /\ ActorTypes' /\ PublisherTypes' /\ EnvTypes'
  BY DEF KafkaTypes, kafkaVars, RedisTypes, redisVars, ActorTypes, actorVars,
         PublisherTypes, pubVars, EnvTypes, envVars
<1>5. OneTaskOutstanding'
  BY DEF OneTaskOutstanding, Working, kafkaVars, actorVars
<1> QED BY <1>3, <1>4, <1>5

\* The worker takes a record from its queue.
LEMMA WorkerRecvTypes ==
    ASSUME TypeInv, NEW e \in Engines, WorkerRecv(e)
    PROVE  TypeInv'
<1> USE DEF TypeInv, TypeOK, WorkerRecv
<1>1. Head(queue[e]) \in 1 .. Len(log) /\ Tail(queue[e]) \in Seq(1 .. Len(log))
  BY HeadTailProperties DEF WorkerTypes
<1>2. WorkerTypes'
  BY <1>1 DEF WorkerTypes, WorkerSteps, kafkaVars
<1>3. KafkaTypes' /\ RedisTypes' /\ ActorTypes' /\ PublisherTypes' /\ EnvTypes'
  BY DEF KafkaTypes, kafkaVars, RedisTypes, redisVars, ActorTypes, actorVars,
         PublisherTypes, pubVars, EnvTypes, envVars
<1>4. OneTaskOutstanding'
  BY <1>1 DEF OneTaskOutstanding, Working, WorkerTypes, WorkerSteps, kafkaVars, actorVars
<1> QED BY <1>2, <1>3, <1>4

\* The worker sends its record, and waits.
LEMMA WorkerSendTypes ==
    ASSUME TypeInv, NEW e \in Engines, WorkerSend(e)
    PROVE  TypeInv'
<1> USE DEF TypeInv, TypeOK, WorkerSend, get_or_create
<1>1. worker[e].at \in 1 .. Len(log) /\ <<worker[e].at>> \in Seq(1 .. Len(log))
  BY DEF OneTaskOutstanding
<1>2. WorkerTypes'
  BY DEF WorkerTypes, WorkerSteps, kafkaVars
<1>3. ActorTypes'
  BY <1>1 DEF ActorTypes, ActorSteps, kafkaVars
<1>4. PublisherTypes'
  BY DEF PublisherTypes, PublisherSteps
<1>5. KafkaTypes' /\ RedisTypes' /\ EnvTypes'
  BY DEF KafkaTypes, kafkaVars, RedisTypes, redisVars, EnvTypes, envVars
<1>6. OneTaskOutstanding'
  BY <1>1 DEF OneTaskOutstanding, Working, WorkerTypes, ActorTypes, kafkaVars
<1> QED BY <1>2, <1>3, <1>4, <1>5, <1>6

\* A record is dead-lettered.
LEMMA DeadLetterTypes ==
    ASSUME TypeInv, NEW e \in Engines, DeadLetter(e)
    PROVE  TypeInv'
<1> USE DEF TypeInv, TypeOK, DeadLetter
<1>1. worker[e].at \in 1 .. Len(log)
  BY DEF OneTaskOutstanding
<1>2. KafkaTypes'
  BY <1>1, ConstantsAssumption DEF KafkaTypes, Positions
<1>3. WorkerTypes'
  BY DEF WorkerTypes, WorkerSteps
<1>4. RedisTypes' /\ ActorTypes' /\ PublisherTypes' /\ EnvTypes'
  BY DEF RedisTypes, redisVars, ActorTypes, actorVars, PublisherTypes, pubVars, EnvTypes, envVars
<1>5. OneTaskOutstanding'
  BY <1>1 DEF OneTaskOutstanding, Working, WorkerTypes, actorVars
<1> QED BY <1>2, <1>3, <1>4, <1>5

\* An offset is committed, lost or handed to the retry task.
LEMMA CommitTypes ==
    ASSUME TypeInv, NEW e \in Engines, Commit(e)
    PROVE  TypeInv'
<1> USE DEF TypeInv, TypeOK, Commit, Fault, NoFault
<1>1. worker[e].at \in 1 .. Len(log)
  BY DEF OneTaskOutstanding
<1>2. KafkaTypes' /\ EnvTypes'
  BY <1>1 DEF KafkaTypes, EnvTypes
<1>3. Append(retries[e], worker[e].at) \in Seq(1 .. Len(log))
  BY <1>1, AppendProperties DEF WorkerTypes
<1>4. WorkerTypes'
  <2>1. Len(log) \in Nat /\ log' = log
    BY DEF KafkaTypes
  <2>2. retries' \in [Engines -> Seq(1 .. Len(log))]
    BY <1>3 DEF WorkerTypes
  <2>3. worker' \in [Engines -> [step : WorkerSteps, at : 0 .. Len(log)]]
    BY <2>1 DEF WorkerTypes, WorkerSteps
  <2> QED BY <2>1, <2>2, <2>3 DEF WorkerTypes
<1>5. RedisTypes' /\ ActorTypes' /\ PublisherTypes'
  BY DEF RedisTypes, redisVars, ActorTypes, actorVars, PublisherTypes, pubVars
<1>6. OneTaskOutstanding'
  BY <1>1 DEF OneTaskOutstanding, Working, WorkerTypes, actorVars
<1> QED BY <1>2, <1>4, <1>5, <1>6

\* A commit is retried.
LEMMA RetryCommitTypes ==
    ASSUME TypeInv, NEW e \in Engines, RetryCommit(e)
    PROVE  TypeInv'
<1> USE DEF TypeInv, TypeOK, RetryCommit, Fault, NoFault
<1>1. Head(retries[e]) \in 1 .. Len(log) /\ Tail(retries[e]) \in Seq(1 .. Len(log))
  BY HeadTailProperties DEF WorkerTypes
<1>2. KafkaTypes' /\ EnvTypes'
  BY <1>1 DEF KafkaTypes, EnvTypes
<1>3. WorkerTypes'
  BY <1>1 DEF WorkerTypes
<1>4. RedisTypes' /\ ActorTypes' /\ PublisherTypes'
  BY DEF RedisTypes, redisVars, ActorTypes, actorVars, PublisherTypes, pubVars
<1>5. OneTaskOutstanding'
  BY DEF OneTaskOutstanding, Working, actorVars
<1> QED BY <1>2, <1>3, <1>4, <1>5

\* An answer of the actor: the worker goes on, and the actor is without a task.
LEMMA ReplyTypes ==
    ASSUME TypeInv, NEW e \in Engines, NEW r \in {"Committed", "Rejected", "Retryable"},
           Working(e), Reply(e, r), UNCHANGED <<log, position, queue, retries, inbox>>
    PROVE  /\ WorkerTypes' /\ OneTaskOutstanding'
           /\ inbox' \in [Engines -> Seq(1 .. Len(log'))]
           /\ actor' \in [Engines -> ActorSteps]
           /\ task' \in [Engines -> 0 .. Len(log')]
<1> USE DEF TypeInv, TypeOK, Reply
<1>1. LoopTop(runtime[e]) \in {"drain", "select"} /\ AfterReply(r) \in {"commit", "dead", "send"}
  BY DEF LoopTop, AfterReply
<1>2. Len(log) \in Nat
  BY DEF KafkaTypes
<1>3. WorkerTypes'
  BY <1>1 DEF WorkerTypes, WorkerSteps
<1>4. actor' \in [Engines -> ActorSteps] /\ task' \in [Engines -> 0 .. Len(log')]
  BY <1>1, <1>2 DEF ActorTypes, ActorSteps
<1>5. OneTaskOutstanding'
  BY <1>1 DEF OneTaskOutstanding, Working, WorkerTypes, ActorTypes
<1> QED BY <1>3, <1>4, <1>5 DEF ActorTypes

\* write_bid's payload for the task of a working actor.
LEMMA DecisionOfType ==
    ASSUME TypeInv, NEW e \in Engines, NEW x \in BOOLEAN, Working(e)
    PROVE  DecisionOf(e, x) \in Decision
<1> USE DEF TypeInv, TypeOK
<1>1. task[e] \in 1 .. Len(log)
  BY DEF OneTaskOutstanding, Working
<1>2. log[task[e]] \in Bids /\ task[e] \in Positions
  BY <1>1, ConstantsAssumption DEF KafkaTypes, Positions
<1>3. runtime[e].price \in Nat
  BY DEF ActorTypes, Runtime
<1> QED BY <1>2, <1>3 DEF DecisionOf, Decision, RequestIds, Amounts

\* Bid amounts are finite: the price of an actor without state is beyond all.
LEMMA DecisionAmounts ==
    ASSUME NEW bids \in SUBSET Decision
    PROVE  \A d \in bids : d.amount \in Nat /\ d.amount <= MaxPrice
  BY ConstantsAssumption DEF Decision, Amounts

\* load_runtime yields a runtime, whatever bids it finds.
LEMMA SeedType ==
    ASSUME NEW rt \in Runtime, NEW bids \in SUBSET Decision
    PROVE  Seed(rt, bids) \in Runtime
<1>1. CASE bids = {}
  BY <1>1 DEF Seed
<1>2. CASE bids # {}
  <2>1. rt.type \in AuctionTypes
    BY DEF Runtime
  <2>2. BestBid(rt.type, bids) \in bids
    BY <1>2, <2>1, DecisionAmounts, BestBidProperties
  <2>3. BestBid(rt.type, bids).amount \in Nat
    BY <2>2, DecisionAmounts
  <2> QED BY <1>2, <2>3 DEF Seed, Runtime
<1> QED BY <1>1, <1>2

\* A winner is the bidder of one of the bids, or nobody.
LEMMA WinnerOfType ==
    ASSUME NEW rt \in Runtime, NEW bids \in SUBSET Decision
    PROVE  WinnerOf(rt, bids) \in RequestIds \cup {Nobody}
<1>1. CASE bids = {}
  BY <1>1 DEF WinnerOf
<1>2. CASE bids # {}
  <2>1. rt.type \in AuctionTypes
    BY DEF Runtime
  <2>2. BestBid(rt.type, bids) \in bids
    BY <1>2, <2>1, DecisionAmounts, BestBidProperties
  <2> QED BY <1>2, <2>2 DEF WinnerOf, Decision
<1> QED BY <1>1, <1>2

\* A panicking actor keeps its inbox.
LEMMA PanicTypes ==
    ASSUME TypeInv, NEW e \in Engines, Panic(e), ~Working(e), actor[e] # "absent",
           UNCHANGED <<log, inbox, task, winner, worker>>, runtime' \in [Engines -> Runtime]
    PROVE  ActorTypes' /\ PublisherTypes' /\ OneTaskOutstanding'
<1> USE DEF TypeInv, TypeOK, Panic
<1>1. ActorTypes'
  BY DEF ActorTypes, ActorSteps
<1>2. PublisherTypes'
  BY DEF PublisherTypes, PublisherSteps
<1>3. OneTaskOutstanding'
  BY DEF OneTaskOutstanding, Working, ActorTypes
<1> QED BY <1>1, <1>2, <1>3

\* Faults are taken from the budget.
LEMMA FaultTypes ==
    ASSUME EnvTypes, NEW k, Fault(k) \/ NoFault, announced' \subseteq RequestIds \cup {Nobody},
           UNCHANGED ended
    PROVE  EnvTypes'
  BY DEF EnvTypes, Fault, NoFault

\* XADD appends a decision.
LEMMA XaddTypes ==
    ASSUME RedisTypes, NEW d \in Decision, Xadd(d)
    PROVE  pending' \subseteq Entry /\ lastSid' \in Nat
  BY DEF RedisTypes, Xadd, Entry

\* The Lua script writes decisions.
LEMMA AcceptScriptTypes ==
    ASSUME RedisTypes, NEW d \in Decision, AcceptScript(d)
    PROVE  RedisTypes'
<1>1. CASE Stored(d.id) # {}
  BY <1>1 DEF RedisTypes, AcceptScript
<1>2. CASE Stored(d.id) = {}
  <2>1. pending' \subseteq Entry /\ lastSid' \in Nat
    BY <1>2, XaddTypes DEF AcceptScript
  <2>2. ledger' \in Seq(Decision)
    BY <1>2, AppendProperties DEF RedisTypes, AcceptScript
  <2> QED BY <1>2, <2>1, <2>2 DEF RedisTypes, AcceptScript
<1> QED BY <1>1, <1>2

\* The actor restores its state.
LEMMA LoadRuntimeTypes ==
    ASSUME TypeInv, NEW e \in Engines, LoadRuntime(e)
    PROVE  TypeInv'
<1> USE DEF TypeInv, TypeOK, LoadRuntime
<1>1. KafkaTypes' /\ RedisTypes' /\ WorkerTypes' /\ UNCHANGED <<log, worker, inbox, task, winner>>
  BY DEF KafkaTypes, kafkaVars, RedisTypes, redisVars, WorkerTypes, workerVars
<1>2. EnvTypes'
  BY FaultTypes DEF EnvTypes
<1>3. ~Working(e) /\ actor[e] # "absent"
  BY DEF Working
<1>4. CASE Panic(e) /\ UNCHANGED runtime
  BY <1>1, <1>2, <1>3, <1>4, PanicTypes DEF ActorTypes
<1>5. ASSUME NEW stateRead \in BOOLEAN, NEW bidsRead \in BOOLEAN, NEW rt,
             rt = Seed(IF stateRead /\ hydrated THEN Configured ELSE Defaults,
                       IF bidsRead THEN zset ELSE {}),
             runtime' = [runtime EXCEPT ![e] = rt],
             actor' = [actor EXCEPT ![e] = LoopTop(rt)],
             UNCHANGED pubVars
      PROVE  TypeInv'
  <2>1. Configured \in Runtime /\ Defaults \in Runtime
    BY ConstantsAssumption DEF Configured, Defaults, Runtime, AuctionTypes
  <2>2. rt \in Runtime
    BY <1>5, <2>1, SeedType DEF RedisTypes
  <2>3. LoopTop(rt) \in {"drain", "select"}
    BY DEF LoopTop
  <2>4. ActorTypes'
    BY <1>1, <1>5, <2>2, <2>3 DEF ActorTypes, ActorSteps
  <2>5. PublisherTypes'
    BY <1>5 DEF PublisherTypes, pubVars
  <2>6. OneTaskOutstanding'
    BY <1>1, <1>3, <1>5, <2>3 DEF OneTaskOutstanding, Working, ActorTypes
  <2> QED BY <1>1, <1>2, <2>4, <2>5, <2>6
<1> QED BY <1>4, <1>5

\* The actor takes the task from its inbox.
LEMMA ActorRecvTypes ==
    ASSUME TypeInv, NEW e \in Engines, ActorRecv(e)
    PROVE  TypeInv'
<1> USE DEF TypeInv, TypeOK, ActorRecv
<1>1. inbox[e] = <<worker[e].at>> /\ Head(inbox[e]) = worker[e].at /\ worker[e].step = "wait"
  BY DEF OneTaskOutstanding
<1>2. worker[e].at \in 1 .. Len(log)
  BY <1>1 DEF OneTaskOutstanding
<1>3. ActorTypes'
  BY <1>1, <1>2 DEF ActorTypes, ActorSteps, kafkaVars
<1>4. KafkaTypes' /\ RedisTypes' /\ WorkerTypes' /\ PublisherTypes' /\ EnvTypes'
  BY DEF KafkaTypes, kafkaVars, RedisTypes, redisVars, WorkerTypes, workerVars,
         PublisherTypes, pubVars, EnvTypes, envVars
<1>5. OneTaskOutstanding'
  BY <1>1, <1>2 DEF OneTaskOutstanding, Working, ActorTypes, kafkaVars, workerVars
<1> QED BY <1>3, <1>4, <1>5

\* The actor writes an accepted bid and answers.
LEMMA RunScriptTypes ==
    ASSUME TypeInv, NEW e \in Engines, RunScript(e)
    PROVE  TypeInv'
<1> USE DEF TypeInv, TypeOK, RunScript
<1> DEFINE d == DecisionOf(e, TRUE)
<1>1. Working(e) /\ d \in Decision
  BY DecisionOfType DEF Working
<1> HIDE DEF d
<1>2. d.amount \in Nat
  BY <1>1, ConstantsAssumption DEF Decision, Amounts
<1>3. KafkaTypes' /\ UNCHANGED <<log, position, queue, retries, inbox, winner>>
  BY DEF KafkaTypes, kafkaVars
<1>4. EnvTypes'
  BY FaultTypes DEF EnvTypes
<1>5. Reply(e, "Committed") \/ Reply(e, "Retryable")
  OBVIOUS
<1>6. RedisTypes'
  <2>1. AcceptScript(d) \/ UNCHANGED redisVars
    BY DEF d
  <2> QED BY <1>1, <2>1, AcceptScriptTypes DEF RedisTypes, redisVars
<1>7. runtime' \in [Engines -> Runtime] /\ PublisherTypes'
  <2>1. \/ runtime' = [runtime EXCEPT ![e].price = d.amount] /\ permit' = [permit EXCEPT ![e] = TRUE]
        \/ UNCHANGED <<runtime, permit>>
    BY DEF d
  <2>2. runtime' \in [Engines -> Runtime]
    <3>1. runtime[e] \in Runtime
      BY DEF ActorTypes
    <3>2. [runtime[e] EXCEPT !.price = d.amount] \in Runtime
      BY <1>2, <3>1 DEF Runtime
    <3> QED BY <2>1, <3>2 DEF ActorTypes
  <2>3. PublisherTypes'
    BY <2>1 DEF PublisherTypes
  <2> QED BY <2>2, <2>3
<1> QED BY <1>1, <1>3, <1>4, <1>5, <1>6, <1>7, ReplyTypes DEF ActorTypes

\* The actor looks the stored decision up.
LEMMA GetProcessedTypes ==
    ASSUME TypeInv, NEW e \in Engines, GetProcessed(e)
    PROVE  TypeInv'
<1> USE DEF TypeInv, TypeOK, GetProcessed
<1>1. Working(e)
  BY DEF Working
<1>2. /\ KafkaTypes' /\ RedisTypes' /\ PublisherTypes'
      /\ UNCHANGED <<log, position, queue, retries, inbox, runtime, winner>>
  BY DEF KafkaTypes, kafkaVars, RedisTypes, redisVars, PublisherTypes, pubVars
<1>3. EnvTypes'
  BY FaultTypes DEF EnvTypes
<1>4. CASE Reply(e, "Retryable")
  BY <1>1, <1>2, <1>3, <1>4, ReplyTypes DEF ActorTypes
<1>5. CASE /\ \E s \in {"replay", "reject"} : actor' = [actor EXCEPT ![e] = s]
           /\ UNCHANGED <<worker, task>>
  <2>1. WorkerTypes' /\ ActorTypes'
    BY <1>2, <1>5 DEF WorkerTypes, ActorTypes, ActorSteps
  <2>2. OneTaskOutstanding'
    BY <1>1, <1>2, <1>5 DEF OneTaskOutstanding, Working, ActorTypes
  <2> QED BY <1>2, <1>3, <2>1, <2>2
<1> QED BY <1>4, <1>5

\* The actor repeats a stored decision and answers.
LEMMA XaddReplayTypes ==
    ASSUME TypeInv, NEW e \in Engines, XaddReplay(e)
    PROVE  TypeInv'
<1> USE DEF TypeInv, TypeOK, XaddReplay
<1>1. Working(e)
  BY DEF Working
<1>2. /\ KafkaTypes' /\ PublisherTypes'
      /\ UNCHANGED <<log, position, queue, retries, inbox, runtime, winner>>
  BY DEF KafkaTypes, kafkaVars, PublisherTypes, pubVars
<1>3. EnvTypes'
  BY FaultTypes DEF EnvTypes
<1>4. Reply(e, "Committed") \/ Reply(e, "Retryable")
  OBVIOUS
<1>5. pending' \subseteq Entry /\ lastSid' \in Nat
  <2>1. (\E d \in processed : Xadd(d)) \/ UNCHANGED <<pending, lastSid>>
    BY DEF Stored
  <2> QED BY <2>1, XaddTypes DEF RedisTypes
<1>6. RedisTypes'
  BY <1>5 DEF RedisTypes
<1> QED BY <1>1, <1>2, <1>3, <1>4, <1>6, ReplyTypes DEF ActorTypes

\* The actor writes a rejection and answers.
LEMMA XaddRejectTypes ==
    ASSUME TypeInv, NEW e \in Engines, XaddReject(e)
    PROVE  TypeInv'
<1> USE DEF TypeInv, TypeOK, XaddReject
<1>1. Working(e) /\ DecisionOf(e, FALSE) \in Decision
  BY DecisionOfType DEF Working
<1>2. KafkaTypes' /\ UNCHANGED <<log, position, queue, retries, inbox, runtime, winner>>
  BY DEF KafkaTypes, kafkaVars
<1>3. EnvTypes'
  BY FaultTypes DEF EnvTypes
<1>4. Reply(e, "Committed") \/ Reply(e, "Retryable")
  OBVIOUS
<1>5. pending' \subseteq Entry /\ lastSid' \in Nat
  <2>1. Xadd(DecisionOf(e, FALSE)) \/ UNCHANGED <<pending, lastSid>>
    OBVIOUS
  <2> QED BY <1>1, <2>1, XaddTypes DEF RedisTypes
<1>6. RedisTypes' /\ PublisherTypes'
  BY <1>5 DEF RedisTypes, PublisherTypes
<1> QED BY <1>1, <1>2, <1>3, <1>4, <1>6, ReplyTypes DEF ActorTypes

\* The window of the actor is over.
LEMMA CloseTimerTypes ==
    ASSUME TypeInv, NEW e \in Engines, CloseTimer(e)
    PROVE  TypeInv'
<1> USE DEF TypeInv, TypeOK, CloseTimer
<1>1. KafkaTypes' /\ RedisTypes' /\ WorkerTypes' /\ PublisherTypes' /\ EnvTypes'
  BY DEF KafkaTypes, kafkaVars, RedisTypes, redisVars, WorkerTypes, workerVars,
         PublisherTypes, pubVars, EnvTypes, envVars
<1>2. ActorTypes'
  BY DEF ActorTypes, ActorSteps, kafkaVars
<1>3. OneTaskOutstanding'
  BY DEF OneTaskOutstanding, Working, ActorTypes, kafkaVars, workerVars
<1> QED BY <1>1, <1>2, <1>3

\* A waiting task is answered.
LEMMA DrainTypes ==
    ASSUME TypeInv, NEW e \in Engines, Drain(e)
    PROVE  TypeInv'
<1> USE DEF TypeInv, TypeOK, Drain
<1>1. KafkaTypes' /\ RedisTypes' /\ PublisherTypes' /\ EnvTypes' /\ log' = log
  BY DEF KafkaTypes, kafkaVars, RedisTypes, redisVars, PublisherTypes, pubVars, EnvTypes, envVars
<1>2. WorkerTypes'
  BY <1>1 DEF WorkerTypes, WorkerSteps, AfterReply
<1>3. ActorTypes'
  BY <1>1 DEF ActorTypes, ActorSteps
<1>4. OneTaskOutstanding'
  BY <1>1 DEF OneTaskOutstanding, Working, ActorTypes, WorkerTypes, AfterReply
<1> QED BY <1>1, <1>2, <1>3, <1>4

\* A step of close_auction to the next one, or a panic.
LEMMA CloseStepTypes ==
    ASSUME TypeInv, NEW e \in Engines, NEW s \in {"sync", "emit"},
           actor[e] \in {"winner", "hset", "sync"},
           \/ actor' = [actor EXCEPT ![e] = s] /\ UNCHANGED pubVars
           \/ Panic(e),
           UNCHANGED <<log, inbox, task, winner, worker, runtime>>
    PROVE  ActorTypes' /\ PublisherTypes' /\ OneTaskOutstanding'
<1> USE DEF TypeInv, TypeOK
<1>1. CASE actor' = [actor EXCEPT ![e] = s] /\ UNCHANGED pubVars
  <2>1. ActorTypes' /\ PublisherTypes'
    BY <1>1 DEF ActorTypes, ActorSteps, PublisherTypes, pubVars
  <2>2. OneTaskOutstanding'
    BY <1>1 DEF OneTaskOutstanding, Working, ActorTypes
  <2> QED BY <2>1, <2>2
<1>2. CASE Panic(e)
  <2>1. ~Working(e) /\ actor[e] # "absent"
    BY DEF Working
  <2>2. runtime' \in [Engines -> Runtime]
    BY DEF ActorTypes
  <2> QED BY <1>2, <2>1, <2>2, PanicTypes
<1> QED BY <1>1, <1>2

\* The winner is read, or the actor panics.
LEMMA CloseReadTypes ==
    ASSUME TypeInv, NEW e \in Engines, CloseRead(e)
    PROVE  TypeInv'
<1> USE DEF TypeInv, TypeOK, CloseRead
<1>1. /\ KafkaTypes' /\ RedisTypes' /\ WorkerTypes'
      /\ UNCHANGED <<log, worker>>
  BY DEF KafkaTypes, kafkaVars, RedisTypes, redisVars, WorkerTypes, workerVars
<1>2. EnvTypes'
  BY FaultTypes DEF EnvTypes
<1>3. CASE UNCHANGED pubVars /\ actor' = [actor EXCEPT ![e] = "hset"]
           /\ winner' \in {[winner EXCEPT ![e] = WinnerOf(runtime[e], zset)],
                          [winner EXCEPT ![e] = Nobody]}
  <2>1. WinnerOf(runtime[e], zset) \in RequestIds \cup {Nobody}
    BY WinnerOfType DEF RedisTypes, ActorTypes
  <2>2. winner' \in [Engines -> RequestIds \cup {Nobody}]
    BY <1>3, <2>1 DEF ActorTypes
  <2>3. ActorTypes' /\ PublisherTypes'
    BY <1>1, <1>3, <2>2 DEF ActorTypes, ActorSteps, PublisherTypes, pubVars
  <2>4. OneTaskOutstanding'
    BY <1>1, <1>3 DEF OneTaskOutstanding, Working, ActorTypes
  <2> QED BY <1>1, <1>2, <2>3, <2>4
<1>4. CASE Panic(e) /\ UNCHANGED winner
  <2>1. ActorTypes' /\ PublisherTypes' /\ OneTaskOutstanding'
    BY <1>1, <1>4, CloseStepTypes
  <2> QED BY <1>1, <1>2, <2>1
<1> QED BY <1>3, <1>4

\* The outcome is stored.
LEMMA CloseStateTypes ==
    ASSUME TypeInv, NEW e \in Engines, CloseState(e)
    PROVE  TypeInv'
<1> USE DEF TypeInv, TypeOK, CloseState
<1>1. KafkaTypes' /\ WorkerTypes' /\ UNCHANGED <<log, inbox, task, winner, worker, runtime>>
  BY DEF KafkaTypes, kafkaVars, WorkerTypes, workerVars
<1>2. EnvTypes'
  BY FaultTypes DEF EnvTypes
<1>3. outcome' \in [status : {"Active", "Completed"}, winner : RequestIds \cup {Nobody}]
  BY DEF RedisTypes, ActorTypes
<1>4. RedisTypes'
  BY <1>3 DEF RedisTypes
<1>5. ActorTypes' /\ PublisherTypes' /\ OneTaskOutstanding'
  BY <1>1, CloseStepTypes
<1> QED BY <1>1, <1>2, <1>4, <1>5

\* The sync record is published.
LEMMA CloseSyncTypes ==
    ASSUME TypeInv, NEW e \in Engines, CloseSync(e)
    PROVE  TypeInv'
<1> USE DEF TypeInv, TypeOK, CloseSync
<1>1. RedisTypes' /\ WorkerTypes' /\ UNCHANGED <<log, inbox, task, winner, worker, runtime>>
  BY DEF RedisTypes, redisVars, WorkerTypes, workerVars
<1>2. KafkaTypes'
  BY DEF KafkaTypes
<1>3. EnvTypes'
  BY FaultTypes DEF EnvTypes
<1>4. ActorTypes' /\ PublisherTypes' /\ OneTaskOutstanding'
  BY <1>1, CloseStepTypes
<1> QED BY <1>1, <1>2, <1>3, <1>4

\* The actor exits; a task sent meanwhile is answered.
LEMMA CloseEmitTypes ==
    ASSUME TypeInv, NEW e \in Engines, CloseEmit(e)
    PROVE  TypeInv'
<1> USE DEF TypeInv, TypeOK, CloseEmit
<1>1. KafkaTypes' /\ RedisTypes' /\ UNCHANGED <<log, task, runtime, winner>>
  BY DEF KafkaTypes, kafkaVars, RedisTypes, redisVars
<1>2. EnvTypes'
  <2>1. announced' \subseteq RequestIds \cup {Nobody}
    BY DEF EnvTypes, ActorTypes
  <2> QED BY <2>1, FaultTypes
<1>3. CASE Panic(e) /\ UNCHANGED <<inbox, worker>>
  <2>1. ~Working(e) /\ actor[e] # "absent"
    BY DEF Working
  <2>2. runtime' \in [Engines -> Runtime] /\ WorkerTypes'
    BY <1>1, <1>3 DEF ActorTypes, WorkerTypes
  <2>3. ActorTypes' /\ PublisherTypes' /\ OneTaskOutstanding'
    BY <1>1, <1>3, <2>1, <2>2, PanicTypes
  <2> QED BY <1>1, <1>2, <2>2, <2>3
<1>4. CASE ExitActor(e)
  <2>1. WorkerTypes'
    BY <1>1, <1>4 DEF ExitActor, WorkerTypes, WorkerSteps, AfterReply
  <2>2. ActorTypes'
    BY <1>1, <1>4 DEF ExitActor, ActorTypes, ActorSteps
  <2>3. PublisherTypes'
    BY <1>4 DEF ExitActor, PublisherTypes, PublisherSteps
  <2>4. OneTaskOutstanding'
    BY <1>1, <1>4 DEF ExitActor, OneTaskOutstanding, Working, ActorTypes, WorkerTypes, AfterReply
  <2> QED BY <1>1, <1>2, <2>1, <2>2, <2>3, <2>4
<1> QED BY <1>3, <1>4

\* The publisher moves decisions to the topics.
LEMMA PublisherTypesPreserved ==
    ASSUME TypeInv, NEW e \in Engines, PublisherStep(e)
    PROVE  TypeInv'
<1> USE DEF TypeInv, TypeOK
<1>1. UNCHANGED <<log, workerVars, actorVars>>
  BY DEF PublisherStep, PublisherRead, PublisherWake, PublishDecision, PublishNotification,
         PublisherXdel, kafkaVars
<1>2. WorkerTypes' /\ ActorTypes' /\ OneTaskOutstanding'
  BY <1>1 DEF WorkerTypes, workerVars, ActorTypes, actorVars, OneTaskOutstanding, Working
<1>3. CASE PublisherRead(e) \/ PublisherWake(e)
  <2>1. KafkaTypes' /\ RedisTypes' /\ EnvTypes'
    BY <1>3 DEF PublisherRead, PublisherWake, KafkaTypes, kafkaVars, RedisTypes, redisVars,
                EnvTypes, envVars
  <2>2. PublisherTypes'
    BY <1>3 DEF PublisherRead, PublisherWake, PublisherTypes, PublisherSteps, RedisTypes
  <2> QED BY <1>2, <2>1, <2>2
<1>4. \A x \in First(batch[e]) : x \in Entry /\ x.decision \in Decision
  BY DEF First, PublisherTypes, Entry
<1>5. CASE PublishDecision(e) \/ PublishNotification(e)
  <2>1. RedisTypes' /\ EnvTypes'
    BY <1>5 DEF PublishDecision, PublishNotification, RedisTypes, redisVars, EnvTypes, envVars
  <2>2. KafkaTypes'
    BY <1>4, <1>5 DEF PublishDecision, PublishNotification, KafkaTypes
  <2>3. PublisherTypes'
    BY <1>5 DEF PublishDecision, PublishNotification, PublisherTypes, PublisherSteps
  <2> QED BY <1>2, <2>1, <2>2, <2>3
<1>6. CASE PublisherXdel(e)
  <2>1. KafkaTypes' /\ RedisTypes'
    BY <1>6 DEF PublisherXdel, KafkaTypes, kafkaVars, RedisTypes
  <2>2. EnvTypes'
    BY <1>6, FaultTypes DEF PublisherXdel, EnvTypes
  <2>3. PublisherTypes'
    BY <1>6 DEF PublisherXdel, PublisherTypes, PublisherSteps
  <2> QED BY <1>2, <2>1, <2>2, <2>3
<1> QED BY <1>3, <1>5, <1>6 DEF PublisherStep

\* Nothing changes.
LEMMA StutterTypes == TypeInv /\ UNCHANGED vars => TypeInv'
<1> SUFFICES ASSUME TypeInv, UNCHANGED vars PROVE TypeInv'
  OBVIOUS
<1> USE DEF TypeInv, TypeOK, vars
<1>1. KafkaTypes' /\ RedisTypes' /\ PublisherTypes' /\ EnvTypes'
  BY DEF KafkaTypes, kafkaVars, RedisTypes, redisVars, PublisherTypes, pubVars, EnvTypes, envVars
<1>2. WorkerTypes' /\ ActorTypes' /\ OneTaskOutstanding'
  BY DEF WorkerTypes, workerVars, ActorTypes, actorVars, OneTaskOutstanding, Working, kafkaVars
<1> QED BY <1>1, <1>2

\* Every step keeps the types and the hand-shake.
LEMMA NextTypes == TypeInv /\ [Next]_vars => TypeInv'
<1> SUFFICES ASSUME TypeInv, [Next]_vars PROVE TypeInv'
  OBVIOUS
<1>1. ASSUME NEW e \in Engines, WorkerStep(e) PROVE TypeInv'
  BY <1>1, WorkerRecvTypes, WorkerSendTypes, DeadLetterTypes, CommitTypes DEF WorkerStep
<1>2. ASSUME NEW e \in Engines, WriteBid(e) PROVE TypeInv'
  BY <1>2, RunScriptTypes, GetProcessedTypes, XaddReplayTypes, XaddRejectTypes DEF WriteBid
<1>3. ASSUME NEW e \in Engines, CloseAuction(e) PROVE TypeInv'
  BY <1>3, DrainTypes, CloseReadTypes, CloseStateTypes, CloseSyncTypes, CloseEmitTypes
     DEF CloseAuction
<1>4. ASSUME NEW e \in Engines, ActorStep(e) PROVE TypeInv'
  BY <1>2, <1>3, <1>4, LoadRuntimeTypes, ActorRecvTypes, CloseTimerTypes DEF ActorStep
<1> QED BY <1>1, <1>4, PublisherTypesPreserved, IngestTypes, EnvironmentTypes, AssignTypes,
           CrashTypes, FetchTypes, RetryCommitTypes, StutterTypes DEF Next

\* Every variable of the engine keeps its type, for any number of engines, bids
\* and faults: positions, offsets and queued records never run past the log.
THEOREM TypeCorrect == Spec => []TypeOK
<1>1. Init => TypeInv
  BY InitTypes
<1>2. TypeInv /\ [Next]_vars => TypeInv'
  BY NextTypes
<1>3. TypeInv => TypeOK
  BY DEF TypeInv
<1> QED BY <1>1, <1>2, <1>3, PTL DEF Spec

\* No engine ever loses or answers twice the task its partition worker waits
\* for, through panics, restarts, closes and late sends.
THEOREM TaskNeverLost == Spec => []OneTaskOutstanding
<1>1. Init => TypeInv
  BY InitTypes
<1>2. TypeInv /\ [Next]_vars => TypeInv'
  BY NextTypes
<1>3. TypeInv => OneTaskOutstanding
  BY DEF TypeInv
<1> QED BY <1>1, <1>2, <1>3, PTL DEF Spec

-----------------------------------------------------------------------------
(* Part 2: the inductive invariants *)

\* The Lua script sets the idempotency key of everything it appends.
LedgerInv ==
    /\ \A i \in DOMAIN ledger : ledger[i] \in processed
    /\ AcceptedOnce

\* Entry ids of the pending stream are fresh, so a batch has one first entry.
StreamIdsUnique ==
    /\ \A x \in pending : x.sid <= lastSid
    /\ \A x, y \in pending : x.sid = y.sid => x = y
    /\ \A e \in Engines : \A x, y \in batch[e] : x.sid = y.sid => x = y

\* The publisher deletes an entry after both of its publishes.
PublishedFirst ==
    \A e \in Engines : \A x \in First(batch[e]) :
        /\ publisher[e] \in {"notification", "xdel"} => x.decision \in decisions
        /\ publisher[e] = "xdel" => x.decision \in notifications

\* A stored decision is pending or published.
AcceptedAreDecided == processed \subseteq Decided

StreamInv == StreamIdsUnique /\ PublishedFirst /\ AcceptedAreDecided

\* The record engine e's worker holds.
Holds(e, p) == worker[e].step # "idle" /\ worker[e].at = p

\* All before a held record is settled, and the record itself before its commit.
WorkerFrontier(e) ==
    worker[e].step # "idle" =>
        \A p \in 1 .. worker[e].at :
            Settled(p) \/ (p = worker[e].at /\ worker[e].step # "commit")

\* Before a queued record, everything is settled or ahead of it in e.
QueueFrontier(e) ==
    \A i \in 1 .. Len(queue[e]) : \A p \in 1 .. queue[e][i] - 1 :
        Settled(p) \/ Holds(e, p) \/ \E j \in 1 .. i - 1 : queue[e][j] = p

\* What the owner has fetched is settled, held or queued.
OwnerFrontier(e) ==
    owner = e =>
        \A p \in 1 .. position[e] :
            Settled(p) \/ Holds(e, p) \/ \E j \in 1 .. Len(queue[e]) : queue[e][j] = p

\* A commit that is retried is safe however late it is stored.
RetryFrontier(e) ==
    \A i \in 1 .. Len(retries[e]) : \A p \in 1 .. retries[e][i] : Settled(p)

EngineFrontier(e) ==
    WorkerFrontier(e) /\ QueueFrontier(e) /\ OwnerFrontier(e) /\ RetryFrontier(e)

SettleInv == NoBidLost /\ \A e \in Engines : EngineFrontier(e)

-----------------------------------------------------------------------------
(* Accepted once *)

\* Only the accepting script writes the ledger and the idempotency keys.
LEMMA LedgerWriters ==
    ASSUME [Next]_vars
    PROVE  UNCHANGED <<ledger, processed>> \/ \E e \in Engines : RunScript(e)
<1>1. ASSUME NEW b \in Bids, IngestBid(b) PROVE UNCHANGED <<ledger, processed>>
  BY <1>1 DEF IngestBid, redisVars
<1>2. CASE EndTimePasses \/ Hydrate \/ UNCHANGED vars
  BY <1>2 DEF EndTimePasses, Hydrate, vars, redisVars
<1>3. ASSUME NEW e \in Engines, Assign(e) \/ Crash(e) \/ Fetch(e) \/ RetryCommit(e)
      PROVE  UNCHANGED <<ledger, processed>>
  BY <1>3 DEF Assign, Crash, Fetch, RetryCommit, redisVars
<1>4. ASSUME NEW e \in Engines, WorkerStep(e) PROVE UNCHANGED <<ledger, processed>>
  BY <1>4 DEF WorkerStep, WorkerRecv, WorkerSend, DeadLetter, Commit, redisVars
<1>5. ASSUME NEW e \in Engines, ActorStep(e), ~RunScript(e) PROVE UNCHANGED <<ledger, processed>>
  <2>1. CASE WriteBid(e)
    BY <1>5, <2>1 DEF WriteBid, GetProcessed, XaddReplay, XaddReject, redisVars
  <2>2. CASE CloseAuction(e)
    BY <2>2 DEF CloseAuction, Drain, CloseRead, CloseState, CloseSync, CloseEmit, redisVars
  <2>3. CASE LoadRuntime(e) \/ ActorRecv(e) \/ CloseTimer(e)
    BY <2>3 DEF LoadRuntime, ActorRecv, CloseTimer, redisVars
  <2> QED BY <1>5, <2>1, <2>2, <2>3 DEF ActorStep
<1>6. ASSUME NEW e \in Engines, PublisherStep(e) PROVE UNCHANGED <<ledger, processed>>
  BY <1>6 DEF PublisherStep, PublisherRead, PublisherWake, PublishDecision,
              PublishNotification, PublisherXdel, redisVars
<1> QED BY <1>1, <1>2, <1>3, <1>4, <1>5, <1>6 DEF Next

\* The script appends what has no idempotency key yet.
LEMMA LedgerStep ==
    ASSUME TypeInv, LedgerInv, [Next]_vars
    PROVE  LedgerInv'
<1>1. CASE UNCHANGED <<ledger, processed>>
  BY <1>1 DEF LedgerInv, AcceptedOnce
<1>2. ASSUME NEW e \in Engines, RunScript(e) PROVE LedgerInv'
  <2> DEFINE d == DecisionOf(e, TRUE)
  <2>1. AcceptScript(d) \/ UNCHANGED redisVars
    BY <1>2 DEF RunScript
  <2> HIDE DEF d
  <2>2. CASE UNCHANGED <<ledger, processed>>
    BY <1>1, <2>2
  <2>3. CASE Stored(d.id) = {} /\ AcceptScript(d)
    <3>1. ledger' = Append(ledger, d) /\ processed' = processed \cup {d}
      BY <2>3 DEF AcceptScript
    <3>2. /\ DOMAIN ledger = 1 .. Len(ledger) /\ DOMAIN ledger' = 1 .. Len(ledger) + 1
          /\ Len(ledger) \in Nat
          /\ \A i \in 1 .. Len(ledger) : ledger'[i] = ledger[i]
          /\ ledger'[Len(ledger) + 1] = d
      BY <3>1 DEF TypeInv, TypeOK, RedisTypes
    <3>3. \A i \in DOMAIN ledger : ledger[i].id # d.id
      BY <2>3 DEF LedgerInv, Stored
    <3>4. \A i \in DOMAIN ledger' : ledger'[i] \in processed'
      BY <3>1, <3>2 DEF LedgerInv
    <3>5. AcceptedOnce'
      BY <3>2, <3>3 DEF LedgerInv, AcceptedOnce
    <3> QED BY <3>4, <3>5 DEF LedgerInv
  <2> QED BY <2>1, <2>2, <2>3 DEF AcceptScript, redisVars
<1> QED BY <1>1, <1>2, LedgerWriters

\* A request enters the ledger at most once, whatever the number of engines
\* that process it at the same time and of times its record is delivered.
THEOREM NoDoubleAcceptance == Spec => []AcceptedOnce
<1>1. Init => TypeInv /\ LedgerInv
  <2>1. Init => LedgerInv
    BY DEF Init, LedgerInv, AcceptedOnce
  <2> QED BY <2>1, InitTypes
<1>2. TypeInv /\ LedgerInv /\ [Next]_vars => TypeInv' /\ LedgerInv'
  BY NextTypes, LedgerStep
<1>3. LedgerInv => AcceptedOnce
  BY DEF LedgerInv
<1> QED BY <1>1, <1>2, <1>3, PTL DEF Spec

-----------------------------------------------------------------------------
(* No decision dropped *)

\* A step that leaves the stream and the topics alone and at most starts, stops
\* or restarts publishers.
StreamKept ==
    /\ UNCHANGED <<processed, pending, lastSid, decisions, notifications>>
    /\ \A f \in Engines :
          \/ batch'[f] = batch[f] /\ publisher'[f] = publisher[f]
          \/ batch'[f] \in {batch[f], {}} /\ publisher'[f] \in {"off", "read"}

\* No decision leaves the stream and the topics; a deleted one was announced.
DecisionsKept ==
    /\ Decided \subseteq Decided'
    /\ \A x \in pending \ pending' : x.decision \in notifications

\* Such a step keeps the invariant of the stream.
LEMMA StreamKeptStep ==
    ASSUME StreamInv, StreamKept
    PROVE  StreamInv' /\ DecisionsKept
<1>1. StreamIdsUnique'
  BY DEF StreamInv, StreamIdsUnique, StreamKept
<1>2. PublishedFirst'
  BY DEF StreamInv, PublishedFirst, First, StreamKept
<1>3. AcceptedAreDecided' /\ DecisionsKept
  BY DEF StreamInv, AcceptedAreDecided, Decided, DecisionsKept, StreamKept
<1> QED BY <1>1, <1>2, <1>3 DEF StreamInv

\* XADD adds an entry with a fresh id and takes nothing away.
LEMMA XaddStep ==
    ASSUME TypeInv, StreamInv, NEW d \in Decision, Xadd(d),
           processed' \subseteq processed \cup {d},
           UNCHANGED <<decisions, notifications, batch, publisher>>
    PROVE  StreamInv' /\ DecisionsKept /\ d \in Decided'
<1>1. StreamIdsUnique'
  <2>1. /\ lastSid \in Nat /\ lastSid' = lastSid + 1
        /\ pending' = pending \cup {[sid |-> lastSid + 1, decision |-> d]}
        /\ \A x \in pending : x.sid \in Nat
    BY DEF Xadd, TypeInv, TypeOK, RedisTypes, Entry
  <2> QED BY <2>1 DEF StreamInv, StreamIdsUnique
<1>2. PublishedFirst'
  BY DEF StreamInv, PublishedFirst, First
<1>3. d \in Decided'
  <2> DEFINE x == [sid |-> lastSid + 1, decision |-> d]
  <2>1. x \in pending' /\ x.decision = d
    BY DEF Xadd
  <2> HIDE DEF x
  <2> QED BY <2>1 DEF Decided
<1>4. DecisionsKept
  BY DEF DecisionsKept, Decided, Xadd
<1>5. AcceptedAreDecided'
  BY <1>3, <1>4 DEF StreamInv, AcceptedAreDecided, DecisionsKept
<1> QED BY <1>1, <1>2, <1>3, <1>4, <1>5 DEF StreamInv

\* The accepting script leaves a decision of the request, new or stored.
LEMMA AcceptScriptStep ==
    ASSUME TypeInv, StreamInv, NEW d \in Decision, AcceptScript(d),
           UNCHANGED <<decisions, notifications, batch, publisher>>
    PROVE  StreamInv' /\ DecisionsKept /\ \E x \in Decided' : x.id = d.id
<1>1. CASE Stored(d.id) # {}
  <2>1. StreamKept
    BY <1>1 DEF AcceptScript, StreamKept
  <2>2. StreamInv' /\ DecisionsKept
    BY <2>1, StreamKeptStep
  <2>3. PICK x \in processed : x.id = d.id
    BY <1>1 DEF Stored
  <2>4. x \in Decided'
    BY <2>2, <2>3 DEF StreamInv, AcceptedAreDecided, DecisionsKept
  <2> QED BY <2>2, <2>3, <2>4
<1>2. CASE Stored(d.id) = {}
  <2>1. Xadd(d) /\ processed' \subseteq processed \cup {d}
    BY <1>2 DEF AcceptScript
  <2> QED BY <2>1, XaddStep
<1> QED BY <1>1, <1>2

\* An accepted bid that is reported as committed has a decision.
LEMMA RunScriptStep ==
    ASSUME TypeInv, StreamInv, NEW e \in Engines, RunScript(e)
    PROVE  /\ StreamInv' /\ DecisionsKept
           /\ \/ Reply(e, "Retryable")
              \/ Reply(e, "Committed") /\ \E x \in Decided' : x.id = log[task[e]].id
<1> DEFINE d == DecisionOf(e, TRUE)
<1>1. d \in Decision /\ d.id = log[task[e]].id
  <2>1. Working(e)
    BY DEF RunScript, Working
  <2> QED BY <2>1, DecisionOfType DEF DecisionOf
<1>2. \/ AcceptScript(d) /\ (Reply(e, "Committed") \/ Reply(e, "Retryable"))
      \/ UNCHANGED redisVars /\ Reply(e, "Retryable")
  BY DEF RunScript
<1>3. UNCHANGED <<decisions, notifications, batch, publisher>>
  BY DEF RunScript, kafkaVars
<1> HIDE DEF d
<1>4. CASE AcceptScript(d) /\ (Reply(e, "Committed") \/ Reply(e, "Retryable"))
  BY <1>1, <1>3, <1>4, AcceptScriptStep
<1>5. CASE UNCHANGED redisVars /\ Reply(e, "Retryable")
  <2>1. StreamKept
    BY <1>3, <1>5 DEF StreamKept, redisVars
  <2> QED BY <1>5, <2>1, StreamKeptStep
<1> QED BY <1>2, <1>4, <1>5

\* A replayed bid that is reported as committed has a decision.
LEMMA XaddReplayStep ==
    ASSUME TypeInv, StreamInv, NEW e \in Engines, XaddReplay(e)
    PROVE  /\ StreamInv' /\ DecisionsKept
           /\ \/ Reply(e, "Retryable")
              \/ Reply(e, "Committed") /\ \E x \in Decided' : x.id = log[task[e]].id
<1>1. \/ /\ \E d \in processed : d.id = log[task[e]].id /\ Xadd(d)
         /\ Reply(e, "Committed") \/ Reply(e, "Retryable")
      \/ UNCHANGED <<pending, lastSid>> /\ Reply(e, "Retryable")
  BY DEF XaddReplay, Stored
<1>2. UNCHANGED <<processed, decisions, notifications, batch, publisher>>
  BY DEF XaddReplay, kafkaVars, pubVars
<1>3. ASSUME NEW d \in processed, d.id = log[task[e]].id, Xadd(d)
      PROVE  StreamInv' /\ DecisionsKept /\ \E x \in Decided' : x.id = log[task[e]].id
  <2>1. d \in Decision
    BY DEF TypeInv, TypeOK, RedisTypes
  <2> QED BY <1>2, <1>3, <2>1, XaddStep
<1>4. CASE UNCHANGED <<pending, lastSid>> /\ Reply(e, "Retryable")
  <2>1. StreamKept
    BY <1>2, <1>4 DEF StreamKept
  <2> QED BY <1>4, <2>1, StreamKeptStep
<1> QED BY <1>1, <1>3, <1>4

\* A rejected bid that is reported as committed has a decision.
LEMMA XaddRejectStep ==
    ASSUME TypeInv, StreamInv, NEW e \in Engines, XaddReject(e)
    PROVE  /\ StreamInv' /\ DecisionsKept
           /\ \/ Reply(e, "Retryable")
              \/ Reply(e, "Committed") /\ \E x \in Decided' : x.id = log[task[e]].id
<1> DEFINE d == DecisionOf(e, FALSE)
<1>1. d \in Decision /\ d.id = log[task[e]].id
  <2>1. Working(e)
    BY DEF XaddReject, Working
  <2> QED BY <2>1, DecisionOfType DEF DecisionOf
<1>2. \/ Xadd(d) /\ (Reply(e, "Committed") \/ Reply(e, "Retryable"))
      \/ UNCHANGED <<pending, lastSid>> /\ Reply(e, "Retryable")
  BY DEF XaddReject
<1>3. UNCHANGED <<processed, decisions, notifications, batch, publisher>>
  BY DEF XaddReject, kafkaVars
<1> HIDE DEF d
<1>4. CASE Xadd(d) /\ (Reply(e, "Committed") \/ Reply(e, "Retryable"))
  BY <1>1, <1>3, <1>4, XaddStep
<1>5. CASE UNCHANGED <<pending, lastSid>> /\ Reply(e, "Retryable")
  <2>1. StreamKept
    BY <1>3, <1>5 DEF StreamKept
  <2> QED BY <1>5, <2>1, StreamKeptStep
<1> QED BY <1>2, <1>4, <1>5

\* The publisher deletes an entry when it is on both topics.
LEMMA PublisherStepKeeps ==
    ASSUME TypeInv, StreamInv, NEW e \in Engines, PublisherStep(e)
    PROVE  StreamInv' /\ DecisionsKept
<1> USE DEF TypeInv, TypeOK, PublisherTypes
<1>1. processed' = processed /\ lastSid' = lastSid
  BY DEF PublisherStep, PublisherRead, PublisherWake, PublishDecision, PublishNotification,
         PublisherXdel, redisVars
<1>2. \A x, y \in First(batch[e]) : x = y
  <2>1. \A x \in batch[e] : x.sid \in Nat
    BY DEF Entry
  <2> QED BY <2>1 DEF First, StreamInv, StreamIdsUnique
<1>3. CASE PublisherRead(e)
  <2>1. UNCHANGED <<pending, decisions, notifications>>
    BY <1>3 DEF PublisherRead, redisVars, kafkaVars
  <2>2. StreamIdsUnique' /\ AcceptedAreDecided' /\ DecisionsKept
    BY <1>1, <1>3, <2>1 DEF PublisherRead, StreamInv, StreamIdsUnique, AcceptedAreDecided,
                           DecisionsKept, Decided
  <2>3. PublishedFirst'
    BY <1>3, <2>1 DEF PublisherRead, StreamInv, PublishedFirst, First
  <2> QED BY <2>2, <2>3 DEF StreamInv
<1>4. CASE PublisherWake(e)
  <2>1. StreamKept
    BY <1>4 DEF PublisherWake, StreamKept, redisVars, kafkaVars
  <2> QED BY <2>1, StreamKeptStep
<1>5. CASE PublishDecision(e)
  <2>1. UNCHANGED <<pending, notifications, batch>> /\ decisions \subseteq decisions'
    BY <1>5 DEF PublishDecision, redisVars
  <2>2. StreamIdsUnique' /\ AcceptedAreDecided' /\ DecisionsKept
    BY <1>1, <2>1 DEF StreamInv, StreamIdsUnique, AcceptedAreDecided, DecisionsKept, Decided
  <2>3. \A x \in First(batch[e]) : x.decision \in decisions'
    BY <1>2, <1>5 DEF PublishDecision
  <2>4. PublishedFirst'
    BY <1>5, <2>1, <2>3 DEF PublishDecision, StreamInv, PublishedFirst, First
  <2> QED BY <2>2, <2>4 DEF StreamInv
<1>6. CASE PublishNotification(e)
  <2>1. UNCHANGED <<pending, decisions, batch>> /\ notifications \subseteq notifications'
    BY <1>6 DEF PublishNotification, redisVars
  <2>2. StreamIdsUnique' /\ AcceptedAreDecided' /\ DecisionsKept
    BY <1>1, <2>1 DEF StreamInv, StreamIdsUnique, AcceptedAreDecided, DecisionsKept, Decided
  <2>3. \A x \in First(batch[e]) : x.decision \in notifications'
    BY <1>2, <1>6 DEF PublishNotification
  <2>4. PublishedFirst'
    BY <1>6, <2>1, <2>3 DEF PublishNotification, StreamInv, PublishedFirst, First
  <2> QED BY <2>2, <2>4 DEF StreamInv
<1>7. CASE PublisherXdel(e)
  <2>1. PICK x \in First(batch[e]) :
          /\ pending' = pending \ {x} \/ pending' = pending
          /\ batch' = [batch EXCEPT ![e] = @ \ {x}]
          /\ \E s \in {"read", "decision"} : publisher' = [publisher EXCEPT ![e] = s]
    BY <1>7 DEF PublisherXdel
  <2>2. UNCHANGED <<decisions, notifications>>
    BY <1>7 DEF PublisherXdel, kafkaVars
  <2>3. x.decision \in decisions /\ x.decision \in notifications
    BY <1>7 DEF PublisherXdel, StreamInv, PublishedFirst
  <2>4. DecisionsKept
    BY <2>1, <2>2, <2>3 DEF DecisionsKept, Decided
  <2>5. AcceptedAreDecided'
    BY <1>1, <2>4 DEF DecisionsKept, StreamInv, AcceptedAreDecided
  <2>6. StreamIdsUnique'
    BY <1>1, <2>1 DEF StreamInv, StreamIdsUnique
  <2>7. PublishedFirst'
    BY <2>1, <2>2 DEF StreamInv, PublishedFirst, First
  <2> QED BY <2>4, <2>5, <2>6, <2>7 DEF StreamInv
<1> QED BY <1>3, <1>4, <1>5, <1>6, <1>7 DEF PublisherStep

\* The other steps keep the stream and the topics.
LEMMA OtherStepsKeepStream ==
    ASSUME TypeInv, [Next]_vars, \A e \in Engines : ~PublisherStep(e),
           \A e \in Engines : ~RunScript(e) /\ ~XaddReplay(e) /\ ~XaddReject(e)
    PROVE  StreamKept
<1> USE DEF TypeInv, TypeOK, PublisherTypes, StreamKept
<1>1. ASSUME NEW b \in Bids, IngestBid(b) PROVE StreamKept
  BY <1>1 DEF IngestBid, redisVars, pubVars
<1>2. CASE EndTimePasses \/ Hydrate \/ UNCHANGED vars
  BY <1>2 DEF EndTimePasses, Hydrate, vars, redisVars, kafkaVars, pubVars
<1>3. ASSUME NEW e \in Engines, Assign(e) \/ Crash(e) \/ Fetch(e) \/ RetryCommit(e)
      PROVE  StreamKept
  BY <1>3 DEF Assign, Crash, Fetch, RetryCommit, redisVars, kafkaVars, pubVars
<1>4. ASSUME NEW e \in Engines, WorkerStep(e) PROVE StreamKept
  BY <1>4 DEF WorkerStep, WorkerRecv, WorkerSend, get_or_create, DeadLetter, Commit, redisVars,
              kafkaVars, pubVars
<1>5. ASSUME NEW e \in Engines, ActorStep(e) PROVE StreamKept
  <2>1. CASE GetProcessed(e) \/ ActorRecv(e) \/ CloseTimer(e) \/ Drain(e)
    BY <2>1 DEF GetProcessed, ActorRecv, CloseTimer, Drain, redisVars, kafkaVars, pubVars
  <2>2. CASE LoadRuntime(e) \/ CloseRead(e) \/ CloseState(e) \/ CloseSync(e)
    BY <2>2 DEF LoadRuntime, CloseRead, CloseState, CloseSync, Panic, redisVars, kafkaVars, pubVars
  <2>3. CASE CloseEmit(e)
    BY <2>3 DEF CloseEmit, ExitActor, Panic, redisVars, kafkaVars
  <2> QED BY <1>5, <2>1, <2>2, <2>3 DEF ActorStep, WriteBid, CloseAuction
<1> QED BY <1>1, <1>2, <1>3, <1>4, <1>5 DEF Next

\* Every step keeps the invariant of the stream.
LEMMA StreamStep ==
    ASSUME TypeInv, StreamInv, [Next]_vars
    PROVE  StreamInv' /\ DecisionsKept
  BY RunScriptStep, XaddReplayStep, XaddRejectStep, PublisherStepKeeps,
     OtherStepsKeepStream, StreamKeptStep

\* Initially nothing is pending.
LEMMA InitStream == Init => StreamInv
  BY DEF Init, StreamInv, StreamIdsUnique, PublishedFirst, First, AcceptedAreDecided, Decided

\* Nothing the engine has decided disappears, whichever process crashes between
\* the XADD, the two publishes and the XDEL, and however publishers overlap.
THEOREM DecisionsNeverDropped == Spec => NoDecisionDropped
<1>1. Init => TypeInv /\ StreamInv
  BY InitTypes, InitStream
<1>2. TypeInv /\ StreamInv /\ [Next]_vars => TypeInv' /\ StreamInv'
  BY NextTypes, StreamStep
<1>3. TypeInv /\ StreamInv /\ [Next]_vars =>
        [/\ Decided \subseteq Decided'
         /\ \A x \in pending \ pending' : x.decision \in notifications]_vars
  BY StreamStep DEF DecisionsKept
<1> QED BY <1>1, <1>2, <1>3, PTL DEF Spec, NoDecisionDropped

-----------------------------------------------------------------------------
(* No bid lost *)

\* A settled record stays settled.
SettledKept == \A p \in 1 .. Len(log) : Settled(p) => Settled(p)'

\* Records and dead letters are only ever appended.
LEMMA LogAndDlqGrow ==
    ASSUME [Next]_vars
    PROVE  dlq \subseteq dlq' /\ (log' = log \/ \E b \in Bids : log' = Append(log, b))
<1>1. ASSUME NEW b \in Bids, IngestBid(b) PROVE log' = Append(log, b) /\ dlq' = dlq
  BY <1>1 DEF IngestBid
<1>2. CASE EndTimePasses \/ Hydrate \/ UNCHANGED vars
  BY <1>2 DEF EndTimePasses, Hydrate, vars, kafkaVars
<1>3. ASSUME NEW e \in Engines, Assign(e) \/ Crash(e) \/ Fetch(e) \/ RetryCommit(e)
      PROVE  log' = log /\ dlq' = dlq
  BY <1>3 DEF Assign, Crash, Fetch, RetryCommit, kafkaVars
<1>4. ASSUME NEW e \in Engines, WorkerStep(e) PROVE log' = log /\ dlq \subseteq dlq'
  BY <1>4 DEF WorkerStep, WorkerRecv, WorkerSend, DeadLetter, Commit, kafkaVars
<1>5. ASSUME NEW e \in Engines, ActorStep(e) PROVE log' = log /\ dlq' = dlq
  <2>1. CASE WriteBid(e)
    BY <2>1 DEF WriteBid, RunScript, GetProcessed, XaddReplay, XaddReject, kafkaVars
  <2>2. CASE CloseAuction(e)
    BY <2>2 DEF CloseAuction, Drain, CloseRead, CloseState, CloseSync, CloseEmit, kafkaVars
  <2>3. CASE LoadRuntime(e) \/ ActorRecv(e) \/ CloseTimer(e)
    BY <2>3 DEF LoadRuntime, ActorRecv, CloseTimer, kafkaVars
  <2> QED BY <1>5, <2>1, <2>2, <2>3 DEF ActorStep
<1>6. ASSUME NEW e \in Engines, PublisherStep(e) PROVE log' = log /\ dlq' = dlq
  BY <1>6 DEF PublisherStep, PublisherRead, PublisherWake, PublishDecision,
              PublishNotification, PublisherXdel, kafkaVars
<1> QED BY <1>1, <1>2, <1>3, <1>4, <1>5, <1>6 DEF Next

\* No step unsettles a record.
LEMMA SettledStaysSettled ==
    ASSUME TypeInv, StreamInv, [Next]_vars
    PROVE  SettledKept
<1>1. \A p \in 1 .. Len(log) : log'[p] = log[p]
  <2>1. log \in Seq(Bids)
    BY DEF TypeInv, TypeOK, KafkaTypes
  <2> QED BY <2>1, LogAndDlqGrow, AppendProperties
<1>2. Decided \subseteq Decided' /\ dlq \subseteq dlq'
  BY StreamStep, LogAndDlqGrow DEF DecisionsKept
<1> QED BY <1>1, <1>2 DEF SettledKept, Settled

\* The positions in an engine are records of the log.
LEMMA PositionsInLog ==
    ASSUME TypeInv
    PROVE  /\ Len(log) \in Nat /\ committed \in 0 .. Len(log)
           /\ \A f \in Engines :
                /\ position[f] \in 0 .. Len(log) /\ worker[f].at \in 0 .. Len(log)
                /\ queue[f] \in Seq(1 .. Len(log)) /\ retries[f] \in Seq(1 .. Len(log))
                /\ \A i \in 1 .. Len(queue[f]) : queue[f][i] \in 1 .. Len(log)
                /\ \A i \in 1 .. Len(retries[f]) : retries[f][i] \in 1 .. Len(log)
  BY DEF TypeInv, TypeOK, KafkaTypes, WorkerTypes

\* A step that leaves the records of f where they are, and lets its worker get
\* to the commit only when its record is settled.
Advances(f) ==
    /\ position'[f] = position[f] /\ queue'[f] = queue[f] /\ retries'[f] = retries[f]
    /\ owner' = f => owner = f
    /\ worker'[f].at = worker[f].at
    /\ worker'[f].step = "idle" <=> worker[f].step = "idle"
    /\ worker'[f].step = "commit" /\ worker[f].step # "commit" =>
          \A p \in 1 .. Len(log) : p = worker[f].at => Settled(p)'

\* Such a step keeps the frontier of f.
LEMMA AdvancesStep ==
    ASSUME TypeInv, SettleInv, SettledKept, NEW f \in Engines, Advances(f)
    PROVE  EngineFrontier(f)'
<1> USE DEF Advances
<1>1. Len(log) \in Nat /\ \A p \in 1 .. Len(log) : Settled(p) => Settled(p)'
  BY PositionsInLog DEF SettledKept
<1>2. worker[f].at \in 0 .. Len(log) /\ position[f] \in 0 .. Len(log)
  BY PositionsInLog
<1>3. /\ \A i \in 1 .. Len(queue[f]) : queue[f][i] \in 1 .. Len(log)
      /\ \A i \in 1 .. Len(retries[f]) : retries[f][i] \in 1 .. Len(log)
  BY PositionsInLog
<1>4. WorkerFrontier(f) /\ QueueFrontier(f) /\ OwnerFrontier(f) /\ RetryFrontier(f)
  BY DEF SettleInv, EngineFrontier
<1>5. \A p \in 1 .. Len(log) : Holds(f, p) => Holds(f, p)'
  BY DEF Holds
<1>6. WorkerFrontier(f)'
  BY <1>1, <1>2, <1>4 DEF WorkerFrontier
<1>7. QueueFrontier(f)'
  BY <1>1, <1>3, <1>4, <1>5 DEF QueueFrontier
<1>8. OwnerFrontier(f)'
  BY <1>1, <1>2, <1>4, <1>5 DEF OwnerFrontier
<1>9. RetryFrontier(f)'
  BY <1>1, <1>3, <1>4 DEF RetryFrontier
<1> QED BY <1>6, <1>7, <1>8, <1>9 DEF EngineFrontier

\* What is below the committed offset stays settled.
LEMMA SameOffset ==
    ASSUME TypeInv, SettleInv, SettledKept, committed' = committed
    PROVE  NoBidLost'
  BY PositionsInLog DEF SettleInv, SettledKept, NoBidLost

\* Most steps leave every record where it is.
WorkersAdvance == committed' = committed /\ \A f \in Engines : Advances(f)

\* A step that moves no record keeps the invariant of the offsets.
LEMMA WorkersAdvanceStep ==
    ASSUME TypeInv, SettleInv, SettledKept, WorkersAdvance
    PROVE  SettleInv'
  BY AdvancesStep, SameOffset DEF WorkersAdvance, SettleInv

\* The answer of the actor moves its worker on.
LEMMA ReplyAdvances ==
    ASSUME TypeInv, NEW e \in Engines, Working(e),
           UNCHANGED <<log, committed, owner, position, queue, retries>>,
           \/ Reply(e, "Retryable")
           \/ Reply(e, "Committed") /\ \E x \in Decided' : x.id = log[task[e]].id
    PROVE  WorkersAdvance
<1> USE DEF TypeInv, TypeOK
<1>1. worker[e].step = "wait" /\ task[e] = worker[e].at
  BY DEF OneTaskOutstanding
<1>2. CASE Reply(e, "Retryable")
  BY <1>1, <1>2 DEF Reply, AfterReply, WorkersAdvance, Advances, WorkerTypes
<1>3. CASE Reply(e, "Committed") /\ \E x \in Decided' : x.id = log[task[e]].id
  <2>1. worker' = [worker EXCEPT ![e].step = "commit"]
    BY <1>3 DEF Reply, AfterReply
  <2>2. worker'[e].at = task[e]
    BY <1>1, <2>1 DEF WorkerTypes
  <2>3. \A p \in 1 .. Len(log) : p = worker[e].at => Settled(p)'
    BY <1>1, <1>3 DEF Settled
  <2>4. \A f \in Engines \ {e} : worker'[f] = worker[f]
    BY <2>1 DEF WorkerTypes
  <2>5. worker'[e].at = worker[e].at /\ worker'[e].step # "idle"
    BY <1>1, <2>1 DEF WorkerTypes
  <2> QED BY <1>1, <2>3, <2>4, <2>5 DEF WorkersAdvance, Advances
<1> QED BY <1>2, <1>3

\* A worker gets its answer when its record is decided.
LEMMA WriteBidAdvances ==
    ASSUME TypeInv, StreamInv, NEW e \in Engines, WriteBid(e)
    PROVE  WorkersAdvance
<1>1. Working(e) /\ UNCHANGED <<log, committed, owner, position, queue, retries>>
  BY DEF WriteBid, RunScript, GetProcessed, XaddReplay, XaddReject, Working, kafkaVars
<1>2. CASE RunScript(e)
  BY <1>1, <1>2, RunScriptStep, ReplyAdvances
<1>3. CASE XaddReplay(e)
  BY <1>1, <1>3, XaddReplayStep, ReplyAdvances
<1>4. CASE XaddReject(e)
  BY <1>1, <1>4, XaddRejectStep, ReplyAdvances
<1>5. CASE GetProcessed(e)
  <2>1. Reply(e, "Retryable") \/ worker' = worker
    BY <1>5 DEF GetProcessed
  <2>2. CASE Reply(e, "Retryable")
    BY <1>1, <2>2, ReplyAdvances
  <2>3. CASE worker' = worker
    BY <1>1, <2>3 DEF WorkersAdvance, Advances
  <2> QED BY <2>1, <2>2, <2>3
<1> QED BY <1>2, <1>3, <1>4, <1>5 DEF WriteBid

\* The steps of an actor move its worker at most.
LEMMA ActorStepAdvances ==
    ASSUME TypeInv, StreamInv, NEW e \in Engines, ActorStep(e)
    PROVE  WorkersAdvance
<1> USE DEF TypeInv, TypeOK
<1>1. CASE LoadRuntime(e) \/ ActorRecv(e) \/ CloseTimer(e)
  BY <1>1 DEF LoadRuntime, ActorRecv, CloseTimer, kafkaVars, workerVars, WorkersAdvance, Advances
<1>2. CASE CloseRead(e) \/ CloseState(e) \/ CloseSync(e)
  BY <1>2 DEF CloseRead, CloseState, CloseSync, kafkaVars, workerVars, WorkersAdvance, Advances
<1>3. CASE Drain(e) \/ CloseEmit(e)
  <2>1. UNCHANGED <<committed, owner, position, queue, retries>>
    BY <1>3 DEF Drain, CloseEmit, kafkaVars
  <2>2. CASE worker' = worker
    BY <2>1, <2>2 DEF WorkersAdvance, Advances
  <2>3. CASE /\ inbox[e] # <<>>
             /\ \E s \in {"dead", "send"} : worker' = [worker EXCEPT ![e].step = s]
    <3>1. worker[e].step = "wait"
      BY <2>3 DEF OneTaskOutstanding
    <3> QED BY <2>1, <2>3, <3>1 DEF WorkersAdvance, Advances, WorkerTypes
  <2> QED BY <1>3, <2>2, <2>3 DEF Drain, CloseEmit, ExitActor, AfterReply
<1> QED BY <1>1, <1>2, <1>3, WriteBidAdvances DEF ActorStep, CloseAuction

\* Sending and dead-lettering move no record.
LEMMA WorkerSendAdvances ==
    ASSUME TypeInv, NEW e \in Engines, WorkerSend(e) \/ DeadLetter(e)
    PROVE  WorkersAdvance
<1> USE DEF TypeInv, TypeOK
<1>1. UNCHANGED <<committed, owner, position, queue, retries>>
  BY DEF WorkerSend, DeadLetter, kafkaVars
<1>2. CASE WorkerSend(e)
  BY <1>1, <1>2 DEF WorkerSend, WorkersAdvance, Advances, WorkerTypes
<1>3. CASE DeadLetter(e)
  <2>1. worker' = [worker EXCEPT ![e].step = "commit"] /\ dlq' = dlq \cup {worker[e].at}
    BY <1>3 DEF DeadLetter
  <2>2. worker'[e].at = worker[e].at /\ worker'[e].step = "commit" /\ worker[e].step = "dead"
    BY <1>3, <2>1 DEF DeadLetter, WorkerTypes
  <2>3. \A p \in 1 .. Len(log) : p = worker[e].at => Settled(p)'
    BY <2>1 DEF Settled
  <2>4. \A f \in Engines \ {e} : worker'[f] = worker[f]
    BY <2>1 DEF WorkerTypes
  <2> QED BY <1>1, <2>2, <2>3, <2>4 DEF WorkersAdvance, Advances
<1> QED BY <1>2, <1>3

\* The facts about engine e every step below starts from.
LEMMA EngineFacts ==
    ASSUME TypeInv, SettleInv, SettledKept, NEW e \in Engines
    PROVE  /\ Len(log) \in Nat
           /\ \A p \in 1 .. Len(log) : Settled(p) => Settled(p)'
           /\ worker[e].at \in 0 .. Len(log) /\ position[e] \in 0 .. Len(log)
           /\ Len(queue[e]) \in Nat /\ Len(retries[e]) \in Nat
           /\ \A i \in 1 .. Len(queue[e]) : queue[e][i] \in 1 .. Len(log)
           /\ \A i \in 1 .. Len(retries[e]) : retries[e][i] \in 1 .. Len(log)
           /\ WorkerFrontier(e) /\ QueueFrontier(e) /\ OwnerFrontier(e) /\ RetryFrontier(e)
<1>1. queue[e] \in Seq(1 .. Len(log)) /\ retries[e] \in Seq(1 .. Len(log))
  BY PositionsInLog
<1>2. Len(queue[e]) \in Nat /\ Len(retries[e]) \in Nat
  BY <1>1
<1> QED BY <1>2, PositionsInLog DEF SettleInv, EngineFrontier, SettledKept

\* A new owner starts at the committed offset.
LEMMA AssignSettles ==
    ASSUME TypeInv, SettleInv, SettledKept, NEW e \in Engines, Assign(e)
    PROVE  SettleInv'
<1> USE DEF Assign
<1>1. \A f \in Engines \ {e} : Advances(f)
  BY DEF Advances, TypeInv, TypeOK, WorkerTypes
<1>2. owner' = e /\ position'[e] = committed /\ UNCHANGED <<worker, queue, retries, committed>>
  BY DEF TypeInv, TypeOK, WorkerTypes
<1>3. WorkerFrontier(e)' /\ RetryFrontier(e)'
  BY <1>2, EngineFacts DEF WorkerFrontier, RetryFrontier
<1>4. QueueFrontier(e)'
  <2>1. \A p \in 1 .. Len(log) : Holds(e, p) => Holds(e, p)'
    BY <1>2 DEF Holds
  <2>2. ASSUME NEW i \in 1 .. Len(queue[e]), NEW p \in 1 .. queue[e][i] - 1
        PROVE  Settled(p)' \/ Holds(e, p)' \/ \E j \in 1 .. i - 1 : queue[e][j] = p
    <3>1. p \in 1 .. Len(log)
      BY EngineFacts
    <3>2. Settled(p) \/ Holds(e, p) \/ \E j \in 1 .. i - 1 : queue[e][j] = p
      BY EngineFacts DEF QueueFrontier
    <3> QED BY <2>1, <3>1, <3>2, EngineFacts
  <2> QED BY <1>2, <2>2 DEF QueueFrontier
<1>5. NoBidLost'
  BY SameOffset
<1>6. OwnerFrontier(e)'
  BY <1>2, <1>5 DEF OwnerFrontier, NoBidLost
<1> QED BY <1>1, <1>3, <1>4, <1>5, <1>6, AdvancesStep DEF SettleInv, EngineFrontier

\* What a dying process held is delivered again.
LEMMA CrashSettles ==
    ASSUME TypeInv, SettleInv, SettledKept, NEW e \in Engines, Crash(e)
    PROVE  SettleInv'
<1> USE DEF Crash
<1>1. \A f \in Engines \ {e} : Advances(f)
  BY ConstantsAssumption DEF Advances, TypeInv, TypeOK, WorkerTypes
<1>2. worker'[e].step = "idle" /\ queue'[e] = <<>> /\ retries'[e] = <<>> /\ owner' # e
  BY ConstantsAssumption DEF TypeInv, TypeOK, WorkerTypes
<1>3. EngineFrontier(e)'
  BY <1>2 DEF EngineFrontier, WorkerFrontier, QueueFrontier, OwnerFrontier, RetryFrontier
<1> QED BY <1>1, <1>3, AdvancesStep, SameOffset DEF SettleInv

\* The next record is queued behind those before it.
LEMMA FetchSettles ==
    ASSUME TypeInv, SettleInv, SettledKept, NEW e \in Engines, Fetch(e)
    PROVE  SettleInv'
<1> USE DEF Fetch
<1>1. \A f \in Engines \ {e} : Advances(f)
  BY DEF Advances, TypeInv, TypeOK, WorkerTypes, kafkaVars
<1>2. /\ queue'[e] = Append(queue[e], position[e] + 1) /\ position'[e] = position[e] + 1
      /\ UNCHANGED <<worker, retries, committed, owner>>
  BY DEF TypeInv, TypeOK, WorkerTypes, kafkaVars
<1>3. /\ Len(queue'[e]) = Len(queue[e]) + 1
      /\ queue'[e][Len(queue[e]) + 1] = position[e] + 1
      /\ \A i \in 1 .. Len(queue[e]) : queue'[e][i] = queue[e][i]
  BY <1>2, PositionsInLog, AppendProperties
<1>4. WorkerFrontier(e)' /\ RetryFrontier(e)'
  <2>1. /\ \A p \in 1 .. Len(log) : Settled(p) => Settled(p)'
        /\ Len(log) \in Nat /\ worker[e].at \in 0 .. Len(log)
        /\ \A i \in 1 .. Len(retries[e]) : retries[e][i] \in 1 .. Len(log)
        /\ WorkerFrontier(e) /\ RetryFrontier(e)
    BY EngineFacts
  <2>2. \A p \in 1 .. worker[e].at : p \in 1 .. Len(log)
    BY <2>1
  <2>3. \A i \in 1 .. Len(retries[e]) : \A p \in 1 .. retries[e][i] : p \in 1 .. Len(log)
    BY <2>1
  <2>4. WorkerFrontier(e)'
    BY <1>2, <2>1, <2>2 DEF WorkerFrontier
  <2>5. RetryFrontier(e)'
    BY <1>2, <2>1, <2>3 DEF RetryFrontier
  <2> QED BY <2>4, <2>5
<1>5. \A p \in 1 .. Len(log) : Holds(e, p) => Holds(e, p)'
  BY <1>2 DEF Holds
<1>6. \A p \in 1 .. position[e] :
        Settled(p)' \/ Holds(e, p)' \/ \E j \in 1 .. Len(queue[e]) : queue'[e][j] = p
  <2>1. OwnerFrontier(e) /\ owner = e
    BY EngineFacts
  <2> QED BY <1>3, <1>5, <2>1, EngineFacts DEF OwnerFrontier
<1>7. QueueFrontier(e)'
  <2>1. ASSUME NEW i \in 1 .. Len(queue'[e]), NEW p \in 1 .. queue'[e][i] - 1
        PROVE  Settled(p)' \/ Holds(e, p)' \/ \E j \in 1 .. i - 1 : queue'[e][j] = p
    <3>1. CASE i = Len(queue[e]) + 1
      BY <1>3, <1>6, <3>1, EngineFacts
    <3>2. CASE i # Len(queue[e]) + 1
      <4>1. i \in 1 .. Len(queue[e]) /\ p \in 1 .. queue[e][i] - 1 /\ p \in 1 .. Len(log)
        BY <1>3, <3>2, EngineFacts
      <4>2. Settled(p) \/ Holds(e, p) \/ \E j \in 1 .. i - 1 : queue[e][j] = p
        BY <4>1, EngineFacts DEF QueueFrontier
      <4> QED BY <1>3, <1>5, <4>1, <4>2, EngineFacts
    <3> QED BY <3>1, <3>2
  <2> QED BY <2>1 DEF QueueFrontier
<1>8. OwnerFrontier(e)'
  <2>1. ASSUME NEW p \in 1 .. position'[e]
        PROVE  Settled(p)' \/ Holds(e, p)' \/ \E j \in 1 .. Len(queue'[e]) : queue'[e][j] = p
    <3>1. CASE p = position[e] + 1
      BY <1>3, <3>1, EngineFacts
    <3>2. CASE p # position[e] + 1
      BY <1>2, <1>3, <1>6, <3>2, EngineFacts
    <3> QED BY <3>1, <3>2
  <2> QED BY <2>1 DEF OwnerFrontier
<1>9. NoBidLost'
  BY <1>2, SameOffset
<1> QED BY <1>1, <1>4, <1>7, <1>8, <1>9, AdvancesStep DEF SettleInv, EngineFrontier

\* The worker takes the first record of its queue.
LEMMA WorkerRecvSettles ==
    ASSUME TypeInv, SettleInv, SettledKept, NEW e \in Engines, WorkerRecv(e)
    PROVE  SettleInv'
<1> USE DEF WorkerRecv
<1>1. \A f \in Engines \ {e} : Advances(f)
  BY DEF Advances, TypeInv, TypeOK, WorkerTypes, kafkaVars
<1>2. /\ queue'[e] = Tail(queue[e]) /\ worker'[e].at = Head(queue[e])
      /\ worker'[e].step \in {"send", "dead"} /\ worker[e].step = "idle"
      /\ UNCHANGED <<position, retries, committed, owner>>
  BY DEF TypeInv, TypeOK, WorkerTypes, kafkaVars
<1>3. /\ Len(queue[e]) >= 1 /\ Head(queue[e]) = queue[e][1]
      /\ Len(queue'[e]) = Len(queue[e]) - 1
      /\ \A i \in 1 .. Len(queue'[e]) : queue'[e][i] = queue[e][i + 1]
  <2>1. queue[e] \in Seq(1 .. Len(log)) /\ queue[e] # <<>>
    BY PositionsInLog
  <2>2. /\ Len(Tail(queue[e])) = Len(queue[e]) - 1
        /\ \A i \in 1 .. Len(Tail(queue[e])) : Tail(queue[e])[i] = queue[e][i + 1]
    BY <2>1, HeadTailProperties
  <2>3. Len(queue[e]) >= 1 /\ Head(queue[e]) = queue[e][1]
    BY <2>1
  <2> QED BY <1>2, <2>2, <2>3
<1>4. \A p \in Nat : ~Holds(e, p) /\ (p = queue[e][1] => Holds(e, p)')
  BY <1>2, <1>3 DEF Holds
<1>5. \A k \in 1 .. Len(queue[e]), p \in 1 .. Len(log) :
        queue[e][k] = p => Holds(e, p)' \/ (k > 1 /\ queue'[e][k - 1] = p)
  <2> SUFFICES ASSUME NEW k \in 1 .. Len(queue[e]), NEW p \in 1 .. Len(log), queue[e][k] = p
               PROVE  Holds(e, p)' \/ (k > 1 /\ queue'[e][k - 1] = p)
    OBVIOUS
  <2>1. CASE k = 1
    BY <1>4, <2>1
  <2>2. CASE k # 1
    BY <1>3, <2>2, EngineFacts
  <2> QED BY <2>1, <2>2
<1>6. WorkerFrontier(e)'
  <2>1. \A p \in 1 .. queue[e][1] - 1 : Settled(p)
    BY <1>3, <1>4, EngineFacts DEF QueueFrontier
  <2> QED BY <1>2, <1>3, <2>1, EngineFacts DEF WorkerFrontier
<1>7. QueueFrontier(e)'
  <2>1. ASSUME NEW i \in 1 .. Len(queue'[e]), NEW p \in 1 .. queue'[e][i] - 1
        PROVE  Settled(p)' \/ Holds(e, p)' \/ \E j \in 1 .. i - 1 : queue'[e][j] = p
    <3>1. i + 1 \in 1 .. Len(queue[e]) /\ p \in 1 .. queue[e][i + 1] - 1 /\ p \in 1 .. Len(log)
      BY <1>3, EngineFacts
    <3>2. Settled(p) \/ \E k \in 1 .. i : queue[e][k] = p
      <4>1. Settled(p) \/ Holds(e, p) \/ \E k \in 1 .. (i + 1) - 1 : queue[e][k] = p
        BY <3>1, EngineFacts DEF QueueFrontier
      <4> QED BY <1>4, <4>1
    <3>3. CASE Settled(p)
      BY <3>1, <3>3, EngineFacts
    <3>4. ASSUME NEW k \in 1 .. i, queue[e][k] = p
          PROVE  Holds(e, p)' \/ \E j \in 1 .. i - 1 : queue'[e][j] = p
      <4>1. k \in 1 .. Len(queue[e])
        BY <3>1
      <4>2. Holds(e, p)' \/ (k > 1 /\ queue'[e][k - 1] = p)
        BY <1>5, <3>1, <3>4, <4>1
      <4>3. k > 1 => k - 1 \in 1 .. i - 1
        OBVIOUS
      <4> QED BY <4>2, <4>3
    <3> QED BY <3>2, <3>3, <3>4
  <2> QED BY <2>1 DEF QueueFrontier
<1>8. OwnerFrontier(e)'
  <2>1. ASSUME owner' = e, NEW p \in 1 .. position'[e]
        PROVE  Settled(p)' \/ Holds(e, p)' \/ \E j \in 1 .. Len(queue'[e]) : queue'[e][j] = p
    <3>1. p \in 1 .. position[e] /\ p \in 1 .. Len(log) /\ owner = e
      BY <1>2, <2>1, EngineFacts
    <3>2. Settled(p) \/ \E k \in 1 .. Len(queue[e]) : queue[e][k] = p
      BY <1>4, <3>1, EngineFacts DEF OwnerFrontier
    <3>3. CASE Settled(p)
      BY <3>1, <3>3, EngineFacts
    <3>4. ASSUME NEW k \in 1 .. Len(queue[e]), queue[e][k] = p
          PROVE  Holds(e, p)' \/ \E j \in 1 .. Len(queue'[e]) : queue'[e][j] = p
      <4>1. Holds(e, p)' \/ (k > 1 /\ queue'[e][k - 1] = p)
        BY <1>5, <3>1, <3>4
      <4>2. k > 1 => k - 1 \in 1 .. Len(queue'[e])
        BY <1>3
      <4> QED BY <4>1, <4>2
    <3> QED BY <3>2, <3>3, <3>4
  <2> QED BY <2>1 DEF OwnerFrontier
<1>9. RetryFrontier(e)' /\ NoBidLost'
  BY <1>2, SameOffset, EngineFacts DEF RetryFrontier
<1> QED BY <1>1, <1>6, <1>7, <1>8, <1>9, AdvancesStep DEF SettleInv, EngineFrontier

\* A committed record is settled.
LEMMA CommitSettles ==
    ASSUME TypeInv, SettleInv, SettledKept, NEW e \in Engines, Commit(e)
    PROVE  SettleInv'
<1> USE DEF Commit
<1>1. \A f \in Engines \ {e} : Advances(f)
  BY DEF Advances, TypeInv, TypeOK, WorkerTypes
<1>2. worker'[e].step = "idle" /\ UNCHANGED <<position, queue, owner>>
  BY DEF TypeInv, TypeOK, WorkerTypes
<1>3. \A p \in 1 .. worker[e].at : Settled(p)'
  BY EngineFacts DEF WorkerFrontier
<1>4. NoBidLost'
  <2>1. CASE committed' = worker[e].at
    BY <1>3, <2>1 DEF NoBidLost
  <2>2. CASE committed' = committed
    BY <2>2, SameOffset
  <2> QED BY <2>1, <2>2
<1>5. WorkerFrontier(e)'
  BY <1>2 DEF WorkerFrontier
<1>6. \A p \in 1 .. Len(log) : Holds(e, p) => Settled(p)'
  BY <1>3, EngineFacts DEF Holds
<1>7. QueueFrontier(e)'
  <2>1. ASSUME NEW i \in 1 .. Len(queue[e]), NEW p \in 1 .. queue[e][i] - 1
        PROVE  Settled(p)' \/ \E j \in 1 .. i - 1 : queue[e][j] = p
    <3>1. p \in 1 .. Len(log)
      BY EngineFacts
    <3>2. Settled(p) \/ Holds(e, p) \/ \E j \in 1 .. i - 1 : queue[e][j] = p
      BY EngineFacts DEF QueueFrontier
    <3> QED BY <1>6, <3>1, <3>2, EngineFacts
  <2> QED BY <1>2, <2>1 DEF QueueFrontier
<1>8. OwnerFrontier(e)'
  <2>1. ASSUME owner = e, NEW p \in 1 .. position[e]
        PROVE  Settled(p)' \/ \E j \in 1 .. Len(queue[e]) : queue[e][j] = p
    <3>1. p \in 1 .. Len(log)
      BY EngineFacts
    <3>2. Settled(p) \/ Holds(e, p) \/ \E j \in 1 .. Len(queue[e]) : queue[e][j] = p
      BY <2>1, EngineFacts DEF OwnerFrontier
    <3> QED BY <1>6, <3>1, <3>2, EngineFacts
  <2> QED BY <1>2, <2>1 DEF OwnerFrontier
<1>9. RetryFrontier(e)'
  <2>1. CASE retries' = retries
    BY <2>1, EngineFacts DEF RetryFrontier
  <2>2. CASE retries'[e] = Append(retries[e], worker[e].at)
    <3>1. /\ Len(retries'[e]) = Len(retries[e]) + 1
          /\ retries'[e][Len(retries[e]) + 1] = worker[e].at
          /\ \A i \in 1 .. Len(retries[e]) : retries'[e][i] = retries[e][i]
      BY <2>2, PositionsInLog, AppendProperties
    <3>2. \A i \in 1 .. Len(retries[e]) : \A p \in 1 .. retries[e][i] : Settled(p)'
      BY EngineFacts DEF RetryFrontier
    <3>3. ASSUME NEW i \in 1 .. Len(retries'[e]), NEW p \in 1 .. retries'[e][i]
          PROVE  Settled(p)'
      <4>1. CASE i = Len(retries[e]) + 1
        BY <1>3, <3>1, <4>1
      <4>2. CASE i # Len(retries[e]) + 1
        <5>1. i \in 1 .. Len(retries[e]) /\ retries'[e][i] = retries[e][i]
          BY <3>1, <4>2, EngineFacts
        <5> QED BY <3>2, <5>1
      <4> QED BY <4>1, <4>2
    <3> QED BY <3>3 DEF RetryFrontier
  <2>3. retries' = retries \/ retries'[e] = Append(retries[e], worker[e].at)
    BY DEF TypeInv, TypeOK, WorkerTypes
  <2> QED BY <2>1, <2>2, <2>3
<1> QED BY <1>1, <1>4, <1>5, <1>7, <1>8, <1>9, AdvancesStep DEF SettleInv, EngineFrontier

\* A late retry may move the committed offset backwards, never past a record
\* that is not settled.
LEMMA RetryCommitSettles ==
    ASSUME TypeInv, SettleInv, SettledKept, NEW e \in Engines, RetryCommit(e)
    PROVE  SettleInv'
<1> USE DEF RetryCommit
<1>1. \A f \in Engines \ {e} : Advances(f)
  BY DEF Advances, TypeInv, TypeOK, WorkerTypes
<1>2. retries'[e] = Tail(retries[e]) /\ UNCHANGED <<worker, position, queue, owner>>
  BY DEF TypeInv, TypeOK, WorkerTypes
<1>3. \A i \in 1 .. Len(retries[e]) : \A p \in 1 .. retries[e][i] : Settled(p)'
  BY EngineFacts DEF RetryFrontier
<1>4. /\ Len(retries[e]) >= 1 /\ Head(retries[e]) = retries[e][1]
      /\ Len(retries'[e]) = Len(retries[e]) - 1
      /\ \A i \in 1 .. Len(retries'[e]) : retries'[e][i] = retries[e][i + 1]
  <2>1. retries[e] \in Seq(1 .. Len(log)) /\ retries[e] # <<>>
    BY PositionsInLog
  <2>2. /\ Len(Tail(retries[e])) = Len(retries[e]) - 1
        /\ \A i \in 1 .. Len(Tail(retries[e])) : Tail(retries[e])[i] = retries[e][i + 1]
    BY <2>1, HeadTailProperties
  <2>3. Len(retries[e]) >= 1 /\ Head(retries[e]) = retries[e][1]
    BY <2>1
  <2> QED BY <1>2, <2>2, <2>3
<1>5. NoBidLost'
  <2>1. CASE committed' = Head(retries[e])
    BY <1>3, <1>4, <2>1, EngineFacts DEF NoBidLost
  <2>2. CASE committed' = committed
    BY <2>2, SameOffset
  <2> QED BY <2>1, <2>2
<1>6. RetryFrontier(e)'
  BY <1>3, <1>4, EngineFacts DEF RetryFrontier
<1>7. WorkerFrontier(e)'
  BY <1>2, EngineFacts DEF WorkerFrontier
<1>8. \A p \in 1 .. Len(log) : Settled(p) \/ Holds(e, p) => Settled(p)' \/ Holds(e, p)'
  BY <1>2, EngineFacts DEF Holds
<1>9. QueueFrontier(e)' /\ OwnerFrontier(e)'
  <2>1. ASSUME NEW i \in 1 .. Len(queue[e]), NEW p \in 1 .. queue[e][i] - 1
        PROVE  Settled(p)' \/ Holds(e, p)' \/ \E j \in 1 .. i - 1 : queue[e][j] = p
    <3>1. p \in 1 .. Len(log)
      BY EngineFacts
    <3> QED BY <1>8, <3>1, EngineFacts DEF QueueFrontier
  <2>2. ASSUME owner = e, NEW p \in 1 .. position[e]
        PROVE  Settled(p)' \/ Holds(e, p)' \/ \E j \in 1 .. Len(queue[e]) : queue[e][j] = p
    <3>1. p \in 1 .. Len(log)
      BY EngineFacts
    <3> QED BY <1>8, <2>2, <3>1, EngineFacts DEF OwnerFrontier
  <2> QED BY <1>2, <2>1, <2>2 DEF QueueFrontier, OwnerFrontier
<1> QED BY <1>1, <1>5, <1>6, <1>7, <1>9, AdvancesStep DEF SettleInv, EngineFrontier

\* Every step keeps the invariant.
LEMMA SettleStep ==
    ASSUME TypeInv, StreamInv, SettleInv, [Next]_vars
    PROVE  SettleInv'
<1>1. SettledKept
  BY SettledStaysSettled
<1>2. ASSUME NEW b \in Bids, IngestBid(b) PROVE WorkersAdvance
  BY <1>2 DEF IngestBid, workerVars, WorkersAdvance, Advances
<1>3. CASE EndTimePasses \/ Hydrate \/ UNCHANGED vars
  <2>1. WorkersAdvance
    BY <1>3 DEF EndTimePasses, Hydrate, vars, kafkaVars, workerVars, WorkersAdvance, Advances
  <2> QED BY <1>1, <2>1, WorkersAdvanceStep
<1>4. ASSUME NEW e \in Engines, PublisherStep(e) PROVE WorkersAdvance
  BY <1>4 DEF PublisherStep, PublisherRead, PublisherWake, PublishDecision,
              PublishNotification, PublisherXdel, kafkaVars, workerVars, WorkersAdvance, Advances
<1>5. ASSUME NEW e \in Engines, WorkerStep(e) PROVE SettleInv'
  BY <1>1, <1>5, WorkerRecvSettles, CommitSettles, WorkerSendAdvances, WorkersAdvanceStep
     DEF WorkerStep
<1>6. ASSUME NEW e \in Engines, ActorStep(e) PROVE SettleInv'
  BY <1>1, <1>6, ActorStepAdvances, WorkersAdvanceStep
<1>7. ASSUME NEW e \in Engines, Assign(e) \/ Crash(e) \/ Fetch(e) \/ RetryCommit(e)
      PROVE  SettleInv'
  BY <1>1, <1>7, AssignSettles, CrashSettles, FetchSettles, RetryCommitSettles
<1> QED BY <1>1, <1>2, <1>3, <1>4, <1>5, <1>6, <1>7, WorkersAdvanceStep DEF Next

\* Initially nothing is committed.
LEMMA InitSettles == Init => SettleInv
  BY DEF Init, SettleInv, NoBidLost, EngineFrontier, WorkerFrontier, QueueFrontier,
         OwnerFrontier, RetryFrontier

\* No bid below the committed offset is ever lost: for every number of engines
\* and every mix of crashes, rebalances that leave the old owner running, failed
\* Redis and Kafka calls, lost replies and late or lost commits.
THEOREM BidsNeverLost == Spec => []NoBidLost
<1>1. Init => TypeInv /\ StreamInv /\ SettleInv
  BY InitTypes, InitStream, InitSettles
<1>2. TypeInv /\ StreamInv /\ SettleInv /\ [Next]_vars => TypeInv' /\ StreamInv' /\ SettleInv'
  BY NextTypes, StreamStep, SettleStep
<1>3. SettleInv => NoBidLost
  BY DEF SettleInv
<1> QED BY <1>1, <1>2, <1>3, PTL DEF Spec

-----------------------------------------------------------------------------
(* Part 3: the hypotheses *)

\* No fault makes an actor decide from a price that is not the ledger's.
OrderlyFaults == Faults \cap {"rebalance", "reply_lost", "read", "unhydrated"} = {}

\* publish_bid gives every request without an id a new UUID, and the web client
\* sends none.
RequestIdsUnique == \A b, c \in Bids : b.id = c.id => b = c

-----------------------------------------------------------------------------
(* The inductive invariant *)

Members == {ledger[i] : i \in DOMAIN ledger}
Price == IF ledger = <<>> THEN StartPrice ELSE ledger[Len(ledger)].amount
Beats(amount) == is_better_bid(AuctionType, Price, amount, Step)
BidOf(d) == [id |-> d.id, amount |-> d.amount]

Deciding == {"select", "script", "get", "replay", "reject"}
Closing == {"drain", "winner", "hset", "sync", "emit"}
IsCurrent(rt, price) ==
    rt.type = AuctionType /\ rt.price = price /\ rt.step = Step /\ rt.reserve = Reserve /\ rt.known

\* The sorted set and the idempotency keys hold what is in the ledger.
BookInv ==
    /\ hydrated
    /\ zset = Members /\ processed = Members
    /\ \A d \in Members : d.executed /\ BidOf(d) \in Bids
    /\ PriceImproves
    /\ \A m \in Members : RanksFirst(AuctionType, Price, m.amount)

\* An accepting decision is in the ledger; a rejected bid does not improve the
\* price and never will.
TrailInv ==
    /\ \A d \in Decided : BidOf(d) \in Bids
    /\ \A d \in Decided : d.executed => d \in Members
    /\ \A d \in Decided : ~d.executed => ~Beats(d.amount) /\ \A m \in Members : m.id # d.id
    /\ \A e \in Engines : \A x \in batch[e] : x.decision \in Decided

\* Winners are announced after the sync record, which is written when no actor
\* can accept a bid any more.
CloseInv ==
    /\ synced => ended
    /\ announced # {} => synced
    /\ \A w \in announced : w = WinnerOf(Configured, zset)

\* Only the owner of the partition works.  Its actor's price is the ledger's, so its
\* verdict on the bid in its hands is right, also when it writes it.
EngineInv(e) ==
    /\ e # owner => actor[e] = "absent" /\ worker[e].step = "idle" /\ queue[e] = <<>>
    /\ actor[e] \notin {"absent", "load"} => IsCurrent(runtime[e], Price)
    /\ actor[e] = "script" => Beats(log[task[e]].amount)
    /\ actor[e] \in {"get", "replay", "reject"} => ~Beats(log[task[e]].amount)
    /\ actor[e] = "reject" => \A d \in processed : d.id # log[task[e]].id
    /\ actor[e] \in Closing => ended
    /\ synced => actor[e] \notin Deciding
    /\ actor[e] = "emit" => synced
    /\ actor[e] \in {"hset", "sync", "emit"} => winner[e] = WinnerOf(Configured, zset)

EnginesInv == \A e \in Engines : EngineInv(e)

RefinementInv == TypeInv /\ StreamInv /\ BookInv /\ TrailInv /\ CloseInv /\ EnginesInv

-----------------------------------------------------------------------------
(* The price and the ledger *)

\* The four kinds of fault do not happen.
LEMMA Orderly ==
    ASSUME OrderlyFaults, NEW kind, Fault(kind)
    PROVE  kind \notin {"rebalance", "reply_lost", "read", "unhydrated"}
  BY DEF OrderlyFaults, Fault

\* A bid is its request id and its amount.
LEMMA BidsAreRecords == \A b \in Bids : b = [id |-> b.id, amount |-> b.amount]
  BY ConstantsAssumption

\* A bid beats the price that a better bid has beaten.
LEMMA BeatsBack ==
    ASSUME NEW p \in Nat, NEW a \in Nat, NEW b \in Nat, is_better_bid(AuctionType, p, a, Step),
           is_better_bid(AuctionType, a, b, Step)
    PROVE  is_better_bid(AuctionType, p, b, Step)
  BY ConstantsAssumption DEF is_better_bid

\* A bid that beats a price ranks before all that the price ranks before.
LEMMA BeatsRanks ==
    ASSUME NEW p \in Nat, NEW a \in Nat, is_better_bid(AuctionType, p, a, Step)
    PROVE  /\ RanksFirst(AuctionType, a, a)
           /\ \A b \in Nat : RanksFirst(AuctionType, p, b) => RanksFirst(AuctionType, a, b)
  BY ConstantsAssumption DEF is_better_bid, RanksFirst, AuctionTypes

\* Types of what the ledger holds.
LEMMA BookTypes ==
    ASSUME TypeInv
    PROVE  /\ ledger \in Seq(Decision) /\ Members \subseteq Decision
           /\ Len(ledger) \in Nat /\ DOMAIN ledger = 1 .. Len(ledger)
           /\ ledger # <<>> => Len(ledger) \in DOMAIN ledger /\ ledger[Len(ledger)] \in Members
           /\ Price \in Nat
           /\ \A d \in Decision : d.amount \in Nat /\ d.amount <= MaxPrice
<1>1. ledger \in Seq(Decision)
  BY DEF TypeInv, TypeOK, RedisTypes
<1>2. Len(ledger) \in Nat /\ DOMAIN ledger = 1 .. Len(ledger) /\ Members \subseteq Decision
  BY <1>1 DEF Members
<1>3. \A d \in Decision : d.amount \in Nat /\ d.amount <= MaxPrice
  BY DecisionAmounts
<1>4. ledger # <<>> => Len(ledger) \in DOMAIN ledger
  <2>1. ledger # <<>> => Len(ledger) # 0
    BY <1>1, EmptySeq
  <2> QED BY <1>2, <2>1
<1>5. ledger # <<>> => ledger[Len(ledger)] \in Members
  BY <1>4 DEF Members
<1>6. Price \in Nat
  BY <1>2, <1>3, <1>5, ConstantsAssumption DEF Price
<1> QED BY <1>1, <1>2, <1>3, <1>4, <1>5, <1>6

\* load_runtime restores the price of the ledger from the sorted set.
LEMMA SeedIsCurrent ==
    ASSUME TypeInv, BookInv
    PROVE  IsCurrent(Seed(Configured, zset), Price)
<1>1. /\ ledger \in Seq(Decision) /\ Members \subseteq Decision
      /\ ledger # <<>> => ledger[Len(ledger)] \in Members
      /\ Price \in Nat /\ \A d \in Decision : d.amount \in Nat /\ d.amount <= MaxPrice
  BY BookTypes
<1>2. zset = Members /\ \A m \in Members : RanksFirst(AuctionType, Price, m.amount)
  BY DEF BookInv
<1>3. CASE ledger = <<>>
  <2>1. Members = {} /\ Price = StartPrice
    BY <1>3 DEF Members, Price
  <2> QED BY <1>2, <2>1 DEF Seed, IsCurrent, Configured
<1>4. CASE ledger # <<>>
  <2>1. PICK m \in Members : m.amount = Price
    BY <1>1, <1>4 DEF Price
  <2>2. PICK best : best = BestBid(AuctionType, Members)
    OBVIOUS
  <2>3. best \in Members /\ \A x \in Members : RanksFirst(AuctionType, best.amount, x.amount)
    <3>1. AuctionType \in AuctionTypes /\ Members # {}
      BY <2>1, ConstantsAssumption
    <3>2. \A d \in Members : d.amount \in Nat /\ d.amount <= MaxPrice
      BY <1>1
    <3> QED BY <2>2, <3>1, <3>2, BestBidProperties
  <2>4. RanksFirst(AuctionType, best.amount, Price) /\ RanksFirst(AuctionType, Price, best.amount)
    BY <1>2, <2>1, <2>3
  <2>5. best.amount = Price
    <3>1. best.amount \in Nat
      BY <1>1, <2>3
    <3> QED BY <1>1, <2>4, <3>1 DEF RanksFirst
  <2>6. Seed(Configured, zset) = [Configured EXCEPT !.price = Price]
    BY <1>2, <2>1, <2>2, <2>5 DEF Seed, Configured
  <2> QED BY <2>6 DEF IsCurrent, Configured
<1> QED BY <1>3, <1>4

\* The accepting script appends a bid that beats the price.
LEMMA LedgerGrows ==
    ASSUME TypeInv, NEW d \in Decision, ledger' = Append(ledger, d)
    PROVE  /\ Members' = Members \cup {d} /\ Price' = d.amount
           /\ BookInv /\ Beats(d.amount) => PriceImproves'
<1>1. ledger \in Seq(Decision) /\ Len(ledger) \in Nat /\ DOMAIN ledger = 1 .. Len(ledger)
  BY BookTypes
<1>2. /\ DOMAIN ledger' = 1 .. (Len(ledger) + 1) /\ Len(ledger') = Len(ledger) + 1 /\ ledger' # <<>>
      /\ \A i \in 1 .. Len(ledger) : ledger'[i] = ledger[i]
      /\ ledger'[Len(ledger) + 1] = d
  BY <1>1
<1>3. 1 .. (Len(ledger) + 1) = (1 .. Len(ledger)) \cup {Len(ledger) + 1}
  BY <1>1
<1>4. Members' = Members \cup {d}
  BY <1>1, <1>2, <1>3 DEF Members
<1>5. Price' = d.amount
  BY <1>2 DEF Price
<1>6. ASSUME BookInv, Beats(d.amount) PROVE PriceImproves'
  <2> SUFFICES ASSUME NEW i \in 1 .. (Len(ledger) + 1)
               PROVE  is_better_bid(AuctionType, IF i = 1 THEN StartPrice ELSE ledger'[i - 1].amount,
                                    ledger'[i].amount, Step)
    BY <1>2 DEF PriceImproves
  <2>1. CASE i \in 1 .. Len(ledger)
    <3>1. i # 1 => i - 1 \in 1 .. Len(ledger)
      BY <1>1, <2>1
    <3>2. ledger'[i] = ledger[i] /\ (i # 1 => ledger'[i - 1] = ledger[i - 1])
      BY <1>2, <2>1, <3>1
    <3>3. is_better_bid(AuctionType, IF i = 1 THEN StartPrice ELSE ledger[i - 1].amount, ledger[i].amount, Step)
      BY <1>1, <1>6, <2>1 DEF BookInv, PriceImproves
    <3> QED BY <3>2, <3>3
  <2>2. CASE i = Len(ledger) + 1
    <3>1. Price = IF i = 1 THEN StartPrice ELSE ledger'[i - 1].amount
      <4>1. ledger = <<>> <=> i = 1
        BY <1>1, <2>2, EmptySeq
      <4>2. i # 1 => i - 1 = Len(ledger) /\ Len(ledger) \in 1 .. Len(ledger)
        BY <1>1, <2>2
      <4> QED BY <1>2, <4>1, <4>2 DEF Price
    <3> QED BY <1>2, <1>6, <2>2, <3>1 DEF Beats
  <2> QED BY <1>3, <2>1, <2>2
<1> QED BY <1>4, <1>5, <1>6

-----------------------------------------------------------------------------
(* Steps that leave the book alone *)

\* Nothing is written to the ledger.
LEMMA SameBook ==
    ASSUME BookInv, UNCHANGED <<ledger, zset, processed, hydrated>>
    PROVE  BookInv' /\ Price' = Price /\ Members' = Members
<1>1. Price' = Price /\ Members' = Members
  BY DEF Price, Members
<1> QED BY <1>1 DEF BookInv, PriceImproves

\* No decision is written, and what is read was pending.
LEMMA SameTrail ==
    ASSUME TrailInv, UNCHANGED ledger, Decided' = Decided,
           \A e \in Engines : \A x \in batch'[e] : x \in batch[e] \/ x.decision \in Decided
    PROVE  TrailInv'
<1>1. Price' = Price /\ Members' = Members
  BY DEF Price, Members
<1> QED BY <1>1 DEF TrailInv, Beats

\* The auction is not closed in this step.
LEMMA SameClose ==
    ASSUME CloseInv, UNCHANGED <<zset, announced, synced>>, ended => ended'
    PROVE  CloseInv'
  BY DEF CloseInv

\* An engine without actor and without records satisfies its invariant.
LEMMA IdleEngine ==
    ASSUME NEW f \in Engines, actor'[f] = "absent", worker'[f].step = "idle", queue'[f] = <<>>
    PROVE  EngineInv(f)'
  BY DEF EngineInv, Closing, Deciding

\* An engine's actor that takes no step keeps its invariant.
LEMMA SameEngine ==
    ASSUME TypeInv, NEW f \in Engines, EngineInv(f), UNCHANGED <<ledger, zset, processed, synced>>,
           ended => ended',
           actor'[f] = actor[f], runtime'[f] = runtime[f], winner'[f] = winner[f],
           Working(f) => log'[task'[f]] = log[task[f]],
           f # owner' => f # owner /\ worker'[f].step = worker[f].step /\ queue'[f] = queue[f]
    PROVE  EngineInv(f)'
<1>1. Price' = Price
  BY DEF Price
<1>2. f # owner' => actor'[f] = "absent" /\ worker'[f].step = "idle" /\ queue'[f] = <<>>
  BY DEF EngineInv
<1>3. actor'[f] \notin {"absent", "load"} => IsCurrent(runtime'[f], Price')
  BY <1>1 DEF EngineInv, IsCurrent
<1>4. Working(f) => log'[task'[f]].amount = log[task[f]].amount /\ log'[task'[f]].id = log[task[f]].id
  OBVIOUS
<1>5. /\ actor'[f] = "script" => is_better_bid(AuctionType, Price', log'[task'[f]].amount, Step)
      /\ actor'[f] \in {"get", "replay", "reject"} => ~is_better_bid(AuctionType, Price', log'[task'[f]].amount, Step)
  BY <1>1, <1>4 DEF EngineInv, Beats, Working
<1>6. actor'[f] = "reject" => \A d \in processed' : d.id # log'[task'[f]].id
  BY <1>4 DEF EngineInv, Working
<1> QED BY <1>2, <1>3, <1>5, <1>6 DEF EngineInv, Beats

\* Whoever works owns the partition, and the others are idle.
LEMMA OnlyOwner ==
    ASSUME EnginesInv, NEW e \in Engines, actor[e] # "absent" \/ worker[e].step # "idle" \/ queue[e] # <<>>
    PROVE  /\ owner = e
           /\ \A f \in Engines : f # e => actor[f] = "absent" /\ worker[f].step = "idle" /\ queue[f] = <<>>
  BY DEF EnginesInv, EngineInv

\* Bids are appended, time passes, the scheduler comes.
LEMMA EnvironmentBook ==
    ASSUME RefinementInv, \/ \E b \in Bids : IngestBid(b)
                          \/ EndTimePasses \/ Hydrate \/ UNCHANGED vars
    PROVE  BookInv' /\ TrailInv' /\ CloseInv' /\ EnginesInv'
<1> USE DEF RefinementInv
<1>1. /\ UNCHANGED <<ledger, zset, processed, pending, decisions, synced, announced, owner>>
      /\ UNCHANGED <<queue, worker, actor, task, runtime, winner, batch>> /\ (ended => ended')
  BY DEF IngestBid, EndTimePasses, Hydrate, vars, kafkaVars, redisVars, workerVars, actorVars, pubVars, envVars
<1>2. hydrated' = hydrated
  BY DEF IngestBid, EndTimePasses, Hydrate, vars, redisVars, BookInv
<1>3. BookInv'
  BY <1>1, <1>2, SameBook
<1>4. Decided' = Decided
  BY <1>1 DEF Decided
<1>5. TrailInv' /\ CloseInv'
  BY <1>1, <1>4, SameTrail, SameClose
<1>6. ASSUME NEW f \in Engines PROVE EngineInv(f)'
  <2>1. Working(f) => log'[task[f]] = log[task[f]]
    <3>1. CASE log' = log
      BY <3>1
    <3>2. ASSUME NEW b \in Bids, IngestBid(b), Working(f) PROVE log'[task[f]] = log[task[f]]
      <4>1. task[f] \in 1 .. Len(log) /\ log \in Seq(Bids)
        BY <3>2 DEF TypeInv, TypeOK, OneTaskOutstanding, Working, KafkaTypes
      <4>2. log' = Append(log, b)
        BY <3>2 DEF IngestBid
      <4> QED BY <4>1, <4>2
    <3> QED BY <3>1, <3>2 DEF EndTimePasses, Hydrate, vars, kafkaVars
  <2>2. EngineInv(f)
    BY DEF EnginesInv
  <2> QED BY <1>1, <2>1, <2>2, SameEngine
<1> QED BY <1>3, <1>5, <1>6 DEF EnginesInv

\* The partition is assigned after its owner has died; nobody works then.
LEMMA AssignBook ==
    ASSUME OrderlyFaults, RefinementInv, NEW e \in Engines, Assign(e)
    PROVE  BookInv' /\ TrailInv' /\ CloseInv' /\ EnginesInv'
<1> USE DEF RefinementInv
<1>1. /\ UNCHANGED <<ledger, zset, processed, hydrated, pending, decisions, synced, announced, ended>>
      /\ UNCHANGED <<queue, worker, actor, batch>>
  BY DEF Assign, redisVars, actorVars, pubVars
<1>2. owner = Nobody
  BY Orderly DEF Assign
<1>3. Decided' = Decided
  BY <1>1 DEF Decided
<1>4. BookInv' /\ TrailInv' /\ CloseInv'
  BY <1>1, <1>3, SameBook, SameTrail, SameClose
<1>5. ASSUME NEW f \in Engines PROVE EngineInv(f)'
  <2>1. f # owner
    BY <1>2, ConstantsAssumption
  <2>2. actor[f] = "absent" /\ worker[f].step = "idle" /\ queue[f] = <<>>
    BY <2>1 DEF EnginesInv, EngineInv
  <2> QED BY <1>1, <2>2, IdleEngine
<1> QED BY <1>4, <1>5 DEF EnginesInv

\* An engine dies: it holds nothing any more.
LEMMA CrashBook ==
    ASSUME RefinementInv, NEW e \in Engines, Crash(e)
    PROVE  BookInv' /\ TrailInv' /\ CloseInv' /\ EnginesInv'
<1> USE DEF RefinementInv
<1>1. /\ UNCHANGED <<log, ledger, zset, processed, hydrated, pending, decisions, synced, announced, ended>>
      /\ owner' = IF owner = e THEN Nobody ELSE owner
  BY DEF Crash, redisVars
<1>2. /\ queue \in [Engines -> Seq(1 .. Len(log))]
      /\ worker \in [Engines -> [step : WorkerSteps, at : 0 .. Len(log)]]
      /\ actor \in [Engines -> ActorSteps] /\ batch \in [Engines -> SUBSET Entry]
      /\ task \in [Engines -> 0 .. Len(log)] /\ runtime \in [Engines -> Runtime]
      /\ winner \in [Engines -> RequestIds \cup {Nobody}]
  BY DEF TypeInv, TypeOK, WorkerTypes, ActorTypes, PublisherTypes
<1>3. Decided' = Decided
  BY <1>1 DEF Decided
<1>4. \A f \in Engines : batch'[f] \subseteq batch[f]
  BY <1>2 DEF Crash
<1>5. BookInv' /\ TrailInv' /\ CloseInv'
  BY <1>1, <1>3, <1>4, SameBook, SameTrail, SameClose
<1>6. EngineInv(e)'
  <2>1. actor'[e] = "absent" /\ worker'[e].step = "idle" /\ queue'[e] = <<>>
    BY <1>2 DEF Crash
  <2> QED BY <2>1, IdleEngine
<1>7. ASSUME NEW f \in Engines, f # e PROVE EngineInv(f)'
  <2>1. /\ actor'[f] = actor[f] /\ runtime'[f] = runtime[f] /\ winner'[f] = winner[f]
        /\ task'[f] = task[f] /\ worker'[f] = worker[f] /\ queue'[f] = queue[f]
    BY <1>2, <1>7 DEF Crash
  <2>2. f # owner' => f # owner
    BY <1>1, <1>7
  <2>3. EngineInv(f)
    BY DEF EnginesInv
  <2> QED BY <1>1, <2>1, <2>2, <2>3, SameEngine
<1> QED BY <1>5, <1>6, <1>7 DEF EnginesInv

\* The consumer and the worker move records; the actor is not concerned.
LEMMA WorkerBook ==
    ASSUME RefinementInv, NEW e \in Engines,
           Fetch(e) \/ RetryCommit(e) \/ WorkerRecv(e) \/ DeadLetter(e) \/ Commit(e)
    PROVE  BookInv' /\ TrailInv' /\ CloseInv' /\ EnginesInv'
<1> USE DEF RefinementInv
<1>1. /\ UNCHANGED <<log, owner, ledger, zset, processed, hydrated, pending, decisions, synced>>
      /\ UNCHANGED <<announced, ended, actor, runtime, task, winner, batch>>
  BY DEF Fetch, RetryCommit, WorkerRecv, DeadLetter, Commit, kafkaVars, redisVars, actorVars, pubVars, envVars
<1>2. /\ queue \in [Engines -> Seq(1 .. Len(log))]
      /\ worker \in [Engines -> [step : WorkerSteps, at : 0 .. Len(log)]]
  BY DEF TypeInv, TypeOK, WorkerTypes
<1>3. UNCHANGED <<worker, queue>> \/ owner = e
  <2>1. CASE Fetch(e) \/ RetryCommit(e)
    BY <2>1 DEF Fetch, RetryCommit
  <2>2. CASE WorkerRecv(e) \/ DeadLetter(e) \/ Commit(e)
    <3>1. worker[e].step # "idle" \/ queue[e] # <<>>
      BY <2>2 DEF WorkerRecv, DeadLetter, Commit
    <3> QED BY <3>1, OnlyOwner
  <2> QED BY <2>1, <2>2
<1>4. \A f \in Engines : f # e => worker'[f] = worker[f] /\ queue'[f] = queue[f]
  BY <1>2 DEF Fetch, RetryCommit, WorkerRecv, DeadLetter, Commit
<1>5. Decided' = Decided
  BY <1>1 DEF Decided
<1>6. BookInv' /\ TrailInv' /\ CloseInv'
  BY <1>1, <1>5, SameBook, SameTrail, SameClose
<1>7. ASSUME NEW f \in Engines PROVE EngineInv(f)'
  <2>1. EngineInv(f)
    BY DEF EnginesInv
  <2>2. f # owner' => worker'[f].step = worker[f].step /\ queue'[f] = queue[f]
    BY <1>1, <1>3, <1>4
  <2> QED BY <1>1, <2>1, <2>2, SameEngine
<1> QED BY <1>6, <1>7 DEF EnginesInv

\* A step of the owner's engine e: the other engines are idle and stay so.
LEMMA OwnerStep ==
    ASSUME RefinementInv, NEW e \in Engines, owner = e, UNCHANGED <<owner, queue>>,
           \A f \in Engines : f # e => actor'[f] = actor[f] /\ worker'[f] = worker[f],
           EngineInv(e)'
    PROVE  EnginesInv'
<1>1. ASSUME NEW f \in Engines, f # e PROVE EngineInv(f)'
  <2>1. actor[f] = "absent" /\ worker[f].step = "idle" /\ queue[f] = <<>>
    BY <1>1 DEF RefinementInv, EnginesInv, EngineInv
  <2> QED BY <1>1, <2>1, IdleEngine
<1> QED BY <1>1 DEF EnginesInv

\* The types of an engine's variables.
LEMMA EngineTypes ==
    ASSUME TypeInv
    PROVE  /\ queue \in [Engines -> Seq(1 .. Len(log))]
           /\ worker \in [Engines -> [step : WorkerSteps, at : 0 .. Len(log)]]
           /\ inbox \in [Engines -> Seq(1 .. Len(log))]
           /\ actor \in [Engines -> ActorSteps] /\ batch \in [Engines -> SUBSET Entry]
           /\ task \in [Engines -> 0 .. Len(log)] /\ runtime \in [Engines -> Runtime]
           /\ winner \in [Engines -> RequestIds \cup {Nobody}]
  BY DEF TypeInv, TypeOK, WorkerTypes, ActorTypes, PublisherTypes

\* A record is sent to the actor, which may have to be started.
LEMMA WorkerSendBook ==
    ASSUME RefinementInv, NEW e \in Engines, WorkerSend(e)
    PROVE  BookInv' /\ TrailInv' /\ CloseInv' /\ EnginesInv'
<1> USE DEF RefinementInv
<1>1. /\ UNCHANGED <<log, owner, ledger, zset, processed, hydrated, pending, decisions, synced>>
      /\ UNCHANGED <<announced, ended, runtime, task, winner, batch, queue>>
  BY DEF WorkerSend, kafkaVars, redisVars, envVars
<1>2. owner = e /\ EngineInv(e)
  BY OnlyOwner DEF WorkerSend, EnginesInv
<1>3. Decided' = Decided
  BY <1>1 DEF Decided
<1>4. BookInv' /\ TrailInv' /\ CloseInv'
  BY <1>1, <1>3, SameBook, SameTrail, SameClose
<1>5. \A f \in Engines : f # e => actor'[f] = actor[f] /\ worker'[f] = worker[f]
  BY EngineTypes DEF WorkerSend, get_or_create
<1>6. EngineInv(e)'
  <2>1. CASE actor[e] = "absent"
    <3>1. actor'[e] = "load"
      BY <2>1, EngineTypes DEF WorkerSend, get_or_create
    <3> QED BY <1>1, <1>2, <3>1 DEF EngineInv, Closing, Deciding
  <2>2. CASE actor[e] # "absent"
    <3>1. actor'[e] = actor[e]
      BY <2>2 DEF WorkerSend, get_or_create
    <3> QED BY <1>1, <1>2, <3>1, SameEngine
  <2> QED BY <2>1, <2>2
<1> QED BY <1>1, <1>2, <1>4, <1>5, <1>6, OwnerStep

\* load_runtime: the restored price is the ledger's.
LEMMA LoadRuntimeBook ==
    ASSUME OrderlyFaults, RefinementInv, NEW e \in Engines, LoadRuntime(e)
    PROVE  BookInv' /\ TrailInv' /\ CloseInv' /\ EnginesInv'
<1> USE DEF RefinementInv
<1>1. /\ UNCHANGED <<log, owner, ledger, zset, processed, hydrated, pending, decisions, synced>>
      /\ UNCHANGED <<announced, ended, task, winner, queue, worker>> /\ actor[e] = "load"
  BY DEF LoadRuntime, kafkaVars, redisVars, workerVars
<1>2. owner = e /\ EngineInv(e)
  BY <1>1, OnlyOwner DEF EnginesInv
<1>3. \/ /\ runtime' = [runtime EXCEPT ![e] = Seed(Configured, zset)]
         /\ actor' = [actor EXCEPT ![e] = LoopTop(Seed(Configured, zset))]
         /\ UNCHANGED batch
      \/ Panic(e)
  <2>1. CASE \E stateRead, bidsRead \in BOOLEAN :
              /\ IF stateRead /\ bidsRead THEN NoFault ELSE Fault("read")
              /\ LET rt == Seed(IF stateRead /\ hydrated THEN Configured ELSE Defaults,
                                IF bidsRead THEN zset ELSE {})
                 IN  /\ runtime' = [runtime EXCEPT ![e] = rt]
                     /\ actor' = [actor EXCEPT ![e] = LoopTop(rt)]
              /\ UNCHANGED pubVars
    <3>1. PICK stateRead, bidsRead \in BOOLEAN :
              /\ IF stateRead /\ bidsRead THEN NoFault ELSE Fault("read")
              /\ LET rt == Seed(IF stateRead /\ hydrated THEN Configured ELSE Defaults,
                                IF bidsRead THEN zset ELSE {})
                 IN  /\ runtime' = [runtime EXCEPT ![e] = rt]
                     /\ actor' = [actor EXCEPT ![e] = LoopTop(rt)]
              /\ UNCHANGED pubVars
      BY <2>1
    <3>2. stateRead /\ bidsRead
      BY <3>1, Orderly
    <3>3. hydrated
      BY DEF BookInv
    <3> QED BY <3>1, <3>2, <3>3 DEF pubVars
  <2> QED BY <2>1 DEF LoadRuntime
<1>4. Decided' = Decided
  BY <1>1 DEF Decided
<1>5. \A f \in Engines : batch'[f] \subseteq batch[f]
  BY <1>3, EngineTypes DEF Panic
<1>6. BookInv' /\ TrailInv' /\ CloseInv'
  BY <1>1, <1>4, <1>5, SameBook, SameTrail, SameClose
<1>7. \A f \in Engines : f # e => actor'[f] = actor[f] /\ worker'[f] = worker[f]
  BY <1>1, <1>3, EngineTypes DEF Panic
<1>8. EngineInv(e)'
  <2>1. CASE Panic(e)
    <3>1. actor'[e] = "load"
      BY <2>1, EngineTypes DEF Panic
    <3> QED BY <1>1, <1>2, <3>1 DEF EngineInv, Closing, Deciding
  <2>2. CASE /\ runtime' = [runtime EXCEPT ![e] = Seed(Configured, zset)]
             /\ actor' = [actor EXCEPT ![e] = LoopTop(Seed(Configured, zset))]
    <3>1. runtime'[e] = Seed(Configured, zset) /\ actor'[e] = LoopTop(Seed(Configured, zset))
      BY <2>2, EngineTypes
    <3>2. IsCurrent(runtime'[e], Price') /\ runtime'[e].known
      BY <1>1, <3>1, SeedIsCurrent, SameBook DEF IsCurrent
    <3>3. actor'[e] = IF ended THEN "drain" ELSE "select"
      BY <3>1, <3>2 DEF LoopTop
    <3>4. synced => ended
      BY DEF CloseInv
    <3> QED BY <1>1, <1>2, <3>2, <3>3, <3>4 DEF EngineInv, Closing, Deciding
  <2> QED BY <1>3, <2>1, <2>2
<1> QED BY <1>1, <1>2, <1>6, <1>7, <1>8, OwnerStep

\* The actor's verdict is that of the ledger's price.
LEMMA ActorRecvBook ==
    ASSUME RefinementInv, NEW e \in Engines, ActorRecv(e)
    PROVE  BookInv' /\ TrailInv' /\ CloseInv' /\ EnginesInv'
<1> USE DEF RefinementInv
<1>1. /\ UNCHANGED <<log, owner, ledger, zset, processed, hydrated, pending, decisions, synced>>
      /\ UNCHANGED <<announced, ended, runtime, winner, queue, worker, batch>> /\ actor[e] = "select"
  BY DEF ActorRecv, kafkaVars, redisVars, workerVars, pubVars, envVars
<1>2. owner = e /\ EngineInv(e)
  BY <1>1, OnlyOwner DEF EnginesInv
<1>3. Decided' = Decided
  BY <1>1 DEF Decided
<1>4. BookInv' /\ TrailInv' /\ CloseInv' /\ Price' = Price
  BY <1>1, <1>3, SameBook, SameTrail, SameClose
<1>5. \A f \in Engines : f # e => actor'[f] = actor[f] /\ worker'[f] = worker[f]
  BY <1>1, EngineTypes DEF ActorRecv
<1>6. ~synced /\ IsCurrent(runtime[e], Price)
  BY <1>1, <1>2 DEF EngineInv, Deciding
<1>7. actor'[e] = IF Beats(log'[task'[e]].amount) THEN "script" ELSE "get"
  <2>1. task'[e] = Head(inbox[e])
    BY EngineTypes DEF ActorRecv
  <2>2. actor'[e] = IF is_better_bid(runtime[e].type, runtime[e].price, log[Head(inbox[e])].amount, runtime[e].step)
                    THEN "script" ELSE "get"
    BY EngineTypes DEF ActorRecv
  <2> QED BY <1>1, <1>6, <2>1, <2>2 DEF IsCurrent, Beats
<1>8. EngineInv(e)'
  <2>1. actor'[e] = "script" => is_better_bid(AuctionType, Price', log'[task'[e]].amount, Step)
    BY <1>4, <1>7 DEF Beats
  <2>2. actor'[e] = "get" => ~is_better_bid(AuctionType, Price', log'[task'[e]].amount, Step)
    BY <1>4, <1>7 DEF Beats
  <2>3. actor'[e] \in {"script", "get"}
    BY <1>7
  <2>4. IsCurrent(runtime'[e], Price') /\ ~synced' /\ owner' = e
    BY <1>1, <1>2, <1>4, <1>6
  <2> QED BY <2>1, <2>2, <2>3, <2>4 DEF EngineInv, Beats, Closing, Deciding
<1> QED BY <1>1, <1>2, <1>4, <1>5, <1>8, OwnerStep

\* The actor works on a record of the log while the auction is open.
LEMMA WorkingFacts ==
    ASSUME RefinementInv, NEW e \in Engines, Working(e)
    PROVE  /\ owner = e /\ EngineInv(e) /\ ~synced /\ announced = {}
           /\ IsCurrent(runtime[e], Price) /\ log[task[e]] \in Bids
           /\ \A x \in BOOLEAN : /\ DecisionOf(e, x) \in Decision /\ BidOf(DecisionOf(e, x)) = log[task[e]]
                                 /\ DecisionOf(e, x).id = log[task[e]].id
                                 /\ DecisionOf(e, x).amount = log[task[e]].amount
                                 /\ DecisionOf(e, x).executed = x
<1> USE DEF RefinementInv
<1>1. owner = e /\ EngineInv(e)
  BY OnlyOwner DEF Working, EnginesInv
<1>2. ~synced /\ IsCurrent(runtime[e], Price)
  BY <1>1 DEF Working, EngineInv, Deciding
<1>3. announced = {}
  BY <1>2 DEF CloseInv
<1>4. log[task[e]] \in Bids
  BY DEF TypeInv, TypeOK, KafkaTypes, OneTaskOutstanding, Working
<1>5. log[task[e]] = [id |-> log[task[e]].id, amount |-> log[task[e]].amount]
  BY <1>4, BidsAreRecords
<1>6. \A x \in BOOLEAN : DecisionOf(e, x) \in Decision
  BY DecisionOfType
<1>7. \A x \in BOOLEAN : /\ DecisionOf(e, x).id = log[task[e]].id
                         /\ DecisionOf(e, x).amount = log[task[e]].amount
                         /\ DecisionOf(e, x).executed = x
  BY DEF DecisionOf
<1> QED BY <1>1, <1>2, <1>3, <1>4, <1>5, <1>6, <1>7 DEF BidOf

\* The actor answers and goes on with the ledger's price, or drains after the end.
LEMMA ReplyBook ==
    ASSUME RefinementInv, NEW e \in Engines, Working(e), NEW r, Reply(e, r),
           UNCHANGED <<owner, queue, synced, ended>>, IsCurrent(runtime'[e], Price')
    PROVE  EnginesInv'
<1>1. owner = e /\ ~synced /\ IsCurrent(runtime[e], Price) /\ TypeInv
  BY WorkingFacts DEF RefinementInv
<1>2. \A f \in Engines : f # e => actor'[f] = actor[f] /\ worker'[f] = worker[f]
  BY <1>1, EngineTypes DEF Reply
<1>3. actor'[e] = IF ended THEN "drain" ELSE "select"
  <2>1. actor'[e] = LoopTop(runtime[e])
    BY <1>1, EngineTypes DEF Reply
  <2> QED BY <1>1, <2>1 DEF LoopTop, IsCurrent
<1>4. EngineInv(e)'
  BY <1>1, <1>3 DEF EngineInv, Closing, Deciding
<1> QED BY <1>1, <1>2, <1>4, OwnerStep

\* The look-up of the stored decision.
LEMMA GetProcessedBook ==
    ASSUME RefinementInv, NEW e \in Engines, GetProcessed(e)
    PROVE  BookInv' /\ TrailInv' /\ CloseInv' /\ EnginesInv'
<1> USE DEF RefinementInv
<1>1. /\ UNCHANGED <<log, owner, ledger, zset, processed, hydrated, pending, decisions, synced>>
      /\ UNCHANGED <<announced, ended, runtime, winner, queue, batch>> /\ actor[e] = "get" /\ Working(e)
  BY DEF GetProcessed, kafkaVars, redisVars, pubVars, Working
<1>2. owner = e /\ EngineInv(e) /\ ~synced /\ IsCurrent(runtime[e], Price)
  BY <1>1, WorkingFacts
<1>3. Decided' = Decided
  BY <1>1 DEF Decided
<1>4. BookInv' /\ TrailInv' /\ CloseInv' /\ Price' = Price
  BY <1>1, <1>3, SameBook, SameTrail, SameClose
<1>5. CASE Reply(e, "Retryable")
  <2>1. EnginesInv'
    BY <1>1, <1>2, <1>4, <1>5, ReplyBook
  <2> QED BY <1>4, <2>1
<1>6. CASE /\ actor' = [actor EXCEPT ![e] = IF Stored(log[task[e]].id) # {} THEN "replay" ELSE "reject"]
           /\ UNCHANGED <<worker, task>>
  <2>1. \A f \in Engines : f # e => actor'[f] = actor[f] /\ worker'[f] = worker[f]
    BY <1>6, EngineTypes
  <2>2. actor'[e] = IF Stored(log[task[e]].id) # {} THEN "replay" ELSE "reject"
    BY <1>6, EngineTypes
  <2>3. log'[task'[e]] = log[task[e]]
    BY <1>1, <1>6
  <2>4. ~is_better_bid(AuctionType, Price', log'[task'[e]].amount, Step)
    BY <1>1, <1>2, <1>4, <2>3 DEF EngineInv, Beats
  <2>5. actor'[e] = "reject" => \A d \in processed' : d.id # log'[task'[e]].id
    BY <1>1, <2>2, <2>3 DEF Stored
  <2>6. actor'[e] \in {"replay", "reject"}
    BY <2>2
  <2>7. IsCurrent(runtime'[e], Price') /\ ~synced' /\ owner' = e
    BY <1>1, <1>2, <1>4
  <2>8. EngineInv(e)'
    BY <2>4, <2>5, <2>6, <2>7 DEF EngineInv, Beats, Closing, Deciding
  <2> QED BY <1>1, <1>2, <1>4, <2>1, <2>8, OwnerStep
<1> QED BY <1>5, <1>6 DEF GetProcessed

\* XADD adds one decision to the trail.
LEMMA XaddDecided ==
    ASSUME NEW d, Xadd(d), UNCHANGED decisions
    PROVE  Decided' = Decided \cup {d}
<1>1. PICK x : x = [sid |-> lastSid + 1, decision |-> d]
  OBVIOUS
<1>2. pending' = pending \cup {x} /\ x.decision = d
  BY <1>1 DEF Xadd
<1> QED BY <1>2 DEF Decided

\* A replayed record gets its stored verdict again.
LEMMA XaddReplayBook ==
    ASSUME OrderlyFaults, RefinementInv, NEW e \in Engines, XaddReplay(e)
    PROVE  BookInv' /\ TrailInv' /\ CloseInv' /\ EnginesInv' /\ Decided' = Decided
<1> USE DEF RefinementInv
<1>1. /\ UNCHANGED <<log, owner, ledger, zset, processed, hydrated, decisions, synced>>
      /\ UNCHANGED <<announced, ended, runtime, winner, queue, batch>> /\ Working(e)
  BY DEF XaddReplay, kafkaVars, pubVars, Working
<1>2. PICK r : Reply(e, r)
  BY DEF XaddReplay
<1>3. Decided' = Decided
  <2>1. UNCHANGED <<pending, lastSid>> \/ \E d \in processed : Xadd(d)
    BY DEF XaddReplay, Stored
  <2>2. CASE UNCHANGED <<pending, lastSid>>
    BY <1>1, <2>2 DEF Decided
  <2>3. ASSUME NEW d \in processed, Xadd(d) PROVE Decided' = Decided
    <3>1. d \in Decided
      BY DEF StreamInv, AcceptedAreDecided
    <3> QED BY <1>1, <2>3, <3>1, XaddDecided
  <2> QED BY <2>1, <2>2, <2>3
<1>4. BookInv' /\ TrailInv' /\ CloseInv' /\ Price' = Price
  BY <1>1, <1>3, SameBook, SameTrail, SameClose
<1>5. EnginesInv'
  BY <1>1, <1>2, <1>4, WorkingFacts, ReplyBook
<1> QED BY <1>3, <1>4, <1>5

\* What XaddReject writes, when it writes: a rejection of a bid that does not beat
\* the price and was not accepted.
Rejects(e) ==
    /\ Decided' = Decided \cup {DecisionOf(e, FALSE)}
    /\ ~Beats(log[task[e]].amount) /\ \A m \in Members : m.id # log[task[e]].id

\* A rejection is written for a bid that the book turns down.
LEMMA XaddRejectBook ==
    ASSUME OrderlyFaults, RefinementInv, NEW e \in Engines, XaddReject(e)
    PROVE  /\ BookInv' /\ TrailInv' /\ CloseInv' /\ EnginesInv'
           /\ Working(e) /\ UNCHANGED <<ledger, synced>> /\ (Decided' = Decided \/ Rejects(e))
<1> USE DEF RefinementInv
<1>1. /\ UNCHANGED <<log, owner, ledger, zset, processed, hydrated, decisions, synced>>
      /\ UNCHANGED <<announced, ended, runtime, winner, queue, batch>> /\ Working(e) /\ actor[e] = "reject"
  BY DEF XaddReject, kafkaVars, Working
<1>2. PICK r : Reply(e, r)
  BY DEF XaddReject
<1>3. PICK d : d = DecisionOf(e, FALSE)
  OBVIOUS
<1>4. /\ EngineInv(e) /\ IsCurrent(runtime[e], Price) /\ log[task[e]] \in Bids
      /\ BidOf(d) = log[task[e]] /\ d.id = log[task[e]].id /\ d.amount = log[task[e]].amount /\ ~d.executed
  BY <1>1, <1>3, WorkingFacts
<1>5. ~Beats(d.amount) /\ \A m \in Members : m.id # d.id
  BY <1>1, <1>4 DEF EngineInv, BookInv
<1>6. Decided' = Decided \/ Decided' = Decided \cup {d}
  <2>1. UNCHANGED <<pending, lastSid>> \/ Xadd(d)
    BY <1>3 DEF XaddReject
  <2>2. CASE UNCHANGED <<pending, lastSid>>
    BY <1>1, <2>2 DEF Decided
  <2>3. CASE Xadd(d)
    BY <1>1, <2>3, XaddDecided
  <2> QED BY <2>1, <2>2, <2>3
<1>7. BookInv' /\ CloseInv' /\ Price' = Price /\ Members' = Members
  BY <1>1, SameBook, SameClose
<1>8. TrailInv'
  <2>1. \A x \in Decided' : x \in Decided \/ x = d
    BY <1>6
  <2>2. Decided \subseteq Decided'
    BY <1>6
  <2>3. \A x \in Decided' : BidOf(x) \in Bids /\ (x.executed => x \in Members)
    BY <1>4, <2>1 DEF TrailInv
  <2>4. \A x \in Decided' : ~x.executed => ~Beats(x.amount) /\ \A m \in Members : m.id # x.id
    BY <1>5, <2>1 DEF TrailInv
  <2>5. \A f \in Engines : \A x \in batch'[f] : x.decision \in Decided'
    BY <1>1, <2>2 DEF TrailInv
  <2> QED BY <1>7, <2>3, <2>4, <2>5 DEF TrailInv, Beats
<1>9. EnginesInv'
  BY <1>1, <1>2, <1>4, <1>7, ReplyBook
<1> QED BY <1>1, <1>3, <1>4, <1>5, <1>6, <1>7, <1>8, <1>9 DEF Rejects

\* What RunScript writes, when it writes: a bid that beats the price and has no
\* verdict yet.
Accepts(e) ==
    /\ ledger' = Append(ledger, DecisionOf(e, TRUE))
    /\ Decided' = Decided \cup {DecisionOf(e, TRUE)}
    /\ Beats(log[task[e]].amount)
    /\ \A m \in Members : m.id # log[task[e]].id
    /\ \A x \in Decided : ~x.executed => x.id # log[task[e]].id

\* An acceptance is written for a bid that the book takes.
LEMMA RunScriptBook ==
    ASSUME OrderlyFaults, RequestIdsUnique, RefinementInv, NEW e \in Engines, RunScript(e)
    PROVE  /\ BookInv' /\ TrailInv' /\ CloseInv' /\ EnginesInv'
           /\ Working(e) /\ UNCHANGED synced
           /\ (UNCHANGED ledger /\ Decided' = Decided) \/ Accepts(e)
<1> USE DEF RefinementInv
<1>1. PICK d : d = DecisionOf(e, TRUE)
  OBVIOUS
<1>2. /\ UNCHANGED <<log, owner, decisions, synced>>
      /\ UNCHANGED <<announced, ended, winner, queue, batch>> /\ Working(e) /\ actor[e] = "script"
  BY DEF RunScript, kafkaVars, Working
<1>3. PICK r : Reply(e, r)
  BY DEF RunScript
<1>4. /\ EngineInv(e) /\ IsCurrent(runtime[e], Price) /\ log[task[e]] \in Bids /\ ~synced /\ announced = {}
      /\ d \in Decision /\ BidOf(d) = log[task[e]] /\ d.id = log[task[e]].id
      /\ d.amount = log[task[e]].amount /\ d.executed
  BY <1>1, <1>2, WorkingFacts
<1>5. \/ UNCHANGED <<ledger, zset, processed, pending, hydrated, runtime>>
      \/ /\ Stored(d.id) = {} /\ AcceptScript(d)
         /\ runtime' = [runtime EXCEPT ![e].price = d.amount]
  <2>1. \/ /\ AcceptScript(d)
           /\ IF Stored(d.id) = {} THEN runtime' = [runtime EXCEPT ![e].price = d.amount]
              ELSE UNCHANGED runtime
        \/ UNCHANGED <<redisVars, runtime>>
    BY <1>1, Orderly DEF RunScript
  <2> QED BY <2>1 DEF AcceptScript, redisVars
<1>6. CASE UNCHANGED <<ledger, zset, processed, pending, hydrated, runtime>>
  <2>1. Decided' = Decided
    BY <1>2, <1>6 DEF Decided
  <2>2. BookInv' /\ TrailInv' /\ CloseInv' /\ Price' = Price
    BY <1>2, <1>6, <2>1, SameBook, SameTrail, SameClose
  <2>3. EnginesInv'
    BY <1>2, <1>3, <1>4, <1>6, <2>2, ReplyBook
  <2> QED BY <1>2, <1>6, <2>1, <2>2, <2>3
<1>7. CASE /\ Stored(d.id) = {} /\ AcceptScript(d)
           /\ runtime' = [runtime EXCEPT ![e].price = d.amount]
  <2>1. /\ ledger' = Append(ledger, d) /\ zset' = zset \cup {d} /\ processed' = processed \cup {d}
        /\ Xadd(d) /\ hydrated' = hydrated
    BY <1>7 DEF AcceptScript
  <2>2. Beats(d.amount) /\ \A m \in Members : m.id # d.id
    BY <1>2, <1>4, <1>7 DEF EngineInv, BookInv, Stored
  <2>3. Members' = Members \cup {d} /\ Price' = d.amount /\ PriceImproves'
    BY <1>4, <2>1, <2>2, LedgerGrows
  <2>4. Decided' = Decided \cup {d}
    BY <1>2, <2>1, XaddDecided
  <2>5. ASSUME NEW x \in Decided, ~x.executed PROVE x.id # d.id
    <3> SUFFICES ASSUME x.id = d.id PROVE FALSE
      OBVIOUS
    <3>1. BidOf(x) \in Bids /\ BidOf(d) \in Bids
      BY <1>4 DEF TrailInv
    <3>2. BidOf(x) = BidOf(d)
      <4>1. BidOf(x).id = BidOf(d).id
        BY DEF BidOf
      <4> QED BY <3>1, <4>1 DEF RequestIdsUnique
    <3>3. x.amount = d.amount
      BY <3>2 DEF BidOf
    <3> QED BY <2>2, <2>5, <3>3 DEF TrailInv
  <2>6. Price \in Nat /\ d.amount \in Nat /\ Members \subseteq Decision
        /\ \A x \in Decision : x.amount \in Nat
    BY <1>4, BookTypes
  <2>7. BookInv'
    <3>1. \A m \in Members' : m.executed /\ BidOf(m) \in Bids
      BY <1>4, <2>3 DEF BookInv
    <3>2. \A m \in Members' : RanksFirst(AuctionType, Price', m.amount)
      <4>1. /\ RanksFirst(AuctionType, d.amount, d.amount)
            /\ \A b \in Nat : RanksFirst(AuctionType, Price, b) => RanksFirst(AuctionType, d.amount, b)
        BY <2>2, <2>6, BeatsRanks DEF Beats
      <4>2. \A m \in Members : m.amount \in Nat /\ RanksFirst(AuctionType, Price, m.amount)
        BY <2>6 DEF BookInv
      <4> QED BY <2>3, <4>1, <4>2
    <3>3. zset' = Members' /\ processed' = Members' /\ hydrated'
      BY <2>1, <2>3 DEF BookInv
    <3> QED BY <2>3, <3>1, <3>2, <3>3 DEF BookInv
  <2>8. TrailInv'
    <3>1. \A x \in Decided' : BidOf(x) \in Bids
      BY <1>4, <2>4 DEF TrailInv
    <3>2. \A x \in Decided' : x.executed => x \in Members'
      BY <2>3, <2>4 DEF TrailInv
    <3>3. ASSUME NEW x \in Decided', ~x.executed
          PROVE  ~is_better_bid(AuctionType, Price', x.amount, Step) /\ \A m \in Members' : m.id # x.id
      <4>1. x \in Decided
        BY <1>4, <2>4, <3>3
      <4>2. x.id # d.id /\ ~Beats(x.amount) /\ \A m \in Members : m.id # x.id
        BY <2>5, <3>3, <4>1 DEF TrailInv
      <4>3. x.amount \in Nat
        <5>1. BidOf(x) \in Bids /\ BidOf(x).amount = x.amount
          BY <4>1 DEF TrailInv, BidOf
        <5> QED BY <5>1, ConstantsAssumption
      <4>4. ~is_better_bid(AuctionType, d.amount, x.amount, Step)
        BY <2>2, <2>6, <4>2, <4>3, BeatsBack DEF Beats
      <4> QED BY <2>3, <4>2, <4>4
    <3>4. \A f \in Engines : \A x \in batch'[f] : x.decision \in Decided'
      BY <1>2, <2>4 DEF TrailInv
    <3> QED BY <3>1, <3>2, <3>3, <3>4 DEF TrailInv, Beats
  <2>9. CloseInv'
    BY <1>2, <1>4 DEF CloseInv
  <2>10. EnginesInv'
    <3>1. IsCurrent(runtime'[e], Price')
      <4>1. runtime[e] \in Runtime /\ runtime \in [Engines -> Runtime]
        BY EngineTypes
      <4>2. /\ runtime'[e].price = d.amount /\ runtime'[e].type = runtime[e].type
            /\ runtime'[e].step = runtime[e].step /\ runtime'[e].reserve = runtime[e].reserve
            /\ runtime'[e].known = runtime[e].known
        BY <1>7, <4>1 DEF Runtime
      <4> QED BY <1>4, <2>3, <4>2 DEF IsCurrent
    <3> QED BY <1>2, <1>3, <3>1, ReplyBook
  <2>11. Accepts(e)
    BY <1>1, <1>4, <2>1, <2>2, <2>4, <2>5 DEF Accepts
  <2> QED BY <1>2, <2>7, <2>8, <2>9, <2>10, <2>11
<1> QED BY <1>5, <1>6, <1>7

\* The winner close_auction finds is the configured auction's.
LEMMA CurrentWinner ==
    ASSUME NEW rt, NEW p, IsCurrent(rt, p), NEW bids
    PROVE  WinnerOf(rt, bids) = WinnerOf(Configured, bids)
<1>1. Configured.type = AuctionType /\ Configured.reserve = Reserve
  BY DEF Configured
<1> QED BY <1>1 DEF WinnerOf, IsCurrent

\* The timer fires, the inbox is drained, the winner is read.
LEMMA ClosingBook ==
    ASSUME OrderlyFaults, RefinementInv, NEW e \in Engines,
           CloseTimer(e) \/ Drain(e) \/ (CloseRead(e) /\ ~Panic(e))
    PROVE  BookInv' /\ TrailInv' /\ CloseInv' /\ EnginesInv'
<1> USE DEF RefinementInv
<1>1. /\ UNCHANGED <<log, owner, ledger, zset, processed, hydrated, pending, decisions, synced>>
      /\ UNCHANGED <<announced, ended, runtime, queue, batch, task>>
      /\ actor[e] \in {"select", "drain", "winner"}
  BY DEF CloseTimer, Drain, CloseRead, kafkaVars, redisVars, workerVars, pubVars, envVars
<1>2. owner = e /\ EngineInv(e)
  BY <1>1, OnlyOwner DEF EnginesInv
<1>3. IsCurrent(runtime[e], Price) /\ IsCurrent(runtime'[e], Price')
  BY <1>1, <1>2, SameBook DEF EngineInv
<1>4. Decided' = Decided
  BY <1>1 DEF Decided
<1>5. BookInv' /\ TrailInv' /\ CloseInv'
  BY <1>1, <1>4, SameBook, SameTrail, SameClose
<1>6. \A f \in Engines : f # e => actor'[f] = actor[f] /\ worker'[f] = worker[f]
  BY EngineTypes DEF CloseTimer, Drain, CloseRead, workerVars
<1>7. CASE CloseTimer(e) \/ Drain(e)
  <2>1. actor'[e] \in {"drain", "winner"} /\ ended
    BY <1>2, <1>3, <1>7, EngineTypes DEF CloseTimer, Drain, IsCurrent, EngineInv, Closing
  <2>2. EngineInv(e)'
    BY <1>1, <1>2, <1>3, <2>1 DEF EngineInv, Closing, Deciding
  <2> QED BY <1>1, <1>2, <1>5, <1>6, <2>2, OwnerStep
<1>8. CASE CloseRead(e) /\ ~Panic(e)
  <2>1. winner' = [winner EXCEPT ![e] = WinnerOf(runtime[e], zset)]
    BY <1>8, Orderly DEF CloseRead
  <2>2. winner'[e] = WinnerOf(Configured, zset')
    BY <1>1, <1>3, <2>1, EngineTypes, CurrentWinner
  <2>3. actor'[e] = "hset" /\ ended
    BY <1>2, <1>8, EngineTypes DEF CloseRead, EngineInv, Closing
  <2>4. EngineInv(e)'
    BY <1>1, <1>2, <1>3, <2>2, <2>3 DEF EngineInv, Closing, Deciding
  <2> QED BY <1>1, <1>2, <1>5, <1>6, <2>4, OwnerStep
<1> QED BY <1>7, <1>8

\* The outcome is stored, or the actor panics (here, or without a connection when the
\* winner is to be read) and starts again.
LEMMA CloseStateBook ==
    ASSUME RefinementInv, NEW e \in Engines, CloseState(e) \/ (CloseRead(e) /\ Panic(e))
    PROVE  BookInv' /\ TrailInv' /\ CloseInv' /\ EnginesInv'
<1> USE DEF RefinementInv
<1>1. /\ UNCHANGED <<log, owner, ledger, zset, processed, hydrated, pending, decisions, synced>>
      /\ UNCHANGED <<announced, ended, runtime, winner, queue, worker, task>>
      /\ actor[e] \in {"winner", "hset"}
      /\ (actor' = [actor EXCEPT ![e] = "sync"] /\ UNCHANGED batch /\ actor[e] = "hset") \/ Panic(e)
  BY EngineTypes DEF CloseState, CloseRead, Panic, kafkaVars, redisVars, workerVars, pubVars
<1>2. owner = e /\ EngineInv(e)
  BY <1>1, OnlyOwner DEF EnginesInv
<1>3. Decided' = Decided
  BY <1>1 DEF Decided
<1>4. \A f \in Engines : batch'[f] \subseteq batch[f]
  BY <1>1, EngineTypes DEF Panic
<1>5. BookInv' /\ TrailInv' /\ CloseInv' /\ Price' = Price
  BY <1>1, <1>3, <1>4, SameBook, SameTrail, SameClose
<1>6. \A f \in Engines : f # e => actor'[f] = actor[f] /\ worker'[f] = worker[f]
  BY <1>1, EngineTypes DEF Panic
<1>7. (actor'[e] = "sync" /\ actor[e] = "hset") \/ actor'[e] = "load"
  BY <1>1, EngineTypes DEF Panic
<1>8. EngineInv(e)'
  BY <1>1, <1>2, <1>5, <1>7 DEF EngineInv, Closing, Deciding
<1> QED BY <1>1, <1>2, <1>5, <1>6, <1>8, OwnerStep

\* The sync record is published when no actor can accept a bid.
LEMMA CloseSyncBook ==
    ASSUME RefinementInv, NEW e \in Engines, CloseSync(e)
    PROVE  /\ BookInv' /\ TrailInv' /\ CloseInv' /\ EnginesInv'
           /\ UNCHANGED ledger /\ Decided' = Decided /\ (synced => synced') /\ synced' \in BOOLEAN
<1> USE DEF RefinementInv
<1>1. /\ UNCHANGED <<log, owner, ledger, zset, processed, hydrated, pending, decisions>>
      /\ UNCHANGED <<announced, ended, runtime, winner, queue, worker, task>> /\ actor[e] = "sync"
      /\ \/ actor' = [actor EXCEPT ![e] = "emit"] /\ UNCHANGED batch /\ synced' = TRUE
         \/ Panic(e) /\ UNCHANGED synced
  BY DEF CloseSync, redisVars, workerVars, pubVars
<1>2. owner = e /\ EngineInv(e)
  BY <1>1, OnlyOwner DEF EnginesInv
<1>3. Decided' = Decided
  BY <1>1 DEF Decided
<1>4. \A f \in Engines : batch'[f] \subseteq batch[f]
  BY <1>1, EngineTypes DEF Panic
<1>5. BookInv' /\ TrailInv' /\ Price' = Price
  BY <1>1, <1>3, <1>4, SameBook, SameTrail
<1>6. ended /\ (synced => synced') /\ synced' \in BOOLEAN
  BY <1>1, <1>2 DEF EngineInv, Closing, TypeInv, TypeOK, KafkaTypes
<1>7. CloseInv'
  BY <1>1, <1>6 DEF CloseInv
<1>8. \A f \in Engines : f # e => actor'[f] = actor[f] /\ worker'[f] = worker[f]
  BY <1>1, EngineTypes DEF Panic
<1>9. (actor'[e] = "emit" /\ synced') \/ actor'[e] = "load"
  BY <1>1, EngineTypes DEF Panic
<1>10. EngineInv(e)'
  BY <1>1, <1>2, <1>5, <1>6, <1>9 DEF EngineInv, Closing, Deciding
<1> QED BY <1>1, <1>2, <1>3, <1>5, <1>6, <1>7, <1>8, <1>10, OwnerStep

\* The winner is announced, and the actor is gone.
LEMMA CloseEmitBook ==
    ASSUME RefinementInv, NEW e \in Engines, CloseEmit(e)
    PROVE  BookInv' /\ TrailInv' /\ CloseInv' /\ EnginesInv'
<1> USE DEF RefinementInv
<1>1. /\ UNCHANGED <<log, owner, ledger, zset, processed, hydrated, pending, decisions, synced>>
      /\ UNCHANGED <<ended, runtime, winner, queue, task>> /\ actor[e] = "emit"
      /\ \/ announced' = announced \cup {winner[e]} /\ ExitActor(e)
         \/ Panic(e) /\ UNCHANGED <<announced, worker>>
  BY DEF CloseEmit, kafkaVars, redisVars
<1>2. owner = e /\ EngineInv(e)
  BY <1>1, OnlyOwner DEF EnginesInv
<1>3. Decided' = Decided
  BY <1>1 DEF Decided
<1>4. \A f \in Engines : batch'[f] \subseteq batch[f]
  BY <1>1, EngineTypes DEF Panic, ExitActor
<1>5. BookInv' /\ TrailInv' /\ Price' = Price
  BY <1>1, <1>3, <1>4, SameBook, SameTrail
<1>6. synced /\ winner[e] = WinnerOf(Configured, zset)
  BY <1>1, <1>2 DEF EngineInv
<1>7. CloseInv'
  BY <1>1, <1>6 DEF CloseInv
<1>8. \A f \in Engines : f # e => actor'[f] = actor[f] /\ worker'[f] = worker[f]
  BY <1>1, EngineTypes DEF Panic, ExitActor
<1>9. actor'[e] \in {"absent", "load"}
  BY <1>1, EngineTypes DEF Panic, ExitActor
<1>10. EngineInv(e)'
  BY <1>1, <1>2, <1>9 DEF EngineInv, Closing, Deciding
<1> QED BY <1>1, <1>2, <1>5, <1>7, <1>8, <1>10, OwnerStep

\* The publisher moves decisions from the stream to the topics.
LEMMA PublisherBook ==
    ASSUME RefinementInv, NEW e \in Engines, PublisherStep(e)
    PROVE  BookInv' /\ TrailInv' /\ CloseInv' /\ EnginesInv' /\ Decided' = Decided
<1> USE DEF RefinementInv
<1>1. /\ UNCHANGED <<log, owner, ledger, zset, processed, hydrated, synced>>
      /\ UNCHANGED <<announced, ended, runtime, winner, queue, worker, task, actor>>
  BY DEF PublisherStep, PublisherRead, PublisherWake, PublishDecision, PublishNotification,
         PublisherXdel, kafkaVars, redisVars, workerVars, actorVars, envVars
<1>2. Decided \subseteq Decided'
  BY PublisherStepKeeps DEF DecisionsKept
<1>3. \A x \in batch[e] : x.decision \in Decided
  BY DEF TrailInv
<1>4. Decided' \subseteq Decided
  <2>1. CASE PublishDecision(e)
    <3>1. PICK x \in First(batch[e]) : decisions' = decisions \cup {x.decision}
      BY <2>1 DEF PublishDecision
    <3>2. x \in batch[e] /\ pending' = pending
      BY <2>1 DEF PublishDecision, redisVars, First
    <3> QED BY <1>3, <3>1, <3>2 DEF Decided
  <2>2. CASE PublisherXdel(e)
    <3>1. pending' \subseteq pending /\ decisions' = decisions
      BY <2>2 DEF PublisherXdel, kafkaVars
    <3> QED BY <3>1 DEF Decided
  <2>3. CASE PublisherRead(e) \/ PublisherWake(e) \/ PublishNotification(e)
    <3>1. pending' = pending /\ decisions' = decisions
      BY <2>3 DEF PublisherRead, PublisherWake, PublishNotification, kafkaVars, redisVars
    <3> QED BY <3>1 DEF Decided
  <2> QED BY <2>1, <2>2, <2>3 DEF PublisherStep
<1>5. Decided' = Decided
  BY <1>2, <1>4
<1>6. \A f \in Engines : \A x \in batch'[f] : x \in batch[f] \/ x.decision \in Decided
  <2>1. \A x \in pending : x.decision \in Decided
    BY DEF Decided
  <2>2. CASE PublisherRead(e)
    BY <2>1, <2>2, EngineTypes DEF PublisherRead
  <2>3. CASE PublisherXdel(e)
    BY <2>3, EngineTypes DEF PublisherXdel
  <2>4. CASE PublisherWake(e) \/ PublishDecision(e) \/ PublishNotification(e)
    BY <2>4 DEF PublisherWake, PublishDecision, PublishNotification
  <2> QED BY <2>2, <2>3, <2>4 DEF PublisherStep
<1>7. BookInv' /\ TrailInv' /\ CloseInv'
  BY <1>1, <1>5, <1>6, SameBook, SameTrail, SameClose
<1>8. ASSUME NEW f \in Engines PROVE EngineInv(f)'
  <2>1. EngineInv(f)
    BY DEF EnginesInv
  <2> QED BY <1>1, <2>1, SameEngine
<1> QED BY <1>5, <1>7, <1>8 DEF EnginesInv

-----------------------------------------------------------------------------
(* The invariant holds *)

\* At the start the book is empty and no engine has the partition.
LEMMA RefinementInit ==
    ASSUME OrderlyFaults, Init
    PROVE  RefinementInv
<1>1. /\ ledger = <<>> /\ zset = {} /\ processed = {} /\ pending = {} /\ decisions = {}
      /\ synced = FALSE /\ announced = {} /\ hydrated = ("unhydrated" \notin Faults)
      /\ batch = [e \in Engines |-> {}] /\ queue = [e \in Engines |-> <<>>]
      /\ actor = [e \in Engines |-> "absent"]
      /\ worker = [e \in Engines |-> [step |-> "idle", at |-> 0]]
  BY DEF Init
<1>2. Members = {} /\ Decided = {}
  BY <1>1 DEF Members, Decided
<1>3. BookInv
  <2>1. hydrated
    BY <1>1 DEF OrderlyFaults
  <2>2. DOMAIN ledger = {}
    BY <1>1
  <2> QED BY <1>1, <1>2, <2>1, <2>2 DEF BookInv, PriceImproves
<1>4. TrailInv
  BY <1>1, <1>2 DEF TrailInv
<1>5. CloseInv
  BY <1>1 DEF CloseInv
<1>6. EnginesInv
  BY <1>1 DEF EnginesInv, EngineInv, Deciding, Closing
<1> QED BY <1>3, <1>4, <1>5, <1>6, InitTypes, InitStream DEF RefinementInv

\* Every step of the engine keeps it.
LEMMA RefinementStep ==
    ASSUME OrderlyFaults, RequestIdsUnique, RefinementInv, [Next]_vars
    PROVE  RefinementInv'
<1> DEFINE Kept == BookInv' /\ TrailInv' /\ CloseInv' /\ EnginesInv'
<1>1. TypeInv' /\ StreamInv'
  BY NextTypes, StreamStep DEF RefinementInv
<1>2. ASSUME (\E b \in Bids : IngestBid(b)) \/ EndTimePasses \/ Hydrate \/ UNCHANGED vars PROVE Kept
  BY <1>2, EnvironmentBook
<1>3. ASSUME NEW e \in Engines, Assign(e) \/ Crash(e) \/ Fetch(e) \/ RetryCommit(e) PROVE Kept
  BY <1>3, AssignBook, CrashBook, WorkerBook
<1>4. ASSUME NEW e \in Engines, WorkerStep(e) PROVE Kept
  BY <1>4, WorkerSendBook, WorkerBook DEF WorkerStep
<1>5. ASSUME NEW e \in Engines, ActorStep(e) PROVE Kept
  <2>1. CASE WriteBid(e)
    BY <2>1, RunScriptBook, GetProcessedBook, XaddReplayBook, XaddRejectBook DEF WriteBid
  <2>2. CASE CloseAuction(e)
    BY <2>2, ClosingBook, CloseStateBook, CloseSyncBook, CloseEmitBook DEF CloseAuction
  <2>3. CASE LoadRuntime(e) \/ ActorRecv(e) \/ CloseTimer(e)
    BY <2>3, LoadRuntimeBook, ActorRecvBook, ClosingBook
  <2> QED BY <1>5, <2>1, <2>2, <2>3 DEF ActorStep
<1>6. ASSUME NEW e \in Engines, PublisherStep(e) PROVE Kept
  BY <1>6, PublisherBook
<1>7. Kept
  <2> HIDE DEF Kept
  <2> QED BY <1>2, <1>3, <1>4, <1>5, <1>6 DEF Next
<1> QED BY <1>1, <1>7 DEF RefinementInv

\* The whole of the inductive invariant.
THEOREM BookIsKept ==
    ASSUME OrderlyFaults, RequestIdsUnique
    PROVE  Spec => []RefinementInv
<1>1. Init => RefinementInv
  BY RefinementInit
<1>2. RefinementInv /\ [Next]_vars => RefinementInv'
  BY RefinementStep
<1> QED BY <1>1, <1>2, PTL DEF Spec

-----------------------------------------------------------------------------
(* What follows from it *)

\* Each accepted bid beats the one before it by the step, although the actor
\* decides from a price it keeps in memory, across crashes and restarts.
THEOREM PricesImprove ==
    ASSUME OrderlyFaults, RequestIdsUnique
    PROVE  Spec => []PriceImproves
<1>1. RefinementInv => PriceImproves
  BY DEF RefinementInv, BookInv
<1> QED BY <1>1, BookIsKept, PTL

\* A request has an accepting decision exactly when it is in the ledger, so a
\* record that is delivered again never gets a second verdict.
THEOREM OneVerdict ==
    ASSUME OrderlyFaults, RequestIdsUnique
    PROVE  Spec => []AuditMatchesLedger
<1>1. ASSUME RefinementInv, NEW d \in Decided
      PROVE  d.executed <=> \E i \in DOMAIN ledger : ledger[i].id = d.id
  <2>1. /\ d.executed => d \in Members
        /\ ~d.executed => \A m \in Members : m.id # d.id
    BY <1>1 DEF RefinementInv, TrailInv
  <2>2. \A i \in DOMAIN ledger : ledger[i] \in Members
    BY DEF Members
  <2>3. \A m \in Members : \E i \in DOMAIN ledger : ledger[i] = m
    BY DEF Members
  <2>4. d.executed \in BOOLEAN
    BY <1>1, BookTypes DEF RefinementInv, TypeInv, TypeOK, KafkaTypes, RedisTypes, Decided, Decision, Entry
  <2> QED BY <2>1, <2>2, <2>3, <2>4
<1>2. RefinementInv => AuditMatchesLedger
  BY <1>1 DEF AuditMatchesLedger
<1> QED BY <1>2, BookIsKept, PTL

\* The winner found in a set of decisions: the best one, if it meets the reserve.
LEMMA WinnerIsBest ==
    ASSUME NEW bids, bids \subseteq Decision, NEW w, w = WinnerOf(Configured, bids)
    PROVE  IF w = Nobody
           THEN \A d \in bids : ~MeetsReserve(AuctionType, Reserve, d.amount)
           ELSE \E d \in bids : /\ d.id = w /\ MeetsReserve(AuctionType, Reserve, d.amount)
                                /\ \A x \in bids : RanksFirst(AuctionType, d.amount, x.amount)
<1>1. Configured.type = AuctionType /\ Configured.reserve = Reserve
  BY DEF Configured
<1>2. AuctionType \in AuctionTypes /\ Reserve \in Nat
  BY ConstantsAssumption
<1>3. CASE bids = {}
  BY <1>3 DEF WinnerOf
<1>4. CASE bids # {}
  <2>1. PICK best : best = BestBid(AuctionType, bids)
    OBVIOUS
  <2>2. \A d \in bids : d.amount \in Nat /\ d.amount <= MaxPrice
    BY DecisionAmounts
  <2>3. best \in bids /\ \A x \in bids : RanksFirst(AuctionType, best.amount, x.amount)
    BY <1>2, <1>4, <2>1, <2>2, BestBidProperties
  <2>4. w = IF MeetsReserve(AuctionType, Reserve, best.amount) THEN best.id ELSE Nobody
    BY <1>1, <1>4, <2>1 DEF WinnerOf
  <2>5. best.id # Nobody
    <3>1. best.id \in RequestIds
      BY <2>3 DEF Decision
    <3> QED BY <3>1, ConstantsAssumption DEF RequestIds
  <2>6. CASE MeetsReserve(AuctionType, Reserve, best.amount)
    BY <2>3, <2>4, <2>5, <2>6
  <2>7. CASE ~MeetsReserve(AuctionType, Reserve, best.amount)
    <3>1. w = Nobody
      BY <2>4, <2>7
    <3>2. ASSUME NEW d \in bids PROVE ~MeetsReserve(AuctionType, Reserve, d.amount)
      <4>1. /\ RanksFirst(AuctionType, best.amount, d.amount)
            /\ best.amount \in Nat /\ d.amount \in Nat
        BY <2>2, <2>3
      <4> QED BY <1>2, <2>7, <4>1 DEF MeetsReserve, RanksFirst, AuctionTypes
    <3> QED BY <3>1, <3>2
  <2> QED BY <2>6, <2>7
<1> QED BY <1>3, <1>4

\* Every winner announced, at the first close and at the closes of restarted
\* actors, is the best accepted bid that meets the reserve.
THEOREM WinnersAreBest ==
    ASSUME OrderlyFaults, RequestIdsUnique
    PROVE  Spec => []AnnouncedWinnerIsBest
<1>1. ASSUME RefinementInv PROVE AnnouncedWinnerIsBest
  <2>1. /\ Members \subseteq Decision /\ zset = Members
        /\ \A w \in announced : w = WinnerOf(Configured, Members)
    BY <1>1, BookTypes DEF RefinementInv, BookInv, CloseInv
  <2>2. ASSUME NEW w \in announced
        PROVE  IF w = Nobody
               THEN \A i \in DOMAIN ledger : ~MeetsReserve(AuctionType, Reserve, ledger[i].amount)
               ELSE \E i \in DOMAIN ledger :
                       /\ ledger[i].id = w
                       /\ MeetsReserve(AuctionType, Reserve, ledger[i].amount)
                       /\ \A j \in DOMAIN ledger :
                             RanksFirst(AuctionType, ledger[i].amount, ledger[j].amount)
    <3>1. w = WinnerOf(Configured, Members)
      BY <2>1
    <3>2. IF w = Nobody
          THEN \A d \in Members : ~MeetsReserve(AuctionType, Reserve, d.amount)
          ELSE \E d \in Members : /\ d.id = w /\ MeetsReserve(AuctionType, Reserve, d.amount)
                                  /\ \A x \in Members : RanksFirst(AuctionType, d.amount, x.amount)
      BY <2>1, <3>1, WinnerIsBest
    <3>3. \A i \in DOMAIN ledger : ledger[i] \in Members
      BY DEF Members
    <3>4. \A m \in Members : \E i \in DOMAIN ledger : ledger[i] = m
      BY DEF Members
    <3>5. CASE w = Nobody
      BY <3>2, <3>3, <3>5
    <3>6. CASE w # Nobody
      <4>1. PICK d \in Members : /\ d.id = w /\ MeetsReserve(AuctionType, Reserve, d.amount)
                                 /\ \A x \in Members : RanksFirst(AuctionType, d.amount, x.amount)
        BY <3>2, <3>6
      <4>2. PICK i \in DOMAIN ledger : ledger[i] = d
        BY <3>4
      <4> QED BY <3>3, <3>6, <4>1, <4>2
    <3> QED BY <3>5, <3>6
  <2> QED BY <2>2 DEF AnnouncedWinnerIsBest
<1> QED BY <1>1, BookIsKept, PTL

\* No actor writes the ledger after the sync record: the finalisation that it
\* starts sees every accepted bid.
THEOREM LedgerIsFinal ==
    ASSUME OrderlyFaults, RequestIdsUnique
    PROVE  Spec => LedgerFinalAfterSync
<1>1. ASSUME RefinementInv, [Next]_vars PROVE [synced => ledger' = ledger]_vars
  <2>1. ASSUME NEW e \in Engines, RunScript(e) PROVE ~synced
    <3>1. Working(e)
      BY <2>1 DEF RunScript, Working
    <3> QED BY <1>1, <3>1, WorkingFacts
  <2> QED BY <1>1, <2>1, LedgerWriters
<1>2. RefinementInv /\ [Next]_vars => [synced => ledger' = ledger]_vars
  BY <1>1
<1> QED BY <1>2, BookIsKept, PTL DEF Spec, LedgerFinalAfterSync

-----------------------------------------------------------------------------
(* The refinement *)

\* Only close_auction writes the sync record.
LEMMA SyncWriters ==
    ASSUME [Next]_vars
    PROVE  UNCHANGED synced \/ \E e \in Engines : CloseSync(e)
<1>1. ASSUME NEW b \in Bids, IngestBid(b) PROVE UNCHANGED synced
  BY <1>1 DEF IngestBid
<1>2. CASE EndTimePasses \/ Hydrate \/ UNCHANGED vars
  BY <1>2 DEF EndTimePasses, Hydrate, vars, kafkaVars
<1>3. ASSUME NEW e \in Engines, Assign(e) \/ Crash(e) \/ Fetch(e) \/ RetryCommit(e)
      PROVE  UNCHANGED synced
  BY <1>3 DEF Assign, Crash, Fetch, RetryCommit, kafkaVars
<1>4. ASSUME NEW e \in Engines, WorkerStep(e) PROVE UNCHANGED synced
  BY <1>4 DEF WorkerStep, WorkerRecv, WorkerSend, DeadLetter, Commit, kafkaVars
<1>5. ASSUME NEW e \in Engines, ActorStep(e), ~CloseSync(e) PROVE UNCHANGED synced
  <2>1. CASE WriteBid(e)
    BY <2>1 DEF WriteBid, RunScript, GetProcessed, XaddReplay, XaddReject, kafkaVars
  <2>2. CASE CloseAuction(e)
    BY <1>5, <2>2 DEF CloseAuction, Drain, CloseRead, CloseState, CloseEmit, kafkaVars
  <2>3. CASE LoadRuntime(e) \/ ActorRecv(e) \/ CloseTimer(e)
    BY <2>3 DEF LoadRuntime, ActorRecv, CloseTimer, kafkaVars
  <2> QED BY <1>5, <2>1, <2>2, <2>3 DEF ActorStep
<1>6. ASSUME NEW e \in Engines, PublisherStep(e) PROVE UNCHANGED synced
  BY <1>6 DEF PublisherStep, PublisherRead, PublisherWake, PublishDecision,
              PublishNotification, PublisherXdel, kafkaVars
<1> QED BY <1>1, <1>2, <1>3, <1>4, <1>5, <1>6 DEF Next

\* The steps of the engine as its book sees them.
Unseen == UNCHANGED <<ledger, synced>> /\ Decided' = Decided
Closes == UNCHANGED ledger /\ Decided' = Decided /\ ~synced /\ synced'
Enters(e) == Working(e) /\ UNCHANGED synced /\ Accepts(e)
TurnsDown(e) == Working(e) /\ UNCHANGED <<ledger, synced>> /\ Rejects(e)

\* Every step of the engine is one of these.
LEMMA BookSteps ==
    ASSUME OrderlyFaults, RequestIdsUnique, RefinementInv, [Next]_vars
    PROVE  Unseen \/ Closes \/ \E e \in Engines : Enters(e) \/ TurnsDown(e)
<1>1. ASSUME NEW e \in Engines, RunScript(e) PROVE Unseen \/ Enters(e)
  BY <1>1, RunScriptBook DEF Unseen, Enters
<1>2. ASSUME NEW e \in Engines, XaddReject(e) PROVE Unseen \/ TurnsDown(e)
  BY <1>2, XaddRejectBook DEF Unseen, TurnsDown
<1>3. ASSUME NEW e \in Engines, CloseSync(e) PROVE Unseen \/ Closes
  <2>1. synced \in BOOLEAN
    BY DEF RefinementInv, TypeInv, TypeOK, KafkaTypes
  <2> QED BY <1>3, <2>1, CloseSyncBook DEF Unseen, Closes
<1>4. ASSUME NEW e \in Engines, XaddReplay(e) PROVE Unseen
  <2>1. Decided' = Decided
    BY <1>4, XaddReplayBook
  <2> QED BY <1>4, <2>1 DEF XaddReplay, kafkaVars, Unseen
<1>5. ASSUME NEW e \in Engines, PublisherStep(e) PROVE Unseen
  <2>1. Decided' = Decided
    BY <1>5, PublisherBook
  <2>2. UNCHANGED <<ledger, synced>>
    BY <1>5 DEF PublisherStep, PublisherRead, PublisherWake, PublishDecision,
                PublishNotification, PublisherXdel, kafkaVars, redisVars
  <2> QED BY <2>1, <2>2 DEF Unseen
<1>6. ASSUME \A e \in Engines : /\ ~RunScript(e) /\ ~XaddReject(e) /\ ~CloseSync(e)
                                /\ ~XaddReplay(e) /\ ~PublisherStep(e)
      PROVE  Unseen
  <2>1. StreamKept
    BY <1>6, OtherStepsKeepStream DEF RefinementInv
  <2>2. Decided' = Decided
    BY <2>1 DEF StreamKept, Decided
  <2> QED BY <1>6, <2>2, LedgerWriters, SyncWriters DEF Unseen
<1> QED BY <1>1, <1>2, <1>3, <1>4, <1>5, <1>6

\* The book a ledger is read as, and the requests a decision trail rejects.
AcceptedOf(decs) == [i \in DOMAIN decs |-> BidOf(decs[i])]
RejectedOf(decs) == {d.id : d \in {x \in decs : ~x.executed}}

\* Its price, and its members.
LEMMA AcceptedFacts ==
    ASSUME TypeInv
    PROVE  /\ Ledger!CurrentPrice = Price
           /\ \A id : Ledger!IsAccepted(id) <=> \E m \in Members : m.id = id
           /\ AcceptedOf(ledger) = [i \in DOMAIN ledger |-> [id |-> ledger[i].id, amount |-> ledger[i].amount]]
<1>1. /\ ledger \in Seq(Decision) /\ Len(ledger) \in Nat /\ DOMAIN ledger = 1 .. Len(ledger)
      /\ ledger # <<>> => Len(ledger) \in DOMAIN ledger
  BY BookTypes
<1>2. PICK a : a = [i \in DOMAIN ledger |-> [id |-> ledger[i].id, amount |-> ledger[i].amount]]
  OBVIOUS
<1>3. /\ DOMAIN a = DOMAIN ledger
      /\ \A i \in DOMAIN ledger : a[i].id = ledger[i].id /\ a[i].amount = ledger[i].amount
  BY <1>2
<1>4. a \in Seq([id : {ledger[i].id : i \in DOMAIN ledger}, amount : {ledger[i].amount : i \in DOMAIN ledger}])
  BY <1>1, <1>2
<1>5. Len(a) = Len(ledger)
  BY <1>1, <1>3, <1>4
<1>6. a = <<>> <=> ledger = <<>>
  BY <1>1, <1>4, <1>5, EmptySeq
<1>7. Ledger!CurrentPrice = Price
  BY <1>1, <1>2, <1>3, <1>5, <1>6 DEF Ledger!CurrentPrice, Price
<1>8. \A id : Ledger!IsAccepted(id) <=> \E m \in Members : m.id = id
  BY <1>2, <1>3 DEF Ledger!IsAccepted, Members
<1> QED BY <1>7, <1>8 DEF AcceptedOf, BidOf

\* An accepted decision extends the book by its bid.
LEMMA AcceptedGrows ==
    ASSUME NEW s \in Seq(Decision), NEW d \in Decision
    PROVE  AcceptedOf(Append(s, d)) = Append(AcceptedOf(s), BidOf(d))
<1>1. /\ Len(s) \in Nat /\ DOMAIN s = 1 .. Len(s)
      /\ Append(s, d) \in Seq(Decision) /\ Len(Append(s, d)) = Len(s) + 1
      /\ DOMAIN Append(s, d) = 1 .. Len(s) + 1
      /\ \A i \in 1 .. Len(s) : Append(s, d)[i] = s[i]
      /\ Append(s, d)[Len(s) + 1] = d
  OBVIOUS
<1> DEFINE B == {BidOf(x) : x \in Decision}
<1>2. \A x \in Decision : BidOf(x) \in B
  OBVIOUS
<1>3. \A i \in 1 .. Len(s) : s[i] \in Decision
  BY <1>1
<1> HIDE DEF B
<1>4. PICK a : a = AcceptedOf(s)
  OBVIOUS
<1>5. PICK a2 : a2 = AcceptedOf(Append(s, d))
  OBVIOUS
<1>6. a \in [1 .. Len(s) -> B] /\ \A i \in 1 .. Len(s) : a[i] = BidOf(s[i])
  BY <1>1, <1>2, <1>3, <1>4 DEF AcceptedOf
<1>7. /\ a2 = [i \in 1 .. Len(s) + 1 |-> BidOf(Append(s, d)[i])]
      /\ DOMAIN a2 = 1 .. Len(s) + 1
  BY <1>1, <1>5 DEF AcceptedOf
<1>8. a \in Seq(B) /\ Len(a) = Len(s)
  BY <1>1, <1>6
<1>9. PICK b : b = BidOf(d)
  OBVIOUS
<1>10. b \in B
  BY <1>2, <1>9
<1>11. /\ Append(a, b) \in Seq(B) /\ DOMAIN Append(a, b) = 1 .. Len(s) + 1
       /\ \A i \in 1 .. Len(s) : Append(a, b)[i] = a[i]
       /\ Append(a, b)[Len(s) + 1] = b
  BY <1>1, <1>8, <1>10
<1>12. \A i \in 1 .. Len(s) + 1 : i \in 1 .. Len(s) \/ i = Len(s) + 1
  BY <1>1
<1>13. \A i \in 1 .. Len(s) + 1 : a2[i] = Append(a, b)[i]
  BY <1>1, <1>6, <1>7, <1>9, <1>11, <1>12
<1>14. a2 = Append(a, b)
  <2>1. PICK c : c = Append(a, b)
    OBVIOUS
  <2>2. c = [i \in 1 .. Len(s) + 1 |-> c[i]]
    <3>1. c \in Seq(B) /\ DOMAIN c = 1 .. Len(s) + 1
      BY <1>11, <2>1
    <3>2. c \in [1 .. Len(c) -> B]
      BY <3>1
    <3>3. c = [i \in DOMAIN c |-> c[i]]
      BY <3>2
    <3> QED BY <3>1, <3>3
  <2>3. a2 = [i \in 1 .. Len(s) + 1 |-> a2[i]]
    BY <1>7
  <2> QED BY <1>13, <2>1, <2>2, <2>3
<1> QED BY <1>4, <1>5, <1>9, <1>14

\* The record in the actor's hands is the bid of its decision.
LEMMA EntersAccepts ==
    ASSUME RefinementInv, NEW e \in Engines, Enters(e)
    PROVE  \E b \in Bids : Ledger!Accept(b)
<1>1. PICK b : b = log[task[e]]
  OBVIOUS
<1>2. PICK d : d = DecisionOf(e, TRUE)
  OBVIOUS
<1>3. b \in Bids /\ ~synced /\ d \in Decision /\ BidOf(d) = b /\ d.executed = TRUE /\ TypeInv
  BY <1>1, <1>2, WorkingFacts DEF Enters, RefinementInv
<1>4. /\ ledger' = Append(ledger, d) /\ Decided' = Decided \cup {d}
      /\ is_better_bid(AuctionType, Price, b.amount, Step)
      /\ \A m \in Members : m.id # b.id
      /\ \A x \in Decided : ~x.executed => x.id # b.id
      /\ UNCHANGED synced
  BY <1>1, <1>2 DEF Enters, Accepts, Beats
<1>5. Ledger!Improves(b) /\ ~Ledger!IsAccepted(b.id)
  BY <1>3, <1>4, AcceptedFacts DEF Ledger!Improves, Ledger!is_better_bid, is_better_bid
<1>6. ledger \in Seq(Decision)
  BY <1>3, BookTypes
<1>7. AcceptedOf(ledger') = Append(AcceptedOf(ledger), b)
  BY <1>3, <1>4, <1>6, AcceptedGrows
<1>8. RejectedOf(Decided') = RejectedOf(Decided) /\ b.id \notin RejectedOf(Decided)
  BY <1>3, <1>4 DEF RejectedOf
<1>9. Ledger!Accept(b)
  BY <1>3, <1>4, <1>5, <1>7, <1>8 DEF Ledger!Accept, AcceptedOf, RejectedOf, BidOf
<1> QED BY <1>3, <1>9

\* A rejection of the engine is a rejection of the book.
LEMMA TurnsDownRejects ==
    ASSUME RefinementInv, NEW e \in Engines, TurnsDown(e)
    PROVE  \E b \in Bids : Ledger!Reject(b)
<1>1. PICK b : b = log[task[e]]
  OBVIOUS
<1>2. PICK d : d = DecisionOf(e, FALSE)
  OBVIOUS
<1>3. b \in Bids /\ ~synced /\ d \in Decision /\ d.id = b.id /\ d.executed = FALSE /\ TypeInv
  BY <1>1, <1>2, WorkingFacts DEF TurnsDown, RefinementInv
<1>4. /\ Decided' = Decided \cup {d} /\ UNCHANGED <<ledger, synced>>
      /\ ~is_better_bid(AuctionType, Price, b.amount, Step)
      /\ \A m \in Members : m.id # b.id
  BY <1>1, <1>2 DEF TurnsDown, Rejects, Beats
<1>5. ~Ledger!Improves(b) /\ ~Ledger!IsAccepted(b.id)
  BY <1>3, <1>4, AcceptedFacts DEF Ledger!Improves, Ledger!is_better_bid, is_better_bid
<1>6. RejectedOf(Decided') = RejectedOf(Decided) \cup {b.id}
  BY <1>3, <1>4 DEF RejectedOf
<1>7. Ledger!Reject(b)
  BY <1>3, <1>4, <1>5, <1>6 DEF Ledger!Reject, RejectedOf
<1> QED BY <1>3, <1>7

\* A step of the engine is a step of the book, or the book does not see it.
LEMMA RefinesStep ==
    ASSUME OrderlyFaults, RequestIdsUnique, RefinementInv, [Next]_vars
    PROVE  [Ledger!LedgerNext]_(Ledger!ledgerVars)
<1>1. CASE Unseen
  BY <1>1 DEF Unseen, Ledger!ledgerVars
<1>2. CASE Closes
  BY <1>2 DEF Closes, Ledger!LedgerNext, Ledger!Close
<1>3. ASSUME NEW e \in Engines, Enters(e) PROVE Ledger!LedgerNext
  BY <1>3, EntersAccepts DEF Ledger!LedgerNext
<1>4. ASSUME NEW e \in Engines, TurnsDown(e) PROVE Ledger!LedgerNext
  BY <1>4, TurnsDownRejects DEF Ledger!LedgerNext
<1> QED BY <1>1, <1>2, <1>3, <1>4, BookSteps

\* For every number of engines, bids and records, and every run of crashes,
\* hand-overs after a crash, failed Redis and Kafka calls and lost commits, what
\* the engine writes to Redis and Kafka is a run of the sequential book.
THEOREM EngineImplementsLedger ==
    ASSUME OrderlyFaults, RequestIdsUnique
    PROVE  Spec => ImplementsLedger
<1>1. Init => Ledger!LedgerInit
  <2> SUFFICES ASSUME Init PROVE Ledger!LedgerInit
    OBVIOUS
  <2>1. ledger = <<>> /\ decisions = {} /\ pending = {} /\ synced = FALSE
    BY DEF Init
  <2>2. Decided = {}
    BY <2>1 DEF Decided
  <2> QED BY <2>1, <2>2 DEF Ledger!LedgerInit
<1>2. RefinementInv /\ [Next]_vars => [Ledger!LedgerNext]_(Ledger!ledgerVars)
  BY RefinesStep
<1> QED BY <1>1, <1>2, BookIsKept, PTL DEF Spec, ImplementsLedger, Ledger!LedgerSpec
=============================================================================
