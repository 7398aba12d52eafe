------------------------------ MODULE BidEngine ------------------------------
(***************************************************************************)
(* The auction engine for ONE auction: the Kafka partition its bids are    *)
(* on, the engine processes of the consumer group, and the Redis keys and  *)
(* Kafka topics they write.  Every engine process runs four tasks that     *)
(* concern the auction and interleave freely:                              *)
(*                                                                         *)
(*   consumer    fetches records into the partition worker's queue;        *)
(*   worker      sends one record at a time to the actor, waits for the    *)
(*               reply, dead-letters or retries, and commits the offset;   *)
(*   actor       restores its state from Redis, decides bids, writes the   *)
(*               ledger, and closes the auction when its window is over;   *)
(*   publisher   moves the pending decisions from Redis to Kafka.          *)
(*                                                                         *)
(* A worker awaits each reply before it takes the next record, and all     *)
(* bids of the auction are on one partition, so an actor has at most one   *)
(* task outstanding.                                                       *)
(*                                                                         *)
(* Left out: back-off delays, the 24 h expiry of the dedupe keys, and the  *)
(* fire-and-forget pub/sub broadcast of publish_live_update, whose errors  *)
(* are swallowed and which no other step reads.                            *)
(***************************************************************************)
EXTENDS BidRule, FiniteSets

CONSTANTS
    Engines,          \* the engine processes of the consumer group
    Nobody,           \* "no engine owns the partition" / "no winner"
    Bids,             \* the records producers may append: [id, amount]
    AuctionType,      \* configured auction_type
    StartPrice,       \* configured starting_price
    Step,             \* configured minimum_bid_step
    Reserve,          \* configured reserve_price, 0 for none
    MaxPrice,         \* f64::MAX, the price of an actor with no state
    QueueCapacity,    \* AUCTION_KAFKA_PARTITION_QUEUE_CAPACITY
    RetryCapacity,    \* offsets the commit retry channel and its task hold
    MaxLog,           \* bound: records in the partition
    Faults,           \* the kinds of fault that may happen
    MaxFaults         \* bound: how many faults happen

FaultKinds == {"crash",       \* an engine process dies
               "rebalance",   \* the partition moves while its owner still runs
               "redis",       \* a Redis command fails without effect
               "reply_lost",  \* a Redis write takes effect, its reply is lost
               "read",        \* a Redis read whose error the code swallows fails
               "kafka",       \* publishing the sync record fails
               "commit",      \* an offset commit cannot be enqueued
               "commit_lost", \* an enqueued asynchronous commit is not stored
               "unhydrated"}  \* bids arrive before the scheduler hydrates Redis

ASSUME ConstantsAssumption ==
    /\ Engines # {}
    /\ Nobody \notin Engines
    /\ \A b \in Bids : /\ b = [id |-> b.id, amount |-> b.amount]
                       /\ b.amount \in Nat
                       /\ b.amount < MaxPrice
                       /\ b.id # Nobody
    /\ AuctionType \in AuctionTypes
    /\ StartPrice \in Nat /\ StartPrice <= MaxPrice
    /\ Step \in Nat \ {0}
    /\ Reserve \in Nat
    /\ MaxPrice \in Nat
    /\ QueueCapacity \in Nat \ {0}
    /\ RetryCapacity \in Nat
    /\ MaxLog \in Nat
    /\ MaxFaults \in Nat
    /\ Faults \subseteq FaultKinds

VARIABLES
    \* Kafka
    log,            \* the partition of auction-bids, in order
    committed,      \* records the group has committed (next offset to deliver)
    owner,          \* the engine the partition is assigned to, or Nobody
    decisions,      \* decisions on the auction-bid-decisions topic
    notifications,  \* decisions announced on the auction-notifications topic
    dlq,            \* positions dead-lettered to auction-dlq
    synced,         \* a record for this auction is on auction-sync
    \* Redis
    ledger,         \* {id}:stream:sync (and :live), the accepted decisions
    zset,           \* {id}:zset:low_bids, the accepted decisions by amount
    processed,      \* {id}:processed:*, the stored accepted decisions
    pending,        \* {id}:pending_kafka_events, a set of entries [sid, decision]
    lastSid,        \* the stream's last generated entry id
    hydrated,       \* {id}:state / auction:states hold the configuration
    outcome,        \* status and winner stored in auction:states
    \* an engine process
    position,       \* records fetched since the partition was assigned
    queue,          \* the partition worker's channel of positions
    worker,         \* the partition worker: its step and its record
    retries,        \* the commit retry channel
    inbox,          \* the actor's channel
    actor,          \* the actor's step
    task,           \* the position the actor is working on
    runtime,        \* the actor's AuctionRuntime
    winner,         \* close_auction's local winner
    publisher,      \* the publisher's step
    batch,          \* entries the publisher has read and not yet handled
    permit,         \* the Notify permit
    \* environment
    announced,      \* winners sent to the room by auction_closed
    ended,          \* the configured end time has passed
    budget          \* faults that may still happen

kafkaVars  == <<log, committed, owner, decisions, notifications, dlq, synced>>
redisVars  == <<ledger, zset, processed, pending, lastSid, hydrated, outcome>>
workerVars == <<position, queue, worker, retries>>
actorVars  == <<inbox, actor, task, runtime, winner>>
pubVars    == <<publisher, batch, permit>>
envVars    == <<announced, ended, budget>>
vars == <<kafkaVars, redisVars, workerVars, actorVars, pubVars, envVars>>

-----------------------------------------------------------------------------
(* Types *)

RequestIds == {b.id : b \in Bids}
Amounts == {b.amount : b \in Bids}
Positions == 1 .. MaxLog

\* The payload write_bid serialises for one processed bid.
Decision == [id : RequestIds, amount : Amounts, executed : BOOLEAN,
             prev : Nat, position : Positions]
Entry == [sid : Nat, decision : Decision]
Runtime == [type : AuctionTypes, price : Nat, step : Nat, reserve : Nat, known : BOOLEAN]
WorkerSteps == {"idle", "send", "wait", "dead", "commit"}
ActorSteps == {"absent", "load", "select", "script", "get", "replay", "reject",
               "drain", "winner", "hset", "sync", "emit"}
PublisherSteps == {"off", "read", "parked", "decision", "notification", "xdel"}

\* AuctionRuntime as the hydrated state describes it ...
Configured == [type |-> AuctionType, price |-> StartPrice, step |-> Step,
               reserve |-> Reserve, known |-> TRUE]
\* ... and load_runtime's defaults when no state is found: its 3-minute window
\* is unrelated to the auction's, so it may be over at any time.
Defaults == [type |-> "REVERSE", price |-> MaxPrice, step |-> 1,
             reserve |-> 0, known |-> FALSE]

\* A record worth sending to the actor; run_partition_worker dead-letters others.
Valid(b) == b.amount > 0

\* Every decision written and not lost: still pending in Redis or on the topic.
Decided == decisions \cup {x.decision : x \in pending}

-----------------------------------------------------------------------------
Init ==
    /\ log = <<>> /\ committed = 0 /\ owner = Nobody
    /\ decisions = {} /\ notifications = {} /\ dlq = {} /\ synced = FALSE
    /\ ledger = <<>> /\ zset = {} /\ processed = {} /\ pending = {} /\ lastSid = 0
    /\ hydrated = ("unhydrated" \notin Faults)
    /\ outcome = [status |-> "Active", winner |-> Nobody]
    /\ position = [e \in Engines |-> 0]
    /\ queue = [e \in Engines |-> <<>>]
    /\ worker = [e \in Engines |-> [step |-> "idle", at |-> 0]]
    /\ retries = [e \in Engines |-> <<>>]
    /\ inbox = [e \in Engines |-> <<>>]
    /\ actor = [e \in Engines |-> "absent"]
    /\ task = [e \in Engines |-> 0]
    /\ runtime = [e \in Engines |-> Defaults]
    /\ winner = [e \in Engines |-> Nobody]
    /\ publisher = [e \in Engines |-> "off"]
    /\ batch = [e \in Engines |-> {}]
    /\ permit = [e \in Engines |-> FALSE]
    /\ announced = {} /\ ended = FALSE /\ budget = MaxFaults

\* A fault of the given kind happens in this step / no fault happens.
Fault(kind) == kind \in Faults /\ budget > 0 /\ budget' = budget - 1
NoFault == UNCHANGED budget

-----------------------------------------------------------------------------
(* Environment *)

\* publish_bid: the ingestion service appends a bid, keyed by the auction id.
IngestBid(b) ==
    /\ Len(log) < MaxLog
    /\ log' = Append(log, b)
    /\ UNCHANGED <<committed, owner, decisions, notifications, dlq, synced>>
    /\ UNCHANGED <<redisVars, workerVars, actorVars, pubVars, envVars>>

\* The configured end time passes.
EndTimePasses ==
    /\ ~ended
    /\ ended' = TRUE
    /\ UNCHANGED <<announced, budget>>
    /\ UNCHANGED <<kafkaVars, redisVars, workerVars, actorVars, pubVars>>

\* The scheduler writes the auction's configuration to Redis.
Hydrate ==
    /\ ~hydrated
    /\ hydrated' = TRUE
    /\ UNCHANGED <<ledger, zset, processed, pending, lastSid, outcome>>
    /\ UNCHANGED <<kafkaVars, workerVars, actorVars, pubVars, envVars>>

\* The group coordinator gives the partition to e, which resumes at the
\* committed offset.  The engine has no rebalance callback: a former owner
\* that is still running keeps its queue, its worker and its actor.
Assign(e) ==
    /\ \/ owner = Nobody /\ NoFault
       \/ owner \in Engines \ {e} /\ Fault("rebalance")
    /\ owner' = e
    /\ position' = [position EXCEPT ![e] = committed]
    /\ UNCHANGED <<log, committed, decisions, notifications, dlq, synced>>
    /\ UNCHANGED <<queue, worker, retries, announced, ended>>
    /\ UNCHANGED <<redisVars, actorVars, pubVars>>

\* The process dies: all it holds in memory is gone, and the coordinator
\* takes the partition from it.
Crash(e) ==
    /\ Fault("crash")
    /\ owner' = IF owner = e THEN Nobody ELSE owner
    /\ queue' = [queue EXCEPT ![e] = <<>>]
    /\ worker' = [worker EXCEPT ![e] = [step |-> "idle", at |-> 0]]
    /\ retries' = [retries EXCEPT ![e] = <<>>]
    /\ inbox' = [inbox EXCEPT ![e] = <<>>]
    /\ actor' = [actor EXCEPT ![e] = "absent"]
    /\ task' = [task EXCEPT ![e] = 0]
    /\ runtime' = [runtime EXCEPT ![e] = Defaults]
    /\ winner' = [winner EXCEPT ![e] = Nobody]
    /\ publisher' = [publisher EXCEPT ![e] = "off"]
    /\ batch' = [batch EXCEPT ![e] = {}]
    /\ permit' = [permit EXCEPT ![e] = FALSE]
    /\ UNCHANGED <<log, committed, decisions, notifications, dlq, synced>>
    /\ UNCHANGED <<redisVars, position, announced, ended>>

-----------------------------------------------------------------------------
(* The consumer and the partition worker *)

\* consume: the next record goes to the worker's bounded channel.
Fetch(e) ==
    /\ owner = e
    /\ position[e] < Len(log)
    /\ Len(queue[e]) < QueueCapacity
    /\ position' = [position EXCEPT ![e] = @ + 1]
    /\ queue' = [queue EXCEPT ![e] = Append(@, position[e] + 1)]
    /\ UNCHANGED <<worker, retries, kafkaVars, redisVars, actorVars, pubVars, envVars>>

\* run_partition_worker takes a record: a malformed one or one with an
\* invalid amount is dead-lettered, the others are sent to the actor.
WorkerRecv(e) ==
    /\ worker[e].step = "idle"
    /\ queue[e] # <<>>
    /\ worker' = [worker EXCEPT ![e] =
                    [step |-> IF Valid(log[Head(queue[e])]) THEN "send" ELSE "dead",
                     at |-> Head(queue[e])]]
    /\ queue' = [queue EXCEPT ![e] = Tail(@)]
    /\ UNCHANGED <<position, retries, kafkaVars, redisVars, actorVars, pubVars, envVars>>

\* A missing actor is started by its supervisor, together with its publisher.
get_or_create(e) ==
    IF actor[e] = "absent"
    THEN /\ actor' = [actor EXCEPT ![e] = "load"]
         /\ publisher' = [publisher EXCEPT ![e] = "read"]
    ELSE UNCHANGED <<actor, publisher>>

\* The worker sends its record to the actor and awaits the reply.
WorkerSend(e) ==
    /\ worker[e].step = "send"
    /\ worker' = [worker EXCEPT ![e].step = "wait"]
    /\ inbox' = [inbox EXCEPT ![e] = <<worker[e].at>>]
    /\ get_or_create(e)
    /\ UNCHANGED <<position, queue, retries, task, runtime, winner, batch, permit>>
    /\ UNCHANGED <<kafkaVars, redisVars, envVars>>

\* dead_letter_until_stored: retried until the DLQ acknowledges.
DeadLetter(e) ==
    /\ worker[e].step = "dead"
    /\ dlq' = dlq \cup {worker[e].at}
    /\ worker' = [worker EXCEPT ![e].step = "commit"]
    /\ UNCHANGED <<log, committed, owner, decisions, notifications, synced>>
    /\ UNCHANGED <<position, queue, retries, redisVars, actorVars, pubVars, envVars>>

\* Mutant of Commit: the offset after the next record is committed.
CommitPastNext(e) ==
    /\ worker[e].step = "commit"
    /\ worker' = [worker EXCEPT ![e] = [step |-> "idle", at |-> 0]]
    /\ NoFault /\ committed' = worker[e].at + 1
    /\ UNCHANGED <<log, owner, decisions, notifications, dlq, synced, retries>>
    /\ UNCHANGED <<position, queue, announced, ended, redisVars, actorVars, pubVars>>

\* commit: an asynchronous commit is stored or silently lost; one that cannot
\* be enqueued goes to the retry channel, or is dropped when that is full.
Commit(e) ==
    /\ worker[e].step = "commit"
    /\ worker' = [worker EXCEPT ![e] = [step |-> "idle", at |-> 0]]
    /\ \/ NoFault /\ committed' = worker[e].at /\ UNCHANGED retries
       \/ Fault("commit_lost") /\ UNCHANGED <<committed, retries>>
       \/ /\ Fault("commit")
          /\ retries' = [retries EXCEPT ![e] =
                           IF Len(@) < RetryCapacity THEN Append(@, worker[e].at) ELSE @]
          /\ UNCHANGED committed
    /\ UNCHANGED <<log, owner, decisions, notifications, dlq, synced>>
    /\ UNCHANGED <<position, queue, announced, ended, redisVars, actorVars, pubVars>>

\* Mutant of RetryCommit: what was fetched in the meantime is committed with it.
RetryCommitFetched(e) ==
    /\ retries[e] # <<>>
    /\ retries' = [retries EXCEPT ![e] = Tail(@)]
    /\ NoFault /\ committed' = position[e]
    /\ UNCHANGED <<log, owner, decisions, notifications, dlq, synced>>
    /\ UNCHANGED <<position, queue, worker, announced, ended, redisVars, actorVars, pubVars>>

\* The retry task of consume commits the oldest offset that is waiting,
\* whatever has been committed in the meantime.
RetryCommit(e) ==
    /\ retries[e] # <<>>
    /\ retries' = [retries EXCEPT ![e] = Tail(@)]
    /\ \/ NoFault /\ committed' = Head(retries[e])
       \/ Fault("commit_lost") /\ UNCHANGED committed
    /\ UNCHANGED <<log, owner, decisions, notifications, dlq, synced>>
    /\ UNCHANGED <<position, queue, worker, announced, ended, redisVars, actorVars, pubVars>>

-----------------------------------------------------------------------------
(* The actor: loading and deciding *)

\* Mutants of AfterReply: a retryable failure is committed; it is given up.
CommitOnRetryable(result) == IF result = "Rejected" THEN "dead" ELSE "commit"
SkipOnRetryable(result) ==
    CASE result = "Committed" -> "commit"
      [] result = "Rejected"  -> "dead"
      [] result = "Retryable" -> "idle"

\* The worker's step after each kind of AuctionTaskResult.
AfterReply(result) ==
    CASE result = "Committed" -> "commit"
      [] result = "Rejected"  -> "dead"
      [] result = "Retryable" -> "send"

\* Mutant of LoopTop: the end time is only watched by the timer.
LoopTopUnchecked(rt) == "select"

\* Head of the actor loop: the end time is checked before the next recv.
LoopTop(rt) == IF rt.known /\ ended THEN "drain" ELSE "select"

\* The actor has answered its task and is back at the head of its loop.
Reply(e, result) ==
    /\ worker' = [worker EXCEPT ![e].step = AfterReply(result)]
    /\ actor' = [actor EXCEPT ![e] = LoopTop(runtime[e])]
    /\ task' = [task EXCEPT ![e] = 0]

\* Mutant of Seed: a restarted actor begins at the starting price.
SeedFromStart(rt, bids) == rt

\* The current price is that of the best bid in the sorted set, if any.
Seed(rt, bids) ==
    IF bids = {} THEN rt ELSE [rt EXCEPT !.price = BestBid(rt.type, bids).amount]

\* Mutant of Panic: only the actor is restarted.
PanicActorOnly(e) ==
    /\ actor' = [actor EXCEPT ![e] = "load"]
    /\ publisher' = [publisher EXCEPT ![e] = "off"]
    /\ UNCHANGED <<batch, permit>>

\* The supervisor restarts actor and publisher after a panic; the inbox stays.
Panic(e) ==
    /\ actor' = [actor EXCEPT ![e] = "load"]
    /\ publisher' = [publisher EXCEPT ![e] = "read"]
    /\ batch' = [batch EXCEPT ![e] = {}]
    /\ permit' = [permit EXCEPT ![e] = FALSE]

\* load_runtime: a failed read of the state or of the sorted set is taken for
\* an absent key; an unavailable pool panics.
LoadRuntime(e) ==
    /\ actor[e] = "load"
    /\ \/ /\ \E stateRead, bidsRead \in BOOLEAN :
              /\ IF stateRead /\ bidsRead THEN NoFault ELSE Fault("read")
              /\ LET rt == Seed(IF stateRead /\ hydrated THEN Configured ELSE Defaults,
                                IF bidsRead THEN zset ELSE {})
                 IN  /\ runtime' = [runtime EXCEPT ![e] = rt]
                     /\ actor' = [actor EXCEPT ![e] = LoopTop(rt)]
          /\ UNCHANGED pubVars
       \/ Fault("redis") /\ Panic(e) /\ UNCHANGED runtime
    /\ UNCHANGED <<inbox, task, winner, announced, ended>>
    /\ UNCHANGED <<kafkaVars, redisVars, workerVars>>

\* The actor receives a task and applies the bid rule to its own price.
ActorRecv(e) ==
    /\ actor[e] = "select"
    /\ inbox[e] # <<>>
    /\ task' = [task EXCEPT ![e] = Head(inbox[e])]
    /\ inbox' = [inbox EXCEPT ![e] = <<>>]
    /\ actor' = [actor EXCEPT ![e] =
                   IF is_better_bid(runtime[e].type, runtime[e].price,
                                    log[Head(inbox[e])].amount, runtime[e].step)
                   THEN "script" ELSE "get"]
    /\ UNCHANGED <<runtime, winner, kafkaVars, redisVars, workerVars, pubVars, envVars>>

-----------------------------------------------------------------------------
(* The actor: ledger::write_bid *)

DecisionOf(e, executed) ==
    [id |-> log[task[e]].id, amount |-> log[task[e]].amount, executed |-> executed,
     prev |-> runtime[e].price, position |-> task[e]]

\* GET of the accepted-only idempotency key of a request.
Stored(id) == {d \in processed : d.id = id}

\* XADD to the pending stream.
Xadd(d) ==
    /\ lastSid' = lastSid + 1
    /\ pending' = pending \cup {[sid |-> lastSid + 1, decision |-> d]}

\* Mutant of AcceptScript: the idempotency key is not checked.
AcceptUnchecked(d) ==
    /\ ledger' = Append(ledger, d)
    /\ zset' = zset \cup {d}
    /\ processed' = processed \cup {d}
    /\ Xadd(d)
    /\ UNCHANGED <<hydrated, outcome>>

\* The Lua script: nothing when the request was accepted before, otherwise all
\* five writes at once.
AcceptScript(d) ==
    /\ IF Stored(d.id) # {}
       THEN UNCHANGED <<ledger, zset, processed, pending, lastSid>>
       ELSE /\ ledger' = Append(ledger, d)
            /\ zset' = zset \cup {d}
            /\ processed' = processed \cup {d}
            /\ Xadd(d)
    /\ UNCHANGED <<hydrated, outcome>>

\* Applied: the actor takes the amount as its price and wakes the publisher;
\* Duplicate: it does neither.  Both are answered Committed.
RunScript(e) ==
    /\ actor[e] = "script"
    /\ LET d == DecisionOf(e, TRUE) IN
       \/ /\ NoFault /\ AcceptScript(d) /\ Reply(e, "Committed")
          /\ IF Stored(d.id) = {}
             THEN /\ runtime' = [runtime EXCEPT ![e].price = d.amount]
                  /\ permit' = [permit EXCEPT ![e] = TRUE]
             ELSE UNCHANGED <<runtime, permit>>
       \/ /\ Fault("redis") /\ Reply(e, "Retryable")
          /\ UNCHANGED <<redisVars, runtime, permit>>
       \/ /\ Fault("reply_lost") /\ AcceptScript(d) /\ Reply(e, "Retryable")
          /\ UNCHANGED <<runtime, permit>>
    /\ UNCHANGED <<position, queue, retries, inbox, winner, publisher, batch>>
    /\ UNCHANGED <<announced, ended, kafkaVars>>

\* Mutant of GetProcessed: a bid that does not improve is always rejected.
RejectUnchecked(e) ==
    /\ actor[e] = "get"
    /\ NoFault
    /\ actor' = [actor EXCEPT ![e] = "reject"]
    /\ UNCHANGED <<worker, task>>
    /\ UNCHANGED <<position, queue, retries, inbox, runtime, winner, announced, ended>>
    /\ UNCHANGED <<kafkaVars, redisVars, pubVars>>

\* A bid that does not improve the price may be the replay of an accepted one.
GetProcessed(e) ==
    /\ actor[e] = "get"
    /\ \/ /\ NoFault
          /\ actor' = [actor EXCEPT ![e] =
                         IF Stored(log[task[e]].id) # {} THEN "replay" ELSE "reject"]
          /\ UNCHANGED <<worker, task>>
       \/ Fault("redis") /\ Reply(e, "Retryable")
    /\ UNCHANGED <<position, queue, retries, inbox, runtime, winner, announced, ended>>
    /\ UNCHANGED <<kafkaVars, redisVars, pubVars>>

\* The stored decision is queued again; the write counts as a Duplicate, so the
\* publisher is not woken.
XaddReplay(e) ==
    /\ actor[e] = "replay"
    /\ \/ /\ NoFault /\ Reply(e, "Committed")
          /\ \E d \in Stored(log[task[e]].id) : Xadd(d)
       \/ /\ Fault("redis") /\ Reply(e, "Retryable")
          /\ UNCHANGED <<pending, lastSid>>
       \/ /\ Fault("reply_lost") /\ Reply(e, "Retryable")
          /\ \E d \in Stored(log[task[e]].id) : Xadd(d)
    /\ UNCHANGED <<ledger, zset, processed, hydrated, outcome>>
    /\ UNCHANGED <<position, queue, retries, inbox, runtime, winner, announced, ended>>
    /\ UNCHANGED <<kafkaVars, pubVars>>

\* The rejection is queued for the audit trail and the publisher is woken.
XaddReject(e) ==
    /\ actor[e] = "reject"
    /\ \/ /\ NoFault /\ Reply(e, "Committed") /\ Xadd(DecisionOf(e, FALSE))
          /\ permit' = [permit EXCEPT ![e] = TRUE]
       \/ /\ Fault("redis") /\ Reply(e, "Retryable")
          /\ UNCHANGED <<pending, lastSid, permit>>
       \/ /\ Fault("reply_lost") /\ Reply(e, "Retryable") /\ Xadd(DecisionOf(e, FALSE))
          /\ UNCHANGED permit
    /\ UNCHANGED <<ledger, zset, processed, hydrated, outcome>>
    /\ UNCHANGED <<position, queue, retries, inbox, runtime, winner, publisher, batch>>
    /\ UNCHANGED <<announced, ended, kafkaVars>>

-----------------------------------------------------------------------------
(* The actor: close_and_exit and ledger::close_auction *)

\* The sleep until the end of the actor's window wins the select; a task that
\* arrived at the same moment may still be received instead.
CloseTimer(e) ==
    /\ actor[e] = "select"
    /\ ended \/ ~runtime[e].known
    /\ actor' = [actor EXCEPT ![e] = "drain"]
    /\ UNCHANGED <<inbox, task, runtime, winner>>
    /\ UNCHANGED <<kafkaVars, redisVars, workerVars, pubVars, envVars>>

\* Mutant of Drain: the waiting task is dropped without an answer.
DrainUnanswered(e) ==
    /\ actor[e] = "drain"
    /\ actor' = [actor EXCEPT ![e] = "winner"]
    /\ inbox' = [inbox EXCEPT ![e] = <<>>]
    /\ UNCHANGED <<position, queue, worker, retries, task, runtime, winner>>
    /\ UNCHANGED <<kafkaVars, redisVars, pubVars, envVars>>

\* reject_queued_tasks: a waiting task is answered Rejected("AUCTION_ENDED").
Drain(e) ==
    /\ actor[e] = "drain"
    /\ actor' = [actor EXCEPT ![e] = "winner"]
    /\ inbox' = [inbox EXCEPT ![e] = <<>>]
    /\ worker' = IF inbox[e] = <<>> THEN worker
                 ELSE [worker EXCEPT ![e].step = AfterReply("Rejected")]
    /\ UNCHANGED <<position, queue, retries, task, runtime, winner>>
    /\ UNCHANGED <<kafkaVars, redisVars, pubVars, envVars>>

\* Mutant of WinnerOf: the reserve is ignored.
WinnerWithoutReserve(rt, bids) ==
    IF bids = {} THEN Nobody ELSE BestBid(rt.type, bids).id

\* The winner close_auction finds: the best bid, if it meets the reserve.
WinnerOf(rt, bids) ==
    IF bids = {} THEN Nobody
    ELSE LET best == BestBid(rt.type, bids)
         IN  IF MeetsReserve(rt.type, rt.reserve, best.amount) THEN best.id ELSE Nobody

\* ZRANGE / ZREVRANGE; a failed read counts as no bids, an unavailable pool panics.
CloseRead(e) ==
    /\ actor[e] = "winner"
    /\ \/ /\ \/ NoFault /\ winner' = [winner EXCEPT ![e] = WinnerOf(runtime[e], zset)]
             \/ Fault("read") /\ winner' = [winner EXCEPT ![e] = Nobody]
          /\ actor' = [actor EXCEPT ![e] = "hset"]
          /\ UNCHANGED pubVars
       \/ Fault("redis") /\ Panic(e) /\ UNCHANGED winner
    /\ UNCHANGED <<inbox, task, runtime, announced, ended>>
    /\ UNCHANGED <<kafkaVars, redisVars, workerVars>>

\* HGET and HSET of auction:states; without a state (or after a failed HGET)
\* nothing is stored, and a failed HSET panics.
CloseState(e) ==
    /\ actor[e] = "hset"
    /\ \/ /\ \/ /\ NoFault /\ hydrated
                /\ outcome' = [status |-> "Completed",
                               winner |-> IF winner[e] = Nobody THEN outcome.winner
                                          ELSE winner[e]]
             \/ NoFault /\ ~hydrated /\ UNCHANGED outcome
             \/ Fault("read") /\ UNCHANGED outcome
          /\ actor' = [actor EXCEPT ![e] = "sync"]
          /\ UNCHANGED pubVars
       \/ Fault("redis") /\ Panic(e) /\ UNCHANGED outcome
    /\ UNCHANGED <<ledger, zset, processed, pending, lastSid, hydrated>>
    /\ UNCHANGED <<inbox, task, runtime, winner, announced, ended, kafkaVars, workerVars>>

\* The sync record; a failed publish panics.
CloseSync(e) ==
    /\ actor[e] = "sync"
    /\ \/ /\ NoFault /\ synced' = TRUE
          /\ actor' = [actor EXCEPT ![e] = "emit"]
          /\ UNCHANGED pubVars
       \/ Fault("kafka") /\ Panic(e) /\ UNCHANGED synced
    /\ UNCHANGED <<log, committed, owner, decisions, notifications, dlq>>
    /\ UNCHANGED <<inbox, task, runtime, winner, announced, ended, redisVars, workerVars>>

\* The actor has exited: the supervisor drops the publisher, removes the actor
\* from the registry and drops its inbox.  A task sent since the drain is
\* answered by the dropped reply channel.
ExitActor(e) ==
    /\ actor' = [actor EXCEPT ![e] = "absent"]
    /\ inbox' = [inbox EXCEPT ![e] = <<>>]
    /\ worker' = IF inbox[e] = <<>> THEN worker
                 ELSE [worker EXCEPT ![e].step = AfterReply("Retryable")]
    /\ publisher' = [publisher EXCEPT ![e] = "off"]
    /\ batch' = [batch EXCEPT ![e] = {}]
    /\ permit' = [permit EXCEPT ![e] = FALSE]

\* auction_closed is emitted and the actor exits; a failed emit panics.
CloseEmit(e) ==
    /\ actor[e] = "emit"
    /\ \/ NoFault /\ announced' = announced \cup {winner[e]} /\ ExitActor(e)
       \/ Fault("redis") /\ Panic(e) /\ UNCHANGED <<announced, inbox, worker>>
    /\ UNCHANGED <<position, queue, retries, task, runtime, winner, ended>>
    /\ UNCHANGED <<kafkaVars, redisVars>>

-----------------------------------------------------------------------------
(* The publisher: run_kafka_publisher_loop *)

\* The first entry of a stream read: stream ids grow, so the oldest one.
First(entries) == {x \in entries : \A y \in entries : x.sid <= y.sid}

\* XREAD of the whole pending stream from 0-0.
PublisherRead(e) ==
    /\ publisher[e] = "read"
    /\ batch' = [batch EXCEPT ![e] = pending]
    /\ publisher' = [publisher EXCEPT ![e] = IF pending = {} THEN "parked" ELSE "decision"]
    /\ UNCHANGED <<permit, kafkaVars, redisVars, workerVars, actorVars, envVars>>

\* notified() consumes the permit.
PublisherWake(e) ==
    /\ publisher[e] = "parked"
    /\ permit[e]
    /\ permit' = [permit EXCEPT ![e] = FALSE]
    /\ publisher' = [publisher EXCEPT ![e] = "read"]
    /\ UNCHANGED <<batch, kafkaVars, redisVars, workerVars, actorVars, envVars>>

\* Mutant of PublishDecision: a failed publish is not retried.
PublishDecisionOnce(e) ==
    /\ publisher[e] = "decision"
    /\ UNCHANGED decisions
    /\ publisher' = [publisher EXCEPT ![e] = "notification"]
    /\ UNCHANGED <<log, committed, owner, notifications, dlq, synced, batch, permit>>
    /\ UNCHANGED <<redisVars, workerVars, actorVars, envVars>>

\* publish_decision_with_retry: retried until Kafka acknowledges.
PublishDecision(e) ==
    /\ publisher[e] = "decision"
    /\ \E x \in First(batch[e]) : decisions' = decisions \cup {x.decision}
    /\ publisher' = [publisher EXCEPT ![e] = "notification"]
    /\ UNCHANGED <<log, committed, owner, notifications, dlq, synced, batch, permit>>
    /\ UNCHANGED <<redisVars, workerVars, actorVars, envVars>>

\* publish_notification_with_retry.
PublishNotification(e) ==
    /\ publisher[e] = "notification"
    /\ \E x \in First(batch[e]) : notifications' = notifications \cup {x.decision}
    /\ publisher' = [publisher EXCEPT ![e] = "xdel"]
    /\ UNCHANGED <<log, committed, owner, decisions, dlq, synced, batch, permit>>
    /\ UNCHANGED <<redisVars, workerVars, actorVars, envVars>>

\* XDEL of the handled entry; when it fails the entry is read again later.
PublisherXdel(e) ==
    /\ publisher[e] = "xdel"
    /\ \E x \in First(batch[e]) :
          /\ \/ NoFault /\ pending' = pending \ {x}
             \/ Fault("redis") /\ UNCHANGED pending
          /\ batch' = [batch EXCEPT ![e] = @ \ {x}]
          /\ publisher' = [publisher EXCEPT ![e] =
                             IF batch[e] = {x} THEN "read" ELSE "decision"]
    /\ UNCHANGED <<ledger, zset, processed, lastSid, hydrated, outcome, permit>>
    /\ UNCHANGED <<kafkaVars, workerVars, actorVars, announced, ended>>

-----------------------------------------------------------------------------
(* The specification *)

WorkerStep(e) == WorkerRecv(e) \/ WorkerSend(e) \/ DeadLetter(e) \/ Commit(e)
WriteBid(e) == RunScript(e) \/ GetProcessed(e) \/ XaddReplay(e) \/ XaddReject(e)
CloseAuction(e) == Drain(e) \/ CloseRead(e) \/ CloseState(e) \/ CloseSync(e) \/ CloseEmit(e)
ActorStep(e) == LoadRuntime(e) \/ ActorRecv(e) \/ WriteBid(e) \/ CloseTimer(e) \/ CloseAuction(e)
PublisherStep(e) ==
    \/ PublisherRead(e) \/ PublisherWake(e)
    \/ PublishDecision(e) \/ PublishNotification(e) \/ PublisherXdel(e)

Next ==
    \/ \E b \in Bids : IngestBid(b)
    \/ EndTimePasses
    \/ Hydrate
    \/ \E e \in Engines :
          \/ Assign(e) \/ Crash(e) \/ Fetch(e) \/ RetryCommit(e)
          \/ WorkerStep(e) \/ ActorStep(e) \/ PublisherStep(e)

Spec == Init /\ [][Next]_vars

\* Every task of a running engine is scheduled again and again, and the group
\* coordinator does not leave the partition unowned.  Nothing obliges bids to
\* come, the clock to pass the end time or a fault to happen.
Fairness ==
    /\ WF_vars(\E e \in Engines : Assign(e) /\ owner = Nobody)
    /\ \A e \in Engines : /\ WF_vars(Fetch(e))
                          /\ WF_vars(WorkerStep(e))
                          /\ WF_vars(ActorStep(e))
                          /\ WF_vars(PublisherStep(e))

FairSpec == Spec /\ Fairness

-----------------------------------------------------------------------------
(* Properties *)

KafkaTypes ==
    /\ log \in Seq(Bids) /\ Len(log) <= MaxLog
    /\ committed \in 0 .. Len(log)
    /\ owner \in Engines \cup {Nobody}
    /\ decisions \subseteq Decision /\ notifications \subseteq Decision
    /\ dlq \subseteq Positions
    /\ synced \in BOOLEAN

RedisTypes ==
    /\ ledger \in Seq(Decision)
    /\ zset \subseteq Decision /\ processed \subseteq Decision
    /\ pending \subseteq Entry
    /\ lastSid \in Nat
    /\ hydrated \in BOOLEAN
    /\ outcome \in [status : {"Active", "Completed"}, winner : RequestIds \cup {Nobody}]

WorkerTypes ==
    /\ position \in [Engines -> 0 .. Len(log)]
    /\ queue \in [Engines -> Seq(1 .. Len(log))]
    /\ worker \in [Engines -> [step : WorkerSteps, at : 0 .. Len(log)]]
    /\ retries \in [Engines -> Seq(1 .. Len(log))]

ActorTypes ==
    /\ inbox \in [Engines -> Seq(1 .. Len(log))]
    /\ actor \in [Engines -> ActorSteps]
    /\ task \in [Engines -> 0 .. Len(log)]
    /\ runtime \in [Engines -> Runtime]
    /\ winner \in [Engines -> RequestIds \cup {Nobody}]

PublisherTypes ==
    /\ publisher \in [Engines -> PublisherSteps]
    /\ batch \in [Engines -> SUBSET Entry]
    /\ permit \in [Engines -> BOOLEAN]

EnvTypes ==
    /\ announced \subseteq RequestIds \cup {Nobody}
    /\ ended \in BOOLEAN
    /\ budget \in Nat

\* Every variable holds a value of its type; positions never run past the log.
TypeOK == /\ KafkaTypes /\ RedisTypes /\ WorkerTypes
          /\ ActorTypes /\ PublisherTypes /\ EnvTypes

Working(e) == actor[e] \in {"script", "get", "replay", "reject"}

\* A worker waits exactly while its record is in one place: in the actor's
\* inbox, or with the actor.  The reply of run_actor_loop, the drain of
\* reject_queued_tasks, the dropped inbox of an exited actor and the inbox kept
\* by a restarted one between them never lose a task (the worker would wait for
\* ever and stall the partition) nor answer one twice.
OneTaskOutstanding ==
    \A e \in Engines :
        /\ worker[e].step # "idle" => worker[e].at \in 1 .. Len(log)
        /\ worker[e].step = "wait" <=> (Working(e) \/ inbox[e] # <<>>)
        /\ Working(e) => task[e] = worker[e].at /\ inbox[e] = <<>>
        /\ inbox[e] # <<>> => inbox[e] = <<worker[e].at>>
        /\ actor[e] = "absent" => inbox[e] = <<>>

\* The record at a position is dead-lettered, or its request has a decision
\* that is on the decision topic or still pending in Redis.
Settled(p) == p \in dlq \/ \E d \in Decided : d.id = log[p].id

\* A bid below the committed offset is never lost, whatever crashes, moves,
\* fails or is replayed: run_partition_worker commits a record only once it is
\* dead-lettered or its decision is durable, and the publisher deletes a
\* pending decision only once it is on the topic.
NoBidLost == \A p \in 1 .. committed : Settled(p)

\* No request enters the ledger twice, however often its record is delivered or
\* its client submits it, by one engine or by two: the Lua script checks and
\* sets the idempotency key in one step.
AcceptedOnce ==
    \A i, j \in DOMAIN ledger : ledger[i].id = ledger[j].id => i = j

\* A decision on the topic or pending is never deleted before both publishes:
\* what has been decided stays decided until it is on auction-bid-decisions,
\* and a decision leaves the pending stream only when it was also announced.
NoDecisionDropped ==
    [][/\ Decided \subseteq Decided'
       /\ \A x \in pending \ pending' : x.decision \in notifications]_vars

\* Each accepted bid beats the one accepted before it (the first one the
\* starting price) by at least the minimum step: README.md, "Forward bids must
\* increase the current price by minimum_bid_step; reverse bids must reduce it
\* by the same rule".  The actor decides from a price it keeps in memory.
PriceImproves ==
    \A i \in DOMAIN ledger :
        is_better_bid(AuctionType, IF i = 1 THEN StartPrice ELSE ledger[i - 1].amount,
                      ledger[i].amount, Step)

\* The decision trail and the ledger tell the same story: a request has an
\* accepting decision exactly when it is in the ledger, so a replayed record
\* never gets a second verdict (write_bid looks for the stored decision before
\* it rejects a replay).
AuditMatchesLedger ==
    \A d \in Decided : d.executed <=> \E i \in DOMAIN ledger : ledger[i].id = d.id

\* Once the sync record is published the ledger is final: the worker that
\* finalises the auction from Redis sees every accepted bid.
LedgerFinalAfterSync == [][synced => ledger' = ledger]_vars

\* Every winner announced to the room, at the first close and at the closes
\* that late bids provoke, is the best accepted bid that meets the reserve.
AnnouncedWinnerIsBest ==
    \A w \in announced :
        IF w = Nobody
        THEN \A i \in DOMAIN ledger : ~MeetsReserve(AuctionType, Reserve, ledger[i].amount)
        ELSE \E i \in DOMAIN ledger :
                /\ ledger[i].id = w
                /\ MeetsReserve(AuctionType, Reserve, ledger[i].amount)
                /\ \A j \in DOMAIN ledger :
                      RanksFirst(AuctionType, ledger[i].amount, ledger[j].amount)

\* The engine implements the sequential book of AuctionLedger.
Ledger == INSTANCE AuctionLedger WITH
    accepted <- [i \in DOMAIN ledger |-> [id |-> ledger[i].id, amount |-> ledger[i].amount]],
    rejected <- {d.id : d \in {x \in Decided : ~x.executed}},
    open     <- ~synced

\* Crashes, hand-overs after a crash, failed Redis and Kafka calls and lost
\* commits are invisible to a bidder: what the engine writes to Redis and
\* Kafka is a run of the sequential book of AuctionLedger.
ImplementsLedger == Ledger!LedgerSpec

\* Every bid in the partition is eventually decided or dead-lettered, however
\* many times (finitely often) its processing fails.
EveryBidSettles ==
    \A p \in Positions : (p <= Len(log)) ~> (p <= Len(log) /\ Settled(p))

\* As long as the auction has not ended, a decision that is pending in Redis
\* gets to the decision topic: the wake-up of the publisher is never lost.
PublishedWhileOpen ==
    \A id \in RequestIds :
        (\E x \in pending : x.decision.id = id)
            ~> (ended \/ \E d \in decisions : d.id = id)
=============================================================================
