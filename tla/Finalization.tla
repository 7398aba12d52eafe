----------------------------- MODULE Finalization -----------------------------
(***************************************************************************)
(* How ONE auction gets from Redis to PostgreSQL.  Three actors race:      *)
(*                                                                         *)
(*   engine    accepts bids, closes the auction at its end time and        *)
(*             publishes an auction-sync record;                           *)
(*   sweeper   publishes the record too for an auction that is not         *)
(*             COMPLETED five seconds after its end;                       *)
(*   syncer    reads the accepted bids, completes the auction, inserts     *)
(*             the bids, deletes the Redis keys and commits.               *)
(*                                                                         *)
(* Sweeper and syncer are tasks of one notification-worker process.  The   *)
(* engine is the one of BidEngine with a single owner, one step per        *)
(* decision; the id of a bid is that of its bidder.                        *)
(***************************************************************************)
EXTENDS BidRule, FiniteSets

CONSTANTS
    Bids,          \* the bids of the auction: [id, amount]
    Nobody,        \* "no winner"
    AuctionType,   \* auction_configs.auction_type and the hydrated state
    StartPrice,
    Step,
    Reserve,       \* reserve_price, 0 for none
    MaxPrice,      \* f64::MAX
    MaxAttempts,   \* attempts of the sync worker for one record (3)
    Foreign,       \* bound: the foreign records on the partition, "other" and "bad"
    MaxSync,       \* bound: records in the auction-sync partition
    Faults,        \* the kinds of fault that may happen
    MaxFaults      \* bound: how many faults happen

FaultKinds == {"engine",  \* the engine process dies
               "worker",  \* the notification-worker process dies
               "redis",   \* a Redis command whose error is handled fails
               "read",    \* reads of the engine fail, which takes them for absent keys
               "slow",    \* an actor is in its loop five seconds after the end
               "db",      \* a PostgreSQL statement whose error is handled fails
               "config",  \* the read of auction_configs fails
               "kafka",   \* a publish fails
               "commit",  \* an asynchronous commit is not stored
               "expire"}  \* bids are delivered after the state key expired

ASSUME FinalizationAssumption ==
    /\ \A b \in Bids : /\ DOMAIN b = {"id", "amount"}
                       /\ b.amount \in Nat \ {0}
                       /\ b.amount < MaxPrice
                       /\ b.id # Nobody
    /\ AuctionType \in AuctionTypes
    /\ StartPrice \in Nat /\ Step \in Nat \ {0} /\ Reserve \in Nat /\ MaxPrice \in Nat
    /\ MaxAttempts \in Nat \ {0}
    /\ MaxSync \in Nat /\ MaxFaults \in Nat
    /\ Faults \subseteq FaultKinds /\ Foreign \subseteq {"other", "bad"}

VARIABLES
    \* Redis
    zset,           \* {id}:zset:low_bids
    stateKey,       \* {id}:state exists (it has a time to live)
    stateHash,      \* the auction's field of auction:states exists
    \* Kafka
    backlog,        \* bids on auction-bids that are not settled
    syncLog,        \* the auction-sync partition: "this" auction, an "other", "bad"
    syncCommitted,  \* records the sync group has committed
    dlq,            \* positions of sync records on auction-dlq
    \* PostgreSQL
    status,         \* auctions.status
    dbWinner,       \* auctions.winner_id
    dbBids,         \* the auction's rows of bids
    \* the engine
    engine,         \* the actor's step
    inbox,          \* the task the actor has been sent, a set of at most one
    runtime,        \* the actor's AuctionRuntime
    closing,        \* close_auction's locals: the winner, and whether a state was read
    \* the notification worker
    syncer,         \* the sync worker: step, record, attempt, auction config, bids read
    fetched,        \* sync records fetched since the partition was assigned
    sweeper,        \* the sweep worker's step
    \* environment
    clock,          \* where the wall clock is
    budget,         \* faults that may still happen
    \* history
    accepted,       \* every bid ever accepted
    late,           \* those accepted between a ZRANGE and the DEL of the sync worker
    strayed         \* an actor did not know the end of the auction, or missed it

redisVars  == <<zset, stateKey, stateHash>>
kafkaVars  == <<backlog, syncLog, syncCommitted, dlq>>
dbVars     == <<status, dbWinner, dbBids>>
engineVars == <<engine, inbox, runtime, closing>>
workerVars == <<syncer, fetched, sweeper>>
histVars   == <<accepted, late, strayed>>
vars == <<redisVars, kafkaVars, dbVars, engineVars, workerVars, clock, budget, histVars>>

-----------------------------------------------------------------------------
Configured == [type |-> AuctionType, price |-> StartPrice, step |-> Step,
               reserve |-> Reserve, known |-> TRUE]
Defaults == [type |-> "REVERSE", price |-> MaxPrice, step |-> 1, reserve |-> 0, known |-> FALSE]
Idle == [step |-> "idle", at |-> 0, attempt |-> 0, type |-> "REVERSE", reserve |-> 0, bids |-> {}]

Ids == {b.id : b \in Bids}
ended == clock # "open"

Init ==
    /\ zset = {} /\ stateKey = TRUE /\ stateHash = TRUE
    /\ backlog = Bids /\ syncLog = <<>> /\ syncCommitted = 0 /\ dlq = {}
    /\ status = "ACTIVE" /\ dbWinner = Nobody /\ dbBids = {}
    /\ engine = "absent" /\ inbox = {} /\ runtime = Defaults
    /\ closing = [winner |-> Nobody, state |-> FALSE]
    /\ syncer = Idle /\ fetched = 0 /\ sweeper = "idle"
    /\ clock = "open" /\ budget = MaxFaults
    /\ accepted = {} /\ late = {} /\ strayed = FALSE

Fault(kind) == kind \in Faults /\ budget > 0 /\ budget' = budget - 1
NoFault == UNCHANGED budget

-----------------------------------------------------------------------------
(* Environment *)

\* Time passes: the end, the sweeper's grace of five seconds, the expiry of the
\* state key, five minutes or more later.  An actor that knows the end has left its
\* loop within the grace, as the sweeper expects, or is slow.
Tick ==
    /\ \/ clock = "open" /\ clock' = "ended" /\ NoFault /\ UNCHANGED <<stateKey, strayed>>
       \/ /\ clock = "ended" /\ clock' = "grace" /\ UNCHANGED stateKey
          /\ IF engine \in {"select", "script"} /\ runtime.known
             THEN Fault("slow") /\ strayed' = TRUE
             ELSE NoFault /\ UNCHANGED strayed
       \/ /\ clock = "grace" /\ clock' = "expired" /\ Fault("expire")
          /\ stateKey' = FALSE /\ UNCHANGED strayed
    /\ UNCHANGED <<zset, stateHash, kafkaVars, dbVars, engineVars, workerVars, accepted, late>>

\* A sync record of another auction, or a malformed one, on the same partition.
ForeignRecord(kind) ==
    /\ \A p \in DOMAIN syncLog : syncLog[p] # kind
    /\ Len(syncLog) < MaxSync
    /\ syncLog' = Append(syncLog, kind)
    /\ UNCHANGED <<redisVars, backlog, syncCommitted, dlq, dbVars, engineVars, workerVars>>
    /\ UNCHANGED <<clock, budget, histVars>>

EngineCrash ==
    /\ Fault("engine")
    /\ engine' = "absent" /\ inbox' = {} /\ runtime' = Defaults
    /\ closing' = [winner |-> Nobody, state |-> FALSE]
    /\ UNCHANGED <<redisVars, kafkaVars, dbVars, workerVars, clock, histVars>>

\* The process dies: the sync record in work is delivered again.
WorkerCrash ==
    /\ Fault("worker")
    /\ syncer' = Idle /\ fetched' = syncCommitted /\ sweeper' = "idle"
    /\ UNCHANGED <<redisVars, kafkaVars, dbVars, engineVars, clock, histVars>>

-----------------------------------------------------------------------------
(* The engine *)

\* A record is sent to the actor, which is started when there is none.
Deliver(b) ==
    /\ b \in backlog /\ inbox = {}
    /\ inbox' = {b}
    /\ engine' = IF engine = "absent" THEN "load" ELSE engine
    /\ UNCHANGED <<redisVars, kafkaVars, dbVars, runtime, closing, workerVars>>
    /\ UNCHANGED <<clock, budget, histVars>>

Seed(rt, bids) ==
    IF bids = {} THEN rt ELSE [rt EXCEPT !.price = BestBid(rt.type, bids).amount]
LoopTop(rt) == IF rt.known /\ ended THEN "drain" ELSE "select"

\* load_runtime: the state key, then the shared hash, else the defaults; then the
\* best bid.  A read that fails is taken for an absent key.
Load ==
    /\ engine = "load"
    /\ \E keyRead, hashRead, bidsRead \in BOOLEAN :
          /\ IF keyRead /\ hashRead /\ bidsRead THEN NoFault ELSE Fault("read")
          /\ LET found == (keyRead /\ stateKey) \/ (hashRead /\ stateHash)
                 rt == Seed(IF found THEN Configured ELSE Defaults, IF bidsRead THEN zset ELSE {})
             IN  /\ runtime' = rt /\ engine' = LoopTop(rt)
                 /\ strayed' = (strayed \/ ~found)
    /\ UNCHANGED <<redisVars, kafkaVars, dbVars, inbox, closing, workerVars>>
    /\ UNCHANGED <<clock, accepted, late>>

\* A bid that does not improve the price is rejected at once; one that does is
\* written in a step of its own.
Decide(b) ==
    /\ engine = "select" /\ b \in inbox
    /\ IF is_better_bid(runtime.type, runtime.price, b.amount, runtime.step)
       THEN engine' = "script" /\ UNCHANGED <<inbox, backlog>>
       ELSE /\ engine' = LoopTop(runtime)
            /\ inbox' = {} /\ backlog' = backlog \ {b}
    /\ UNCHANGED <<redisVars, syncLog, syncCommitted, dlq, dbVars, runtime, closing, workerVars>>
    /\ UNCHANGED <<clock, budget, histVars>>

Accept(b) ==
    /\ engine = "script" /\ b \in inbox
    /\ zset' = zset \cup {b} /\ accepted' = accepted \cup {b}
    /\ late' = IF syncer.step \in {"update", "insert", "clean"} THEN late \cup {b} ELSE late
    /\ runtime' = [runtime EXCEPT !.price = b.amount]
    /\ engine' = LoopTop(runtime)
    /\ inbox' = {} /\ backlog' = backlog \ {b}
    /\ UNCHANGED <<stateKey, stateHash, syncLog, syncCommitted, dlq, dbVars, closing>>
    /\ UNCHANGED <<workerVars, clock, budget, strayed>>

\* The end of the actor's window: of the defaults' three minutes, at any time.
CloseTimer ==
    /\ engine = "select"
    /\ ended \/ ~runtime.known
    /\ engine' = "drain"
    /\ UNCHANGED <<redisVars, kafkaVars, dbVars, inbox, runtime, closing, workerVars>>
    /\ UNCHANGED <<clock, budget, histVars>>

\* The best of a set of bids, if it meets the reserve.
WinnerOf(type, reserve, bids) ==
    IF bids = {} THEN Nobody
    ELSE LET best == BestBid(type, bids)
         IN  IF MeetsReserve(type, reserve, best.amount) THEN best.id ELSE Nobody

\* Waiting tasks are dead-lettered; close_auction reads the best bid and the state,
\* and a read that fails finds neither.  Without a connection it panics.
CloseRead ==
    /\ engine = "drain"
    /\ inbox' = {} /\ backlog' = backlog \ inbox
    /\ \/ \E bidsRead, hashRead \in BOOLEAN :
             /\ IF bidsRead /\ hashRead THEN NoFault ELSE Fault("read")
             /\ closing' = [winner |-> WinnerOf(runtime.type, runtime.reserve, IF bidsRead THEN zset ELSE {}),
                            state |-> hashRead /\ stateHash]
             /\ engine' = "hset"
       \/ Fault("redis") /\ engine' = "load" /\ UNCHANGED closing
    /\ UNCHANGED <<redisVars, syncLog, syncCommitted, dlq, dbVars, runtime, workerVars>>
    /\ UNCHANGED <<clock, histVars>>

\* The state that was read is written back with its new status; a failed HSET panics.
CloseState ==
    /\ engine = "hset"
    /\ \/ NoFault /\ stateHash' = (stateHash \/ closing.state) /\ engine' = "sync"
       \/ closing.state /\ Fault("redis") /\ engine' = "load" /\ UNCHANGED stateHash
    /\ UNCHANGED <<zset, stateKey, kafkaVars, dbVars, inbox, runtime, closing, workerVars>>
    /\ UNCHANGED <<clock, histVars>>

\* The sync record, and the exit after the announcement; a failed publish
\* panics, and the restarted actor closes again.
CloseSync ==
    /\ engine = "sync"
    /\ \/ /\ NoFault /\ Len(syncLog) < MaxSync
          /\ syncLog' = Append(syncLog, "this")
          /\ engine' = "absent" /\ inbox' = {}
       \/ Fault("kafka") /\ engine' = "load" /\ UNCHANGED <<syncLog, inbox>>
    /\ UNCHANGED <<redisVars, backlog, syncCommitted, dlq, dbVars, runtime, closing, workerVars>>
    /\ UNCHANGED <<clock, histVars>>

-----------------------------------------------------------------------------
(* The sync worker *)

syncUnchanged == UNCHANGED <<stateKey, backlog, syncLog, engineVars, sweeper, clock, histVars>>

To(step) == syncer' = [syncer EXCEPT !.step = step]

\* A failed attempt is repeated until the attempts are exhausted.
Retry ==
    syncer' = IF syncer.attempt >= MaxAttempts
              THEN [syncer EXCEPT !.step = "dlq"]
              ELSE [syncer EXCEPT !.step = "config", !.attempt = @ + 1]

\* Variant: the records of a COMPLETED auction are skipped as done.
SyncFetchOnce ==
    /\ syncer.step = "idle" /\ fetched < Len(syncLog)
    /\ fetched' = fetched + 1
    /\ syncer' = [Idle EXCEPT !.at = fetched + 1, !.attempt = 1,
                   !.step = IF syncLog[fetched + 1] = "this" /\ status # "COMPLETED"
                            THEN "config" ELSE "commit"]
    /\ syncUnchanged
    /\ UNCHANGED <<zset, stateHash, syncCommitted, dlq, dbVars, budget>>

\* The next record: malformed ones are dead-lettered, another auction's is
\* finalised without touching this one.
SyncFetch ==
    /\ syncer.step = "idle" /\ fetched < Len(syncLog)
    /\ fetched' = fetched + 1
    /\ syncer' = [Idle EXCEPT !.at = fetched + 1, !.attempt = 1,
                   !.step = CASE syncLog[fetched + 1] = "this"  -> "config"
                              [] syncLog[fetched + 1] = "other" -> "commit"
                              [] syncLog[fetched + 1] = "bad"   -> "dlq"]
    /\ syncUnchanged
    /\ UNCHANGED <<zset, stateHash, syncCommitted, dlq, dbVars, budget>>

\* Connections from both pools, and the auction's type and reserve; an error of
\* this read is replaced by a reverse auction without reserve.
SyncConfig ==
    /\ syncer.step = "config"
    /\ \/ (Fault("redis") \/ Fault("db")) /\ Retry
       \/ /\ NoFault
          /\ syncer' = [syncer EXCEPT !.step = "read", !.type = AuctionType, !.reserve = Reserve]
       \/ /\ Fault("config")
          /\ syncer' = [syncer EXCEPT !.step = "read", !.type = "REVERSE", !.reserve = 0]
    /\ syncUnchanged
    /\ UNCHANGED <<zset, stateHash, fetched, syncCommitted, dlq, dbVars>>

\* ZRANGE of the accepted bids.
SyncRead ==
    /\ syncer.step = "read"
    /\ \/ Fault("redis") /\ Retry
       \/ NoFault /\ syncer' = [syncer EXCEPT !.step = "update", !.bids = zset]
    /\ syncUnchanged
    /\ UNCHANGED <<zset, stateHash, fetched, syncCommitted, dlq, dbVars>>

\* Variant: winner_id is always written, NULL when no bids are left in Redis.
SyncUpdateAlways ==
    /\ syncer.step = "update"
    /\ \/ Fault("db") /\ Retry /\ UNCHANGED <<status, dbWinner>>
       \/ /\ NoFault /\ To("insert") /\ status' = "COMPLETED"
          /\ dbWinner' = WinnerOf(syncer.type, syncer.reserve, syncer.bids)
    /\ syncUnchanged
    /\ UNCHANGED <<zset, stateHash, fetched, syncCommitted, dlq, dbBids>>

\* The auction is completed; winner_id is only written when there is a winner.
SyncUpdate ==
    /\ syncer.step = "update"
    /\ \/ Fault("db") /\ Retry /\ UNCHANGED <<status, dbWinner>>
       \/ /\ NoFault /\ To("insert")
          /\ LET winner == WinnerOf(syncer.type, syncer.reserve, syncer.bids)
             IN  /\ status' = "COMPLETED"
                 /\ dbWinner' = IF winner = Nobody THEN dbWinner ELSE winner
    /\ syncUnchanged
    /\ UNCHANGED <<zset, stateHash, fetched, syncCommitted, dlq, dbBids>>

\* Variant: a failed insert is only logged, as the failed cleanup is.
SyncInsertUnchecked ==
    /\ syncer.step = "insert" /\ To("clean")
    /\ \/ Fault("db") /\ UNCHANGED dbBids
       \/ NoFault /\ dbBids' = dbBids \cup syncer.bids
    /\ syncUnchanged
    /\ UNCHANGED <<zset, stateHash, fetched, syncCommitted, dlq, status, dbWinner>>

\* The bids that are not in the table yet (on_conflict_do_nothing).
SyncInsert ==
    /\ syncer.step = "insert"
    /\ \/ syncer.bids # {} /\ Fault("db") /\ Retry /\ UNCHANGED dbBids
       \/ NoFault /\ To("clean") /\ dbBids' = dbBids \cup syncer.bids
    /\ syncUnchanged
    /\ UNCHANGED <<zset, stateHash, fetched, syncCommitted, dlq, status, dbWinner>>

\* One atomic pipeline deletes the auction's keys; its failure is only logged.
SyncClean ==
    /\ syncer.step = "clean"
    /\ \/ Fault("redis") /\ UNCHANGED <<zset, stateHash>>
       \/ NoFault /\ zset' = {} /\ stateHash' = FALSE
    /\ To("commit")
    /\ syncUnchanged
    /\ UNCHANGED <<fetched, syncCommitted, dlq, dbVars>>

\* Variant: the offset after the next record is committed.
SyncCommitPastNext ==
    /\ syncer.step = "commit" /\ NoFault
    /\ syncCommitted' = syncer.at + 1 /\ syncer' = Idle
    /\ syncUnchanged
    /\ UNCHANGED <<zset, stateHash, fetched, dlq, dbVars>>

\* kafka::commit, asynchronous.
SyncCommit ==
    /\ syncer.step = "commit"
    /\ \/ NoFault /\ syncCommitted' = syncer.at
       \/ Fault("commit") /\ UNCHANGED syncCommitted
    /\ syncer' = Idle
    /\ syncUnchanged
    /\ UNCHANGED <<zset, stateHash, fetched, dlq, dbVars>>

\* publish_dlq; when it fails the record is left uncommitted and the worker
\* goes on to the next one.
SyncDlq ==
    /\ syncer.step = "dlq"
    /\ \/ NoFault /\ dlq' = dlq \cup {syncer.at} /\ To("commit")
       \/ Fault("kafka") /\ syncer' = Idle /\ UNCHANGED dlq
    /\ syncUnchanged
    /\ UNCHANGED <<zset, stateHash, fetched, syncCommitted, dbVars>>

-----------------------------------------------------------------------------
(* The sweeper *)

sweepUnchanged ==
    UNCHANGED <<redisVars, backlog, syncCommitted, dlq, dbWinner, dbBids, engineVars,
                syncer, fetched, clock, histVars>>

\* Auctions past the grace that are not COMPLETED.
SweepQuery ==
    /\ sweeper = "idle"
    /\ clock \in {"grace", "expired"} /\ status # "COMPLETED"
    /\ \/ NoFault /\ sweeper' = "publish"
       \/ Fault("db") /\ UNCHANGED sweeper
    /\ sweepUnchanged /\ UNCHANGED <<syncLog, status>>

\* Variant: the auction is marked although the publish failed.
SweepPublishUnchecked ==
    /\ sweeper = "publish" /\ sweeper' = "mark"
    /\ \/ NoFault /\ Len(syncLog) < MaxSync /\ syncLog' = Append(syncLog, "this")
       \/ Fault("kafka") /\ UNCHANGED syncLog
    /\ sweepUnchanged /\ UNCHANGED status

SweepPublish ==
    /\ sweeper = "publish"
    /\ \/ /\ NoFault /\ Len(syncLog) < MaxSync
          /\ syncLog' = Append(syncLog, "this") /\ sweeper' = "mark"
       \/ Fault("kafka") /\ sweeper' = "idle" /\ UNCHANGED syncLog
    /\ sweepUnchanged /\ UNCHANGED status

\* COMPLETED as soon as the record is durable.
SweepMark ==
    /\ sweeper = "mark"
    /\ sweeper' = "idle"
    /\ \/ NoFault /\ status' = "COMPLETED"
       \/ Fault("db") /\ UNCHANGED status
    /\ sweepUnchanged /\ UNCHANGED syncLog

-----------------------------------------------------------------------------
EngineStep ==
    \/ Load \/ CloseTimer \/ CloseRead \/ CloseState \/ CloseSync
    \/ \E b \in Bids : Decide(b) \/ Accept(b)
SyncerStep ==
    \/ SyncFetch \/ SyncConfig \/ SyncRead \/ SyncUpdate \/ SyncInsert
    \/ SyncClean \/ SyncCommit \/ SyncDlq
SweeperStep == SweepQuery \/ SweepPublish \/ SweepMark

Next ==
    \/ Tick \/ EngineCrash \/ WorkerCrash
    \/ \E kind \in Foreign : ForeignRecord(kind)
    \/ \E b \in Bids : Deliver(b)
    \/ EngineStep \/ SyncerStep \/ SweeperStep

Spec == Init /\ [][Next]_vars

\* Tokio runs every ready task of the two processes, and time passes.  Nothing
\* obliges a client to bid, so no fairness is assumed of Deliver.
FairSpec ==
    /\ Spec
    /\ WF_vars(Tick) /\ WF_vars(EngineStep) /\ WF_vars(SyncerStep) /\ WF_vars(SweeperStep)

-----------------------------------------------------------------------------
(* Properties *)

\* The variables have their types.
TypeOK ==
    /\ zset \subseteq Bids /\ stateKey \in BOOLEAN /\ stateHash \in BOOLEAN
    /\ backlog \subseteq Bids
    /\ syncLog \in Seq({"this", "other", "bad"}) /\ Len(syncLog) <= MaxSync
    /\ syncCommitted \in 0..fetched /\ fetched \in 0..Len(syncLog)
    /\ dlq \subseteq DOMAIN syncLog
    /\ status \in {"ACTIVE", "COMPLETED"}
    /\ dbWinner \in Ids \cup {Nobody} /\ dbBids \subseteq Bids
    /\ engine \in {"absent", "load", "select", "script", "drain", "hset", "sync"}
    /\ inbox \subseteq backlog /\ Cardinality(inbox) <= 1
    /\ runtime \in [type : AuctionTypes, price : Nat, step : Nat, reserve : Nat, known : BOOLEAN]
    /\ closing \in [winner : Ids \cup {Nobody}, state : BOOLEAN]
    /\ syncer \in [step : {"idle", "config", "read", "update", "insert", "clean", "commit", "dlq"},
                   at : 0..fetched, attempt : 0..MaxAttempts, type : AuctionTypes,
                   reserve : Nat, bids : SUBSET Bids]
    /\ sweeper \in {"idle", "publish", "mark"}
    /\ clock \in {"open", "ended", "grace", "expired"}
    /\ budget \in 0..MaxFaults
    /\ accepted \subseteq Bids /\ late \subseteq accepted /\ strayed \in BOOLEAN

\* ZRANGE, UPDATE, INSERT and DEL of the sync worker are four steps: an accepted bid
\* is in Redis or in the bids table, unless it was accepted between that ZRANGE and
\* that DEL, whatever is replayed, retried, swept or interrupted.  That happens only
\* after an actor has not known the end of the auction (its reads failed, or the state
\* was gone) or was in its loop five seconds after it.
NoAcceptedBidLost ==
    /\ accepted \subseteq dbBids \cup zset \cup late
    /\ ~strayed => late = {}

\* What finalisation writes is the outcome of the whole auction: a recorded
\* winner is the best accepted bid that meets the reserve, and a bids table that
\* holds any bid holds all accepted ones with their winner, although records are
\* replayed after the cleanup and winner and bids are written in two statements;
\* as long as every actor knows the end and keeps to it.
FinalOutcome ==
    ~strayed =>
        /\ dbWinner # Nobody => dbWinner = WinnerOf(AuctionType, Reserve, accepted)
        /\ dbBids # {} => dbBids = accepted /\ dbWinner = WinnerOf(AuctionType, Reserve, accepted)

\* An auction that has ended is finalised, also when no engine ever closes it and
\* when steps of engine, syncer or sweeper fail fewer times than the syncer
\* tries: COMPLETED, with every accepted bid and the right winner; as long as every
\* actor knows the end and keeps to it.
EveryEndedAuctionFinalised ==
    ended ~> \/ strayed
             \/ /\ status = "COMPLETED" /\ dbBids = accepted
                /\ dbWinner = WinnerOf(AuctionType, Reserve, accepted)

\* The volatile Redis state of an ended auction is removed for good, although a
\* late bid makes a new actor close the auction again and write back the state
\* field it read before the cleanup.
RedisReleased == <>[](zset = {} /\ ~stateHash)
===============================================================================
