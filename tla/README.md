# A verification project for the reverse-auction platform

The repository is a platform for forward and reverse auctions: an HTTP API for
listings and auctions, a gateway, a bid ingestion service, an event-driven
auction engine on Kafka and Redis, workers that finalise and audit auctions in
PostgreSQL, and a web client. This directory holds TLA+ models of its behaviour,
the TLC configurations that check them on small instances, and proofs checked by
TLAPS that hold for every instance. `PROJECT.json` lists the components, the
runs, the source lines behind every definition, the hazards and the findings.

## The system

| part | state it keeps | operations | talks to |
|---|---|---|---|
| bid ingestion (`apps/grpc`) | none | `publish_bid` over gRPC and HTTP | appends to Kafka `auction-bids`, keyed by auction id |
| engine consumer and partition workers (`auction-engine/src/consumer.rs`) | per partition: fetch position, bounded queue, the record in work, commit retry channel | fetch, send to actor, dead-letter, commit | actors (channel and reply), Kafka offsets, `auction-dlq` |
| engine actors (`actor/loop_.rs`, `runtime.rs`, `supervisor.rs`, `registry.rs`) | per auction: inbox, `AuctionRuntime` with the current price | restore, decide, close, panic and restart, exit | Redis ledger, publisher (a `Notify`) |
| Redis ledger (`ledger.rs`) | accepted stream, sorted set, dedupe keys, pending stream, `auction:states` | the accepting Lua script, replay, reject, `close_auction` | Kafka `auction-sync`, the socket room |
| decision publisher (`actor/publisher.rs`) | batch read from the pending stream | XREAD, publish twice, XDEL | Kafka `auction-bid-decisions`, `auction-notifications` |
| scheduler | claim on a scheduled auction | claim, hydrate Redis, mark success | PostgreSQL, Redis |
| finalisation workers (`notification-worker`) | consumer offsets | sync, sweep | PostgreSQL, Redis, `auction-dlq` |
| audit and notification workers | consumer offsets | insert audit rows, send mail, republish | PostgreSQL, SMTP |
| WebSocket server | sessions and rooms | connect, join room, send snapshot, place bid, fan-out | ingestion, Redis, the browsers |
| gateway | circuit breakers, token buckets, socket tickets | proxy HTTP and WebSocket, sell tickets | all services |
| http-server | listings, auctions, participants, one-time passwords, catalogue cache | create, review, schedule, join, leave, sign up, sign in | PostgreSQL, Redis, SMTP |
| CDC and search | replication position, index | process WAL, index | PostgreSQL, Kafka, Elasticsearch |
| web client: auction forms | form data, files and their previews, the submission | edit, add and remove files, look up a route, submit | http-server |
| web client: registration | query caches, `hasJoined`, open modals | register, unregister, automatic join, refetch | http-server |
| web client: room and socket | auction store, timer worker, socket map, reference counts, tickets | bid, reconcile, tick, subscribe, reconnect | gateway, WebSocket server |
| web client: listings | edit form, review queue | save, resubmit, review, schedule | http-server |
| web client: accounts | `localStorage`, session of each tab, guards | sign up, in and out, refresh, save profile | http-server |

The hard behaviour is in the engine. A bid crosses two logs (the Kafka
partition and the Redis pending stream) and three caches of the price (the
actor, the sorted set, the dedupe key); every arrow between them can fail
after it took effect, processes crash between any two, and a rebalance leaves
a former owner running. The HTTP services are claims, versions and state
machines over PostgreSQL and Redis, with races between two requests. The web
client is concurrent too: mutations, effects, timers, socket events and other
tabs interleave at every `await`, and most of what a page decides from is a
cached answer.

What makes each part correct:

- **workers**: no record is passed over by a commit before it is settled; no
  worker waits for an answer that will not come;
- **actors and ledger**: accepted bids improve by the step, each request is
  accepted at most once and has one verdict, the ledger is final once the
  auction is handed to finalisation, the announced winner is the best bid;
- **publisher**: a decision reaches both topics before it is deleted, and does
  reach them;
- **finalisation**: the database agrees with the ledger, once, whatever is replayed;
- **scheduler**: a claimed auction is hydrated or becomes claimable again;
- **forms**: what is stored is what the user submitted, once per confirmation,
  and every submission ends;
- **registration**: success means access, a registered user gets in, the
  catalogue never shows a registration that is over;
- **room and socket**: price, leaderboard and pending bids agree with the
  decisions however messages are lost or repeated; tickets are used once, an
  open page ends up connected;
- **listings**: the auction is what was approved, decisions stand;
- **accounts**: an account belongs to a verified address, one each; the stored
  identity is the token's; no page waits for ever for its session;
- **gateway**: an open breaker lets a probe through and can close again.

## Modules

| module | models |
|---|---|
| `BidRule` | the pricing rule (`types.rs`), the ranking of the sorted set, the reserve |
| `AuctionLedger` | abstract specification: one sequential book of accepted bids |
| `BidEngine` | the engine for one auction: partition, workers, actors, ledger, publishers |
| `MCBidEngine` | values of the constants for TLC |
| `BidEngineProofs` | TLAPS: types and the one outstanding task; accepted once, no decision dropped, no bid lost; the refinement of `AuctionLedger` |
| `Finalization` | one auction on its way to PostgreSQL: engine (coarse), sync worker, sweeper |
| `MCFinalization` | values of the constants for TLC |
| `FinalizationProofs` | TLAPS: types, no accepted bid lost, the recorded outcome is final |
| `AuctionForms` | the web client's four forms and `create_auction_service` |
| `Registration` | join and leave from pages and cards, participant bit, catalogue cache |
| `AuctionRoom` | one browser's auction store, console and timer, its WebSocket session |
| `AuctionSocket` | the socket of one auction room over visits, tickets, reconnects |
| `ListingReview` | a listing between its seller and two administrators |
| `Account` | sign-up, sign-in, sessions and guards in two tabs of one browser |

Each of the last six has an `MC` module with the values of its constants and a
`Proofs` module with its theorems. `AuctionRoom`
shares `BidRule` with the engine; it takes the engine as given, and the engine
takes whatever bids arrive, so that the two meet in the decisions on the topic.

`BidEngine` has an action for each await point of the code that another task can
be told from, since that is where tasks interleave. Two groups of consecutive
calls are one step: the reads of `load_runtime` (`LoadRuntime`; only the owner
writes what they read) and the HGET and HSET of the auction's state in
`close_auction` (`CloseState`; the cleanup that may come between them is in
`Finalization`, where they are two). The variables are those of three places: Kafka
(`log`, `committed`, `owner`, topics), Redis (`ledger`, `zset`, `processed`,
`pending`, `outcome`) and, per engine process, the four tasks that concern the
auction (worker, commit retry, actor, publisher), each with a program counter.

| code | actions |
|---|---|
| `publish_bid`, scheduler, coordinator, clock, process death | `IngestBid`, `Hydrate`, `Assign`, `EndTimePasses`, `Crash` |
| `consume` | `Fetch`, `RetryCommit` |
| `run_partition_worker`, `commit`, `dead_letter_until_stored` | `WorkerRecv`, `WorkerSend`, `DeadLetter`, `Commit`; `AfterReply` is its match on the result |
| `load_runtime`, `run_actor_loop` | `LoadRuntime`, `ActorRecv`, `CloseTimer`; `LoopTop`, `Reply` |
| `write_bid` | `RunScript`, `GetProcessed`, `XaddReplay`, `XaddReject` |
| `close_and_exit`, `close_auction` | `Drain`, `CloseRead`, `CloseState`, `CloseSync`, `CloseEmit` |
| `start_supervisor`, `get_or_create` | `Panic`, `ExitActor`, `get_or_create` |
| `run_kafka_publisher_loop` | `PublisherRead`, `PublisherWake`, `PublishDecision`, `PublishNotification`, `PublisherXdel` |

Faults are steps of these actions, chosen from `Faults` and at most `MaxFaults`
per behaviour: a crash, a rebalance, a Redis command that fails without effect,
one that takes effect and loses its reply, a read whose error the code swallows,
a failed sync publish, a commit that cannot be enqueued, an enqueued commit that
is lost, and bids before hydration.

Abstractions: money is a natural number and 0 stands for every amount the code
refuses; `MaxPrice` is `f64::MAX`; positions count records from 1; the actor's
inbox holds one task, because the single worker of the partition awaits each
reply; back-off delays, the 24 h expiry of the dedupe keys and the pub/sub
broadcast are left out; a retry loop that only tries again is the absence of a
step.

`Finalization` takes over where `BidEngine` publishes the sync record. Its
variables are the auction's Redis keys (`zset`, `stateKey`, `stateHash`), the
`auction-sync` partition with its committed offset, the auction's rows
(`status`, `dbWinner`, `dbBids`), the actor, and the two tasks of the
notification worker.

| code | actions |
|---|---|
| `run_partition_worker`, `load_runtime`, `run_actor_loop` | `Deliver`, `Load`, `Decide`, `Accept`, `CloseTimer` |
| `close_auction` | `CloseRead`, `CloseState`, `CloseSync` |
| `run_sync_worker` | `SyncFetch`, `SyncConfig`, `SyncRead`, `SyncUpdate`, `SyncInsert`, `SyncClean`; `Retry` is the end of a failed attempt |
| `kafka::commit`, `kafka::publish_dlq` | `SyncCommit`, `SyncDlq` |
| `run_sweep_worker` | `SweepQuery`, `SweepPublish`, `SweepMark` |
| clock, other producers, process death | `Tick`, `ForeignRecord`, `EngineCrash`, `WorkerCrash` |

The engine is that of `BidEngine` with one owner and one step per decision: what
a redelivered or failed bid does inside the engine is checked there. `clock` has
the four times that matter: before the end, after it, after the sweeper's five
seconds, after the state key's expiry. The sweeper's comment expects an actor that
knows the end to leave its loop within the five seconds; one that does not is the
fault `slow`. The reads of `load_runtime` and `close_auction` whose errors the code
takes for absent keys fail with the fault `read`: the actor then has the defaults
and a window of its own, and accepts bids after the end. The history variable
`strayed` says that an actor did not know the end or missed it, and `late` holds
the bids accepted between a ZRANGE and the DEL of the sync worker. Stored bids that do not parse, are not `is_executed` or have bad ids
are left out, since the engine writes only well-formed accepted ones.

### The web client and the HTTP server

| module | code | actions |
|---|---|---|
| `AuctionForms` | handlers of the forms | `HandleChange`, `PlacesChanged`, `SetAuctionDuration`, `ToggleCollapse`, `HandleFileChange`, `RemoveMedia`, `CloseToast`, `HandleSubmit`, `Unmount` |
| | effects and the map service | `MapLoaded`, `AskDirections`, `DirectionsReply`, `Cleanup` |
| | the mutation | `Uploaded`, `ServerCreate`, `Replied`, `RequestFails` (in `JobStep`), with `OnSuccess` and `OnError`; the four payloads and the four lists of refusals are operators |
| `Registration` | `auction/[id]/page.tsx`, `ShippingAuctionCard` | `JoinAuction`, `AutoJoin`, `Unregister`; `ActionClick`, `ConfirmRegistration`, `ConfirmLeave`, `CloseModal`; `Refetch` and the callbacks |
| | `auction.rs` | `JoinCheck`, `JoinInsert`, `JoinGrant`, `LeaveDelete`, `LeaveRevoke`; `ReadVersion`, `ReadCache`, `ReadDatabase`, `ReadStore`; `Invalidate` |
| `AuctionRoom` | `auctionSlice`, `useAuctionSocket` | `InitAuction`, `AddOptimisticBid`, `ReconcileBid`, `StatusAt` as operators; `OnAuctionInit`, `OnBidUpdate`, `Submit` |
| | `useTimerWorker` | `WorkerTick`, `OnWorkerMessage`, `RestartWorker` |
| | `ws-server` | `CheckInitialized`, `JoinRoom`, `ReadLeadingBids`, `ReadRecentEvents`, `EmitInit`, `PlaceBid`, `FanOut` |
| `AuctionSocket` | `SocketContext` | `Subscribe`, `Unsubscribe`, `TicketArrives`, `TicketFails`, `Opened`, `Refused`, `Drop`, `TimerFires` |
| `ListingReview` | edit page, review queue | `Edit`, `Save`, `SellerRefetch`, `SaveSucceeded`; `Review`, `ScheduleAuction`, `AdminRefetch`, `Answered` |
| | `listing.rs` | `UpdateListing`, `ResubmitListing`, `ReviewCheck`, `ReviewUpdate`, `ScheduleRead`, `ScheduleCreate`, `ScheduleUpdate` |
| `Account` | sign-up, sign-in, password pages | `SubmitDetails`, `EnterOtp`, `SubmitOtp`, `BackToDetails`, `SubmitSignIn`, `SubmitForgot`, `OnSignedIn`, `OnAdminSignedIn`, `OnError`, `OnSent` |
| | `AuthContext`, guards, menu, profile | `StartRefresh`, `Refreshed`, `RefreshFailed`; `AuthGuard`, `AdminGuard`, `UserMenu`, `LoadProfile` as operators on a tab; `HandleLogout`, `HandleSave` |
| | `auth.rs` | `SendOtp`, `SignUpCheck`, `SignUpLookup`, `SignUpInsert`, `SignUpDone`, `SignIn`, `Me`, `ForgotPassword` |

A request is several steps at the server, split where other requests may come
between its database and Redis calls; a mutation is split at every `await`;
effects run with the step that triggers them, except where they send a request.
In `Registration` each PostgreSQL statement and each Redis command may fail once,
with what the code makes of it: a failed count finds no registration, a failed INCR
is not heard of (`missed` remembers it), a version that cannot be read is 0, a
failed GET is a miss. In `Account` the person types codes that were mailed or a
wrong one; a guess that is right by chance and two draws of the same code are
outside the model.
Data is abstract: a form is a function of a few fields that stand for their
section, a file is its number, a listing's content is a version, a password is
right or wrong, a token names its account, times are small numbers in the units
of the checks. Rendering, styling, wording and logging are left out. Lost
answers, failing uploads, refused tickets, Redis restarts, expired codes and lost
mails are chosen from the constants `Faults` or `Events` and bounded.

`TypeOK` of these six modules holds on the same instances too; their runs list only
the properties that relate several parts of the state.

## What the runs check

Every run uses the `MC` module of its component. A run stops when its bounded
inputs are consumed, so deadlock is not checked.

| run | instance | shows |
|---|---|---|
| `engine_faults` | 2 engines (symmetric), one record out of a good and an invalid bid, 1 fault of any kind, a rebalance included | `TypeOK`, `OneTaskOutstanding`, `NoBidLost`, `AcceptedOnce`, `NoDecisionDropped` |
| `engine_book` | forward auction with reserve, 3 records of 3 bids, 1 crash, failed write or publish, or lost commit | `PriceImproves`, `AuditMatchesLedger`, `AnnouncedWinnerIsBest`, `LedgerFinalAfterSync`, and `ImplementsLedger`: a refinement of `AuctionLedger` |
| `engine_live` | reverse auction, 2 records, 1 failed Redis write, publish or commit, `FairSpec` | `NoBidLost` when a retried commit moves the offset back, `EveryBidSettles`, `PublishedWhileOpen` |
| `engine_two_owners` | 2 engines, 2 records, a rebalance | a violation of `PriceImproves`, see below |
| `finalize_faults` | forward auction with reserve, 2 bids, at most 3 sync records, a malformed one among them, 2 faults of every kind but `config` and `expire`, 3 attempts, `FairSpec` | `TypeOK`, `NoAcceptedBidLost`, `FinalOutcome`, `EveryEndedAuctionFinalised` |
| `finalize_release` | reverse auction, 2 bids, another auction's sync record, room for every sync record, 2 faults: `worker`, `read`, `kafka`, `commit`, `expire`, `config` | `RedisReleased` |
| `forms` | each of the four forms, 2 files, 2 submissions, an edit after the first, 1 minute, failing uploads, requests, replies and route lookups | `PublishedAsSubmitted`, `ConfirmedIsPublished`, `NoUrlLeak`, `SubmissionSettles` |
| `registration` | a page and a card, 1 registration and 1 unregistration by hand, the deadline and the start, 2 reads under way, 1 failure: of a PostgreSQL statement, the count, the bit, the version or the cache, a reply, or a Redis restart | `SuccessHasAccess`, `CatalogueFresh`, `RegisteredEntersRoom` |
| `room` | reverse auction, two own bids and another bidder's, of equal or different amounts, snapshots of one bid, a late clock, 2 failures out of dropped connections, lost updates, Redis and gRPC errors | `LeaderIsPrice`, `CatchesUp`, `DecidedIsNotPending`, `OpensOnTime` |
| `socket` | 3 visits, each kind of failure twice | `TicketsUsedOnce`, `PageHearsItsSocket`, `StaysConnected` |
| `listing` | a seller and 2 administrators (symmetric), 2 versions, 2 reviews, 2 schedules, a refused or failed creation, a lost answer, a failed update and a failed history row | `ScheduledAsApproved`, `SellerIsTold`, `DecisionsAreFinal` |
| `account` | 2 tabs, an own address, a foreign one and an administrator's, 2 codes, 4 acts, 1 failure or wrong code | `AccountsAreVerified`, `OneAccountPerAddress`, `StoredIdIsTokens`, `ConsoleIsForAdmins`, `PagesSettle` |

One record and two engines suffice for every way in which a bid can be delivered
twice; three records for an accepted bid, one that misses it and one that beats
both. The queue holds one record, so that the bounded channel fills, and the
retry channel one offset, so that it overflows. Longer logs and more hand-overs
are covered by the proofs, which bound neither.

In the web runs two of everything is what a race needs: two files and two
submissions for an edit between them, a page and a card for two tabs, two
administrators, two codes for one that replaces the other; a snapshot of one bid
for a bid that has dropped out of it; three visits for a socket that is older
than the one in the map while a third page opens.

Fairness (`FairSpec`) is weak fairness of fetching, of each worker, actor and
publisher task, and of the coordinator's assignment of an unowned partition:
the tokio scheduler runs every ready task, and Kafka reassigns partitions. No
fairness is assumed of clients, of the clock, of the commit retry task or of
faults.

In `Finalization` fairness is assumed of the clock, the engine's tasks, the sync
worker and the sweeper, not of deliveries: an auction without bids, or whose
engine never comes back, is finalised by the sweeper. Two faults are fewer than
the three attempts, so a record is dead-lettered only if it is malformed; an
exhausted record is left to the operator and `EveryEndedAuctionFinalised` says
nothing of it. The two bids are one that loses and one that wins, on both sides
of the reserve; two faults reach a replay that itself fails.

In the web models fairness is that of browser and server: requests are answered
or fail, callbacks, effects and timers run, the server goes on with each request
by itself. In the room only the clock, the timer worker and its messages are fair.
Nothing obliges a user to do anything, and no failure has to happen or to stop;
their number is bounded by the constants. `StaysConnected` assumes that ticket
requests and handshakes do not fail, since one failure ends the reconnection.

## Where the code differs from what is said of it

One run shows a disagreement (quotation under `findings`): in `engine_two_owners`
the partition moves, the former owner's actor goes on with its own price, and the
ledger gets a bid that does not improve, although README.md:137 says that more
engines do not make one auction multi-writer.

The models show these as well. Each was checked with TLC as a property of the
module named; the property is left out of the runs because it does not hold.

| where | what is said | what the code does | module |
|---|---|---|---|
| `loop_.rs:119` | bids improve by the step (README.md:128) | after a lost reply of the accepting script the actor decides from its old price | `BidEngine`, `PriceImproves` with the fault `reply_lost` |
| `ledger.rs:63` | a request has one verdict | with two owners one rejects a request while the other accepts it | `BidEngine`, `AuditMatchesLedger` on the instance of `engine_two_owners` |
| `supervisor.rs:67` | a pending decision "is retried by the publisher task" (`publisher_and_retry_test.rs:235`) | the publisher is dropped with the actor at the end, and what is pending stays | `BidEngine`, `PublishedWhileOpen` without "while open" |
| `consumer.rs` | the Kafka record comes before the commit (README.md:152) | the offset is committed while the decision is only in Redis; after a crash nobody reads it until another bid arrives | `BidEngine`, `PublishedWhileOpen` with the fault `crash` |
| `notification-worker/main.rs:853` | "commits only after success" (README.md:156) | a record that could not be dead-lettered is passed by the commit of the next one | `Finalization` |
| `notification-worker/main.rs:743` | finalisation is idempotent (864-866) | bids delivered after the state key's expiry are decided with defaults, and a second finalisation replaces the winner | `Finalization`, `FinalOutcome` without `~strayed`, fault `expire` on the instance of `finalize_release` |
| `runtime.rs:24` | the sweeper's "grace period lets the auction-engine fire its own EndAuction event" (`notification-worker/main.rs:880`) | a read of the state that fails is taken for no state: the actor accepts with defaults in a new window, after the end too, and the sync worker deletes what comes between its ZRANGE and its DEL | `Finalization`, `late = {}` with the fault `read`; likewise `slow` |
| `notification-worker/main.rs:615` | the winner meets the configured type and reserve | an unreadable configuration is taken for a reverse auction without reserve | `Finalization`, `FinalOutcome` with the fault `config` |
| `NewShipmentForm.tsx:216` | "Cleanup object URLs on unmount" (211) | the effect depends on the list: adding a second file revokes the first preview | `AuctionForms` |
| `auction/[id]/page.tsx:98` | the effect rehydrates the bit of users already registered (95) | from a stale answer it registers a user again who has unregistered | `Registration` |
| `auction.rs:604` | the catalogue's version changes with every registration | a failed INCR is swallowed and the old catalogue is served until the next invalidation or its expiry | `Registration`, `CatalogueFresh` without `~missed` |
| `auction.rs:309` | "Restore a persisted registration" (313) | a failed count is taken for none: the insert is refused, the page is told 'already joined' and enters without its bit | `Registration`, `RegisteredEntersRoom` with the event `count` |
| `auctionSlice.ts:102` | "match based on amount for current user" (101) | another bidder's equal amount takes over the user's optimistic bid | `AuctionRoom` |
| `SocketContext.tsx:193` | "only truly disconnect when no subscriber remains" (202) | a ticket that arrives after an unmount and a new mount connects a socket nobody holds; it outlives the last page | `AuctionSocket` |
| `ws-server/main.rs:71` | the console "will open automatically" (`auction/[id]/page.tsx:195`) | a session that connects before hydration waits and is never sent its `auction_init` | `AuctionRoom` |

Further hazards were met without a text that settles them, beside those listed in
`PROJECT.json`:

- forms: the lead of three minutes is checked before the uploads and may be gone
  after them; route answers arrive out of order; typing over an address keeps its
  coordinates; a success clears what was typed meanwhile; the listing form never
  revokes previews;
- registration: a join and a leave of two tabs may leave the bit without the row;
  a refused automatic join is sent again with every render; the conflict flag of
  two tabs is never withdrawn;
- room: an optimistic bid whose ingestion fails stays pending; at exactly the end
  time the store stays active and the timer has stopped;
- socket: a failed ticket request of an old socket empties the map under a newer
  one; a reconnect is tried once;
- listings: the history records a status read before the update; a refetch
  overwrites unsaved edits;
- accounts: a refresh that fails for an old token removes a newer one; the
  dashboard takes the role from the storage; sign-up lower-cases addresses and
  sign-in does not; the reset link leads to no page;
- engine and workers: dedupe keys expire after 24 h; request ids can be reused;
  a claimed auction stays `Started` when its scheduler dies; participants who join
  during the scheduler's snapshot are missing from the set; a cancelled half-open
  probe leaves the breaker waiting; a change that fails ten times is acknowledged.

## What is proved

Every invariant and every action property that the passing runs check on a small
instance is also a theorem, for every value of the constants; where faults have to
be excluded, the hypothesis is named. Each `Proofs` module
is built alike: the inductive invariant as a conjunction of named parts, one lemma
per action or group of actions, and theorems that combine them. Each inductive
invariant was model-checked on the instance of a run before it was proved.

### The engine

For every set of engines and bids, every capacity, every log length and every
number and mix of faults, from `ConstantsAssumption` (bids have amounts below
`MaxPrice`, the step is positive, capacities are naturals) and without `Hydrate`,
the clock or any fault being restricted:

| theorem | statement |
|---|---|
| `TypeCorrect` | `Spec => []TypeOK` |
| `TaskNeverLost` | `Spec => []OneTaskOutstanding` |
| `NoDoubleAcceptance` | `Spec => []AcceptedOnce` |
| `DecisionsNeverDropped` | `Spec => NoDecisionDropped` |
| `BidsNeverLost` | `Spec => []NoBidLost` |

- *Types.* `TypeOK` is not inductive alone: a decision is built from the record
  the actor holds, which is in the log because of `OneTaskOutstanding`. Their
  conjunction `TypeInv` is. `BestBidProperties` shows that the best bid of a
  non-empty sorted set exists, by well-foundedness of the naturals.
- *Accepted once.* `LedgerInv`: everything in the ledger has its dedupe key, as
  the script sets both at once.
- *No decision dropped.* `StreamInv`: entry ids are unique, so the entry a
  publisher deletes is the one it has published twice, also when two
  publishers work on the same stream.
- *No bid lost.* `SettleInv` says, for every engine, why its next commit is
  safe: what precedes the record its worker holds is settled
  (`WorkerFrontier`); what precedes a queued record is settled or ahead of it
  in the same engine (`QueueFrontier`); what the owner has fetched is settled,
  held or queued (`OwnerFrontier`); retried offsets cover settled records only
  (`RetryFrontier`), so a late retry moves the offset back but never past an
  unsettled record. With `StreamInv` settled records stay settled.

`LedgerInv`, `StreamInv` and `SettleInv` were model-checked with one engine and
two records and with two engines and two hand-overs.

What the book says needs two hypotheses, which the instance of `engine_book`
satisfies. `OrderlyFaults` excludes four of the fault kinds: a rebalance that
leaves the former owner running, a lost reply of the accepting script, a swallowed
read error and bids before hydration; with each of them an actor decides from a
price that is not the ledger's, and none can be allowed: TLC refutes `PriceImproves`
with the first (in `engine_two_owners`) and the second, and `AnnouncedWinnerIsBest`
with either of the others, each alone on the instance of `engine_book`. Crashes, the hand-over after a crash, failed Redis and Kafka
calls and lost or late commits stay. `RequestIdsUnique` says that two bids differ
in their request id: `publish_bid` gives a UUID to a request without one, and the
web client sends none.

| theorem | statement, from the two hypotheses |
|---|---|
| `PricesImprove` | `Spec => []PriceImproves` |
| `OneVerdict` | `Spec => []AuditMatchesLedger` |
| `WinnersAreBest` | `Spec => []AnnouncedWinnerIsBest` |
| `LedgerIsFinal` | `Spec => LedgerFinalAfterSync` |
| `EngineImplementsLedger` | `Spec => ImplementsLedger` |

The inductive invariant `RefinementInv` adds four parts to the types and the stream:

- `BookInv`: sorted set and dedupe keys hold what is in the ledger, whose last bid
  is the price and ranks before all others;
- `TrailInv`: an accepting decision is in the ledger; a rejected bid does not beat
  the price and, as the price only improves, never will, so a redelivered record
  gets the verdict it had;
- `CloseInv`: winners are announced after the sync record, and are the best bid;
- `EngineInv`, for each engine: only the owner works; its actor's price is the
  ledger's, so the verdict it has reached still holds at the step that writes it;
  an actor that closes does so after the end, and after the sync record none decides.

For the refinement every step of the engine is one of four: it enters a bid
(`Accept` of the book), turns one down (`Reject`), publishes the first sync record
(`Close`), or is not seen by the book.

### Finalisation

For every set of bids, every number of attempts, records and faults, from
`FinalizationAssumption`:

| theorem | statement |
|---|---|
| `TypeCorrect` | `Spec => []TypeOK`, with faults of every kind |
| `AcceptedBidsNeverLost` | `Spec => []NoAcceptedBidLost`, with faults of every kind |
| `RecordedOutcomeIsFinal` | `ConfigReadable` implies `Spec => []FinalOutcome` |

`NoAcceptedBidLost` names the one way in which the code loses an accepted bid: it
is accepted between the ZRANGE and the DEL of the sync worker, by an actor that did
not know the end of the auction or missed it. `FinalOutcome` speaks of the
behaviours without such an actor. `ConfigReadable` excludes the fault kind
`config`, with which `FinalOutcome` is refuted on the instance of `finalize_faults`.
`BookInv` says that what the sync worker has read covers the sorted set until it is
deleted, but for the late bids, and needs nothing of the engine. As long as no actor
strays, `WindowInv` says that a sync record exists only once no actor can accept a
bid, by the engine's own close or by the grace, and `OutcomeInv` that every pass
either works on all accepted bids or finds an earlier pass's work done.

### The web client and the HTTP server

For any number of forms' files, tabs, administrators, visits, bids, requests and
failures, each from the assumption of its module alone:

| module | theorems | inductive invariant, beside the types |
|---|---|---|
| `AuctionFormsProofs` | `StoredAsSubmitted`, `ConfirmedOnce`, `UrlsAreRevoked` | `FormsInv`: until the request the mutation has the form and the files of its own submission (`JobInv`), a submission is stored at most once and by its own mutation (`StoredInv`), live object URLs belong to files of the form (`UrlInv`) |
| `RegistrationProofs` | `ReportedJoinsHaveAccess`, `CatalogueIsFresh` | `RegistrationInv`: until somebody unregisters, a join past its insert has its row (`AccessInv`); nothing knows a version before it is current, and unless an invalidation was missed what is stored under it agrees with the row (`FreshInv`); `VersionInv` counts the versions and the requests about to make one against the unregistrations |
| `AuctionRoomProofs` | `PriceIsTheLeaders`, `SnapshotsCatchUp`, `DecidedBidsAreNotPending` | `RoomInv`: a bid is in one place; a snapshot covers the price at the time its session joined, as the room is joined before it is read; a confirmed entry backs that price; of each amount no more own bids are pending than have no decision |
| `AuctionSocketProofs` | `TicketsAreSingleUse`, `PagesHearTheirSocket` | `SocketInv`: gateway and sockets hold only tickets that were sold, so the next one is new to all (`TicketInv`) |
| `ListingReviewProofs` | `AuctionsAreScheduledAsApproved`, `SellersAreTold`, `FinalDecisions` | `ListingInv`: a schedule past its read has read the approved content and nothing takes an approval back (`ScheduleInv`); only the seller's own put changes the content, and a refusal has passed the check for feedback (`TellInv`) |
| `AccountProofs` | `VerifiedAccounts`, `UniqueAccounts`, `StoredIds`, `AdminConsole` | `AccountInv`: a code was sent to one address only (`CodeInv`), the stored token is an account's (`StorageInv`), and for each tab how far its request has come and what its form and session rest on (`TabInv`) |

`DecidedIsNotPending` counts bids of an amount, since the console lets a bidder
repeat an amount at the lowest price of a reverse auction and the newest equal
pending bid is the one matched. A snapshot in the room is reconciled by a recursion
over its bids; what that recursion keeps is proved by a least counterexample, with
the library's `WFMin`, which quantifies over sets and not over operators.

### Only model-checked

Liveness, under the fairness stated above: `EveryBidSettles`, `PublishedWhileOpen`,
`EveryEndedAuctionFinalised`, `RedisReleased`, `SubmissionSettles`,
`RegisteredEntersRoom`, `OpensOnTime`, `StaysConnected`, `PagesSettle`. The prover
does not reason about fairness and `ENABLED`.

## Plan

1. Proofs: what remains of the book under the faults that `OrderlyFaults` excludes
   (with two owners the sorted set still holds only bids that an actor found better
   than its own price); the fault-by-fault hypotheses as weak as the counterexamples
   allow.
2. Models still to write: the audit consumers with the primary key on
   `request_id`, the scheduler's claims, the gateway's breaker and throttle,
   change data capture.

## Not modelled

The services of point 2 of the plan. Pages that render what a query returns and change
nothing: landing page, dashboard charts, history, bid information, search,
notifications, themes, the drawing of maps. `reset_password_service`, which no
page calls. Delivery of mail, upload storage, hashing and tokens, which are
library code. Table declarations and migrations, telemetry, parsing of the WAL
wire format, build and deployment files.
