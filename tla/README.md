# Anilime in TLA+

TLA+ modules of the anilime platform (Go services that catalogue anime, play
episodes, keep watch progress, comments, accounts and payments), TLC
configurations that check them on small instances, and TLAPS proofs of the
safety properties that matter most. Every definition is translated from the
Go and SQL of the repository; `PROJECT.json` maps each one to its lines and
lists the hazards the properties are about.

## 1. Inventory

The services talk over gRPC (synchronous) and NATS JetStream (asynchronous,
at least once); state is in Postgres, Redis, Meilisearch and JetStream.

| part | state | operations | what is hard | what makes it correct | module |
|---|---|---|---|---|---|
| auth | tables `users`, `refresh_sessions` | Register, Login, Refresh, Logout, bootstrap promotion | handlers interleave between autocommit statements, any of which may fail; the clock moves meanwhile | rotation kills the parent, tokens respect lifetimes, revocation is final, a login names one account, only the bootstrap admin gets admin claims | `AuthSessions` |
| billing | idempotency marks, `payments`, `subscriptions`, stream BILLING | Stripe webhook: check, save, publish | duplicate and concurrent deliveries, faults after the mark, marks that expire | nothing announced unsaved, one announcement per mark, events acked in the end | `BillingWebhook` |
| social comments worker | stream SOCIAL, `processed_events`, batches | fetch, transaction, fallback without the table, ack/nak | redelivery during processing, lost commits, crash before ack, deadlock between replicas | effects exactly once, ack only after commit | `CommentsConsumer` |
| social comment store | `comments`, `comment_votes` | Create, UpdateBody, SoftDelete, Vote | a vote is four statements at READ COMMITTED, and two votes of one user may overlap | score = sum of votes unless votes overlapped, behaves as the in-memory store | `CommentStore`, `PostgresCommentStore` |
| catalog → search | catalog rows, outbox, stream CATALOG_EVENTS, Meili index | upserts, outbox flush, index, reindex | failed publishes still in flight, lost commits, several writers of a document | no update lost, documents only move forward, index catches up | `CatalogPipeline`, `SearchView` |
| ingestion | stream INGESTION_JOBS, DLQ, tables `anime`, `external_anime_ids`, `episodes`, `external_episode_ids` | enqueue, Jikan job, HiAnime job, debugging endpoints, retry, DLQ | failing calls with effect, redelivery to another replica, dead loops, check-then-insert in two transactions at once, lists that change at the provider | no job lost, one row per anime, episodes accepted, queue drains | `IngestionQueue`, `CatalogStore` |
| activity | `user_episode_progress`, `processed_events`, stream ACTIVITY | async and sync progress reports | out-of-order and duplicate reports on two paths, row-lock deadlocks | newest report wins, none lost | `ActivityProgress` |
| cursor listings (social, activity) | the listed rows, the client's cursor | list a page; create, vote, progress meanwhile | writes between pages, cut timestamps, full last page | each row once, cursors descend, listing ends | `Pagination` |
| streaming-resolver, hls-proxy, BFF Watch | Redis cache, circuit breaker, signed links | Watch, GetPlayback, proxy and re-sign | retries, cancelled clients, breaker generations, races on the cache | link lifetimes, source age, answers, recovery | `Playback` |
| analytics | stream ANALYTICS with its sources, PostHog buffer | publish, source, dispatch, capture, ack, flush | ack before upload, uploads that fail, a stop that does not flush, redelivery, stream created late | stored events reach PostHog unless their own call is lost, nothing blocks the stream | `Analytics` |
| BFF | response cache, rate limiters, requests under way | every route: limiter, token, body, calls, answer; invalidation over NATS | a slow request stores what an invalidation has just removed, writes that fail half way, requests in bursts, a search index that lags | answers true about writes (Logout's apart), each limiter key keeps its limit, cache becomes current | `Gateway` |
| service processes (all twelve mains), platform libraries | NATS connection, store or pool, worker, calls in progress | start step by step, serve, reconnect, worker's end, SIGTERM | Postgres or NATS away at any time, hanging calls, a connection closed for good | calls drained, a stop ends, a search service without its connection goes down | `Lifecycle`, `Services` |
| ratings, catalog reads, search queries | table `ratings`; – | RateAnime, GetRating; reads | upsert and summary are two statements | a rating's answer counts it | in part in `Gateway` |
| streaming passthrough, generated code | – | – | – | – | see section 9 |

Interactions: BFF → (NATS) → social worker, activity worker, ingestion; ingestion
→ (gRPC) → catalog → (outbox, NATS) → search indexer → (gRPC) → catalog, → Meili;
BFF → (gRPC) → resolver → HiAnime; player → hls-proxy → provider; auth, BFF,
billing, social, activity → ANALYTICS → PostHog; Stripe → billing → BILLING.

## 2. Plan

Order: what loses money or accounts first (auth, billing), then the
asynchronous pipelines (comments, catalog/search, ingestion, progress), then the
stores and listings behind them, then playback and analytics, then the public
API and the life of the processes. All of these are in place. One module composes
what interacts: `CatalogPipeline` holds catalog, outbox publisher, stream and
indexer together; `IngestionQueue` extends `CatalogStore` and adds the producers,
the loops and the endpoints that run its transactions; `Gateway` extends
`Lifecycle`, which extends `Services`, so that requests meet starts, stops and
outages; `Playback` joins BFF, resolver, breaker and proxy; `Analytics`
publishers, stream, consumer and PostHog client. Abstract
specifications: `SearchView` (what the index promises readers), implemented by
`CatalogPipeline`; `CommentStore` (the in-memory store's contract), implemented
by `PostgresCommentStore`.

Every safety property that a run checks is also proved (section 8). Left for
later, in this order:

1. the types of `Analytics`, whose run checks liveness only, and what its
   consumer may acknowledge, as safety properties with proofs;
2. order of comment events on one comment (a nak'd older edit applied after a
   newer one), and a liveness refinement of `SearchView!Spec`.

## 3. Conventions

- A process is a goroutine or a replica; a step is one SQL statement in
  autocommit, one call to another service or one JetStream operation. Where a
  transaction's effect is visible only at COMMIT, the uncommitted part is kept in
  the worker (`claims`, `draft`, `oldVote`) and locks follow from it.
- A write has three outcomes: applied and acknowledged, applied with the reply
  lost, not applied. The last two end a handler with an error.
- A request refused by validation changes nothing and is a stuttering step.
- `MaxFaults` bounds failing calls, lost replies and crashes; other bounds are
  named `Max...`. History variables are marked `history:` at their declaration.
- A variable `setup`, `setting`, `kind` or `feed` never changes: it is chosen in
  `Init` from a constant set, so that one run covers several deployments or
  inputs.
- JetStream, Postgres locking, Redis, gobreaker, the PostHog client, Stripe and
  the provider are external: modelled from how the code uses them.
- Each module has a section of plausible bugs: variants of its operators with
  which the properties must fail. No specification uses them.

## 4. Modules and code

**AuthSessions** — `services/auth/internal/{grpc,store,bootstrap}`. A handler
(`req[r]`) has a control point per Store call. `Refresh` is `RefreshRead`,
`RefreshGetUser`, `RefreshReplace`, `RefreshCreate`: the code checks the row it
read, replaces the old session, then creates the new one. `Restart` drops all
handlers and promotes the bootstrap admin. Tokens and session rows are drawn
together and share an identifier; bcrypt and JWT are abstracted.

**BillingWebhook** — `services/billing/internal/{handlers,idempotency,store,publisher}`.
`ServeHTTP` is `Deliver`, `CheckOK/CheckError`, `Save/SaveError`,
`Publish/PublishError`, `Reply`. The setups are the combinations `main` can start:
Redis, Postgres or memory marks, with or without database and NATS.

**CommentsConsumer** — `services/social/internal/worker`. One transaction per
batch: `Fetch`, `Begin`, `Apply`/`Wait`/`Granted` per event, `Commit` or
`Rollback`, `Ack`. `NoTable`, `Fallback` and `FallbackError` are the path taken
while `processed_events` does not exist; an error of theirs may come before or
after the effect (a lost reply). An INSERT of an id another transaction
holds waits; a cycle of waits is broken by Postgres (`Deadlocked`).

**CatalogPipeline / SearchView** — `services/catalog/internal/{store,outbox}`,
`services/search/internal/{indexer,meili}`. The versions of a row stand for its
content. `Select`, `PublishAsync`, `Mark` are `flushOnce`; a failed flush may leave
publishes in flight (`late`). An indexer reads the row and then writes the
document, two steps between which others may write. `View == INSTANCE SearchView
WITH ...` is the refinement mapping: the index itself while a single loop writes
it (`SingleWriter`), nothing where a reindexer, an expired event or a late write
may set it back.

**IngestionQueue / CatalogStore** — `services/ingestion`, the BFF's producers;
`services/catalog/internal/{grpc,store}`. A session is a loop or an endpoint of a
replica. `Fetch` takes one message and decides by delivery count and payload; a
Jikan job runs `SelectAnime`, `InsertOrUpdateAnime`, `CommitAnime` and then
publishes the HiAnime job; a HiAnime job resolves the anime, keeps the list the
provider gave it and runs `UpsertEpisodes`, `CommitEpisodes`. Statements wait for
the rows and keys an open transaction has written; `Taken` and `Conflict` are the
primary key of `external_anime_ids` and the unique index on `(anime_id, number)`.
`JobError` fails with or without effect; `DeadLetter` drops the error of its
publish as the code does.

**CommentStore / PostgresCommentStore** — `services/social/internal/store`.
`VoteComment`, `SelectVote`, `WriteVote`, `UpdateScore`, `Commit` are the
statements of `Vote`; the vote input is cut to 16 bits before the gRPC service
checks it, while the REST handlers' JSON decoder refuses what does not fit. `drift` is
what overlapping votes of one user have added to a score for a vote that was no
longer the user's; `Store == INSTANCE CommentStore WITH ...` maps the score less
this drift.

**ActivityProgress** — `services/activity`, `services/bff/internal/handlers/activity.go`.
Like the comments worker, with the upsert `ON CONFLICT ... WHERE client_ts_ms <=
EXCLUDED.client_ts_ms`, the synchronous gRPC path, and rows locked until the
transaction ends.

**Pagination** — the three cursor listings: comments by time and by score,
continue watching. One client follows `next_cursor` while comments are created,
votes move them and progress moves episodes.

**Playback** — `services/bff/internal/handlers/watch.go`,
`services/streaming-resolver`, `services/hls-proxy`, `internal/platform/signing`.
`CacheHit`, `CacheMiss`, `ResolveEpisode`/`NotFound` (the catalog), `Execute`,
`Answer`, `Retry`, `CallError` and `Set` are GetPlayback; `Sign` ends Watch. Times are
relative to now (ages and what is left of lifetimes), so behaviours are infinite
without a bound on the clock.

**Analytics** — `services/analytics`, `internal/platform/analytics`. `Fetch`,
`DispatchNext`, `Call`, `Ack` are the consumer's loop; `Flush` is the client's
upload, which drops a batch that fails for good; `Crash` ends the process anywhere,
`Stop` (SIGTERM) between two batches, both without a flush. `missed` are the messages
whose own call was lost in one of these ways.

**Services / Lifecycle** — `services/*/cmd/*/main.go`,
`internal/platform/{run,db,natsconn,httpserver}`. `Services` has one record per
main: its steps before it serves, in order, what it serves, what an error of its
worker does, how it stops. `Lifecycle` is the process that runs such a record:
`StartStep`, `StartFails`, `Serve`, `Reconnect`, `WorkerReturns`, `Signal`,
`Elapse`, `Stopped`, with Postgres and NATS going away and coming back.

**Gateway** — `services/bff`, `internal/platform/{auth,api}`. `Routes` has one
record per handler: its group, whether it reads a body, whether it is cached, the
calls it makes. `Receive` is the middlewares and checks, `CallReturns` one call
with every outcome it may have: `Rejections` are the codes a service returns before
it writes, `Breakdowns` those that leave open whether it has written. Search reads
`indexed`, which follows the catalog's `version` late and may be set back (as in
`CatalogPipeline`); `LogoutSession` succeeds whether the session was revoked or not.
A limiter has one bucket per key (`Peers`): the address with its port, or the
forwarding header. Requests and cache belong to a process of `Lifecycle` and end with
it.

The `MC*` modules only give constants values.

## 5. Runs

| run | instance | checks |
|---|---|---|
| Auth | 2 handlers, 2 users, 3 sessions, administrator in two spellings, lifetime 0, clock to 1; symmetry | ParentDead, ChildWithinParentLifetime, LoginUnambiguous, AdminClaimsBootstrap, FamilyFrozen |
| Billing | 2 handlers, 3 events of the three types, 4 setups, 1 fault, 1 lost mark per event | PublishedIsSaved, PublishBound, EventuallyAcked, EventuallyProcessed |
| BillingLostEvent | 2 handlers, 1 payment, Postgres marks, 1 fault | AckedIsProcessed, **violated** (section 7) |
| Comments | 2 workers, 3 events, batches of 2, with the table and across its migration, one poison event each | ExactlyOnce, AckedIsApplied, EventuallySettled |
| Catalog | 1 anime, 2 versions, 1 fault: 2 publishers, 1 indexer, 3 outbox rows; or 1 publisher, an indexer and a reindexer, 2 rows, an expired event, late document writes | StaleIsPending, PublishBound, IndexMovesForward, EventuallyIndexed |
| Ingestion | 1 anime, 2 episodes, 2 deliveries: 2 replicas (4 loops) on 2 jobs; 1 replica with invalid payloads and 1 restart or dead loop; 1 with its endpoints; the endpoints of 2 while the provider changes its list | NoJobLost, OneAnimePerMalID, EpisodesAccepted, EventuallySettled |
| CommentStore | 1 comment, 2 users, 2 connections, drift up to 2 | ScoreIsSum, MatchesContract, EventuallyAnswered |
| Progress | 3 reports on 2 episodes, 2 workers, one report by gRPC, 1 fault, migration in between | RowIsNewest, AckedIsReflected, EventuallySettled |
| Pagination | 3 rows, pages of 1 or 2, limits 0–3, 3 listings | PagedOnce, EventuallyDone |
| Playback | 2 users, 1 retry, threshold 2, 2 probes, cache of 2 ticks, links of 1, master → variant → segment | LinkLifetime, SourceAge, EventuallyAnswered, BreakerRecovers |
| Analytics | 3 messages, 4 feeds covering every subject, batches of 2, 1 early redelivery, 1 fault (lost publish, ack, call or upload; crash; stop) | EventuallyAcked, EventuallyReceived |
| Gateway | 11 mains in and outside production with 2 outages and 2 calls; the BFF with every route, 2 requests at once where they share a key or a row, 2 limiter keys with a bucket of 4 and 2 per request, 2 changes of the catalog and any of the index, TTL 1 | InvalidationHolds, BucketBound, AnswerTruthful, OrderlyStop, FailFast, EventuallyCurrent |

What they show, in words: the comments above each property. All but
BillingLostEvent pass. The type invariants (`TypeOK`, in ActivityProgress and
Playback `ProgressTypeOK` and `PlaybackTypeOK`) are theorems of section 8 in every
module but Analytics, where `TypeOK` holds on the instance of its run; no run spends
its time on them. IssuedTokensExist, RevocationFinal, NoDoubleClaim and
CursorDescends, which the deeper properties of the runs rest on, are theorems too.

Three more configurations are not among the runs of `PROJECT.json`; each refutes one
statement of the repository about itself and gives TLC's counterexample (section 7):

| configuration | instance | violates |
|---|---|---|
| `AuthLogout.cfg` of MCAuthSessions | 1 handler, 1 user, 1 session | LogoutRevokes |
| `AnalyticsStop.cfg` of MCAnalytics | as Analytics | StopFlushes |
| `GatewayPerIP.cfg` of MCGateway | one limited route, 1 client with 2 keys | PerIPBound |

Why the bounds are enough to be interesting. Two processes are the least that
race, and every race found in the code is one between two. A batch of two and
three events give batches that overlap partly, the case in which two replicas
deadlock. One fault may hit any call at any time, and is followed by the whole
recovery; the properties that name a number of faults (PublishBound) are proved
for every number. A session family of three has a parent, a child and a
grandchild or two children. Three outbox rows on one anime with two versions let
an old event arrive after a newer write. MaxDeliver 2 distinguishes first, last
and exhausted delivery; two messages are a job and the one it creates, and also
two Jikan jobs of one anime. Two episodes with numbers up to two can swap, move
and disappear. Two users and two connections give two votes of one user and of two;
with a drift of two a wrong score can become more wrong. Three rows with pages of
one and two give full, partial and empty last pages. Threshold 2 and two probes
distinguish the counts of the breaker; a tree of three levels has a playlist that
was itself reached through a rewritten link. A bucket of four with two per request
and a window of three ticks sees a full bucket and two refills, and two keys are the
least that share an address; two versions after
the empty catalog let a slow request carry an old one past an invalidation.
`MaxReconnects = 2` and `StopTimeout = 1` stand for 5 and ten seconds: every count
below and at the limit happens.

`CHECK_DEADLOCK FALSE` is set where a behaviour ends: the catalog when writes and
faults are used up and the index is current, progress when every report is
settled, ingestion when every job is settled and no more fit the bound,
pagination after the last page, analytics when every message is acked, the gateway
when a process stays down.

## 6. Fairness

- Auth: none; its properties are safety.
- Billing: weak for a handler's steps (goroutines run on), strong for the
  delivery of an unacknowledged event: Stripe retries it, and net/http has a
  goroutine for it.
- Comments, progress, ingestion, analytics: weak for a worker's loop and for
  JetStream's redelivery (AckWait). Nothing is assumed about publishing, about
  success of a handler, or about a migration or restart. Progress also has strong
  fairness for the statement that waits for a row, because Postgres queues those
  who wait for a lock. Analytics also has weak fairness for the start of the
  process (its supervisor), for sourcing and for the client's upload interval, whose
  uploads succeed or are given up. In
  ingestion a handler's step ends, well or with an error, also one that waits for a
  row: Postgres serves those who wait in turn.
- Catalog: weak for the publisher's ticker, the indexer's loop, the reindex
  ticker and redelivery. That a flush ends is an assumption: its wait for the publish
  futures (`outbox/publisher.go:135`) has no timeout of its own.
- Comment store: strong for the next statement of a vote, again the lock queue.
- Pagination: weak for the client that follows the cursor.
- Playback: weak for a handler's steps, but not while it waits for the catalog for a
  client that is still there, and for the breaker's timeout. Calls to Redis and to the
  provider have timeouts; the call to the catalog (`grpcapi/service.go:110`) and the
  BFF's call to the resolver (`watch.go:41`) have no deadline other than the client's
  leaving. EventuallyAnswered excepts the first; that the resolver's reply reaches the
  BFF is an assumption. BreakerRecovers assumes in the property itself that the
  provider is back, clients wait and requests keep coming.
- Gateway: weak for the end of a stop, which waits for no one, for timers (the ten seconds, reconnects, the clock that expires cache
  entries) and for the error of a fetch on a closed connection. Nothing is assumed
  of the steps of a start, which wait for Postgres, NATS or the catalog without a
  deadline, of calls, of the index, of Postgres or of NATS.

## 7. What the code does otherwise than it says

Shown by a run or a configuration:

- **A payment can be lost** (`BillingLostEvent`).
  `services/billing/internal/handlers/webhook.go:81` marks the event before it is
  stored and never takes the mark back. After a failed INSERT, COMMIT or a crash,
  Stripe's retry is answered 200 as a duplicate, although
  `idempotency/store.go:16` says "Check returns true if eventID was already
  processed."

- **A Logout that revoked nothing is a success** (`AuthLogout.cfg`).
  `services/auth/internal/grpc/auth_service.go:157` drops the errors of the lookup and
  of the revocation, and the BFF answers 204, although `docs/openapi.yaml:82` describes
  the route as "Logout (revoke refresh token)". A test (`auth_service_test.go:353`)
  has it best-effort for an unknown token; the counterexample is about one that exists.
- **The limit is not per address** (`GatewayPerIP.cfg`).
  `services/bff/internal/http/ratelimit.go:62` keys the buckets by `RemoteAddr`, port
  included, or by the forwarding header as it comes, where lines 12 and 59 say "per-IP"
  and "by client IP". BucketBound says what holds: the limit of one key.
- **A stop of analytics loses what is buffered** (`AnalyticsStop.cfg`).
  `services/analytics/cmd/analytics/main.go:63` leaves through `os.Exit`, so the
  deferred `Close` (line 37), which "flushes buffered events"
  (`posthog/client.go:68`), never runs.

Met while modelling; the properties are stated so as to hold beside them:

- Two overlapping Refresh calls of one token both succeed
  (`auth_service.go:129`: the row count of the replacement is ignored), so that
  the rotation ADR-0007:15 decides on does not make a token single-use.
  ParentDead and FamilyFrozen say what remains.
- One event that cannot be applied keeps its whole batch from being committed,
  for ever: no delivery limit and no DLQ (`comments_consumer.go:383`,
  `progress_consumer.go:139`), where ADR-0005:18 has a DLQ for messages that could
  not be processed after N attempts.
- The fallback create inserts into the missing table and goes on in the aborted
  transaction (`comments_consumer.go:437`): without the table, comments are never
  created.
- The error of a publish to the DLQ is dropped and the job acknowledged
  (`ingestion/internal/queue/worker.go:125`). NoJobLost names it.
- Two overlapping votes of one user leave a wrong score
  (`comments_postgres.go:225`): both read the old vote before either writes. The
  same vote twice is idempotent in `comments_test.go:125`, which runs on the
  in-memory store. MatchesContract says exactly what remains: everything but the
  score, and the score up to the old votes that were taken for current.
- Once HiAnime renumbers an episode, or gives it another id, the unique index on
  `(anime_id, number)` (`migrations/000001_episodes.up.sql:11`) can refuse every
  later list of that anime (`store/postgres.go:301`): its job goes to the DLQ each
  time. EpisodesAccepted makes that one exception. `AttachExternalAnimeID` has no
  caller in the repository.
- `db.Open` returns neither a pool nor an error when its pings fail for 30 seconds
  (`internal/platform/db/db.go:44` returns the outer `err`, which is nil, because
  the ping's is declared in the `if`): the service goes on and panics at its first
  query.
- On SIGTERM the HTTP services leave at once (`run.go:37` returns while `Shutdown`
  still waits for the calls); CallsFinish claims the drain for the gRPC services
  only.
- A NATS connection is closed for good after a few reconnects
  (`natsconn.go:40`). Only the search indexer takes its process down then; the
  catalog's publisher (`outbox/publisher.go:81`, whose errors count only while it
  ensures its stream) and the loops of activity, social and analytics log errors for
  ever, and the ingestion
  worker ends with a log line (`ingestion/cmd/ingestion/main.go:121`) while the
  process stays up. In `docker-compose.yml` only analytics has a restart policy.
- A request that was under way when its key was invalidated stores what it read
  before (`bff/internal/handlers/cache.go:72`); InvalidationHolds and
  EventuallyCurrent bound what that can do. Search caches what Meili shows, which lags
  behind the catalog: a request begun after the invalidation of an update may cache the
  answer of before it, for a TTL. InvalidationHolds compares with what the index has
  shown since; EventuallyCurrent requires that it has caught up, which is
  EventuallyIndexed of the Catalog run. `GetRating` is registered as a public
  route, although the comment above it (`ratings.go:17`) speaks of the caller's
  own rating.
- A batch of 200 analytics events that outlasts AckWait is captured twice
  (`analytics/internal/consumer/consumer.go:72`); PostHog gets no id by which it
  could tell.
- Progress sent on the asynchronous path is never marked completed
  (`bff/internal/handlers/activity.go:73`), so `episode_completed` is never
  captured either (`analytics/internal/handler/handler.go:170`).
- The cursor of continue watching is cut to milliseconds (`postgres.go:78`)
  while the column has microseconds: rows of one millisecond can be skipped,
  although ADR-0011:69 wants an order on which the cursor works. PagedOnce says "at most once" there.
- Analytics acknowledges an event when it is buffered (`consumer.go:73`): a crash, or an
  upload that fails after the client's retries, loses it. `ensureStream`
  (`consumer.go:106`) updates the stream only when the error
  is not "name in use". Handlers read fields at the top level that the publisher
  nests under `properties`.
- Cancelled clients count as failures of the breaker (`hianime/client.go:145`);
  empty playbacks are cached for the full TTL; the rewriter escapes the `?` of a
  relative reference with a query (`rewriter.go:97`).
- Waits without an end: the publish future (`outbox/publisher.go:136`); at the start,
  PromoteAdmin (`auth/cmd/auth/main.go:58`) and ReindexAll
  (`search/cmd/search/main.go:72`) on `context.Background()`, so that a start may hang
  (no property claims that it ends); the resolver's call to the catalog and the BFF's to
  the resolver (section 6). A fetch error ends an ingestion loop for good
  (`worker.go:109`; EventuallySettled makes the exception); an interrupted bulk import is not
  resumed (`ingestion/cmd/ingestion/main.go:134`).

## 8. Proofs

Eight modules, checked by TLAPS for every value of the constants that satisfies
the named ASSUMEs (`AuthAssumption`, `BillingAssumption`, ...; TLC evaluates them
in each run). Each proof has an inductive invariant (`IInv`, `ProgressInv`,
`PlayInv`), lemmas that every action preserves it, by conjunct or by action, and
theorems that follow from it. Two proof modules are about two components each;
that is why ActivityProgress and Playback call their specifications `ProgressSpec`
and `PlaybackSpec`.

- **AuthSessionsProofs.** TypeCorrect, Rotation, Lifetime, Issued, Finality,
  Frozen, UnambiguousLogin, AdminIsBootstrap. ParentDead alone is not inductive:
  between the replacement and the creation only the handler knows the parent.
  `ReqOK` types the locals by control point, `Fresh` keeps drawn ids unused by
  anyone else, `Exchange` says that a handler about to create has a dead parent
  and read its clock within the parent's lifetime, `Lineage` is the same of the
  stored child. `AccountsInv` (unique names; who is admin) serves the last two
  theorems.
- **BillingWebhookProofs.** TypeCorrect, PublishAfterCommit, AtMostOncePerMark.
  `ClaimBound` counts the handlers that passed the check besides the messages
  published: together they never exceed the marks.
- **CommentsConsumerProofs.** TypeCorrect, EffectsExactlyOnce, NoLostEvent,
  ClaimsDisjoint. `Batching` says what a worker at each point has done with its
  batch, `Marks` that effects and ids were committed together.
- **CatalogPipelineProofs.** TypeCorrect, NoLostUpdate, PublishedOnce,
  Refinement (`Spec => View!Safety`). `Forward`: what the
  indexer holds is not older than the document. `Covered` and `NewerWaits`: a
  stale document has a row that is neither published nor acknowledged too early,
  also when the indexer has read the row before the newer write. `RowsOK`,
  `LocksOK`, `AttemptsOK`, `IndexersOK` tie outbox, locks, publishes and indexers
  together.
- **PostgresCommentStoreProofs.** TypeCorrect, ScoreCorrect, Refinement (`Spec =>
  Store!Spec`, the commit is the linearisation point), all without an assumption
  on how votes overlap. `Located` places a session's arguments; `Exclusive`: where
  no votes have overlapped, no two sessions vote for one user on one comment;
  `Fresh`: there, the vote that was read is still the stored one, so that the
  difference a vote adds is the difference it makes.
- **IngestionQueueProofs.** TypeCorrect, JobsKept, OneAnime, EpisodesTaken.
  `Placed` says where a session at each control point has its job and its
  transaction. `Exclusive` is what row locks and keys give: open transactions never
  write the same anime or slug, and what one found out before it wrote still holds
  when it commits. `Arrived`: what is done of a job at each point, so that one about
  to be acknowledged is done. `Agreed`: until HiAnime takes a number back, every
  list on its way to the catalog is part of what it lists now, so that two syncs
  never bring conflicting lists.
- **PaginationPlaybackProofs.** Pagination: TypeCorrect, CursorsDescend,
  EveryRowOnce. `SplitByCursor`: of the rows that kept their place, those above the
  cursor have been returned and those below have not. Playback: PlaybackTypes,
  LinksExpire, SourcesExpire. The age of what is watched is bounded only together
  with what is left of the lifetimes: `CacheAge` (an entry's age and its TTL make up
  CacheTTL or a tick more), `AgesAt` (what a Watch at each point holds and how old
  it is; what a link has left and the time since its Watch make up LinkLife, and its
  signature is that of its URL and expiry).
- **GatewayProgressProofs.** Gateway: TypeCorrect, InvalidationKept, LimitKept,
  AnswersTrue (all but Logout's), and CallsFinish: a graceful stop cuts no call off
  before its timeout. `Active` says what a request in progress has done, read and been
  overtaken by; `Clean` that its source still shows at least the version a key was
  cleared at; `Drawn` adds, for each key, what its bucket would hold
  now to what it has paid out, in every span up to Window; `LifeInv` that a process has
  no calls before it serves and connects to NATS in one step of its start.
  ActivityProgress: ProgressTypeCorrect, RowsNewest, AckedReportsKept. A commit
  replaces rows that were read earlier, so `DraftAt` says that what a transaction is
  about to write is the newest of the row as it is now and of what it has applied;
  `Exclusive` (no two open transactions on one row) keeps that true while others
  commit. `HeldAt`: each report of a batch is to do, claimed or applied; `RowAt`: a
  row is the newest of what was applied to it.

Only model-checked: every liveness property, OrderlyStop, FailFast and all of
Analytics' run among them (fairness is out of TLAPS' reach in
this version).

## 9. Not modelled

- Generated protobuf and gRPC code (a third of the repository's Go): it has no
  behaviour of its own beyond the calls the modules make.
- The scores of ratings and the social service's REST handlers for them: one UPSERT
  per call on a key nobody else writes. SQL reads of the catalog and Meili's
  filters: translations of a request without state. The streaming service's
  handler: a stateless passthrough.
- bcrypt, HMAC and JWT, the text of playlists, titles and slugs, headers, logging,
  metrics and configuration.
